# Go-Invoicing: a TLA+ model of the invoicing API

The repository is a multi-tenant invoicing API: a Go server over PostgreSQL, a
web frontend, and a separate renderer service for invoice layouts. Requests run
on goroutines of one or more server processes and meet only in the database.
Nearly everything that can go wrong is an interleaving of database statements:
what one request read may be stale when it writes, a transaction may stop
between any two statements, and a client repeats what it got no answer to. The
modules here model the handlers at that grain. One action of a module is one
database statement together with the Go code that follows it up to the next.

## Inventory

| component | state it keeps | operations | what makes it correct |
|---|---|---|---|
| invoice lifecycle and payments (`internal/invoice`) | `invoices` row (status, `sent_at`, snapshot columns), `payments` rows with key and fingerprint | Send, Cancel, CreatePayment, GetByID, List, GetPayments | no overpayment; paid exactly when the balance is cleared; a key pays at most once and an acknowledged payment is recorded; snapshot set once, when the invoice is issued |
| invoice creation and numbering (`InvoiceService.Create`) | `settings.invoice_number`, new `invoices` and line rows | Create | numbers unique and without gaps; only active customers |
| settings (`internal/administration`) | `settings` row with its version | Get, Update with If-Match | no lost edit; numbering does not disturb editors |
| customers (`internal/customer`) | `customers`, `addresses` rows | Create, List, SetStatus, UpsertBillingAddress | archived only without open invoices; one billing address |
| templates (`internal/template`) | `invoice_templates` rows | Create, Update, Delete, SetDefault, List | exactly one default; Classic never edited or deleted; no lost edit |
| snapshots and PDF (`invoice_party_snapshot.go`, `invoice_pdf_service.go`) | the snapshot columns; reads live data for drafts | buildPartySnapshot, buildTemplateSnapshot, Generate | an issued invoice never changes appearance; one document never mixes two states |
| organisations, logos | `organisations`, `organisation_logos` rows | Create, Update with If-Match, SetLogo, RemoveLogo | no lost edit; a logo an invoice refers to stays |
| users, roles, registration | `users` rows, the first rows of an organisation | Register, Create, RequireRole | all or nothing; one account per email |
| sessions and the cleanup worker | `sessions` rows | Login, RequireAuth, Logout, DeleteExpired | a revoked or expired session never authenticates; the worker deletes only expired ones and stops at shutdown |
| rate limiter (`internal/ratelimit`, `internal/httpx`) | a bounded map of token buckets | Allow, sweep, ClientAddressKeyFunc | bounded memory; no client exceeds its rate, by forged headers or otherwise |
| migrations, server lifecycle | schema version, advisory lock; signals and goroutines | runMigrations, runServerLifecycle | one migrator at a time; drain before close |
| products, configuration, metrics, HTTP helpers, renderer client, sample data, frontend, release tool | independent rows or none | | no behaviour over time that two actors share |

How they interact: every component is called by an HTTP handler behind
`RequireAuth`; services call each other's repositories inside one transaction
(`WithTx`), the transaction being the only coordination there is. Invoices read
customers, products, the organisation, its settings and its default template.
Create shares the settings row with the administrators who edit it. Send and
Cancel copy the live rows into the invoice. The cleanup worker is the only
background goroutine.

What is hard: row locks taken late or not at all (`FOR UPDATE` in Send, Cancel,
CreatePayment and Create; none in SetDefault, SetStatus and the reads), READ
COMMITTED statements that each see another state, commits whose acknowledgement
is lost, retries with an idempotency key, optimistic versions, partial unique
indexes, process crashes and request cancellation. `PROJECT.json` lists each
hazard at its line, with the properties that would catch it going wrong.

## Plan

Done in this order, the most important behaviour first:

1. `InvoiceLedger`, `InvoiceLifecycle`, `InvoiceLifecycleProofs`: money.
2. `TemplateCatalogue`, `InvoiceTemplates`, `InvoiceTemplatesProofs`: the default
   template that every Send depends on.
3. `InvoiceRegister`, `InvoiceCreation`, `InvoiceCreationProofs`: numbering,
   settings edits and the customer archive rule.
4. `InvoiceDocuments`, `InvoiceDocumentsProofs`: snapshots, VAT, logos and PDFs
   against every change of the data they are made from.
5. `Accounts`, `AccountsProofs`: registration, users, roles and sessions.
6. `RateLimiter`, `RateLimiterProofs`: buckets, sweeps, the overflow bucket and forged headers.
7. `Server`, `ServerProofs`: migrations, start, shutdown and the cleanup worker.
8. `SumTheorems`: the lemmas on sums that the proofs of 1 and 6 need.

Worth adding: the arithmetic of lines and totals and the ETag parser, as
operators checked against reference definitions. No module uses a RECURSIVE
operator.

## The modules and the code

### InvoiceLifecycle, InvoiceLedger

One invoice and the workers (handler goroutines) that serve requests for it.

| model | code |
|---|---|
| `invoice` (status, total, snapshot, sentAt) | the `invoices` row; the snapshot is one value, a version of the live data |
| `payments`, `TotalPaid` | the `payments` rows, and `SUM(amount)` over them, computed at each read as the code does |
| `live` | the organisation, customer, settings and default template that a snapshot copies |
| `lock` | the row lock of `SELECT ... FOR UPDATE` |
| `inv[w]`, `staged[w]` | the `*Invoice` in memory; what the open transaction has written |
| `Receive` | decoding, `ValidateIdempotencyKey`, `Payment.Validate` |
| `GetForUpdate` | `BEGIN` and the locked read |
| `SendCheckDraft`, `BuildSnapshot`, `MarkSentWithSnapshot` | `InvoiceService.Send` |
| `CancelCheckUnpaid`, `BuildSnapshot`, `MarkCancelled` | `InvoiceService.Cancel` |
| `LookupKey`, `CheckBalance`, `InsertPayment`, `SettleInvoice` | `InvoiceService.CreatePayment` |
| `Commit`, `CommitUnacknowledged`, `Rollback` | `COMMIT`, a `COMMIT` whose answer is lost, the deferred `tx.Rollback` |
| `ReadInvoice`, `ReadTotalPaid` | `InvoiceService.GetByID`, which Send and Cancel also answer with |
| `Abort`, `Crash` | a failed statement or cancelled context; the end of the process |

A snapshot is built in one step: it is only copied here, and the separate reads
behind it belong to `InvoiceDocuments`. Payment requests are told apart by
their body, which stands for everything the fingerprint covers. The overdue
status is derived when a response is built and never stored, so it is no state.

`InvoiceLedger` is what a client may rely on: issue, void and honour a payment,
each in one step. `ImplementsLedger` maps the status to the phase, the snapshot
to the document, `Outstanding(invoice)` to what is outstanding and the recorded
keys to the honoured ones. `Refused` is the answer to a request that the rules
do not allow; other errors leave no response.

### InvoiceTemplates, TemplateCatalogue

The templates of one organisation. `rows` is what is committed, `pending` and
`lock` what a statement or a transaction in progress has written. SetDefault
runs `Scan`, `Unset`, `Set` and `Index`, the two UPDATEs of the repository:
each picks its rows from what is committed when it starts, waits for rows that
another transaction has written, evaluates its WHERE again, and commits by
itself. Delete runs `SoftDelete` and, if the template it read was the default,
the same two UPDATEs inside its transaction. `Index` is the insertion into the
partial unique index, which waits for a conflicting row still uncommitted and
then refuses a second default. Update checks the version in its WHERE (`Save`).
Identifiers are never reused. A name or a definition is one content value.

`TemplateCatalogue` is the same without transactions: templates are added,
edited and removed in one step each, and the default, if there is one, is
listed. `Remove` is what `template_service.go` promises of a Delete: removing
the default makes Classic the default in the same step. What the code does
besides has actions of its own, so that the refinement names every deviation:
another default is chosen in two steps with none in between (`Deselect`,
`Choose`; finding 1), and a removal that goes by an old default leaves none
(`RemoveDefaultUnseen`; finding 2) or takes the default from a template chosen
since (`RemoveFormerDefault`). `ImplementsCatalogue` maps the live rows to what
is listed, the deleted ones to what is removed, and the row with the flag to the
default.

### InvoiceCreation, InvoiceRegister

The settings row of one organisation, one customer, and the invoices. Creation
is `ReceiveCreate`, `CheckCustomer` (before `BEGIN`), `LockSettings`,
`Allocate`, `Insert`, `Commit`. An edit is `ReceiveEdit` with the ETag of an
earlier read, `CheckVersion` (read, compare, merge) and `Save` (the UPDATE with
`WHERE version`), which has to wait for the row lock. `SetStatus` is one UPDATE
with its NOT EXISTS; it sees committed invoices only and is not blocked by the
foreign key of an uncommitted one, whose lock on the customer (FOR KEY SHARE)
does not conflict with an update of the status. `Itoa` is a constant operator: the theorems
assume of it only that different numbers have different texts; `MCItoa` is the
decimal rendering of the run's numbers. Products, lines and amounts are left
out: no property here depends on them.

`InvoiceRegister` is the book an auditor would want: each invoice entered in one
step under the next number, no two entries alike, an entry never altered but
closed once, and an edit of the settings that changes one field and no entry. It
has no counter and no lock. `ImplementsRegister` maps each invoice to its text
and whether it is open, and leaves the stored counter out: that the counter
always agrees with the length of the register is part of what is shown.

### InvoiceDocuments

One organisation with its logo, settings, default template and one billing
address, and one invoice that is issued and printed. The invoice starts as a
draft or as an invoice issued before snapshots, or before template snapshots,
existed.

| model | code |
|---|---|
| `org` (details, VAT number, VAT status, logo, version), `logos` | the `organisations` row and the IDs in `organisation_logos` |
| `currency`, `address`, `template` | `settings.currency`, the billing address row, the default template |
| `GetForUpdate`, `MarkIssued` | the locked read and the UPDATE with COMMIT of Send and Cancel |
| `ReadOrganisation`, `ReadSettings`, `ReadAddress`, `ReadDefaultTemplate` | the statements of `buildPartySnapshot` and `buildTemplateSnapshot`, and of `buildDraftPartyData` for a PDF |
| `ReadInvoice`, `ReadPaid` | `BuildData`: the first read, the total paid, the choice between live data and snapshot |
| `ResolveTemplate`, `Render`, `Deliver` | the second read of the invoice, the choice of the renderer and the logo, the response |
| `MergeEdit`, `SaveEdit` | `OrganisationService.Update` and its `UPDATE ... WHERE version` |
| `SetLogo`, `RemoveLogo`, `ReadLogoID`, `GetLogo` | the logo operations, which leave the version alone |
| `Pay`, `ChangeLiveData` | what other modules model in detail, as one step each |

### Accounts

Anonymous requests register and log in; requests with a token log out, create a
user or read users; the cleanup worker deletes. `provisioned` stands for the
settings row and the Classic template of an organisation. A registration whose
rows nobody else can see yet is its place in `pc` and the email it holds in
`claims`, the entry of its uncommitted row in the unique index; COMMIT publishes
all four rows. `CreateSession` is the two statements of the login transaction.
`GetSession` and `Identify` are `RequireAuth`, a read of the session and a later
judgement of what was read. `StartBatch` takes the worker's `time.Now()`, and
`DeleteExpired` is one bounded DELETE. `dead` and `by` are history: whether the
token was good when the request arrived, and who created a user. A token stands
for its hash, and passwords are left out: a wrong one changes nothing.

### RateLimiter

One limiter. `Request` is `ClientAddressKeyFunc` and `Allow`, which holds the
mutex from beginning to end, so it is one step; `BucketFor` and `SweepDue` are
its inline sweeps and the shared bucket. A bucket is its level and the time it
was last seen, in ticks, as golang.org/x/time/rate keeps it. `KeysOf` says how a
request can reach the server: directly or through one or two trusted proxies
that append to `X-Forwarded-For`, with any entry forged in front. `ideal` is the
limiter that never forgets a bucket, `promise` the last Retry-After.

### Server

Several processes of several releases on one database. `ctl` is where `main` is:
migrating (`Lock`, `ReadVersion`, `MarkDirty`, `Apply`, `MarkClean`, `Unlock`, as
golang-migrate's `Up` does it under the advisory lock) or checking the schema,
opening the pool, serving, draining, waiting for the worker, closing the pool.
`Die` is a kill or a failed start at any point. Requests are counted, those that
hold a connection apart (`conns`). The worker deletes batch after batch, asks
its context between them, and otherwise sits in its select. `late` remembers
that a shutdown ran into its timeout.

## Runs

`tlc -config <cfg> <module>`. All bounds are in the .cfg files or in guards that
name them (`MaxVersion`, `MaxNumber`).

| run | shows | bounds, and why they suffice |
|---|---|---|
| `invoice_lifecycle` | every property of the lifecycle, the refinement, and that each request is answered | two workers, two keys, an invoice of 3 or of 0 (which is never payable), payments of 0, 1 and 2, two versions: partial payments, exact settlement, two payments that fit alone but not together, a retry after the settlement, key reuse with another body; the lock makes every conflict one of two requests |
| `templates` | at most one default, atomic reversion, frozen rows, no lost edit, the refinement of the catalogue | two workers over Classic and two templates: every pair of requests at every statement |
| `template_default_lost` (violation) | an interrupted SetDefault leaves no default, against `template_repository.go:72` and `template.go:62` | as above, one content |
| `delete_loses_default` (violation) | a Delete whose template became the default after it was read leaves no default, against `template_service.go:137` | two workers: one deletes, one sets the default; one template besides Classic |
| `invoice_creation` | numbering, uniqueness across prefixes, no lost edit, the refinement of the register | nine invoices issued and prefixes "I" and "I1": number 11 is where two numberings spell the same text; two edits |
| `archived_customer` (violation) | an archived customer with an open invoice, against `customer_repository_postgres.go:278` | one creation |
| `invoice_documents` | what an issued invoice shows never changes, a paid one asks for nothing, no lost edit, no missing logo or VAT number | two workers, so every pair of requests interleaves at every statement; a value and no value of whatever a property compares, two templates; patches that register, deregister, set and clear the number; one saved edit; payments in halves |
| `invoice_vat_number` (violation) | an invoice with VAT and without the VAT number, against `invoice.go:98` | one worker |
| `document_sources` (violation) | one document from live and frozen data, against `invoice_pdf_service.go:269` | two workers: one prints, one sends |
| `accounts` | complete organisations, unique emails, dead tokens refused, reads inside the organisation, sessions that end for a reason | two handlers and the worker; two organisations, emails, users and tokens: an email registered twice, a user of each organisation, a second session of one user; a lifetime of one tick, batches of one session |
| `rate_limiter` | the bounds of memory, of one client and of a flood; forgetting changes no decision; Retry-After is enough | five addresses, one a proxy, on four keys with room for two, so the shared bucket is used and left again; one and a half sweep intervals; seconds of more than one tick, so that rounding matters |
| `server` | migrations once, no unready schema, the pool closed last, shutdowns and backlogs end | a release step, an old server that migrates on startup and a new one that checks; two migrations; more expired sessions than a batch |

Deadlock is checked in every run: a client can always send another request.
The servers can always be started again; the rate limiter always takes another
request. Symmetry is used where no liveness is checked and it is sound. Three requests on the templates
can wait for each other in PostgreSQL; it aborts one of them, which is `Abort`.

Definitions whose names end in `Mutant` are planted bugs, a dropped guard or a
missing reset, each beside the definition it would replace. No specification
uses them; for each property `PROJECT.json` names one that violates it.

## Fairness

`invoice_lifecycle` checks liveness under `FairSpec`: weak
fairness of each worker's next statement, since a goroutine that can run does,
and strong fairness of taking the row lock, since PostgreSQL queues the waiters
of a row. Nothing is assumed of clients, crashes or failures.
`EveryRequestAnswered` then says that no early return leaves the row locked and
nobody waits for ever.

`server` assumes, of servers only, weak fairness of `main`'s next step, of the
worker's next step and of the end of a transaction, since the runtime schedules
both goroutines, the shutdown timeout passes, and statements return. Two
fairness conditions are strong. `WorkerStops`: the worker's select is offered
the cancelled context again after every iteration and picks at random between
it and the ticker. `DeleteBatch`: the database does not refuse every cleanup.
Nobody is assumed to send a signal, to start a process or to spare one.
`ShutdownEnds` then says that no request and no batch holds a shutdown up, and
`BacklogDrained` that one failed statement does not end the cleanup.

## Proofs

`tlapm` checks eight modules of proofs from the assumptions named in the modules
(the bodies have integer amounts, the totals are natural numbers, the null values
are not values, a release embeds at least one migration). They hold for any
number of workers, keys, bodies, versions, users, sessions, processes,
migrations, templates, clients, proxies and buckets.

*Lifecycle.* The safety invariants are not inductive by themselves: that an
invoice is not overpaid after a COMMIT depends on what the transaction checked
several statements earlier. The strengthening is `TransactionsConsistent`, the
argument of the comments in `CreatePayment`: exactly the holder of the row lock
is inside a transaction, so the row it has in memory is the committed one, every
condition it checked still holds, and what it has staged is one legal transition
(`LockHeld`, `OpMatches`, `RowCurrent`, `PaymentFits`, `StagedLegal`).
`Invariance` proves it with `TypeOK`, `NeverOverpaid`, `StatusMatchesPayments`,
`ExactlyOncePerKey` and `SnapshotIffIssued`, one lemma per action. The action
property `SnapshotImmutable` and the refinement `LifecycleImplementsLedger`
follow: a COMMIT is one step of the ledger, every other step a stutter.
`ResponsesConsistent` rests on `StatusMovesForward`: between the two reads of a
response a status that was not draft stays so, and a paid or cancelled one does
not change, so the total read later still fits it (`ReadSound`).
`RetriesAnswered` is the other half of idempotency: a payment is refused only
where its key was unused, or used with another body, when the lock was taken,
and the lock keeps that so until the request ends.

*Creation.* `AllocationConsistent` says the same of the settings row: between
the locked read and COMMIT the settings in memory are the committed ones, and
the number found free is still free. With `NumbersConsecutive` and
`NumbersUnique` it is inductive. `EditsConsistent` says that equal versions mean
equal contents, from which `EditsNeverLost` follows. From the same invariants
comes `CreationImplementsRegister`: at a COMMIT of Create the counter in memory
is the length of the register plus one and the number is still free, so the step
is `Enter`; a saved edit differs from the current row in the patched field only.

The type invariants of all modules and `TransactionsConsistent`,
`AllocationConsistent` and `EditsConsistent` are proved; except for the rate
limiter's `TypeOK`, which bounds its memory, they are in no run's list: they are
the arguments, not the promises.

*Documents.* What makes a PDF stable is a relation between what the request has
read and what is committed now. `IInv` states it per step of a request
(`Knows`): the holder of the row lock has the committed invoice in memory; a
reader of an issued invoice has its party and template, because the only step
that rewrites them starts from a draft or copies them (`Printer`, `Issuing`); a
merged row is the patched current row as long as the version is current
(`Merged`), which gives `OrganisationEditsAtomic`. `KnowsKept` says once what
other workers' steps preserve.

*Accounts.* `Handling` says what a handler knows at each step: the email it
holds is nobody's, the caller is a user, a token that was dead on arrival is
still dead (`Alive` never comes back), a role it will write is one the caller
may assign. `AccountsTypeCorrect` and `NoPrivilegeGained` (`PrivilegesDescend`: no
chain of creations gains privileges) are proved and in no run's list.

*Server.* `Migration` says what the holder of the advisory lock knows of the
schema: at "apply" the version is marked dirty and not applied, at "mark" it is
applied once. A process killed in between leaves the dirty mark, which keeps
everybody else from going on.

*Rate limiter.* `SweepChangesNothing` is nearly inductive: a bucket is dropped
only when it has refilled, so its successor is the same bucket. On top of it
`TokensPaid` counts what a client got, what its bucket still holds and what the
shared one holds against the time gone by, and `PromiseKept` says that what was
missing at a refusal is earned by the promised time. `BehindProxies` shows, for
headers and chains of proxies of any length, that what a client puts in front
does not change its key. For `FloodBounded` the account is kept for all clients
together (`FloodPaid`): what they got is missing now from the buckets in the
table or from the shared one, or has been earned back. Only a bucket in the
table can have something missing, so at most `MaxKeys` and the shared one earn
at any time.

*Templates.* What has to be carried from the check of the unique index to COMMIT
is `Entered`: no other row is a default in the transaction's view, and nobody
else waits at COMMIT with one, since the index makes the second of two such
transactions wait. `Pending` says that a row lock keeps the row live and its
content committed, `Edits` that equal versions mean equal contents. The safety
theorems follow; `DefaultBetweenRequests` (finding 1) and `DeleteKeepsDefault`
(finding 2) do not hold. For `TemplatesImplementCatalogue` the invariant also says what a transaction has
written so far (`Wrote`): a Delete the row of its request, and flags of other
rows only if its template was the default when it read it; a SetDefault one
flag. So a COMMIT of Delete is `Remove`, or `RemoveDefaultUnseen` or
`RemoveFormerDefault` if the default has moved to or from its template since it
was read, and every other COMMIT is one of the remaining steps of the catalogue.

*Sums.* `SumFunctionOnSet` is a fold, and folds are recursive. `SumTheorems`
shows from the community module's definition that the recursion has one solution
on a finite set, and that an element may be taken out, added or changed with the
effect one expects. Induction on a formula is out of the prover's reach; the
induction here is on a set (the subsets for which the claim holds), which first
order logic can state.

Model-checked only: the liveness properties (`EveryRequestAnswered`,
`ShutdownEnds`, `BacklogDrained`); fairness and ENABLED are out of the prover's
reach. Every other property of a passing run is proved for all values of the
constants that satisfy the named assumptions.

## Findings

1. SetDefault is not atomic (`template_repository_postgres.go:251`, called
   outside a transaction at `template_service.go:188`). Interrupted or refused
   between its UPDATEs it leaves no default, and every Send fails until someone
   selects a template again.
2. Delete hands over to Classic if its template was the default when `GetByID`
   read it (`template_service.go:162`), without a lock. If a SetDefault of the
   same template commits before the soft delete, the organisation has no default,
   although neither request failed.
3. A customer can be archived under an invoice that is being created
   (`invoice_service.go:242`): the check comes before the transaction, and no
   lock on the customer makes it last.
4. The VAT number on an invoice follows the organisation's VAT status when it is
   sent, its VAT figures the status at creation (`invoice_service.go:1211`): an
   invoice can carry VAT without the number, against `invoice.go:98`.
5. The PDF service reads the invoice twice (`invoice_pdf_service.go:136`): a Send
   in between gives one document with live party data, marked as a draft, in the
   frozen layout.

Seen in the same models, with no run of its own: the comment in
`invoice_handler.go:332` takes an invoice just sent to be unpaid, but Send answers
with reads after its COMMIT, and a payment may have committed in between.
`ResponsesConsistent` therefore does not claim it.

## Not modelled

PDF layout, formatting, configuration, metrics, HTTP plumbing, the renderer, the
frontend and the release tool keep no state that two actors share. Products and
sample data are independent rows. The invoice arithmetic is a pure function of
one request. List and the other read-only queries are left out, except where a
response is built from more than one read or its scope is the point (users).
`OrganisationService.Create` has no caller. Of the modelled parts: `is_active` of
a user, which nothing clears; `last_login`; filters and pages; repairing a dirty
schema by hand; down migrations; a worker that is switched off; the limits of
several processes, which `README.md` of the repository says do not add up.
