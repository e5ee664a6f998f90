-------------------------- MODULE InvoiceLifecycle --------------------------
(***************************************************************************)
(* One invoice, and the requests that send it, cancel it, pay it and read  *)
(* it, as internal/invoice executes them: each request runs on a handler   *)
(* goroutine of its own (a worker), in a READ COMMITTED transaction that   *)
(* takes the invoice row's FOR UPDATE lock first. A step of a worker is    *)
(* one database statement with the Go code that follows it up to the next  *)
(* statement. What a transaction has written stays in staged until its     *)
(* COMMIT; an error at any statement, a crash, or a COMMIT whose answer is *)
(* lost ends it early. Clients repeat, reorder and duplicate requests at   *)
(* will, with the same idempotency key or another.                         *)
(***************************************************************************)
EXTENDS Integers, Sequences, Functions

CONSTANTS Workers,     \* handler goroutines
          Keys,        \* Idempotency-Key values ValidateIdempotencyKey accepts
          Bodies,      \* payment requests, up to what their fingerprint covers
          AmountOf,    \* the amount each body asks to pay, in pence
          Versions,    \* contents of the live seller, customer and layout data
          Totals,      \* the totals an invoice can have: zero is one of them
          Unlocked,    \* the row lock is free
          NoSnapshot,  \* the snapshot columns are NULL
          Refused,     \* the answer to a request that its rules do not allow
          None         \* no request, no response, nothing staged

Statuses == {"draft", "sent", "paid", "cancelled"}
InvoiceRow == [status : Statuses, total : Totals, snapshot : Versions \cup {NoSnapshot},
               sentAt : BOOLEAN]
PaymentRow == [key : Keys, hash : Bodies]

PayRequests   == [op : {"pay"}, key : Keys, body : Bodies]
PlainRequests == [op : {"send", "cancel", "get"}]
InvoiceResponses == [op : {"send", "cancel", "get"}, status : Statuses, total : Totals,
                     amountPaid : Int]

ASSUME BodyAssumption  == AmountOf \in [Bodies -> Int]
ASSUME TotalAssumption == Totals \subseteq Nat
ASSUME NullAssumption  == /\ Unlocked \notin Workers
                          /\ NoSnapshot \notin Versions
                          /\ None \notin InvoiceRow \cup PaymentRow
                          /\ None \notin PayRequests \cup PlainRequests
                          /\ {None, Refused} \cap InvoiceResponses = {} /\ None # Refused

VARIABLES
          invoice,    \* the committed invoice row
          payments,   \* the committed payment rows, in insertion order
          live,       \* the seller, customer and layout data a snapshot copies
          lock,       \* the worker whose transaction holds the row lock
          pc,         \* the next statement of each worker
          req,        \* the request each worker is serving
          inv,        \* the *Invoice each worker has in memory
          staged,     \* what each worker's open transaction has written
          resp,       \* the last invoice a worker showed its client, or its refusal
          acked       \* the payments some client has seen succeed

vars == <<invoice, payments, live, lock, pc, req, inv, staged, resp, acked>>

-----------------------------------------------------------------------------
NothingStaged == [row |-> None, payment |-> None]

(* The statements between taking the row lock and releasing it. *)
InTransaction == {"checkDraft", "checkUnpaid", "snapshot", "markSent", "markCancelled",
                  "lookup", "balance", "insert", "settle", "commit"}
Steps == {"idle", "lock", "read", "readPaid"} \cup InTransaction

Init ==
  /\ invoice \in [status : {"draft"}, total : Totals, snapshot : {NoSnapshot}, sentAt : {FALSE}]
  /\ payments = <<>>
  /\ live \in Versions
  /\ lock = Unlocked
  /\ pc = [w \in Workers |-> "idle"]
  /\ req = [w \in Workers |-> None]
  /\ inv = [w \in Workers |-> None]
  /\ staged = [w \in Workers |-> NothingStaged]
  /\ resp = [w \in Workers |-> None]
  /\ acked = {}

-----------------------------------------------------------------------------
(* The domain rules of invoice.go and payment.go. A definition whose name  *)
(* ends in Mutant is a bug planted to show that a property would notice it: *)
(* no specification uses it.                                                *)

ValidPayment(b) == AmountOf[b] > 0

CanAcceptPaymentMutant(i) == i.status # "cancelled"
CanAcceptPayment(i) == i.status = "sent"

CancellableMutant(i, amountPaid) == i.status \in {"draft", "sent"}
Cancellable(i, amountPaid) == i.status \in {"draft", "sent"} /\ ~(amountPaid > 0)

NeedsSnapshotNeverMutant(i) == FALSE
NeedsSnapshotAlwaysMutant(i) == TRUE
NeedsSnapshot(i) == i.status = "draft"

(* SELECT SUM(amount), and what the handlers compute from it. *)
TotalPaid == SumFunction([n \in DOMAIN payments |-> AmountOf[payments[n].hash]])
Outstanding(i) == i.total - TotalPaid

ExhaustsBalanceMutant(i, b) == AmountOf[b] > Outstanding(i)
ExhaustsBalance(i, b) == AmountOf[b] = Outstanding(i)

Sent(i) == [i EXCEPT !.status = "sent", !.sentAt = TRUE]

Cancelled(i) == [i EXCEPT !.status = "cancelled"]

(* What the queries select: the payments made with a key, and whether FOR  *)
(* UPDATE finds the row unlocked.                                          *)
RowsWithKeyMutant(k) == {}
RowsWithKey(k) == {n \in DOMAIN payments : payments[n].key = k}

RowFreeMutant == TRUE
RowFree == lock = Unlocked

-----------------------------------------------------------------------------
(* What ends a request. *)

(* The handler answers and the goroutine is done: nothing of it is left. *)
Finish(w, answer) ==
  /\ pc' = [pc EXCEPT ![w] = "idle"]
  /\ req' = [req EXCEPT ![w] = None]
  /\ inv' = [inv EXCEPT ![w] = None]
  /\ staged' = [staged EXCEPT ![w] = NothingStaged]
  /\ resp' = [resp EXCEPT ![w] = answer]

(* The deferred tx.Rollback of every early return releases the row lock. *)
RollbackMutant(w, answer) ==
  /\ Finish(w, answer)
  /\ UNCHANGED <<invoice, payments, live, lock>>
Rollback(w, answer) ==
  /\ lock' = Unlocked
  /\ Finish(w, answer)
  /\ UNCHANGED <<invoice, payments, live>>

Goto(w, step) == pc' = [pc EXCEPT ![w] = step]

(* A request arrives that the handler's decoding and the checks before     *)
(* BEGIN let through; the others are refused without touching any state.   *)
Receive(w) ==
  /\ pc[w] = "idle"
  /\ \E r \in PayRequests \cup PlainRequests :
       /\ r.op = "pay" => ValidPayment(r.body)
       /\ req' = [req EXCEPT ![w] = r]
       /\ Goto(w, IF r.op = "get" THEN "read" ELSE "lock")
  /\ resp' = [resp EXCEPT ![w] = None]
  /\ UNCHANGED <<invoice, payments, live, lock, inv, staged, acked>>

(* BEGIN; SELECT ... FOR UPDATE: blocks while another transaction holds    *)
(* the row, and then reads the row as that transaction committed it.       *)
GetForUpdate(w) ==
  /\ pc[w] = "lock"
  /\ RowFree
  /\ lock' = w
  /\ inv' = [inv EXCEPT ![w] = invoice]
  /\ Goto(w, IF req[w].op = "pay" THEN "lookup"
             ELSE IF req[w].op = "send" THEN "checkDraft" ELSE "checkUnpaid")
  /\ UNCHANGED <<invoice, payments, live, req, staged, resp, acked>>

-----------------------------------------------------------------------------
(* Send and Cancel. *)

(* Only a draft may be sent. *)
SendCheckDraft(w) ==
  /\ pc[w] = "checkDraft"
  /\ \/ /\ inv[w].status = "draft"
        /\ Goto(w, "snapshot")
        /\ UNCHANGED <<invoice, payments, live, lock, req, inv, staged, resp>>
     \/ /\ inv[w].status # "draft"
        /\ Rollback(w, Refused)
  /\ UNCHANGED acked

(* GetTotalPaidByInvoiceID, then CheckCancellable; a draft still needs the *)
(* snapshot a send would have captured.                                    *)
CancelCheckUnpaid(w) ==
  /\ pc[w] = "checkUnpaid"
  /\ \/ /\ Cancellable(inv[w], TotalPaid)
        /\ Goto(w, IF NeedsSnapshot(inv[w]) THEN "snapshot" ELSE "markCancelled")
        /\ UNCHANGED <<invoice, payments, live, lock, req, inv, staged, resp>>
     \/ /\ ~Cancellable(inv[w], TotalPaid)
        /\ Rollback(w, Refused)
  /\ UNCHANGED acked

(* buildPartySnapshot and buildTemplateSnapshot, then applySnapshots. *)
BuildSnapshot(w) ==
  /\ pc[w] = "snapshot"
  /\ inv' = [inv EXCEPT ![w].snapshot = live]
  /\ Goto(w, IF req[w].op = "send" THEN "markSent" ELSE "markCancelled")
  /\ UNCHANGED <<invoice, payments, live, lock, req, staged, resp, acked>>

(* UPDATE invoices: the status and every snapshot column in one statement. *)
MarkSentWithSnapshot(w) ==
  /\ pc[w] = "markSent"
  /\ staged' = [staged EXCEPT ![w].row = Sent(inv[w])]
  /\ Goto(w, "commit")
  /\ UNCHANGED <<invoice, payments, live, lock, req, inv, resp, acked>>

(* UPDATE invoices: a sent invoice gets the snapshot it has written back. *)
MarkCancelled(w) ==
  /\ pc[w] = "markCancelled"
  /\ staged' = [staged EXCEPT ![w].row = Cancelled(inv[w])]
  /\ Goto(w, "commit")
  /\ UNCHANGED <<invoice, payments, live, lock, req, inv, resp, acked>>

-----------------------------------------------------------------------------
(* CreatePayment. *)

(* What GetByIdempotencyKey can find: nothing, the payment this request    *)
(* has already made, which is answered again, or that of another request.  *)
KeyIsNew(w) ==
  /\ RowsWithKey(req[w].key) = {}
  /\ Goto(w, "balance")
  /\ UNCHANGED <<invoice, payments, live, lock, req, inv, staged, resp, acked>>

Replay(w) ==
  /\ \E n \in RowsWithKey(req[w].key) : payments[n].hash = req[w].body
  /\ acked' = acked \cup {[key |-> req[w].key, hash |-> req[w].body]}
  /\ Rollback(w, None)

KeyReused(w) ==
  /\ \E n \in RowsWithKey(req[w].key) : payments[n].hash # req[w].body
  /\ Rollback(w, Refused)
  /\ UNCHANGED acked

(* None of them looks at the invoice's state. *)
LookupKeyMutant(w) ==
  /\ pc[w] = "lookup"
  /\ IF CanAcceptPayment(inv[w])
       THEN KeyIsNew(w) \/ Replay(w) \/ KeyReused(w)
       ELSE Rollback(w, Refused) /\ UNCHANGED acked
LookupKey(w) ==
  /\ pc[w] = "lookup"
  /\ KeyIsNew(w) \/ Replay(w) \/ KeyReused(w)

(* CanAcceptPayment, GetTotalPaidByInvoiceID and the overpayment check. *)
CheckBalance(w) ==
  LET payable == CanAcceptPayment(inv[w]) /\ AmountOf[req[w].body] <= Outstanding(inv[w])
  IN /\ pc[w] = "balance"
     /\ \/ /\ payable
           /\ Goto(w, "insert")
           /\ UNCHANGED <<invoice, payments, live, lock, req, inv, staged, resp>>
        \/ /\ ~payable
           /\ Rollback(w, Refused)
     /\ UNCHANGED acked

(* INSERT INTO payments, with its key and fingerprint; the balance cannot  *)
(* have changed since CheckBalance read it, because the lock is held.      *)
InsertPayment(w) ==
  /\ pc[w] = "insert"
  /\ staged' = [staged EXCEPT ![w].payment = [key |-> req[w].key, hash |-> req[w].body]]
  /\ Goto(w, IF ExhaustsBalance(inv[w], req[w].body) THEN "settle" ELSE "commit")
  /\ UNCHANGED <<invoice, payments, live, lock, req, inv, resp, acked>>

(* UpdateStatus touches the status column alone. *)
SettleInvoice(w) ==
  /\ pc[w] = "settle"
  /\ staged' = [staged EXCEPT ![w].row = [invoice EXCEPT !.status = "paid"]]
  /\ Goto(w, "commit")
  /\ UNCHANGED <<invoice, payments, live, lock, req, inv, resp, acked>>

-----------------------------------------------------------------------------
(* COMMIT, GetByID and what can go wrong. *)

(* Everything the transaction wrote becomes visible at once. *)
Install(w) ==
  /\ invoice' = IF staged[w].row = None THEN invoice ELSE staged[w].row
  /\ payments' = IF staged[w].payment = None THEN payments
                 ELSE Append(payments, staged[w].payment)
  /\ lock' = Unlocked
  /\ UNCHANGED live

(* A payment is answered 201 at once; the handlers of send and cancel read *)
(* the invoice again, outside the transaction, to build their response.    *)
Commit(w) ==
  /\ pc[w] = "commit"
  /\ Install(w)
  /\ IF req[w].op = "pay"
       THEN /\ Finish(w, None)
            /\ acked' = acked \cup {staged[w].payment}
       ELSE /\ Goto(w, "read")
            /\ staged' = [staged EXCEPT ![w] = NothingStaged]
            /\ inv' = [inv EXCEPT ![w] = None]
            /\ UNCHANGED <<req, resp, acked>>

(* The commit happened and its acknowledgement was lost: the handler       *)
(* reports an error for a transaction that is durable.                     *)
CommitUnacknowledged(w) ==
  /\ pc[w] = "commit"
  /\ Install(w)
  /\ Finish(w, None)
  /\ UNCHANGED acked

(* GetByID reads the invoice row first ... *)
ReadInvoice(w) ==
  /\ pc[w] = "read"
  /\ inv' = [inv EXCEPT ![w] = invoice]
  /\ Goto(w, "readPaid")
  /\ UNCHANGED <<invoice, payments, live, lock, req, staged, resp, acked>>

(* ... and the total paid in a later statement, with no transaction. *)
ReadTotalPaid(w) ==
  /\ pc[w] = "readPaid"
  /\ Finish(w, [op |-> req[w].op, status |-> inv[w].status, total |-> inv[w].total,
                amountPaid |-> TotalPaid])
  /\ UNCHANGED <<invoice, payments, live, lock, acked>>

(* A statement fails, the snapshot is incomplete, the client disconnects   *)
(* or COMMIT is refused: the deferred Rollback undoes the transaction.     *)
Abort(w) ==
  /\ pc[w] # "idle"
  /\ Finish(w, None)
  /\ lock' = IF lock = w THEN Unlocked ELSE lock
  /\ UNCHANGED <<invoice, payments, live, acked>>

(* The server process dies: PostgreSQL rolls back every open transaction. *)
Crash ==
  /\ \E w \in Workers : pc[w] # "idle"
  /\ lock' = Unlocked
  /\ pc' = [w \in Workers |-> "idle"]
  /\ req' = [w \in Workers |-> None]
  /\ inv' = [w \in Workers |-> None]
  /\ staged' = [w \in Workers |-> NothingStaged]
  /\ resp' = [w \in Workers |-> None]
  /\ UNCHANGED <<invoice, payments, live, acked>>

(* An administrator edits the organisation, the customer or a template. *)
EditLiveData ==
  /\ live' \in Versions
  /\ UNCHANGED <<invoice, payments, lock, pc, req, inv, staged, resp, acked>>

Progress(w) ==
  \/ GetForUpdate(w)
  \/ SendCheckDraft(w) \/ CancelCheckUnpaid(w) \/ BuildSnapshot(w)
  \/ MarkSentWithSnapshot(w) \/ MarkCancelled(w)
  \/ LookupKey(w) \/ CheckBalance(w) \/ InsertPayment(w) \/ SettleInvoice(w)
  \/ Commit(w) \/ CommitUnacknowledged(w)
  \/ ReadInvoice(w) \/ ReadTotalPaid(w)

Next ==
  \/ \E w \in Workers : Receive(w) \/ Progress(w) \/ Abort(w)
  \/ Crash
  \/ EditLiveData

(* A goroutine that can run its next statement eventually does; PostgreSQL *)
(* queues the waiters of a row lock, so none of them waits for ever while  *)
(* the lock keeps being released.                                          *)
Fairness == \A w \in Workers : WF_vars(Progress(w)) /\ SF_vars(GetForUpdate(w))

Spec == Init /\ [][Next]_vars

FairSpec == Spec /\ Fairness

-----------------------------------------------------------------------------
(* The properties. *)

(* Every variable holds a value of its type: the one type invariant here. *)
TypeOK ==
  /\ invoice \in InvoiceRow
  /\ payments \in Seq(PaymentRow)
  /\ live \in Versions
  /\ lock \in Workers \cup {Unlocked}
  /\ pc \in [Workers -> Steps]
  /\ req \in [Workers -> PayRequests \cup PlainRequests \cup {None}]
  /\ inv \in [Workers -> InvoiceRow \cup {None}]
  /\ staged \in [Workers -> [row : InvoiceRow \cup {None}, payment : PaymentRow \cup {None}]]
  /\ resp \in [Workers -> InvoiceResponses \cup {Refused, None}]
  /\ acked \subseteq PaymentRow

(* Concurrent payments never overpay the invoice: each was checked against *)
(* an outstanding balance that includes every payment committed before it. *)
NeverOverpaid == TotalPaid <= invoice.total

(* The status and the payments agree: an invoice is paid exactly when its  *)
(* balance is cleared by payments, and money is only ever recorded against *)
(* an invoice that was sent and has not been cancelled.                    *)
StatusMatchesPayments ==
  /\ invoice.status = "paid" <=> payments # <<>> /\ TotalPaid = invoice.total
  /\ payments # <<>> => invoice.sentAt /\ invoice.status \in {"sent", "paid"}

(* A key names at most one payment, and a client that has seen a payment   *)
(* succeed, whether by its first answer or by a replay, finds exactly that *)
(* payment recorded, whatever was retried, rolled back or lost in between. *)
ExactlyOncePerKey ==
  /\ \A m, n \in DOMAIN payments : payments[m].key = payments[n].key => m = n
  /\ \A a \in acked : \E n \in DOMAIN payments : payments[n] = a

(* The unique index on (invoice_id, idempotency_key) is only a backstop:   *)
(* no INSERT ever reaches it with a key already recorded, because the      *)
(* lookup happens under the lock (payment_repository_postgres.go:60-64).   *)
UniqueIndexNeverHit ==
  \A w \in Workers : pc[w] = "insert" => RowsWithKey(req[w].key) = {}

(* Every invoice that is no longer a draft carries a snapshot, and a draft *)
(* carries none, so the PDF and the currency have exactly one source.      *)
SnapshotIffIssued == invoice.snapshot = NoSnapshot <=> invoice.status = "draft"

(* A successful response never shows an impossible pair although it takes  *)
(* two reads with no transaction: what it calls paid is paid in full, what *)
(* it calls cancelled has nothing paid, and it never shows the state that  *)
(* the request itself just left.                                           *)
ResponsesConsistent ==
  \A w \in Workers :
    resp[w] \notin {Refused, None} =>
      /\ resp[w].status = "paid" => resp[w].amountPaid = resp[w].total
      /\ resp[w].status = "cancelled" => resp[w].amountPaid = 0
      /\ resp[w].op = "send" => resp[w].status # "draft"
      /\ resp[w].op = "cancel" => resp[w].status = "cancelled"

(* A client that repeats a payment already recorded, because it never got  *)
(* the answer or got an error, is not refused: the invoice may have been   *)
(* settled since, the replay does not depend on its state.                 *)
RetryNeverRefused ==
  [][\A w \in Workers :
       pc[w] # "idle" /\ resp'[w] = Refused /\ req[w].op = "pay" =>
         [key |-> req[w].key, hash |-> req[w].body] \notin Range(payments)]_vars

(* What an issued invoice shows never changes: no step rewrites a snapshot *)
(* that is set, although the live data it was copied from keeps changing   *)
(* and a cancellation writes every snapshot column again.                  *)
SnapshotImmutable ==
  [][invoice.snapshot # NoSnapshot =>
       /\ invoice'.snapshot = invoice.snapshot
       /\ invoice'.sentAt = invoice.sentAt]_invoice

(* What a transaction relies on between two of its statements. Only the    *)
(* lock makes it true: exactly the holder is between BEGIN and COMMIT, the *)
(* row it read is still the committed row, and every condition it checked  *)
(* (draft, unpaid, key unused, balance sufficient) still holds when it     *)
(* writes and when it commits.                                             *)
LockHeld ==
  \A w \in Workers : lock = w <=> pc[w] \in InTransaction

(* The request a worker serves, and what it has in memory, match the       *)
(* statement it has reached.                                               *)
OpMatches(w) ==
  /\ pc[w] \in {"checkDraft", "markSent"} => req[w].op = "send"
  /\ pc[w] \in {"checkUnpaid", "markCancelled"} => req[w].op = "cancel"
  /\ pc[w] \in {"lookup", "balance", "insert", "settle"} => req[w].op = "pay"
  /\ pc[w] = "snapshot" => req[w].op \in {"send", "cancel"}
  /\ pc[w] \in {"lock", "commit"} => req[w].op \in {"send", "cancel", "pay"}
  /\ pc[w] \in {"read", "readPaid"} => req[w].op \in {"send", "cancel", "get"}
  /\ pc[w] # "idle" => req[w] # None /\ (req[w].op = "pay" => ValidPayment(req[w].body))
  /\ pc[w] \in InTransaction \cup {"readPaid"} => inv[w] # None
  /\ pc[w] = "settle" \/ (pc[w] = "commit" /\ req[w].op = "pay") => staged[w].payment # None

(* The row in memory is the committed row, up to a snapshot just built. *)
RowCurrent(w) ==
  /\ pc[w] \in {"checkDraft", "checkUnpaid", "lookup", "balance", "insert"} => inv[w] = invoice
  /\ pc[w] = "snapshot" => inv[w] = invoice /\ invoice.status = "draft" /\ payments = <<>>
  /\ pc[w] = "markSent" => invoice.status = "draft"
  /\ pc[w] = "markCancelled" => payments = <<>> /\ invoice.status \in {"draft", "sent"}
  /\ pc[w] \in {"markSent", "markCancelled"} =>
       /\ inv[w].snapshot \in Versions
       /\ inv[w] = [invoice EXCEPT !.snapshot = inv[w].snapshot]
       /\ invoice.status # "draft" => inv[w] = invoice

(* A payment being recorded still fits and its key is still unused. *)
PaymentFits(w) ==
  LET committing == pc[w] = "commit" /\ req[w].op = "pay"
  IN /\ pc[w] \in {"balance", "insert", "settle"} \/ committing =>
          RowsWithKey(req[w].key) = {}
     /\ pc[w] \in {"insert", "settle"} \/ committing =>
          invoice.status = "sent" /\ AmountOf[req[w].body] <= Outstanding(invoice)
     /\ pc[w] = "settle" => ExhaustsBalance(invoice, req[w].body)

(* What is staged is exactly one legal transition of the committed row. *)
StagedLegal(w) ==
  /\ pc[w] \notin {"settle", "commit"} => staged[w] = NothingStaged
  /\ pc[w] = "settle" => staged[w].row = None
  /\ pc[w] = "settle" \/ (pc[w] = "commit" /\ req[w].op = "pay") =>
       staged[w].payment = [key |-> req[w].key, hash |-> req[w].body]
  /\ pc[w] = "commit" /\ req[w].op = "pay" =>
       staged[w].row = IF ExhaustsBalance(invoice, req[w].body)
                         THEN [invoice EXCEPT !.status = "paid"] ELSE None
  /\ pc[w] = "commit" /\ req[w].op = "send" =>
       /\ staged[w].payment = None
       /\ invoice.status = "draft"
       /\ staged[w].row # None
       /\ staged[w].row.snapshot \in Versions
       /\ staged[w].row = Sent([invoice EXCEPT !.snapshot = staged[w].row.snapshot])
  /\ pc[w] = "commit" /\ req[w].op = "cancel" =>
       /\ staged[w].payment = None
       /\ payments = <<>>
       /\ invoice.status \in {"draft", "sent"}
       /\ staged[w].row # None
       /\ staged[w].row.snapshot \in Versions
       /\ staged[w].row = Cancelled([invoice EXCEPT !.snapshot = staged[w].row.snapshot])
       /\ invoice.status # "draft" => staged[w].row.snapshot = invoice.snapshot

TransactionsConsistent ==
  /\ LockHeld
  /\ \A w \in Workers : OpMatches(w) /\ RowCurrent(w) /\ PaymentFits(w) /\ StagedLegal(w)

(* Every request is answered: no early return leaves the row locked, and   *)
(* no waiter is starved by the requests that keep arriving.                *)
EveryRequestAnswered == \A w \in Workers : pc[w] # "idle" ~> pc[w] = "idle"

(* The transactions implement the atomic ledger. *)
Ledger == INSTANCE InvoiceLedger
            WITH Amounts     <- {AmountOf[b] : b \in Bodies},
                 Documents   <- Versions,
                 NoDocument  <- NoSnapshot,
                 phase       <- invoice.status,
                 document    <- invoice.snapshot,
                 outstanding <- Outstanding(invoice),
                 honoured    <- {payments[n].key : n \in DOMAIN payments}

(* Whatever the interleaving, the committed state moves as InvoiceLedger   *)
(* promises: each committed transaction is one of its atomic steps.        *)
ImplementsLedger == Ledger!LedgerSpec
=============================================================================
