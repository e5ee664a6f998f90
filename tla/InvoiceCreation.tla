--------------------------- MODULE InvoiceCreation ---------------------------
(***************************************************************************)
(* What the requests of one organisation share when they create invoices   *)
(* (internal/invoice InvoiceService.Create): the settings row that numbers *)
(* them and that administrators edit meanwhile with If-Match               *)
(* (internal/administration), and the customer they are for, whose status  *)
(* is set meanwhile (internal/customer). Creation checks the customer      *)
(* first, outside its transaction; the transaction then locks the settings *)
(* row, allocates the number and inserts the invoice. An edit is two       *)
(* statements without a transaction, a change of status is one.            *)
(***************************************************************************)
EXTENDS Integers, Sequences, Functions

CONSTANTS Workers,          \* handler goroutines
          InvoicePrefixes,  \* invoice prefixes, as sequences of symbols
          Itoa(_),          \* strconv.Itoa, as a sequence of symbols
          Currencies,       \* currency codes
          Issued,           \* how many invoices exist when the model starts
          MaxNumber,        \* bounds the invoice numbers TLC allocates
          MaxVersion,       \* bounds the settings edits TLC makes
          Unlocked,         \* no transaction holds the settings row
          None              \* no request, nothing read

ASSUME BoundAssumption == /\ Issued \in Nat /\ MaxNumber \in Nat /\ Issued <= MaxNumber
                          /\ MaxVersion \in Nat \ {0}
ASSUME TextAssumption  == /\ InvoicePrefixes \subseteq Seq(Nat)
                          /\ \A n \in 0 .. MaxNumber : Itoa(n) \in Seq(Nat)
                          /\ \A m, n \in 0 .. MaxNumber : Itoa(m) = Itoa(n) => m = n
ASSUME NullAssumption  == Unlocked \notin Workers

CustomerStatuses == {"active", "inactive", "archived"}
SettingsRow == [prefix : InvoicePrefixes, currency : Currencies,
                number : Issued .. MaxNumber, version : 1 .. MaxVersion]
InvoiceRow == [prefix : InvoicePrefixes, number : 1 .. MaxNumber, open : BOOLEAN]
Edits == [field : {"prefix"}, value : InvoicePrefixes] \cup [field : {"currency"}, value : Currencies]

VARIABLES
  settings,  \* the committed settings row
  lock,      \* the worker whose transaction has locked it
  customer,  \* the committed status of the customer
  invoices,  \* the committed invoices, in the order of their commits
  pc,        \* the next statement of each worker
  patch,     \* the edit a worker is making
  basis,     \* the settings a client had read when it sent its edit
  mem        \* the *Settings a worker has in memory

vars == <<settings, lock, customer, invoices, pc, patch, basis, mem>>

Steps == {"idle", "checkCustomer", "lockSettings", "allocate", "insert", "commit",
          "checkVersion", "save"}
Creating == {"allocate", "insert", "commit"}

-----------------------------------------------------------------------------
(* A definition whose name ends in Mutant is a bug planted to show that a  *)
(* property would notice it: no specification uses it.                     *)

(* settings.InvoicePrefix + strconv.Itoa(allocatedNumber) *)
NumberText(prefix, n) == prefix \o Itoa(n)

Invoice(s) == [prefix |-> s.prefix, number |-> s.number, open |-> TRUE]
TextOf(i) == NumberText(i.prefix, i.number)

NextInvoiceNumberMutant(s) == [s EXCEPT !.number = @ + 2]
NextInvoiceNumber(s) == [s EXCEPT !.number = @ + 1]

(* invoices_organisation_number_unique *)
NumberTakenMutant(s) == FALSE
NumberTaken(s) == \E n \in DOMAIN invoices : TextOf(invoices[n]) = NumberText(s.prefix, s.number)

RowFreeMutant == TRUE
RowFree == lock = Unlocked

VersionMatches(row, version) == row.version = version

(* The patched field on top of the settings just read. *)
Merge(s, p) == IF p.field = "prefix" THEN [s EXCEPT !.prefix = p.value]
                                     ELSE [s EXCEPT !.currency = p.value]

(* UPDATE settings SET prefix, currency, version + 1: never the number. *)
EditedMutant(row, m) == [m EXCEPT !.version = row.version + 1]
Edited(row, m) == [row EXCEPT !.prefix = m.prefix, !.currency = m.currency, !.version = @ + 1]

(* UPDATE settings SET invoice_number: never the version. *)
NumberedMutant(row, m) == [row EXCEPT !.number = m.number, !.version = @ + 1]
Numbered(row, m) == [row EXCEPT !.number = m.number]

Open(i) == i.open

-----------------------------------------------------------------------------
Init ==
  /\ \E p \in InvoicePrefixes, c \in Currencies :
       /\ settings = [prefix |-> p, currency |-> c, number |-> Issued, version |-> 1]
       /\ invoices = [n \in 1 .. Issued |-> [prefix |-> p, number |-> n, open |-> FALSE]]
  /\ lock = Unlocked
  /\ customer = "active"
  /\ pc = [w \in Workers |-> "idle"]
  /\ patch = [w \in Workers |-> None]
  /\ basis = [w \in Workers |-> None]
  /\ mem = [w \in Workers |-> None]

Goto(w, step) == pc' = [pc EXCEPT ![w] = step]

Done(w) ==
  /\ Goto(w, "idle")
  /\ patch' = [patch EXCEPT ![w] = None]
  /\ basis' = [basis EXCEPT ![w] = None]
  /\ mem' = [mem EXCEPT ![w] = None]

(* Every early return, the deferred tx.Rollback included. *)
Rollback(w) ==
  /\ Done(w)
  /\ lock' = IF lock = w THEN Unlocked ELSE lock
  /\ UNCHANGED <<settings, customer, invoices>>

-----------------------------------------------------------------------------
(* Creating an invoice. *)

(* POST /invoices that decoding and validation let through. *)
ReceiveCreate(w) ==
  /\ pc[w] = "idle"
  /\ Goto(w, "checkCustomer")
  /\ UNCHANGED <<settings, lock, customer, invoices, patch, basis, mem>>

(* customerRepository.GetByID and IsActive, before BEGIN. *)
CheckCustomer(w) ==
  /\ pc[w] = "checkCustomer"
  /\ \/ /\ customer = "active"
        /\ Goto(w, "lockSettings")
        /\ UNCHANGED <<settings, lock, customer, invoices, patch, basis, mem>>
     \/ /\ customer # "active"
        /\ Rollback(w)

(* BEGIN; GetForUpdate on the settings row. *)
LockSettings(w) ==
  /\ pc[w] = "lockSettings"
  /\ RowFree
  /\ settings.number < MaxNumber
  /\ lock' = w
  /\ mem' = [mem EXCEPT ![w] = settings]
  /\ Goto(w, "allocate")
  /\ UNCHANGED <<settings, customer, invoices, patch, basis>>

(* NextInvoiceNumber and UpdateInvoiceNumber, staged in the transaction. *)
Allocate(w) ==
  /\ pc[w] = "allocate"
  /\ mem' = [mem EXCEPT ![w] = NextInvoiceNumber(@)]
  /\ Goto(w, "insert")
  /\ UNCHANGED <<settings, lock, customer, invoices, patch, basis>>

(* INSERT INTO invoices and its lines: a number already taken is refused. *)
Insert(w) ==
  /\ pc[w] = "insert"
  /\ \/ /\ ~NumberTaken(mem[w])
        /\ Goto(w, "commit")
        /\ UNCHANGED <<settings, lock, customer, invoices, patch, basis, mem>>
     \/ /\ NumberTaken(mem[w])
        /\ Rollback(w)

(* The number and the invoice become visible together. *)
Commit(w) ==
  /\ pc[w] = "commit"
  /\ settings' = Numbered(settings, mem[w])
  /\ invoices' = Append(invoices, Invoice(mem[w]))
  /\ lock' = Unlocked
  /\ Done(w)
  /\ UNCHANGED customer

-----------------------------------------------------------------------------
(* Editing the settings. *)

(* PATCH /organisation/settings with the ETag of the last GET. *)
ReceiveEdit(w) ==
  /\ pc[w] = "idle"
  /\ \E p \in Edits : patch' = [patch EXCEPT ![w] = p]
  /\ basis' = [basis EXCEPT ![w] = settings]
  /\ Goto(w, "checkVersion")
  /\ UNCHANGED <<settings, lock, customer, invoices, mem>>

(* GetByOrganisationID, the version check that fails fast, and the merge. *)
CheckVersion(w) ==
  /\ pc[w] = "checkVersion"
  /\ \/ /\ VersionMatches(settings, basis[w].version)
        /\ mem' = [mem EXCEPT ![w] = Merge(settings, patch[w])]
        /\ Goto(w, "save")
        /\ UNCHANGED <<settings, lock, customer, invoices, patch, basis>>
     \/ /\ ~VersionMatches(settings, basis[w].version)
        /\ Rollback(w)

(* UPDATE settings ... WHERE version = $6, once the row can be written. *)
Save(w) ==
  /\ pc[w] = "save"
  /\ RowFree
  /\ \/ /\ VersionMatches(settings, basis[w].version)
        /\ settings.version < MaxVersion
        /\ settings' = Edited(settings, mem[w])
        /\ Done(w)
        /\ UNCHANGED <<lock, customer, invoices>>
     \/ /\ ~VersionMatches(settings, basis[w].version)
        /\ Rollback(w)

-----------------------------------------------------------------------------
(* The customer, the invoices' later life, and failures. *)

(* UPDATE customers: archiving is refused while an invoice is open. *)
SetStatus ==
  /\ \E s \in CustomerStatuses :
       /\ s = "archived" => \A n \in DOMAIN invoices : ~Open(invoices[n])
       /\ customer' = s
  /\ UNCHANGED <<settings, lock, invoices, pc, patch, basis, mem>>

(* An open invoice is paid in full or cancelled. *)
CloseInvoice ==
  /\ \E n \in DOMAIN invoices :
       /\ Open(invoices[n])
       /\ invoices' = [invoices EXCEPT ![n].open = FALSE]
  /\ UNCHANGED <<settings, lock, customer, pc, patch, basis, mem>>

(* A statement fails, the client disconnects, or the process dies. *)
Abort(w) ==
  /\ pc[w] # "idle"
  /\ Rollback(w)

Progress(w) ==
  \/ CheckCustomer(w) \/ LockSettings(w) \/ Allocate(w) \/ Insert(w) \/ Commit(w)
  \/ CheckVersion(w) \/ Save(w)

Next ==
  \/ \E w \in Workers : ReceiveCreate(w) \/ ReceiveEdit(w) \/ Progress(w) \/ Abort(w)
  \/ SetStatus
  \/ CloseInvoice

Spec == Init /\ [][Next]_vars

-----------------------------------------------------------------------------
(* The properties. *)

(* Every variable holds a value of its type. *)
TypeOK ==
  /\ settings \in SettingsRow
  /\ lock \in Workers \cup {Unlocked}
  /\ customer \in CustomerStatuses
  /\ invoices \in Seq(InvoiceRow)
  /\ pc \in [Workers -> Steps]
  /\ patch \in [Workers -> Edits \cup {None}]
  /\ basis \in [Workers -> SettingsRow \cup {None}]
  /\ mem \in [Workers -> SettingsRow \cup {None}]

(* The numbers are consecutive in commit order: concurrent creations never *)
(* get the same one, a creation that fails at whatever statement consumes  *)
(* none, and no settings edit resets the counter.                          *)
NumbersConsecutive ==
  /\ Len(invoices) = settings.number
  /\ \A n \in DOMAIN invoices : invoices[n].number = n

(* No two invoices show the same number, although the prefix changes and   *)
(* different prefixes and counters can spell the same text.                *)
NumbersUnique == IsInjective([n \in DOMAIN invoices |-> TextOf(invoices[n])])

(* The lock alone keeps concurrent creations apart: the constraint refuses *)
(* a number only for an invoice made under another prefix.                 *)
OnlyPrefixesCollide ==
  \A w \in Workers : pc[w] = "insert" =>
    \A n \in DOMAIN invoices :
      TextOf(invoices[n]) = NumberText(mem[w].prefix, mem[w].number) =>
        invoices[n].prefix # mem[w].prefix

(* The version a client edits with (its ETag) moves only when an edit is   *)
(* accepted, on top of the very settings that client had read, and the     *)
(* edit changes nothing but the field it names: no concurrent edit or      *)
(* number is overwritten, although the UPDATE writes every field it merged *)
(* earlier, and allocating a number never makes an edit stale.             *)
NoLostSettingsEdit ==
  [][settings'.version # settings.version =>
       \E w \in Workers :
         /\ pc[w] = "save" /\ pc'[w] = "idle"
         /\ basis[w].prefix = settings.prefix /\ basis[w].currency = settings.currency
         /\ settings' = [Merge(settings, patch[w]) EXCEPT !.version = settings.version + 1]]_settings

(* Why the numbers are right, statement by statement. Only the lock makes  *)
(* it true: exactly its holder is between the locked read and COMMIT, the  *)
(* settings it read are still the committed ones, and the number it has    *)
(* found free is still free when the invoice commits.                      *)
AllocationConsistent ==
  /\ \A w \in Workers : lock = w <=> pc[w] \in Creating
  /\ \A w \in Workers : pc[w] \in Creating => settings.number < MaxNumber
  /\ \A w \in Workers : pc[w] = "allocate" => mem[w] = settings
  /\ \A w \in Workers : pc[w] \in {"insert", "commit"} => mem[w] = NextInvoiceNumber(settings)
  /\ \A w \in Workers : pc[w] = "commit" => ~NumberTaken(mem[w])

(* Why edits are not lost: a version a client holds is never ahead, equal  *)
(* versions mean equal contents, and what is about to be written is the    *)
(* client's own edit of the contents it has read.                          *)
EditConsistent(w) ==
  pc[w] \in {"checkVersion", "save"} =>
    /\ basis[w] \in SettingsRow /\ patch[w] \in Edits
    /\ basis[w].version <= settings.version
    /\ basis[w].version = settings.version =>
         basis[w].prefix = settings.prefix /\ basis[w].currency = settings.currency
    /\ pc[w] = "save" =>
         /\ mem[w].prefix = Merge(basis[w], patch[w]).prefix
         /\ mem[w].currency = Merge(basis[w], patch[w]).currency
         /\ mem[w] \in SettingsRow

EditsConsistent == \A w \in Workers : EditConsistent(w)

(* "Archiving carries the open-invoice check in the same UPDATE (NOT       *)
(* EXISTS) rather than a separate read first, so there's no window between *)
(* checking and archiving" (customer_repository_postgres.go:278-281): an   *)
(* archived customer has no open invoice.                                  *)
ArchivedHasNoOpenInvoice ==
  customer = "archived" => \A n \in DOMAIN invoices : ~Open(invoices[n])

(* The locked transactions and the versioned edits implement a register    *)
(* that is written in one step at a time: an entry for every invoice.      *)
EntryOf(i) == [text |-> TextOf(i), open |-> Open(i)]
Entries == [n \in DOMAIN invoices |-> EntryOf(invoices[n])]

Register == INSTANCE InvoiceRegister
              WITH Prefixes <- InvoicePrefixes,
                   Text     <- NumberText,
                   Existing <- Issued,
                   prefix   <- settings.prefix,
                   currency <- settings.currency,
                   revision <- settings.version,
                   register <- Entries

(* Whatever the interleaving, the committed invoices and settings move as  *)
(* InvoiceRegister promises: a COMMIT of Create enters one invoice, an     *)
(* accepted edit is one change, and nothing else is visible.               *)
ImplementsRegister == Register!RegisterSpec
=============================================================================
