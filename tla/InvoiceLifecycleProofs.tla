----------------------- MODULE InvoiceLifecycleProofs -----------------------
(***************************************************************************)
(* Proofs about InvoiceLifecycle for any number of workers, keys, payment  *)
(* bodies and data versions, and any totals: type correctness, and the     *)
(* safety of the ledger. The argument is the one the comments of           *)
(* CreatePayment and MarkSentWithSnapshot make: what a transaction checked *)
(* under the row lock is still true when it writes and when it commits     *)
(* (TransactionsConsistent), so each COMMIT is a legal step of the ledger. *)
(***************************************************************************)
EXTENDS InvoiceLifecycle, SumTheorems

USE BodyAssumption, TotalAssumption, NullAssumption

(* A request never mixes the fields of the two kinds of requests. *)
LEMMA RequestFields ==
  ASSUME NEW r \in PayRequests \cup PlainRequests
  PROVE  /\ r.op \in {"send", "cancel", "pay", "get"}
         /\ r.op = "pay" => r \in PayRequests /\ r.key \in Keys /\ r.body \in Bodies
  BY DEF PayRequests, PlainRequests

LEMMA AppendedSum ==
  ASSUME NEW s \in Seq(PaymentRow), NEW row \in PaymentRow
  PROVE  SumFunction([i \in DOMAIN Append(s, row) |-> AmountOf[Append(s, row)[i].hash]])
           = SumFunction([i \in DOMAIN s |-> AmountOf[s[i].hash]]) + AmountOf[row.hash]
<1> DEFINE t == Append(s, row)
           n == Len(s)
           f == [i \in DOMAIN s |-> AmountOf[s[i].hash]]
           g == [i \in DOMAIN t |-> AmountOf[t[i].hash]]
<1>1. n \in Nat /\ DOMAIN s = 1..n /\ \A i \in 1..n : s[i] \in PaymentRow
  OBVIOUS
<1>2. DOMAIN t = 1..(n + 1) /\ t[n + 1] = row /\ \A i \in 1..n : t[i] = s[i]
  OBVIOUS
<1>3. \A r \in PaymentRow : AmountOf[r.hash] \in Int
  BY BodyAssumption DEF PaymentRow
<1>4. DOMAIN f = 1..n /\ DOMAIN g = 1..(n + 1)
  BY <1>1, <1>2
<1>5. \A i \in 1..n : f[i] = g[i] /\ g[i] \in Int
  BY <1>1, <1>2, <1>3
<1>6. g[n + 1] = AmountOf[row.hash] /\ g[n + 1] \in Int
  BY <1>1, <1>2, <1>3
<1> HIDE DEF f, g, n
<1>7. SumFunction(g) = SumFunction(f) + g[n + 1]
  BY <1>1, <1>4, <1>5, <1>6, SumAppend
<1>8. QED
  BY <1>6, <1>7 DEF f, g

(* The total paid is a number, nothing at first; it changes with the rows  *)
(* of the payments alone, and a row adds its amount.                       *)
LEMMA PaidEmpty == payments = <<>> => TotalPaid = 0
<1> SUFFICES ASSUME payments = <<>> PROVE TotalPaid = 0
  OBVIOUS
<1> DEFINE f == [n \in DOMAIN payments |-> AmountOf[payments[n].hash]]
<1>1. DOMAIN f = {}
  OBVIOUS
<1> HIDE DEF f
<1>2. SumFunction(f) = 0
  BY <1>1, SumEmpty DEF SumFunction
<1> QED
  BY <1>2 DEF f, TotalPaid

LEMMA PaidType == TypeOK => TotalPaid \in Int
<1> SUFFICES ASSUME TypeOK PROVE TotalPaid \in Int
  OBVIOUS
<1> DEFINE f == [n \in DOMAIN payments |-> AmountOf[payments[n].hash]]
<1>1. DOMAIN f = 1..Len(payments) /\ Len(payments) \in Nat /\ \A n \in DOMAIN f : f[n] \in Int
  <2>1. payments \in Seq(PaymentRow)
    BY DEF TypeOK
  <2>2. \A r \in PaymentRow : AmountOf[r.hash] \in Int
    BY DEF PaymentRow
  <2> QED
    BY <2>1, <2>2
<1> HIDE DEF f
<1>2. IsFiniteSet(DOMAIN f)
  BY <1>1, FS_Interval
<1>3. SumFunction(f) \in Int
  BY <1>1, <1>2, SumType DEF SumFunction
<1> QED
  BY <1>3 DEF f, TotalPaid

LEMMA PaidKept == payments' = payments => TotalPaid' = TotalPaid
  BY DEF TotalPaid

LEMMA PaidAppend ==
  ASSUME TypeOK, NEW row \in PaymentRow, payments' = Append(payments, row)
  PROVE  TotalPaid' = TotalPaid + AmountOf[row.hash]
<1>1. payments \in Seq(PaymentRow)
  BY DEF TypeOK
<1> QED
  BY <1>1, AppendedSum DEF TotalPaid

(* A step of a worker leaves what the other workers hold alone. *)
Frame(w) ==
  \A u \in Workers \ {w} :
    /\ pc'[u] = pc[u] /\ req'[u] = req[u] /\ inv'[u] = inv[u]
    /\ staged'[u] = staged[u] /\ resp'[u] = resp[u]

LEMMA WorkerFrame ==
  ASSUME TypeOK, NEW w \in Workers, Receive(w) \/ Progress(w) \/ Abort(w)
  PROVE  Frame(w)
<1> USE DEF Frame, TypeOK, Goto, Finish, Rollback
<1>1. CASE Receive(w)
  BY <1>1 DEF Receive
<1>2. CASE GetForUpdate(w)
  BY <1>2 DEF GetForUpdate
<1>3. CASE SendCheckDraft(w)
  BY <1>3 DEF SendCheckDraft
<1>4. CASE CancelCheckUnpaid(w)
  BY <1>4 DEF CancelCheckUnpaid
<1>5. CASE BuildSnapshot(w)
  BY <1>5 DEF BuildSnapshot
<1>6. CASE MarkSentWithSnapshot(w)
  BY <1>6 DEF MarkSentWithSnapshot
<1>7. CASE MarkCancelled(w)
  BY <1>7 DEF MarkCancelled
<1>8. CASE LookupKey(w)
  BY <1>8 DEF LookupKey, KeyIsNew, Replay, KeyReused
<1>9. CASE CheckBalance(w)
  BY <1>9 DEF CheckBalance
<1>10. CASE InsertPayment(w)
  BY <1>10 DEF InsertPayment
<1>11. CASE SettleInvoice(w)
  BY <1>11 DEF SettleInvoice
<1>12. CASE Commit(w)
  BY <1>12 DEF Commit
<1>13. CASE CommitUnacknowledged(w)
  BY <1>13 DEF CommitUnacknowledged
<1>14. CASE ReadInvoice(w)
  BY <1>14 DEF ReadInvoice
<1>15. CASE ReadTotalPaid(w)
  BY <1>15 DEF ReadTotalPaid
<1>16. CASE Abort(w)
  BY <1>16 DEF Abort
<1> QED
  BY <1>1, <1>2, <1>3, <1>4, <1>5, <1>6, <1>7, <1>8, <1>9, <1>10, <1>11, <1>12, <1>13, <1>14, <1>15, <1>16 DEF Progress

(* The types, with what they rest on: a worker's request and memory match  *)
(* the statement it has reached.                                           *)
TypeInv == TypeOK /\ \A w \in Workers : OpMatches(w)

LEMMA OpMatchesIdle ==
  ASSUME NEW w \in Workers, pc'[w] = "idle" PROVE OpMatches(w)'
  BY DEF OpMatches, InTransaction

LEMMA OpMatchesFrame ==
  ASSUME NEW w \in Workers, Frame(w), NEW u \in Workers \ {w}, OpMatches(u)
  PROVE  OpMatches(u)'
  BY DEF OpMatches, Frame, ValidPayment

(* What one step of worker w has to show: the types, and w itself. *)
LEMMA TypeInvWorker ==
  ASSUME TypeInv, NEW w \in Workers, Receive(w) \/ Progress(w) \/ Abort(w),
         TypeOK', OpMatches(w)'
  PROVE  TypeInv'
<1>1. Frame(w)
  BY WorkerFrame DEF TypeInv
<1>2. ASSUME NEW u \in Workers PROVE OpMatches(u)'
  BY <1>1, OpMatchesFrame DEF TypeInv
<1> QED
  BY <1>2 DEF TypeInv

LEMMA RollbackTypes ==
  ASSUME TypeOK, NEW w \in Workers, NEW answer \in {Refused, None}, Rollback(w, answer),
         acked' \subseteq PaymentRow
  PROVE  TypeOK'
  BY DEF TypeOK, Rollback, Finish, NothingStaged, Steps, InvoiceResponses

LEMMA InstallTypes ==
  ASSUME TypeOK, NEW w \in Workers, Install(w)
  PROVE  /\ invoice' \in InvoiceRow
         /\ payments' \in Seq(PaymentRow)
         /\ live' \in Versions
         /\ lock' \in Workers \cup {Unlocked}
<1>1. /\ staged[w].row \in InvoiceRow \cup {None}
      /\ staged[w].payment \in PaymentRow \cup {None}
  BY DEF TypeOK
<1>2. CASE staged[w].payment = None
  BY <1>1, <1>2 DEF TypeOK, Install
<1>3. CASE staged[w].payment \in PaymentRow
  <2>1. staged[w].payment # None
    BY <1>3
  <2>2. payments' = Append(payments, staged[w].payment)
    BY <2>1 DEF Install
  <2>3. payments' \in Seq(PaymentRow)
    BY <1>3, <2>2 DEF TypeOK
  <2> QED
    BY <1>1, <2>3 DEF TypeOK, Install
<1> QED
  BY <1>1, <1>2, <1>3

LEMMA FirstRow ==
  ASSUME Init
  PROVE  /\ invoice \in InvoiceRow /\ invoice.status = "draft"
         /\ invoice.total \in Totals /\ invoice.snapshot = NoSnapshot
<1>1. \A n \in {FALSE} : n \in BOOLEAN
  OBVIOUS
<1> QED
  BY <1>1 DEF Init, InvoiceRow, Statuses

LEMMA TypeInvInit == Init => TypeInv
<1> SUFFICES ASSUME Init PROVE TypeInv
  OBVIOUS
<1>1. TypeOK
  BY FirstRow DEF Init, TypeOK, NothingStaged, Steps
<1>2. \A w \in Workers : OpMatches(w)
  BY DEF Init, OpMatches, InTransaction
<1> QED
  BY <1>1, <1>2 DEF TypeInv

LEMMA TypeInvStep == TypeInv /\ [Next]_vars => TypeInv'
<1> SUFFICES ASSUME TypeInv, [Next]_vars PROVE TypeInv'
  OBVIOUS
<1> USE DEF TypeInv, TypeOK, Goto
<1>1. ASSUME NEW w \in Workers, Receive(w) PROVE TypeInv'
  <2>1. TypeOK'
    BY <1>1 DEF Receive, Steps
  <2>2. PICK r \in PayRequests \cup PlainRequests :
          /\ r.op = "pay" => ValidPayment(r.body)
          /\ req'[w] = r
          /\ pc'[w] = IF r.op = "get" THEN "read" ELSE "lock"
    BY <1>1 DEF Receive
  <2>3. OpMatches(w)'
    BY <2>2, RequestFields DEF OpMatches, InTransaction, ValidPayment
  <2> QED
    BY <1>1, <2>1, <2>3, TypeInvWorker DEF Progress
<1>2. ASSUME NEW w \in Workers, GetForUpdate(w) PROVE TypeInv'
  <2>1. TypeOK'
    BY <1>2 DEF GetForUpdate, Steps, InTransaction
  <2>2. OpMatches(w)'
    BY <1>2 DEF GetForUpdate, OpMatches, InTransaction, ValidPayment
  <2> QED
    BY <1>2, <2>1, <2>2, TypeInvWorker DEF Progress
<1>3. ASSUME NEW w \in Workers, SendCheckDraft(w) PROVE TypeInv'
  <2>1. TypeOK'
    <3>1. CASE Rollback(w, Refused)
      BY <1>3, <3>1, RollbackTypes DEF SendCheckDraft
    <3>2. CASE ~Rollback(w, Refused)
      BY <1>3, <3>2 DEF SendCheckDraft, Steps, InTransaction
    <3> QED
      BY <3>1, <3>2
  <2>2. OpMatches(w)'
    BY <1>3 DEF SendCheckDraft, Rollback, Finish, OpMatches, InTransaction, ValidPayment
  <2> QED
    BY <1>3, <2>1, <2>2, TypeInvWorker DEF Progress
<1>4. ASSUME NEW w \in Workers, CancelCheckUnpaid(w) PROVE TypeInv'
  <2>1. TypeOK'
    <3>1. CASE Rollback(w, Refused)
      BY <1>4, <3>1, RollbackTypes DEF CancelCheckUnpaid
    <3>2. CASE ~Rollback(w, Refused)
      BY <1>4, <3>2 DEF CancelCheckUnpaid, Steps, InTransaction
    <3> QED
      BY <3>1, <3>2
  <2>2. OpMatches(w)'
    BY <1>4 DEF CancelCheckUnpaid, Rollback, Finish, OpMatches, InTransaction, ValidPayment
  <2> QED
    BY <1>4, <2>1, <2>2, TypeInvWorker DEF Progress
<1>5. ASSUME NEW w \in Workers, BuildSnapshot(w) PROVE TypeInv'
  <2>1. inv[w] \in InvoiceRow /\ [inv[w] EXCEPT !.snapshot = live] \in InvoiceRow
    BY <1>5 DEF BuildSnapshot, OpMatches, InTransaction, InvoiceRow
  <2>2. inv' = [inv EXCEPT ![w] = [inv[w] EXCEPT !.snapshot = live]]
    BY <1>5 DEF BuildSnapshot
  <2>3. TypeOK'
    BY <1>5, <2>1, <2>2 DEF BuildSnapshot, Steps, InTransaction
  <2>4. inv'[w] # None
    BY <2>1, <2>2
  <2>5. OpMatches(w)'
    BY <1>5, <2>4 DEF BuildSnapshot, OpMatches, InTransaction, ValidPayment
  <2> QED
    BY <1>5, <2>3, <2>5, TypeInvWorker DEF Progress
<1>6. ASSUME NEW w \in Workers, MarkSentWithSnapshot(w) PROVE TypeInv'
  <2>1. inv[w] \in InvoiceRow
    BY <1>6 DEF MarkSentWithSnapshot, OpMatches, InTransaction
  <2>2. Sent(inv[w]) \in InvoiceRow
    BY <2>1 DEF InvoiceRow, Sent, Statuses
  <2>3. staged' = [staged EXCEPT ![w] = [staged[w] EXCEPT !.row = Sent(inv[w])]]
    BY <1>6 DEF MarkSentWithSnapshot
  <2>4. staged' \in [Workers -> [row : InvoiceRow \cup {None}, payment : PaymentRow \cup {None}]]
    BY <2>2, <2>3
  <2>5. TypeOK'
    BY <1>6, <2>4 DEF MarkSentWithSnapshot, Steps, InTransaction
  <2>6. OpMatches(w)'
    BY <1>6, <2>3 DEF MarkSentWithSnapshot, OpMatches, InTransaction, ValidPayment
  <2> QED
    BY <1>6, <2>5, <2>6, TypeInvWorker DEF Progress
<1>7. ASSUME NEW w \in Workers, MarkCancelled(w) PROVE TypeInv'
  <2>1. inv[w] \in InvoiceRow
    BY <1>7 DEF MarkCancelled, OpMatches, InTransaction
  <2>2. Cancelled(inv[w]) \in InvoiceRow
    BY <2>1 DEF InvoiceRow, Cancelled, Statuses
  <2>3. staged' = [staged EXCEPT ![w] = [staged[w] EXCEPT !.row = Cancelled(inv[w])]]
    BY <1>7 DEF MarkCancelled
  <2>4. staged' \in [Workers -> [row : InvoiceRow \cup {None}, payment : PaymentRow \cup {None}]]
    BY <2>2, <2>3
  <2>5. TypeOK'
    BY <1>7, <2>4 DEF MarkCancelled, Steps, InTransaction
  <2>6. OpMatches(w)'
    BY <1>7, <2>3 DEF MarkCancelled, OpMatches, InTransaction, ValidPayment
  <2> QED
    BY <1>7, <2>5, <2>6, TypeInvWorker DEF Progress
<1>8. ASSUME NEW w \in Workers, LookupKey(w) PROVE TypeInv'
  <2>1. req[w] \in PayRequests \cup PlainRequests /\ req[w].op = "pay"
    BY <1>8 DEF LookupKey, OpMatches
  <2>2. acked' \subseteq PaymentRow
    BY <1>8, <2>1, RequestFields DEF LookupKey, KeyIsNew, Replay, KeyReused, PaymentRow
  <2>3. TypeOK'
    <3>1. CASE Rollback(w, None) \/ Rollback(w, Refused)
      BY <2>2, <3>1, RollbackTypes
    <3>2. CASE KeyIsNew(w)
      BY <3>2 DEF KeyIsNew, Steps, InTransaction
    <3> QED
      BY <1>8, <3>1, <3>2 DEF LookupKey, Replay, KeyReused
  <2>4. OpMatches(w)'
    BY <1>8 DEF LookupKey, KeyIsNew, Replay, KeyReused, Rollback, Finish, OpMatches, InTransaction,
       ValidPayment
  <2> QED
    BY <1>8, <2>3, <2>4, TypeInvWorker DEF Progress
<1>9. ASSUME NEW w \in Workers, CheckBalance(w) PROVE TypeInv'
  <2>1. TypeOK'
    <3>1. CASE Rollback(w, Refused)
      BY <1>9, <3>1, RollbackTypes DEF CheckBalance
    <3>2. CASE ~Rollback(w, Refused)
      BY <1>9, <3>2 DEF CheckBalance, Steps, InTransaction
    <3> QED
      BY <3>1, <3>2
  <2>2. OpMatches(w)'
    BY <1>9 DEF CheckBalance, Rollback, Finish, OpMatches, InTransaction, ValidPayment
  <2> QED
    BY <1>9, <2>1, <2>2, TypeInvWorker DEF Progress
<1>10. ASSUME NEW w \in Workers, InsertPayment(w) PROVE TypeInv'
  <2> DEFINE row == [key |-> req[w].key, hash |-> req[w].body]
  <2>1. req[w] \in PayRequests \cup PlainRequests /\ req[w].op = "pay"
    BY <1>10 DEF InsertPayment, OpMatches
  <2>2. row \in PaymentRow
    BY <2>1, RequestFields DEF PaymentRow
  <2>3. staged' = [staged EXCEPT ![w] = [staged[w] EXCEPT !.payment = row]]
    BY <1>10 DEF InsertPayment
  <2> HIDE DEF row
  <2>4. staged' \in [Workers -> [row : InvoiceRow \cup {None}, payment : PaymentRow \cup {None}]]
    BY <2>2, <2>3
  <2>5. TypeOK' /\ staged'[w].payment # None
    BY <1>10, <2>2, <2>3, <2>4 DEF InsertPayment, Steps, InTransaction
  <2>6. OpMatches(w)'
    BY <1>10, <2>5 DEF InsertPayment, OpMatches, InTransaction, ValidPayment
  <2> QED
    BY <1>10, <2>5, <2>6, TypeInvWorker DEF Progress
<1>11. ASSUME NEW w \in Workers, SettleInvoice(w) PROVE TypeInv'
  <2> DEFINE row == [invoice EXCEPT !.status = "paid"]
  <2>1. row \in InvoiceRow
    BY DEF InvoiceRow, Statuses
  <2>2. staged' = [staged EXCEPT ![w] = [staged[w] EXCEPT !.row = row]]
    BY <1>11 DEF SettleInvoice
  <2> HIDE DEF row
  <2>3. /\ staged' \in [Workers -> [row : InvoiceRow \cup {None}, payment : PaymentRow \cup {None}]]
        /\ staged'[w].payment = staged[w].payment
    BY <2>1, <2>2
  <2>4. TypeOK'
    BY <1>11, <2>3 DEF SettleInvoice, Steps, InTransaction
  <2>5. OpMatches(w)'
    BY <1>11, <2>3 DEF SettleInvoice, OpMatches, InTransaction, ValidPayment
  <2> QED
    BY <1>11, <2>4, <2>5, TypeInvWorker DEF Progress
<1>12. ASSUME NEW w \in Workers, Commit(w) PROVE TypeInv'
  <2>1. Install(w) /\ pc[w] = "commit"
    BY <1>12 DEF Commit
  <2>2. acked' \subseteq PaymentRow
    BY <1>12 DEF Commit, OpMatches
  <2>3. TypeOK'
    <3>1. /\ pc' \in [Workers -> Steps]
          /\ req' \in [Workers -> PayRequests \cup PlainRequests \cup {None}]
          /\ inv' \in [Workers -> InvoiceRow \cup {None}]
          /\ resp' \in [Workers -> InvoiceResponses \cup {Refused, None}]
      BY <1>12 DEF Commit, Finish, Steps
    <3>2. staged' = [staged EXCEPT ![w] = NothingStaged]
      BY <1>12 DEF Commit, Finish
    <3>3. staged' \in [Workers -> [row : InvoiceRow \cup {None}, payment : PaymentRow \cup {None}]]
      BY <3>2 DEF NothingStaged
    <3> QED
      BY <2>1, <2>2, <3>1, <3>3, InstallTypes
  <2>4. OpMatches(w)'
    BY <1>12 DEF Commit, Finish, OpMatches, InTransaction, ValidPayment
  <2> QED
    BY <1>12, <2>3, <2>4, TypeInvWorker DEF Progress
<1>13. ASSUME NEW w \in Workers, CommitUnacknowledged(w) PROVE TypeInv'
  <2>1. Install(w) /\ pc[w] = "commit"
    BY <1>13 DEF CommitUnacknowledged
  <2>2. acked' \subseteq PaymentRow
    BY <1>13 DEF CommitUnacknowledged, OpMatches
  <2>3. TypeOK'
    BY <1>13, <2>1, <2>2, InstallTypes DEF CommitUnacknowledged, Finish, NothingStaged, Steps
  <2>4. OpMatches(w)'
    BY <1>13 DEF CommitUnacknowledged, Finish, OpMatches, InTransaction, ValidPayment
  <2> QED
    BY <1>13, <2>3, <2>4, TypeInvWorker DEF Progress
<1>14. ASSUME NEW w \in Workers, ReadInvoice(w) PROVE TypeInv'
  <2>1. TypeOK'
    BY <1>14 DEF ReadInvoice, Steps
  <2>2. OpMatches(w)'
    BY <1>14 DEF ReadInvoice, OpMatches, InTransaction, ValidPayment
  <2> QED
    BY <1>14, <2>1, <2>2, TypeInvWorker DEF Progress
<1>15. ASSUME NEW w \in Workers, ReadTotalPaid(w) PROVE TypeInv'
  <2>1. inv[w] \in InvoiceRow /\ req[w].op \in {"send", "cancel", "get"}
    BY <1>15 DEF ReadTotalPaid, OpMatches
  <2>2. [op |-> req[w].op, status |-> inv[w].status, total |-> inv[w].total,
         amountPaid |-> TotalPaid] \in InvoiceResponses
    BY <2>1, PaidType DEF InvoiceRow, InvoiceResponses
  <2>3. TypeOK'
    BY <1>15, <2>2 DEF ReadTotalPaid, Finish, NothingStaged, Steps
  <2>4. OpMatches(w)'
    BY <1>15, OpMatchesIdle DEF ReadTotalPaid, Finish
  <2> QED
    BY <1>15, <2>3, <2>4, TypeInvWorker DEF Progress
<1>16. ASSUME NEW w \in Workers, Abort(w) PROVE TypeInv'
  <2>1. TypeOK'
    BY <1>16 DEF Abort, Finish, NothingStaged, Steps
  <2>2. OpMatches(w)'
    BY <1>16, OpMatchesIdle DEF Abort, Finish
  <2> QED
    BY <1>16, <2>1, <2>2, TypeInvWorker DEF Progress
<1>17. ASSUME Crash PROVE TypeInv'
  BY <1>17, OpMatchesIdle DEF Crash, NothingStaged, Steps
<1>18. ASSUME EditLiveData PROVE TypeInv'
  BY <1>18 DEF EditLiveData, OpMatches, ValidPayment
<1>19. CASE UNCHANGED vars
  BY <1>19 DEF vars, OpMatches, ValidPayment
<1> QED
  BY <1>1, <1>2, <1>3, <1>4, <1>5, <1>6, <1>7, <1>8, <1>9, <1>10, <1>11, <1>12, <1>13,
     <1>14, <1>15, <1>16, <1>17, <1>18, <1>19 DEF Next, Progress

LEMMA TypeInvariant == Spec => []TypeInv
  BY TypeInvInit, TypeInvStep, PTL DEF Spec

(* The types hold in every reachable state: the rows, statements, requests *)
(* and responses are the ones the code can build, whatever the interleaving *)
(* of handlers, rollbacks and crashes.                                      *)
THEOREM TypeCorrect == Spec => []TypeOK
<1>1. TypeInv => TypeOK
  BY DEF TypeInv
<1> QED
  BY <1>1, TypeInvariant, PTL

-----------------------------------------------------------------------------
(* The ledger. *)

(* What keeps the balance meaningful: payments are positive, so the total  *)
(* paid tells whether there are any, and money implies a sent invoice.     *)
BalanceSound ==
  /\ TotalPaid >= 0
  /\ payments = <<>> => TotalPaid = 0
  /\ payments # <<>> => TotalPaid > 0
  /\ invoice.status \in {"sent", "paid"} => invoice.sentAt

LedgerSafe ==
  /\ BalanceSound
  /\ NeverOverpaid
  /\ StatusMatchesPayments
  /\ ExactlyOncePerKey
  /\ SnapshotIffIssued

LocalInv(w) == RowCurrent(w) /\ PaymentFits(w) /\ StagedLegal(w)

(* The inductive invariant: the types, the lock, what each transaction has *)
(* checked and staged, and the ledger.                                     *)
IInv ==
  /\ TypeInv
  /\ LockHeld
  /\ \A w \in Workers : LocalInv(w)
  /\ LedgerSafe

LEMMA IInvInit == Init => IInv
<1> SUFFICES ASSUME Init PROVE IInv
  OBVIOUS
<1>1. TypeInv
  BY TypeInvInit
<1>2. LockHeld
  BY DEF Init, LockHeld, InTransaction
<1>3. ASSUME NEW w \in Workers PROVE LocalInv(w)
  BY DEF Init, LocalInv, RowCurrent, PaymentFits, StagedLegal
<1>4. BalanceSound /\ NeverOverpaid /\ StatusMatchesPayments /\ SnapshotIffIssued
  <2>1. TotalPaid = 0 /\ invoice.total \in Nat /\ invoice.status = "draft"
    BY PaidEmpty, FirstRow DEF Init
  <2> QED
    BY <2>1, FirstRow DEF Init, BalanceSound, NeverOverpaid, StatusMatchesPayments, SnapshotIffIssued
<1>5. ExactlyOncePerKey
  BY DEF Init, ExactlyOncePerKey
<1> QED
  BY <1>1, <1>2, <1>3, <1>4, <1>5 DEF IInv, LedgerSafe

(* A worker outside its transaction relies on nothing. *)
LEMMA LocalOutside ==
  ASSUME NEW w \in Workers, pc'[w] \notin InTransaction, staged'[w] = NothingStaged
  PROVE  LocalInv(w)'
  BY DEF LocalInv, RowCurrent, PaymentFits, StagedLegal, InTransaction

(* A step that commits nothing keeps what the other workers rely on. *)
LEMMA LocalFrame ==
  ASSUME NEW w \in Workers, Frame(w), UNCHANGED <<invoice, payments>>,
         NEW u \in Workers \ {w}, LocalInv(u)
  PROVE  LocalInv(u)'
<1>1. pc'[u] = pc[u] /\ req'[u] = req[u] /\ inv'[u] = inv[u] /\ staged'[u] = staged[u]
  BY DEF Frame
<1>2. RowCurrent(u)'
  BY <1>1 DEF LocalInv, RowCurrent
<1>3. PaymentFits(u)'
  BY <1>1, PaidKept DEF LocalInv, PaymentFits, RowsWithKey, ExhaustsBalance, Outstanding
<1>4. StagedLegal(u)'
  BY <1>1, PaidKept DEF LocalInv, StagedLegal, ExhaustsBalance, Outstanding, Sent, Cancelled
<1> QED
  BY <1>2, <1>3, <1>4 DEF LocalInv

(* A step that commits nothing keeps the ledger. *)
LEMMA LedgerFrame ==
  ASSUME LedgerSafe, UNCHANGED <<invoice, payments>>,
         \A a \in acked' : a \in acked \/ \E n \in DOMAIN payments : payments[n] = a
  PROVE  LedgerSafe'
  BY PaidKept DEF LedgerSafe, BalanceSound, NeverOverpaid, StatusMatchesPayments, ExactlyOncePerKey,
         SnapshotIffIssued

(* What a step that commits nothing has to show. *)
LEMMA QuietStep ==
  ASSUME IInv, NEW w \in Workers, Receive(w) \/ Progress(w) \/ Abort(w),
         UNCHANGED <<invoice, payments>>,
         \A a \in acked' : a \in acked \/ \E n \in DOMAIN payments : payments[n] = a,
         LockHeld', LocalInv(w)'
  PROVE  IInv'
<1>1. TypeInv'
  BY TypeInvStep DEF IInv, Next
<1>2. Frame(w)
  BY WorkerFrame DEF IInv, TypeInv
<1>3. ASSUME NEW u \in Workers PROVE LocalInv(u)'
  BY <1>2, LocalFrame DEF IInv
<1>4. LedgerSafe'
  BY LedgerFrame DEF IInv
<1> QED
  BY <1>1, <1>3, <1>4 DEF IInv

(* While a worker is in its transaction, no other is in one. *)
LEMMA OnlyHolder ==
  ASSUME LockHeld, NEW w \in Workers, pc[w] \in InTransaction
  PROVE  lock = w /\ \A u \in Workers \ {w} : pc[u] \notin InTransaction
  BY DEF LockHeld

(* Leaving the transaction frees the lock. *)
LEMMA ReleaseLock ==
  ASSUME LockHeld, NEW w \in Workers, pc[w] \in InTransaction, Frame(w),
         lock' = Unlocked, pc'[w] \notin InTransaction
  PROVE  LockHeld'
  BY OnlyHolder DEF LockHeld, Frame

LEMMA KeepLock ==
  ASSUME LockHeld, NEW w \in Workers, Frame(w), lock' = lock,
         pc[w] \in InTransaction <=> pc'[w] \in InTransaction
  PROVE  LockHeld'
  BY DEF LockHeld, Frame

(* Every early return of a transaction. *)
LEMMA RollbackStep ==
  ASSUME IInv, NEW w \in Workers, NEW answer, Progress(w), pc[w] \in InTransaction,
         Rollback(w, answer),
         \A a \in acked' : a \in acked \/ \E n \in DOMAIN payments : payments[n] = a
  PROVE  IInv'
<1>1. Frame(w)
  BY WorkerFrame DEF IInv, TypeInv
<1>2. pc'[w] = "idle" /\ staged'[w] = NothingStaged /\ lock' = Unlocked
  BY DEF Rollback, Finish, IInv, TypeInv, TypeOK
<1>3. pc'[w] \notin InTransaction
  BY <1>2 DEF InTransaction
<1>4. LockHeld'
  BY <1>1, <1>2, <1>3, ReleaseLock DEF IInv
<1>5. LocalInv(w)'
  BY <1>2, <1>3, LocalOutside
<1> QED
  BY <1>4, <1>5, QuietStep DEF Rollback

(* The steps before the transaction and after it. *)
LEMMA OutsideSteps ==
  ASSUME IInv, NEW w \in Workers, Receive(w) \/ ReadInvoice(w) \/ ReadTotalPaid(w)
  PROVE  IInv'
<1>1. Receive(w) \/ Progress(w)
  BY DEF Progress
<1>2. Frame(w)
  BY <1>1, WorkerFrame DEF IInv, TypeInv
<1>3. /\ pc[w] \notin InTransaction
      /\ pc'[w] \notin InTransaction
      /\ lock' = lock
      /\ UNCHANGED <<invoice, payments, acked>>
  BY DEF Receive, ReadInvoice, ReadTotalPaid, Finish, Goto, IInv, TypeInv, TypeOK, InTransaction
<1>4. staged[w] = NothingStaged
  BY <1>3 DEF IInv, LocalInv, StagedLegal, InTransaction
<1>5. staged'[w] = NothingStaged
  BY <1>4 DEF Receive, ReadInvoice, ReadTotalPaid, Finish, IInv, TypeInv, TypeOK
<1>6. LocalInv(w)'
  BY <1>3, <1>5, LocalOutside
<1>7. LockHeld'
  BY <1>2, <1>3, KeepLock DEF IInv
<1> QED
  BY <1>1, <1>3, <1>6, <1>7, QuietStep

(* Taking the lock: the row just read is the committed one. *)
LEMMA GetForUpdateStep ==
  ASSUME IInv, NEW w \in Workers, GetForUpdate(w)
  PROVE  IInv'
<1>1. Progress(w)
  BY DEF Progress
<1>2. Frame(w)
  BY <1>1, WorkerFrame DEF IInv, TypeInv
<1>3. /\ pc'[w] \in {"lookup", "checkDraft", "checkUnpaid"}
      /\ inv'[w] = invoice
      /\ staged'[w] = staged[w]
      /\ lock = Unlocked
      /\ lock' = w
      /\ UNCHANGED <<invoice, payments, acked>>
  BY DEF GetForUpdate, Goto, RowFree, IInv, TypeInv, TypeOK
<1>4. pc'[w] \in InTransaction
  BY <1>3 DEF InTransaction
<1>5. ASSUME NEW u \in Workers \ {w} PROVE pc'[u] \notin InTransaction
  BY <1>2, <1>3 DEF IInv, LockHeld, Frame
<1>6. LockHeld'
  BY <1>3, <1>4, <1>5 DEF LockHeld
<1>7. staged'[w] = NothingStaged
  BY <1>3 DEF GetForUpdate, IInv, LocalInv, StagedLegal
<1>8. LocalInv(w)'
  BY <1>3, <1>7 DEF LocalInv, RowCurrent, PaymentFits, StagedLegal
<1> QED
  BY <1>1, <1>3, <1>6, <1>8, QuietStep

(* A check that passes, or a statement that writes to staged, keeps the    *)
(* lock: what is left is what the worker relies on afterwards.             *)
LEMMA HoldingStep ==
  ASSUME IInv, NEW w \in Workers, Progress(w),
         pc[w] \in InTransaction, pc'[w] \in InTransaction,
         UNCHANGED <<invoice, payments, lock, acked>>, LocalInv(w)'
  PROVE  IInv'
<1>1. Frame(w)
  BY WorkerFrame DEF IInv, TypeInv
<1>2. LockHeld'
  BY <1>1, KeepLock DEF IInv
<1> QED
  BY <1>2, QuietStep

LEMMA CheckSteps ==
  ASSUME IInv, NEW w \in Workers, SendCheckDraft(w) \/ CancelCheckUnpaid(w)
  PROVE  IInv'
<1>1. Progress(w) /\ pc[w] \in InTransaction /\ acked' = acked
  BY DEF Progress, SendCheckDraft, CancelCheckUnpaid, InTransaction
<1>2. CASE Rollback(w, Refused)
  BY <1>1, <1>2, RollbackStep
<1>3. CASE ~Rollback(w, Refused)
  <2>1. /\ UNCHANGED <<invoice, payments, live, lock, req, inv, staged, resp>>
        /\ inv[w] = invoice
        /\ staged[w] = NothingStaged
    BY <1>3 DEF SendCheckDraft, CancelCheckUnpaid, IInv, LocalInv, RowCurrent, StagedLegal
  <2>2. pc'[w] \in {"snapshot", "markCancelled"}
    BY <1>3 DEF SendCheckDraft, CancelCheckUnpaid, Goto, IInv, TypeInv, TypeOK
  <2>3. invoice \in InvoiceRow /\ invoice = [invoice EXCEPT !.snapshot = invoice.snapshot]
    BY DEF IInv, TypeInv, TypeOK, InvoiceRow
  <2>4. pc'[w] = "snapshot" => invoice.status = "draft" /\ payments = <<>>
    BY <1>3, <2>1, <2>2 DEF SendCheckDraft, CancelCheckUnpaid, Goto, NeedsSnapshot, IInv, TypeInv, TypeOK,
       LedgerSafe, StatusMatchesPayments
  <2>5. pc'[w] = "markCancelled" => payments = <<>> /\ invoice.status = "sent"
    BY <1>3, <2>1, <2>2 DEF SendCheckDraft, CancelCheckUnpaid, Goto, NeedsSnapshot, Cancellable, IInv, TypeInv,
       TypeOK, LedgerSafe, BalanceSound
  <2>6. pc'[w] = "markCancelled" => invoice.snapshot \in Versions
    BY <2>3, <2>5 DEF InvoiceRow, IInv, LedgerSafe, SnapshotIffIssued
  <2>7. RowCurrent(w)'
    BY <2>1, <2>2, <2>3, <2>4, <2>5, <2>6 DEF RowCurrent
  <2>8. PaymentFits(w)' /\ StagedLegal(w)'
    BY <2>1, <2>2 DEF PaymentFits, StagedLegal
  <2> QED
    BY <1>1, <2>1, <2>2, <2>7, <2>8, HoldingStep DEF LocalInv, InTransaction
<1> QED
  BY <1>2, <1>3

LEMMA BuildSnapshotStep ==
  ASSUME IInv, NEW w \in Workers, BuildSnapshot(w)
  PROVE  IInv'
<1>1. Progress(w) /\ pc[w] \in InTransaction
  BY DEF Progress, BuildSnapshot, InTransaction
<1>2. /\ UNCHANGED <<invoice, payments, live, lock, req, staged, acked>>
      /\ pc'[w] \in {"markSent", "markCancelled"}
  BY DEF BuildSnapshot, Goto, IInv, TypeInv, TypeOK
<1>3. /\ inv[w] = invoice
      /\ invoice.status = "draft"
      /\ payments = <<>>
      /\ staged[w] = NothingStaged
      /\ invoice \in InvoiceRow
      /\ live \in Versions
  BY DEF BuildSnapshot, IInv, TypeInv, TypeOK, LocalInv, RowCurrent, StagedLegal
<1>4. inv' = [inv EXCEPT ![w] = [inv[w] EXCEPT !.snapshot = live]]
  BY DEF BuildSnapshot
<1>5. inv'[w] = [invoice EXCEPT !.snapshot = live]
  BY <1>3, <1>4 DEF IInv, TypeInv, TypeOK
<1>6. inv'[w].snapshot = live
  BY <1>3, <1>5 DEF InvoiceRow
<1>7. RowCurrent(w)'
  BY <1>2, <1>3, <1>5, <1>6 DEF RowCurrent
<1>8. PaymentFits(w)' /\ StagedLegal(w)'
  BY <1>2, <1>3 DEF PaymentFits, StagedLegal
<1> QED
  BY <1>1, <1>2, <1>7, <1>8, HoldingStep DEF LocalInv, InTransaction

LEMMA MarkSentStep ==
  ASSUME IInv, NEW w \in Workers, MarkSentWithSnapshot(w)
  PROVE  IInv'
<1>1. Progress(w) /\ pc[w] = "markSent"
  BY DEF Progress, MarkSentWithSnapshot
<1>2. /\ UNCHANGED <<invoice, payments, live, lock, req, inv, acked>>
      /\ pc'[w] = "commit"
      /\ req[w].op = "send"
  BY DEF MarkSentWithSnapshot, Goto, IInv, TypeInv, TypeOK, OpMatches
<1>3. /\ invoice.status = "draft"
      /\ inv[w].snapshot \in Versions
      /\ inv[w] = [invoice EXCEPT !.snapshot = inv[w].snapshot]
      /\ staged[w] = NothingStaged
      /\ inv[w] \in InvoiceRow
  BY <1>1 DEF IInv, TypeInv, TypeOK, LocalInv, RowCurrent, StagedLegal, OpMatches, InTransaction
<1>4. staged' = [staged EXCEPT ![w] = [staged[w] EXCEPT !.row = Sent(inv[w])]]
  BY DEF MarkSentWithSnapshot
<1>5. staged'[w].row = Sent(inv[w]) /\ staged'[w].payment = None
  BY <1>3, <1>4 DEF IInv, TypeInv, TypeOK, NothingStaged
<1>6. Sent(inv[w]) \in InvoiceRow /\ Sent(inv[w]).snapshot = inv[w].snapshot
  BY <1>3 DEF Sent, InvoiceRow, Statuses
<1>7. RowCurrent(w)' /\ PaymentFits(w)'
  BY <1>2 DEF RowCurrent, PaymentFits
<1>8. StagedLegal(w)'
  BY <1>2, <1>3, <1>5, <1>6 DEF StagedLegal
<1> QED
  BY <1>1, <1>2, <1>7, <1>8, HoldingStep DEF LocalInv, InTransaction

LEMMA MarkCancelledStep ==
  ASSUME IInv, NEW w \in Workers, MarkCancelled(w)
  PROVE  IInv'
<1>1. Progress(w) /\ pc[w] = "markCancelled"
  BY DEF Progress, MarkCancelled
<1>2. /\ UNCHANGED <<invoice, payments, live, lock, req, inv, acked>>
      /\ pc'[w] = "commit"
      /\ req[w].op = "cancel"
  BY DEF MarkCancelled, Goto, IInv, TypeInv, TypeOK, OpMatches
<1>3. /\ invoice.status \in {"draft", "sent"}
      /\ payments = <<>>
      /\ inv[w].snapshot \in Versions
      /\ inv[w] = [invoice EXCEPT !.snapshot = inv[w].snapshot]
      /\ invoice.status # "draft" => inv[w] = invoice
      /\ staged[w] = NothingStaged
      /\ inv[w] \in InvoiceRow
  BY <1>1 DEF IInv, TypeInv, TypeOK, LocalInv, RowCurrent, StagedLegal, OpMatches, InTransaction
<1>4. staged' = [staged EXCEPT ![w] = [staged[w] EXCEPT !.row = Cancelled(inv[w])]]
  BY DEF MarkCancelled
<1>5. staged'[w].row = Cancelled(inv[w]) /\ staged'[w].payment = None
  BY <1>3, <1>4 DEF IInv, TypeInv, TypeOK, NothingStaged
<1>6. Cancelled(inv[w]) \in InvoiceRow /\ Cancelled(inv[w]).snapshot = inv[w].snapshot
  BY <1>3 DEF Cancelled, InvoiceRow, Statuses
<1>7. RowCurrent(w)' /\ PaymentFits(w)'
  BY <1>2 DEF RowCurrent, PaymentFits
<1>8. StagedLegal(w)'
  BY <1>2, <1>3, <1>5, <1>6 DEF StagedLegal
<1> QED
  BY <1>1, <1>2, <1>7, <1>8, HoldingStep DEF LocalInv, InTransaction

LEMMA LookupKeyStep ==
  ASSUME IInv, NEW w \in Workers, LookupKey(w)
  PROVE  IInv'
<1>1. Progress(w) /\ pc[w] = "lookup" /\ pc[w] \in InTransaction
  BY DEF Progress, LookupKey, InTransaction
<1>2. CASE KeyIsNew(w)
  <2>1. /\ pc'[w] = "balance"
        /\ UNCHANGED <<invoice, payments, live, lock, req, inv, staged, resp, acked>>
    BY <1>1, <1>2 DEF KeyIsNew, Goto, IInv, TypeInv, TypeOK
  <2>2. RowsWithKey(req[w].key)' = {}
    BY <1>2, <2>1 DEF KeyIsNew, RowsWithKey
  <2>3. RowCurrent(w)' /\ PaymentFits(w)' /\ StagedLegal(w)'
    BY <1>1, <2>1, <2>2 DEF IInv, LocalInv, RowCurrent, PaymentFits, StagedLegal
  <2>4. LocalInv(w)'
    BY <2>3 DEF LocalInv
  <2> QED
    BY <1>1, <2>1, <2>4, HoldingStep DEF InTransaction
<1>3. CASE Replay(w)
  <2>1. \A a \in acked' : a \in acked \/ \E n \in DOMAIN payments : payments[n] = a
    <3>1. SUFFICES ASSUME NEW a \in acked', a \notin acked
                   PROVE  \E n \in DOMAIN payments : payments[n] = a
      OBVIOUS
    <3>2. PICK n \in RowsWithKey(req[w].key) :
             payments[n].hash = req[w].body /\ a = [key |-> req[w].key, hash |-> req[w].body]
      BY <1>3, <3>1 DEF Replay
    <3>3. n \in DOMAIN payments /\ payments[n].key = req[w].key
      BY <3>2 DEF RowsWithKey
    <3>4. payments[n] \in PaymentRow
      BY <3>3 DEF IInv, TypeInv, TypeOK
    <3>5. payments[n] = a
      BY <3>2, <3>3, <3>4 DEF PaymentRow
    <3> QED
      BY <3>3, <3>5
  <2> QED
    BY <1>1, <1>3, <2>1, RollbackStep DEF Replay
<1>4. CASE KeyReused(w)
  BY <1>1, <1>4, RollbackStep DEF KeyReused
<1> QED
  BY <1>2, <1>3, <1>4 DEF LookupKey

LEMMA CheckBalanceStep ==
  ASSUME IInv, NEW w \in Workers, CheckBalance(w)
  PROVE  IInv'
<1>1. Progress(w) /\ pc[w] = "balance" /\ pc[w] \in InTransaction /\ acked' = acked
  BY DEF Progress, CheckBalance, InTransaction
<1>2. CASE Rollback(w, Refused)
  BY <1>1, <1>2, RollbackStep
<1>3. CASE ~Rollback(w, Refused)
  <2>1. /\ pc'[w] = "insert"
        /\ UNCHANGED <<invoice, payments, live, lock, req, inv, staged, resp>>
        /\ inv[w].status = "sent"
        /\ AmountOf[req[w].body] <= Outstanding(inv[w])
    BY <1>3 DEF CheckBalance, CanAcceptPayment, Goto, IInv, TypeInv, TypeOK
  <2>2. RowsWithKey(req[w].key) = {}
    BY <1>1 DEF IInv, LocalInv, PaymentFits
  <2>3. PaymentFits(w)'
    BY <1>1, <2>1, <2>2, PaidKept DEF IInv, LocalInv, PaymentFits, RowCurrent, RowsWithKey, Outstanding
  <2>4. RowCurrent(w)' /\ StagedLegal(w)'
    BY <1>1, <2>1 DEF IInv, LocalInv, RowCurrent, StagedLegal
  <2> QED
    BY <1>1, <2>1, <2>3, <2>4, HoldingStep DEF LocalInv, InTransaction
<1> QED
  BY <1>2, <1>3

LEMMA InsertPaymentStep ==
  ASSUME IInv, NEW w \in Workers, InsertPayment(w)
  PROVE  IInv'
<1> DEFINE row == [key |-> req[w].key, hash |-> req[w].body]
<1>1. Progress(w) /\ pc[w] = "insert"
  BY DEF Progress, InsertPayment
<1>2. /\ UNCHANGED <<invoice, payments, live, lock, req, inv, acked>>
      /\ inv[w] = invoice
      /\ pc'[w] = IF ExhaustsBalance(invoice, req[w].body) THEN "settle" ELSE "commit"
      /\ req[w].op = "pay"
  BY DEF InsertPayment, Goto, IInv, TypeInv, TypeOK, OpMatches, LocalInv, RowCurrent
<1>3. staged[w] = NothingStaged
  BY <1>1 DEF IInv, LocalInv, StagedLegal
<1>4. staged' = [staged EXCEPT ![w] = [staged[w] EXCEPT !.payment = row]]
  BY DEF InsertPayment
<1>5. staged'[w].row = None /\ staged'[w].payment = row
  BY <1>3, <1>4 DEF IInv, TypeInv, TypeOK, NothingStaged
<1>6. ExhaustsBalance(invoice, req[w].body)' <=> ExhaustsBalance(invoice, req[w].body)
  BY <1>2, PaidKept DEF ExhaustsBalance, Outstanding
<1>7. PaymentFits(w)'
  BY <1>1, <1>2, <1>6, PaidKept DEF IInv, LocalInv, PaymentFits, RowsWithKey, Outstanding
<1>8. RowCurrent(w)'
  BY <1>2 DEF RowCurrent
<1>9. StagedLegal(w)'
  BY <1>2, <1>5, <1>6 DEF StagedLegal
<1> QED
  BY <1>1, <1>2, <1>7, <1>8, <1>9, HoldingStep DEF LocalInv, InTransaction

LEMMA SettleInvoiceStep ==
  ASSUME IInv, NEW w \in Workers, SettleInvoice(w)
  PROVE  IInv'
<1> DEFINE row == [invoice EXCEPT !.status = "paid"]
<1>1. Progress(w) /\ pc[w] = "settle"
  BY DEF Progress, SettleInvoice
<1>2. /\ UNCHANGED <<invoice, payments, live, lock, req, inv, acked>>
      /\ pc'[w] = "commit"
      /\ req[w].op = "pay"
  BY DEF SettleInvoice, Goto, IInv, TypeInv, TypeOK, OpMatches
<1>3. staged[w].payment = [key |-> req[w].key, hash |-> req[w].body]
  BY <1>1 DEF IInv, LocalInv, StagedLegal
<1>4. staged' = [staged EXCEPT ![w] = [staged[w] EXCEPT !.row = row]]
  BY DEF SettleInvoice
<1>5. staged'[w].row = row /\ staged'[w].payment = staged[w].payment
  BY <1>4 DEF IInv, TypeInv, TypeOK
<1>6. ExhaustsBalance(invoice, req[w].body) /\ ExhaustsBalance(invoice, req[w].body)'
  BY <1>1, <1>2, PaidKept DEF IInv, LocalInv, PaymentFits, ExhaustsBalance, Outstanding
<1>7. PaymentFits(w)'
  BY <1>1, <1>2, <1>6, PaidKept DEF IInv, LocalInv, PaymentFits, RowsWithKey, Outstanding
<1>8. RowCurrent(w)'
  BY <1>2 DEF RowCurrent
<1>9. StagedLegal(w)'
  BY <1>2, <1>3, <1>5, <1>6 DEF StagedLegal
<1> QED
  BY <1>1, <1>2, <1>7, <1>8, <1>9, HoldingStep DEF LocalInv, InTransaction

(* A failure, at whatever statement, keeps what was committed. *)
LEMMA AbortStep ==
  ASSUME IInv, NEW w \in Workers, Abort(w)
  PROVE  IInv'
<1>1. Frame(w)
  BY WorkerFrame DEF IInv, TypeInv
<1>2. /\ pc'[w] = "idle" /\ staged'[w] = NothingStaged
      /\ UNCHANGED <<invoice, payments, acked>>
      /\ lock' = IF lock = w THEN Unlocked ELSE lock
  BY DEF Abort, Finish, IInv, TypeInv, TypeOK
<1>3. pc'[w] \notin InTransaction
  BY <1>2 DEF InTransaction
<1>4. LockHeld'
  <2>1. CASE pc[w] \in InTransaction
    BY <1>1, <1>2, <1>3, <2>1, ReleaseLock, OnlyHolder DEF IInv
  <2>2. CASE pc[w] \notin InTransaction
    <3>1. lock' = lock
      BY <1>2, <2>2 DEF IInv, LockHeld
    <3> QED
      BY <1>1, <1>3, <2>2, <3>1, KeepLock DEF IInv
  <2> QED
    BY <2>1, <2>2
<1>5. LocalInv(w)'
  BY <1>2, <1>3, LocalOutside
<1> QED
  BY <1>2, <1>4, <1>5, QuietStep

LEMMA CrashStep == IInv /\ Crash => IInv'
<1> SUFFICES ASSUME IInv, Crash PROVE IInv'
  OBVIOUS
<1>1. TypeInv'
  BY TypeInvStep DEF IInv, Next
<1>2. ASSUME NEW w \in Workers
      PROVE  pc'[w] = "idle" /\ staged'[w] = NothingStaged /\ pc'[w] \notin InTransaction
  BY DEF Crash, InTransaction
<1>3. LockHeld'
  BY <1>2 DEF Crash, LockHeld
<1>4. \A w \in Workers : LocalInv(w)'
  BY <1>2, LocalOutside
<1>5. LedgerSafe'
  BY LedgerFrame DEF Crash, IInv
<1> QED
  BY <1>1, <1>3, <1>4, <1>5 DEF IInv

LEMMA LocalUnchanged ==
  ASSUME NEW w \in Workers, LocalInv(w),
         UNCHANGED <<invoice, payments, pc, req, inv, staged>>
  PROVE  LocalInv(w)'
<1>1. RowCurrent(w)'
  BY DEF LocalInv, RowCurrent
<1>2. PaymentFits(w)'
  BY PaidKept DEF LocalInv, PaymentFits, RowsWithKey, ExhaustsBalance, Outstanding
<1>3. StagedLegal(w)'
  BY PaidKept DEF LocalInv, StagedLegal, ExhaustsBalance, Outstanding, Sent, Cancelled
<1> QED
  BY <1>1, <1>2, <1>3 DEF LocalInv

(* The live data changes under every transaction and disturbs none. *)
LEMMA EditStep == IInv /\ (EditLiveData \/ UNCHANGED vars) => IInv'
<1> SUFFICES ASSUME IInv, EditLiveData \/ UNCHANGED vars PROVE IInv'
  OBVIOUS
<1>1. TypeInv'
  BY TypeInvStep DEF IInv, Next
<1>2. UNCHANGED <<invoice, payments, lock, pc, req, inv, staged, acked>>
  BY DEF EditLiveData, vars
<1>3. LockHeld'
  BY <1>2 DEF IInv, LockHeld
<1>4. \A w \in Workers : LocalInv(w)'
  BY <1>2, LocalUnchanged DEF IInv
<1>5. LedgerSafe'
  BY <1>2, LedgerFrame DEF IInv
<1> QED
  BY <1>1, <1>3, <1>4, <1>5 DEF IInv

(* Recording a payment that fits keeps the ledger. *)
LEMMA CommitPayment ==
  ASSUME IInv, NEW w \in Workers, pc[w] = "commit", req[w].op = "pay", Install(w),
         acked' \subseteq acked \cup {staged[w].payment}
  PROVE  LedgerSafe'
<1> DEFINE p == staged[w].payment
<1>1. /\ req[w] \in PayRequests \cup PlainRequests
      /\ req[w].op = "pay"
      /\ ValidPayment(req[w].body)
  BY DEF IInv, TypeInv, TypeOK, OpMatches
<1>2. req[w].key \in Keys /\ req[w].body \in Bodies
  BY <1>1, RequestFields
<1>3. p = [key |-> req[w].key, hash |-> req[w].body] /\ p \in PaymentRow /\ p # None
  <2>1. p = [key |-> req[w].key, hash |-> req[w].body]
    BY DEF IInv, LocalInv, StagedLegal
  <2>2. p \in PaymentRow
    BY <1>2, <2>1 DEF PaymentRow
  <2> QED
    BY <2>1, <2>2
<1>4. /\ invoice.status = "sent"
      /\ AmountOf[req[w].body] <= invoice.total - TotalPaid
      /\ RowsWithKey(req[w].key) = {}
  BY DEF IInv, LocalInv, PaymentFits, Outstanding
<1>5. /\ payments' = Append(payments, p)
      /\ TotalPaid' = TotalPaid + AmountOf[req[w].body]
  <2>1. payments' = Append(payments, p)
    BY <1>3 DEF Install
  <2>2. TotalPaid' = TotalPaid + AmountOf[p.hash]
    BY <1>3, <2>1, PaidAppend DEF IInv, TypeInv
  <2> QED
    BY <1>3, <2>1, <2>2
<1>6. /\ AmountOf[req[w].body] \in Int
      /\ AmountOf[req[w].body] > 0
      /\ TotalPaid \in Int
      /\ invoice.total \in Nat
      /\ payments \in Seq(PaymentRow)
      /\ invoice \in InvoiceRow
  BY <1>1, <1>2, PaidType DEF ValidPayment, IInv, TypeInv, TypeOK, InvoiceRow
<1>7. invoice' = IF TotalPaid' = invoice.total THEN [invoice EXCEPT !.status = "paid"] ELSE invoice
  <2>1. TotalPaid' = invoice.total <=> ExhaustsBalance(invoice, req[w].body)
    BY <1>5, <1>6 DEF ExhaustsBalance, Outstanding
  <2>2. staged[w].row = IF ExhaustsBalance(invoice, req[w].body) THEN [invoice EXCEPT !.status = "paid"] ELSE None
    BY DEF IInv, LocalInv, StagedLegal
  <2>3. [invoice EXCEPT !.status = "paid"] \in InvoiceRow
    BY <1>6 DEF InvoiceRow, Statuses
  <2>4. [invoice EXCEPT !.status = "paid"] # None
    BY <2>3
  <2> QED
    BY <2>1, <2>2, <2>4 DEF Install
<1> HIDE DEF p
<1>8. payments' # <<>> /\ TotalPaid' > 0 /\ TotalPaid' <= invoice.total
  BY <1>4, <1>5, <1>6 DEF IInv, LedgerSafe, BalanceSound
<1>9. /\ invoice'.sentAt
      /\ invoice'.snapshot = invoice.snapshot
      /\ invoice'.total = invoice.total
      /\ invoice'.status = IF TotalPaid' = invoice.total THEN "paid" ELSE "sent"
  BY <1>4, <1>6, <1>7 DEF InvoiceRow, IInv, LedgerSafe, BalanceSound
<1>10. BalanceSound' /\ NeverOverpaid'
  BY <1>5, <1>6, <1>8, <1>9 DEF BalanceSound, NeverOverpaid
<1>11. StatusMatchesPayments'
  BY <1>8, <1>9 DEF StatusMatchesPayments
<1>12. SnapshotIffIssued'
  BY <1>4, <1>9 DEF SnapshotIffIssued, IInv, LedgerSafe
<1>13. ExactlyOncePerKey'
  <2>1. /\ DOMAIN payments' = 1 .. Len(payments) + 1
        /\ DOMAIN payments = 1 .. Len(payments)
        /\ Len(payments) \in Nat
        /\ payments'[Len(payments) + 1] = p
        /\ \A n \in 1 .. Len(payments) : payments'[n] = payments[n]
    BY <1>3, <1>5, <1>6
  <2>2. \A n \in DOMAIN payments : payments[n].key # p.key
    <3>1. p.key = req[w].key
      BY <1>3
    <3> QED
      BY <1>4, <3>1 DEF RowsWithKey
  <2>3. ExactlyOncePerKey
    BY DEF IInv, LedgerSafe
  <2>4. ASSUME NEW m \in DOMAIN payments', NEW n \in DOMAIN payments',
               payments'[m].key = payments'[n].key
        PROVE  m = n
    BY <2>1, <2>2, <2>3, <2>4 DEF ExactlyOncePerKey
  <2>5. ASSUME NEW a \in acked' PROVE \E n \in DOMAIN payments' : payments'[n] = a
    <3>1. CASE a = p
      BY <2>1, <3>1
    <3>2. CASE a \in acked
      BY <2>1, <2>3, <3>2 DEF ExactlyOncePerKey
    <3> QED
      BY <3>1, <3>2 DEF p
  <2> QED
    BY <2>4, <2>5 DEF ExactlyOncePerKey
<1> QED
  BY <1>10, <1>11, <1>12, <1>13 DEF LedgerSafe

(* Issuing and voiding keep the ledger: they happen before any payment. *)
LEMMA CommitStatus ==
  ASSUME IInv, NEW w \in Workers, pc[w] = "commit", req[w].op \in {"send", "cancel"},
         Install(w), acked' = acked
  PROVE  LedgerSafe'
<1> DEFINE row == staged[w].row
<1>1. /\ invoice' = row
      /\ payments' = payments
      /\ row \in InvoiceRow
      /\ row.snapshot \in Versions
      /\ invoice \in InvoiceRow
      /\ TotalPaid' = TotalPaid
  BY PaidKept DEF Install, IInv, TypeInv, TypeOK, LocalInv, StagedLegal
<1>2. payments = <<>>
  BY DEF IInv, LocalInv, StagedLegal, LedgerSafe, StatusMatchesPayments
<1>3. /\ row.snapshot # NoSnapshot /\ row.total = invoice.total
      /\ row.status \in {"sent", "cancelled"} /\ (row.status = "sent" => row.sentAt)
  <2>1. CASE req[w].op = "send"
    <3>1. row = Sent([invoice EXCEPT !.snapshot = row.snapshot])
      BY <2>1 DEF IInv, LocalInv, StagedLegal
    <3>2. row.status = "sent" /\ row.sentAt /\ row.total = invoice.total
      BY <1>1, <3>1 DEF Sent, InvoiceRow
    <3> QED
      BY <1>1, <3>2
  <2>2. CASE req[w].op = "cancel"
    <3>1. row = Cancelled([invoice EXCEPT !.snapshot = row.snapshot])
      BY <2>2 DEF IInv, LocalInv, StagedLegal
    <3>2. row.status = "cancelled" /\ row.total = invoice.total
      BY <1>1, <3>1 DEF Cancelled, InvoiceRow
    <3> QED
      BY <1>1, <3>2
  <2> QED
    BY <2>1, <2>2
<1>4. BalanceSound' /\ NeverOverpaid' /\ StatusMatchesPayments' /\ SnapshotIffIssued'
  BY <1>1, <1>2, <1>3 DEF BalanceSound, NeverOverpaid, StatusMatchesPayments, SnapshotIffIssued, IInv, LedgerSafe
<1>5. ExactlyOncePerKey'
  BY <1>1 DEF ExactlyOncePerKey, IInv, LedgerSafe
<1> QED
  BY <1>4, <1>5 DEF LedgerSafe

LEMMA CommitStep ==
  ASSUME IInv, NEW w \in Workers, Commit(w) \/ CommitUnacknowledged(w)
  PROVE  IInv'
<1>1. Progress(w) /\ pc[w] = "commit" /\ Install(w)
  BY DEF Progress, Commit, CommitUnacknowledged
<1>2. TypeInv'
  BY <1>1, TypeInvStep DEF IInv, Next
<1>3. Frame(w)
  BY <1>1, WorkerFrame DEF IInv, TypeInv
<1>4. \A u \in Workers \ {w} : pc[u] \notin InTransaction
  BY <1>1, OnlyHolder DEF IInv, InTransaction
<1>5. /\ pc'[w] \in {"idle", "read"}
      /\ staged'[w] = NothingStaged
      /\ lock' = Unlocked
  BY DEF Commit, CommitUnacknowledged, Install, Finish, Goto, IInv, TypeInv, TypeOK
<1>6. LockHeld'
  BY <1>1, <1>3, <1>5, ReleaseLock DEF IInv, InTransaction
<1>7. ASSUME NEW u \in Workers PROVE LocalInv(u)'
  <2>1. CASE u = w
    BY <1>5, <2>1, LocalOutside DEF InTransaction
  <2>2. CASE u # w
    <3>1. pc'[u] \notin InTransaction /\ staged'[u] = staged[u]
      BY <1>3, <1>4, <2>2 DEF Frame
    <3>2. staged[u] = NothingStaged
      BY <1>4, <2>2 DEF IInv, LocalInv, StagedLegal, InTransaction
    <3> QED
      BY <3>1, <3>2, LocalOutside
  <2> QED
    BY <2>1, <2>2
<1>8. LedgerSafe'
  <2>1. CASE req[w].op = "pay"
    <3>1. acked' \subseteq acked \cup {staged[w].payment}
      BY <2>1 DEF Commit, CommitUnacknowledged
    <3> QED
      BY <1>1, <2>1, <3>1, CommitPayment
  <2>2. CASE req[w].op # "pay"
    <3>1. req[w].op \in {"send", "cancel"}
      BY <1>1, <2>2 DEF IInv, TypeInv, OpMatches
    <3>2. acked' = acked
      BY <2>2 DEF Commit, CommitUnacknowledged
    <3> QED
      BY <1>1, <3>1, <3>2, CommitStatus
  <2> QED
    BY <2>1, <2>2
<1> QED
  BY <1>2, <1>6, <1>7, <1>8 DEF IInv

LEMMA IInvStep == IInv /\ [Next]_vars => IInv'
<1> SUFFICES ASSUME IInv, [Next]_vars PROVE IInv'
  OBVIOUS
<1>1. ASSUME NEW w \in Workers, Receive(w) \/ Progress(w) \/ Abort(w) PROVE IInv'
  BY <1>1, OutsideSteps, GetForUpdateStep, CheckSteps, BuildSnapshotStep, MarkSentStep,
     MarkCancelledStep, LookupKeyStep, CheckBalanceStep, InsertPaymentStep,
     SettleInvoiceStep, CommitStep, AbortStep DEF Progress
<1> QED
  BY <1>1, CrashStep, EditStep DEF Next

LEMMA Invariance == Spec => []IInv
  BY IInvInit, IInvStep, PTL DEF Spec

(* Payments recorded by concurrent requests never exceed the total of the  *)
(* invoice, however many requests race and whatever they retry.            *)
THEOREM OverpaymentImpossible == Spec => []NeverOverpaid
<1>1. IInv => NeverOverpaid
  BY DEF IInv, LedgerSafe
<1> QED
  BY <1>1, Invariance, PTL

(* The status of the invoice row and its payments never disagree: CreatePayment *)
(* settles the invoice in the transaction that clears the balance, and     *)
(* Cancel cannot void an invoice on which money has been recorded.         *)
THEOREM StatusAndPaymentsAgree == Spec => []StatusMatchesPayments
<1>1. IInv => StatusMatchesPayments
  BY DEF IInv, LedgerSafe
<1> QED
  BY <1>1, Invariance, PTL

(* An idempotency key records at most one payment, and a payment that some *)
(* client saw succeed stays recorded, through rollbacks, lost commit       *)
(* acknowledgements, crashes and replays.                                  *)
THEOREM PaymentsExactlyOnce == Spec => []ExactlyOncePerKey
<1>1. IInv => ExactlyOncePerKey
  BY DEF IInv, LedgerSafe
<1> QED
  BY <1>1, Invariance, PTL

(* The unique index on (invoice, key) never has to reject an INSERT.       *)
THEOREM IndexIsBackstop == Spec => []UniqueIndexNeverHit
<1>1. IInv => UniqueIndexNeverHit
  BY DEF IInv, LocalInv, PaymentFits, UniqueIndexNeverHit
<1> QED
  BY <1>1, Invariance, PTL

(* An invoice has its snapshot exactly when it is no longer a draft.       *)
THEOREM SnapshotWhenIssued == Spec => []SnapshotIffIssued
<1>1. IInv => SnapshotIffIssued
  BY DEF IInv, LedgerSafe
<1> QED
  BY <1>1, Invariance, PTL

(* What a transaction checked under the row lock is still true at each of  *)
(* its later statements and at its COMMIT.                                 *)
THEOREM ChecksStayTrue == Spec => []TransactionsConsistent
<1>1. IInv => TransactionsConsistent
  BY DEF IInv, TypeInv, LocalInv, TransactionsConsistent
<1> QED
  BY <1>1, Invariance, PTL

-----------------------------------------------------------------------------
(* What a step may do to the committed invoice. *)

(* Only a COMMIT changes it. *)
LEMMA OnlyCommitsWrite ==
  ASSUME [Next]_vars, ~UNCHANGED <<invoice, payments>>
  PROVE  \E w \in Workers : pc[w] = "commit" /\ Install(w)
<1>1. ASSUME NEW w \in Workers, Receive(w) \/ Progress(w) \/ Abort(w)
      PROVE  pc[w] = "commit" /\ Install(w)
  <2>1. CASE Receive(w) \/ Abort(w)
    BY <2>1 DEF Receive, Abort
  <2>2. CASE GetForUpdate(w) \/ BuildSnapshot(w) \/ MarkSentWithSnapshot(w) \/ MarkCancelled(w)
    BY <2>2 DEF GetForUpdate, BuildSnapshot, MarkSentWithSnapshot, MarkCancelled
  <2>3. CASE SendCheckDraft(w) \/ CancelCheckUnpaid(w) \/ LookupKey(w) \/ CheckBalance(w)
    BY <2>3 DEF SendCheckDraft, CancelCheckUnpaid, LookupKey, KeyIsNew, Replay, KeyReused, CheckBalance,
       Rollback
  <2>4. CASE InsertPayment(w) \/ SettleInvoice(w) \/ ReadInvoice(w) \/ ReadTotalPaid(w)
    BY <2>4 DEF InsertPayment, SettleInvoice, ReadInvoice, ReadTotalPaid
  <2>5. CASE Commit(w) \/ CommitUnacknowledged(w)
    BY <2>5 DEF Commit, CommitUnacknowledged
  <2> QED
    BY <1>1, <2>1, <2>2, <2>3, <2>4, <2>5 DEF Progress
<1>2. ~Crash /\ ~EditLiveData /\ ~UNCHANGED vars
  BY DEF Crash, EditLiveData, vars
<1> QED
  BY <1>1, <1>2 DEF Next

(* The three transactions, as what their COMMIT does to the ledger. *)
LEMMA SendCommits ==
  ASSUME IInv, NEW w \in Workers, pc[w] = "commit", req[w].op = "send", Install(w)
  PROVE  /\ invoice.status = "draft" /\ invoice'.status = "sent"
         /\ invoice'.snapshot \in Versions
         /\ invoice'.total = invoice.total
         /\ payments' = payments
<1> DEFINE row == staged[w].row
<1>1. /\ invoice' = row
      /\ payments' = payments
      /\ invoice.status = "draft"
      /\ row.snapshot \in Versions
      /\ row = Sent([invoice EXCEPT !.snapshot = row.snapshot])
      /\ invoice \in InvoiceRow
  BY DEF Install, IInv, TypeInv, TypeOK, LocalInv, StagedLegal
<1>2. row.status = "sent" /\ row.total = invoice.total
  BY <1>1 DEF Sent, InvoiceRow
<1> QED
  BY <1>1, <1>2

LEMMA CancelCommits ==
  ASSUME IInv, NEW w \in Workers, pc[w] = "commit", req[w].op = "cancel", Install(w)
  PROVE  /\ invoice.status \in {"draft", "sent"} /\ invoice'.status = "cancelled"
         /\ invoice'.snapshot \in Versions
         /\ invoice.status = "sent" => invoice'.snapshot = invoice.snapshot
         /\ invoice'.sentAt = invoice.sentAt /\ invoice'.total = invoice.total
         /\ payments = <<>>
         /\ payments' = payments
<1> DEFINE row == staged[w].row
<1>1. /\ invoice' = row
      /\ payments' = payments
      /\ payments = <<>>
      /\ invoice.status \in {"draft", "sent"}
      /\ row.snapshot \in Versions
      /\ invoice.status # "draft" => row.snapshot = invoice.snapshot
      /\ row = Cancelled([invoice EXCEPT !.snapshot = row.snapshot])
      /\ invoice \in InvoiceRow
  BY DEF Install, IInv, TypeInv, TypeOK, LocalInv, StagedLegal
<1>2. row.status = "cancelled" /\ row.sentAt = invoice.sentAt /\ row.total = invoice.total
  BY <1>1 DEF Cancelled, InvoiceRow
<1> QED
  BY <1>1, <1>2

LEMMA PayCommits ==
  ASSUME IInv, NEW w \in Workers, pc[w] = "commit", req[w].op = "pay", Install(w)
  PROVE  LET k == req[w].key
             a == AmountOf[req[w].body]
         IN /\ k \in Keys /\ req[w].body \in Bodies /\ a \in Int /\ 0 < a /\ a <= invoice.total - TotalPaid
            /\ invoice.status = "sent" /\ RowsWithKey(k) = {}
            /\ payments' = Append(payments, [key |-> k, hash |-> req[w].body])
            /\ TotalPaid' = TotalPaid + a
            /\ invoice'.status = IF TotalPaid' = invoice.total THEN "paid" ELSE "sent"
            /\ invoice'.snapshot = invoice.snapshot /\ invoice'.sentAt = invoice.sentAt
            /\ invoice'.total = invoice.total
<1>1. req[w].key \in Keys /\ req[w].body \in Bodies /\ AmountOf[req[w].body] > 0
  BY RequestFields DEF IInv, TypeInv, TypeOK, OpMatches, ValidPayment
<1>2. staged[w].payment = [key |-> req[w].key, hash |-> req[w].body]
  BY DEF IInv, LocalInv, StagedLegal
<1>3. staged[w].payment # None
  BY DEF IInv, TypeInv, OpMatches
<1>4. /\ payments' = Append(payments, [key |-> req[w].key, hash |-> req[w].body])
      /\ TotalPaid' = TotalPaid + AmountOf[req[w].body]
  <2> DEFINE row == [key |-> req[w].key, hash |-> req[w].body]
  <2>1. payments' = Append(payments, row)
    BY <1>2, <1>3 DEF Install
  <2>2. row \in PaymentRow
    BY <1>1 DEF PaymentRow
  <2> HIDE DEF row
  <2>3. TotalPaid' = TotalPaid + AmountOf[row.hash]
    BY <2>1, <2>2, PaidAppend DEF IInv, TypeInv
  <2> QED
    BY <2>1, <2>3 DEF row
<1>5. /\ invoice.status = "sent"
      /\ AmountOf[req[w].body] <= invoice.total - TotalPaid
      /\ RowsWithKey(req[w].key) = {}
  BY DEF IInv, LocalInv, PaymentFits, Outstanding
<1>6. /\ staged[w].row = IF ExhaustsBalance(invoice, req[w].body) THEN [invoice EXCEPT !.status = "paid"] ELSE None
      /\ staged[w].row \in InvoiceRow \cup {None}
      /\ invoice \in InvoiceRow
      /\ TotalPaid \in Int /\ invoice.total \in Nat
  BY PaidType DEF IInv, TypeInv, TypeOK, LocalInv, StagedLegal, InvoiceRow
<1>7. [invoice EXCEPT !.status = "paid"] \in InvoiceRow
  BY <1>6 DEF InvoiceRow, Statuses
<1>8. [invoice EXCEPT !.status = "paid"] # None
  BY <1>7
<1>9. invoice' = IF ExhaustsBalance(invoice, req[w].body) THEN [invoice EXCEPT !.status = "paid"] ELSE invoice
  BY <1>6, <1>8 DEF Install
<1>10. ExhaustsBalance(invoice, req[w].body) <=> TotalPaid' = invoice.total
  BY <1>1, <1>4, <1>6 DEF ExhaustsBalance, Outstanding
<1> QED
  BY <1>1, <1>4, <1>5, <1>6, <1>9, <1>10 DEF InvoiceRow

-----------------------------------------------------------------------------
(* An issued invoice never changes appearance: no commit rewrites a        *)
(* snapshot that is set, whatever the live data does meanwhile.            *)
THEOREM IssuedDocumentFrozen == Spec => SnapshotImmutable
<1> DEFINE Frozen == invoice.snapshot # NoSnapshot =>
                       invoice'.snapshot = invoice.snapshot /\ invoice'.sentAt = invoice.sentAt
<1>1. IInv /\ [Next]_vars => [Frozen]_invoice
  <2> SUFFICES ASSUME IInv, [Next]_vars, invoice' # invoice, invoice.snapshot # NoSnapshot
               PROVE  invoice'.snapshot = invoice.snapshot /\ invoice'.sentAt = invoice.sentAt
    OBVIOUS
  <2>1. PICK w \in Workers : pc[w] = "commit" /\ Install(w)
    BY OnlyCommitsWrite
  <2>2. req[w].op \in {"send", "cancel", "pay"} /\ invoice.status # "draft"
    BY <2>1 DEF IInv, TypeInv, OpMatches, LedgerSafe, SnapshotIffIssued
  <2> QED
    BY <2>1, <2>2, SendCommits, CancelCommits, PayCommits
<1> QED
  BY <1>1, Invariance, PTL DEF Spec, SnapshotImmutable

-----------------------------------------------------------------------------
(* Retries. *)

(* A worker that is still serving its request has not refused it.          *)
NotRefused(w) == pc[w] # "idle" => resp[w] # Refused

(* Only the lookup and the balance check refuse a payment.                 *)
LEMMA WhatRefuses ==
  ASSUME IInv, NEW w \in Workers, NotRefused(w), Receive(w) \/ Progress(w) \/ Abort(w),
         pc[w] # "idle", resp'[w] = Refused, req[w].op = "pay"
  PROVE  KeyReused(w) \/ pc[w] = "balance"
<1> USE DEF IInv, TypeInv, TypeOK, Finish, Rollback
<1>1. resp[w] # Refused
  BY DEF NotRefused
<1>2. CASE GetForUpdate(w) \/ BuildSnapshot(w) \/ MarkSentWithSnapshot(w) \/ MarkCancelled(w)
  BY <1>1, <1>2 DEF GetForUpdate, BuildSnapshot, MarkSentWithSnapshot, MarkCancelled
<1>3. CASE InsertPayment(w) \/ SettleInvoice(w) \/ ReadInvoice(w)
  BY <1>1, <1>3 DEF InsertPayment, SettleInvoice, ReadInvoice
<1>4. CASE SendCheckDraft(w) \/ CancelCheckUnpaid(w) \/ ReadTotalPaid(w)
  BY <1>4 DEF SendCheckDraft, CancelCheckUnpaid, ReadTotalPaid, OpMatches
<1>5. CASE LookupKey(w)
  BY <1>1, <1>5 DEF LookupKey, KeyIsNew, Replay
<1>6. CASE Receive(w) \/ CheckBalance(w)
  BY <1>6 DEF Receive, CheckBalance
<1>7. CASE Commit(w) \/ CommitUnacknowledged(w) \/ Abort(w)
  BY <1>1, <1>7 DEF Commit, CommitUnacknowledged, Abort
<1> QED
  BY <1>2, <1>3, <1>4, <1>5, <1>6, <1>7 DEF Progress

LEMMA NotRefusedStep ==
  ASSUME IInv, NEW w \in Workers, NotRefused(w), Receive(w) \/ Progress(w) \/ Abort(w)
  PROVE  NotRefused(w)'
<1> USE DEF IInv, TypeInv, TypeOK, Finish, Rollback, NotRefused
<1>1. CASE Receive(w)
  BY <1>1 DEF Receive
<1>2. CASE GetForUpdate(w) \/ BuildSnapshot(w) \/ MarkSentWithSnapshot(w) \/ MarkCancelled(w)
  BY <1>2 DEF GetForUpdate, BuildSnapshot, MarkSentWithSnapshot, MarkCancelled
<1>3. CASE InsertPayment(w) \/ SettleInvoice(w) \/ ReadInvoice(w) \/ ReadTotalPaid(w)
  BY <1>3 DEF InsertPayment, SettleInvoice, ReadInvoice, ReadTotalPaid
<1>4. CASE SendCheckDraft(w) \/ CancelCheckUnpaid(w) \/ CheckBalance(w)
  BY <1>4 DEF SendCheckDraft, CancelCheckUnpaid, CheckBalance
<1>5. CASE LookupKey(w)
  BY <1>5 DEF LookupKey, KeyIsNew, Replay, KeyReused
<1>6. CASE Commit(w) \/ CommitUnacknowledged(w) \/ Abort(w)
  BY <1>6 DEF Commit, CommitUnacknowledged, Abort
<1> QED
  BY <1>1, <1>2, <1>3, <1>4, <1>5, <1>6 DEF Progress

(* What a refused payment finds: its key unused, or used by another body.  *)
LEMMA RefusedIsNotRecorded ==
  ASSUME IInv, NEW w \in Workers, KeyReused(w) \/ pc[w] = "balance"
  PROVE  [key |-> req[w].key, hash |-> req[w].body] \notin Range(payments)
<1> SUFFICES ASSUME NEW n \in DOMAIN payments,
                    payments[n] = [key |-> req[w].key, hash |-> req[w].body]
             PROVE  FALSE
  BY DEF Range
<1>1. payments[n].key = req[w].key /\ payments[n].hash = req[w].body
  OBVIOUS
<1>2. n \in RowsWithKey(req[w].key)
  BY <1>1 DEF RowsWithKey
<1>3. CASE KeyReused(w)
  <2>1. PICK m \in RowsWithKey(req[w].key) : payments[m].hash # req[w].body
    BY <1>3 DEF KeyReused
  <2>2. m = n
    BY <1>1, <2>1 DEF RowsWithKey, IInv, LedgerSafe, ExactlyOncePerKey
  <2> QED
    BY <1>1, <2>1, <2>2
<1>4. CASE pc[w] = "balance"
  BY <1>2, <1>4 DEF IInv, LocalInv, PaymentFits
<1> QED
  BY <1>3, <1>4

(* A client that repeats a payment already recorded is never refused: the  *)
(* lookup of the key comes first, so the answer depends neither on the     *)
(* status nor on the balance the payment itself has changed.               *)
THEOREM RetriesAnswered == Spec => RetryNeverRefused
<1> DEFINE Answering == \A w \in Workers : NotRefused(w)
           Honest == \A w \in Workers :
                       pc[w] # "idle" /\ resp'[w] = Refused /\ req[w].op = "pay" =>
                         [key |-> req[w].key, hash |-> req[w].body] \notin Range(payments)
<1>1. Init => Answering
  BY DEF Init, NotRefused
<1>2. IInv /\ [Next]_vars /\ Answering => Answering'
  <2> SUFFICES ASSUME IInv, [Next]_vars, Answering, NEW w \in Workers
               PROVE  NotRefused(w)'
    OBVIOUS
  <2>1. ASSUME NEW u \in Workers, Receive(u) \/ Progress(u) \/ Abort(u)
        PROVE  NotRefused(w)'
    <3>1. CASE u = w
      BY <2>1, <3>1, NotRefusedStep
    <3>2. CASE u # w
      BY <2>1, <3>2, WorkerFrame DEF Frame, IInv, TypeInv, NotRefused
    <3> QED
      BY <3>1, <3>2
  <2>2. CASE Crash \/ EditLiveData \/ UNCHANGED vars
    BY <2>2 DEF Crash, EditLiveData, vars, NotRefused
  <2> QED
    BY <2>1, <2>2 DEF Next
<1>3. IInv /\ Answering /\ [Next]_vars => [Honest]_vars
  <2> SUFFICES ASSUME IInv, Answering, [Next]_vars, NEW w \in Workers,
                      pc[w] # "idle", resp'[w] = Refused, req[w].op = "pay"
               PROVE  [key |-> req[w].key, hash |-> req[w].body] \notin Range(payments)
    OBVIOUS
  <2>1. resp[w] # Refused
    BY DEF NotRefused
  <2>2. PICK u \in Workers : Receive(u) \/ Progress(u) \/ Abort(u)
    BY <2>1 DEF Next, Crash, EditLiveData, vars
  <2>3. u = w
    BY <2>1, <2>2, WorkerFrame DEF Frame, IInv, TypeInv
  <2> QED
    BY <2>2, <2>3, WhatRefuses, RefusedIsNotRecorded
<1> HIDE DEF Answering, Honest
<1>4. Spec => [][Honest]_vars
  BY <1>1, <1>2, <1>3, Invariance, PTL DEF Spec
<1> QED
  BY <1>4 DEF RetryNeverRefused, Honest

-----------------------------------------------------------------------------
(* The responses of send, cancel and get: each takes two reads outside any *)
(* transaction, and is consistent because the status only moves forward.   *)

(* A status that a reader has seen can only have moved on since.           *)
LEMMA StatusMovesForward ==
  ASSUME IInv, [Next]_vars
  PROVE  /\ invoice.status # "draft" => invoice'.status # "draft"
         /\ invoice.status \in {"paid", "cancelled"} => invoice'.status = invoice.status
         /\ invoice'.total = invoice.total
<1>1. CASE UNCHANGED <<invoice, payments>>
  BY <1>1
<1>2. CASE ~UNCHANGED <<invoice, payments>>
  <2>1. PICK w \in Workers : pc[w] = "commit" /\ Install(w)
    BY <1>2, OnlyCommitsWrite
  <2>2. req[w].op \in {"send", "cancel", "pay"}
    BY <2>1 DEF IInv, TypeInv, OpMatches
  <2> QED
    BY <2>1, <2>2, SendCommits, CancelCommits, PayCommits
<1> QED
  BY <1>1, <1>2

(* What a reader relies on before each of its two reads.                   *)
ReadSound(w) ==
  /\ pc[w] = "read" =>
       /\ req[w].op = "send" => invoice.status # "draft"
       /\ req[w].op = "cancel" => invoice.status = "cancelled"
  /\ pc[w] = "readPaid" =>
       /\ inv[w].status \in {"paid", "cancelled"} => invoice.status = inv[w].status
       /\ inv[w].total = invoice.total
       /\ req[w].op = "send" => inv[w].status # "draft"
       /\ req[w].op = "cancel" => inv[w].status = "cancelled"

AnswerSound(w) ==
  resp[w] \notin {Refused, None} =>
    /\ resp[w].status = "paid" => resp[w].amountPaid = resp[w].total
    /\ resp[w].status = "cancelled" => resp[w].amountPaid = 0
    /\ resp[w].op = "send" => resp[w].status # "draft"
    /\ resp[w].op = "cancel" => resp[w].status = "cancelled"

(* A step of somebody else: the reader still finds what it relies on.      *)
LEMMA ReaderUndisturbed ==
  ASSUME IInv, [Next]_vars, NEW w \in Workers, ReadSound(w), AnswerSound(w),
         pc'[w] = pc[w], req'[w] = req[w], inv'[w] = inv[w], resp'[w] = resp[w]
  PROVE  ReadSound(w)' /\ AnswerSound(w)'
  BY StatusMovesForward DEF ReadSound, AnswerSound

(* A step after which the worker reads nothing and answers nothing new.    *)
LEMMA ReaderElsewhere ==
  ASSUME NEW w \in Workers, AnswerSound(w), pc'[w] \notin {"read", "readPaid"},
         resp'[w] \in {resp[w], Refused, None}
  PROVE  ReadSound(w)' /\ AnswerSound(w)'
  BY DEF ReadSound, AnswerSound

LEMMA ReaderCommits ==
  ASSUME IInv, NEW w \in Workers, AnswerSound(w), Commit(w)
  PROVE  ReadSound(w)' /\ AnswerSound(w)'
<1>1. pc[w] = "commit" /\ Install(w) /\ req[w].op \in {"send", "cancel", "pay"}
  BY DEF Commit, IInv, TypeInv, OpMatches
<1>2. CASE req[w].op = "pay"
  <2>1. pc'[w] = "idle" /\ resp'[w] = None
    BY <1>2 DEF Commit, Finish, IInv, TypeInv, TypeOK
  <2> QED
    BY <2>1, ReaderElsewhere
<1>3. CASE req[w].op # "pay"
  <2>1. pc'[w] = "read" /\ req'[w] = req[w] /\ resp'[w] = resp[w]
    BY <1>3 DEF Commit, Goto, IInv, TypeInv, TypeOK
  <2>2. /\ req[w].op = "send" => invoice'.status = "sent"
        /\ req[w].op = "cancel" => invoice'.status = "cancelled"
    BY <1>1, SendCommits, CancelCommits
  <2> QED
    BY <2>1, <2>2 DEF ReadSound, AnswerSound
<1> QED
  BY <1>2, <1>3

(* The answer of the second read: money found later than the status can    *)
(* contradict neither a paid nor a cancelled one.                          *)
LEMMA ReaderAnswers ==
  ASSUME IInv, NEW w \in Workers, ReadSound(w), ReadTotalPaid(w)
  PROVE  ReadSound(w)' /\ AnswerSound(w)'
<1>1. /\ pc[w] = "readPaid" /\ pc'[w] = "idle"
      /\ resp'[w] = [op |-> req[w].op, status |-> inv[w].status, total |-> inv[w].total,
                   amountPaid |-> TotalPaid]
  BY DEF ReadTotalPaid, Finish, IInv, TypeInv, TypeOK
<1>2. /\ inv[w].status \in {"paid", "cancelled"} => invoice.status = inv[w].status
      /\ inv[w].total = invoice.total
      /\ req[w].op = "send" => inv[w].status # "draft"
      /\ req[w].op = "cancel" => inv[w].status = "cancelled"
  BY <1>1 DEF ReadSound
<1>3. /\ invoice.status = "paid" => TotalPaid = invoice.total
      /\ invoice.status = "cancelled" => TotalPaid = 0
  BY DEF IInv, LedgerSafe, StatusMatchesPayments, BalanceSound
<1>4. /\ resp'[w].op = req[w].op
      /\ resp'[w].total = inv[w].total
      /\ resp'[w].status = inv[w].status
      /\ resp'[w].amountPaid = TotalPaid
  BY <1>1
<1>5. ReadSound(w)'
  BY <1>1 DEF ReadSound
<1>6. AnswerSound(w)'
  BY <1>2, <1>3, <1>4 DEF AnswerSound
<1> QED
  BY <1>5, <1>6

LEMMA ReaderStep ==
  ASSUME IInv, NEW w \in Workers, ReadSound(w), AnswerSound(w),
         Receive(w) \/ Progress(w) \/ Abort(w)
  PROVE  ReadSound(w)' /\ AnswerSound(w)'
<1> USE DEF IInv, TypeInv, TypeOK, Goto, Finish, Rollback
<1>1. CASE Receive(w)
  <2>1. /\ resp'[w] = None
        /\ pc'[w] = IF req'[w].op = "get" THEN "read" ELSE "lock"
    BY <1>1 DEF Receive
  <2> QED
    BY <2>1 DEF ReadSound, AnswerSound
<1>2. CASE GetForUpdate(w) \/ BuildSnapshot(w) \/ MarkSentWithSnapshot(w) \/ MarkCancelled(w)
  <2>1. pc'[w] \notin {"read", "readPaid"} /\ resp'[w] = resp[w]
    BY <1>2 DEF GetForUpdate, BuildSnapshot, MarkSentWithSnapshot, MarkCancelled
  <2> QED
    BY <2>1, ReaderElsewhere
<1>3. CASE SendCheckDraft(w) \/ CancelCheckUnpaid(w) \/ LookupKey(w) \/ CheckBalance(w)
  <2>1. pc'[w] \notin {"read", "readPaid"} /\ resp'[w] \in {resp[w], Refused, None}
    BY <1>3 DEF SendCheckDraft, CancelCheckUnpaid, LookupKey, KeyIsNew, Replay, KeyReused, CheckBalance
  <2> QED
    BY <2>1, ReaderElsewhere
<1>4. CASE InsertPayment(w) \/ SettleInvoice(w) \/ CommitUnacknowledged(w) \/ Abort(w)
  <2>1. pc'[w] \notin {"read", "readPaid"} /\ resp'[w] \in {resp[w], Refused, None}
    BY <1>4 DEF InsertPayment, SettleInvoice, CommitUnacknowledged, Abort
  <2> QED
    BY <2>1, ReaderElsewhere
<1>5. CASE ReadInvoice(w)
  <2>1. /\ pc[w] = "read" /\ pc'[w] = "readPaid" /\ inv'[w] = invoice /\ invoice' = invoice
        /\ req'[w] = req[w] /\ resp'[w] = resp[w]
    BY <1>5 DEF ReadInvoice
  <2> QED
    BY <2>1 DEF ReadSound, AnswerSound
<1> QED
  BY <1>1, <1>2, <1>3, <1>4, <1>5, ReaderCommits, ReaderAnswers DEF Progress

LEMMA AnswersInit == Init => \A w \in Workers : ReadSound(w) /\ AnswerSound(w)
  BY DEF Init, ReadSound, AnswerSound

LEMMA AnswersStep ==
  IInv /\ [Next]_vars /\ (\A w \in Workers : ReadSound(w) /\ AnswerSound(w))
    => (\A w \in Workers : ReadSound(w) /\ AnswerSound(w))'
<1> SUFFICES ASSUME IInv, [Next]_vars, \A u \in Workers : ReadSound(u) /\ AnswerSound(u),
                    NEW w \in Workers
             PROVE  ReadSound(w)' /\ AnswerSound(w)'
  OBVIOUS
<1>1. ASSUME NEW u \in Workers, Receive(u) \/ Progress(u) \/ Abort(u)
      PROVE  ReadSound(w)' /\ AnswerSound(w)'
  <2>1. CASE u = w
    BY <1>1, <2>1, ReaderStep
  <2>2. CASE u # w
    BY <1>1, <2>2, WorkerFrame, ReaderUndisturbed DEF Frame, IInv, TypeInv
  <2> QED
    BY <2>1, <2>2
<1>2. CASE Crash
  <2>1. pc'[w] = "idle" /\ resp'[w] = None
    BY <1>2 DEF Crash
  <2> QED
    BY <2>1, ReaderElsewhere
<1>3. CASE EditLiveData \/ UNCHANGED vars
  <2>1. pc'[w] = pc[w] /\ req'[w] = req[w] /\ inv'[w] = inv[w] /\ resp'[w] = resp[w]
    BY <1>3 DEF EditLiveData, vars
  <2> QED
    BY <2>1, ReaderUndisturbed
<1> QED
  BY <1>1, <1>2, <1>3 DEF Next

(* No response shows an impossible pair of status and amount paid, although *)
(* the handlers of send, cancel and get read the two with no transaction.  *)
THEOREM ResponsesNeverContradict == Spec => []ResponsesConsistent
<1> DEFINE Answers == \A w \in Workers : ReadSound(w) /\ AnswerSound(w)
<1>1. Answers => ResponsesConsistent
  BY DEF AnswerSound, ResponsesConsistent
<1>2. Init => Answers
  BY AnswersInit
<1>3. IInv /\ [Next]_vars /\ Answers => Answers'
  BY AnswersStep
<1> HIDE DEF Answers
<1> QED
  BY <1>1, <1>2, <1>3, Invariance, PTL DEF Spec

-----------------------------------------------------------------------------
(* The refinement: every COMMIT is one step of InvoiceLedger, and every    *)
(* other step leaves the ledger as it is.                                  *)

KeysUsed == {payments[n].key : n \in DOMAIN payments}

LEMMA PayIsHonour ==
  ASSUME IInv, NEW w \in Workers, pc[w] = "commit", req[w].op = "pay", Install(w),
         NEW k, k = req[w].key, NEW a, a = AmountOf[req[w].body]
  PROVE  Ledger!Honour(k, a)
<1>1. /\ k \in Keys /\ req[w].body \in Bodies /\ a \in Int /\ 0 < a /\ a <= invoice.total - TotalPaid
      /\ invoice.status = "sent" /\ RowsWithKey(k) = {}
      /\ payments' = Append(payments, [key |-> k, hash |-> req[w].body])
      /\ TotalPaid' = TotalPaid + a
      /\ invoice'.status = IF TotalPaid' = invoice.total THEN "paid" ELSE "sent"
      /\ invoice'.snapshot = invoice.snapshot /\ invoice'.total = invoice.total
  <2>1. /\ req[w].key \in Keys /\ req[w].body \in Bodies
        /\ AmountOf[req[w].body] \in Int
        /\ 0 < AmountOf[req[w].body] /\ AmountOf[req[w].body] <= invoice.total - TotalPaid
        /\ invoice.status = "sent" /\ RowsWithKey(req[w].key) = {}
        /\ payments' = Append(payments, [key |-> req[w].key, hash |-> req[w].body])
        /\ TotalPaid' = TotalPaid + AmountOf[req[w].body]
        /\ invoice'.status = IF TotalPaid' = invoice.total THEN "paid" ELSE "sent"
        /\ invoice'.snapshot = invoice.snapshot /\ invoice'.total = invoice.total
    BY PayCommits
  <2> QED
    BY <2>1
<1>2. payments \in Seq(PaymentRow) /\ TotalPaid \in Int /\ invoice.total \in Nat
  BY PaidType DEF IInv, TypeInv, TypeOK, InvoiceRow
<1>3. k \notin KeysUsed
  BY <1>1 DEF RowsWithKey, KeysUsed
<1>4. KeysUsed' = KeysUsed \cup {k}
  <2> DEFINE p == [key |-> k, hash |-> req[w].body]
  <2>1. p.key = k /\ p \in PaymentRow
    BY <1>1 DEF PaymentRow
  <2> HIDE DEF p
  <2>2. payments' = Append(payments, p)
    BY <1>1 DEF p
  <2>3. /\ DOMAIN payments' = DOMAIN payments \cup {Len(payments) + 1}
        /\ payments'[Len(payments) + 1] = p
        /\ \A n \in DOMAIN payments : payments'[n] = payments[n]
    BY <1>2, <2>1, <2>2
  <2> QED
    BY <2>1, <2>3 DEF KeysUsed
<1>5. /\ invoice'.total - TotalPaid' = (invoice.total - TotalPaid) - a
      /\ invoice'.total - TotalPaid' = 0 <=> TotalPaid' = invoice.total
  <2>1. /\ a \in Int /\ TotalPaid' = TotalPaid + a /\ TotalPaid \in Int
        /\ invoice.total \in Int /\ invoice'.total = invoice.total
    BY <1>1, <1>2
  <2> QED
    BY <2>1
<1> QED
  BY <1>1, <1>3, <1>4, <1>5 DEF Ledger!Honour, KeysUsed, Outstanding

LEMMA LedgerInitially == Init => Ledger!LedgerInit
<1> SUFFICES ASSUME Init PROVE Ledger!LedgerInit
  OBVIOUS
<1>1. TotalPaid = 0 /\ payments = <<>>
  BY PaidEmpty DEF Init
<1>2. invoice.total - TotalPaid = invoice.total
  <2>1. invoice.total \in Nat
    BY FirstRow
  <2> QED
    BY <1>1, <2>1
<1>3. {payments[n].key : n \in DOMAIN payments} = {}
  BY <1>1
<1> QED
  BY <1>2, <1>3, FirstRow DEF Ledger!LedgerInit, Outstanding

LEMMA LedgerSteps == IInv /\ [Next]_vars => [Ledger!LedgerNext]_(Ledger!ledgerVars)
<1> SUFFICES ASSUME IInv, [Next]_vars, ~UNCHANGED <<invoice, payments>>
             PROVE  Ledger!LedgerNext
  BY PaidKept DEF Ledger!ledgerVars, Outstanding
<1>1. PICK w \in Workers : pc[w] = "commit" /\ Install(w)
  BY OnlyCommitsWrite
<1>2. req[w].op \in {"send", "cancel", "pay"}
  BY <1>1 DEF IInv, TypeInv, OpMatches
<1>3. CASE req[w].op = "send"
  <2>1. /\ invoice.status = "draft" /\ invoice'.status = "sent"
        /\ invoice'.snapshot \in Versions /\ invoice'.total = invoice.total
        /\ payments' = payments /\ TotalPaid' = TotalPaid
    BY PaidKept, <1>1, <1>3, SendCommits
  <2>2. Ledger!Issue
    BY <2>1 DEF Ledger!Issue, Outstanding
  <2> QED
    BY <2>2 DEF Ledger!LedgerNext
<1>4. CASE req[w].op = "cancel"
  <2>1. /\ invoice.status \in {"draft", "sent"} /\ invoice'.status = "cancelled"
        /\ invoice'.snapshot \in Versions
        /\ invoice.status = "sent" => invoice'.snapshot = invoice.snapshot
        /\ payments = <<>> /\ invoice'.total = invoice.total
        /\ payments' = payments /\ TotalPaid' = TotalPaid
    BY PaidKept, <1>1, <1>4, CancelCommits
  <2>2. {payments[n].key : n \in DOMAIN payments} = {}
    BY <2>1
  <2>3. Ledger!VoidDraft \/ Ledger!VoidIssued
    BY <2>1, <2>2 DEF Ledger!VoidDraft, Ledger!VoidIssued, Outstanding
  <2> QED
    BY <2>3 DEF Ledger!LedgerNext
<1>5. CASE req[w].op = "pay"
  <2>1. req[w].key \in Keys /\ AmountOf[req[w].body] \in {AmountOf[b] : b \in Bodies}
    BY <1>1, <1>5, PayCommits
  <2>2. PICK k \in Keys, a \in {AmountOf[b] : b \in Bodies} :
           k = req[w].key /\ a = AmountOf[req[w].body]
    BY <2>1
  <2>3. Ledger!Honour(k, a)
    BY <1>1, <1>5, <2>2, PayIsHonour
  <2> QED
    BY <2>3 DEF Ledger!LedgerNext
<1> QED
  BY <1>2, <1>3, <1>4, <1>5

(* The transactions implement the atomic ledger: whatever the interleaving *)
(* of requests, retries, failures and crashes, the committed invoice and   *)
(* its payments move only as InvoiceLedger allows.                         *)
THEOREM LifecycleImplementsLedger == Spec => ImplementsLedger
<1> QED
  BY LedgerInitially, LedgerSteps, Invariance, PTL DEF Spec, ImplementsLedger, Ledger!LedgerSpec
=============================================================================
