----------------------- MODULE InvoiceTemplatesProofs -----------------------
(***************************************************************************)
(* Proofs about InvoiceTemplates, for any number of requests, templates,   *)
(* contents and edits. The invariant says what a row lock protects, what a *)
(* transaction has written by each of its statements, and what a passed    *)
(* check of the unique index is still worth at COMMIT.                     *)
(***************************************************************************)
EXTENDS InvoiceTemplates, FiniteSetTheorems, TLAPS

Holds(w, t) == lock[t] = w

(* Without a lock nothing is uncommitted; with one, the row is live, and   *)
(* only its flags have been written: neither its version nor its content.  *)
Pending ==
  \A t \in Ids :
    /\ lock[t] = Unlocked => pending[t] = rows[t]
    /\ lock[t] # Unlocked => Live(rows[t])
    /\ pending[t].version = rows[t].version /\ pending[t].content = rows[t].content
    /\ lock[t] # Unlocked => pending[t].state # "absent"

ClassicLive == Live(rows[Classic]) /\ Live(pending[Classic])

OneDefault == \A t, u \in Ids : LiveDefault(rows[t]) /\ LiveDefault(rows[u]) => t = u

(* The index let w pass: no other default is there, and none can come.     *)
Entered(w) ==
  \A t \in Ids : Holds(w, t) /\ LiveDefault(pending[t]) =>
    \A u \in Ids \ {t} :
      /\ ~LiveDefault(View(w, u))
      /\ lock[u] \notin {Unlocked, w} /\ pc[lock[u]] = "commit" => ~LiveDefault(pending[u])

(* What the client of an edit read is not newer than the row, and is the   *)
(* row's content as long as the versions agree.                            *)
Edits(w) ==
  /\ req[w].id # Classic \/ pc[w] = "load"
  /\ fetched[w] \in [version : 1 .. MaxVersion, content : Contents]
  /\ rows[req[w].id].state # "absent"
  /\ fetched[w].version <= rows[req[w].id].version
  /\ fetched[w].version = rows[req[w].id].version => fetched[w].content = rows[req[w].id].content

Knows(w) ==
  /\ pc[w] # "idle" => req[w] \in Requests
  /\ pc[w] \in {"idle", "load", "softDelete", "save"} => \A t \in Ids : ~Holds(w, t)
  /\ pc[w] \in {"scan", "unset", "set"} => \A t \in Ids : Holds(w, t) => ~LiveDefault(pending[t])
  /\ pc[w] = "index" => Holds(w, Goal(w)) /\ LiveDefault(pending[Goal(w)])
  /\ pc[w] = "softDelete" => req[w].op = "delete" /\ req[w].id # Classic
  /\ pc[w] = "save" => req[w].op = "update"
  /\ pc[w] \in {"scan", "unset", "set", "index"} /\ InTx(w) => saw[w]
  /\ pc[w] = "commit" => InTx(w) /\ Entered(w)
  /\ pc[w] = "commit" /\ saw[w] => Holds(w, Classic) /\ LiveDefault(pending[Classic])
  /\ pc[w] \in {"load", "save"} /\ req[w].op = "update" => Edits(w)

IInv ==
  /\ TypeOK
  /\ Pending
  /\ ClassicLive
  /\ OneDefault
  /\ \A w \in Workers : Knows(w)

(* How a step of w may change the committed rows. *)
RowMoves(w, t) ==
  \/ rows'[t] = rows[t]
  \/ rows[t].state = "absent" /\ rows'[t].state = "live"
  \/ /\ Live(rows[t]) /\ rows'[t].state \in {"live", "deleted"}
     /\ rows'[t].version = rows[t].version /\ rows'[t].content = rows[t].content
     /\ Live(rows'[t]) \/ pc[w] = "commit" \/ ~InTx(w)
  \/ /\ Live(rows[t]) /\ Live(rows'[t])
     /\ rows'[t].version = rows[t].version + 1
     /\ pc[w] = "save" /\ pc'[w] = "idle" /\ req[w].id = t /\ t # Classic
     /\ fetched[w].content = rows[t].content

Others(w) ==
  \A v \in Workers \ {w} :
    pc'[v] = pc[v] /\ req'[v] = req[v] /\ saw'[v] = saw[v] /\ fetched'[v] = fetched[v]

Moves(w) == Others(w) /\ \A t \in Ids : RowMoves(w, t)

-----------------------------------------------------------------------------
(* Rows. *)

LEMMA Flags ==
  ASSUME NEW r \in Row
  PROVE  /\ \A b \in BOOLEAN :
              LET s == [r EXCEPT !.isDefault = b]
              IN  s \in Row /\ s.state = r.state /\ s.version = r.version /\ s.content = r.content
                  /\ s.isDefault = b
         /\ LET s == [r EXCEPT !.state = "deleted"]
            IN  s \in Row /\ s.state = "deleted" /\ s.version = r.version /\ s.content = r.content
BY DEF Row

LEMMA EditedRow ==
  ASSUME NEW r \in Row, r.version < MaxVersion, NEW c \in Contents
  PROVE  /\ Edited(r, c) \in Row /\ Edited(r, c).version = r.version + 1
         /\ Edited(r, c).state = r.state /\ Edited(r, c).isDefault = r.isDefault
         /\ Edited(r, c).content = c
<1>1. r.version \in Nat /\ r.version + 1 \in 1..MaxVersion
  BY IdAssumption DEF Row
<1> DEFINE n == r.version + 1
<1>2. Edited(r, c) = [r EXCEPT !.version = n, !.content = c]
  BY DEF Edited
<1>3. n \in 1..MaxVersion
  BY <1>1
<1> HIDE DEF n
<1>4. /\ Edited(r, c) \in Row /\ Edited(r, c).version = n
      /\ Edited(r, c).state = r.state /\ Edited(r, c).isDefault = r.isDefault
      /\ Edited(r, c).content = c
  BY <1>2, <1>3 DEF Row
<1>5. QED
  BY <1>4 DEF n

LEMMA ViewType ==
  ASSUME IInv, NEW w \in Workers, NEW t \in Ids
  PROVE  /\ View(w, t) \in Row
         /\ View(w, t).version = rows[t].version /\ View(w, t).content = rows[t].content
         /\ ~Holds(w, t) => View(w, t) = rows[t]
         /\ Holds(w, t) => View(w, t) = pending[t]
BY DEF IInv, TypeOK, Pending, View, Holds

-----------------------------------------------------------------------------
(* What a step of w leaves of what the others know. *)

LEMMA EnteredKept ==
  ASSUME IInv, NEW v \in Workers, Entered(v),
         \A t \in Ids : /\ lock[t] = v <=> lock'[t] = v
                        /\ lock[t] = v => pending'[t] = pending[t]
                        /\ LiveDefault(rows'[t]) => LiveDefault(rows[t])
                        /\ lock'[t] \notin {Unlocked, v} /\ pc'[lock'[t]] = "commit" /\ LiveDefault(pending'[t])
                             => lock[t] = lock'[t] /\ pc[lock[t]] = "commit" /\ LiveDefault(pending[t])
  PROVE  Entered(v)'
<1> SUFFICES ASSUME NEW t \in Ids, lock'[t] = v, LiveDefault(pending'[t]), NEW u \in Ids \ {t}
             PROVE  /\ ~LiveDefault(View(v, u)')
                    /\ lock'[u] \notin {Unlocked, v} /\ pc'[lock'[u]] = "commit" => ~LiveDefault(pending'[u])
  BY DEF Entered, Holds, LiveDefault, Live
<1>1. lock[t] = v /\ LiveDefault(pending[t])
  OBVIOUS
<1>2. /\ ~LiveDefault(View(v, u))
      /\ lock[u] \notin {Unlocked, v} /\ pc[lock[u]] = "commit" => ~LiveDefault(pending[u])
  BY <1>1 DEF Entered, Holds
<1>3. ~LiveDefault(View(v, u)')
  BY <1>2 DEF View
<1>4. QED
  BY <1>2, <1>3

LEMMA KnowsKept ==
  ASSUME IInv, NEW w \in Workers, NEW v \in Workers \ {w}, Moves(w),
         \A t \in Ids : /\ lock[t] = v <=> lock'[t] = v
                        /\ lock[t] = v => pending'[t] = pending[t],
         TypeOK', pc[v] = "commit" => Entered(v)'
  PROVE  Knows(v)'
<1>1. pc'[v] = pc[v] /\ req'[v] = req[v] /\ saw'[v] = saw[v] /\ fetched'[v] = fetched[v] /\ Knows(v)
  BY DEF Moves, Others, IInv
<1>2. Goal(v)' = Goal(v) /\ InTx(v)' = InTx(v)
  BY <1>1 DEF Goal, InTx
<1>3. \A t \in Ids : (Holds(v, t)' <=> Holds(v, t)) /\ (Holds(v, t) => pending'[t] = pending[t])
  BY DEF Holds
<1>4. pc[v] # "idle" => req[v] \in Requests /\ Goal(v) \in Ids
  BY <1>1 DEF Knows, Goal, Requests, Ids
<1>5. ASSUME pc[v] \in {"load", "save"}, req[v].op = "update" PROVE Edits(v)'
  <2> DEFINE t == req[v].id
  <2>1. t \in Ids /\ Edits(v)
    BY <1>1, <1>5 DEF Knows, Requests
  <2>2. RowMoves(w, t) /\ rows[t].version \in Nat /\ rows'[t].version \in Nat
    BY <2>1 DEF Moves, IInv, TypeOK, Row
  <2>3. fetched[v].version \in Nat
    BY <2>1 DEF Edits
  <2>4. /\ rows'[t].state # "absent" /\ fetched[v].version <= rows'[t].version
        /\ fetched[v].version = rows'[t].version => fetched[v].content = rows'[t].content
    BY <2>1, <2>2, <2>3 DEF RowMoves, Edits, Live
  <2>5. QED
    BY <1>1, <2>1, <2>4 DEF Edits
<1>6. /\ pc[v] \in {"idle", "load", "softDelete", "save"} => \A t \in Ids : ~Holds(v, t)'
      /\ pc[v] \in {"scan", "unset", "set"} => \A t \in Ids : Holds(v, t)' => ~LiveDefault(pending'[t])
  BY <1>1, <1>3 DEF Knows
<1>7. /\ pc[v] = "index" => lock'[Goal(v)] = v /\ LiveDefault(pending'[Goal(v)])
      /\ pc[v] = "commit" /\ saw[v] => lock'[Classic] = v /\ LiveDefault(pending'[Classic])
  <2>1. pc[v] = "index" => Holds(v, Goal(v)) /\ LiveDefault(pending[Goal(v)])
    BY <1>1 DEF Knows
  <2>2. pc[v] = "commit" /\ saw[v] => Holds(v, Classic) /\ LiveDefault(pending[Classic])
    BY <1>1 DEF Knows
  <2>3. Classic \in Ids
    BY DEF Ids
  <2>4. QED
    BY <1>4, <2>1, <2>2, <2>3 DEF Holds
<1>8. Holds(v, Goal(v))' <=> lock'[Goal(v)] = v
  BY <1>2 DEF Holds
<1>9. LiveDefault(pending[Goal(v)])' <=> LiveDefault(pending'[Goal(v)])
  BY <1>2 DEF LiveDefault, Live
<1>10. QED
  BY <1>1, <1>2, <1>4, <1>5, <1>6, <1>7, <1>8, <1>9 DEF Holds, Knows, LiveDefault, Live

(* A step that makes no row of the table the default. *)
LEMMA Harmless ==
  ASSUME IInv, NEW w \in Workers, Moves(w),
         TypeOK', Pending', ClassicLive', Knows(w)',
         \A t \in Ids : /\ LiveDefault(rows'[t]) => LiveDefault(rows[t])
                        /\ pc'[w] = "commit" /\ lock'[t] = w => ~LiveDefault(pending'[t])
                        /\ \A v \in Workers \ {w} :
                             /\ lock[t] = v <=> lock'[t] = v
                             /\ lock[t] = v => pending'[t] = pending[t]
  PROVE  IInv'
<1>1. OneDefault'
  <2>1. SUFFICES ASSUME NEW t \in Ids, NEW u \in Ids, LiveDefault(rows'[t]), LiveDefault(rows'[u])
                 PROVE  t = u
    BY DEF OneDefault, LiveDefault, Live
  <2>2. QED
    BY <2>1 DEF IInv, OneDefault
<1>2. ASSUME NEW v \in Workers \ {w} PROVE Knows(v)'
  <2>1. ASSUME pc[v] = "commit" PROVE Entered(v)'
    <3>1. Entered(v)
      BY <2>1 DEF IInv, Knows
    <3>2. ASSUME NEW t \in Ids, lock'[t] \notin {Unlocked, v},
                 pc'[lock'[t]] = "commit", LiveDefault(pending'[t])
          PROVE  lock[t] = lock'[t] /\ pc[lock[t]] = "commit" /\ LiveDefault(pending[t])
      <4>1. lock'[t] \in Workers \ {w}
        BY <3>2 DEF TypeOK
      <4>2. QED
        BY <3>2, <4>1 DEF Moves, Others
    <3>3. QED
      BY <3>1, <3>2, EnteredKept
  <2>2. QED
    BY <2>1, KnowsKept
<1>3. QED
  BY <1>1, <1>2 DEF IInv

LEMMA DoneFacts ==
  ASSUME IInv, NEW w \in Workers, Done(w)
  PROVE  /\ Others(w) /\ pc'[w] = "idle"
         /\ pc' \in [Workers -> Steps] /\ req' \in [Workers -> Requests \cup {None}]
         /\ saw' \in [Workers -> BOOLEAN] /\ targets' \in [Workers -> SUBSET Ids]
         /\ fetched' \in [Workers -> [version : 1 .. MaxVersion, content : Contents] \cup {None}]
<1>1. Others(w)
  BY DEF Done, Others, IInv, TypeOK
<1>2. pc'[w] = "idle" /\ pc' \in [Workers -> Steps]
  BY DEF Done, IInv, TypeOK, Steps
<1>3. QED
  BY <1>1, <1>2 DEF Done, IInv, TypeOK

LEMMA IdleKnows ==
  ASSUME NEW w \in Workers, pc'[w] = "idle", \A t \in Ids : lock'[t] # w
  PROVE  Knows(w)'
BY DEF Knows, Holds

LEMMA RollbackIInv ==
  ASSUME IInv, NEW w \in Workers, Rollback(w)
  PROVE  IInv' /\ Moves(w)
<1>1. /\ rows' = rows
      /\ pending' = [t \in Ids |-> IF lock[t] = w THEN rows[t] ELSE pending[t]]
      /\ lock' = [t \in Ids |-> IF lock[t] = w THEN Unlocked ELSE lock[t]]
      /\ Done(w)
  BY DEF Rollback, Release
<1>2. Others(w) /\ pc'[w] = "idle"
  BY <1>1, DoneFacts
<1>3. Moves(w)
  BY <1>1, <1>2 DEF Moves, RowMoves
<1>4. TypeOK'
  <2>1. rows' \in [Ids -> Row] /\ pending' \in [Ids -> Row] /\ lock' \in [Ids -> Workers \cup {Unlocked}]
    BY <1>1 DEF IInv, TypeOK
  <2>2. QED
    BY <1>1, <2>1, DoneFacts DEF TypeOK
<1>5. Pending'
  BY <1>1, NullAssumption DEF IInv, Pending
<1>6. ClassicLive'
  BY <1>1 DEF IInv, ClassicLive, Ids
<1>7. Knows(w)'
  BY <1>1, <1>2, NullAssumption, IdleKnows
<1>8. \A t \in Ids : /\ rows'[t] = rows[t] /\ lock'[t] # w
                     /\ \A v \in Workers \ {w} :
                          /\ lock[t] = v <=> lock'[t] = v
                          /\ lock[t] = v => pending'[t] = pending[t]
  BY <1>1, NullAssumption
<1>9. QED
  BY <1>3, <1>4, <1>5, <1>6, <1>7, <1>8, Harmless

-----------------------------------------------------------------------------
(* One lemma per statement. *)

LEMMA InitIInv == Init => IInv
<1> SUFFICES ASSUME Init PROVE IInv
  OBVIOUS
<1>1. PICK c \in Contents :
        rows = [t \in Ids |-> [state |-> IF t = Classic THEN "live" ELSE "absent",
                               isDefault |-> t = Classic, version |-> 1, content |-> c]]
  BY DEF Init
<1>2. rows \in [Ids -> Row]
  BY <1>1, IdAssumption DEF Row
<1>3. TypeOK
  BY <1>2 DEF Init, TypeOK, Steps
<1>4. Pending /\ ClassicLive /\ OneDefault
  <2>1. Classic \in Ids
    BY DEF Ids
  <2>2. \A t \in Ids : (Live(rows[t]) <=> t = Classic) /\ pending[t] = rows[t] /\ lock[t] = Unlocked
    BY <1>1 DEF Live, Init
  <2>3. QED
    BY <2>1, <2>2 DEF Pending, ClassicLive, OneDefault, LiveDefault
<1>5. ASSUME NEW w \in Workers PROVE Knows(w)
  BY NullAssumption DEF Init, Knows, Holds
<1>6. QED
  BY <1>3, <1>4, <1>5 DEF IInv

LEMMA ReceiveIInv ==
  ASSUME IInv, NEW w \in Workers, Receive(w)
  PROVE  IInv' /\ Moves(w)
<1>1. PICK r \in Requests :
        /\ \/ /\ r.op = "update"
              /\ Live(rows[r.id])
              /\ fetched' = [fetched EXCEPT ![w] = [version |-> rows[r.id].version,
                                                    content |-> rows[r.id].content]]
           \/ /\ r.op # "update"
              /\ UNCHANGED fetched
        /\ req' = [req EXCEPT ![w] = r]
  BY DEF Receive
<1>2. pc[w] = "idle" /\ pc' = [pc EXCEPT ![w] = "load"] /\ UNCHANGED <<rows, pending, lock, saw, targets>>
  BY DEF Receive, Goto
<1>3. r.id \in Ids /\ rows[r.id] \in Row
  BY DEF Requests, IInv, TypeOK
<1>4. /\ rows[r.id].version \in 1..MaxVersion /\ rows[r.id].content \in Contents
  BY <1>3 DEF Row
<1>5. Moves(w)
  <2>1. Others(w)
    BY <1>1, <1>2 DEF Others, IInv, TypeOK
  <2>2. QED
    BY <1>2, <2>1 DEF Moves, RowMoves
<1>6. TypeOK'
  <2>1. fetched' \in [Workers -> [version : 1 .. MaxVersion, content : Contents] \cup {None}]
    BY <1>1, <1>4 DEF IInv, TypeOK
  <2>2. req' \in [Workers -> Requests \cup {None}] /\ pc' \in [Workers -> Steps]
    BY <1>1, <1>2 DEF IInv, TypeOK, Steps
  <2>3. QED
    BY <1>2, <2>1, <2>2 DEF IInv, TypeOK
<1>7. Pending' /\ ClassicLive'
  BY <1>2 DEF IInv, Pending, ClassicLive, Live
<1>8. Knows(w)'
  <2>1. pc'[w] = "load" /\ req'[w] = r /\ \A t \in Ids : lock'[t] # w
    BY <1>1, <1>2 DEF IInv, TypeOK, Knows, Holds
  <2>2. r.op = "update" => Edits(w)'
    <3>1. SUFFICES ASSUME r.op = "update" PROVE Edits(w)'
      OBVIOUS
    <3>2. fetched'[w] = [version |-> rows[r.id].version, content |-> rows[r.id].content]
          /\ Live(rows[r.id])
      BY <1>1, <3>1 DEF IInv, TypeOK
    <3>3. QED
      BY <1>2, <1>4, <2>1, <3>2 DEF Edits, Live
  <2>3. QED
    BY <2>1, <2>2 DEF Knows, Holds
<1>9. \A t \in Ids : rows'[t] = rows[t] /\ lock'[t] = lock[t] /\ pending'[t] = pending[t]
  BY <1>2
<1>10. pc'[w] = "load"
  BY <1>2 DEF IInv, TypeOK
<1>11. QED
  BY <1>5, <1>6, <1>7, <1>8, <1>9, <1>10, Harmless

LEMMA CreateIInv ==
  ASSUME IInv, NEW w \in Workers, Create(w)
  PROVE  IInv' /\ Moves(w)
<1> DEFINE t == req[w].id
<1>1. PICK c \in Contents :
        /\ rows' = [rows EXCEPT ![t] = [state |-> "live", isDefault |-> FALSE,
                                        version |-> 1, content |-> c]]
        /\ pending' = [pending EXCEPT ![t] = rows'[t]]
  BY DEF Create
<1>2. pc[w] = "load" /\ rows[t].state = "absent" /\ Done(w) /\ UNCHANGED lock
  BY DEF Create
<1>3. t \in Ids /\ t # Classic /\ lock[t] = Unlocked
  <2>1. t \in Ids
    BY <1>2 DEF IInv, Knows, Requests
  <2>2. QED
    BY <1>2, <2>1 DEF IInv, ClassicLive, Pending, Live
<1> DEFINE r == [state |-> "live", isDefault |-> FALSE, version |-> 1, content |-> c]
<1>4. r \in Row /\ r.state = "live" /\ ~LiveDefault(r)
  BY IdAssumption DEF Row, LiveDefault
<1>5. /\ rows' \in [Ids -> Row] /\ pending' \in [Ids -> Row]
      /\ rows'[t] = r /\ pending'[t] = r
      /\ \A u \in Ids : u # t => rows'[u] = rows[u] /\ pending'[u] = pending[u]
  BY <1>1, <1>3, <1>4 DEF IInv, TypeOK
<1> HIDE DEF t, r
<1>6. Moves(w)
  BY <1>2, <1>4, <1>5, DoneFacts DEF Moves, RowMoves
<1>7. TypeOK'
  BY <1>2, <1>5, DoneFacts DEF IInv, TypeOK
<1>8. Pending' /\ ClassicLive'
  BY <1>2, <1>3, <1>5 DEF IInv, Pending, ClassicLive, Live, Ids
<1>9. \A u \in Ids : lock'[u] = lock[u] /\ lock[u] # w
  BY <1>2 DEF IInv, Knows, Holds
<1>10. pc'[w] = "idle" /\ Knows(w)'
  BY <1>2, <1>9, DoneFacts, IdleKnows
<1>11. \A u \in Ids : /\ LiveDefault(rows'[u]) => LiveDefault(rows[u])
                      /\ \A v \in Workers : lock[u] = v => pending'[u] = pending[u]
  BY <1>3, <1>4, <1>5, NullAssumption
<1>12. pc'[w] # "commit"
  BY <1>10
<1>13. QED
  BY <1>6, <1>7, <1>8, <1>9, <1>10, <1>11, <1>12, Harmless

LEMMA LoadIInv ==
  ASSUME IInv, NEW w \in Workers, Load(w)
  PROVE  IInv' /\ Moves(w)
<1> DEFINE r == rows[req[w].id]
           step == CASE req[w].op = "delete" -> "softDelete"
                     [] req[w].op = "setDefault" -> "scan"
                     [] req[w].op = "update" -> "save"
<1>1. CASE Rollback(w)
  BY <1>1, RollbackIInv
<1>2. CASE ~Rollback(w)
  <2>1. /\ pc[w] = "load" /\ req[w].op # "create"
        /\ Live(r) /\ (req[w].op = "setDefault" \/ ~System(req[w].id))
        /\ saw' = [saw EXCEPT ![w] = req[w].op = "delete" /\ r.isDefault]
        /\ pc' = [pc EXCEPT ![w] = step]
        /\ UNCHANGED <<rows, pending, lock, req, targets, fetched>>
    BY <1>2 DEF Load, Goto
  <2>2. req[w] \in Requests /\ req[w].op \in {"delete", "setDefault", "update"}
    BY <2>1 DEF IInv, Knows, Requests
  <2>3. /\ req[w].op = "delete" => step = "softDelete"
        /\ req[w].op = "setDefault" => step = "scan"
        /\ req[w].op = "update" => step = "save"
    OBVIOUS
  <2>4. step \in Steps
    BY <2>2, <2>3 DEF Steps
  <2> HIDE DEF step
  <2>5. pc'[w] = step /\ pc' \in [Workers -> Steps] /\ saw' \in [Workers -> BOOLEAN]
    <3>1. r \in Row
      BY <2>2 DEF IInv, TypeOK, Requests
    <3>2. (req[w].op = "delete" /\ r.isDefault) \in BOOLEAN
      OBVIOUS
    <3>3. QED
      BY <2>1, <2>4, <3>2 DEF IInv, TypeOK
  <2>6. Moves(w)
    <3>1. Others(w)
      BY <2>1 DEF Others, IInv, TypeOK
    <3>2. QED
      BY <2>1, <3>1 DEF Moves, RowMoves
  <2>7. TypeOK'
    BY <2>1, <2>5 DEF IInv, TypeOK
  <2>8. Pending' /\ ClassicLive'
    BY <2>1 DEF IInv, Pending, ClassicLive, Live
  <2>9. \A t \in Ids : lock[t] # w /\ lock'[t] = lock[t] /\ rows'[t] = rows[t] /\ pending'[t] = pending[t]
    BY <2>1 DEF IInv, Knows, Holds
  <2>10. Knows(w)'
    <3>1. req'[w] = req[w] /\ \A t \in Ids : ~Holds(w, t)'
      BY <2>1, <2>9 DEF Holds
    <3>2. ASSUME req[w].op = "update" PROVE Edits(w)'
      <4>1. Edits(w) /\ req[w].id # Classic
        BY <2>1, <3>2 DEF IInv, Knows, System
      <4>2. QED
        BY <2>1, <4>1 DEF Edits
    <3>3. req[w].op = "delete" => req[w].id # Classic
      BY <2>1 DEF System
    <3>4. CASE req[w].op = "delete"
      BY <2>2, <2>3, <2>5, <3>1, <3>3, <3>4 DEF Knows
    <3>5. CASE req[w].op = "setDefault"
      BY <2>2, <2>3, <2>5, <3>1, <3>5 DEF Knows, InTx
    <3>6. CASE req[w].op = "update"
      BY <2>2, <2>3, <2>5, <3>1, <3>2, <3>6 DEF Knows
    <3>7. QED
      BY <2>2, <3>4, <3>5, <3>6
  <2>11. QED
    BY <2>6, <2>7, <2>8, <2>9, <2>10, Harmless
<1>3. QED
  BY <1>1, <1>2

(* The rows a finished UPDATE wrote, and those it left alone. *)
LEMMA Written ==
  ASSUME IInv, NEW w \in Workers, NEW new,
         DOMAIN new \subseteq Ids, \A t \in DOMAIN new : new[t] \in Row, Write(w, new)
  PROVE  /\ pending' \in [Ids -> Row] /\ rows' \in [Ids -> Row] /\ lock' \in [Ids -> Workers \cup {Unlocked}]
         /\ \A t \in DOMAIN new :
              /\ pending'[t] = new[t]
              /\ InTx(w) => lock'[t] = w /\ rows'[t] = rows[t]
              /\ ~InTx(w) => lock'[t] = lock[t] /\ rows'[t] = new[t]
         /\ \A t \in Ids \ DOMAIN new : pending'[t] = pending[t] /\ lock'[t] = lock[t] /\ rows'[t] = rows[t]
<1> DEFINE D == DOMAIN new
<1>1. pending' = [t \in Ids |-> IF t \in D THEN new[t] ELSE pending[t]]
  BY DEF Write
<1>2. CASE InTx(w)
  <2>1. lock' = [t \in Ids |-> IF t \in D THEN w ELSE lock[t]] /\ rows' = rows
    BY <1>2 DEF Write
  <2>2. QED
    BY <1>1, <1>2, <2>1 DEF IInv, TypeOK
<1>3. CASE ~InTx(w)
  <2>1. rows' = [t \in Ids |-> IF t \in D THEN new[t] ELSE rows[t]] /\ lock' = lock
    BY <1>3 DEF Write
  <2>2. QED
    BY <1>1, <1>3, <2>1 DEF IInv, TypeOK
<1>4. QED
  BY <1>2, <1>3

(* What the soft delete writes: the template of the request is deleted. *)
SoftDeleted(w, t) ==
  /\ t = req[w].id /\ InTx(w) /\ req[w].op = "delete" /\ req[w] \in Requests
  /\ pc[w] = "softDelete" /\ lock[t] = Unlocked /\ Live(rows[t])
  /\ \A u \in Ids : lock[u] # w
  /\ pending'[t] \in Row /\ pending'[t].state = "deleted"
  /\ pending'[t].version = rows[t].version /\ pending'[t].content = rows[t].content
  /\ lock'[t] = w /\ rows'[t] = rows[t]
  /\ \A u \in Ids \ {t} : pending'[u] = pending[u] /\ lock'[u] = lock[u] /\ rows'[u] = rows[u]
  /\ pending' \in [Ids -> Row] /\ rows' \in [Ids -> Row]
  /\ lock' \in [Ids -> Workers \cup {Unlocked}]
  /\ pc' = [pc EXCEPT ![w] = IF saw[w] THEN "scan" ELSE "commit"]
  /\ UNCHANGED <<req, saw, targets, fetched>>

LEMMA SoftDeleteWrites ==
  ASSUME IInv, NEW w \in Workers, SoftDelete(w), ~Rollback(w)
  PROVE  \E t \in Ids \ {Classic} : SoftDeleted(w, t)
<1> DEFINE t == req[w].id
           deleted == [u \in {t} |-> [View(w, u) EXCEPT !.state = "deleted"]]
<1>1. /\ pc[w] = "softDelete" /\ lock[t] = Unlocked /\ Live(rows[t])
      /\ Write(w, deleted)
      /\ pc' = [pc EXCEPT ![w] = IF saw[w] THEN "scan" ELSE "commit"]
      /\ UNCHANGED <<req, saw, targets, fetched>>
  BY DEF SoftDelete, Goto
<1>2. t \in Ids /\ t # Classic /\ InTx(w) /\ req[w].op = "delete" /\ req[w] \in Requests
  BY <1>1 DEF IInv, Knows, Requests, InTx
<1>3. \A u \in Ids : lock[u] # w
  BY <1>1 DEF IInv, Knows, Holds
<1> PICK new : new = deleted /\ Write(w, new)
  BY <1>1
<1>4. /\ new[t] \in Row /\ new[t].state = "deleted"
      /\ new[t].version = rows[t].version /\ new[t].content = rows[t].content
  <2>1. View(w, t) \in Row /\ View(w, t).version = rows[t].version /\ View(w, t).content = rows[t].content
    BY <1>2, ViewType
  <2>2. new[t] = [View(w, t) EXCEPT !.state = "deleted"]
    OBVIOUS
  <2>3. QED
    BY <2>1, <2>2, Flags
<1>5. DOMAIN new = {t} /\ \A u \in DOMAIN new : new[u] \in Row
  BY <1>4
<1> HIDE DEF t, deleted
<1>6. /\ pending' \in [Ids -> Row] /\ rows' \in [Ids -> Row] /\ lock' \in [Ids -> Workers \cup {Unlocked}]
      /\ pending'[t] = new[t] /\ lock'[t] = w /\ rows'[t] = rows[t]
      /\ \A u \in Ids \ {t} : pending'[u] = pending[u] /\ lock'[u] = lock[u] /\ rows'[u] = rows[u]
  <2>1. DOMAIN new \subseteq Ids
    BY <1>2, <1>5
  <2>2. QED
    BY <1>2, <1>5, <2>1, Written
<1>7. QED
  BY <1>1, <1>2, <1>3, <1>4, <1>6 DEF t, SoftDeleted

LEMMA SoftDeleteIInv ==
  ASSUME IInv, NEW w \in Workers, SoftDelete(w)
  PROVE  IInv' /\ Moves(w)
<1>1. CASE Rollback(w)
  BY <1>1, RollbackIInv
<1>2. CASE ~Rollback(w)
  <2>1. PICK t \in Ids \ {Classic} : SoftDeleted(w, t)
    BY <1>2, SoftDeleteWrites
  <2>2. pc'[w] = (IF saw[w] THEN "scan" ELSE "commit") /\ pc' \in [Workers -> Steps]
    BY <2>1 DEF IInv, TypeOK, Steps, SoftDeleted
  <2>3. \A u \in Ids : rows'[u] = rows[u] /\ (lock'[u] = w => u = t /\ ~LiveDefault(pending'[u]))
    BY <2>1 DEF LiveDefault, Live, SoftDeleted
  <2>4. Moves(w)
    <3>1. Others(w)
      BY <2>1 DEF Others, IInv, TypeOK, SoftDeleted
    <3>2. QED
      BY <2>3, <3>1 DEF Moves, RowMoves
  <2>5. TypeOK'
    BY <2>1, <2>2 DEF IInv, TypeOK, SoftDeleted
  <2>6. Pending' /\ ClassicLive'
    <3>1. Pending'
      BY <2>1, NullAssumption DEF IInv, Pending, Live, SoftDeleted
    <3>2. ClassicLive'
      BY <2>1 DEF IInv, ClassicLive, Live, Ids, SoftDeleted
    <3>3. QED
      BY <3>1, <3>2
  <2>7. Knows(w)'
    <3>1. req'[w] = req[w] /\ saw'[w] = saw[w] /\ InTx(w)'
      BY <2>1 DEF InTx, SoftDeleted
    <3>2. \A u \in Ids : Holds(w, u)' => ~LiveDefault(pending'[u])
      BY <2>3 DEF Holds
    <3>3. Entered(w)'
      BY <3>2 DEF Entered, LiveDefault, Live
    <3>4. saw[w] \in BOOLEAN
      BY DEF IInv, TypeOK
    <3>5. CASE saw[w]
      BY <2>1, <2>2, <3>1, <3>2, <3>5 DEF Knows, LiveDefault, Live, SoftDeleted
    <3>6. CASE ~saw[w]
      BY <2>1, <2>2, <3>1, <3>3, <3>6 DEF Knows, SoftDeleted
    <3>7. QED
      BY <3>5, <3>6
  <2>8. \A u \in Ids, v \in Workers \ {w} : /\ lock[u] = v <=> lock'[u] = v
                                            /\ lock[u] = v => pending'[u] = pending[u]
    BY <2>1, NullAssumption DEF SoftDeleted
  <2>9. QED
    BY <2>3, <2>4, <2>5, <2>6, <2>7, <2>8, Harmless DEF SoftDeleted
<1>3. QED
  BY <1>1, <1>2

LEMMA ScanIInv ==
  ASSUME IInv, NEW w \in Workers, Scan(w)
  PROVE  IInv' /\ Moves(w)
<1>1. /\ pc[w] = "scan" /\ pc' = [pc EXCEPT ![w] = "unset"]
      /\ targets' = [targets EXCEPT ![w] = {t \in Ids : LiveDefault(View(w, t))}]
      /\ UNCHANGED <<rows, pending, lock, req, saw, fetched>>
  BY DEF Scan, Goto
<1>2. pc'[w] = "unset" /\ pc' \in [Workers -> Steps]
  BY <1>1 DEF IInv, TypeOK, Steps
<1>3. Moves(w)
  BY <1>1 DEF Moves, Others, RowMoves, IInv, TypeOK
<1>4. TypeOK'
  BY <1>1, <1>2 DEF IInv, TypeOK
<1>5. Pending' /\ ClassicLive'
  BY <1>1 DEF IInv, Pending, ClassicLive, Live
<1>6. Knows(w)'
  <2>1. /\ req[w] \in Requests /\ (InTx(w) => saw[w])
        /\ \A t \in Ids : Holds(w, t) => ~LiveDefault(pending[t])
    BY <1>1 DEF IInv, Knows
  <2>2. QED
    BY <1>1, <1>2, <2>1 DEF Knows, Holds, InTx, LiveDefault, Live
<1>7. \A t \in Ids : rows'[t] = rows[t] /\ lock'[t] = lock[t] /\ pending'[t] = pending[t]
  BY <1>1
<1>8. QED
  BY <1>2, <1>3, <1>4, <1>5, <1>6, <1>7, Harmless

(* What the unset writes: it clears the flag of rows w may write. *)
Cleared(w, D) ==
  /\ \A t \in D :
       /\ lock[t] \in {Unlocked, w} /\ Live(rows[t]) /\ LiveDefault(View(w, t))
       /\ pending'[t] \in Row /\ pending'[t].state = "live" /\ ~LiveDefault(pending'[t])
       /\ pending'[t].version = rows[t].version /\ pending'[t].content = rows[t].content
       /\ InTx(w) => lock'[t] = w /\ rows'[t] = rows[t]
       /\ ~InTx(w) => lock'[t] = lock[t] /\ rows'[t] = pending'[t]
  /\ \A t \in Ids \ D :
       pending'[t] = pending[t] /\ lock'[t] = lock[t] /\ rows'[t] = rows[t]
  /\ pending' \in [Ids -> Row] /\ rows' \in [Ids -> Row]
  /\ lock' \in [Ids -> Workers \cup {Unlocked}]

LEMMA UnsetWrites ==
  ASSUME IInv, NEW w \in Workers, Unset(w)
  PROVE  \E D \in SUBSET Ids : Cleared(w, D)
<1> DEFINE D == {u \in targets[w] : LiveDefault(View(w, u))}
           unset == [t \in D |-> [View(w, t) EXCEPT !.isDefault = FALSE]]
<1>1. /\ pc[w] = "unset" /\ \A t \in targets[w] : lock[t] \in {Unlocked, w}
      /\ Write(w, unset)
      /\ targets' = [targets EXCEPT ![w] = {}]
      /\ pc' = [pc EXCEPT ![w] = "set"]
      /\ UNCHANGED <<req, saw, fetched>>
  BY DEF Unset, Goto
<1> PICK new : new = unset /\ Write(w, new)
  BY <1>1
<1>2. D \subseteq Ids /\ DOMAIN new = D
  BY DEF IInv, TypeOK
<1>3. ASSUME NEW t \in D
      PROVE  /\ t \in Ids /\ lock[t] \in {Unlocked, w} /\ Live(rows[t]) /\ LiveDefault(View(w, t))
             /\ new[t] \in Row /\ new[t].state = "live" /\ ~LiveDefault(new[t])
             /\ new[t].version = rows[t].version /\ new[t].content = rows[t].content
  <2>1. t \in Ids /\ lock[t] \in {Unlocked, w} /\ LiveDefault(View(w, t))
    BY <1>1, <1>2
  <2>2. View(w, t) \in Row /\ View(w, t).version = rows[t].version /\ View(w, t).content = rows[t].content
        /\ (~Holds(w, t) => View(w, t) = rows[t])
    BY <2>1, ViewType
  <2>3. Live(rows[t])
    BY <2>1, <2>2, NullAssumption DEF Holds, LiveDefault, IInv, Pending
  <2>4. new[t] = [View(w, t) EXCEPT !.isDefault = FALSE]
    OBVIOUS
  <2>5. new[t] \in Row /\ new[t].state = View(w, t).state /\ new[t].isDefault = FALSE
        /\ new[t].version = View(w, t).version /\ new[t].content = View(w, t).content
    BY <2>2, <2>4, Flags
  <2>6. QED
    BY <2>1, <2>2, <2>3, <2>5 DEF LiveDefault, Live
<1> HIDE DEF D, unset
<1>4. /\ pending' \in [Ids -> Row] /\ rows' \in [Ids -> Row] /\ lock' \in [Ids -> Workers \cup {Unlocked}]
      /\ \A t \in D :
           /\ pending'[t] = new[t]
           /\ InTx(w) => lock'[t] = w /\ rows'[t] = rows[t]
           /\ ~InTx(w) => lock'[t] = lock[t] /\ rows'[t] = new[t]
      /\ \A t \in Ids \ D : pending'[t] = pending[t] /\ lock'[t] = lock[t] /\ rows'[t] = rows[t]
  <2>1. DOMAIN new \subseteq Ids /\ \A t \in DOMAIN new : new[t] \in Row
    BY <1>2, <1>3
  <2>2. /\ pending' \in [Ids -> Row] /\ rows' \in [Ids -> Row] /\ lock' \in [Ids -> Workers \cup {Unlocked}]
        /\ \A t \in DOMAIN new :
             /\ pending'[t] = new[t]
             /\ InTx(w) => lock'[t] = w /\ rows'[t] = rows[t]
             /\ ~InTx(w) => lock'[t] = lock[t] /\ rows'[t] = new[t]
        /\ \A t \in Ids \ DOMAIN new : pending'[t] = pending[t] /\ lock'[t] = lock[t] /\ rows'[t] = rows[t]
    BY <2>1, Written
  <2>3. QED
    BY <1>2, <2>2
<1>5. QED
  BY <1>2, <1>3, <1>4 DEF Cleared

LEMMA UnsetIInv ==
  ASSUME IInv, NEW w \in Workers, Unset(w)
  PROVE  IInv' /\ Moves(w)
<1>1. /\ pc[w] = "unset"
      /\ targets' = [targets EXCEPT ![w] = {}]
      /\ pc' = [pc EXCEPT ![w] = "set"]
      /\ UNCHANGED <<req, saw, fetched>>
  BY DEF Unset, Goto
<1>2. PICK D \in SUBSET Ids : Cleared(w, D)
  BY UnsetWrites
<1>3. pc'[w] = "set" /\ pc' \in [Workers -> Steps] /\ targets' \in [Workers -> SUBSET Ids]
  BY <1>1 DEF IInv, TypeOK, Steps
<1>4. ASSUME NEW t \in Ids
      PROVE  /\ LiveDefault(rows'[t]) => LiveDefault(rows[t])
             /\ RowMoves(w, t)
             /\ \A v \in Workers \ {w} : /\ lock[t] = v <=> lock'[t] = v
                                         /\ lock[t] = v => pending'[t] = pending[t]
  <2>1. CASE t \in D
    BY <1>2, <2>1, NullAssumption DEF RowMoves, Live, Cleared
  <2>2. CASE t \notin D
    BY <1>2, <2>2 DEF RowMoves, Cleared
  <2>3. QED
    BY <2>1, <2>2
<1>5. Moves(w)
  BY <1>1, <1>4 DEF Moves, Others, IInv, TypeOK
<1>6. TypeOK'
  BY <1>1, <1>2, <1>3 DEF IInv, TypeOK, Cleared
<1>7. Pending'
  <2>1. SUFFICES ASSUME NEW t \in Ids
                 PROVE  /\ lock'[t] = Unlocked => pending'[t] = rows'[t]
                        /\ lock'[t] # Unlocked => Live(rows'[t])
                        /\ pending'[t].version = rows'[t].version /\ pending'[t].content = rows'[t].content
                        /\ lock'[t] # Unlocked => pending'[t].state # "absent"
    BY DEF Pending, Live
  <2>2. CASE t \in D /\ InTx(w)
    BY <1>2, <2>2, NullAssumption DEF Cleared
  <2>3. CASE t \in D /\ ~InTx(w)
    BY <1>2, <2>3 DEF Live, Cleared
  <2>4. CASE t \notin D
    BY <1>2, <2>4 DEF IInv, Pending, Cleared
  <2>5. QED
    BY <2>2, <2>3, <2>4
<1>8. ClassicLive'
  <2>1. Classic \in Ids
    BY DEF Ids
  <2>2. QED
    BY <1>2, <2>1 DEF IInv, ClassicLive, Live, Cleared
<1>9. Knows(w)'
  <2>1. /\ req[w] \in Requests /\ (InTx(w) => saw[w])
        /\ \A t \in Ids : lock[t] = w => ~LiveDefault(pending[t])
    BY <1>1 DEF IInv, Knows, Holds
  <2>2. \A t \in Ids : lock'[t] = w => ~LiveDefault(pending'[t])
    BY <1>2, <2>1 DEF Cleared
  <2>3. QED
    BY <1>1, <1>3, <2>1, <2>2 DEF Knows, Holds, InTx, LiveDefault, Live
<1>10. QED
  BY <1>3, <1>4, <1>5, <1>6, <1>7, <1>8, <1>9, Harmless

LEMMA SetIInv ==
  ASSUME IInv, NEW w \in Workers, Set(w)
  PROVE  IInv' /\ Moves(w)
<1> DEFINE t == Goal(w)
           r == [View(w, t) EXCEPT !.isDefault = TRUE]
<1>1. CASE Rollback(w)
  BY <1>1, RollbackIInv
<1>2. CASE ~Rollback(w)
  <2>1. /\ pc[w] = "set" /\ lock[t] \in {Unlocked, w} /\ Live(View(w, t))
        /\ lock' = [lock EXCEPT ![t] = w]
        /\ pending' = [pending EXCEPT ![t] = r]
        /\ pc' = [pc EXCEPT ![w] = "index"]
        /\ UNCHANGED <<rows, req, saw, targets, fetched>>
    BY <1>2 DEF Set, Goto
  <2>2. t \in Ids /\ req[w] \in Requests /\ (InTx(w) => saw[w])
    BY <2>1 DEF IInv, Knows, Requests, Goal, Ids
  <2>3. View(w, t) \in Row /\ View(w, t).version = rows[t].version /\ View(w, t).content = rows[t].content
        /\ (~Holds(w, t) => View(w, t) = rows[t])
    BY <2>2, ViewType
  <2>4. r \in Row /\ LiveDefault(r) /\ r.version = rows[t].version /\ r.content = rows[t].content
    BY <2>1, <2>3, Flags DEF LiveDefault, Live
  <2>5. Live(rows[t])
    BY <2>1, <2>2, <2>3, NullAssumption DEF Holds, IInv, Pending
  <2> HIDE DEF t, r
  <2>6. /\ pending' \in [Ids -> Row] /\ lock' \in [Ids -> Workers \cup {Unlocked}]
        /\ pending'[t] = r /\ lock'[t] = w
        /\ \A u \in Ids : u # t => pending'[u] = pending[u] /\ lock'[u] = lock[u]
    BY <2>1, <2>2, <2>4 DEF IInv, TypeOK
  <2>7. pc'[w] = "index" /\ pc' \in [Workers -> Steps]
    BY <2>1 DEF IInv, TypeOK, Steps
  <2>8. Moves(w)
    BY <2>1 DEF Moves, Others, RowMoves, IInv, TypeOK
  <2>9. TypeOK'
    BY <2>1, <2>6, <2>7 DEF IInv, TypeOK
  <2>10. Pending'
    BY <2>1, <2>4, <2>5, <2>6, NullAssumption DEF IInv, Pending, LiveDefault, Live
  <2>11. ClassicLive'
    BY <2>1, <2>4, <2>6 DEF IInv, ClassicLive, LiveDefault, Live, Ids
  <2>12. Knows(w)'
    <3>1. Goal(w)' = t /\ InTx(w)' = InTx(w)
      BY <2>1 DEF t, Goal, InTx
    <3>2. Holds(w, Goal(w))' /\ LiveDefault(pending[Goal(w)])'
      BY <2>4, <2>6, <3>1 DEF Holds, LiveDefault, Live
    <3>3. QED
      BY <2>1, <2>2, <2>7, <3>1, <3>2 DEF Knows
  <2>13. \A u \in Ids : /\ rows'[u] = rows[u]
                        /\ \A v \in Workers \ {w} : /\ lock[u] = v <=> lock'[u] = v
                                                    /\ lock[u] = v => pending'[u] = pending[u]
    BY <2>1, <2>6, NullAssumption
  <2>14. QED
    BY <2>7, <2>8, <2>9, <2>10, <2>11, <2>12, <2>13, Harmless
<1>3. QED
  BY <1>1, <1>2

(* What the check of the unique index establishes. *)
LEMMA Passed ==
  ASSUME IInv, NEW w \in Workers, pc[w] = "index",
         IndexBusy(w, Goal(w)) = {}, ~UniqueViolation(w, Goal(w))
  PROVE  /\ Entered(w)
         /\ \A v \in Workers \ {w} : pc[v] = "commit" =>
              \A t \in Ids : lock[t] = v => ~LiveDefault(pending[t])
<1>1. Goal(w) \in Ids /\ lock[Goal(w)] = w
  BY DEF IInv, Knows, Holds, Goal, Requests, Ids
<1>2. \A u \in Ids \ {Goal(w)} : ~LiveDefault(View(w, u))
  BY DEF UniqueViolation
<1>3. \A u \in Ids \ {Goal(w)} :
        lock[u] \notin {Unlocked, w} /\ pc[lock[u]] = "commit" => ~LiveDefault(pending[u])
  BY DEF IndexBusy
<1>4. Entered(w)
  <2>1. SUFFICES ASSUME NEW t \in Ids, lock[t] = w, LiveDefault(pending[t]) PROVE t = Goal(w)
    BY <1>2, <1>3 DEF Entered, Holds
  <2>2. QED
    BY <1>2, <2>1 DEF View
<1>5. QED
  BY <1>1, <1>3, <1>4, NullAssumption

(* What w has written becomes visible. *)
LEMMA InstallIInv ==
  ASSUME IInv, NEW w \in Workers, Install(w), Done(w), Entered(w),
         pc[w] = "commit" \/ ~InTx(w),
         \A v \in Workers \ {w} : pc[v] = "commit" =>
           \A t \in Ids : lock[t] = v /\ LiveDefault(pending[t]) =>
             \A u \in Ids \ {t} : lock[u] = w => ~LiveDefault(pending[u])
  PROVE  IInv' /\ Moves(w)
<1>1. /\ \A t \in Ids : rows'[t] = IF lock[t] = w THEN pending[t] ELSE rows[t]
      /\ \A t \in Ids : lock'[t] = IF lock[t] = w THEN Unlocked ELSE lock[t]
      /\ pending' = pending
      /\ rows' \in [Ids -> Row] /\ lock' \in [Ids -> Workers \cup {Unlocked}]
  BY DEF Install, Release, View, IInv, TypeOK
<1>2. Others(w) /\ pc'[w] = "idle"
  BY DoneFacts
<1>3. TypeOK'
  BY <1>1, DoneFacts DEF IInv, TypeOK
<1>4. Moves(w)
  <2>1. ASSUME NEW t \in Ids, lock[t] = w PROVE RowMoves(w, t)
    <3>1. /\ Live(rows[t]) /\ pending[t].version = rows[t].version /\ pending[t].content = rows[t].content
      BY <2>1, NullAssumption DEF IInv, Pending
    <3>2. rows'[t] = pending[t] /\ pending[t] \in Row
      BY <1>1, <2>1 DEF IInv, TypeOK
    <3>3. pending[t].state # "absent"
      BY <2>1, NullAssumption DEF IInv, Pending
    <3>4. QED
      BY <2>1, <3>1, <3>2, <3>3 DEF RowMoves, Row, Live
  <2>2. ASSUME NEW t \in Ids, lock[t] # w PROVE RowMoves(w, t)
    BY <1>1, <2>2 DEF RowMoves
  <2>3. QED
    BY <1>2, <2>1, <2>2 DEF Moves
<1>5. Pending'
  BY <1>1, NullAssumption DEF IInv, Pending, Live
<1>6. ClassicLive'
  BY <1>1 DEF IInv, ClassicLive, Live, Ids
<1>7. OneDefault'
  <2>1. SUFFICES ASSUME NEW t \in Ids, NEW u \in Ids, LiveDefault(rows'[t]), LiveDefault(rows'[u]), t # u
                 PROVE  FALSE
    BY DEF OneDefault, LiveDefault, Live
  <2>2. CASE lock[t] # w /\ lock[u] # w
    BY <1>1, <2>1, <2>2 DEF IInv, OneDefault
  <2>3. CASE lock[t] = w
    <3>1. LiveDefault(pending[t]) /\ ~LiveDefault(View(w, u))
      BY <1>1, <2>1, <2>3 DEF Entered, Holds
    <3>2. QED
      BY <1>1, <2>1, <3>1 DEF View
  <2>4. CASE lock[u] = w
    <3>1. LiveDefault(pending[u]) /\ ~LiveDefault(View(w, t))
      BY <1>1, <2>1, <2>4 DEF Entered, Holds
    <3>2. QED
      BY <1>1, <2>1, <3>1 DEF View
  <2>5. QED
    BY <2>2, <2>3, <2>4
<1>8. Knows(w)'
  BY <1>1, <1>2, NullAssumption, IdleKnows
<1>9. ASSUME NEW v \in Workers \ {w} PROVE Knows(v)'
  <2>1. \A t \in Ids : /\ lock[t] = v <=> lock'[t] = v
                       /\ lock[t] = v => pending'[t] = pending[t]
    BY <1>1, NullAssumption
  <2>2. ASSUME pc[v] = "commit" PROVE Entered(v)'
    <3>1. SUFFICES ASSUME NEW t \in Ids, lock'[t] = v, LiveDefault(pending'[t]), NEW u \in Ids \ {t}
                   PROVE  /\ ~LiveDefault(View(v, u)')
                          /\ lock'[u] \notin {Unlocked, v} /\ pc'[lock'[u]] = "commit" => ~LiveDefault(pending'[u])
      BY DEF Entered, Holds, LiveDefault, Live
    <3>2. lock[t] = v /\ LiveDefault(pending[t])
      BY <1>1, <2>1, <3>1
    <3>3. /\ ~LiveDefault(View(v, u))
          /\ lock[u] \notin {Unlocked, v} /\ pc[lock[u]] = "commit" => ~LiveDefault(pending[u])
      BY <2>2, <3>2 DEF IInv, Knows, Entered, Holds
    <3>4. lock[u] = w => ~LiveDefault(pending[u])
      BY <2>2, <3>2
    <3>5. ~LiveDefault(View(v, u)')
      BY <1>1, <2>1, <3>3, <3>4 DEF View
    <3>6. ASSUME lock'[u] \notin {Unlocked, v}, pc'[lock'[u]] = "commit" PROVE ~LiveDefault(pending'[u])
      <4>1. lock'[u] \in Workers /\ lock'[u] # w /\ lock[u] = lock'[u]
        BY <1>1, <3>6, NullAssumption
      <4>2. pc[lock[u]] = "commit"
        BY <1>2, <3>6, <4>1 DEF Others
      <4>3. QED
        BY <1>1, <3>3, <3>6, <4>1, <4>2
    <3>7. QED
      BY <3>5, <3>6
  <2>3. QED
    BY <1>3, <1>4, <2>1, <2>2, KnowsKept
<1>10. QED
  BY <1>3, <1>4, <1>5, <1>6, <1>7, <1>8, <1>9 DEF IInv

LEMMA IndexIInv ==
  ASSUME IInv, NEW w \in Workers, Index(w)
  PROVE  IInv' /\ Moves(w)
<1> DEFINE t == Goal(w)
<1>1. CASE Rollback(w)
  BY <1>1, RollbackIInv
<1>2. CASE ~Rollback(w)
  <2>1. /\ pc[w] = "index" /\ IndexBusy(w, t) = {} /\ ~UniqueViolation(w, t)
        /\ \/ /\ InTx(w) /\ pc' = [pc EXCEPT ![w] = "commit"]
              /\ UNCHANGED <<rows, pending, lock, req, saw, targets, fetched>>
           \/ ~InTx(w) /\ Install(w) /\ Done(w)
    BY <1>2 DEF Index, Goto
  <2>2. /\ Entered(w)
        /\ \A v \in Workers \ {w} : pc[v] = "commit" =>
             \A u \in Ids : lock[u] = v => ~LiveDefault(pending[u])
    BY <2>1, Passed
  <2>3. CASE ~InTx(w) /\ Install(w) /\ Done(w)
    BY <2>2, <2>3, InstallIInv
  <2>4. CASE /\ InTx(w) /\ pc' = [pc EXCEPT ![w] = "commit"]
             /\ UNCHANGED <<rows, pending, lock, req, saw, targets, fetched>>
    <3>1. pc'[w] = "commit" /\ pc' \in [Workers -> Steps]
      BY <2>4 DEF IInv, TypeOK, Steps
    <3>2. Moves(w)
      BY <2>4 DEF Moves, Others, RowMoves, IInv, TypeOK
    <3>3. TypeOK'
      BY <2>4, <3>1 DEF IInv, TypeOK
    <3>4. Pending' /\ ClassicLive' /\ OneDefault'
      BY <2>4 DEF IInv, Pending, ClassicLive, OneDefault, LiveDefault, Live
    <3>5. Knows(w)'
      <4>1. /\ req[w] \in Requests /\ InTx(w) /\ saw[w]
            /\ Holds(w, Classic) /\ LiveDefault(pending[Classic])
        BY <2>1, <2>4 DEF IInv, Knows, Goal
      <4>2. Entered(w)'
        <5>1. SUFFICES ASSUME NEW u \in Ids, lock[u] = w, LiveDefault(pending[u]), NEW x \in Ids \ {u}
                       PROVE  /\ ~LiveDefault(View(w, x)')
                              /\ lock[x] \notin {Unlocked, w} /\ pc'[lock[x]] = "commit" => ~LiveDefault(pending[x])
          BY <2>4 DEF Entered, Holds, LiveDefault, Live
        <5>2. /\ ~LiveDefault(View(w, x))
              /\ lock[x] \notin {Unlocked, w} /\ pc[lock[x]] = "commit" => ~LiveDefault(pending[x])
          BY <2>2, <5>1 DEF Entered, Holds
        <5>3. ~LiveDefault(View(w, x)')
          BY <2>4, <5>2 DEF View
        <5>4. lock[x] \notin {Unlocked, w} => lock[x] \in Workers /\ pc'[lock[x]] = pc[lock[x]]
          BY <2>4 DEF IInv, TypeOK
        <5>5. QED
          BY <5>2, <5>3, <5>4
      <4>3. QED
        BY <2>4, <3>1, <4>1, <4>2 DEF Knows, Holds, InTx, LiveDefault, Live
    <3>6. ASSUME NEW v \in Workers \ {w} PROVE Knows(v)'
      <4>1. pc[v] = "commit" => Entered(v)'
        BY <2>2, <2>4 DEF Entered, Holds, LiveDefault, Live
      <4>2. \A u \in Ids : /\ lock[u] = v <=> lock'[u] = v
                           /\ lock[u] = v => pending'[u] = pending[u]
        BY <2>4
      <4>3. QED
        BY <3>2, <3>3, <4>1, <4>2, KnowsKept
    <3>7. QED
      BY <3>2, <3>3, <3>4, <3>5, <3>6 DEF IInv
  <2>5. QED
    BY <2>1, <2>3, <2>4
<1>3. QED
  BY <1>1, <1>2

LEMMA CommitIInv ==
  ASSUME IInv, NEW w \in Workers, Commit(w)
  PROVE  IInv' /\ Moves(w)
<1>1. pc[w] = "commit" /\ Install(w) /\ Done(w) /\ Entered(w)
  BY DEF Commit, IInv, Knows
<1>2. ASSUME NEW v \in Workers \ {w}, pc[v] = "commit",
             NEW t \in Ids, lock[t] = v, LiveDefault(pending[t]),
             NEW u \in Ids \ {t}, lock[u] = w
      PROVE  ~LiveDefault(pending[u])
  <2>1. Entered(v)
    BY <1>2 DEF IInv, Knows
  <2>2. QED
    BY <1>1, <1>2, <2>1, NullAssumption DEF Entered, Holds
<1>3. QED
  BY <1>1, <1>2, InstallIInv

(* What an edit writes: the next version of the template of the request, *)
(* visible at once.                                                      *)
Saved(w, t, c) ==
  /\ t = req[w].id /\ ~InTx(w) /\ fetched[w].content = rows[t].content
  /\ pc[w] = "save" /\ lock[t] = Unlocked /\ Live(rows[t])
  /\ \A u \in Ids : lock[u] # w
  /\ rows'[t] \in Row /\ rows'[t].version = rows[t].version + 1 /\ rows'[t].content = c
  /\ rows'[t].state = rows[t].state /\ rows'[t].isDefault = rows[t].isDefault
  /\ pending'[t] = rows'[t] /\ lock'[t] = lock[t]
  /\ \A u \in Ids \ {t} : pending'[u] = pending[u] /\ lock'[u] = lock[u] /\ rows'[u] = rows[u]
  /\ pending' \in [Ids -> Row] /\ rows' \in [Ids -> Row]
  /\ lock' \in [Ids -> Workers \cup {Unlocked}]
  /\ Done(w)

LEMMA SaveWrites ==
  ASSUME IInv, NEW w \in Workers, Save(w), ~Rollback(w)
  PROVE  \E t \in Ids \ {Classic}, c \in Contents : Saved(w, t, c)
<1> DEFINE t == req[w].id
           r == rows[t]
<1>1. /\ pc[w] = "save" /\ lock[t] = Unlocked
      /\ Live(r) /\ VersionMatches(r, fetched[w].version) /\ r.version < MaxVersion
      /\ \E c \in Contents : Write(w, [u \in {t} |-> Edited(r, c)])
      /\ Done(w)
  BY DEF Save
<1>2. /\ t \in Ids /\ t # Classic /\ ~InTx(w) /\ fetched[w].content = r.content
      /\ \A u \in Ids : lock[u] # w
  BY <1>1 DEF IInv, Knows, Requests, Edits, Holds, InTx, VersionMatches
<1>3. PICK c \in Contents : Write(w, [u \in {t} |-> Edited(r, c)])
  BY <1>1
<1> DEFINE edited == [u \in {t} |-> Edited(r, c)]
<1> PICK new : new = edited /\ Write(w, new)
  BY <1>3
<1>4. /\ new[t] \in Row /\ new[t].version = r.version + 1 /\ new[t].content = c
      /\ new[t].state = r.state /\ new[t].isDefault = r.isDefault
  <2>1. r \in Row
    BY <1>2 DEF IInv, TypeOK
  <2>2. new[t] = Edited(r, c)
    OBVIOUS
  <2>3. QED
    BY <1>1, <2>1, <2>2, EditedRow
<1>5. DOMAIN new = {t} /\ \A u \in DOMAIN new : new[u] \in Row
  BY <1>4
<1> HIDE DEF t, edited
<1>6. /\ pending' \in [Ids -> Row] /\ rows' \in [Ids -> Row] /\ lock' \in [Ids -> Workers \cup {Unlocked}]
      /\ pending'[t] = new[t] /\ rows'[t] = new[t] /\ lock'[t] = lock[t]
      /\ \A u \in Ids \ {t} : pending'[u] = pending[u] /\ lock'[u] = lock[u] /\ rows'[u] = rows[u]
  <2>1. DOMAIN new \subseteq Ids
    BY <1>2, <1>5
  <2>2. QED
    BY <1>2, <1>5, <2>1, Written
<1>7. QED
  BY <1>1, <1>2, <1>4, <1>6 DEF t, Saved

LEMMA SaveIInv ==
  ASSUME IInv, NEW w \in Workers, Save(w)
  PROVE  IInv' /\ Moves(w)
<1>1. CASE Rollback(w)
  BY <1>1, RollbackIInv
<1>2. CASE ~Rollback(w)
  <2>1. PICK t \in Ids \ {Classic}, c \in Contents : Saved(w, t, c)
    BY <1>2, SaveWrites
  <2>2. Others(w) /\ pc'[w] = "idle"
    BY <2>1, DoneFacts DEF Saved
  <2>3. RowMoves(w, t)
    BY <2>1, <2>2 DEF RowMoves, Live, Saved
  <2>4. Moves(w)
    BY <2>1, <2>2, <2>3 DEF Moves, RowMoves, Saved
  <2>5. TypeOK'
    BY <2>1, DoneFacts DEF TypeOK, Saved
  <2>6. Pending' /\ ClassicLive'
    <3>1. Pending'
      BY <2>1 DEF IInv, Pending, Live, Saved
    <3>2. ClassicLive'
      BY <2>1 DEF IInv, ClassicLive, Live, Ids, Saved
    <3>3. QED
      BY <3>1, <3>2
  <2>7. Knows(w)'
    <3>1. \A u \in Ids : lock'[u] # w
      BY <2>1 DEF Saved
    <3>2. QED
      BY <2>2, <3>1, IdleKnows
  <2>8. \A u \in Ids : /\ LiveDefault(rows'[u]) => LiveDefault(rows[u])
                       /\ \A v \in Workers \ {w} : /\ lock[u] = v <=> lock'[u] = v
                                                   /\ lock[u] = v => pending'[u] = pending[u]
    BY <2>1, NullAssumption DEF LiveDefault, Live, Saved
  <2>9. QED
    BY <2>2, <2>4, <2>5, <2>6, <2>7, <2>8, Harmless
<1>3. QED
  BY <1>1, <1>2

LEMMA StepIInv ==
  ASSUME IInv, Next
  PROVE  IInv' /\ \E w \in Workers : Moves(w)
<1>1. PICK w \in Workers :
        \/ Receive(w) \/ Create(w) \/ Load(w)
        \/ SoftDelete(w) \/ Scan(w) \/ Unset(w) \/ Set(w) \/ Index(w) \/ Commit(w)
        \/ Save(w)
        \/ Abort(w)
  BY DEF Next
<1>2. Abort(w) => IInv' /\ Moves(w)
  BY RollbackIInv DEF Abort
<1>3. IInv' /\ Moves(w)
  BY <1>1, <1>2, ReceiveIInv, CreateIInv, LoadIInv, SoftDeleteIInv, ScanIInv, UnsetIInv,
     SetIInv, IndexIInv, CommitIInv, SaveIInv
<1>4. QED
  BY <1>3

LEMMA IInvStutter ==
  ASSUME IInv, UNCHANGED vars
  PROVE  IInv'
<1>1. TypeOK' /\ Pending' /\ ClassicLive' /\ OneDefault'
  BY DEF IInv, vars, TypeOK, Pending, ClassicLive, OneDefault, LiveDefault, Live
<1>2. ASSUME NEW w \in Workers PROVE Knows(w)'
  <2>1. Knows(w)
    BY DEF IInv
  <2>2. Goal(w)' = Goal(w) /\ InTx(w)' = InTx(w) /\ (\A t \in Ids : View(w, t)' = View(w, t))
    BY DEF vars, Goal, InTx, View
  <2>3. Entered(w) => Entered(w)'
    BY <2>2 DEF vars, Entered, Holds, LiveDefault, Live
  <2>4. Edits(w) => Edits(w)'
    BY DEF vars, Edits
  <2>5. QED
    BY <2>1, <2>2, <2>3, <2>4 DEF vars, Knows, Holds, LiveDefault, Live
<1>3. QED
  BY <1>1, <1>2 DEF IInv

LEMMA Inductive == Spec => []IInv
<1>1. IInv /\ [Next]_vars => IInv'
  BY IInvStutter, StepIInv
<1>2. QED
  BY InitIInv, <1>1, PTL DEF Spec

-----------------------------------------------------------------------------
(* Every variable keeps its type through every request and every abort.    *)
THEOREM TemplatesTypeCorrect == Spec => []TypeOK
<1>1. IInv => TypeOK
  BY DEF IInv
<1>2. QED
  BY Inductive, <1>1, PTL

(* However many SetDefaults and Deletes interleave, the unique index lets  *)
(* no second default become visible.                                       *)
THEOREM NeverTwoDefaults == Spec => []AtMostOneDefault
<1>1. IInv => AtMostOneDefault
  <2> SUFFICES ASSUME IInv PROVE AtMostOneDefault
    OBVIOUS
  <2> DEFINE D == {t \in Ids : LiveDefault(rows[t])}
  <2>1. \A t, u \in D : t = u
    BY DEF IInv, OneDefault
  <2>2. CASE D = {}
    <3>1. Cardinality(D) = 0
      BY <2>2, FS_EmptySet
    <3>2. QED
      BY <3>1 DEF AtMostOneDefault
  <2>3. CASE D # {}
    <3>1. PICK t \in D : TRUE
      BY <2>3
    <3>2. D = {t}
      BY <2>1, <3>1
    <3>3. Cardinality({t}) = 1
      BY FS_Singleton
    <3>4. Cardinality(D) = 1
      BY <3>2, <3>3
    <3>5. QED
      BY <3>4 DEF AtMostOneDefault
  <2>4. QED
    BY <2>2, <2>3
<1>2. QED
  BY Inductive, <1>1, PTL

(* The COMMIT that makes the delete of a default template visible makes    *)
(* Classic the default.                                                    *)
THEOREM DeleteHandsOver == Spec => DeleteRevertsToClassic
<1> DEFINE Reverts ==
      \A w \in Workers :
        /\ pc'[w] # pc[w] /\ req[w] # None
        /\ req[w].op = "delete" /\ saw[w]
        /\ Live(rows[req[w].id]) /\ ~Live(rows'[req[w].id])
        => LiveDefault(rows'[Classic])
<1>1. ASSUME IInv, Next PROVE Reverts
  <2>1. SUFFICES ASSUME NEW v \in Workers, pc'[v] # pc[v], req[v].op = "delete", saw[v],
                        Live(rows[req[v].id]), ~Live(rows'[req[v].id])
                 PROVE  LiveDefault(rows'[Classic])
    OBVIOUS
  <2>2. PICK w \in Workers :
          \/ Receive(w) \/ Create(w) \/ Load(w)
          \/ SoftDelete(w) \/ Scan(w) \/ Unset(w) \/ Set(w) \/ Index(w) \/ Commit(w)
          \/ Save(w)
          \/ Abort(w)
    BY <1>1 DEF Next
  <2>3. Moves(w)
    BY <1>1, <2>2, RollbackIInv, ReceiveIInv, CreateIInv, LoadIInv, SoftDeleteIInv, ScanIInv,
       UnsetIInv, SetIInv, IndexIInv, CommitIInv, SaveIInv DEF Abort
  <2>4. v = w
    BY <2>1, <2>3 DEF Moves, Others
  <2>5. pc[w] # "idle"
    <3>1. ~Receive(w)
      BY <2>1, <2>4 DEF Receive
    <3>2. QED
      BY <2>2, <3>1 DEF Create, Load, SoftDelete, Scan, Unset, Set, Index, Commit, Save, Abort
  <2>6. req[w].id \in Ids /\ InTx(w)
    BY <1>1, <2>1, <2>4, <2>5 DEF IInv, Knows, Requests, InTx
  <2>7. pc[w] = "commit"
    BY <2>1, <2>3, <2>4, <2>6 DEF Moves, RowMoves, Live
  <2>8. Commit(w)
    <3>1. ~Abort(w)
      BY <2>1, <2>4 DEF Abort, Rollback
    <3>2. QED
      BY <2>2, <2>7, <3>1
         DEF Receive, Create, Load, SoftDelete, Scan, Unset, Set, Index, Save
  <2>9. Holds(w, Classic) /\ LiveDefault(pending[Classic]) /\ Classic \in Ids
    BY <1>1, <2>1, <2>4, <2>7 DEF IInv, Knows, Ids
  <2>10. rows'[Classic] = pending[Classic]
    BY <2>8, <2>9 DEF Commit, Install, View, Holds
  <2>11. QED
    BY <2>9, <2>10
<1>2. IInv /\ [Next]_vars => [Reverts]_vars
  BY <1>1
<1>3. QED
  BY Inductive, <1>2, PTL DEF Spec, DeleteRevertsToClassic

(* Classic is always there to fall back on, and what was deleted stays as  *)
(* it was.                                                                 *)
THEOREM ProtectedRowsStay == Spec => ProtectedRowsFrozen
<1> DEFINE Frozen ==
      /\ Live(rows'[Classic]) /\ rows'[Classic].content = rows[Classic].content
      /\ \A t \in Ids : rows[t].state = "deleted" => rows'[t] = rows[t]
<1>1. ASSUME IInv, Next PROVE Frozen
  <2>1. PICK w \in Workers : Moves(w)
    BY <1>1, StepIInv
  <2>2. Classic \in Ids /\ Live(rows[Classic])
    BY <1>1 DEF IInv, ClassicLive, Ids
  <2>3. Live(rows'[Classic])
    BY <1>1, StepIInv DEF IInv, ClassicLive, Live
  <2>4. rows'[Classic].content = rows[Classic].content
    BY <2>1, <2>2 DEF Moves, RowMoves, Live
  <2>5. ASSUME NEW t \in Ids, rows[t].state = "deleted" PROVE rows'[t] = rows[t]
    BY <2>1, <2>5 DEF Moves, RowMoves, Live
  <2>6. QED
    BY <2>3, <2>4, <2>5
<1>2. IInv /\ [Next]_vars => [Frozen]_vars
  BY <1>1
<1>3. QED
  BY Inductive, <1>2, PTL DEF Spec, ProtectedRowsFrozen

(* Of all clients that read one version of a template, one can save.       *)
THEOREM EditsNotLost == Spec => NoLostUpdate
<1> DEFINE Seen ==
      \A t \in Ids :
        rows[t].state = "live" /\ rows'[t].version # rows[t].version =>
          \E w \in Workers : /\ pc[w] = "save" /\ pc'[w] = "idle"
                             /\ req[w].id = t
                             /\ fetched[w].content = rows[t].content
<1>1. ASSUME IInv, Next PROVE Seen
  <2>1. PICK w \in Workers : Moves(w)
    BY <1>1, StepIInv
  <2>2. ASSUME NEW t \in Ids, rows[t].state = "live", rows'[t].version # rows[t].version
        PROVE  /\ pc[w] = "save" /\ pc'[w] = "idle" /\ req[w].id = t
               /\ fetched[w].content = rows[t].content
    BY <2>1, <2>2 DEF Moves, RowMoves
  <2>3. QED
    BY <2>2
<1>2. IInv /\ [Next]_vars => [Seen]_vars
  BY <1>1
<1>3. QED
  BY Inductive, <1>2, PTL DEF Spec, NoLostUpdate
-----------------------------------------------------------------------------
(* The refinement. What a worker has written so far: a Delete the template *)
(* of its request, and a hand-over only if that was the default; a         *)
(* SetDefault the flag of its own template.                                *)

InDelete(w) == InTx(w) /\ pc[w] \in {"scan", "unset", "set", "index", "commit"}

Wrote(w) ==
  /\ InDelete(w) =>
       /\ req[w].id # Classic /\ Holds(w, req[w].id) /\ pending[req[w].id].state = "deleted"
       /\ \A t \in Ids \ {req[w].id} : Holds(w, t) => saw[w] /\ Live(pending[t])
  /\ pc[w] # "idle" /\ ~InTx(w) => \A t \in Ids : Holds(w, t) => t = Goal(w) /\ Live(pending[t])

WInv == IInv /\ \A w \in Workers : Wrote(w)

StepOf(w) ==
  \/ Receive(w) \/ Create(w) \/ Load(w)
  \/ SoftDelete(w) \/ Scan(w) \/ Unset(w) \/ Set(w) \/ Index(w) \/ Commit(w)
  \/ Save(w)
  \/ Abort(w)

LEMMA StepMoves ==
  ASSUME IInv, NEW w \in Workers, StepOf(w)
  PROVE  IInv' /\ Moves(w)
  BY RollbackIInv, ReceiveIInv, CreateIInv, LoadIInv, SoftDeleteIInv, ScanIInv, UnsetIInv,
     SetIInv, IndexIInv, CommitIInv, SaveIInv DEF StepOf, Abort

(* No step touches the rows another worker has locked. *)
LEMMA HeldKept ==
  ASSUME IInv, NEW w \in Workers, StepOf(w), NEW v \in Workers \ {w}, NEW t \in Ids
  PROVE  /\ lock[t] = v <=> lock'[t] = v
         /\ lock[t] = v => pending'[t] = pending[t]
<1>1. CASE Rollback(w)
  BY <1>1, NullAssumption DEF Rollback, Release, IInv, TypeOK
<1>2. CASE Receive(w) \/ Scan(w)
  BY <1>2 DEF Receive, Scan
<1>3. CASE Load(w) /\ ~Rollback(w)
  BY <1>3 DEF Load
<1>4. CASE Create(w)
  <2>1. req[w].id \in Ids /\ lock[req[w].id] = Unlocked
    BY <1>4 DEF Create, IInv, Knows, Requests, Pending, Live
  <2>2. QED
    BY <1>4, <2>1, NullAssumption DEF Create, IInv, TypeOK
<1>5. CASE SoftDelete(w) /\ ~Rollback(w)
  BY <1>5, SoftDeleteWrites, NullAssumption DEF SoftDeleted
<1>6. CASE Unset(w)
  <2>1. PICK D \in SUBSET Ids : Cleared(w, D)
    BY <1>6, UnsetWrites
  <2>2. CASE t \in D
    BY <2>1, <2>2, NullAssumption DEF Cleared
  <2>3. CASE t \notin D
    BY <2>1, <2>3 DEF Cleared
  <2>4. QED
    BY <2>2, <2>3
<1>7. CASE Set(w) /\ ~Rollback(w)
  BY <1>7, NullAssumption DEF Set, IInv, TypeOK
<1>8. CASE (Index(w) \/ Commit(w)) /\ ~Rollback(w)
  BY <1>8, NullAssumption DEF Index, Commit, Install, Release
<1>9. CASE Save(w) /\ ~Rollback(w)
  BY <1>9, SaveWrites, NullAssumption DEF Saved
<1>10. QED
  BY <1>1, <1>2, <1>3, <1>4, <1>5, <1>6, <1>7, <1>8, <1>9 DEF StepOf, Abort

LEMMA WroteKept ==
  ASSUME IInv, NEW w \in Workers, StepOf(w), Moves(w), NEW v \in Workers \ {w}, Wrote(v)
  PROVE  Wrote(v)'
<1>1. pc'[v] = pc[v] /\ req'[v] = req[v] /\ saw'[v] = saw[v]
  BY DEF Moves, Others
<1>2. Goal(v)' = Goal(v) /\ InTx(v)' = InTx(v) /\ InDelete(v)' = InDelete(v)
  BY <1>1 DEF Goal, InTx, InDelete
<1>3. \A t \in Ids : (Holds(v, t)' <=> Holds(v, t)) /\ (Holds(v, t) => pending'[t] = pending[t])
  BY HeldKept DEF Holds
<1>4. pc[v] # "idle" => req[v].id \in Ids
  BY DEF IInv, Knows, Requests
<1>5. ASSUME InDelete(v)
      PROVE  /\ req'[v].id # Classic /\ Holds(v, req[v].id)' /\ pending'[req[v].id].state = "deleted"
             /\ \A t \in Ids \ {req[v].id} : Holds(v, t)' => saw'[v] /\ Live(pending'[t])
  BY <1>1, <1>3, <1>4, <1>5 DEF Wrote, InDelete
<1>6. ASSUME pc[v] # "idle", ~InTx(v), NEW t \in Ids, Holds(v, t)'
      PROVE  t = Goal(v) /\ Live(pending'[t])
  BY <1>3, <1>6 DEF Wrote
<1>7. QED
  BY <1>1, <1>2, <1>5, <1>6 DEF Wrote, Live, Holds

(* The worker itself: a request that is over holds nothing. *)
LEMMA IdleWrote ==
  ASSUME NEW w \in Workers, pc'[w] = "idle"
  PROVE  Wrote(w)'
  BY DEF Wrote, InDelete

LEMMA UnheldWrote ==
  ASSUME NEW w \in Workers, \A t \in Ids : lock'[t] # w, ~InDelete(w)'
  PROVE  Wrote(w)'
  BY DEF Wrote, Holds

LEMMA WroteStep ==
  ASSUME WInv, NEW w \in Workers, StepOf(w)
  PROVE  WInv'
<1>1. IInv /\ IInv' /\ Moves(w) /\ Wrote(w) /\ Knows(w)
  BY StepMoves DEF WInv, IInv
<1>2. Wrote(w)'
  <2>1. CASE Done(w)
    BY <1>1, <2>1, DoneFacts, IdleWrote
  <2>2. CASE Receive(w) \/ Load(w)
    <3>1. CASE Done(w)
      BY <2>1, <3>1
    <3>2. CASE ~Done(w)
      <4>1. \A t \in Ids : lock'[t] # w
        BY <1>1, <2>2, <3>2 DEF Receive, Load, Rollback, Knows, Holds
      <4>2. ~InDelete(w)'
        <5>1. CASE Receive(w)
          BY <1>1, <5>1 DEF Receive, Goto, InDelete, IInv, TypeOK
        <5>2. CASE Load(w)
          <6>1. /\ pc[w] = "load" /\ req' = req /\ req[w] \in Requests /\ req[w].op # "create"
                /\ pc' = [pc EXCEPT ![w] = CASE req[w].op = "delete" -> "softDelete"
                                             [] req[w].op = "setDefault" -> "scan"
                                             [] req[w].op = "update" -> "save"]
            BY <1>1, <3>2, <5>2 DEF Load, Rollback, Goto, Knows
          <6>2. req[w].op = "delete" => pc'[w] = "softDelete"
            BY <1>1, <6>1 DEF IInv, TypeOK
          <6>3. QED
            BY <6>1, <6>2 DEF InDelete, InTx
        <5>3. QED
          BY <2>2, <5>1, <5>2
      <4>3. QED
        BY <4>1, <4>2, UnheldWrote
    <3>3. QED
      BY <3>1, <3>2
  <2>3. CASE SoftDelete(w) /\ ~Done(w)
    <3>1. PICK t \in Ids \ {Classic} : SoftDeleted(w, t)
      BY <1>1, <2>3, SoftDeleteWrites DEF Rollback
    <3>2. req' = req /\ InTx(w)' /\ t = req[w].id /\ lock'[t] = w /\ pending'[t].state = "deleted"
      BY <3>1 DEF SoftDeleted, InTx
    <3>3. \A u \in Ids \ {t} : lock'[u] # w
      BY <3>1 DEF SoftDeleted
    <3>4. QED
      BY <3>2, <3>3 DEF Wrote, Holds
  <2>4. CASE Scan(w)
    <3>1. /\ UNCHANGED <<pending, lock, req, saw>> /\ pc[w] = "scan"
      BY <2>4 DEF Scan
    <3>2. InDelete(w)' => InDelete(w)
      BY <3>1 DEF InDelete, InTx
    <3>3. QED
      BY <1>1, <3>1, <3>2 DEF Wrote, Holds, Live, Goal, InTx
  <2>5. CASE Unset(w)
    <3>1. PICK D \in SUBSET Ids : Cleared(w, D)
      BY <1>1, <2>5, UnsetWrites
    <3>2. UNCHANGED <<req, saw>> /\ pc[w] = "unset"
      BY <2>5 DEF Unset
    <3>3. Goal(w)' = Goal(w) /\ (InTx(w)' <=> InTx(w))
      BY <3>2 DEF Goal, InTx
    <3>4. CASE InTx(w)
      <4>1. /\ req[w].id # Classic /\ req[w].id \in Ids
            /\ lock[req[w].id] = w /\ pending[req[w].id].state = "deleted" /\ saw[w]
        BY <1>1, <3>2, <3>4 DEF Wrote, InDelete, Holds, Knows, Requests
      <4>2. req[w].id \notin D
        BY <3>1, <4>1 DEF Cleared, View, LiveDefault, Live
      <4>3. lock'[req[w].id] = w /\ pending'[req[w].id].state = "deleted"
        BY <3>1, <4>1, <4>2 DEF Cleared
      <4>4. ASSUME NEW t \in Ids \ {req[w].id}, lock'[t] = w PROVE Live(pending'[t])
        <5>1. CASE t \in D
          BY <3>1, <5>1 DEF Cleared, Live
        <5>2. CASE t \notin D
          BY <1>1, <3>1, <3>2, <3>4, <4>4, <5>2 DEF Cleared, Wrote, InDelete, Holds
        <5>3. QED
          BY <5>1, <5>2
      <4>5. QED
        BY <3>2, <3>3, <3>4, <4>1, <4>3, <4>4 DEF Wrote, Holds, Live
    <3>5. CASE ~InTx(w)
      <4>1. ASSUME NEW t \in Ids, lock'[t] = w PROVE t = Goal(w) /\ Live(pending'[t])
        <5>1. lock[t] = w
          BY <3>1, <3>5, <4>1 DEF Cleared
        <5>2. t = Goal(w) /\ Live(pending[t])
          BY <1>1, <3>2, <3>5, <5>1 DEF Wrote, Holds
        <5>3. QED
          BY <3>1, <5>2 DEF Cleared, Live
      <4>2. QED
        BY <3>3, <3>5, <4>1 DEF Wrote, Holds, Live, InDelete
    <3>6. QED
      BY <3>4, <3>5
  <2>6. CASE Set(w) /\ ~Done(w)
    <3> DEFINE t == Goal(w)
    <3>1. /\ pc[w] = "set" /\ Live(View(w, t))
          /\ lock' = [lock EXCEPT ![t] = w]
          /\ pending' = [pending EXCEPT ![t] = [View(w, t) EXCEPT !.isDefault = TRUE]]
          /\ UNCHANGED <<req, saw>>
      BY <2>6 DEF Set, Rollback
    <3>2. t \in Ids /\ (InTx(w) => saw[w])
      BY <1>1, <3>1 DEF Knows, Goal, Requests, Ids
    <3>3. /\ lock'[t] = w /\ pending'[t].state = View(w, t).state
          /\ \A u \in Ids \ {t} : lock'[u] = lock[u] /\ pending'[u] = pending[u]
      <4>1. View(w, t) \in Row
        BY <1>1, <3>2, ViewType
      <4>2. QED
        BY <1>1, <3>1, <3>2, <4>1, Flags DEF IInv, TypeOK
    <3>4. t' = t /\ (InTx(w)' <=> InTx(w))
      BY <3>1 DEF Goal, InTx
    <3>5. InTx(w) => t = Classic
      BY DEF Goal
    <3> HIDE DEF t
    <3>6. CASE InTx(w)
      <4>1. /\ req[w].id # Classic /\ req[w].id \in Ids
            /\ lock[req[w].id] = w /\ pending[req[w].id].state = "deleted"
            /\ \A u \in Ids \ {req[w].id} : lock[u] = w => Live(pending[u])
        BY <1>1, <3>1, <3>6 DEF Wrote, InDelete, Holds, Knows, Requests
      <4>2. lock'[req[w].id] = w /\ pending'[req[w].id].state = "deleted"
        BY <3>3, <3>5, <3>6, <4>1
      <4>3. \A u \in Ids \ {req[w].id} : lock'[u] = w => Live(pending'[u])
        BY <3>1, <3>3, <4>1 DEF Live
      <4>4. QED
        BY <3>1, <3>2, <3>4, <3>6, <4>1, <4>2, <4>3 DEF Wrote, Holds, Live
    <3>7. CASE ~InTx(w)
      <4>1. \A u \in Ids : lock[u] = w => u = t
        BY <1>1, <3>1, <3>7 DEF Wrote, Holds, t
      <4>2. \A u \in Ids : lock'[u] = w => u = t /\ Live(pending'[u])
        BY <3>1, <3>3, <4>1 DEF Live
      <4>3. QED
        BY <3>4, <3>7, <4>2 DEF Wrote, Holds, Live, InDelete, t
    <3>8. QED
      BY <3>6, <3>7
  <2>7. CASE Index(w) /\ ~Done(w)
    <3>1. UNCHANGED <<pending, lock, req, saw>> /\ pc[w] = "index"
      BY <2>7 DEF Index, Rollback
    <3>2. InDelete(w)' => InDelete(w)
      BY <3>1 DEF InDelete, InTx
    <3>3. QED
      BY <1>1, <3>1, <3>2 DEF Wrote, Holds, Live, Goal, InTx
  <2>8. QED
    BY <2>1, <2>2, <2>3, <2>4, <2>5, <2>6, <2>7 DEF StepOf, Create, Commit, Save, Abort, Rollback
<1>3. ASSUME NEW v \in Workers \ {w} PROVE Wrote(v)'
  <2>1. Wrote(v)
    BY DEF WInv
  <2>2. QED
    BY <1>1, <2>1, WroteKept
<1>4. QED
  BY <1>1, <1>2, <1>3 DEF WInv

LEMMA WrittenInductive == Spec => []WInv
<1>1. Init => WInv
  BY InitIInv DEF Init, WInv, Wrote, InDelete
<1>2. ASSUME WInv, UNCHANGED vars PROVE WInv'
  <2>1. IInv'
    BY <1>2, IInvStutter DEF WInv
  <2>2. ASSUME NEW w \in Workers PROVE Wrote(w)'
    BY <1>2 DEF WInv, vars, Wrote, InDelete, Holds, Live, Goal, InTx
  <2>3. QED
    BY <2>1, <2>2 DEF WInv
<1>3. WInv /\ [Next]_vars => WInv'
  BY <1>2, WroteStep DEF Next, StepOf
<1>4. QED
  BY <1>1, <1>3, PTL DEF Spec

(* The catalogue that a table of rows stands for, and what of the rows it  *)
(* depends on.                                                             *)
ListedOf(r) ==
  [t \in {u \in Ids : Live(r[u])} |-> [version |-> r[t].version, content |-> r[t].content]]
RemovedOf(r) == {t \in Ids : r[t].state = "deleted"}
DefaultOf(r) ==
  IF \E t \in Ids : LiveDefault(r[t]) THEN CHOOSE t \in Ids : LiveDefault(r[t]) ELSE None
Unique(r) == \A t, u \in Ids : LiveDefault(r[t]) /\ LiveDefault(r[u]) => t = u

LEMMA TheDefault ==
  ASSUME NEW r, Unique(r)
  PROVE  /\ \A t \in Ids : LiveDefault(r[t]) => DefaultOf(r) = t
         /\ (\A t \in Ids : ~LiveDefault(r[t])) => DefaultOf(r) = None
         /\ DefaultOf(r) = None \/ \E t \in Ids : LiveDefault(r[t]) /\ DefaultOf(r) = t
<1>1. ASSUME NEW t \in Ids, LiveDefault(r[t]) PROVE DefaultOf(r) = t
  <2> DEFINE d == CHOOSE u \in Ids : LiveDefault(r[u])
  <2>1. d \in Ids /\ LiveDefault(r[d])
    BY <1>1
  <2>2. d = t
    BY <1>1, <2>1 DEF Unique
  <2>3. QED
    BY <1>1, <2>2 DEF DefaultOf
<1>2. ASSUME \A t \in Ids : ~LiveDefault(r[t]) PROVE DefaultOf(r) = None
  BY <1>2 DEF DefaultOf
<1>3. QED
  BY <1>1, <1>2

LEMMA SameDefault ==
  ASSUME NEW r, NEW s, Unique(r), Unique(s),
         \A t \in Ids : LiveDefault(s[t]) <=> LiveDefault(r[t])
  PROVE  DefaultOf(s) = DefaultOf(r)
<1>1. CASE \A t \in Ids : ~LiveDefault(r[t])
  BY <1>1, TheDefault
<1>2. CASE \E t \in Ids : LiveDefault(r[t])
  <2>1. PICK t \in Ids : LiveDefault(r[t])
    BY <1>2
  <2>2. DefaultOf(r) = t /\ DefaultOf(s) = t
    BY <2>1, TheDefault
  <2>3. QED
    BY <2>2
<1>3. QED
  BY <1>1, <1>2

LEMMA SameListing ==
  ASSUME NEW r, NEW s,
         \A t \in Ids : /\ s[t].state = r[t].state
                        /\ s[t].version = r[t].version /\ s[t].content = r[t].content
  PROVE  ListedOf(s) = ListedOf(r) /\ RemovedOf(s) = RemovedOf(r)
<1>1. RemovedOf(s) = RemovedOf(r)
  BY DEF RemovedOf
<1>2. {u \in Ids : Live(s[u])} = {u \in Ids : Live(r[u])}
  BY DEF Live
<1>3. QED
  BY <1>1, <1>2 DEF ListedOf

(* The catalogue of InvoiceTemplates is that of its rows, before and after *)
(* a step.                                                                 *)
LEMMA CatalogueOfRows ==
  ASSUME IInv, IInv'
  PROVE  /\ Listed = ListedOf(rows) /\ Removed = RemovedOf(rows) /\ Default = DefaultOf(rows)
         /\ Listed' = ListedOf(rows') /\ Removed' = RemovedOf(rows') /\ Default' = DefaultOf(rows')
         /\ Unique(rows) /\ Unique(rows')
<1>1. /\ Listed = ListedOf(rows) /\ Removed = RemovedOf(rows) /\ Default = DefaultOf(rows)
      /\ Listed' = ListedOf(rows') /\ Removed' = RemovedOf(rows') /\ Default' = DefaultOf(rows')
  BY DEF Listed, ListedOf, Removed, RemovedOf, Default, DefaultOf, LiveDefault, Live
<1>2. Unique(rows) /\ Unique(rows')
  BY DEF IInv, OneDefault, Unique, LiveDefault, Live
<1>3. QED
  BY <1>1, <1>2

CatalogueStep == [Catalogue!CatalogueNext]_(Catalogue!catalogueVars)

(* What changes flags alone is a choice, a deselection or nothing. *)
LEMMA FlagStep ==
  ASSUME IInv, IInv',
         \A t \in Ids : /\ rows'[t].state = rows[t].state
                        /\ rows'[t].version = rows[t].version /\ rows'[t].content = rows[t].content,
         \/ \A t \in Ids : LiveDefault(rows'[t]) => LiveDefault(rows[t])
         \/ \E t \in Ids : LiveDefault(rows'[t]) /\ \A u \in Ids : LiveDefault(rows[u]) => u = t
  PROVE  CatalogueStep
<1>1. UNCHANGED <<Listed, Removed>>
  BY CatalogueOfRows, SameListing
<1>2. CASE \A t \in Ids : LiveDefault(rows'[t]) => LiveDefault(rows[t])
  <2>1. Default' = Default \/ Default' = None
    <3>1. CASE \A t \in Ids : ~LiveDefault(rows'[t])
      BY <3>1, CatalogueOfRows, TheDefault
    <3>2. CASE \E t \in Ids : LiveDefault(rows'[t])
      <4>1. PICK t \in Ids : LiveDefault(rows'[t])
        BY <3>2
      <4>2. DefaultOf(rows') = t /\ DefaultOf(rows) = t
        BY <1>2, <4>1, CatalogueOfRows, TheDefault
      <4>3. QED
        BY <4>2, CatalogueOfRows
    <3>3. QED
      BY <3>1, <3>2
  <2>2. QED
    BY <1>1, <2>1 DEF CatalogueStep, Catalogue!CatalogueNext, Catalogue!Deselect, Catalogue!catalogueVars
<1>3. CASE \E t \in Ids : LiveDefault(rows'[t]) /\ \A u \in Ids : LiveDefault(rows[u]) => u = t
  <2>1. PICK t \in Ids : LiveDefault(rows'[t]) /\ \A u \in Ids : LiveDefault(rows[u]) => u = t
    BY <1>3
  <2>2. Default' = t /\ (Default = t \/ Default = None)
    BY <2>1, CatalogueOfRows, TheDefault
  <2>3. t \in DOMAIN Listed
    BY <2>1 DEF Listed, LiveDefault, Live
  <2>4. QED
    BY <1>1, <2>2, <2>3 DEF CatalogueStep, Catalogue!CatalogueNext, Catalogue!Choose, Catalogue!catalogueVars
<1>4. QED
  BY <1>2, <1>3

(* An INSERT adds a template, which is not the default. *)
LEMMA CreateAdds ==
  ASSUME IInv, IInv', NEW w \in Workers, Create(w)
  PROVE  \E t \in Customs, c \in Contents : Catalogue!Add(t, c)
<1> DEFINE t == req[w].id
<1>1. PICK c \in Contents :
        rows' = [rows EXCEPT ![t] = [state |-> "live", isDefault |-> FALSE,
                                     version |-> 1, content |-> c]]
  BY DEF Create
<1>2. t \in Ids /\ rows[t].state = "absent" /\ t # Classic
  BY DEF Create, IInv, Knows, Requests, ClassicLive, Live
<1> HIDE DEF t
<1>3. /\ rows'[t] = [state |-> "live", isDefault |-> FALSE, version |-> 1, content |-> c]
      /\ \A u \in Ids \ {t} : rows'[u] = rows[u]
  BY <1>1, <1>2 DEF IInv, TypeOK
<1>4. /\ Live(rows'[t]) /\ rows'[t].state # "deleted" /\ ~LiveDefault(rows'[t])
      /\ rows'[t].version = 1 /\ rows'[t].content = c
      /\ ~Live(rows[t]) /\ ~LiveDefault(rows[t])
  BY <1>2, <1>3 DEF Live, LiveDefault
<1>5. Default' = Default
  <2>1. \A u \in Ids : LiveDefault(rows'[u]) <=> LiveDefault(rows[u])
    BY <1>3, <1>4
  <2>2. QED
    BY <2>1, CatalogueOfRows, SameDefault
<1>6. Removed' = Removed /\ t \notin Removed
  BY <1>2, <1>3, <1>4, CatalogueOfRows DEF RemovedOf
<1>7. /\ DOMAIN Listed = {u \in Ids : Live(rows[u])} /\ t \notin DOMAIN Listed
      /\ {u \in Ids : Live(rows'[u])} = DOMAIN Listed \cup {t}
  <2>1. DOMAIN Listed = {u \in Ids : Live(rows[u])}
    BY DEF Listed
  <2>2. QED
    BY <1>2, <1>3, <1>4, <2>1
<1>8. Listed' = [u \in DOMAIN Listed \cup {t} |->
                   IF u = t THEN [version |-> 1, content |-> c] ELSE Listed[u]]
  <2>1. Listed' = [u \in DOMAIN Listed \cup {t} |->
                     [version |-> rows'[u].version, content |-> rows'[u].content]]
    BY <1>7, CatalogueOfRows DEF ListedOf
  <2>2. \A u \in DOMAIN Listed :
          /\ u # t
          /\ Listed[u] = [version |-> rows'[u].version, content |-> rows'[u].content]
    BY <1>3, <1>7 DEF Listed
  <2>3. QED
    BY <1>4, <2>1, <2>2
<1>9. t \in Customs
  BY <1>2 DEF Ids
<1>10. Catalogue!Add(t, c)
  BY <1>5, <1>6, <1>7, <1>8 DEF Catalogue!Add, Catalogue!Listing
<1>11. QED
  BY <1>9, <1>10

(* An accepted edit replaces the content of one template. *)
LEMMA SaveEdits ==
  ASSUME IInv, IInv', NEW w \in Workers, Save(w), ~Rollback(w)
  PROVE  \E t \in Customs, c \in Contents : Catalogue!Edit(t, c)
<1>1. PICK t \in Ids \ {Classic}, c \in Contents : Saved(w, t, c)
  BY SaveWrites
<1>2. /\ Live(rows[t]) /\ Live(rows'[t]) /\ (LiveDefault(rows'[t]) <=> LiveDefault(rows[t]))
      /\ rows'[t].state = rows[t].state
      /\ rows'[t].version = rows[t].version + 1 /\ rows'[t].content = c
      /\ \A u \in Ids \ {t} : rows'[u] = rows[u]
  BY <1>1 DEF Saved, Live, LiveDefault
<1>3. Default' = Default
  <2>1. \A u \in Ids : LiveDefault(rows'[u]) <=> LiveDefault(rows[u])
    BY <1>2
  <2>2. QED
    BY <2>1, CatalogueOfRows, SameDefault
<1>4. Removed' = Removed
  BY <1>2, CatalogueOfRows DEF RemovedOf
<1>5. /\ DOMAIN Listed = {u \in Ids : Live(rows[u])} /\ t \in DOMAIN Listed
      /\ {u \in Ids : Live(rows'[u])} = DOMAIN Listed
  <2>1. DOMAIN Listed = {u \in Ids : Live(rows[u])}
    BY DEF Listed
  <2>2. QED
    BY <1>2, <2>1
<1>6. /\ Listed[t].version + 1 = rows'[t].version
      /\ \A u \in DOMAIN Listed \ {t} :
           Listed[u] = [version |-> rows'[u].version, content |-> rows'[u].content]
  BY <1>2, <1>5 DEF Listed
<1>7. Listed' = [Listed EXCEPT ![t] = [version |-> Listed[t].version + 1, content |-> c]]
  <2>1. Listed' = [u \in DOMAIN Listed |->
                     [version |-> rows'[u].version, content |-> rows'[u].content]]
    BY <1>5, CatalogueOfRows DEF ListedOf
  <2>2. QED
    BY <1>2, <1>5, <1>6, <2>1
<1>8. t \in Customs
  BY DEF Ids
<1>9. Catalogue!Edit(t, c)
  BY <1>3, <1>4, <1>5, <1>7 DEF Catalogue!Edit, Catalogue!Listing
<1>10. QED
  BY <1>8, <1>9

(* COMMIT of a Delete: its template goes. What it saw decides whether      *)
(* Classic becomes the default, so it keeps the promise of Remove unless   *)
(* the default has moved to or from the template since.                    *)
LEMMA CommitRemoves ==
  ASSUME WInv, IInv', NEW w \in Workers, Commit(w)
  PROVE  \E t \in Customs : \/ Catalogue!Remove(t)
                           \/ Catalogue!RemoveDefaultUnseen(t)
                           \/ Catalogue!RemoveFormerDefault(t)
<1> DEFINE t == req[w].id
<1>1. /\ pc[w] = "commit" /\ IInv /\ Knows(w) /\ Wrote(w)
      /\ \A u \in Ids : rows'[u] = IF lock[u] = w THEN pending[u] ELSE rows[u]
  BY DEF WInv, IInv, Commit, Install, View
<1>2. /\ InTx(w) /\ t \in Ids /\ t # Classic /\ lock[t] = w /\ pending[t].state = "deleted"
      /\ \A u \in Ids \ {t} : lock[u] = w => saw[w] /\ Live(pending[u])
  BY <1>1 DEF Knows, Requests, Wrote, InDelete, Holds
<1> HIDE DEF t
<1>3. \A u \in Ids : lock[u] = w => /\ Live(rows[u])
                                    /\ pending[u].version = rows[u].version
                                    /\ pending[u].content = rows[u].content
  BY <1>1, NullAssumption DEF IInv, Pending
<1>4. /\ Live(rows[t]) /\ rows'[t].state = "deleted" /\ ~Live(rows'[t])
      /\ \A u \in Ids \ {t} : /\ rows'[u].state = rows[u].state
                              /\ rows'[u].version = rows[u].version
                              /\ rows'[u].content = rows[u].content
  BY <1>1, <1>2, <1>3 DEF Live
<1>5. DOMAIN Listed = {u \in Ids : Live(rows[u])} /\ t \in DOMAIN Listed
  BY <1>2, <1>4 DEF Listed
<1>6. Listed' = [u \in DOMAIN Listed \ {t} |-> Listed[u]]
  <2>1. {u \in Ids : Live(rows'[u])} = DOMAIN Listed \ {t}
    BY <1>4, <1>5 DEF Live
  <2>2. Listed' = [u \in DOMAIN Listed \ {t} |->
                     [version |-> rows'[u].version, content |-> rows'[u].content]]
    BY <1>1, <2>1, CatalogueOfRows DEF ListedOf
  <2>3. \A u \in DOMAIN Listed \ {t} :
          Listed[u] = [version |-> rows'[u].version, content |-> rows'[u].content]
    BY <1>4, <1>5 DEF Listed
  <2>4. QED
    BY <2>2, <2>3
<1>7. Removed' = Removed \cup {t}
  BY <1>1, <1>2, <1>4, CatalogueOfRows DEF RemovedOf
<1>8. \/ Default' = Classic
      \/ Default = t /\ Default' = None
      \/ Default # t /\ Default' = Default
  <2>1. CASE saw[w]
    <3>1. Classic \in Ids /\ LiveDefault(rows'[Classic])
      BY <1>1, <2>1 DEF Knows, Holds, Ids
    <3>2. QED
      BY <1>1, <3>1, CatalogueOfRows, TheDefault
  <2>2. CASE ~saw[w]
    <3>1. \A u \in Ids \ {t} : rows'[u] = rows[u]
      BY <1>1, <1>2, <2>2
    <3>2. ~LiveDefault(rows'[t])
      BY <1>4 DEF LiveDefault
    <3>3. CASE \E u \in Ids \ {t} : LiveDefault(rows[u])
      <4>1. PICK u \in Ids \ {t} : LiveDefault(rows[u])
        BY <3>3
      <4>2. Default = u /\ Default' = u
        BY <1>1, <3>1, <4>1, CatalogueOfRows, TheDefault
      <4>3. QED
        BY <4>1, <4>2
    <3>4. CASE \A u \in Ids \ {t} : ~LiveDefault(rows[u])
      <4>1. Default' = None
        <5>1. \A u \in Ids : ~LiveDefault(rows'[u])
          BY <3>1, <3>2, <3>4
        <5>2. QED
          BY <1>1, <5>1, CatalogueOfRows, TheDefault
      <4>2. Default = t \/ Default = None
        BY <1>1, <3>4, CatalogueOfRows, TheDefault
      <4>3. QED
        BY <4>1, <4>2
    <3>5. QED
      BY <3>3, <3>4
  <2>3. QED
    BY <2>1, <2>2
<1>9. t \in Customs
  BY <1>2 DEF Ids
<1>10. Catalogue!Unlist(t)
  BY <1>5, <1>6, <1>7 DEF Catalogue!Unlist
<1>11. \/ Catalogue!Remove(t)
       \/ Catalogue!RemoveDefaultUnseen(t)
       \/ Catalogue!RemoveFormerDefault(t)
  BY <1>8, <1>10
     DEF Catalogue!Remove, Catalogue!RemoveDefaultUnseen, Catalogue!RemoveFormerDefault
<1>12. QED
  BY <1>9, <1>11

(* What SetDefault makes visible, one UPDATE at a time: no default, and    *)
(* then its own, which the unique index has let pass.                      *)
LEMMA UnsetDeselects ==
  ASSUME IInv, IInv', NEW w \in Workers, Unset(w)
  PROVE  CatalogueStep
<1>1. PICK D \in SUBSET Ids : Cleared(w, D)
  BY UnsetWrites
<1>2. ASSUME NEW t \in Ids
      PROVE  /\ rows'[t].state = rows[t].state
             /\ rows'[t].version = rows[t].version /\ rows'[t].content = rows[t].content
             /\ LiveDefault(rows'[t]) => LiveDefault(rows[t])
  <2>1. CASE t \notin D \/ InTx(w)
    BY <1>1, <2>1 DEF Cleared
  <2>2. CASE t \in D /\ ~InTx(w)
    BY <1>1, <2>2 DEF Cleared, Live
  <2>3. QED
    BY <2>1, <2>2
<1>3. QED
  BY <1>2, FlagStep

LEMMA IndexChooses ==
  ASSUME WInv, IInv', NEW w \in Workers, Index(w), ~UNCHANGED rows
  PROVE  CatalogueStep
<1> DEFINE t == Goal(w)
<1>1. /\ pc[w] = "index" /\ ~UniqueViolation(w, t) /\ ~InTx(w) /\ Install(w)
      /\ IInv /\ Knows(w) /\ Wrote(w)
  BY DEF Index, Rollback, WInv, IInv
<1>2. t \in Ids /\ lock[t] = w /\ LiveDefault(pending[t])
  BY <1>1 DEF Knows, Holds, Goal, Requests, Ids
<1>3. \A u \in Ids \ {t} : lock[u] # w /\ ~LiveDefault(rows[u])
  BY <1>1 DEF Wrote, Holds, UniqueViolation, View
<1> HIDE DEF t
<1>4. rows'[t] = pending[t] /\ \A u \in Ids \ {t} : rows'[u] = rows[u]
  BY <1>1, <1>2, <1>3 DEF Install, View
<1>5. /\ Live(rows[t])
      /\ pending[t].version = rows[t].version /\ pending[t].content = rows[t].content
  BY <1>1, <1>2, NullAssumption DEF IInv, Pending
<1>6. \A u \in Ids : /\ rows'[u].state = rows[u].state
                     /\ rows'[u].version = rows[u].version /\ rows'[u].content = rows[u].content
  BY <1>2, <1>4, <1>5 DEF LiveDefault, Live
<1>7. LiveDefault(rows'[t]) /\ \A u \in Ids : LiveDefault(rows[u]) => u = t
  BY <1>2, <1>3, <1>4
<1>8. QED
  BY <1>1, <1>2, <1>6, <1>7, FlagStep

LEMMA CatalogueSteps == WInv /\ [Next]_vars => CatalogueStep
<1> SUFFICES ASSUME WInv, [Next]_vars PROVE CatalogueStep
  OBVIOUS
<1>1. CASE UNCHANGED rows
  BY <1>1 DEF CatalogueStep, Catalogue!catalogueVars, Listed, Removed, Default, Live, LiveDefault
<1>2. ASSUME NEW w \in Workers, StepOf(w), ~UNCHANGED rows PROVE CatalogueStep
  <2>1. IInv /\ IInv'
    BY <1>2, StepMoves DEF WInv
  <2>2. Create(w) \/ Unset(w) \/ Index(w) \/ Commit(w) \/ (Save(w) /\ ~Rollback(w))
    <3>1. ~Rollback(w)
      BY <1>2 DEF Rollback
    <3>2. ~SoftDelete(w)
      <4>1. SUFFICES ASSUME SoftDelete(w) PROVE FALSE
        OBVIOUS
      <4>2. PICK t \in Ids \ {Classic} : SoftDeleted(w, t)
        BY <2>1, <3>1, <4>1, SoftDeleteWrites
      <4>3. rows' \in [Ids -> Row] /\ rows \in [Ids -> Row] /\ \A u \in Ids : rows'[u] = rows[u]
        BY <2>1, <4>2 DEF SoftDeleted, IInv, TypeOK
      <4>4. QED
        BY <1>2, <4>3
    <3>3. QED
      BY <1>2, <3>1, <3>2 DEF StepOf, Receive, Load, Scan, Set, Abort
  <2>3. QED
    BY <1>2, <2>1, <2>2, CreateAdds, SaveEdits, CommitRemoves, UnsetDeselects, IndexChooses
       DEF CatalogueStep, Catalogue!CatalogueNext
<1>3. QED
  BY <1>1, <1>2 DEF Next, StepOf, vars

LEMMA CatalogueInitially == Init => Catalogue!CatalogueInit
<1> SUFFICES ASSUME Init PROVE Catalogue!CatalogueInit
  OBVIOUS
<1>1. PICK c \in Contents :
        rows = [t \in Ids |-> [state |-> IF t = Classic THEN "live" ELSE "absent",
                               isDefault |-> t = Classic, version |-> 1, content |-> c]]
  BY DEF Init
<1>2. Classic \in Ids /\ \A t \in Ids : (Live(rows[t]) <=> t = Classic) /\ rows[t].state # "deleted"
  BY <1>1 DEF Ids, Live
<1>3. LiveDefault(rows[Classic]) /\ rows[Classic].version = 1 /\ rows[Classic].content = c
  BY <1>1, <1>2 DEF LiveDefault
<1>4. Listed = [t \in {Classic} |-> [version |-> 1, content |-> c]]
  <2>1. {u \in Ids : Live(rows[u])} = {Classic}
    BY <1>2
  <2>2. QED
    BY <1>3, <2>1 DEF Listed
<1>5. Removed = {}
  BY <1>2 DEF Removed
<1>6. Default = Classic
  <2>1. \A t \in Ids : LiveDefault(rows[t]) => t = Classic
    BY <1>2 DEF LiveDefault
  <2>2. QED
    BY <1>2, <1>3, <2>1 DEF Default
<1>7. QED
  BY <1>4, <1>5, <1>6 DEF Catalogue!CatalogueInit, Catalogue!Listing

(* The statements of the template requests, in one transaction or in none, *)
(* implement a catalogue that is changed in one step at a time: whatever   *)
(* the interleaving, aborts included, the committed templates and the      *)
(* default move only as TemplateCatalogue allows.                          *)
THEOREM TemplatesImplementCatalogue == Spec => ImplementsCatalogue
<1>1. WInv /\ [Next]_vars => [Catalogue!CatalogueNext]_(Catalogue!catalogueVars)
  BY CatalogueSteps DEF CatalogueStep
<1>2. QED
  BY CatalogueInitially, <1>1, WrittenInductive, PTL
     DEF Spec, ImplementsCatalogue, Catalogue!CatalogueSpec
=============================================================================
