---------------------------- MODULE ServerProofs ----------------------------
(***************************************************************************)
(* Proofs about Server, for any number of processes, releases, requests    *)
(* and expired sessions. The inductive invariant says what the holder of   *)
(* the advisory lock knows about the schema at each step of a migration.   *)
(* Liveness stays with TLC.                                                *)
(***************************************************************************)
EXTENDS Server, TLAPS

Migrating(p) == ctl[p] \in {"locked", "up", "apply", "mark"}
Opened == {"pool", "serving", "draining", "waiting", "closing"}
Working == {"serving", "draining", "waiting"}

(* What a migrating process has read or written is still what is there.    *)
Migration(p) ==
  /\ Migrating(p) => lock = p
  /\ ctl[p] = "up" => at[p] = version /\ ~dirty
  /\ ctl[p] = "apply" => at[p] = version /\ dirty /\ version # 0 /\ applied[version] = 0
  /\ ctl[p] = "mark" => at[p] = version /\ dirty /\ version # 0 /\ applied[version] = 1

IInv ==
  /\ TypeOK
  /\ MigratedOnce
  /\ ServesReadySchema
  /\ PoolOutlivesWork
  /\ \A p \in Processes : Migration(p)

-----------------------------------------------------------------------------
LEMMA ReleaseType ==
  MaxVersion \in Nat /\ \A p \in Processes : Latest[p] \in 1..MaxVersion
BY ReleaseAssumption

LEMMA InitIInv == Init => IInv
<1> SUFFICES ASSUME Init PROVE IInv
  OBVIOUS
<1>1. TypeOK
  <2>1. version \in 0..MaxVersion /\ at \in [Processes -> 0..MaxVersion] /\ expired \in 0..MaxExpired
    BY ReleaseType, CapacityAssumption DEF Init
  <2>2. applied \in [1..MaxVersion -> Nat] /\ running \in [Processes -> Nat] /\ conns \in [Processes -> Nat]
    BY DEF Init
  <2>3. QED
    BY <2>1, <2>2 DEF Init, TypeOK
<1>2. MigratedOnce /\ ServesReadySchema /\ PoolOutlivesWork
  BY ReleaseType DEF Init, MigratedOnce, ServesReadySchema, PoolOutlivesWork
<1>3. \A p \in Processes : Migration(p)
  BY DEF Init, Migration, Migrating
<1>4. QED
  BY <1>1, <1>2, <1>3 DEF IInv

(* A step that leaves the schema alone and migrates nothing. *)
LEMMA SchemaKept ==
  ASSUME IInv, NEW p \in Processes, UNCHANGED <<version, dirty, applied>>,
         \A q \in Processes \ {p} : ctl'[q] = ctl[q] /\ at'[q] = at[q] /\ (lock = q => lock' = q),
         ~Migrating(p)',
         ctl'[p] \in Opened =>
           ctl[p] \in Opened \/ (~dirty /\ version >= Latest[p])
  PROVE  MigratedOnce' /\ ServesReadySchema' /\ \A q \in Processes : Migration(q)'
<1>1. MigratedOnce'
  BY DEF IInv, MigratedOnce
<1>2. ServesReadySchema'
  <2>1. ~dirty /\ version >= Latest[p] => \A v \in 1..Latest[p] : applied[v] = 1
    BY ReleaseType DEF IInv, TypeOK, MigratedOnce
  <2>2. QED
    BY <2>1 DEF IInv, ServesReadySchema, Opened
<1>3. ASSUME NEW q \in Processes \ {p} PROVE Migration(q)'
  BY <1>3 DEF IInv, Migration, Migrating
<1>4. Migration(p)'
  BY DEF Migration, Migrating
<1>5. QED
  BY <1>1, <1>2, <1>3, <1>4

(* A step of a process without a pool says nothing about its work.         *)
LEMMA WorkKept ==
  ASSUME IInv, NEW p \in Processes, UNCHANGED <<running, conns, late, worker>>,
         \A q \in Processes \ {p} : ctl'[q] = ctl[q],
         ctl[p] \notin Working, ctl'[p] \notin {"waiting", "closing"}
  PROVE  PoolOutlivesWork'
BY DEF IInv, PoolOutlivesWork, Working

LEMMA VanishIInv ==
  ASSUME IInv, NEW p \in Processes, Vanish(p)
  PROVE  IInv'
<1>1. TypeOK'
  BY ReleaseType DEF IInv, TypeOK, Vanish, Goto, table
<1>2. PoolOutlivesWork'
  BY DEF IInv, TypeOK, PoolOutlivesWork, Vanish, Goto
<1>3. /\ UNCHANGED <<version, dirty, applied>> /\ ctl'[p] = "down"
      /\ \A q \in Processes \ {p} : ctl'[q] = ctl[q] /\ at'[q] = at[q] /\ (lock = q => lock' = q)
  BY DEF IInv, TypeOK, Vanish, Goto
<1>4. QED
  BY <1>1, <1>2, <1>3, SchemaKept DEF IInv, Migrating, Opened

-----------------------------------------------------------------------------
(* The migration, under the advisory lock. *)

LEMMA LockIInv ==
  ASSUME IInv, NEW p \in Processes, Lock(p)
  PROVE  IInv'
<1>1. TypeOK'
  BY DEF IInv, TypeOK, Lock, Goto, requests, table
<1>2. MigratedOnce' /\ ServesReadySchema'
  BY DEF IInv, TypeOK, MigratedOnce, ServesReadySchema, Lock, Goto
<1>3. PoolOutlivesWork'
  BY WorkKept DEF IInv, TypeOK, Lock, Goto, requests, Working
<1>4. \A q \in Processes : Migration(q)'
  BY ServerNoneAssumption DEF IInv, TypeOK, Migration, Migrating, Lock, LockFree, Goto
<1>5. QED
  BY <1>1, <1>2, <1>3, <1>4 DEF IInv

LEMMA ReadVersionIInv ==
  ASSUME IInv, NEW p \in Processes, ReadVersion(p)
  PROVE  IInv'
<1>1. CASE Vanish(p)
  BY <1>1, VanishIInv
<1>2. CASE ~Vanish(p)
  <2>1. /\ ctl[p] = "locked" /\ ~dirty
        /\ at' = [at EXCEPT ![p] = version] /\ ctl' = [ctl EXCEPT ![p] = "up"]
        /\ UNCHANGED <<version, dirty, applied, lock, cancelled, running, conns, late, worker,
                       backlog, expired>>
    BY <1>2 DEF ReadVersion, Goto, requests, table
  <2>2. TypeOK'
    BY <2>1 DEF IInv, TypeOK
  <2>3. MigratedOnce' /\ ServesReadySchema'
    BY <2>1 DEF IInv, TypeOK, MigratedOnce, ServesReadySchema
  <2>4. PoolOutlivesWork'
    BY <2>1, WorkKept DEF IInv, TypeOK, Working
  <2>5. \A q \in Processes : Migration(q)'
    BY <2>1 DEF IInv, TypeOK, Migration, Migrating
  <2>6. QED
    BY <2>2, <2>3, <2>4, <2>5 DEF IInv
<1>3. QED
  BY <1>1, <1>2

(* The next version has never been applied, whoever died before. *)
LEMMA MarkDirtyIInv ==
  ASSUME IInv, NEW p \in Processes, MarkDirty(p)
  PROVE  IInv'
<1>1. /\ ctl[p] = "up" /\ at[p] < Latest[p] /\ at[p] = version /\ ~dirty /\ lock = p
      /\ at' = [at EXCEPT ![p] = version + 1] /\ ctl' = [ctl EXCEPT ![p] = "apply"]
      /\ version' = version + 1 /\ dirty' = TRUE
      /\ UNCHANGED <<applied, lock, cancelled, running, conns, late, worker, backlog, expired>>
  BY DEF IInv, TypeOK, Migration, Migrating, MarkDirty, Goto, requests, table
<1>2. version \in Nat /\ version + 1 \in 1..MaxVersion
  BY <1>1, ReleaseType DEF IInv, TypeOK
<1>3. TypeOK'
  BY <1>1, <1>2 DEF IInv, TypeOK
<1>4. MigratedOnce'
  BY <1>1, <1>2 DEF IInv, MigratedOnce
<1>5. ServesReadySchema'
  BY <1>1 DEF IInv, TypeOK, ServesReadySchema
<1>6. PoolOutlivesWork'
  BY <1>1, WorkKept DEF IInv, TypeOK, Working
<1>7. applied[version + 1] = 0
  BY <1>2 DEF IInv, MigratedOnce
<1>8. \A q \in Processes : Migration(q)'
  BY <1>1, <1>2, <1>7 DEF IInv, TypeOK, Migration, Migrating
<1>9. QED
  BY <1>3, <1>4, <1>5, <1>6, <1>8 DEF IInv

LEMMA ApplyIInv ==
  ASSUME IInv, NEW p \in Processes, Apply(p)
  PROVE  IInv'
<1>1. /\ ctl[p] = "apply" /\ at[p] = version /\ dirty /\ version # 0 /\ applied[version] = 0
      /\ lock = p
      /\ applied' = [applied EXCEPT ![version] = @ + 1] /\ ctl' = [ctl EXCEPT ![p] = "mark"]
      /\ UNCHANGED <<version, dirty, lock, at, cancelled, running, conns, late, worker,
                     backlog, expired>>
  BY DEF IInv, TypeOK, Migration, Migrating, Apply, Goto, requests, table
<1>2. version \in 1..MaxVersion /\ applied'[version] = 1
  BY <1>1 DEF IInv, TypeOK
<1>3. TypeOK'
  BY <1>1, <1>2 DEF IInv, TypeOK
<1>4. MigratedOnce'
  BY <1>1, <1>2 DEF IInv, TypeOK, MigratedOnce
<1>5. ServesReadySchema'
  <2> SUFFICES ASSUME NEW q \in Processes, ctl'[q] \in Opened, NEW v \in 1..Latest[q]
               PROVE  applied'[v] = 1
    BY DEF ServesReadySchema, Opened
  <2>1. applied[v] = 1 /\ v \in 1..MaxVersion
    BY <1>1, ReleaseType DEF IInv, TypeOK, ServesReadySchema, Opened
  <2>2. QED
    BY <1>1, <2>1 DEF IInv, TypeOK
<1>6. PoolOutlivesWork'
  BY <1>1, WorkKept DEF IInv, TypeOK, Working
<1>7. \A q \in Processes : Migration(q)'
  BY <1>1, <1>2 DEF IInv, TypeOK, Migration, Migrating
<1>8. QED
  BY <1>3, <1>4, <1>5, <1>6, <1>7 DEF IInv

LEMMA MarkCleanIInv ==
  ASSUME IInv, NEW p \in Processes, MarkClean(p)
  PROVE  IInv'
<1>1. /\ ctl[p] = "mark" /\ at[p] = version /\ version # 0 /\ applied[version] = 1 /\ lock = p
      /\ version' = version /\ dirty' = FALSE /\ ctl' = [ctl EXCEPT ![p] = "up"]
      /\ UNCHANGED <<applied, lock, at, cancelled, running, conns, late, worker,
                     backlog, expired>>
  BY DEF IInv, TypeOK, Migration, Migrating, MarkClean, Goto, requests, table
<1>2. TypeOK'
  BY <1>1 DEF IInv, TypeOK
<1>3. MigratedOnce' /\ ServesReadySchema'
  BY <1>1 DEF IInv, TypeOK, MigratedOnce, ServesReadySchema
<1>4. PoolOutlivesWork'
  BY <1>1, WorkKept DEF IInv, TypeOK, Working
<1>5. \A q \in Processes : Migration(q)'
  BY <1>1 DEF IInv, TypeOK, Migration, Migrating
<1>6. QED
  BY <1>2, <1>3, <1>4, <1>5 DEF IInv

LEMMA UnlockIInv ==
  ASSUME IInv, NEW p \in Processes, Unlock(p)
  PROVE  IInv'
<1>1. CASE Vanish(p)
  BY <1>1, VanishIInv
<1>2. CASE ~Vanish(p)
  <2>1. /\ ctl[p] = "up" /\ at[p] = Latest[p] /\ lock' = None
        /\ at' = [at EXCEPT ![p] = 0] /\ ctl' = [ctl EXCEPT ![p] = "pool"]
        /\ UNCHANGED <<version, dirty, applied, cancelled, running, conns, late, worker,
                       backlog, expired>>
    BY <1>2 DEF Unlock, Goto, requests, table
  <2>2. lock = p /\ ~dirty /\ version = Latest[p]
    BY <2>1 DEF IInv, Migration, Migrating
  <2>3. TypeOK'
    BY <2>1, ReleaseType DEF IInv, TypeOK
  <2>4. PoolOutlivesWork'
    BY <2>1, WorkKept DEF IInv, TypeOK, Working
  <2>5. \A q \in Processes \ {p} : ctl'[q] = ctl[q] /\ at'[q] = at[q] /\ (lock = q => lock' = q)
    BY <2>1, <2>2 DEF IInv, TypeOK
  <2>6. ~Migrating(p)' /\ version >= Latest[p]
    BY <2>1, <2>2, ReleaseType DEF IInv, TypeOK, Migrating
  <2>7. QED
    BY <2>1, <2>2, <2>3, <2>4, <2>5, <2>6, SchemaKept DEF IInv
<1>3. QED
  BY <1>1, <1>2

-----------------------------------------------------------------------------
(* Starting, serving, stopping: only the process's own step changes.       *)

LEMMA StartIInv ==
  ASSUME IInv, NEW p \in Processes, Start(p) \/ CheckSchema(p) \/ Serve(p)
  PROVE  IInv'
<1>1. CASE Vanish(p)
  BY <1>1, VanishIInv
<1>2. CASE ~Vanish(p)
  <2>1. /\ UNCHANGED <<version, dirty, applied, lock, at, cancelled, running, conns, late,
                       backlog, expired>>
        /\ \/ ctl[p] = "down" /\ UNCHANGED worker /\ \E s \in {"migrate", "check"} : ctl' = [ctl EXCEPT ![p] = s]
           \/ ctl[p] = "check" /\ UNCHANGED worker /\ ctl' = [ctl EXCEPT ![p] = "pool"] /\ Current(p)
           \/ /\ ctl[p] = "pool" /\ ctl' = [ctl EXCEPT ![p] = "serving"]
              /\ worker' = [worker EXCEPT ![p] = "deleting"]
    BY <1>2 DEF Start, CheckSchema, Serve, Goto, schema, requests, table
  <2>2. TypeOK'
    BY <2>1 DEF IInv, TypeOK
  <2>3. PoolOutlivesWork'
    BY <2>1 DEF IInv, TypeOK, PoolOutlivesWork
  <2>4. \A q \in Processes \ {p} : ctl'[q] = ctl[q] /\ at'[q] = at[q] /\ (lock = q => lock' = q)
    BY <2>1 DEF IInv, TypeOK
  <2>5. ~Migrating(p)' /\ (ctl'[p] \in Opened => ctl[p] \in Opened \/ (~dirty /\ version >= Latest[p]))
    BY <2>1 DEF IInv, TypeOK, Migrating, Opened, Current
  <2>6. QED
    BY <2>1, <2>2, <2>3, <2>4, <2>5, SchemaKept DEF IInv
<1>3. QED
  BY <1>1, <1>2

LEMMA StopIInv ==
  ASSUME IInv, NEW p \in Processes,
         Shutdown(p) \/ ListenerFails(p) \/ Drained(p) \/ WorkerWait(p)
  PROVE  IInv'
<1>1. /\ UNCHANGED <<version, dirty, applied, lock, at, running, conns, worker, backlog, expired>>
      /\ ctl[p] \in Opened /\ cancelled' \in [Processes -> BOOLEAN]
      /\ \/ ctl' = [ctl EXCEPT ![p] = "draining"] /\ UNCHANGED late
         \/ /\ ctl' = [ctl EXCEPT ![p] = "waiting"] /\ ctl[p] = "draining"
            /\ late' \in [Processes -> BOOLEAN] /\ (late'[p] <=> running[p] + conns[p] > 0)
            /\ \A q \in Processes \ {p} : late'[q] = late[q]
         \/ /\ ctl' = [ctl EXCEPT ![p] = "closing"] /\ ctl[p] = "waiting" /\ UNCHANGED late
            /\ worker[p] = "stopped"
  <2>1. CASE Shutdown(p) \/ ListenerFails(p) \/ WorkerWait(p)
    BY <2>1 DEF IInv, TypeOK, Shutdown, ListenerFails, WorkerWait, WorkerDone, Goto, Opened,
                schema, requests, table
  <2>2. CASE Drained(p)
    <3> DEFINE left == running[p] + conns[p] > 0
    <3>1. /\ left \in BOOLEAN
          /\ late' = [late EXCEPT ![p] = left]
      BY <2>2 DEF Drained
    <3> HIDE DEF left
    <3>2. /\ late' \in [Processes -> BOOLEAN] /\ (late'[p] <=> left)
          /\ \A q \in Processes \ {p} : late'[q] = late[q]
      BY <3>1 DEF IInv, TypeOK
    <3>3. QED
      BY <2>2, <3>2 DEF IInv, TypeOK, Drained, Goto, Opened, schema, table, left
  <2>3. QED
    BY <2>1, <2>2
<1>2. TypeOK'
  BY <1>1 DEF IInv, TypeOK
<1>3. PoolOutlivesWork'
  BY <1>1 DEF IInv, TypeOK, PoolOutlivesWork
<1>4. \A q \in Processes \ {p} : ctl'[q] = ctl[q] /\ at'[q] = at[q] /\ (lock = q => lock' = q)
  BY <1>1 DEF IInv, TypeOK
<1>5. ~Migrating(p)'
  BY <1>1 DEF IInv, TypeOK, Migrating
<1>6. QED
  BY <1>1, <1>2, <1>3, <1>4, <1>5, SchemaKept DEF IInv

(* Requests and the worker leave the schema and main alone.                *)
LEMMA BusyIInv ==
  ASSUME IInv, UNCHANGED <<version, dirty, applied, lock, at, ctl>>, TypeOK', PoolOutlivesWork'
  PROVE  IInv'
<1>1. MigratedOnce' /\ ServesReadySchema'
  BY DEF IInv, MigratedOnce, ServesReadySchema
<1>2. \A q \in Processes : Migration(q)'
  BY DEF IInv, Migration, Migrating
<1>3. QED
  BY <1>1, <1>2 DEF IInv

LEMMA RequestIInv ==
  ASSUME IInv, NEW p \in Processes,
         Signal(p) \/ Accept(p) \/ Begin(p) \/ EndTransaction(p) \/ Respond(p)
  PROVE  IInv'
<1>1. /\ UNCHANGED <<version, dirty, applied, lock, at, ctl, late, worker, backlog, expired>>
      /\ cancelled' \in [Processes -> BOOLEAN]
      /\ running' \in [Processes -> Nat] /\ conns' \in [Processes -> Nat]
      /\ \A q \in Processes : running'[q] + conns'[q] > 0 => running[q] + conns[q] > 0 \/ ctl[q] = "serving"
  <2>1. CASE Signal(p)
    BY <2>1 DEF IInv, TypeOK, Signal, schema, requests, table
  <2>2. CASE Accept(p)
    BY <2>2 DEF IInv, TypeOK, Accept, schema, table
  <2>3. CASE Begin(p)
    BY <2>3 DEF IInv, TypeOK, Begin, schema, table
  <2>4. CASE EndTransaction(p)
    BY <2>4 DEF IInv, TypeOK, EndTransaction, schema, table
  <2>5. CASE Respond(p)
    BY <2>5 DEF IInv, TypeOK, Respond, schema, table
  <2>6. QED
    BY <2>1, <2>2, <2>3, <2>4, <2>5
<1>2. TypeOK'
  BY <1>1 DEF IInv, TypeOK
<1>3. PoolOutlivesWork'
  BY <1>1 DEF IInv, PoolOutlivesWork
<1>4. QED
  BY <1>1, <1>2, <1>3, BusyIInv

LEMMA WorkerIInv ==
  ASSUME IInv, NEW p \in Processes,
         DeleteBatch(p) \/ DeleteFails(p) \/ NextBatch(p) \/ TickerFires(p) \/ WorkerStops(p)
  PROVE  IInv'
<1>1. /\ UNCHANGED <<version, dirty, applied, lock, at, ctl, cancelled, running, conns, late, expired>>
      /\ worker[p] \notin {"none", "stopped"}
      /\ \E s \in {"deleting", "between", "select", "stopped"} : worker' = [worker EXCEPT ![p] = s]
      /\ backlog' \in Nat
  <2>1. CASE DeleteBatch(p)
    BY <2>1, CapacityAssumption DEF IInv, TypeOK, DeleteBatch, schema, requests
  <2>2. CASE DeleteFails(p) \/ NextBatch(p) \/ TickerFires(p) \/ WorkerStops(p)
    BY <2>2 DEF IInv, TypeOK, DeleteFails, NextBatch, TickerFires, WorkerStops, schema, requests, table
  <2>3. QED
    BY <2>1, <2>2
<1>2. TypeOK'
  BY <1>1 DEF IInv, TypeOK
<1>3. PoolOutlivesWork'
  BY <1>1 DEF IInv, TypeOK, PoolOutlivesWork
<1>4. QED
  BY <1>1, <1>2, <1>3, BusyIInv

LEMMA ExpireIInv ==
  ASSUME IInv, Expire
  PROVE  IInv'
<1>1. UNCHANGED <<version, dirty, applied, lock, at, ctl, cancelled, running, conns, late, worker>>
  BY DEF Expire, schema, requests
<1>2. TypeOK'
  BY <1>1, CapacityAssumption DEF IInv, TypeOK, Expire
<1>3. PoolOutlivesWork'
  BY <1>1 DEF IInv, PoolOutlivesWork
<1>4. QED
  BY <1>1, <1>2, <1>3, BusyIInv

LEMMA NextIInv == IInv /\ [Next]_vars => IInv'
<1> SUFFICES ASSUME IInv, [Next]_vars PROVE IInv'
  OBVIOUS
<1>1. CASE UNCHANGED vars
  <2>1. UNCHANGED <<version, dirty, applied, lock, at, ctl>> /\ TypeOK' /\ PoolOutlivesWork'
    BY <1>1 DEF vars, IInv, TypeOK, PoolOutlivesWork
  <2>2. QED
    BY <2>1, BusyIInv
<1>2. CASE Expire
  BY <1>2, ExpireIInv
<1>3. ASSUME NEW p \in Processes, Step(p) PROVE IInv'
  <2>1. CASE Die(p) \/ Exit(p)
    BY <2>1, VanishIInv DEF Die, Exit
  <2>2. CASE Lock(p) \/ ReadVersion(p) \/ MarkDirty(p) \/ Apply(p) \/ MarkClean(p) \/ Unlock(p)
    BY <2>2, LockIInv, ReadVersionIInv, MarkDirtyIInv, ApplyIInv, MarkCleanIInv, UnlockIInv
  <2>3. CASE Start(p) \/ CheckSchema(p) \/ Serve(p)
    BY <2>3, StartIInv
  <2>4. CASE Signal(p) \/ Accept(p) \/ Begin(p) \/ EndTransaction(p) \/ Respond(p)
    BY <2>4, RequestIInv
  <2>5. CASE DeleteBatch(p) \/ DeleteFails(p) \/ NextBatch(p) \/ TickerFires(p) \/ WorkerStops(p)
    BY <2>5, WorkerIInv
  <2>6. CASE Shutdown(p) \/ ListenerFails(p) \/ Drained(p) \/ WorkerWait(p)
    BY <2>6, StopIInv
  <2>7. QED
    BY <1>3, <2>1, <2>2, <2>3, <2>4, <2>5, <2>6 DEF Step
<1>4. QED
  BY <1>1, <1>2, <1>3 DEF Next

LEMMA SpecIInv == Spec => []IInv
BY InitIInv, NextIInv, PTL DEF Spec

-----------------------------------------------------------------------------
(* Every variable of every process keeps its type. *)
THEOREM ServerTypeCorrect == Spec => []TypeOK
<1>1. IInv => TypeOK
  BY DEF IInv
<1>2. QED
  BY <1>1, SpecIInv, PTL

(* However many processes start, are killed and start again together, each *)
(* migration runs at most once and in order, and a clean version is never  *)
(* a lie (database.RunMigrations; README.md:286).                          *)
THEOREM MigrationsRunOnce == Spec => []MigratedOnce
<1>1. IInv => MigratedOnce
  BY DEF IInv
<1>2. QED
  BY <1>1, SpecIInv, PTL

(* No process of any release serves a schema that lacks one of its         *)
(* migrations (database.CheckSchemaCurrent).                               *)
THEOREM SchemaReadyWhenServing == Spec => []ServesReadySchema
<1>1. IInv => ServesReadySchema
  BY DEF IInv
<1>2. QED
  BY <1>1, SpecIInv, PTL

(* The pool outlives the worker, and requests are only abandoned by a      *)
(* shutdown that timed out (runServerLifecycle).                           *)
THEOREM PoolClosedLast == Spec => []PoolOutlivesWork
<1>1. IInv => PoolOutlivesWork
  BY DEF IInv
<1>2. QED
  BY <1>1, SpecIInv, PTL
=============================================================================
