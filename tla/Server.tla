------------------------------- MODULE Server -------------------------------
(***************************************************************************)
(* Processes of several releases against one database: cmd/api/main.go,    *)
(* internal/database and the session cleanup worker. A process migrates or *)
(* checks the schema, opens its pool, serves and cleans up, and on SIGTERM *)
(* or a listener failure drains its requests, waits for the worker and     *)
(* closes the pool. It can be killed at any point and started again.       *)
(* Requests are only counted: other modules say what they do.              *)
(***************************************************************************)
EXTENDS Integers

CONSTANTS Processes,    \* processes of the deployment
          Commands,     \* those that are `go-invoicing migrate`
          OnStartup,    \* servers with MIGRATE_ON_STARTUP
          Latest,       \* the last migration each process embeds
          MaxVersion,   \* the last migration there is
          MaxRequests,  \* requests in flight in each process
          MaxExpired,   \* sessions that ever expire
          BatchSize,    \* WORKER_BATCH_SIZE
          None

ASSUME ReleaseAssumption ==
  /\ Commands \subseteq Processes /\ OnStartup \subseteq Processes \ Commands
  /\ MaxVersion \in Nat /\ Latest \in [Processes -> 1..MaxVersion]
ASSUME CapacityAssumption ==
  MaxRequests \in [Processes -> Nat] /\ MaxExpired \in Nat /\ BatchSize \in Nat \ {0}
ASSUME ServerNoneAssumption == None \notin Processes

VARIABLES version,    \* schema_migrations.version, 0 before the first
          dirty,      \* schema_migrations.dirty
          applied,    \* how often the body of each migration was committed
          lock,       \* who holds the advisory lock
          at,         \* the version each migrating process has got to
          ctl,        \* what each process is doing
          cancelled,  \* its root context is done
          running,    \* its handlers that hold no connection
          conns,      \* its handlers inside a transaction
          late,       \* history: its shutdown timeout expired
          worker,     \* its cleanup worker
          backlog,    \* disposable rows in sessions
          expired     \* sessions that have expired so far

vars == <<version, dirty, applied, lock, at, ctl, cancelled, running, conns, late, worker,
          backlog, expired>>
schema == <<version, dirty, applied, lock, at>>
requests == <<running, conns, late>>
table == <<backlog, expired>>

Servers == Processes \ Commands
Stopping(p) == ctl[p] \in {"draining", "waiting", "closing"}

-----------------------------------------------------------------------------
Init ==
  /\ version = 0 /\ dirty = FALSE
  /\ applied = [v \in 1..MaxVersion |-> 0]
  /\ lock = None
  /\ at = [p \in Processes |-> 0]
  /\ ctl = [p \in Processes |-> "down"]
  /\ cancelled = [p \in Processes |-> FALSE]
  /\ running = [p \in Processes |-> 0] /\ conns = [p \in Processes |-> 0]
  /\ late = [p \in Processes |-> FALSE]
  /\ worker = [p \in Processes |-> "none"]
  /\ backlog = 0 /\ expired = 0

Goto(p, step) == ctl' = [ctl EXCEPT ![p] = step]

(* The process is gone, and with it its connections and their locks.       *)
Vanish(p) ==
  /\ Goto(p, "down")
  /\ lock' = IF lock = p THEN None ELSE lock
  /\ at' = [at EXCEPT ![p] = 0]
  /\ cancelled' = [cancelled EXCEPT ![p] = FALSE]
  /\ running' = [running EXCEPT ![p] = 0]
  /\ conns' = [conns EXCEPT ![p] = 0]
  /\ late' = [late EXCEPT ![p] = FALSE]
  /\ worker' = [worker EXCEPT ![p] = "none"]
  /\ UNCHANGED <<version, dirty, applied, table>>

(* SIGKILL, a panic, or any startup step that fails with os.Exit(1).       *)
Die(p) == ctl[p] # "down" /\ Vanish(p)

(* main: signal.NotifyContext comes first. *)
Start(p) ==
  /\ ctl[p] = "down"
  /\ Goto(p, IF p \in Commands \cup OnStartup THEN "migrate" ELSE "check")
  /\ UNCHANGED <<schema, cancelled, requests, worker, table>>

(* SIGINT or SIGTERM. *)
Signal(p) ==
  /\ ctl[p] # "down" /\ ~cancelled[p]
  /\ cancelled' = [cancelled EXCEPT ![p] = TRUE]
  /\ UNCHANGED <<schema, ctl, requests, worker, table>>

-----------------------------------------------------------------------------
(* runMigrations: Up of golang-migrate, which ignores the context. *)

LockFreeMutant == TRUE
LockFree == lock = None

(* pg_advisory_lock. *)
Lock(p) ==
  /\ ctl[p] = "migrate"
  /\ LockFree
  /\ lock' = p
  /\ Goto(p, "locked")
  /\ UNCHANGED <<version, dirty, applied, at, cancelled, requests, worker, table>>

(* The version is read once, under the lock. A dirty one, or one this      *)
(* binary does not embed, is an error.                                     *)
ReadVersion(p) ==
  /\ ctl[p] = "locked"
  /\ IF dirty \/ version > Latest[p]
     THEN Vanish(p)
     ELSE /\ at' = [at EXCEPT ![p] = version]
          /\ Goto(p, "up")
          /\ UNCHANGED <<version, dirty, applied, lock, cancelled, requests, worker, table>>

(* SetVersion(next, dirty), the body as one statement, SetVersion again.   *)
MarkDirty(p) ==
  /\ ctl[p] = "up" /\ at[p] < Latest[p]
  /\ at' = [at EXCEPT ![p] = @ + 1]
  /\ version' = at[p] + 1 /\ dirty' = TRUE
  /\ Goto(p, "apply")
  /\ UNCHANGED <<applied, lock, cancelled, requests, worker, table>>

Apply(p) ==
  /\ ctl[p] = "apply"
  /\ applied' = [applied EXCEPT ![at[p]] = @ + 1]
  /\ Goto(p, "mark")
  /\ UNCHANGED <<version, dirty, lock, at, cancelled, requests, worker, table>>

MarkClean(p) ==
  /\ ctl[p] = "mark"
  /\ version' = at[p] /\ dirty' = FALSE
  /\ Goto(p, "up")
  /\ UNCHANGED <<applied, lock, at, cancelled, requests, worker, table>>

(* Everything applied, or ErrNoChange: the command is done, a server goes  *)
(* on to its pool.                                                         *)
Unlock(p) ==
  /\ ctl[p] = "up" /\ at[p] = Latest[p]
  /\ IF p \in Commands
     THEN Vanish(p)
     ELSE /\ lock' = None
          /\ at' = [at EXCEPT ![p] = 0]
          /\ Goto(p, "pool")
          /\ UNCHANGED <<version, dirty, applied, cancelled, requests, worker, table>>

(* CheckSchemaCurrent: ahead is fine, behind or dirty is not. *)
CurrentMutant(p) == version >= Latest[p]
Current(p) == ~dirty /\ version >= Latest[p]
CheckSchema(p) ==
  /\ ctl[p] = "check"
  /\ IF Current(p)
     THEN Goto(p, "pool") /\ UNCHANGED <<schema, cancelled, requests, worker, table>>
     ELSE Vanish(p)

(* NewPostgresPool pings with the root context, then the worker and the    *)
(* listener start; the worker's first iteration is immediate.              *)
Serve(p) ==
  /\ ctl[p] = "pool"
  /\ IF cancelled[p]
     THEN Vanish(p)
     ELSE /\ Goto(p, "serving")
          /\ worker' = [worker EXCEPT ![p] = "deleting"]
          /\ UNCHANGED <<schema, cancelled, requests, table>>

-----------------------------------------------------------------------------
(* Requests. *)

Accept(p) ==
  /\ ctl[p] = "serving" /\ running[p] + conns[p] < MaxRequests[p]
  /\ running' = [running EXCEPT ![p] = @ + 1]
  /\ UNCHANGED <<schema, ctl, cancelled, conns, late, worker, table>>

(* Acquires a connection; a pool that is closing refuses. *)
Begin(p) ==
  /\ running[p] > 0 /\ ctl[p] # "closing"
  /\ running' = [running EXCEPT ![p] = @ - 1]
  /\ conns' = [conns EXCEPT ![p] = @ + 1]
  /\ UNCHANGED <<schema, ctl, cancelled, late, worker, table>>

(* COMMIT or ROLLBACK gives the connection back; the response follows.     *)
EndTransaction(p) ==
  /\ conns[p] > 0
  /\ conns' = [conns EXCEPT ![p] = @ - 1]
  /\ running' = [running EXCEPT ![p] = @ + 1]
  /\ UNCHANGED <<schema, ctl, cancelled, late, worker, table>>

Respond(p) ==
  /\ running[p] > 0
  /\ running' = [running EXCEPT ![p] = @ - 1]
  /\ UNCHANGED <<schema, ctl, cancelled, conns, late, worker, table>>

-----------------------------------------------------------------------------
(* SessionCleanupWorker. *)

Expire ==
  /\ expired < MaxExpired
  /\ expired' = expired + 1
  /\ backlog' = backlog + 1
  /\ UNCHANGED <<schema, ctl, cancelled, requests, worker>>

(* DeleteExpired: a full batch means there may be more. A statement that   *)
(* was already running may succeed although the context is done.           *)
DeleteBatch(p) ==
  /\ worker[p] = "deleting"
  /\ IF backlog < BatchSize
     THEN backlog' = 0 /\ worker' = [worker EXCEPT ![p] = "select"]
     ELSE backlog' = backlog - BatchSize /\ worker' = [worker EXCEPT ![p] = "between"]
  /\ UNCHANGED <<schema, ctl, cancelled, requests, expired>>

(* An error, or a batch that another worker has emptied meanwhile, ends the *)
(* iteration; the next tick tries again.                                   *)
DeleteFailsMutant(p) ==
  /\ worker[p] = "deleting"
  /\ worker' = [worker EXCEPT ![p] = "stopped"]
  /\ UNCHANGED <<schema, ctl, cancelled, requests, table>>
DeleteFails(p) ==
  /\ worker[p] = "deleting"
  /\ worker' = [worker EXCEPT ![p] = "select"]
  /\ UNCHANGED <<schema, ctl, cancelled, requests, table>>

(* ctx.Err() between two batches. *)
NextBatch(p) ==
  /\ worker[p] = "between"
  /\ worker' = [worker EXCEPT ![p] = IF cancelled[p] THEN "select" ELSE "deleting"]
  /\ UNCHANGED <<schema, ctl, cancelled, requests, table>>

(* The two cases of Run's select. *)
TickerFires(p) ==
  /\ worker[p] = "select"
  /\ worker' = [worker EXCEPT ![p] = "deleting"]
  /\ UNCHANGED <<schema, ctl, cancelled, requests, table>>

WorkerStops(p) ==
  /\ worker[p] = "select" /\ cancelled[p]
  /\ worker' = [worker EXCEPT ![p] = "stopped"]
  /\ UNCHANGED <<schema, ctl, cancelled, requests, table>>

-----------------------------------------------------------------------------
(* runServerLifecycle. *)

(* <-ctx.Done(): Shutdown closes the listener. *)
Shutdown(p) ==
  /\ ctl[p] = "serving" /\ cancelled[p]
  /\ Goto(p, "draining")
  /\ UNCHANGED <<schema, cancelled, requests, worker, table>>

(* <-serverErrCh: the listener failed on its own, so stop(). *)
ListenerFailsMutant(p) ==
  /\ ctl[p] = "serving"
  /\ Goto(p, "draining")
  /\ UNCHANGED <<schema, cancelled, requests, worker, table>>
ListenerFails(p) ==
  /\ ctl[p] = "serving"
  /\ cancelled' = [cancelled EXCEPT ![p] = TRUE]
  /\ Goto(p, "draining")
  /\ UNCHANGED <<schema, requests, worker, table>>

(* Shutdown returns when no request is left or after shutdownTimeout.      *)
Drained(p) ==
  /\ ctl[p] = "draining"
  /\ late' = [late EXCEPT ![p] = running[p] + conns[p] > 0]
  /\ Goto(p, "waiting")
  /\ UNCHANGED <<schema, cancelled, running, conns, worker, table>>

(* workerWait; then main returns and db.Close runs. *)
WorkerDoneMutant(p) == TRUE
WorkerDone(p) == worker[p] = "stopped"
WorkerWait(p) ==
  /\ ctl[p] = "waiting"
  /\ WorkerDone(p)
  /\ Goto(p, "closing")
  /\ UNCHANGED <<schema, cancelled, requests, worker, table>>

(* pgxpool.Close waits for every connection, and the process exits. *)
Exit(p) == ctl[p] = "closing" /\ conns[p] = 0 /\ Vanish(p)

Step(p) ==
  \/ Die(p) \/ Start(p) \/ Signal(p)
  \/ Lock(p) \/ ReadVersion(p) \/ MarkDirty(p) \/ Apply(p) \/ MarkClean(p) \/ Unlock(p)
  \/ CheckSchema(p) \/ Serve(p)
  \/ Accept(p) \/ Begin(p) \/ EndTransaction(p) \/ Respond(p)
  \/ DeleteBatch(p) \/ DeleteFails(p) \/ NextBatch(p) \/ TickerFires(p) \/ WorkerStops(p)
  \/ Shutdown(p) \/ ListenerFails(p) \/ Drained(p) \/ WorkerWait(p) \/ Exit(p)

Next == Expire \/ \E p \in Processes : Step(p)

(* The runtime schedules main and the worker's goroutine, transactions end *)
(* and shutdownTimeout passes. SF: select chooses at random between cases  *)
(* that are ready, and the database does not fail every cleanup.           *)
MainGoesOn(p) == Shutdown(p) \/ Drained(p) \/ WorkerWait(p) \/ Exit(p)
WorkerGoesOn(p) == DeleteBatch(p) \/ DeleteFails(p) \/ NextBatch(p) \/ TickerFires(p)
Fairness ==
  \A p \in Servers :
    /\ WF_vars(MainGoesOn(p)) /\ WF_vars(WorkerGoesOn(p)) /\ WF_vars(EndTransaction(p))
    /\ SF_vars(WorkerStops(p)) /\ SF_vars(DeleteBatch(p))

Spec == Init /\ [][Next]_vars /\ Fairness

-----------------------------------------------------------------------------
TypeOK ==
  /\ version \in 0..MaxVersion /\ dirty \in BOOLEAN
  /\ applied \in [1..MaxVersion -> Nat]
  /\ lock \in Processes \cup {None}
  /\ at \in [Processes -> 0..MaxVersion]
  /\ ctl \in [Processes -> {"down", "migrate", "locked", "up", "apply", "mark", "check", "pool",
                            "serving", "draining", "waiting", "closing"}]
  /\ cancelled \in [Processes -> BOOLEAN]
  /\ running \in [Processes -> Nat] /\ conns \in [Processes -> Nat]
  /\ late \in [Processes -> BOOLEAN]
  /\ worker \in [Processes -> {"none", "deleting", "between", "select", "stopped"}]
  /\ backlog \in Nat /\ expired \in 0..MaxExpired

(* README.md:286: processes that start together apply each migration       *)
(* exactly once, in order; and a process killed in the middle leaves a     *)
(* clean version only if that version is really there.                     *)
MigratedOnce ==
  \A v \in 1..MaxVersion :
    /\ v < version => applied[v] = 1
    /\ v = version => applied[v] \in (IF dirty THEN {0, 1} ELSE {1})
    /\ v > version => applied[v] = 0

(* Whoever migrates, fails or is killed meanwhile: a process that opened   *)
(* its pool finds every migration it embeds in the schema.                 *)
ServesReadySchema ==
  \A p \in Processes :
    ctl[p] \in {"pool", "serving", "draining", "waiting", "closing"} =>
      \A v \in 1..Latest[p] : applied[v] = 1

(* The pool is closed after the worker's last statement, and a shutdown    *)
(* gets past its drain with a request left only if its timeout expired.    *)
PoolOutlivesWork ==
  \A p \in Processes :
    /\ worker[p] \notin {"none", "stopped"} => ctl[p] \in {"serving", "draining", "waiting"}
    /\ running[p] + conns[p] > 0 /\ ctl[p] \in {"waiting", "closing"} => late[p]

(* A shutdown that began ends, whichever request or batch is under way. *)
ShutdownEnds == \A p \in Servers : Stopping(p) ~> ctl[p] = "down"

(* Expired sessions are deleted as long as one process keeps serving,      *)
(* through failing statements and backlogs larger than a batch (sessions   *)
(* stop expiring at MaxExpired).                                           *)
BacklogDrained ==
  \A p \in Servers : backlog > 0 /\ ctl[p] = "serving" ~> backlog = 0 \/ ctl[p] # "serving"
=============================================================================
