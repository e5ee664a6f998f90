------------------------------ MODULE Accounts ------------------------------
(***************************************************************************)
(* Organisations, users and sessions (internal/administration). Anonymous  *)
(* clients register and log in; bearer tokens authenticate every other     *)
(* request, of which this module follows logout, creating a user and       *)
(* reading users. The cleanup worker deletes dead sessions meanwhile. A    *)
(* step is one SQL statement with the Go code up to the next one; the      *)
(* statements of one transaction that nobody else can see are one step.    *)
(* Fresh UUIDs and tokens are numbered in the order they are committed.    *)
(* users.is_active is left out: nothing in the program ever clears it.     *)
(***************************************************************************)
EXTENDS Integers, FiniteSets

CONSTANTS Handlers,       \* handler goroutines
          Emails,         \* normalised email addresses
          SessionTTL,     \* session lifetime in clock ticks
          BatchSize,      \* WORKER_BATCH_SIZE
          MaxOrganisations, MaxUsers, MaxSessions,  \* bounds on what is ever created
          MaxTime,        \* the clock stops here
          None

ASSUME TTLAssumption == SessionTTL \in Nat \ {0}
ASSUME BatchAssumption == BatchSize \in Nat \ {0}
ASSUME BoundAssumption == MaxOrganisations \in Nat /\ MaxUsers \in Nat /\ MaxSessions \in Nat
ASSUME AccountNoneAssumption == None \notin Nat \cup Handlers

Organisations == 1..MaxOrganisations
Users == 1..MaxUsers
Tokens == 1..MaxSessions    \* a token stands for its hash and its session's ID

Roles == {"admin", "manager", "user"}

(* by is a history field: the user whose request created the row.          *)
User == [id : Users, org : Organisations, email : Emails, role : Roles, by : Users \cup {None}]
Session == [token : Tokens, user : Users, expires : Nat, revoked : BOOLEAN]

(* A request; dead is history: its token could not authenticate any more   *)
(* when it arrived.                                                        *)
PublicRequests == [op : {"register", "login"}, email : Emails]
TokenRequests ==
  [op : {"logout", "create", "list"}, token : Tokens, dead : BOOLEAN]
    \cup [op : {"get"}, token : Tokens, dead : BOOLEAN, id : Users]
Bodies == [email : Emails, role : Roles]    \* of POST /users

VARIABLES now,            \* the server's clock
          organisations,  \* organisations rows
          provisioned,    \* organisation_ids with a settings row and a Classic template
          users,          \* users rows
          sessions,       \* sessions rows
          issued,         \* how many tokens were generated
          claims,         \* email index entries of open transactions
          cutoff,         \* the worker's time.Now(), None between batches
          pc,             \* the next step of each handler
          req,            \* the request each handler serves
          mem             \* what each handler has read

vars == <<now, organisations, provisioned, users, sessions, issued, claims, cutoff, pc, req, mem>>
tenants == <<organisations, provisioned>>
worker == <<now, cutoff>>

Blank == [user |-> None, session |-> None, expires |-> 0, body |-> None, result |-> {}]

-----------------------------------------------------------------------------
(* IsValid: neither revoked nor expired. *)
IsValidMutant(s, t) == t < s.expires
IsValid(s, t) == ~s.revoked /\ t < s.expires

(* The sessions DeleteExpired may pick. *)
DisposableMutant(s, t) == s.revoked \/ s.expires <= t + 1
Disposable(s, t) == s.revoked \/ s.expires <= t

(* The queries by token hash and by primary key. *)
SessionsOf(token) == {s \in sessions : s.token = token}
UsersOf(s) == {u \in users : u.id = s.user}

(* RequireRole in front of the user routes. *)
RoleAllowed(role, op) == op \in {"create", "list"} => role \in {"admin", "manager"}

(* UserHandler.GetByID: oneself, or another as admin or manager. *)
MayRead(u, id) == id = u.id \/ u.role \in {"admin", "manager"}

(* UserService.Create: the roles an actor may assign. *)
Assignable(role) == CASE role = "admin"   -> Roles
                      [] role = "manager" -> {"user"}
                      [] OTHER            -> {}

(* No open transaction holds the index entry. *)
EmailFreeMutant(email) == TRUE
EmailFree(email) == claims[email] = None
EmailTaken(email) == \E u \in users : u.email = email

(* History: the token names a session that may still authenticate.         *)
Alive(token) == \E s \in sessions : s.token = token /\ ~s.revoked /\ now < s.expires

-----------------------------------------------------------------------------
Init ==
  /\ now = 0
  /\ organisations = {} /\ provisioned = {}
  /\ users = {} /\ sessions = {}
  /\ issued = 0
  /\ claims = [e \in Emails |-> None]
  /\ cutoff = None
  /\ pc = [h \in Handlers |-> "idle"]
  /\ req = [h \in Handlers |-> None]
  /\ mem = [h \in Handlers |-> Blank]

Goto(h, step) == pc' = [pc EXCEPT ![h] = step]

Finish(h) ==
  /\ Goto(h, "idle")
  /\ req' = [req EXCEPT ![h] = None]
  /\ mem' = [mem EXCEPT ![h] = Blank]

(* A request with a bearer token. *)
Receive(h) ==
  /\ pc[h] = "idle"
  /\ \E r \in TokenRequests :
       /\ r.token <= issued
       /\ r.dead = ~Alive(r.token)
       /\ req' = [req EXCEPT ![h] = r]
  /\ Goto(h, "authenticate")
  /\ UNCHANGED <<worker, tenants, users, sessions, issued, claims, mem>>

(* A statement fails, the client goes away or the process dies: PostgreSQL *)
(* rolls the open transaction back.                                        *)
AbortMutant(h) ==
  /\ pc[h] # "idle"
  /\ Finish(h)
  /\ UNCHANGED <<worker, tenants, users, sessions, issued, claims>>
Abort(h) ==
  /\ pc[h] # "idle"
  /\ claims' = [e \in Emails |-> IF claims[e] = h THEN None ELSE claims[e]]
  /\ Finish(h)
  /\ UNCHANGED <<worker, tenants, users, sessions, issued>>

-----------------------------------------------------------------------------
(* Register. *)

(* Validation; BEGIN; INSERT organisation, settings, Classic template: rows *)
(* of a new organisation that nobody else sees.                            *)
InsertOrganisationMutant(h) ==
  /\ pc[h] = "idle"
  /\ Cardinality(organisations) + 1 \in Organisations
  /\ organisations' = organisations \cup {Cardinality(organisations) + 1}
  /\ \E e \in Emails : req' = [req EXCEPT ![h] = [op |-> "register", email |-> e]]
  /\ Goto(h, "insert")
  /\ UNCHANGED <<worker, provisioned, users, sessions, issued, claims, mem>>
InsertOrganisation(h) ==
  /\ pc[h] = "idle"
  /\ \E e \in Emails : req' = [req EXCEPT ![h] = [op |-> "register", email |-> e]]
  /\ Goto(h, "insert")
  /\ UNCHANGED <<worker, tenants, users, sessions, issued, claims, mem>>

(* INSERT INTO users: a committed duplicate is ErrUserEmailAlreadyExists   *)
(* and rolls the registration back; an uncommitted one of another          *)
(* transaction makes the statement wait for it.                            *)
InsertFirstUser(h) ==
  /\ pc[h] = "insert"
  /\ req[h].op = "register"
  /\ EmailFree(req[h].email)
  /\ IF EmailTaken(req[h].email)
     THEN Finish(h) /\ UNCHANGED claims
     ELSE /\ claims' = [claims EXCEPT ![req[h].email] = h]
          /\ Goto(h, "commit")
          /\ UNCHANGED <<req, mem>>
  /\ UNCHANGED <<worker, tenants, users, sessions, issued>>

NewUser(org, email, role, by) ==
  LET id == Cardinality(users) + 1
  IN  /\ id \in Users
      /\ users' = users \cup {[id |-> id, org |-> org, email |-> email, role |-> role, by |-> by]}

(* COMMIT publishes all four rows. *)
CommitRegistration(h) ==
  /\ pc[h] = "commit"
  /\ LET org == Cardinality(organisations) + 1 IN
       /\ org \in Organisations
       /\ organisations' = organisations \cup {org}
       /\ provisioned' = provisioned \cup {org}
       /\ NewUser(org, req[h].email, "admin", None)
  /\ claims' = [claims EXCEPT ![req[h].email] = None]
  /\ Finish(h)
  /\ UNCHANGED <<worker, sessions, issued>>

-----------------------------------------------------------------------------
(* Login. *)

(* GetByEmail and the password. Unknown email or wrong password: refused,  *)
(* and nothing changes.                                                    *)
LookUpUser(h) ==
  /\ pc[h] = "idle"
  /\ \E u \in users :
       /\ req' = [req EXCEPT ![h] = [op |-> "login", email |-> u.email]]
       /\ mem' = [mem EXCEPT ![h] = [@ EXCEPT !.user = u, !.expires = now + SessionTTL]]
  /\ Goto(h, "session")
  /\ UNCHANGED <<worker, tenants, users, sessions, issued, claims>>

NewSession(h) ==
  [token |-> issued + 1, user |-> mem[h].user.id, expires |-> mem[h].expires, revoked |-> FALSE]

(* BEGIN; INSERT session; UPDATE last_login; COMMIT. *)
CreateSession(h) ==
  /\ pc[h] = "session"
  /\ issued < MaxSessions
  /\ issued' = issued + 1
  /\ sessions' = sessions \cup {NewSession(h)}
  /\ Finish(h)
  /\ UNCHANGED <<worker, tenants, users, claims>>

-----------------------------------------------------------------------------
(* RequireAuth. *)

(* GetByTokenHash returns the row whatever its validity. *)
GetSession(h) ==
  /\ pc[h] = "authenticate"
  /\ \/ \E s \in SessionsOf(req[h].token) :
          /\ mem' = [mem EXCEPT ![h].session = s]
          /\ Goto(h, "identify")
          /\ UNCHANGED req
     \/ /\ SessionsOf(req[h].token) = {}
        /\ Finish(h)
  /\ UNCHANGED <<worker, tenants, users, sessions, issued, claims>>

(* RequireRole, and what UserHandler.GetByID lets the caller read.         *)
Permitted(h, u) ==
  RoleAllowed(u.role, req[h].op) /\ (req[h].op = "get" => MayRead(u, req[h].id))

(* What a caller may send: POST /users has a valid body with a role that   *)
(* the caller may assign.                                                  *)
Accepted(h, u) ==
  IF req[h].op = "create" THEN {b \in Bodies : b.role \in Assignable(u.role)} ELSE {None}

(* IsValid on the row read earlier and GetByIDForAuthentication, then what *)
(* the caller may do. The body is decoded only now.                        *)
Identify(h) ==
  /\ pc[h] = "identify"
  /\ LET callers == {u \in UsersOf(mem[h].session) :
                       IsValid(mem[h].session, now) /\ Permitted(h, u)}
     IN  \/ \E u \in callers : \E body \in Accepted(h, u) :
              /\ mem' = [mem EXCEPT ![h] = [@ EXCEPT !.user = u, !.body = body]]
              /\ Goto(h, CASE req[h].op = "logout" -> "revoke"
                           [] req[h].op = "create" -> "insert"
                           [] OTHER -> "read")
              /\ UNCHANGED req
         \/ /\ \/ callers = {}
               \/ req[h].op = "create" /\ \E u \in callers : Assignable(u.role) # Roles
            /\ Finish(h)
  /\ UNCHANGED <<worker, tenants, users, sessions, issued, claims>>

Authenticated(h) ==
  pc[h] \in {"revoke", "read", "reply"} \/ (pc[h] = "insert" /\ req[h].op = "create")

(* Revoke: UPDATE ... WHERE id, of the one session the token resolved to;  *)
(* none left means ErrSessionNotFound. Again is a later revoked_at.        *)
RevokedMutant(s, h) == s.user = mem[h].user.id
Revoked(s, h) == s.token = mem[h].session.token
Revoke(h) ==
  /\ pc[h] = "revoke"
  /\ sessions' = {IF Revoked(s, h) THEN [s EXCEPT !.revoked = TRUE] ELSE s : s \in sessions}
  /\ Finish(h)
  /\ UNCHANGED <<worker, tenants, users, issued, claims>>

(* UserService.Create: the organisation exists, INSERT on the pool. *)
CreateUser(h) ==
  /\ pc[h] = "insert"
  /\ req[h].op = "create"
  /\ EmailFree(mem[h].body.email)
  /\ IF EmailTaken(mem[h].body.email)
     THEN UNCHANGED users
     ELSE NewUser(mem[h].user.org, mem[h].body.email, mem[h].body.role, mem[h].user.id)
  /\ Finish(h)
  /\ UNCHANGED <<worker, tenants, sessions, issued, claims>>

(* GetByID and List, scoped by the caller's organisation. *)
VisibleMutant(u, org) == TRUE
Visible(u, org) == u.org = org
ReadUsers(h) ==
  /\ pc[h] = "read"
  /\ mem' = [mem EXCEPT ![h].result =
               {u \in users : Visible(u, mem[h].user.org) /\ (req[h].op = "get" => u.id = req[h].id)}]
  /\ Goto(h, "reply")
  /\ UNCHANGED <<worker, tenants, users, sessions, issued, claims, req>>

Reply(h) ==
  /\ pc[h] = "reply"
  /\ Finish(h)
  /\ UNCHANGED <<worker, tenants, users, sessions, issued, claims>>

-----------------------------------------------------------------------------
(* The rest of the system. *)

Tick ==
  /\ now < MaxTime
  /\ now' = now + 1
  /\ UNCHANGED <<tenants, users, sessions, issued, claims, cutoff, pc, req, mem>>

(* runIteration: time.Now(), then one DELETE of at most BatchSize rows.    *)
StartBatch ==
  /\ cutoff = None
  /\ cutoff' = now
  /\ UNCHANGED <<now, tenants, users, sessions, issued, claims, pc, req, mem>>

DeleteExpired ==
  /\ cutoff # None
  /\ LET dead == {s \in sessions : Disposable(s, cutoff)} IN
     \E batch \in SUBSET dead :
       /\ Cardinality(batch) <= BatchSize
       /\ Cardinality(batch) = BatchSize \/ batch = dead
       /\ sessions' = sessions \ batch
  /\ cutoff' = None
  /\ UNCHANGED <<now, tenants, users, issued, claims, pc, req, mem>>

Next ==
  \/ \E h \in Handlers :
       \/ Receive(h) \/ Abort(h)
       \/ InsertOrganisation(h) \/ InsertFirstUser(h) \/ CommitRegistration(h)
       \/ LookUpUser(h) \/ CreateSession(h)
       \/ GetSession(h) \/ Identify(h) \/ Revoke(h)
       \/ CreateUser(h) \/ ReadUsers(h) \/ Reply(h)
  \/ Tick \/ StartBatch \/ DeleteExpired

Spec == Init /\ [][Next]_vars

-----------------------------------------------------------------------------
Steps == {"idle", "insert", "commit", "session", "authenticate", "identify",
          "revoke", "read", "reply"}
Memory == [user : User \cup {None}, session : Session \cup {None},
           expires : Nat, body : Bodies \cup {None}, result : SUBSET User]

(* Types, and a transaction holds an email index entry only while it runs. *)
TypeOK ==
  /\ now \in Nat
  /\ organisations \subseteq Organisations /\ provisioned \subseteq Organisations
  /\ users \subseteq User /\ sessions \subseteq Session
  /\ issued \in 0..MaxSessions
  /\ claims \in [Emails -> Handlers \cup {None}]
  /\ \A e \in Emails, h \in Handlers : claims[e] = h => pc[h] = "commit" /\ req[h].email = e
  /\ cutoff \in Nat \cup {None}
  /\ pc \in [Handlers -> Steps]
  /\ req \in [Handlers -> PublicRequests \cup TokenRequests \cup {None}]
  /\ mem \in [Handlers -> Memory]

(* An organisation exists only with its settings, its Classic template and *)
(* an administrator, whoever registers the same email at the same time and *)
(* whichever statement fails (RegistrationService.Register).               *)
OrganisationsComplete ==
  /\ provisioned = organisations
  /\ \A o \in organisations : \E u \in users : u.org = o /\ u.role = "admin" /\ u.by = None
  /\ \A u \in users : u.org \in organisations

(* An email names one user, so Login can never pick the wrong one, although *)
(* nobody looks before inserting and registrations overlap.                 *)
EmailIdentifiesUser == \A u, v \in users : u.email = v.email => u = v

(* A token that was logged out, expired or deleted when a request arrived  *)
(* never lets that request through, whatever the worker deletes and        *)
(* however late the checks run.                                            *)
DeadTokensStayDead == \A h \in Handlers : Authenticated(h) => ~req[h].dead

(* A session ends by its own logout or by expiring: not by another         *)
(* session's logout and not by a cleanup that runs early or late.          *)
SessionsEndForAReason ==
  [][\A s \in sessions : s \notin sessions' =>
       \/ s.revoked \/ s.expires <= now
       \/ \E h \in Handlers : /\ pc[h] = "revoke" /\ req[h].token = s.token
                              /\ [s EXCEPT !.revoked = TRUE] \in sessions']_vars

(* Every account descends from its organisation's registration, and no     *)
(* chain of creations gains privileges: administrators and managers are    *)
(* made by administrators of the same organisation.                        *)
PrivilegesDescend ==
  \A u \in users :
    \/ u.by = None /\ u.role = "admin"
    \/ \E v \in users : /\ v.id = u.by /\ v.org = u.org
                        /\ v.role = "admin" \/ (v.role = "manager" /\ u.role = "user")

(* What a request reads about users is its own organisation's, and only    *)
(* its own record when its role is user.                                   *)
ReadsStayInOrganisation ==
  \A h \in Handlers : \A u \in mem[h].result :
    /\ u.org = mem[h].user.org
    /\ mem[h].user.role = "user" => u.id = mem[h].user.id
=============================================================================
