--------------------------- MODULE AccountsProofs ---------------------------
(***************************************************************************)
(* Proofs about Accounts, for any number of handlers, emails and rows. The *)
(* inductive invariant says what each handler knows at each step of its    *)
(* request: whose email it holds, who is calling, whether the token could  *)
(* still be good.                                                          *)
(***************************************************************************)
EXTENDS Accounts, TLAPS

(* The caller is a user, and its token was good when the request arrived.  *)
Acting(h) == mem[h].user \in users /\ ~req[h].dead

Inserting(h) ==
  \/ req[h] \in PublicRequests /\ req[h].op = "register"
  \/ /\ req[h] \in TokenRequests /\ req[h].op = "create"
     /\ Acting(h)
     /\ mem[h].body \in Bodies /\ mem[h].body.role \in Assignable(mem[h].user.role)

Committing(h) ==
  /\ req[h] \in PublicRequests
  /\ claims[req[h].email] = h
  /\ ~EmailTaken(req[h].email)

Authenticating(h) ==
  /\ req[h] \in TokenRequests /\ req[h].token <= issued
  /\ req[h].dead => ~Alive(req[h].token)

Identifying(h) ==
  /\ req[h] \in TokenRequests
  /\ mem[h].session \in Session /\ mem[h].session.token = req[h].token
  /\ req[h].dead => ~IsValid(mem[h].session, now)

Revoking(h) ==
  req[h] \in TokenRequests /\ Acting(h) /\ mem[h].session.token = req[h].token

Reading(h) ==
  /\ req[h] \in TokenRequests /\ Acting(h)
  /\ mem[h].user.role = "user" => req[h].op = "get" /\ req[h].id = mem[h].user.id

Replying(h) ==
  \A u \in mem[h].result :
    u.org = mem[h].user.org /\ (req[h].op = "get" => u.id = req[h].id)

Handling(h) ==
  /\ pc[h] = "insert" => Inserting(h)
  /\ pc[h] = "commit" => Committing(h)
  /\ pc[h] = "session" => mem[h].user \in users
  /\ pc[h] = "authenticate" => Authenticating(h)
  /\ pc[h] = "identify" => Identifying(h)
  /\ pc[h] = "revoke" => Revoking(h)
  /\ pc[h] \in {"read", "reply"} => Reading(h)
  /\ pc[h] = "reply" => Replying(h)
  /\ pc[h] # "reply" => mem[h].result = {}

IInv ==
  /\ TypeOK
  /\ OrganisationsComplete
  /\ EmailIdentifiesUser
  /\ PrivilegesDescend
  /\ cutoff # None => cutoff <= now
  /\ \A h \in Handlers : Handling(h)

-----------------------------------------------------------------------------
(* What the members of the request sets are. *)
LEMMA PublicRequestType ==
  ASSUME NEW r \in PublicRequests
  PROVE  r.op \in {"register", "login"} /\ r.email \in Emails
BY DEF PublicRequests

LEMMA TokenRequestType ==
  ASSUME NEW r \in TokenRequests
  PROVE  /\ r.token \in Tokens /\ r.dead \in BOOLEAN
         /\ r.op \in {"logout", "create", "get", "list"}
         /\ r.op = "get" => r.id \in Users
BY DEF TokenRequests

(* What a handler reads fits its memory. *)
LEMMA MemoryUpdates ==
  ASSUME NEW m \in Memory, NEW u \in User, NEW x \in Nat, NEW b \in Bodies \cup {None}
  PROVE  /\ [m EXCEPT !.user = u, !.expires = x] \in Memory
         /\ [m EXCEPT !.user = u, !.body = b] \in Memory
<1>1. [m EXCEPT !.user = u] \in Memory
  BY DEF Memory
<1>2. [m EXCEPT !.user = u, !.expires = x] = [[m EXCEPT !.user = u] EXCEPT !.expires = x]
  BY Zenon
<1>3. [m EXCEPT !.user = u, !.body = b] = [[m EXCEPT !.user = u] EXCEPT !.body = b]
  BY Zenon
<1>4. \A k \in Memory : [k EXCEPT !.expires = x] \in Memory /\ [k EXCEPT !.body = b] \in Memory
  BY DEF Memory
<1>5. QED
  BY <1>1, <1>2, <1>3, <1>4

(* What a finished handler leaves behind. *)
LEMMA FinishType ==
  ASSUME TypeOK, NEW h \in Handlers, Finish(h)
  PROVE  /\ pc' \in [Handlers -> Steps]
         /\ req' \in [Handlers -> PublicRequests \cup TokenRequests \cup {None}]
         /\ mem' \in [Handlers -> Memory]
         /\ pc'[h] = "idle" /\ mem'[h].result = {}
         /\ \A k \in Handlers \ {h} : pc'[k] = pc[k] /\ req'[k] = req[k] /\ mem'[k] = mem[k]
BY DEF TypeOK, Finish, Goto, Blank, Memory, Steps

LEMMA FinishedHandling ==
  ASSUME TypeOK, NEW h \in Handlers, Finish(h)
  PROVE  Handling(h)'
BY FinishType DEF Handling

(* What a handler knows survives what the others may do meanwhile: users   *)
(* are only added, never under an email it holds, tokens are only issued   *)
(* and a dead one stays dead.                                              *)
LEMMA HandlingStable ==
  ASSUME TypeOK, NEW k \in Handlers, Handling(k),
         pc'[k] = pc[k], req'[k] = req[k], mem'[k] = mem[k],
         users \subseteq users', issued' \in Nat, issued <= issued', now' \in Nat, now <= now',
         \A e \in Emails : claims[e] = k /\ ~EmailTaken(e) => claims'[e] = k /\ ~EmailTaken(e)',
         \A t \in Tokens : t <= issued /\ ~Alive(t) => ~Alive(t)'
  PROVE  Handling(k)'
<1>1. mem[k].user \in users => mem'[k].user \in users'
  OBVIOUS
<1>2. pc[k] = "insert" => Inserting(k)'
  BY <1>1 DEF Handling, Inserting, Acting
<1>3. pc[k] = "commit" => Committing(k)'
  BY PublicRequestType DEF Handling, Committing
<1>4. pc[k] = "authenticate" => Authenticating(k)'
  BY TokenRequestType DEF Handling, Authenticating, TypeOK, Tokens
<1>5. pc[k] = "identify" => Identifying(k)'
  BY DEF Handling, Identifying, IsValid, TypeOK, Session
<1>6. pc[k] = "revoke" => Revoking(k)'
  BY <1>1 DEF Handling, Revoking, Acting
<1>7. pc[k] \in {"read", "reply"} => Reading(k)'
  BY <1>1 DEF Handling, Reading, Acting
<1>8. pc[k] = "reply" => Replying(k)'
  BY DEF Handling, Replying
<1>9. QED
  BY <1>1, <1>2, <1>3, <1>4, <1>5, <1>6, <1>7, <1>8 DEF Handling

(* Whatever leaves the users alone, keeps or grows claims of others ...    *)
LEMMA HandlingKept ==
  ASSUME TypeOK, NEW k \in Handlers, Handling(k),
         pc'[k] = pc[k], req'[k] = req[k], mem'[k] = mem[k],
         UNCHANGED <<users, sessions, issued, now>>,
         \A e \in Emails : claims[e] = k => claims'[e] = k
  PROVE  Handling(k)'
<1>1. \A e \in Emails : claims[e] = k /\ ~EmailTaken(e) => claims'[e] = k /\ ~EmailTaken(e)'
  BY DEF EmailTaken
<1>2. \A t \in Tokens : t <= issued /\ ~Alive(t) => ~Alive(t)'
  BY DEF Alive
<1>3. QED
  BY <1>1, <1>2, HandlingStable DEF TypeOK

LEMMA RowsKept ==
  ASSUME OrganisationsComplete, EmailIdentifiesUser, PrivilegesDescend,
         UNCHANGED <<organisations, provisioned, users>>
  PROVE  OrganisationsComplete' /\ EmailIdentifiesUser' /\ PrivilegesDescend'
BY DEF OrganisationsComplete, EmailIdentifiesUser, PrivilegesDescend

(* A new user with a free email, made by somebody entitled to. *)
LEMMA UserAdded ==
  ASSUME TypeOK, EmailIdentifiesUser, PrivilegesDescend,
         NEW o \in Organisations, NEW e \in Emails, NEW r \in Roles, NEW b \in Users \cup {None},
         NewUser(o, e, r, b), ~EmailTaken(e),
         \/ b = None /\ r = "admin"
         \/ \E v \in users : v.id = b /\ v.org = o /\ r \in Assignable(v.role)
  PROVE  /\ users' \subseteq User /\ users \subseteq users'
         /\ EmailIdentifiesUser' /\ PrivilegesDescend'
         /\ \E u \in users' : u.org = o /\ u.role = r /\ u.by = b
         /\ \A u \in users' : u \in users \/ (u.org = o /\ u.email = e)
<1> DEFINE new == [id |-> Cardinality(users) + 1, org |-> o, email |-> e, role |-> r, by |-> b]
<1>1. users' = users \cup {new} /\ new \in User
  BY DEF NewUser, User
<1>2. EmailIdentifiesUser'
  BY <1>1 DEF EmailIdentifiesUser, EmailTaken
<1>3. PrivilegesDescend'
  <2>1. ASSUME NEW v \in users, v.id = b, v.org = o, r \in Assignable(v.role)
        PROVE  v.role = "admin" \/ (v.role = "manager" /\ r = "user")
    BY <2>1 DEF Assignable
  <2>2. QED
    BY <1>1, <2>1 DEF PrivilegesDescend
<1>4. QED
  BY <1>1, <1>2, <1>3 DEF TypeOK

-----------------------------------------------------------------------------
LEMMA InitIInv == Init => IInv
<1> SUFFICES ASSUME Init PROVE IInv
  OBVIOUS
<1>1. TypeOK
  BY AccountNoneAssumption, BoundAssumption DEF Init, TypeOK, Memory, Blank, Steps
<1>2. OrganisationsComplete /\ EmailIdentifiesUser /\ PrivilegesDescend
  BY DEF Init, OrganisationsComplete, EmailIdentifiesUser, PrivilegesDescend
<1>3. \A h \in Handlers : Handling(h)
  BY DEF Init, Handling, Blank
<1>4. QED
  BY <1>1, <1>2, <1>3 DEF IInv, Init

LEMMA ReceiveIInv ==
  ASSUME IInv, NEW h \in Handlers, Receive(h)
  PROVE  IInv'
<1>1. PICK r \in TokenRequests :
        /\ r.token <= issued /\ r.dead = ~Alive(r.token)
        /\ req' = [req EXCEPT ![h] = r]
  BY DEF Receive
<1>2. /\ pc' = [pc EXCEPT ![h] = "authenticate"] /\ pc[h] = "idle"
      /\ UNCHANGED <<now, cutoff, organisations, provisioned, users, sessions, issued, claims, mem>>
  BY DEF Receive, Goto, worker, tenants
<1>3. TypeOK'
  BY <1>1, <1>2 DEF IInv, TypeOK, Steps
<1>4. Handling(h)'
  BY <1>1, <1>2 DEF IInv, TypeOK, Handling, Authenticating, Alive
<1>5. \A k \in Handlers \ {h} : Handling(k)'
  BY <1>1, <1>2, HandlingKept DEF IInv, TypeOK
<1>6. QED
  BY <1>2, <1>3, <1>4, <1>5, RowsKept DEF IInv

LEMMA AbortIInv ==
  ASSUME IInv, NEW h \in Handlers, Abort(h)
  PROVE  IInv'
<1>1. /\ claims' = [e \in Emails |-> IF claims[e] = h THEN None ELSE claims[e]]
      /\ Finish(h)
      /\ UNCHANGED <<now, cutoff, organisations, provisioned, users, sessions, issued>>
  BY DEF Abort, worker, tenants
<1>2. TypeOK'
  BY <1>1, FinishType, AccountNoneAssumption DEF IInv, TypeOK
<1>3. \A k \in Handlers \ {h} : Handling(k)'
  BY <1>1, FinishType, HandlingKept DEF IInv, TypeOK
<1>4. QED
  BY <1>1, <1>2, <1>3, FinishedHandling, RowsKept DEF IInv

LEMMA InsertOrganisationIInv ==
  ASSUME IInv, NEW h \in Handlers, InsertOrganisation(h)
  PROVE  IInv'
<1>1. PICK e \in Emails : req' = [req EXCEPT ![h] = [op |-> "register", email |-> e]]
  BY DEF InsertOrganisation
<1>2. /\ pc' = [pc EXCEPT ![h] = "insert"] /\ pc[h] = "idle"
      /\ UNCHANGED <<now, cutoff, organisations, provisioned, users, sessions, issued, claims, mem>>
  BY DEF InsertOrganisation, Goto, worker, tenants
<1>3. [op |-> "register", email |-> e] \in PublicRequests
  BY DEF PublicRequests
<1>4. TypeOK'
  BY <1>1, <1>2, <1>3 DEF IInv, TypeOK, Steps
<1>5. Handling(h)'
  BY <1>1, <1>2, <1>3 DEF IInv, TypeOK, Handling, Inserting
<1>6. \A k \in Handlers \ {h} : Handling(k)'
  BY <1>1, <1>2, HandlingKept DEF IInv, TypeOK
<1>7. QED
  BY <1>2, <1>4, <1>5, <1>6, RowsKept DEF IInv

(* The email becomes the handler's: nobody else holds it, no row has it.   *)
LEMMA InsertFirstUserIInv ==
  ASSUME IInv, NEW h \in Handlers, InsertFirstUser(h)
  PROVE  IInv'
<1>1. /\ pc[h] = "insert" /\ req[h].op = "register" /\ claims[req[h].email] = None
      /\ UNCHANGED <<now, cutoff, organisations, provisioned, users, sessions, issued>>
  BY DEF InsertFirstUser, EmailFree, worker, tenants
<1>2. req[h] \in PublicRequests /\ req[h].email \in Emails
  BY <1>1, PublicRequestType, TokenRequestType DEF IInv, Handling, Inserting
<1>3. CASE EmailTaken(req[h].email)
  <2>1. Finish(h) /\ UNCHANGED claims
    BY <1>3 DEF InsertFirstUser
  <2>2. TypeOK'
    BY <1>1, <2>1, FinishType DEF IInv, TypeOK
  <2>3. \A k \in Handlers \ {h} : Handling(k)'
    BY <1>1, <2>1, FinishType, HandlingKept DEF IInv, TypeOK
  <2>4. QED
    BY <1>1, <2>1, <2>2, <2>3, FinishedHandling, RowsKept DEF IInv
<1>4. CASE ~EmailTaken(req[h].email)
  <2>1. /\ claims' = [claims EXCEPT ![req[h].email] = h]
        /\ pc' = [pc EXCEPT ![h] = "commit"]
        /\ UNCHANGED <<req, mem>>
    BY <1>4 DEF InsertFirstUser, Goto
  <2>2. TypeOK'
    BY <1>1, <1>2, <2>1, AccountNoneAssumption DEF IInv, TypeOK, Steps
  <2>3. Handling(h)'
    BY <1>1, <1>2, <1>4, <2>1 DEF IInv, TypeOK, Handling, Committing, EmailTaken
  <2>4. \A k \in Handlers \ {h} : Handling(k)'
    <3> SUFFICES ASSUME NEW k \in Handlers \ {h} PROVE Handling(k)'
      OBVIOUS
    <3>1. \A e \in Emails : claims[e] = k => claims'[e] = k
      BY <1>1, <1>2, <2>1, AccountNoneAssumption DEF IInv, TypeOK
    <3>2. QED
      BY <1>1, <2>1, <3>1, HandlingKept DEF IInv, TypeOK
  <2>5. QED
    BY <1>1, <2>2, <2>3, <2>4, RowsKept DEF IInv
<1>5. QED
  BY <1>3, <1>4

(* COMMIT of a registration: a new organisation with all its rows.         *)
LEMMA CommitRegistrationIInv ==
  ASSUME IInv, NEW h \in Handlers, CommitRegistration(h)
  PROVE  IInv'
<1> DEFINE o == Cardinality(organisations) + 1
           e == req[h].email
<1>1. /\ pc[h] = "commit" /\ o \in Organisations
      /\ organisations' = organisations \cup {o} /\ provisioned' = provisioned \cup {o}
      /\ NewUser(o, e, "admin", None)
      /\ claims' = [claims EXCEPT ![e] = None]
      /\ Finish(h)
      /\ UNCHANGED <<now, cutoff, sessions, issued>>
  BY DEF CommitRegistration, worker
<1>2. e \in Emails /\ claims[e] = h /\ ~EmailTaken(e)
  BY <1>1, PublicRequestType DEF IInv, Handling, Committing
<1>3. /\ users' \subseteq User /\ users \subseteq users'
      /\ EmailIdentifiesUser' /\ PrivilegesDescend'
      /\ \E u \in users' : u.org = o /\ u.role = "admin" /\ u.by = None
      /\ \A u \in users' : u \in users \/ (u.org = o /\ u.email = e)
  <2> HIDE DEF o, e
  <2>1. "admin" \in Roles /\ None \in Users \cup {None}
    BY DEF Roles
  <2>2. TypeOK /\ EmailIdentifiesUser /\ PrivilegesDescend
    BY DEF IInv
  <2>3. QED
    BY <1>1, <1>2, <2>1, <2>2, UserAdded
<1> HIDE DEF o, e
<1>4. TypeOK'
  BY <1>1, <1>2, <1>3, FinishType, AccountNoneAssumption DEF IInv, TypeOK
<1>5. OrganisationsComplete'
  BY <1>1, <1>3 DEF IInv, OrganisationsComplete
<1>6. \A k \in Handlers \ {h} : Handling(k)'
  <2> SUFFICES ASSUME NEW k \in Handlers \ {h} PROVE Handling(k)'
    OBVIOUS
  <2>1. \A f \in Emails : claims[f] = k /\ ~EmailTaken(f) => claims'[f] = k /\ ~EmailTaken(f)'
    BY <1>1, <1>2, <1>3 DEF IInv, TypeOK, EmailTaken
  <2>2. \A t \in Tokens : t <= issued /\ ~Alive(t) => ~Alive(t)'
    BY <1>1 DEF Alive
  <2>3. issued' \in Nat /\ issued <= issued' /\ now' \in Nat /\ now <= now'
    BY <1>1 DEF IInv, TypeOK
  <2>4. QED
    BY <1>1, <1>3, <2>1, <2>2, <2>3, FinishType, HandlingStable DEF IInv
<1>7. QED
  BY <1>1, <1>3, <1>4, <1>5, <1>6, FinishedHandling DEF IInv

LEMMA LookUpUserIInv ==
  ASSUME IInv, NEW h \in Handlers, LookUpUser(h)
  PROVE  IInv'
<1>1. PICK u \in users :
        /\ req' = [req EXCEPT ![h] = [op |-> "login", email |-> u.email]]
        /\ mem' = [mem EXCEPT ![h] = [@ EXCEPT !.user = u, !.expires = now + SessionTTL]]
  BY DEF LookUpUser
<1>2. /\ pc' = [pc EXCEPT ![h] = "session"] /\ pc[h] = "idle"
      /\ UNCHANGED <<now, cutoff, organisations, provisioned, users, sessions, issued, claims>>
  BY DEF LookUpUser, Goto, worker, tenants
<1>3. u \in User /\ [op |-> "login", email |-> u.email] \in PublicRequests /\ now + SessionTTL \in Nat
  BY TTLAssumption DEF IInv, TypeOK, PublicRequests, User
<1>4. mem' \in [Handlers -> Memory]
  <2>1. mem' = [mem EXCEPT ![h] = [mem[h] EXCEPT !.user = u, !.expires = now + SessionTTL]]
    BY <1>1 DEF IInv, TypeOK
  <2>2. [mem[h] EXCEPT !.user = u, !.expires = now + SessionTTL] \in Memory
    BY <1>3, MemoryUpdates DEF IInv, TypeOK
  <2>3. QED
    BY <2>1, <2>2 DEF IInv, TypeOK
<1>5. TypeOK'
  BY <1>1, <1>2, <1>3, <1>4 DEF IInv, TypeOK, Steps
<1>6. mem'[h].user = u /\ mem'[h].result = mem[h].result /\ pc'[h] = "session"
  BY <1>1, <1>2 DEF IInv, TypeOK, Memory
<1>7. Handling(h)'
  BY <1>2, <1>6 DEF IInv, Handling
<1>8. \A k \in Handlers \ {h} : Handling(k)'
  BY <1>1, <1>2, HandlingKept DEF IInv, TypeOK
<1>9. QED
  BY <1>2, <1>5, <1>7, <1>8, RowsKept DEF IInv

(* A new token is none of the dead ones that were issued before.           *)
LEMMA CreateSessionIInv ==
  ASSUME IInv, NEW h \in Handlers, CreateSession(h)
  PROVE  IInv'
<1>1. /\ pc[h] = "session" /\ issued < MaxSessions /\ issued' = issued + 1
      /\ sessions' = sessions \cup {NewSession(h)}
      /\ Finish(h)
      /\ UNCHANGED <<now, cutoff, organisations, provisioned, users, claims>>
  BY DEF CreateSession, worker, tenants
<1>2. issued \in Nat /\ issued' \in 0..MaxSessions /\ issued' \in Tokens
  BY <1>1, BoundAssumption DEF IInv, TypeOK, Tokens
<1>3. NewSession(h) \in Session /\ NewSession(h).token = issued + 1
  BY <1>1, <1>2 DEF IInv, TypeOK, Handling, NewSession, Session, Memory, User
<1>4. TypeOK'
  BY <1>1, <1>2, <1>3, FinishType DEF IInv, TypeOK
<1>5. \A t \in Tokens : t <= issued /\ ~Alive(t) => ~Alive(t)'
  BY <1>1, <1>2, <1>3 DEF Alive, Tokens
<1>6. \A k \in Handlers \ {h} : Handling(k)'
  <2> SUFFICES ASSUME NEW k \in Handlers \ {h} PROVE Handling(k)'
    OBVIOUS
  <2>1. \A f \in Emails : claims[f] = k /\ ~EmailTaken(f) => claims'[f] = k /\ ~EmailTaken(f)'
    BY <1>1 DEF EmailTaken
  <2>2. issued' \in Nat /\ issued <= issued' /\ now' \in Nat /\ now <= now'
    BY <1>1, <1>2 DEF IInv, TypeOK
  <2>3. QED
    BY <1>1, <1>5, <2>1, <2>2, FinishType, HandlingStable DEF IInv
<1>7. QED
  BY <1>1, <1>4, <1>6, FinishedHandling, RowsKept DEF IInv

LEMMA GetSessionIInv ==
  ASSUME IInv, NEW h \in Handlers, GetSession(h)
  PROVE  IInv'
<1>1. /\ pc[h] = "authenticate"
      /\ UNCHANGED <<now, cutoff, organisations, provisioned, users, sessions, issued, claims>>
  BY DEF GetSession, worker, tenants
<1>2. CASE Finish(h)
  <2>1. TypeOK'
    BY <1>1, <1>2, FinishType DEF IInv, TypeOK
  <2>2. \A k \in Handlers \ {h} : Handling(k)'
    BY <1>1, <1>2, FinishType, HandlingKept DEF IInv, TypeOK
  <2>3. QED
    BY <1>1, <1>2, <2>1, <2>2, FinishedHandling, RowsKept DEF IInv
<1>3. CASE ~Finish(h)
  <2>1. PICK s \in sessions :
          /\ s.token = req[h].token
          /\ mem' = [mem EXCEPT ![h].session = s]
          /\ pc' = [pc EXCEPT ![h] = "identify"]
          /\ UNCHANGED req
    BY <1>3 DEF GetSession, SessionsOf, Goto
  <2>2. s \in Session
    BY DEF IInv, TypeOK
  <2>3. mem' \in [Handlers -> Memory]
    BY <2>1, <2>2 DEF IInv, TypeOK, Memory
  <2>4. TypeOK'
    BY <1>1, <2>1, <2>3 DEF IInv, TypeOK, Steps
  <2>5. mem'[h].session = s /\ mem'[h].result = mem[h].result /\ pc'[h] = "identify"
    BY <2>1 DEF IInv, TypeOK, Memory
  <2>6. req[h].dead => ~IsValid(s, now)
    BY <1>1, <2>1 DEF IInv, Handling, Authenticating, Alive, IsValid
  <2>7. Handling(h)'
    BY <1>1, <2>1, <2>2, <2>5, <2>6 DEF IInv, Handling, Authenticating, Identifying, IsValid
  <2>8. \A k \in Handlers \ {h} : Handling(k)'
    BY <1>1, <2>1, HandlingKept DEF IInv, TypeOK
  <2>9. QED
    BY <1>1, <2>4, <2>7, <2>8, RowsKept DEF IInv
<1>4. QED
  BY <1>2, <1>3

(* A dead token fails here at the latest; who passes may do what it asks.  *)
LEMMA IdentifyIInv ==
  ASSUME IInv, NEW h \in Handlers, Identify(h)
  PROVE  IInv'
<1>1. /\ pc[h] = "identify"
      /\ UNCHANGED <<now, cutoff, organisations, provisioned, users, sessions, issued, claims>>
  BY DEF Identify, worker, tenants
<1>2. CASE Finish(h)
  <2>1. TypeOK'
    BY <1>1, <1>2, FinishType DEF IInv, TypeOK
  <2>2. \A k \in Handlers \ {h} : Handling(k)'
    BY <1>1, <1>2, FinishType, HandlingKept DEF IInv, TypeOK
  <2>3. QED
    BY <1>1, <1>2, <2>1, <2>2, FinishedHandling, RowsKept DEF IInv
<1>3. CASE ~Finish(h)
  <2> DEFINE step == CASE req[h].op = "logout" -> "revoke"
                       [] req[h].op = "create" -> "insert"
                       [] OTHER -> "read"
  <2>0. PICK u \in users :
          /\ IsValid(mem[h].session, now) /\ Permitted(h, u)
          /\ \E body \in Accepted(h, u) :
               /\ mem' = [mem EXCEPT ![h] = [@ EXCEPT !.user = u, !.body = body]]
               /\ pc' = [pc EXCEPT ![h] = step]
               /\ UNCHANGED req
    BY <1>3 DEF Identify, UsersOf, Goto
  <2>1. PICK body \in Accepted(h, u) :
          /\ IsValid(mem[h].session, now) /\ Permitted(h, u)
          /\ mem' = [mem EXCEPT ![h] = [@ EXCEPT !.user = u, !.body = body]]
          /\ pc' = [pc EXCEPT ![h] = step]
          /\ UNCHANGED req
    BY <2>0
  <2>2. /\ u \in User /\ body \in Bodies \cup {None}
        /\ Identifying(h) /\ mem[h].result = {}
    BY <1>1 DEF IInv, TypeOK, Handling, Accepted
  <2>3. step \in Steps /\ step \in {"revoke", "insert", "read"}
    BY DEF Steps
  <2>4. mem' \in [Handlers -> Memory]
    <3>1. mem' = [mem EXCEPT ![h] = [mem[h] EXCEPT !.user = u, !.body = body]]
      BY <2>1 DEF IInv, TypeOK
    <3>2. [mem[h] EXCEPT !.user = u, !.body = body] \in Memory
      BY <2>2, MemoryUpdates DEF IInv, TypeOK
    <3>3. QED
      BY <3>1, <3>2 DEF IInv, TypeOK
  <2>5. TypeOK'
    BY <1>1, <2>1, <2>3, <2>4 DEF IInv, TypeOK
  <2>6. /\ mem'[h].user = u /\ mem'[h].session = mem[h].session /\ mem'[h].result = {}
        /\ pc'[h] = step /\ mem'[h].body = body
    BY <2>1, <2>2 DEF IInv, TypeOK, Memory
  <2>7. req[h] \in TokenRequests /\ ~req[h].dead /\ mem[h].session.token = req[h].token
    BY <2>1, <2>2 DEF Identifying
  <2>8. step = "insert" => Inserting(h)'
    BY <1>1, <2>1, <2>6, <2>7, TokenRequestType DEF Inserting, Acting, Accepted
  <2>9. step = "revoke" => Revoking(h)'
    BY <1>1, <2>1, <2>6, <2>7 DEF Revoking, Acting
  <2>10. step = "read" => Reading(h)'
    <3>1. u.role = "user" /\ step = "read" => req[h].op = "get" /\ req[h].id = u.id
      BY <2>1, <2>7, TokenRequestType DEF Permitted, RoleAllowed, MayRead
    <3>2. QED
      BY <1>1, <2>1, <2>6, <2>7, <3>1 DEF Reading, Acting
  <2>11. Handling(h)'
    BY <2>3, <2>6, <2>8, <2>9, <2>10 DEF Handling
  <2>12. \A k \in Handlers \ {h} : Handling(k)'
    BY <1>1, <2>1, HandlingKept DEF IInv, TypeOK
  <2>13. QED
    BY <1>1, <2>5, <2>11, <2>12, RowsKept DEF IInv
<1>4. QED
  BY <1>2, <1>3

(* Revoking makes no token good again. *)
LEMMA RevokeIInv ==
  ASSUME IInv, NEW h \in Handlers, Revoke(h)
  PROVE  IInv'
<1>1. /\ pc[h] = "revoke"
      /\ sessions' = {IF Revoked(s, h) THEN [s EXCEPT !.revoked = TRUE] ELSE s : s \in sessions}
      /\ Finish(h)
      /\ UNCHANGED <<now, cutoff, organisations, provisioned, users, issued, claims>>
  BY DEF Revoke, worker, tenants
<1>2. \A s \in sessions' : s \in Session /\ (s \in sessions \/ s.revoked)
  <2>1. \A s \in Session : [s EXCEPT !.revoked = TRUE] \in Session
                          /\ [s EXCEPT !.revoked = TRUE].revoked
    BY DEF Session
  <2>2. SUFFICES ASSUME NEW s \in sessions' PROVE s \in Session /\ (s \in sessions \/ s.revoked)
    OBVIOUS
  <2>3. PICK t \in sessions : s = IF Revoked(t, h) THEN [t EXCEPT !.revoked = TRUE] ELSE t
    BY <1>1
  <2>4. QED
    BY <2>1, <2>3 DEF IInv, TypeOK
<1>3. TypeOK'
  BY <1>1, <1>2, FinishType DEF IInv, TypeOK
<1>4. \A t \in Tokens : t <= issued /\ ~Alive(t) => ~Alive(t)'
  BY <1>1, <1>2 DEF Alive
<1>5. \A k \in Handlers \ {h} : Handling(k)'
  <2> SUFFICES ASSUME NEW k \in Handlers \ {h} PROVE Handling(k)'
    OBVIOUS
  <2>1. \A f \in Emails : claims[f] = k /\ ~EmailTaken(f) => claims'[f] = k /\ ~EmailTaken(f)'
    BY <1>1 DEF EmailTaken
  <2>2. issued' \in Nat /\ issued <= issued' /\ now' \in Nat /\ now <= now'
    BY <1>1 DEF IInv, TypeOK
  <2>3. QED
    BY <1>1, <1>4, <2>1, <2>2, FinishType, HandlingStable DEF IInv
<1>6. QED
  BY <1>1, <1>3, <1>5, FinishedHandling, RowsKept DEF IInv

LEMMA CreateUserIInv ==
  ASSUME IInv, NEW h \in Handlers, CreateUser(h)
  PROVE  IInv'
<1>1. /\ pc[h] = "insert" /\ req[h].op = "create" /\ claims[mem[h].body.email] = None
      /\ Finish(h)
      /\ UNCHANGED <<now, cutoff, organisations, provisioned, sessions, issued, claims>>
  BY DEF CreateUser, EmailFree, worker, tenants
<1>2. CASE UNCHANGED users
  <2>1. TypeOK'
    BY <1>1, <1>2, FinishType DEF IInv, TypeOK
  <2>2. \A k \in Handlers \ {h} : Handling(k)'
    BY <1>1, <1>2, FinishType, HandlingKept DEF IInv, TypeOK
  <2>3. QED
    BY <1>1, <1>2, <2>1, <2>2, FinishedHandling, RowsKept DEF IInv
<1>3. CASE ~UNCHANGED users
  <2> DEFINE a == mem[h].user
             o == mem[h].user.org
             e == mem[h].body.email
             r == mem[h].body.role
  <2>1. ~EmailTaken(e) /\ NewUser(o, e, r, a.id)
    BY <1>3 DEF CreateUser
  <2>2. mem[h].body \in Bodies /\ a \in users /\ r \in Assignable(a.role)
    BY <1>1, PublicRequestType DEF IInv, Handling, Inserting, Acting
  <2>3. e \in Emails /\ r \in Roles
    BY <2>2 DEF Bodies
  <2>4. o \in Organisations /\ o \in organisations /\ a.id \in Users
    BY <2>2 DEF IInv, TypeOK, OrganisationsComplete, User
  <2>5. TypeOK /\ EmailIdentifiesUser /\ PrivilegesDescend
    BY DEF IInv
  <2>6. \E v \in users : v.id = a.id /\ v.org = o /\ r \in Assignable(v.role)
    BY <2>2
  <2> HIDE DEF a, o, e, r
  <2>7. /\ users' \subseteq User /\ users \subseteq users'
        /\ EmailIdentifiesUser' /\ PrivilegesDescend'
        /\ \A u \in users' : u \in users \/ (u.org = o /\ u.email = e)
    BY <2>1, <2>3, <2>4, <2>5, <2>6, UserAdded
  <2>8. TypeOK'
    BY <1>1, <2>7, FinishType DEF IInv, TypeOK
  <2>9. OrganisationsComplete'
    BY <1>1, <2>4, <2>7 DEF IInv, OrganisationsComplete
  <2>10. \A k \in Handlers \ {h} : Handling(k)'
    <3> SUFFICES ASSUME NEW k \in Handlers \ {h} PROVE Handling(k)'
      OBVIOUS
    <3>1. claims[e] = None
      BY <1>1 DEF e
    <3>2. \A f \in Emails : claims[f] = k /\ ~EmailTaken(f) => claims'[f] = k /\ ~EmailTaken(f)'
      BY <1>1, <2>7, <3>1, AccountNoneAssumption DEF EmailTaken
    <3>3. \A t \in Tokens : t <= issued /\ ~Alive(t) => ~Alive(t)'
      BY <1>1 DEF Alive
    <3>4. issued' \in Nat /\ issued <= issued' /\ now' \in Nat /\ now <= now'
      BY <1>1 DEF IInv, TypeOK
    <3>5. QED
      BY <1>1, <2>7, <3>2, <3>3, <3>4, FinishType, HandlingStable DEF IInv
  <2>11. QED
    BY <1>1, <2>7, <2>8, <2>9, <2>10, FinishedHandling DEF IInv
<1>4. QED
  BY <1>2, <1>3

LEMMA ReadUsersIInv ==
  ASSUME IInv, NEW h \in Handlers, ReadUsers(h)
  PROVE  IInv'
<1> DEFINE found == {u \in users : Visible(u, mem[h].user.org)
                                  /\ (req[h].op = "get" => u.id = req[h].id)}
<1>1. /\ pc[h] = "read" /\ pc' = [pc EXCEPT ![h] = "reply"]
      /\ mem' = [mem EXCEPT ![h].result = found]
      /\ UNCHANGED <<now, cutoff, organisations, provisioned, users, sessions, issued, claims, req>>
  BY DEF ReadUsers, Goto, worker, tenants, Visible
<1>2. found \subseteq User
  BY DEF IInv, TypeOK
<1>3. \A u \in found : u.org = mem[h].user.org /\ (req[h].op = "get" => u.id = req[h].id)
  BY DEF Visible
<1> HIDE DEF found
<1>4. mem' \in [Handlers -> Memory]
  BY <1>1, <1>2 DEF IInv, TypeOK, Memory
<1>5. TypeOK'
  BY <1>1, <1>4 DEF IInv, TypeOK, Steps
<1>6. mem'[h].user = mem[h].user /\ mem'[h].result = found /\ pc'[h] = "reply"
  BY <1>1 DEF IInv, TypeOK, Memory
<1>7. Handling(h)'
  BY <1>1, <1>3, <1>6 DEF IInv, Handling, Reading, Replying, Acting
<1>8. \A k \in Handlers \ {h} : Handling(k)'
  BY <1>1, HandlingKept DEF IInv, TypeOK
<1>9. QED
  BY <1>1, <1>5, <1>7, <1>8, RowsKept DEF IInv

LEMMA ReplyIInv ==
  ASSUME IInv, NEW h \in Handlers, Reply(h)
  PROVE  IInv'
<1>1. /\ pc[h] = "reply" /\ Finish(h)
      /\ UNCHANGED <<now, cutoff, organisations, provisioned, users, sessions, issued, claims>>
  BY DEF Reply, worker, tenants
<1>2. TypeOK'
  BY <1>1, FinishType DEF IInv, TypeOK
<1>3. \A k \in Handlers \ {h} : Handling(k)'
  BY <1>1, FinishType, HandlingKept DEF IInv, TypeOK
<1>4. QED
  BY <1>1, <1>2, <1>3, FinishedHandling, RowsKept DEF IInv

(* Time and the cleanup make no token good either. *)
LEMMA SystemIInv ==
  ASSUME IInv, Tick \/ StartBatch \/ DeleteExpired
  PROVE  IInv'
<1>1. /\ UNCHANGED <<organisations, provisioned, users, issued, claims, pc, req, mem>>
      /\ sessions' \subseteq sessions
      /\ now' \in Nat /\ now <= now'
  BY DEF IInv, TypeOK, Tick, StartBatch, DeleteExpired, tenants
<1>2. cutoff' \in Nat \cup {None} /\ (cutoff' # None => cutoff' <= now')
  BY DEF IInv, TypeOK, Tick, StartBatch, DeleteExpired
<1>3. TypeOK'
  BY <1>1, <1>2 DEF IInv, TypeOK
<1>4. \A t \in Tokens : t <= issued /\ ~Alive(t) => ~Alive(t)'
  BY <1>1 DEF IInv, TypeOK, Alive, Session
<1>5. \A k \in Handlers : Handling(k)'
  <2> SUFFICES ASSUME NEW k \in Handlers PROVE Handling(k)'
    OBVIOUS
  <2>1. \A f \in Emails : claims[f] = k /\ ~EmailTaken(f) => claims'[f] = k /\ ~EmailTaken(f)'
    BY <1>1 DEF EmailTaken
  <2>2. issued' \in Nat /\ issued <= issued'
    BY <1>1 DEF IInv, TypeOK
  <2>3. QED
    BY <1>1, <1>4, <2>1, <2>2, HandlingStable DEF IInv
<1>6. QED
  BY <1>1, <1>2, <1>3, <1>5, RowsKept DEF IInv

LEMMA NextIInv == IInv /\ [Next]_vars => IInv'
<1> SUFFICES ASSUME IInv, [Next]_vars PROVE IInv'
  OBVIOUS
<1>1. CASE UNCHANGED vars
  <2>1. /\ UNCHANGED <<now, cutoff, organisations, provisioned, users, sessions, issued, claims>>
        /\ UNCHANGED <<pc, req, mem>>
    BY <1>1 DEF vars
  <2>2. TypeOK'
    BY <2>1 DEF IInv, TypeOK
  <2>3. \A k \in Handlers : Handling(k)'
    BY <2>1, HandlingKept DEF IInv
  <2>4. QED
    BY <2>1, <2>2, <2>3, RowsKept DEF IInv
<1>2. CASE Tick \/ StartBatch \/ DeleteExpired
  BY <1>2, SystemIInv
<1>3. ASSUME NEW h \in Handlers,
             \/ Receive(h) \/ Abort(h)
             \/ InsertOrganisation(h) \/ InsertFirstUser(h) \/ CommitRegistration(h)
             \/ LookUpUser(h) \/ CreateSession(h)
             \/ GetSession(h) \/ Identify(h) \/ Revoke(h)
             \/ CreateUser(h) \/ ReadUsers(h) \/ Reply(h)
      PROVE  IInv'
  BY <1>3, ReceiveIInv, AbortIInv, InsertOrganisationIInv, InsertFirstUserIInv,
     CommitRegistrationIInv, LookUpUserIInv, CreateSessionIInv, GetSessionIInv, IdentifyIInv,
     RevokeIInv, CreateUserIInv, ReadUsersIInv, ReplyIInv
<1>4. QED
  BY <1>1, <1>2, <1>3 DEF Next

LEMMA SpecIInv == Spec => []IInv
BY InitIInv, NextIInv, PTL DEF Spec

-----------------------------------------------------------------------------
(* Values of every variable are of their type, and an email index entry is *)
(* held only by the registration that is about to commit.                  *)
THEOREM AccountsTypeCorrect == Spec => []TypeOK
<1>1. IInv => TypeOK
  BY DEF IInv
<1>2. QED
  BY <1>1, SpecIInv, PTL

(* Registration is all or nothing (RegistrationService.Register), for any  *)
(* number of concurrent registrations, failures and user creations.        *)
THEOREM RegistrationComplete == Spec => []OrganisationsComplete
<1>1. IInv => OrganisationsComplete
  BY DEF IInv
<1>2. QED
  BY <1>1, SpecIInv, PTL

(* An email names one user, though nothing looks before it inserts.        *)
THEOREM EmailsAreUnique == Spec => []EmailIdentifiesUser
<1>1. IInv => EmailIdentifiesUser
  BY DEF IInv
<1>2. QED
  BY <1>1, SpecIInv, PTL

(* Administrators and managers are made by administrators of the same      *)
(* organisation or by registering it: no sequence of requests gains more.  *)
THEOREM NoPrivilegeGained == Spec => []PrivilegesDescend
<1>1. IInv => PrivilegesDescend
  BY DEF IInv
<1>2. QED
  BY <1>1, SpecIInv, PTL

(* A token that was logged out, expired or deleted lets no request through *)
(* (AuthMiddleware.RequireAuth).                                           *)
THEOREM DeadTokensRefused == Spec => []DeadTokensStayDead
<1>1. IInv => DeadTokensStayDead
  BY PublicRequestType
     DEF IInv, DeadTokensStayDead, Authenticated, Handling, Inserting, Revoking, Reading, Acting
<1>2. QED
  BY <1>1, SpecIInv, PTL

(* Reads of users never leave the caller's organisation, and a plain user  *)
(* reads only itself (UserHandler.GetByID, List).                          *)
THEOREM ReadsAreScoped == Spec => []ReadsStayInOrganisation
<1>1. IInv => ReadsStayInOrganisation
  BY DEF IInv, ReadsStayInOrganisation, Handling, Reading, Replying
<1>2. QED
  BY <1>1, SpecIInv, PTL

(* Only its own logout or its expiry ends a session, however logouts and   *)
(* the cleanup worker interleave.                                          *)
THEOREM SessionsEndRightly == Spec => SessionsEndForAReason
<1> DEFINE Ends(s) ==
      \/ s.revoked \/ s.expires <= now
      \/ \E h \in Handlers : /\ pc[h] = "revoke" /\ req[h].token = s.token
                             /\ [s EXCEPT !.revoked = TRUE] \in sessions'
<1>1. ASSUME IInv, Next PROVE \A s \in sessions : s \notin sessions' => Ends(s)
  <2> SUFFICES ASSUME NEW s \in sessions, s \notin sessions' PROVE Ends(s)
    OBVIOUS
  <2>1. CASE DeleteExpired
    <3>1. cutoff # None /\ Disposable(s, cutoff)
      BY <2>1 DEF DeleteExpired
    <3>2. QED
      BY <1>1, <3>1 DEF IInv, TypeOK, Disposable, Session
  <2>2. ASSUME NEW h \in Handlers, Revoke(h) PROVE Ends(s)
    <3>1. /\ pc[h] = "revoke"
          /\ sessions' = {IF Revoked(t, h) THEN [t EXCEPT !.revoked = TRUE] ELSE t : t \in sessions}
      BY <2>2 DEF Revoke
    <3>2. Revoked(s, h) /\ [s EXCEPT !.revoked = TRUE] \in sessions'
      BY <3>1
    <3>3. req[h].token = s.token
      BY <1>1, <3>1, <3>2 DEF IInv, Handling, Revoking, Revoked
    <3>4. QED
      BY <3>1, <3>2, <3>3
  <2>3. ASSUME NEW h \in Handlers, CreateSession(h) PROVE FALSE
    BY <2>3 DEF CreateSession
  <2>4. \/ DeleteExpired
        \/ \E h \in Handlers : Revoke(h) \/ CreateSession(h)
        \/ UNCHANGED sessions
    BY <1>1 DEF Next, Receive, Abort, InsertOrganisation, InsertFirstUser, CommitRegistration,
                LookUpUser, GetSession, Identify, CreateUser, ReadUsers, Reply, Tick, StartBatch
  <2>5. QED
    BY <2>1, <2>2, <2>3, <2>4
<1>2. IInv /\ [Next]_vars
        => [\A s \in sessions : s \notin sessions' => Ends(s)]_vars
  BY <1>1
<1>3. QED
  BY <1>2, SpecIInv, PTL DEF Spec, SessionsEndForAReason
=============================================================================
