-------------------------- MODULE InvoiceTemplates --------------------------
(***************************************************************************)
(* The invoice templates of one organisation (internal/template) and the   *)
(* concurrent requests that create, edit, delete and select them. Delete   *)
(* runs its statements in one READ COMMITTED transaction; SetDefault and   *)
(* Update run theirs one by one, each committing by itself. An UPDATE      *)
(* picks its rows from what is committed when it starts, waits for the     *)
(* rows another transaction has written, and then evaluates its WHERE      *)
(* again; invoice_templates_one_default_per_org is a partial unique index, *)
(* checked as each statement writes.                                       *)
(***************************************************************************)
EXTENDS Integers, FiniteSets

CONSTANTS Workers,     \* handler goroutines
          Customs,     \* templates users create
          Classic,     \* the system template, the default from registration on
          Contents,    \* names and definitions a template may have
          MaxVersion,  \* bounds how often TLC edits a template
          Unlocked,    \* no transaction has written the row
          None         \* no request, nothing fetched

ASSUME IdAssumption   == Classic \notin Customs /\ Contents # {} /\ MaxVersion \in Nat \ {0}
ASSUME NullAssumption == Unlocked \notin Workers

Ids == Customs \cup {Classic}
Row == [state : {"absent", "live", "deleted"}, isDefault : BOOLEAN,
        version : 1 .. MaxVersion, content : Contents]
Requests == [op : {"create", "delete", "setDefault", "update"}, id : Ids]

VARIABLES
  rows,     \* the committed rows of invoice_templates
  pending,  \* the row a transaction that has locked it will commit
  lock,     \* the worker whose transaction has written a row
  pc,       \* the next statement of each worker
  req,      \* the request each worker is serving
  saw,      \* existing.IsDefault, as Delete read it
  targets,  \* the rows an unset found when it started
  fetched   \* the version and content a client read before it edits

vars == <<rows, pending, lock, pc, req, saw, targets, fetched>>

Steps == {"idle", "load", "softDelete", "scan", "unset", "set", "index", "save", "commit"}

Init ==
  /\ \E c \in Contents :
       rows = [t \in Ids |-> [state |-> IF t = Classic THEN "live" ELSE "absent",
                              isDefault |-> t = Classic, version |-> 1, content |-> c]]
  /\ pending = rows
  /\ lock = [t \in Ids |-> Unlocked]
  /\ pc = [w \in Workers |-> "idle"]
  /\ req = [w \in Workers |-> None]
  /\ saw = [w \in Workers |-> FALSE]
  /\ targets = [w \in Workers |-> {}]
  /\ fetched = [w \in Workers |-> None]

-----------------------------------------------------------------------------
(* A definition whose name ends in Mutant is a bug planted to show that a  *)
(* property would notice it: no specification uses it.                     *)

(* WHERE deleted_at IS NULL *)
Live(r) == r.state = "live"

(* WHERE is_default = TRUE AND deleted_at IS NULL *)
LiveDefault(r) == Live(r) /\ r.isDefault

(* A transaction sees what is committed and what it has written itself. *)
View(w, t) == IF lock[t] = w THEN pending[t] ELSE rows[t]

SystemMutant(t) == FALSE
System(t) == t = Classic

(* Only Delete opens a transaction. *)
InTxMutant(w) == FALSE
InTx(w) == req[w].op = "delete"

(* The template to make the default: Classic when Delete hands over. *)
Goal(w) == IF InTx(w) THEN Classic ELSE req[w].id

Edited(r, c) == [r EXCEPT !.version = @ + 1, !.content = c]

VersionMatchesMutant(r, version) == TRUE
VersionMatches(r, version) == r.version = version

(* What the unique index makes a writer of t's is_default wait for: a row  *)
(* another transaction has written whose entry it cannot judge yet.        *)
IndexBusy(w, t) ==
  {u \in Ids \ {t} :
     /\ lock[u] \notin {Unlocked, w}
     /\ LiveDefault(rows[u]) \/ (LiveDefault(pending[u]) /\ pc[lock[u]] = "commit")}

UniqueViolationMutant(w, t) == FALSE
UniqueViolation(w, t) == \E u \in Ids \ {t} : LiveDefault(View(w, u))

-----------------------------------------------------------------------------
(* How a request ends, and how a statement writes. *)

Done(w) ==
  /\ pc' = [pc EXCEPT ![w] = "idle"]
  /\ req' = [req EXCEPT ![w] = None]
  /\ saw' = [saw EXCEPT ![w] = FALSE]
  /\ targets' = [targets EXCEPT ![w] = {}]
  /\ fetched' = [fetched EXCEPT ![w] = None]

Release(w) == lock' = [t \in Ids |-> IF lock[t] = w THEN Unlocked ELSE lock[t]]

(* An early return or an error: what the statement or the transaction in   *)
(* progress has written is undone, what has committed by itself is not.    *)
Rollback(w) ==
  /\ pending' = [t \in Ids |-> IF lock[t] = w THEN rows[t] ELSE pending[t]]
  /\ Release(w)
  /\ Done(w)
  /\ UNCHANGED rows

Install(w) ==
  /\ rows' = [t \in Ids |-> View(w, t)]
  /\ Release(w)
  /\ UNCHANGED pending

(* A finished UPDATE that gives the rows in DOMAIN new their new values:   *)
(* kept back until COMMIT in a transaction, visible at once without one.   *)
Write(w, new) ==
  /\ pending' = [t \in Ids |-> IF t \in DOMAIN new THEN new[t] ELSE pending[t]]
  /\ IF InTx(w)
       THEN /\ lock' = [t \in Ids |-> IF t \in DOMAIN new THEN w ELSE lock[t]]
            /\ UNCHANGED rows
       ELSE /\ rows' = [t \in Ids |-> IF t \in DOMAIN new THEN new[t] ELSE rows[t]]
            /\ UNCHANGED lock

Goto(w, step) == pc' = [pc EXCEPT ![w] = step]

-----------------------------------------------------------------------------
(* A request arrives; one that edits carries the ETag of an earlier GET. *)
Receive(w) ==
  /\ pc[w] = "idle"
  /\ \E r \in Requests :
       /\ r.op = "create" => r.id \in Customs
       /\ \/ /\ r.op = "update"
             /\ Live(rows[r.id])
             /\ fetched' = [fetched EXCEPT ![w] = [version |-> rows[r.id].version,
                                                   content |-> rows[r.id].content]]
          \/ /\ r.op # "update"
             /\ UNCHANGED fetched
       /\ req' = [req EXCEPT ![w] = r]
  /\ Goto(w, "load")
  /\ UNCHANGED <<rows, pending, lock, saw, targets>>

(* INSERT: a user's template is never born the default. *)
Create(w) ==
  /\ pc[w] = "load" /\ req[w].op = "create"
  /\ rows[req[w].id].state = "absent"
  /\ \E c \in Contents :
       /\ rows' = [rows EXCEPT ![req[w].id] = [state |-> "live", isDefault |-> FALSE,
                                               version |-> 1, content |-> c]]
       /\ pending' = [pending EXCEPT ![req[w].id] = rows'[req[w].id]]
  /\ Done(w)
  /\ UNCHANGED lock

(* GetByID, and the refusal to edit or delete the system template. *)
Load(w) ==
  LET r == rows[req[w].id]
      refused == ~Live(r) \/ (req[w].op # "setDefault" /\ System(req[w].id))
  IN /\ pc[w] = "load" /\ req[w].op # "create"
     /\ \/ /\ refused
           /\ Rollback(w)
        \/ /\ ~refused
           /\ saw' = [saw EXCEPT ![w] = req[w].op = "delete" /\ r.isDefault]
           /\ Goto(w, CASE req[w].op = "delete" -> "softDelete"
                        [] req[w].op = "setDefault" -> "scan"
                        [] req[w].op = "update" -> "save")
           /\ UNCHANGED <<rows, pending, lock, req, targets, fetched>>

(* UPDATE ... SET deleted_at: a template that was the default still has to *)
(* hand over to Classic, the one GetSystemTemplate finds.                  *)
SoftDelete(w) ==
  /\ pc[w] = "softDelete"
  /\ lock[req[w].id] = Unlocked
  /\ \/ /\ ~Live(rows[req[w].id])
        /\ Rollback(w)
     \/ /\ Live(rows[req[w].id])
        /\ Write(w, [t \in {req[w].id} |-> [View(w, t) EXCEPT !.state = "deleted"]])
        /\ Goto(w, IF saw[w] THEN "scan" ELSE "commit")
        /\ UNCHANGED <<req, saw, targets, fetched>>

(* The first UPDATE of the repository's SetDefault finds the default ... *)
Scan(w) ==
  /\ pc[w] = "scan"
  /\ targets' = [targets EXCEPT ![w] = {t \in Ids : LiveDefault(View(w, t))}]
  /\ Goto(w, "unset")
  /\ UNCHANGED <<rows, pending, lock, req, saw, fetched>>

(* ... and unsets it, if it is still the default once it can be written. *)
Unset(w) ==
  /\ pc[w] = "unset"
  /\ \A t \in targets[w] : lock[t] \in {Unlocked, w}
  /\ Write(w, [t \in {u \in targets[w] : LiveDefault(View(w, u))} |->
                 [View(w, t) EXCEPT !.isDefault = FALSE]])
  /\ targets' = [targets EXCEPT ![w] = {}]
  /\ Goto(w, "set")
  /\ UNCHANGED <<req, saw, fetched>>

(* The second UPDATE locks the new default, if it is not deleted ... *)
Set(w) ==
  LET t == Goal(w)
  IN /\ pc[w] = "set"
     /\ lock[t] \in {Unlocked, w}
     /\ \/ /\ ~Live(View(w, t))
           /\ Rollback(w)
        \/ /\ Live(View(w, t))
           /\ lock' = [lock EXCEPT ![t] = w]
           /\ pending' = [pending EXCEPT ![t] = [View(w, t) EXCEPT !.isDefault = TRUE]]
           /\ Goto(w, "index")
           /\ UNCHANGED <<rows, req, saw, targets, fetched>>

(* ... and enters it in the unique index: a second default is refused. *)
Index(w) ==
  LET t == Goal(w)
  IN /\ pc[w] = "index"
     /\ IndexBusy(w, t) = {}
     /\ \/ /\ UniqueViolation(w, t)
           /\ Rollback(w)
        \/ /\ ~UniqueViolation(w, t) /\ InTx(w)
           /\ Goto(w, "commit")
           /\ UNCHANGED <<rows, pending, lock, req, saw, targets, fetched>>
        \/ /\ ~UniqueViolation(w, t) /\ ~InTx(w)
           /\ Install(w)
           /\ Done(w)

Commit(w) ==
  /\ pc[w] = "commit"
  /\ Install(w)
  /\ Done(w)

(* UPDATE ... WHERE version = $5: no row means stale or gone. *)
Save(w) ==
  LET r == rows[req[w].id]
      current == Live(r) /\ VersionMatches(r, fetched[w].version)
  IN /\ pc[w] = "save"
     /\ lock[req[w].id] = Unlocked
     /\ \/ /\ current
           /\ r.version < MaxVersion
           /\ \E c \in Contents :
                Write(w, [t \in {req[w].id} |-> Edited(r, c)])
           /\ Done(w)
        \/ /\ ~current
           /\ Rollback(w)

(* A statement fails, or the client disconnects and its context is         *)
(* cancelled between two statements.                                       *)
Abort(w) ==
  /\ pc[w] # "idle"
  /\ Rollback(w)

Next ==
  \E w \in Workers :
    \/ Receive(w) \/ Create(w) \/ Load(w)
    \/ SoftDelete(w) \/ Scan(w) \/ Unset(w) \/ Set(w) \/ Index(w) \/ Commit(w)
    \/ Save(w)
    \/ Abort(w)

Spec == Init /\ [][Next]_vars

-----------------------------------------------------------------------------
(* The properties. *)

(* Every variable holds a value of its type. *)
TypeOK ==
  /\ rows \in [Ids -> Row]
  /\ pending \in [Ids -> Row]
  /\ lock \in [Ids -> Workers \cup {Unlocked}]
  /\ pc \in [Workers -> Steps]
  /\ req \in [Workers -> Requests \cup {None}]
  /\ saw \in [Workers -> BOOLEAN]
  /\ targets \in [Workers -> SUBSET Ids]
  /\ fetched \in [Workers -> [version : 1 .. MaxVersion, content : Contents] \cup {None}]

(* An organisation never has two default templates, however the two        *)
(* UPDATEs of concurrent SetDefaults and Deletes interleave.               *)
AtMostOneDefault == Cardinality({t \in Ids : LiveDefault(rows[t])}) <= 1

(* A Delete that removes the template it saw as the default makes Classic  *)
(* the default in the same instant: nobody sees the one without the other. *)
DeleteRevertsToClassic ==
  [][\A w \in Workers :
       /\ pc'[w] # pc[w] /\ req[w] # None
       /\ req[w].op = "delete" /\ saw[w]
       /\ Live(rows[req[w].id]) /\ ~Live(rows'[req[w].id])
       => LiveDefault(rows'[Classic])]_vars

(* Classic stays a trustworthy fallback: no request deletes or edits it,   *)
(* and a template that has been deleted is never written again.            *)
ProtectedRowsFrozen ==
  [][/\ Live(rows'[Classic]) /\ rows'[Classic].content = rows[Classic].content
     /\ \A t \in Ids : rows[t].state = "deleted" => rows'[t] = rows[t]]_vars

(* An edit is accepted only from a client that has read the content it     *)
(* replaces: two clients that read the same version cannot both save.      *)
NoLostUpdate ==
  [][\A t \in Ids :
       rows[t].state = "live" /\ rows'[t].version # rows[t].version =>
         \E w \in Workers : /\ pc[w] = "save" /\ pc'[w] = "idle"
                            /\ req[w].id = t
                            /\ fetched[w].content = rows[t].content]_vars

(* "IsDefault is true for exactly one non-deleted template per            *)
(* organisation" (template.go:62), since "SetDefault atomically makes id   *)
(* the organisation's one default template" (template_repository.go:72):   *)
(* whenever no request is in progress, there is a default template.        *)
DefaultBetweenRequests ==
  (\A w \in Workers : pc[w] = "idle") => \E t \in Ids : LiveDefault(rows[t])

(* "deleting the organisation's current default template reverts the       *)
(* default to Classic, atomically with the delete itself" and "the         *)
(* organisation is never left with zero default templates"                 *)
(* (template_service.go:137-140): whatever is the default when a Delete    *)
(* commits, not only what was when it looked.                              *)
DeleteKeepsDefault ==
  [][\A t \in Ids : LiveDefault(rows[t]) /\ ~Live(rows'[t]) => LiveDefault(rows'[Classic])]_rows

(* The statements of SetDefault, Update and Delete implement a catalogue   *)
(* that is changed in one step at a time.                                  *)
Listed ==
  [t \in {u \in Ids : Live(rows[u])} |-> [version |-> rows[t].version, content |-> rows[t].content]]
Removed == {t \in Ids : rows[t].state = "deleted"}
Default ==
  IF \E t \in Ids : LiveDefault(rows[t]) THEN CHOOSE t \in Ids : LiveDefault(rows[t]) ELSE None

Catalogue == INSTANCE TemplateCatalogue
               WITH Templates <- Customs,
                    listed    <- Listed,
                    removed   <- Removed,
                    default   <- Default

(* Whatever the interleaving, the committed templates move as              *)
(* TemplateCatalogue says: a Delete and its hand-over are one change, an   *)
(* edit never moves the default, there are never two, and every way in     *)
(* which the organisation can lose its default is one of the actions that  *)
(* TemplateCatalogue names for it.                                         *)
ImplementsCatalogue == Catalogue!CatalogueSpec
=============================================================================
