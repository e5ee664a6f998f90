-------------------------- MODULE TemplateCatalogue --------------------------
(***************************************************************************)
(* What the invoice templates of one organisation promise, whatever the    *)
(* interleaving of requests behind them: a catalogue of listed templates   *)
(* and at most one default, which is always listed. A template is added,   *)
(* edited or removed in one step, is never removed twice or added again,   *)
(* and Classic is neither edited nor removed. Removing the default makes   *)
(* Classic the default in the same step, and removing another template     *)
(* leaves the default alone (Remove), as template_service.go promises.     *)
(* What the code does besides has actions of its own: making another       *)
(* template the default takes two steps, between which there is none       *)
(* (Deselect, Choose), and a removal that goes by an old default may leave *)
(* the organisation none (RemoveDefaultUnseen) or take the default from a  *)
(* template chosen since (RemoveFormerDefault).                            *)
(* InvoiceTemplates implements this module.                                *)
(***************************************************************************)
EXTENDS Integers

CONSTANTS Templates,  \* what users may add
          Classic,    \* listed from the start
          Contents,   \* what a template may say
          None        \* no default

VARIABLES listed,   \* the templates there are: their version and content
          removed,  \* the templates there were
          default   \* the template new invoices use, or None

catalogueVars == <<listed, removed, default>>

Listing(v, c) == [version |-> v, content |-> c]

CatalogueInit ==
  /\ \E c \in Contents : listed = [t \in {Classic} |-> Listing(1, c)]
  /\ removed = {}
  /\ default = Classic

Add(t, c) ==
  /\ t \notin DOMAIN listed \cup removed
  /\ listed' = [u \in DOMAIN listed \cup {t} |-> IF u = t THEN Listing(1, c) ELSE listed[u]]
  /\ UNCHANGED <<removed, default>>

Edit(t, c) ==
  /\ t \in DOMAIN listed
  /\ listed' = [listed EXCEPT ![t] = Listing(listed[t].version + 1, c)]
  /\ UNCHANGED <<removed, default>>

Unlist(t) ==
  /\ t \in DOMAIN listed
  /\ listed' = [u \in DOMAIN listed \ {t} |-> listed[u]]
  /\ removed' = removed \cup {t}

Remove(t) ==
  /\ Unlist(t)
  /\ default' = IF default = t THEN Classic ELSE default

(* The template has become the default since the removal looked. *)
RemoveDefaultUnseen(t) ==
  /\ default = t
  /\ Unlist(t)
  /\ default' = None

(* The template was the default when the removal looked, and no longer is. *)
RemoveFormerDefault(t) ==
  /\ default # t
  /\ Unlist(t)
  /\ default' = Classic

Deselect ==
  /\ default' = None
  /\ UNCHANGED <<listed, removed>>

Choose(t) ==
  /\ default = None
  /\ default' = t
  /\ UNCHANGED <<listed, removed>>

CatalogueNext ==
  \/ \E t \in Templates : Remove(t) \/ \E c \in Contents : Add(t, c) \/ Edit(t, c)
  \/ \E t \in Templates : RemoveDefaultUnseen(t) \/ RemoveFormerDefault(t)
  \/ Deselect
  \/ \E t \in DOMAIN listed : Choose(t)

CatalogueSpec == CatalogueInit /\ [][CatalogueNext]_catalogueVars
=============================================================================
