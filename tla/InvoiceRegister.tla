--------------------------- MODULE InvoiceRegister ---------------------------
(***************************************************************************)
(* What an organisation's numbering and settings promise, whatever the     *)
(* interleaving of requests behind them: every invoice is entered in one   *)
(* step under the next number, spelled with the prefix of that moment, and *)
(* no two entries read the same; an entry never changes except that it is  *)
(* closed once; and an edit of the settings changes one field, in one      *)
(* step, and leaves the register alone. There is no counter here: the next *)
(* number is the length of the register plus one. InvoiceCreation          *)
(* implements this module.                                                 *)
(***************************************************************************)
EXTENDS Integers, Sequences

CONSTANTS Prefixes,    \* what may stand in front of a number
          Currencies,  \* what an invoice may be in
          Text(_, _),  \* a prefix and a number, as the invoice shows them
          Existing     \* how many invoices there are at first

VARIABLES prefix,      \* the prefix of the next invoice
          currency,    \* the currency of drafts
          revision,    \* counts the edits
          register     \* the invoices, in the order of their numbers

registerVars == <<prefix, currency, revision, register>>

Entry(p, n, isOpen) == [text |-> Text(p, n), open |-> isOpen]

RegisterInit ==
  /\ prefix \in Prefixes
  /\ currency \in Currencies
  /\ revision = 1
  /\ register = [n \in 1 .. Existing |-> Entry(prefix, n, FALSE)]

(* The next invoice, unless an older prefix has spelled the same number. *)
Enter ==
  LET e == Entry(prefix, Len(register) + 1, TRUE)
  IN /\ \A n \in DOMAIN register : register[n].text # e.text
     /\ register' = Append(register, e)
     /\ UNCHANGED <<prefix, currency, revision>>

(* An open invoice is paid in full or cancelled. *)
Close(n) ==
  /\ register[n].open
  /\ register' = [register EXCEPT ![n].open = FALSE]
  /\ UNCHANGED <<prefix, currency, revision>>

ChangePrefix(p) ==
  /\ prefix' = p
  /\ revision' = revision + 1
  /\ UNCHANGED <<currency, register>>

ChangeCurrency(c) ==
  /\ currency' = c
  /\ revision' = revision + 1
  /\ UNCHANGED <<prefix, register>>

RegisterNext ==
  \/ Enter
  \/ \E n \in DOMAIN register : Close(n)
  \/ \E p \in Prefixes : ChangePrefix(p)
  \/ \E c \in Currencies : ChangeCurrency(c)

RegisterSpec == RegisterInit /\ [][RegisterNext]_registerVars
=============================================================================
