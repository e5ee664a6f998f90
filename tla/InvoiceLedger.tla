--------------------------- MODULE InvoiceLedger ---------------------------
(***************************************************************************)
(* What one invoice promises to its clients, whatever the interleaving of  *)
(* requests behind it: it is issued once, together with an immutable       *)
(* document; every idempotency key is honoured at most once, never beyond  *)
(* what is still owed; the payment that clears the balance settles the     *)
(* invoice in the same instant; and an invoice can be voided only while no *)
(* payment has been honoured. InvoiceLifecycle implements this module.     *)
(***************************************************************************)
EXTENDS Integers

CONSTANTS Keys,         \* idempotency keys
          Amounts,      \* the amounts a payment may have
          Documents,    \* the party and layout data an invoice may freeze
          NoDocument,   \* the document of an invoice not issued yet
          Totals        \* the totals an invoice can have, in pence

VARIABLES phase,        \* the lifecycle state
          document,     \* the frozen document
          outstanding,  \* what is still owed
          honoured      \* the keys whose payment has been recorded

ledgerVars == <<phase, document, outstanding, honoured>>

LedgerInit ==
  /\ phase = "draft"
  /\ document = NoDocument
  /\ outstanding \in Totals
  /\ honoured = {}

(* A draft is issued together with the document it will show for ever. *)
Issue ==
  /\ phase = "draft"
  /\ phase' = "sent"
  /\ document' \in Documents
  /\ UNCHANGED <<outstanding, honoured>>

(* A draft is voided with a document of its own, so that it stays readable. *)
VoidDraft ==
  /\ phase = "draft"
  /\ phase' = "cancelled"
  /\ document' \in Documents
  /\ UNCHANGED <<outstanding, honoured>>

(* An issued invoice is voided with the document it has, if nothing was paid. *)
VoidIssued ==
  /\ phase = "sent"
  /\ honoured = {}
  /\ phase' = "cancelled"
  /\ UNCHANGED <<document, outstanding, honoured>>

(* A payment is honoured once per key and never beyond the balance. *)
Honour(k, a) ==
  /\ phase = "sent"
  /\ k \notin honoured
  /\ 0 < a
  /\ a <= outstanding
  /\ outstanding' = outstanding - a
  /\ honoured' = honoured \cup {k}
  /\ phase' = IF outstanding' = 0 THEN "paid" ELSE "sent"
  /\ UNCHANGED document

LedgerNext ==
  \/ Issue
  \/ VoidDraft
  \/ VoidIssued
  \/ \E k \in Keys, a \in Amounts : Honour(k, a)

LedgerSpec == LedgerInit /\ [][LedgerNext]_ledgerVars
=============================================================================
