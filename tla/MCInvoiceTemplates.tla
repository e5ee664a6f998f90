------------------------- MODULE MCInvoiceTemplates -------------------------
(***************************************************************************)
(* Instances of InvoiceTemplates for TLC. Workers, user templates and      *)
(* contents are interchangeable, and no liveness is checked, so symmetry   *)
(* is sound.                                                               *)
(***************************************************************************)
EXTENDS InvoiceTemplates, TLC

Interchangeable ==
  Permutations(Workers) \cup Permutations(Customs) \cup Permutations(Contents)
=============================================================================
