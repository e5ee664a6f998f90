------------------------- MODULE MCInvoiceCreation -------------------------
(***************************************************************************)
(* Instances of InvoiceCreation for TLC. The prefixes "I" and "I1" (100    *)
(* stands for the letter, digits for themselves) with the counter about to *)
(* pass 10 make two different numberings spell the same text: "I1" + "1"   *)
(* is the invoice number "I" + "11". Workers are interchangeable and no    *)
(* liveness is checked, so symmetry is sound.                              *)
(***************************************************************************)
EXTENDS InvoiceCreation, TLC

MCPrefixes == {<<100>>, <<100, 1>>}

(* Decimal digits, for the numbers of these instances. *)
MCItoa(n) == IF n < 10 THEN <<n>> ELSE <<n \div 10, n % 10>>

Interchangeable == Permutations(Workers)
=============================================================================
