------------------------- MODULE MCInvoiceDocuments -------------------------
(***************************************************************************)
(* Instances of InvoiceDocuments for TLC.                                  *)
(***************************************************************************)
EXTENDS InvoiceDocuments, TLC

(* One field at a time, and registering with a number in one request. *)
MCPatches ==
  LET Nothing == [details |-> Unchanged, taxID |-> Unchanged, vat |-> Unchanged]
  IN  {[Nothing EXCEPT !.taxID = t] : t \in TaxIDs \cup {None}}
        \cup {[Nothing EXCEPT !.vat = b] : b \in BOOLEAN}
        \cup {[Nothing EXCEPT !.taxID = t, !.vat = TRUE] : t \in TaxIDs}

MCSymmetry == Permutations(Workers)
=============================================================================
