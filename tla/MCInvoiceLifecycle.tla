------------------------- MODULE MCInvoiceLifecycle -------------------------
(***************************************************************************)
(* Instances of InvoiceLifecycle for TLC: an invoice of 3 pence or of none, *)
(* payment requests of 0, 1 and 2 pence, so that partial payments, an      *)
(* exact settlement, payments that fit alone but not together and a sent   *)
(* invoice that owes nothing all occur.                                    *)
(***************************************************************************)
EXTENDS InvoiceLifecycle

MCAmountOf == [b \in Bodies |-> CASE b = "nothing" -> 0
                                  [] b = "one"     -> 1
                                  [] b = "two"     -> 2]
=============================================================================
