-------------------------- MODULE InvoiceDocuments --------------------------
(***************************************************************************)
(* Where the words on an invoice come from. One organisation edits its     *)
(* details, VAT status and logo (internal/administration), the currency,   *)
(* the billing address and the default template change, and one invoice is *)
(* issued and printed (internal/invoice). Send and Cancel copy the live    *)
(* rows into the invoice with one READ COMMITTED statement per row; the    *)
(* PDF service reads the invoice, its payments, the live rows of a draft,  *)
(* and then the invoice a second time for the template. A step of a worker *)
(* is one statement with the Go code up to the next one. The customer row  *)
(* has no operation that changes what an invoice shows, so it is left out. *)
(***************************************************************************)
EXTENDS Integers

CONSTANTS Workers,      \* handler goroutines
          Details,      \* name, contact and address of the organisation
          TaxIDs,       \* VAT registration numbers
          Logos,        \* IDs of uploaded logos
          Currencies,   \* normalised currency codes
          Addresses,    \* billing addresses
          Templates,    \* template snapshots: name, definition, isSystem
          Classic,      \* the system template, the one with isSystem
          Patches,      \* UpdateOrganisationRequests; None clears the VAT number
          Total,        \* Invoice.Total
          MaxVersion,   \* edits of the organisation stop at this version
          Unchanged,    \* a PATCH field that was not sent
          Unlocked,     \* no transaction holds the invoice row
          None          \* NULL

ASSUME TotalAssumption == Total \in Nat
ASSUME TemplateAssumption == Classic \in Templates
ASSUME NoneAssumption ==
  None \notin Details \cup TaxIDs \cup Logos \cup Currencies \cup Addresses \cup Templates
ASSUME UnchangedAssumption == Unchanged \notin Details \cup TaxIDs \cup BOOLEAN \cup {None}
ASSUME PatchAssumption ==
  Patches \subseteq [details : Details \cup {Unchanged}, taxID : TaxIDs \cup {None, Unchanged},
                     vat : BOOLEAN \cup {Unchanged}]
ASSUME UnlockedAssumption == Unlocked \notin Workers

Organisation == [details : Details, taxID : TaxIDs \cup {None}, vat : BOOLEAN,
                 logo : Logos \cup {None}, version : Nat]

(* InvoicePartySnapshot, and the party data of a PDF. None in a field is a *)
(* column that is NULL or a row not read yet.                              *)
Party == [details : Details \cup {None}, taxID : TaxIDs \cup {None}, logo : Logos \cup {None},
          currency : Currencies \cup {None}, address : Addresses \cup {None}]
NoParty == [details |-> None, taxID |-> None, logo |-> None, currency |-> None, address |-> None]

Statuses == {"draft", "sent", "paid", "cancelled"}
Invoice == [status : Statuses, vat : BOOLEAN, party : Party, template : Templates \cup {None}]

PlainRequests == [op : {"send", "cancel", "pdf", "logo"}]
EditRequests == [op : {"edit"}, expected : Nat, patch : Patches]

VARIABLES org,        \* the organisations row
          logos,      \* the IDs in organisation_logos
          currency,   \* settings.currency
          address,    \* the customer's billing address row, if any
          template,   \* the default template
          invoice,    \* the invoices row
          paid,       \* SUM(amount) of its payments
          lock,       \* who holds the invoice row
          pc,         \* the next statement of each worker
          req,        \* the request each worker serves
          mem         \* what each worker has read

vars == <<org, logos, currency, address, template, invoice, paid, lock, pc, req, mem>>
live == <<org, logos, currency, address, template>>
issued == <<invoice, paid, lock>>

Blank == [inv |-> None, paid |-> 0, party |-> NoParty, template |-> None, frozen |-> FALSE,
          row |-> None]

-----------------------------------------------------------------------------
(* Domain rules. *)

(* sellerVATNumber: the stored number stays hidden while not registered. *)
SellerVATNumber(o) == IF o.vat THEN o.taxID ELSE None

(* Validate, and the same checks of buildSnapshotPartyData. *)
ValidParty(p) == p.details # None /\ p.currency # None

(* An issued invoice without a template snapshot keeps rendering Classic. *)
TemplateOf(inv) == IF inv.template = None THEN Classic ELSE inv.template

Field(old, new) == IF new = Unchanged THEN old ELSE new
Patched(o, p) == [o EXCEPT !.details = Field(@, p.details), !.taxID = Field(@, p.taxID),
                           !.vat = Field(@, p.vat)]

ValidOrganisationMutant(o, p) == p.vat = TRUE => o.taxID # None
(* Checked on the merged row, not on the request alone. *)
ValidOrganisation(o, p) == o.vat => o.taxID # None

(* WHERE version = expectedVersion. *)
VersionMatchesMutant(w) == TRUE
VersionMatches(w) == org.version = req[w].expected

(* SET: every party field, never logo_id. *)
Written(o) == [o EXCEPT !.logo = org.logo, !.version = org.version + 1]

(* What CreatePayment accepts on a sent invoice. *)
AmountsAccepted == 1..(Total - paid)

(* The payment block of a PDF: partially paid invoices only. *)
ShowPaymentSummaryMutant(d) == d.paid > 0
ShowPaymentSummary(d) == 0 < d.paid /\ d.paid < Total

(* The renderers print the number of an invoice that carries VAT, if any. *)
ShowsVATNumber(d) == d.vat /\ d.party.taxID # None

-----------------------------------------------------------------------------
(* Draft, or issued before template snapshots existed (with a complete     *)
(* party), or before there were any snapshots.                             *)
LegacyParty(o) == [details |-> o.details, taxID |-> SellerVATNumber(o), logo |-> None,
                   currency |-> currency, address |-> address]
Init ==
  /\ org \in [details : Details, taxID : TaxIDs \cup {None}, vat : BOOLEAN,
              logo : {None}, version : {0}]
  /\ org.vat => org.taxID # None
  /\ logos = {}
  /\ currency \in Currencies
  /\ address = None
  /\ template = Classic
  /\ invoice \in [status : {"draft"}, vat : {org.vat}, party : {NoParty}, template : {None}]
       \cup [status : {"sent"}, vat : {org.vat}, party : {NoParty, LegacyParty(org)},
             template : {None}]
  /\ paid = 0
  /\ lock = Unlocked
  /\ pc = [w \in Workers |-> "idle"]
  /\ req = [w \in Workers |-> None]
  /\ mem = [w \in Workers |-> Blank]

Goto(w, step) == pc' = [pc EXCEPT ![w] = step]

Finish(w) ==
  /\ Goto(w, "idle")
  /\ req' = [req EXCEPT ![w] = None]
  /\ mem' = [mem EXCEPT ![w] = Blank]

(* A request arrives; If-Match carries the version of some earlier read.   *)
Receive(w) ==
  /\ pc[w] = "idle"
  /\ \E r \in PlainRequests \cup
              [op : {"edit"}, expected : 0..org.version, patch : Patches] :
       /\ r.op = "edit" => org.version < MaxVersion
       /\ req' = [req EXCEPT ![w] = r]
       /\ Goto(w, CASE r.op \in {"send", "cancel"} -> "lock"
                    [] r.op = "pdf"  -> "invoice"
                    [] r.op = "logo" -> "logoID"
                    [] r.op = "edit" -> "merge")
  /\ UNCHANGED <<live, issued, mem>>

(* Any statement can fail, the client can go away, the process can die.    *)
Abort(w) ==
  /\ pc[w] # "idle"
  /\ lock' = IF lock = w THEN Unlocked ELSE lock
  /\ Finish(w)
  /\ UNCHANGED <<live, invoice, paid>>

-----------------------------------------------------------------------------
(* Send and Cancel. *)

(* BEGIN; SELECT ... FOR UPDATE, and the checks on the locked row. A sent  *)
(* invoice that is cancelled keeps its snapshot.                           *)
GetForUpdate(w) ==
  /\ pc[w] = "lock"
  /\ lock = Unlocked
  /\ \/ /\ invoice.status = "draft"
        /\ lock' = w
        /\ mem' = [mem EXCEPT ![w].inv = invoice]
        /\ Goto(w, "organisation")
        /\ UNCHANGED req
     \/ /\ req[w].op = "cancel" /\ invoice.status = "sent" /\ paid = 0
        /\ lock' = w
        /\ mem' = [mem EXCEPT ![w] = [@ EXCEPT !.inv = invoice, !.party = invoice.party,
                                                   !.template = invoice.template]]
        /\ Goto(w, "mark")
        /\ UNCHANGED req
     \/ /\ invoice.status # "draft"
        /\ ~(req[w].op = "cancel" /\ invoice.status = "sent" /\ paid = 0)
        /\ Finish(w)
        /\ UNCHANGED lock
  /\ UNCHANGED <<live, invoice, paid>>

(* MarkSent or Cancelled with applySnapshots, the UPDATE of every snapshot *)
(* column, and the COMMIT. A party that does not validate rolls back.      *)
MarkIssued(w) ==
  /\ pc[w] = "mark"
  /\ invoice' = IF ValidParty(mem[w].party) \/ mem[w].inv.status = "sent"
                THEN [mem[w].inv EXCEPT
                        !.status = IF req[w].op = "send" THEN "sent" ELSE "cancelled",
                        !.party = mem[w].party, !.template = mem[w].template]
                ELSE invoice
  /\ lock' = Unlocked
  /\ Finish(w)
  /\ UNCHANGED <<live, paid>>

-----------------------------------------------------------------------------
(* The reads a snapshot and a draft's PDF have in common. *)

ReadOrganisation(w) ==
  /\ pc[w] = "organisation"
  /\ mem' = [mem EXCEPT ![w].party = [@ EXCEPT !.details = org.details,
                                                !.taxID = SellerVATNumber(org), !.logo = org.logo]]
  /\ Goto(w, "settings")
  /\ UNCHANGED <<live, issued, req>>

ReadSettings(w) ==
  /\ pc[w] = "settings"
  /\ mem' = [mem EXCEPT ![w].party = [@ EXCEPT !.currency = currency]]
  /\ Goto(w, "address")
  /\ UNCHANGED <<live, issued, req>>

(* No billing address is fine. *)
ReadAddress(w) ==
  /\ pc[w] = "address"
  /\ mem' = [mem EXCEPT ![w].party = [@ EXCEPT !.address = address]]
  /\ Goto(w, IF req[w].op = "pdf" THEN "resolve" ELSE "template")
  /\ UNCHANGED <<live, issued, req>>

ReadDefaultTemplate(w) ==
  /\ pc[w] = "template"
  /\ mem' = [mem EXCEPT ![w].template = template]
  /\ Goto(w, IF req[w].op = "pdf" THEN "render" ELSE "mark")
  /\ UNCHANGED <<live, issued, req>>

-----------------------------------------------------------------------------
(* Generate: BuildData, resolveTemplate, then the logo and the renderer. *)

ReadInvoice(w) ==
  /\ pc[w] = "invoice"
  /\ mem' = [mem EXCEPT ![w].inv = invoice]
  /\ Goto(w, "paid")
  /\ UNCHANGED <<live, issued, req>>

(* GetTotalPaidByInvoiceID, then the draft-or-issued decision. An issued   *)
(* invoice without a usable snapshot is refused, never filled in live.     *)
ReadPaid(w) ==
  /\ pc[w] = "paid"
  /\ \/ /\ mem[w].inv.status = "draft"
        /\ mem' = [mem EXCEPT ![w].paid = paid]
        /\ Goto(w, "organisation")
        /\ UNCHANGED req
     \/ /\ mem[w].inv.status # "draft"
        /\ ValidParty(mem[w].inv.party)
        /\ mem' = [mem EXCEPT ![w] = [@ EXCEPT !.paid = paid, !.party = mem[w].inv.party]]
        /\ Goto(w, "resolve")
        /\ UNCHANGED req
     \/ /\ mem[w].inv.status # "draft"
        /\ ~ValidParty(mem[w].inv.party)
        /\ Finish(w)
  /\ UNCHANGED <<live, issued>>

(* The second GetByID of the same request decides about the template.      *)
ResolveTemplateMutant(w) ==
  /\ pc[w] = "resolve"
  /\ Goto(w, "template")
  /\ UNCHANGED <<live, issued, req, mem>>
ResolveTemplate(w) ==
  /\ pc[w] = "resolve"
  /\ \/ /\ invoice.status = "draft"
        /\ Goto(w, "template")
        /\ UNCHANGED mem
     \/ /\ invoice.status # "draft"
        /\ mem' = [mem EXCEPT ![w] = [@ EXCEPT !.template = TemplateOf(invoice), !.frozen = TRUE]]
        /\ Goto(w, "render")
  /\ UNCHANGED <<live, issued, req>>

(* The InvoicePDFData of a request that has reached the renderer. *)
Printing(w) == pc[w] = "printed"
Printed(w) == [status |-> mem[w].inv.status, vat |-> mem[w].inv.vat, party |-> mem[w].party,
               template |-> mem[w].template, paid |-> mem[w].paid, frozen |-> mem[w].frozen]

(* Classic is drawn without a logo; for any other layout the logo is       *)
(* loaded, and a missing one fails the request.                            *)
Render(w) ==
  /\ pc[w] = "render"
  /\ IF mem[w].template = Classic \/ mem[w].party.logo \in logos \cup {None}
     THEN Goto(w, "printed") /\ UNCHANGED <<req, mem>>
     ELSE Finish(w)
  /\ UNCHANGED <<live, issued>>

(* The handler writes the PDF out. *)
Deliver(w) ==
  /\ pc[w] = "printed"
  /\ Finish(w)
  /\ UNCHANGED <<live, issued>>

-----------------------------------------------------------------------------
(* The organisation. *)

(* GetByID, the early version check, the merge and its validation. *)
MergeEdit(w) ==
  /\ pc[w] = "merge"
  /\ LET merged == Patched(org, req[w].patch) IN
     IF VersionMatches(w) /\ ValidOrganisation(merged, req[w].patch)
     THEN /\ mem' = [mem EXCEPT ![w].row = merged]
          /\ Goto(w, "save")
          /\ UNCHANGED req
     ELSE Finish(w)
  /\ UNCHANGED <<live, issued>>

(* UPDATE organisations ... WHERE version = expectedVersion. *)
SaveEdit(w) ==
  /\ pc[w] = "save"
  /\ org' = IF VersionMatches(w) THEN Written(mem[w].row) ELSE org
  /\ Finish(w)
  /\ UNCHANGED <<logos, currency, address, template, issued>>

(* SaveLogo stores a new row and points the organisation at it; ClearLogo  *)
(* only drops the pointer. Neither looks at the version or bumps it.       *)
SetLogo ==
  /\ \E l \in Logos \ logos :
       /\ logos' = logos \cup {l}
       /\ org' = [org EXCEPT !.logo = l]
  /\ UNCHANGED <<currency, address, template, issued, pc, req, mem>>

RemoveLogoMutant ==
  /\ org' = [org EXCEPT !.logo = None]
  /\ logos' = logos \ {org.logo}
  /\ UNCHANGED <<currency, address, template, issued, pc, req, mem>>
RemoveLogo ==
  /\ org' = [org EXCEPT !.logo = None]
  /\ UNCHANGED <<logos, currency, address, template, issued, pc, req, mem>>

(* GetCurrentLogo: the pointer, then the image. *)
ReadLogoID(w) ==
  /\ pc[w] = "logoID"
  /\ IF org.logo = None
     THEN Finish(w)
     ELSE /\ mem' = [mem EXCEPT ![w].party = [@ EXCEPT !.logo = org.logo]]
          /\ Goto(w, "image")
          /\ UNCHANGED req
  /\ UNCHANGED <<live, issued>>

GetLogo(w) ==
  /\ pc[w] = "image"
  /\ Finish(w)
  /\ UNCHANGED <<live, issued>>

(* The rest of the live data changes by single statements; how settings    *)
(* and templates get there is the business of other modules.               *)
ChangeLiveData ==
  /\ \/ currency' \in Currencies /\ UNCHANGED <<address, template>>
     \/ address' \in Addresses /\ UNCHANGED <<currency, template>>
     \/ template' \in Templates /\ UNCHANGED <<currency, address>>
  /\ UNCHANGED <<org, logos, issued, pc, req, mem>>

(* CreatePayment, as one transaction on the locked row. *)
Pay ==
  /\ lock = Unlocked
  /\ invoice.status = "sent"
  /\ \E amount \in AmountsAccepted :
       /\ paid' = paid + amount
       /\ invoice' = [invoice EXCEPT !.status = IF paid + amount = Total THEN "paid" ELSE @]
  /\ UNCHANGED <<live, lock, pc, req, mem>>

Next ==
  \/ \E w \in Workers :
       \/ Receive(w) \/ Abort(w) \/ GetForUpdate(w) \/ MarkIssued(w)
       \/ ReadOrganisation(w) \/ ReadSettings(w) \/ ReadAddress(w) \/ ReadDefaultTemplate(w)
       \/ ReadInvoice(w) \/ ReadPaid(w) \/ ResolveTemplate(w) \/ Render(w) \/ Deliver(w)
       \/ MergeEdit(w) \/ SaveEdit(w) \/ ReadLogoID(w) \/ GetLogo(w)
  \/ SetLogo \/ RemoveLogo \/ ChangeLiveData \/ Pay

Spec == Init /\ [][Next]_vars

-----------------------------------------------------------------------------
Steps == {"idle", "lock", "organisation", "settings", "address", "template", "mark",
          "invoice", "paid", "resolve", "render", "printed", "merge", "save", "logoID", "image"}
Memory == [inv : Invoice \cup {None}, paid : Nat, party : Party,
           template : Templates \cup {None}, frozen : BOOLEAN,
           row : Organisation \cup {None}]

(* Types, and the row lock is held exactly between GetForUpdate and COMMIT. *)
TypeOK ==
  /\ org \in Organisation
  /\ logos \in SUBSET Logos
  /\ currency \in Currencies
  /\ address \in Addresses \cup {None}
  /\ template \in Templates
  /\ invoice \in Invoice
  /\ paid \in 0..Total
  /\ lock \in Workers \cup {Unlocked}
  /\ pc \in [Workers -> Steps]
  /\ req \in [Workers -> PlainRequests \cup EditRequests \cup {None}]
  /\ mem \in [Workers -> Memory]

(* A VAT registered organisation always has its number, whichever edits    *)
(* race: ErrOrganisationVATNumberRequired is decided on the merged row.    *)
VATNumberPresent == org.vat => org.taxID # None

(* Whatever still refers to a logo can load it: the organisation, the      *)
(* issued invoice, and every request that has read either and not yet      *)
(* fetched the image, although logos are replaced and removed meanwhile.   *)
LogosKept ==
  /\ org.logo \in logos \cup {None}
  /\ invoice.party.logo \in logos \cup {None}
  /\ \A w \in Workers : mem[w].party.logo \in logos \cup {None}

(* Once a document says its invoice was issued, it shows exactly what the  *)
(* invoice froze, however the live data changed before, during or after.   *)
IssuedDocumentStable ==
  \A w \in Workers :
    (Printing(w) /\ Printed(w).status # "draft") =>
      Printed(w).party = invoice.party /\ Printed(w).template = TemplateOf(invoice)

(* A document marked PAID asks for nothing more. The invoice is read       *)
(* before its payments, so the sum is never older than the status.         *)
PaidDocumentHasNoBalance ==
  \A w \in Workers :
    (Printing(w) /\ Printed(w).status = "paid") => ~ShowPaymentSummary(Printed(w)) /\ Printed(w).paid = Total

(* Every edit that is saved is its patch applied to what was committed     *)
(* just before it: nothing an edit or a logo change did meanwhile is lost. *)
EditsAreAtomic ==
  [][org'.version # org.version =>
       \E w \in Workers : /\ req[w] \in EditRequests
                          /\ org' = [Patched(org, req[w].patch) EXCEPT !.version = @ + 1]]_vars

(* invoice.go:100 says that the VAT status at creation, not the current    *)
(* one, decides whether the seller's VAT number is shown on an invoice.    *)
VATNumberFollowsInvoice ==
  \A w \in Workers :
    (Printing(w) /\ Printed(w).status # "draft") => (ShowsVATNumber(Printed(w)) <=> Printed(w).vat)

(* invoice_pdf_service.go:269 says that nothing downstream of the party    *)
(* data decision ever mixes live data with the snapshot.                   *)
OneDataSource ==
  \A w \in Workers : Printing(w) => (Printed(w).frozen <=> Printed(w).status # "draft")
=============================================================================
