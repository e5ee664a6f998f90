----------------------- MODULE InvoiceDocumentsProofs -----------------------
(***************************************************************************)
(* Proofs about InvoiceDocuments, for any number of workers, rows and      *)
(* edits. The inductive invariant says how what each request has read      *)
(* relates to what is committed now: a holder of the row lock still has    *)
(* the invoice in memory, a reader of an issued invoice what it froze, a   *)
(* merged edit with the current version the row it merged.                 *)
(***************************************************************************)
EXTENDS InvoiceDocuments, TLAPS

Requests == PlainRequests \cup EditRequests \cup {None}
Reads == {"organisation", "settings", "address", "template"}

(* Which requests run which statements. *)
Routed(w) ==
  /\ pc[w] \in {"lock", "mark"} => req[w].op \in {"send", "cancel"}
  /\ pc[w] \in Reads => req[w].op \in {"send", "cancel", "pdf"}
  /\ pc[w] \in {"invoice", "paid", "resolve", "render", "printed"} => req[w].op = "pdf"
  /\ pc[w] \in {"merge", "save"} => req[w] \in EditRequests /\ req[w].expected <= org.version

(* Send and Cancel under the row lock. *)
Issuing(w) ==
  /\ lock = w
  /\ mem[w].inv = invoice /\ invoice.status \in {"draft", "sent"}
  /\ pc[w] \in Reads => invoice.status = "draft"
  /\ invoice.status = "sent" =>
       /\ req[w].op = "cancel" /\ paid = 0
       /\ mem[w].party = invoice.party /\ mem[w].template = invoice.template

(* A PDF request that has read the invoice. *)
Printer(w) ==
  /\ mem[w].inv \in Invoice /\ mem[w].inv.party.logo \in logos \cup {None}
  /\ mem[w].inv.status # "draft" =>
       /\ invoice.status # "draft"
       /\ mem[w].inv.party = invoice.party /\ mem[w].inv.template = invoice.template
  /\ mem[w].inv.status = "paid" => invoice.status = "paid"
  /\ pc[w] \in Reads => mem[w].inv.status = "draft"
  /\ pc[w] \in {"resolve", "render", "printed"} =>
       /\ mem[w].inv.status # "draft" => mem[w].party = mem[w].inv.party
       /\ mem[w].inv.status = "paid" => mem[w].paid = Total
  /\ pc[w] \in {"render", "printed"} =>
       (mem[w].inv.status # "draft" => mem[w].template = TemplateOf(invoice))

(* A merged row is valid, and is the patched current row while its version *)
(* is the current one; logo_id apart.                                      *)
Merged(w) ==
  /\ mem[w].row \in Organisation
  /\ mem[w].row.vat => mem[w].row.taxID # None
  /\ req[w].expected = org.version =>
       /\ mem[w].row.details = Field(org.details, req[w].patch.details)
       /\ mem[w].row.taxID = Field(org.taxID, req[w].patch.taxID)
       /\ mem[w].row.vat = Field(org.vat, req[w].patch.vat)

Loadable(w) == mem[w].party.logo \in logos \cup {None}

Knows(w) ==
  /\ Routed(w)
  /\ Loadable(w)
  /\ pc[w] \in Reads \cup {"mark"} /\ req[w].op # "pdf" => Issuing(w)
  /\ pc[w] \in Reads \cup {"paid", "resolve", "render", "printed"} /\ req[w].op = "pdf" => Printer(w)
  /\ pc[w] = "save" => Merged(w)

(* A draft has nothing paid, and a paid invoice all of its total. *)
Money ==
  /\ invoice.status = "draft" => paid = 0
  /\ invoice.status = "paid" => paid = Total

IInv ==
  /\ TypeOK
  /\ VATNumberPresent
  /\ org.logo \in logos \cup {None} /\ invoice.party.logo \in logos \cup {None}
  /\ Money
  /\ \A w \in Workers : Knows(w)

-----------------------------------------------------------------------------
LEMMA BlankMemory == Blank \in Memory /\ Blank.party.logo = None
BY DEF Blank, Memory, NoParty, Party

-----------------------------------------------------------------------------
(* What a request knows survives the others: versions and logos only grow, *)
(* an issued invoice keeps what it shows and a paid one stays paid.        *)
LEMMA KnowsKept ==
  ASSUME TypeOK, NEW w \in Workers, Knows(w),
         pc'[w] = pc[w], req'[w] = req[w], mem'[w] = mem[w],
         org' \in Organisation, org.version <= org'.version,
         org'.version = org.version =>
           org'.details = org.details /\ org'.taxID = org.taxID /\ org'.vat = org.vat,
         logos \subseteq logos',
         invoice.status # "draft" =>
           /\ invoice'.status # "draft"
           /\ invoice'.party = invoice.party /\ invoice'.template = invoice.template,
         invoice.status = "paid" => invoice'.status = "paid",
         lock = w => lock' = w /\ invoice' = invoice /\ paid' = paid
  PROVE  Knows(w)'
<1>1. Routed(w)'
  <2>1. ASSUME req[w] \in EditRequests PROVE req[w].expected \in Nat
    BY <2>1 DEF EditRequests
  <2>2. org.version \in Nat /\ org'.version \in Nat
    BY DEF TypeOK, Organisation
  <2>3. QED
    BY <2>1, <2>2 DEF Knows, Routed
<1>2. Loadable(w)'
  BY DEF Knows, Loadable
<1>3. pc[w] \in Reads \cup {"mark"} /\ req[w].op # "pdf" => Issuing(w)'
  BY DEF Knows, Issuing
<1>4. pc[w] \in Reads \cup {"paid", "resolve", "render", "printed"} /\ req[w].op = "pdf"
        => Printer(w)'
  BY DEF Knows, Printer, TemplateOf
<1>5. pc[w] = "save" => Merged(w)'
  <2>1. pc[w] = "save" => req[w].expected \in Nat /\ req[w].expected <= org.version
    BY DEF Knows, Routed, EditRequests
  <2>2. org.version \in Nat /\ org'.version \in Nat
    BY DEF TypeOK, Organisation
  <2>3. QED
    BY <2>1, <2>2 DEF Knows, Merged
<1>6. QED
  BY <1>1, <1>2, <1>3, <1>4, <1>5 DEF Knows

(* A step that only changes what one worker is doing. *)
LEMMA LocalStep ==
  ASSUME IInv, NEW w \in Workers, NEW s \in Steps, NEW r \in Requests, NEW m \in Memory,
         pc' = [pc EXCEPT ![w] = s], req' = [req EXCEPT ![w] = r], mem' = [mem EXCEPT ![w] = m],
         UNCHANGED <<org, logos, currency, address, template, invoice, paid>>,
         lock' \in Workers \cup {Unlocked}, \A x \in Workers \ {w} : lock = x => lock' = x,
         Knows(w)'
  PROVE  IInv'
<1>1. TypeOK'
  BY DEF IInv, TypeOK, Requests
<1>2. \A x \in Workers \ {w} : pc'[x] = pc[x] /\ req'[x] = req[x] /\ mem'[x] = mem[x]
  BY DEF IInv, TypeOK
<1>3. org \in Organisation /\ org.version \in Nat
  BY DEF IInv, TypeOK, Organisation
<1>4. \A x \in Workers \ {w} : Knows(x)'
  BY <1>2, <1>3, KnowsKept DEF IInv
<1>5. VATNumberPresent' /\ Money'
  BY DEF IInv, VATNumberPresent, Money
<1>6. QED
  BY <1>1, <1>4, <1>5 DEF IInv

(* What a finished request leaves behind. *)
LEMMA FinishType ==
  ASSUME IInv, NEW w \in Workers, Finish(w)
  PROVE  /\ pc' = [pc EXCEPT ![w] = "idle"] /\ req' = [req EXCEPT ![w] = None]
         /\ mem' = [mem EXCEPT ![w] = Blank]
         /\ pc' \in [Workers -> Steps] /\ req' \in [Workers -> Requests]
         /\ mem' \in [Workers -> Memory]
         /\ Knows(w)'
         /\ \A x \in Workers \ {w} : pc'[x] = pc[x] /\ req'[x] = req[x] /\ mem'[x] = mem[x]
<1>1. /\ pc' = [pc EXCEPT ![w] = "idle"] /\ req' = [req EXCEPT ![w] = None]
      /\ mem' = [mem EXCEPT ![w] = Blank]
  BY DEF Finish, Goto
<1>2. /\ pc' \in [Workers -> Steps] /\ req' \in [Workers -> Requests]
      /\ mem' \in [Workers -> Memory]
      /\ pc'[w] = "idle" /\ mem'[w] = Blank
      /\ \A x \in Workers \ {w} : pc'[x] = pc[x] /\ req'[x] = req[x] /\ mem'[x] = mem[x]
  BY <1>1, BlankMemory DEF IInv, TypeOK, Steps, Requests
<1>3. Knows(w)'
  BY <1>2, BlankMemory DEF Knows, Routed, Loadable, Reads
<1>4. QED
  BY <1>1, <1>2, <1>3

LEMMA FinishStep ==
  ASSUME IInv, NEW w \in Workers, Finish(w),
         UNCHANGED <<org, logos, currency, address, template, invoice, paid>>,
         lock' \in Workers \cup {Unlocked}, \A x \in Workers \ {w} : lock = x => lock' = x
  PROVE  IInv'
<1>1. "idle" \in Steps /\ None \in Requests
  BY DEF Steps, Requests
<1>2. QED
  BY <1>1, FinishType, BlankMemory, LocalStep

-----------------------------------------------------------------------------
LEMMA InitIInv == Init => IInv
<1> SUFFICES ASSUME Init PROVE IInv
  OBVIOUS
<1>1. NoParty \in Party /\ NoParty.logo = None
  BY DEF NoParty, Party
<1>2. LegacyParty(org) \in Party /\ LegacyParty(org).logo = None
  BY DEF Init, LegacyParty, Party, SellerVATNumber
<1>3. org \in Organisation /\ org.logo = None /\ org.vat \in BOOLEAN
  BY DEF Init, Organisation
<1>4. invoice \in Invoice /\ invoice.party.logo = None /\ invoice.status \in {"draft", "sent"}
  BY <1>1, <1>2, <1>3 DEF Init, Invoice, Statuses
<1>5. TypeOK
  BY <1>3, <1>4, BlankMemory, TemplateAssumption, TotalAssumption DEF Init, TypeOK, Steps
<1>6. VATNumberPresent /\ Money
  BY <1>4, TotalAssumption DEF Init, VATNumberPresent, Money
<1>7. \A w \in Workers : Knows(w)
  BY BlankMemory DEF Init, Knows, Routed, Loadable, Reads
<1>8. QED
  BY <1>3, <1>4, <1>5, <1>6, <1>7 DEF IInv

LEMMA ReceiveIInv ==
  ASSUME IInv, NEW w \in Workers, Receive(w)
  PROVE  IInv'
<1>1. PICK r \in PlainRequests \cup [op : {"edit"}, expected : 0..org.version, patch : Patches] :
        /\ req' = [req EXCEPT ![w] = r]
        /\ pc' = [pc EXCEPT ![w] = CASE r.op \in {"send", "cancel"} -> "lock"
                                     [] r.op = "pdf"  -> "invoice"
                                     [] r.op = "logo" -> "logoID"
                                     [] r.op = "edit" -> "merge"]
  BY DEF Receive, Goto
<1>2. UNCHANGED <<org, logos, currency, address, template, invoice, paid, lock, mem>>
  BY DEF Receive, live, issued
<1>3. org.version \in Nat /\ mem[w] \in Memory
  BY DEF IInv, TypeOK, Organisation
<1>4. /\ r \in Requests
      /\ r.op \in {"send", "cancel", "pdf", "logo", "edit"}
      /\ r.op = "edit" => r \in EditRequests /\ r.expected <= org.version
  BY <1>3 DEF Requests, PlainRequests, EditRequests
<1> DEFINE s == CASE r.op \in {"send", "cancel"} -> "lock"
                  [] r.op = "pdf"  -> "invoice"
                  [] r.op = "logo" -> "logoID"
                  [] r.op = "edit" -> "merge"
<1>5. /\ s \in {"lock", "invoice", "logoID", "merge"}
      /\ s = "lock" => r.op \in {"send", "cancel"}
      /\ s = "invoice" => r.op = "pdf"
      /\ s = "merge" => r.op = "edit"
  BY <1>4
<1>6. pc' = [pc EXCEPT ![w] = s]
  BY <1>1
<1> HIDE DEF s
<1>7. Knows(w)'
  BY <1>1, <1>2, <1>4, <1>5, <1>6 DEF IInv, TypeOK, Knows, Routed, Loadable, Reads
<1>8. s \in Steps
  BY <1>5 DEF Steps
<1>9. mem' = [mem EXCEPT ![w] = mem[w]]
  BY <1>2 DEF IInv, TypeOK
<1>10. lock' \in Workers \cup {Unlocked} /\ \A x \in Workers \ {w} : lock = x => lock' = x
  BY <1>2 DEF IInv, TypeOK
<1>11. QED
  BY <1>1, <1>2, <1>3, <1>4, <1>6, <1>7, <1>8, <1>9, <1>10, LocalStep

LEMMA AbortIInv ==
  ASSUME IInv, NEW w \in Workers, Abort(w)
  PROVE  IInv'
<1>1. /\ lock' = IF lock = w THEN Unlocked ELSE lock
      /\ Finish(w)
      /\ UNCHANGED <<org, logos, currency, address, template, invoice, paid>>
  BY DEF Abort, live
<1>2. lock' \in Workers \cup {Unlocked} /\ \A x \in Workers \ {w} : lock = x => lock' = x
  BY <1>1 DEF IInv, TypeOK
<1>3. QED
  BY <1>1, <1>2, FinishStep

(* A step after which nobody but its worker sees a difference. *)
LEMMA QuietStep ==
  ASSUME IInv, NEW w \in Workers, NEW s \in Steps, NEW m \in Memory,
         pc' = [pc EXCEPT ![w] = s], mem' = [mem EXCEPT ![w] = m],
         UNCHANGED <<org, logos, currency, address, template, invoice, paid, lock, req>>,
         pc'[w] = s /\ mem'[w] = m => Knows(w)'
  PROVE  IInv'
<1>1. pc'[w] = s /\ mem'[w] = m /\ req' = [req EXCEPT ![w] = req[w]] /\ req[w] \in Requests
  BY DEF IInv, TypeOK, Requests
<1>2. lock' \in Workers \cup {Unlocked} /\ \A x \in Workers \ {w} : lock = x => lock' = x
  BY DEF IInv, TypeOK
<1>3. QED
  BY <1>1, <1>2, LocalStep

LEMMA GetForUpdateIInv ==
  ASSUME IInv, NEW w \in Workers, GetForUpdate(w)
  PROVE  IInv'
<1>1. /\ pc[w] = "lock" /\ lock = Unlocked
      /\ UNCHANGED <<org, logos, currency, address, template, invoice, paid>>
  BY DEF GetForUpdate, live
<1>2. invoice \in Invoice /\ invoice.party \in Party /\ invoice.template \in Templates \cup {None}
  BY DEF IInv, TypeOK, Invoice
<1>3. mem[w] \in Memory /\ mem[w].party.logo \in logos \cup {None} /\ Routed(w)
  BY DEF IInv, TypeOK, Knows, Loadable
<1>4. CASE Finish(w) /\ UNCHANGED lock
  BY <1>1, <1>4, FinishStep DEF IInv, TypeOK
<1>5. CASE /\ invoice.status = "draft" /\ lock' = w
           /\ mem' = [mem EXCEPT ![w].inv = invoice]
           /\ pc' = [pc EXCEPT ![w] = "organisation"]
           /\ UNCHANGED req
  <2> DEFINE m == [mem[w] EXCEPT !.inv = invoice]
  <2>1. m \in Memory /\ m.inv = invoice /\ m.party = mem[w].party
    BY <1>2, <1>3 DEF Memory
  <2>2. mem' = [mem EXCEPT ![w] = m] /\ req' = [req EXCEPT ![w] = req[w]] /\ req[w] \in Requests
    BY <1>5 DEF IInv, TypeOK, Requests
  <2> HIDE DEF m
  <2>3. pc'[w] = "organisation" /\ mem'[w] = m
    BY <1>5, <2>2 DEF IInv, TypeOK
  <2>4. Knows(w)'
    BY <1>1, <1>3, <1>5, <2>1, <2>3 DEF Knows, Routed, Loadable, Issuing, Reads
  <2>5. lock' \in Workers \cup {Unlocked} /\ \A x \in Workers \ {w} : lock = x => lock' = x
    BY <1>1, <1>5, UnlockedAssumption
  <2>6. "organisation" \in Steps
    BY DEF Steps
  <2>7. QED
    BY <1>1, <1>5, <2>1, <2>2, <2>4, <2>5, <2>6, LocalStep
<1>6. CASE /\ req[w].op = "cancel" /\ invoice.status = "sent" /\ paid = 0 /\ lock' = w
           /\ mem' = [mem EXCEPT ![w] = [@ EXCEPT !.inv = invoice, !.party = invoice.party,
                                                  !.template = invoice.template]]
           /\ pc' = [pc EXCEPT ![w] = "mark"]
           /\ UNCHANGED req
  <2> DEFINE m == [mem[w] EXCEPT !.inv = invoice, !.party = invoice.party,
                                 !.template = invoice.template]
  <2>2. mem' = [mem EXCEPT ![w] = m] /\ req' = [req EXCEPT ![w] = req[w]] /\ req[w] \in Requests
    BY <1>6 DEF IInv, TypeOK, Requests
  <2>0. m = [[[mem[w] EXCEPT !.inv = invoice] EXCEPT !.party = invoice.party]
                EXCEPT !.template = invoice.template]
    BY Zenon
  <2> HIDE DEF m
  <2>1. m \in Memory /\ m.inv = invoice /\ m.party = invoice.party /\ m.template = invoice.template
    BY <1>2, <1>3, <2>0 DEF Memory
  <2>3. pc'[w] = "mark" /\ mem'[w] = m
    BY <1>6, <2>2 DEF IInv, TypeOK
  <2>4. Knows(w)'
    BY <1>1, <1>6, <2>1, <2>3 DEF IInv, Knows, Routed, Loadable, Issuing, Reads
  <2>5. lock' \in Workers \cup {Unlocked} /\ \A x \in Workers \ {w} : lock = x => lock' = x
    BY <1>1, <1>6, UnlockedAssumption
  <2>6. "mark" \in Steps
    BY DEF Steps
  <2>7. QED
    BY <1>1, <1>6, <2>1, <2>2, <2>4, <2>5, <2>6, LocalStep
<1>7. QED
  BY <1>4, <1>5, <1>6 DEF GetForUpdate, Goto

(* The only step that changes what an invoice shows: it was a draft, or    *)
(* keeps what it showed.                                                   *)
LEMMA MarkIssuedIInv ==
  ASSUME IInv, NEW w \in Workers, MarkIssued(w)
  PROVE  IInv'
<1> DEFINE new == [invoice EXCEPT !.status = IF req[w].op = "send" THEN "sent" ELSE "cancelled",
                                  !.party = mem[w].party, !.template = mem[w].template]
<1>1. /\ pc[w] = "mark" /\ lock' = Unlocked /\ Finish(w)
      /\ UNCHANGED <<org, logos, currency, address, template, paid>>
  BY DEF MarkIssued, live
<1>2. Routed(w) /\ Issuing(w) /\ Loadable(w)
  BY <1>1 DEF IInv, Knows, Routed
<1>3. invoice' = new \/ invoice' = invoice
  BY <1>2 DEF MarkIssued, Issuing
<1>4. /\ new \in Invoice /\ new.status \in {"sent", "cancelled"}
      /\ new.party = mem[w].party /\ new.template = mem[w].template
      /\ new.status = "sent" => req[w].op = "send"
  <2> DEFINE st == IF req[w].op = "send" THEN "sent" ELSE "cancelled"
             a == [invoice EXCEPT !.status = st]
             b == [a EXCEPT !.party = mem[w].party]
  <2>1. new = [b EXCEPT !.template = mem[w].template]
    BY Zenon
  <2>2. /\ st \in Statuses /\ st \in {"sent", "cancelled"} /\ (st = "sent" => req[w].op = "send")
        /\ mem[w].party \in Party /\ mem[w].template \in Templates \cup {None}
    BY DEF Statuses, IInv, TypeOK, Memory
  <2> HIDE DEF st
  <2>3. a \in Invoice /\ a.status = st
    BY <2>2 DEF IInv, TypeOK, Invoice
  <2> HIDE DEF a
  <2>4. b \in Invoice /\ b.status = st /\ b.party = mem[w].party
    BY <2>2, <2>3 DEF Invoice
  <2> HIDE DEF b, new
  <2>5. QED
    BY <2>1, <2>2, <2>4 DEF Invoice
<1> HIDE DEF new
<1>5. TypeOK'
  BY <1>1, <1>3, <1>4, FinishType DEF IInv, TypeOK, Requests
<1>6. /\ invoice.status # "draft" =>
           /\ invoice'.status # "draft"
           /\ invoice'.party = invoice.party /\ invoice'.template = invoice.template
      /\ invoice.status = "paid" => invoice'.status = "paid"
  BY <1>2, <1>3, <1>4 DEF Issuing
<1>7. \A x \in Workers \ {w} : lock # x
  BY <1>2 DEF Issuing
<1>8. org \in Organisation /\ org.version \in Nat
  BY DEF IInv, TypeOK, Organisation
<1>9. \A x \in Workers \ {w} : Knows(x)'
  BY <1>1, <1>6, <1>7, <1>8, FinishType, KnowsKept DEF IInv
<1>10. Knows(w)'
  BY <1>1, FinishType
<1>11. VATNumberPresent' /\ Money'
  BY <1>1, <1>2, <1>3, <1>4, TotalAssumption DEF IInv, VATNumberPresent, Money, Issuing
<1>12. invoice'.party.logo \in logos' \cup {None}
  BY <1>1, <1>2, <1>3, <1>4 DEF IInv, Loadable
<1>13. QED
  BY <1>1, <1>5, <1>9, <1>10, <1>11, <1>12 DEF IInv

(* The four reads of live data fill in a snapshot or a draft's PDF.        *)
LEMMA LiveReadIInv ==
  ASSUME IInv, NEW w \in Workers, NEW m \in Memory, NEW s \in Reads \cup {"resolve", "render", "mark"},
         pc[w] \in Reads, pc' = [pc EXCEPT ![w] = s], mem' = [mem EXCEPT ![w] = m],
         UNCHANGED <<org, logos, currency, address, template, invoice, paid, lock, req>>,
         s = "mark" => req[w].op # "pdf", s \in {"resolve", "render"} => req[w].op = "pdf",
         m.inv = mem[w].inv, m.party.logo \in logos \cup {None}
  PROVE  IInv'
<1>1. Routed(w) /\ (req[w].op # "pdf" => Issuing(w)) /\ (req[w].op = "pdf" => Printer(w))
  BY DEF IInv, Knows
<1>2. ASSUME pc'[w] = s, mem'[w] = m PROVE Knows(w)'
  <2>1. Routed(w)' /\ Loadable(w)'
    BY <1>1, <1>2 DEF Routed, Loadable, Reads
  <2>2. req[w].op # "pdf" => Issuing(w)'
    BY <1>1, <1>2 DEF Issuing, Reads
  <2>3. req[w].op = "pdf" => Printer(w)'
    BY <1>1, <1>2 DEF Printer, Reads
  <2>4. QED
    BY <1>2, <2>1, <2>2, <2>3 DEF Knows, Reads
<1>3. s \in Steps
  BY DEF Steps, Reads
<1>4. QED
  BY <1>2, <1>3, QuietStep

LEMMA ReadIInv ==
  ASSUME IInv, NEW w \in Workers,
         ReadOrganisation(w) \/ ReadSettings(w) \/ ReadAddress(w) \/ ReadDefaultTemplate(w)
  PROVE  IInv'
<1>1. /\ UNCHANGED <<org, logos, currency, address, template, invoice, paid, lock, req>>
      /\ mem[w] \in Memory /\ mem[w].party \in Party /\ mem[w].party.logo \in logos \cup {None}
      /\ pc[w] \in Reads => req[w].op \in {"send", "cancel", "pdf"}
  BY DEF ReadOrganisation, ReadSettings, ReadAddress, ReadDefaultTemplate, live, issued,
         IInv, TypeOK, Memory, Knows, Loadable, Routed
<1>2. ASSUME NEW q \in Party, NEW s \in Reads \cup {"resolve"}, q.logo \in logos \cup {None},
             mem' = [mem EXCEPT ![w].party = q], pc' = [pc EXCEPT ![w] = s], pc[w] \in Reads,
             s = "resolve" => req[w].op = "pdf"
      PROVE  IInv'
  <2> DEFINE m == [mem[w] EXCEPT !.party = q]
  <2>1. m \in Memory /\ m.inv = mem[w].inv /\ m.party = q
    BY <1>1 DEF Memory
  <2>2. mem' = [mem EXCEPT ![w] = m]
    BY <1>2 DEF IInv, TypeOK
  <2> HIDE DEF m
  <2>3. QED
    BY <1>1, <1>2, <2>1, <2>2, LiveReadIInv DEF Reads
<1>3. CASE ReadOrganisation(w)
  <2>1. /\ org.details \in Details \cup {None} /\ SellerVATNumber(org) \in TaxIDs \cup {None}
        /\ org.logo \in Logos \cup {None} /\ org.logo \in logos \cup {None}
    BY DEF IInv, TypeOK, Organisation, SellerVATNumber
  <2> DEFINE q == [mem[w].party EXCEPT !.details = org.details, !.taxID = SellerVATNumber(org),
                                       !.logo = org.logo]
  <2>2. mem' = [mem EXCEPT ![w].party = q] /\ pc' = [pc EXCEPT ![w] = "settings"] /\ pc[w] = "organisation"
    BY <1>3 DEF ReadOrganisation, Goto
  <2>0. q = [[[mem[w].party EXCEPT !.details = org.details] EXCEPT !.taxID = SellerVATNumber(org)]
                EXCEPT !.logo = org.logo]
    BY Zenon
  <2> HIDE DEF q
  <2>3. q \in Party /\ q.logo = org.logo
    BY <1>1, <2>0, <2>1 DEF Party
  <2>4. QED
    BY <1>2, <2>1, <2>2, <2>3 DEF Reads
<1>4. CASE ReadSettings(w)
  <2> DEFINE q == [mem[w].party EXCEPT !.currency = currency]
  <2>1. q \in Party /\ q.logo = mem[w].party.logo
    BY <1>1 DEF Party, IInv, TypeOK
  <2>2. mem' = [mem EXCEPT ![w].party = q] /\ pc' = [pc EXCEPT ![w] = "address"] /\ pc[w] = "settings"
    BY <1>4 DEF ReadSettings, Goto
  <2> HIDE DEF q
  <2>3. QED
    BY <1>1, <1>2, <2>1, <2>2 DEF Reads
<1>5. CASE ReadAddress(w)
  <2> DEFINE q == [mem[w].party EXCEPT !.address = address]
             s == IF req[w].op = "pdf" THEN "resolve" ELSE "template"
  <2>1. q \in Party /\ q.logo = mem[w].party.logo
    BY <1>1 DEF Party, IInv, TypeOK
  <2>2. mem' = [mem EXCEPT ![w].party = q] /\ pc' = [pc EXCEPT ![w] = s] /\ pc[w] = "address"
    BY <1>5 DEF ReadAddress, Goto
  <2>3. s \in {"resolve", "template"} /\ (s = "resolve" => req[w].op = "pdf")
    OBVIOUS
  <2> HIDE DEF q, s
  <2>4. QED
    BY <1>1, <1>2, <2>1, <2>2, <2>3 DEF Reads
<1>6. CASE ReadDefaultTemplate(w)
  <2> DEFINE m == [mem[w] EXCEPT !.template = template]
             s == IF req[w].op = "pdf" THEN "render" ELSE "mark"
  <2>1. m \in Memory /\ m.inv = mem[w].inv /\ m.party = mem[w].party
    BY <1>1 DEF Memory, IInv, TypeOK
  <2>2. mem' = [mem EXCEPT ![w] = m] /\ pc' = [pc EXCEPT ![w] = s] /\ pc[w] = "template"
    BY <1>6 DEF ReadDefaultTemplate, Goto, IInv, TypeOK
  <2>3. s \in {"render", "mark"} /\ (s = "render" <=> req[w].op = "pdf")
    OBVIOUS
  <2> HIDE DEF m, s
  <2>4. QED
    BY <1>1, <2>1, <2>2, <2>3, LiveReadIInv DEF Reads
<1>7. QED
  BY <1>3, <1>4, <1>5, <1>6

-----------------------------------------------------------------------------
(* A PDF. *)

LEMMA ReadInvoiceIInv ==
  ASSUME IInv, NEW w \in Workers, ReadInvoice(w)
  PROVE  IInv'
<1> DEFINE m == [mem[w] EXCEPT !.inv = invoice]
<1>1. /\ pc[w] = "invoice" /\ pc' = [pc EXCEPT ![w] = "paid"] /\ mem' = [mem EXCEPT ![w] = m]
      /\ UNCHANGED <<org, logos, currency, address, template, invoice, paid, lock, req>>
  BY DEF ReadInvoice, Goto, live, issued, IInv, TypeOK
<1>2. /\ m \in Memory /\ m.inv = invoice /\ m.party = mem[w].party /\ invoice \in Invoice
      /\ Routed(w) /\ Loadable(w) /\ invoice.party.logo \in logos \cup {None}
  BY DEF IInv, TypeOK, Memory, Knows
<1> HIDE DEF m
<1>3. ASSUME pc'[w] = "paid", mem'[w] = m PROVE Knows(w)'
  BY <1>1, <1>2, <1>3 DEF Knows, Routed, Loadable, Printer, Reads
<1>4. "paid" \in Steps
  BY DEF Steps
<1>5. QED
  BY <1>1, <1>2, <1>3, <1>4, QuietStep

LEMMA ReadPaidIInv ==
  ASSUME IInv, NEW w \in Workers, ReadPaid(w)
  PROVE  IInv'
<1>1. /\ pc[w] = "paid"
      /\ UNCHANGED <<org, logos, currency, address, template, invoice, paid, lock>>
  BY DEF ReadPaid, live, issued
<1>2. /\ Routed(w) /\ Loadable(w) /\ req[w].op = "pdf" /\ Printer(w)
      /\ mem[w] \in Memory /\ paid \in Nat
  BY <1>1, TotalAssumption DEF IInv, TypeOK, Knows, Routed
<1>3. mem[w].inv \in Invoice /\ mem[w].inv.party \in Party
  BY <1>2 DEF Printer, Invoice
<1>4. CASE Finish(w)
  BY <1>1, <1>4, FinishStep DEF IInv, TypeOK
<1>5. CASE /\ mem[w].inv.status = "draft" /\ mem' = [mem EXCEPT ![w].paid = paid]
           /\ pc' = [pc EXCEPT ![w] = "organisation"] /\ UNCHANGED req
  <2> DEFINE m == [mem[w] EXCEPT !.paid = paid]
  <2>1. m \in Memory /\ m.inv = mem[w].inv /\ m.party = mem[w].party
    BY <1>2 DEF Memory
  <2>2. mem' = [mem EXCEPT ![w] = m]
    BY <1>5 DEF IInv, TypeOK
  <2> HIDE DEF m
  <2>3. ASSUME pc'[w] = "organisation", mem'[w] = m PROVE Knows(w)'
    BY <1>1, <1>2, <1>5, <2>1, <2>3 DEF Knows, Routed, Loadable, Printer, Reads
  <2>4. "organisation" \in Steps
    BY DEF Steps
  <2>5. QED
    BY <1>1, <1>5, <2>1, <2>2, <2>3, <2>4, QuietStep
<1>6. CASE /\ mem[w].inv.status # "draft"
           /\ mem' = [mem EXCEPT ![w] = [@ EXCEPT !.paid = paid, !.party = mem[w].inv.party]]
           /\ pc' = [pc EXCEPT ![w] = "resolve"] /\ UNCHANGED req
  <2> DEFINE m == [mem[w] EXCEPT !.paid = paid, !.party = mem[w].inv.party]
  <2>1. mem' = [mem EXCEPT ![w] = m]
    BY <1>6 DEF IInv, TypeOK
  <2>2. m = [[mem[w] EXCEPT !.paid = paid] EXCEPT !.party = mem[w].inv.party]
    BY Zenon
  <2> HIDE DEF m
  <2>3. m \in Memory /\ m.inv = mem[w].inv /\ m.party = mem[w].inv.party /\ m.paid = paid
    BY <1>2, <1>3, <2>2 DEF Memory
  <2>4. mem[w].inv.status = "paid" => paid = Total
    BY <1>2 DEF IInv, Money, Printer
  <2>5. ASSUME pc'[w] = "resolve", mem'[w] = m PROVE Knows(w)'
    BY <1>1, <1>2, <1>6, <2>3, <2>4, <2>5 DEF Knows, Routed, Loadable, Printer, Reads
  <2>6. "resolve" \in Steps
    BY DEF Steps
  <2>7. QED
    BY <1>1, <1>6, <2>1, <2>3, <2>5, <2>6, QuietStep
<1>7. QED
  BY <1>4, <1>5, <1>6 DEF ReadPaid, Goto

(* An invoice that was issued at the first read is issued at the second.   *)
LEMMA ResolveTemplateIInv ==
  ASSUME IInv, NEW w \in Workers, ResolveTemplate(w)
  PROVE  IInv'
<1>1. /\ pc[w] = "resolve"
      /\ UNCHANGED <<org, logos, currency, address, template, invoice, paid, lock, req>>
  BY DEF ResolveTemplate, live, issued
<1>2. Routed(w) /\ Loadable(w) /\ req[w].op = "pdf" /\ Printer(w) /\ mem[w] \in Memory
  BY <1>1 DEF IInv, TypeOK, Knows, Routed
<1>3. CASE invoice.status = "draft"
  <2>1. pc' = [pc EXCEPT ![w] = "template"] /\ mem' = [mem EXCEPT ![w] = mem[w]]
    BY <1>3 DEF ResolveTemplate, Goto, IInv, TypeOK
  <2>2. ASSUME pc'[w] = "template", mem'[w] = mem[w] PROVE Knows(w)'
    BY <1>1, <1>2, <1>3, <2>2 DEF Knows, Routed, Loadable, Printer, Reads
  <2>3. "template" \in Steps
    BY DEF Steps
  <2>4. QED
    BY <1>1, <1>2, <2>1, <2>2, <2>3, QuietStep
<1>4. CASE invoice.status # "draft"
  <2> DEFINE m == [mem[w] EXCEPT !.template = TemplateOf(invoice), !.frozen = TRUE]
  <2>1. pc' = [pc EXCEPT ![w] = "render"] /\ mem' = [mem EXCEPT ![w] = m]
    BY <1>4 DEF ResolveTemplate, Goto, IInv, TypeOK
  <2>2. m = [[mem[w] EXCEPT !.template = TemplateOf(invoice)] EXCEPT !.frozen = TRUE]
    BY Zenon
  <2> HIDE DEF m
  <2>3. TemplateOf(invoice) \in Templates
    BY TemplateAssumption DEF TemplateOf, IInv, TypeOK, Invoice
  <2>4. /\ m \in Memory /\ m.inv = mem[w].inv /\ m.party = mem[w].party /\ m.paid = mem[w].paid
        /\ m.template = TemplateOf(invoice)
    BY <1>2, <2>2, <2>3 DEF Memory
  <2>5. ASSUME pc'[w] = "render", mem'[w] = m PROVE Knows(w)'
    BY <1>1, <1>2, <2>4, <2>5 DEF Knows, Routed, Loadable, Printer, Reads, TemplateOf
  <2>6. "render" \in Steps
    BY DEF Steps
  <2>7. QED
    BY <1>1, <2>1, <2>4, <2>5, <2>6, QuietStep
<1>5. QED
  BY <1>3, <1>4

LEMMA RenderIInv ==
  ASSUME IInv, NEW w \in Workers, Render(w) \/ Deliver(w) \/ GetLogo(w)
  PROVE  IInv'
<1>1. UNCHANGED <<org, logos, currency, address, template, invoice, paid, lock>>
  BY DEF Render, Deliver, GetLogo, live, issued
<1>2. CASE Finish(w)
  BY <1>1, <1>2, FinishStep DEF IInv, TypeOK
<1>3. CASE ~Finish(w)
  <2>1. /\ pc[w] = "render" /\ pc' = [pc EXCEPT ![w] = "printed"] /\ UNCHANGED req
        /\ mem' = [mem EXCEPT ![w] = mem[w]] /\ mem[w] \in Memory
    BY <1>3 DEF Render, Deliver, GetLogo, Goto, IInv, TypeOK
  <2>2. Knows(w)
    BY DEF IInv
  <2>3. ASSUME pc'[w] = "printed", mem'[w] = mem[w] PROVE Knows(w)'
    BY <1>1, <2>1, <2>2, <2>3 DEF Knows, Routed, Loadable, Printer, Reads, TemplateOf
  <2>4. "printed" \in Steps
    BY DEF Steps
  <2>5. QED
    BY <1>1, <2>1, <2>3, <2>4, QuietStep
<1>4. QED
  BY <1>2, <1>3

LEMMA ReadLogoIDIInv ==
  ASSUME IInv, NEW w \in Workers, ReadLogoID(w)
  PROVE  IInv'
<1>1. UNCHANGED <<org, logos, currency, address, template, invoice, paid, lock>> /\ pc[w] = "logoID"
  BY DEF ReadLogoID, live, issued
<1>2. CASE Finish(w)
  BY <1>1, <1>2, FinishStep DEF IInv, TypeOK
<1>3. CASE ~Finish(w)
  <2> DEFINE q == [mem[w].party EXCEPT !.logo = org.logo]
             m == [mem[w] EXCEPT !.party = q]
  <2>1. pc' = [pc EXCEPT ![w] = "image"] /\ UNCHANGED req /\ mem' = [mem EXCEPT ![w] = m]
    BY <1>3 DEF ReadLogoID, Goto, IInv, TypeOK
  <2>2. /\ mem[w] \in Memory /\ mem[w].party \in Party
        /\ org.logo \in Logos \cup {None} /\ org.logo \in logos \cup {None}
    BY DEF IInv, TypeOK, Memory, Organisation
  <2>3. q \in Party /\ q.logo = org.logo
    BY <2>2 DEF Party
  <2> HIDE DEF q
  <2>4. m \in Memory /\ m.party = q
    BY <2>2, <2>3 DEF Memory
  <2> HIDE DEF m
  <2>5. ASSUME pc'[w] = "image", mem'[w] = m PROVE Knows(w)'
    BY <1>1, <2>2, <2>3, <2>4, <2>5 DEF Knows, Routed, Loadable, Reads
  <2>6. "image" \in Steps
    BY DEF Steps
  <2>7. QED
    BY <1>1, <2>1, <2>4, <2>5, <2>6, QuietStep
<1>4. QED
  BY <1>2, <1>3

-----------------------------------------------------------------------------
(* The organisation. *)

LEMMA PatchedType ==
  ASSUME NEW o \in Organisation, NEW p \in Patches
  PROVE  /\ Patched(o, p) \in Organisation
         /\ Patched(o, p) = [details |-> Field(o.details, p.details),
                             taxID |-> Field(o.taxID, p.taxID), vat |-> Field(o.vat, p.vat),
                             logo |-> o.logo, version |-> o.version]
<1> DEFINE d == Field(o.details, p.details)
           t == Field(o.taxID, p.taxID)
           v == Field(o.vat, p.vat)
<1>1. d \in Details /\ t \in TaxIDs \cup {None}
  BY PatchAssumption DEF Field, Organisation
<1>2. v \in BOOLEAN
  <2>1. p.vat \in BOOLEAN \cup {Unchanged} /\ o.vat \in BOOLEAN
    BY PatchAssumption DEF Organisation
  <2>2. QED
    BY <2>1, Zenon DEF Field
<1>3. Patched(o, p) = [[[o EXCEPT !.details = d] EXCEPT !.taxID = t] EXCEPT !.vat = v]
  BY Zenon DEF Patched
<1> HIDE DEF d, t, v
<1>4. /\ Patched(o, p) \in Organisation
      /\ Patched(o, p) = [details |-> d, taxID |-> t, vat |-> v, logo |-> o.logo,
                          version |-> o.version]
  BY <1>1, <1>2, <1>3 DEF Organisation
<1>5. QED
  BY <1>4 DEF d, t, v

LEMMA MergeEditIInv ==
  ASSUME IInv, NEW w \in Workers, MergeEdit(w)
  PROVE  IInv'
<1>1. UNCHANGED <<org, logos, currency, address, template, invoice, paid, lock>> /\ pc[w] = "merge"
  BY DEF MergeEdit, live, issued
<1>2. CASE Finish(w)
  BY <1>1, <1>2, FinishStep DEF IInv, TypeOK
<1>3. CASE ~Finish(w)
  <2> DEFINE row == Patched(org, req[w].patch)
             m == [mem[w] EXCEPT !.row = row]
  <2>1. /\ pc' = [pc EXCEPT ![w] = "save"] /\ UNCHANGED req /\ mem' = [mem EXCEPT ![w] = m]
        /\ ValidOrganisation(row, req[w].patch)
    BY <1>3 DEF MergeEdit, Goto, IInv, TypeOK
  <2>2. /\ Routed(w) /\ Loadable(w) /\ req[w].patch \in Patches
        /\ mem[w] \in Memory /\ org \in Organisation
    BY <1>1 DEF IInv, TypeOK, Knows, Routed, EditRequests
  <2>3. /\ row \in Organisation
        /\ row.details = Field(org.details, req[w].patch.details)
        /\ row.taxID = Field(org.taxID, req[w].patch.taxID)
        /\ row.vat = Field(org.vat, req[w].patch.vat)
    BY <2>2, PatchedType
  <2> HIDE DEF row
  <2>4. m \in Memory /\ m.row = row /\ m.party = mem[w].party
    BY <2>2, <2>3 DEF Memory
  <2> HIDE DEF m
  <2>5. ASSUME pc'[w] = "save", mem'[w] = m PROVE Knows(w)'
    BY <1>1, <2>1, <2>2, <2>3, <2>4, <2>5
       DEF Knows, Routed, Loadable, Reads, Merged, ValidOrganisation
  <2>6. "save" \in Steps
    BY DEF Steps
  <2>7. QED
    BY <1>1, <2>1, <2>4, <2>5, <2>6, QuietStep
<1>4. QED
  BY <1>2, <1>3

LEMMA WrittenType ==
  ASSUME org \in Organisation, NEW o \in Organisation
  PROVE  /\ Written(o) \in Organisation
         /\ Written(o) = [details |-> o.details, taxID |-> o.taxID, vat |-> o.vat,
                          logo |-> org.logo, version |-> org.version + 1]
<1>1. Written(o) = [[o EXCEPT !.logo = org.logo] EXCEPT !.version = org.version + 1]
  BY Zenon DEF Written
<1>2. org.logo \in Logos \cup {None} /\ org.version + 1 \in Nat
  BY DEF Organisation
<1> DEFINE l == org.logo
           v == org.version + 1
           a == [o EXCEPT !.logo = l]
<1>3. Written(o) = [a EXCEPT !.version = v]
  BY <1>1
<1> HIDE DEF l, v
<1>4. a \in Organisation /\ a.details = o.details /\ a.taxID = o.taxID /\ a.vat = o.vat /\ a.logo = l
  BY <1>2 DEF Organisation, l
<1> HIDE DEF a
<1>5. /\ [a EXCEPT !.version = v] \in Organisation
      /\ [a EXCEPT !.version = v] = [details |-> a.details, taxID |-> a.taxID, vat |-> a.vat,
                                    logo |-> a.logo, version |-> v]
  BY <1>2, <1>4 DEF Organisation, v
<1>6. QED
  BY <1>3, <1>4, <1>5 DEF l, v

LEMMA SaveEditIInv ==
  ASSUME IInv, NEW w \in Workers, SaveEdit(w)
  PROVE  IInv'
<1>1. /\ pc[w] = "save" /\ Finish(w)
      /\ UNCHANGED <<logos, currency, address, template, invoice, paid, lock>>
      /\ org' = Written(mem[w].row) \/ org' = org
  BY DEF SaveEdit, issued
<1>2. Merged(w) /\ org \in Organisation /\ org.version \in Nat
  BY <1>1 DEF IInv, TypeOK, Knows, Organisation
<1>3. /\ org' \in Organisation /\ org'.logo = org.logo
      /\ org' = org \/ org'.version = org.version + 1
      /\ org'.vat => org'.taxID # None
  BY <1>1, <1>2, WrittenType DEF Merged, IInv, VATNumberPresent
<1>4. TypeOK'
  BY <1>1, <1>3, FinishType DEF IInv, TypeOK, Requests
<1>5. \A x \in Workers \ {w} : Knows(x)'
  <2>1. org.version <= org'.version
    BY <1>2, <1>3
  <2>2. org'.version = org.version =>
          org'.details = org.details /\ org'.taxID = org.taxID /\ org'.vat = org.vat
    BY <1>2, <1>3
  <2>3. QED
    BY <1>1, <1>3, <2>1, <2>2, FinishType, KnowsKept DEF IInv
<1>6. VATNumberPresent' /\ Money'
  BY <1>1, <1>3 DEF IInv, VATNumberPresent, Money
<1>7. QED
  BY <1>1, <1>3, <1>4, <1>5, <1>6, FinishType DEF IInv

LEMMA LogoIInv ==
  ASSUME IInv, SetLogo \/ RemoveLogo
  PROVE  IInv'
<1>1. /\ UNCHANGED <<currency, address, template, invoice, paid, lock, pc, req, mem>>
      /\ logos \subseteq logos' /\ logos' \subseteq Logos
      /\ \E l \in Logos \cup {None} : l \in logos' \cup {None} /\ org' = [org EXCEPT !.logo = l]
  BY DEF SetLogo, RemoveLogo, issued, IInv, TypeOK
<1>2. org \in Organisation
  BY DEF IInv, TypeOK
<1>3. /\ org' \in Organisation /\ org'.version = org.version /\ org'.details = org.details
      /\ org'.taxID = org.taxID /\ org'.vat = org.vat /\ org'.logo \in logos' \cup {None}
      /\ org.version \in Nat
  BY <1>1, <1>2 DEF Organisation
<1>4. TypeOK'
  BY <1>1, <1>3 DEF IInv, TypeOK
<1>5. \A w \in Workers : Knows(w)'
  BY <1>1, <1>3, KnowsKept DEF IInv
<1>6. VATNumberPresent' /\ Money'
  BY <1>1, <1>3 DEF IInv, VATNumberPresent, Money
<1>7. QED
  BY <1>1, <1>3, <1>4, <1>5, <1>6 DEF IInv

LEMMA ChangeLiveDataIInv ==
  ASSUME IInv, ChangeLiveData
  PROVE  IInv'
<1>1. UNCHANGED <<org, logos, invoice, paid, lock, pc, req, mem>>
  BY DEF ChangeLiveData, issued
<1>2. TypeOK'
  BY <1>1 DEF IInv, TypeOK, ChangeLiveData
<1>3. org \in Organisation /\ org.version \in Nat
  BY DEF IInv, TypeOK, Organisation
<1>4. \A w \in Workers : Knows(w)'
  BY <1>1, <1>3, KnowsKept DEF IInv
<1>5. QED
  BY <1>1, <1>2, <1>4 DEF IInv, VATNumberPresent, Money

(* No payment while somebody holds the row, and none beyond the total.     *)
LEMMA PayIInv ==
  ASSUME IInv, Pay
  PROVE  IInv'
<1>1. /\ lock = Unlocked /\ invoice.status = "sent"
      /\ UNCHANGED <<org, logos, currency, address, template, lock, pc, req, mem>>
  BY DEF Pay, live
<1>2. PICK amount \in 1..(Total - paid) :
        /\ paid' = paid + amount
        /\ invoice' = [invoice EXCEPT !.status = IF paid + amount = Total THEN "paid" ELSE @]
  BY DEF Pay, AmountsAccepted
<1>3. paid \in 0..Total /\ paid' \in 0..Total /\ (paid' # Total => paid' < Total)
  BY <1>2, TotalAssumption DEF IInv, TypeOK
<1>4. /\ invoice' \in Invoice /\ invoice'.party = invoice.party
      /\ invoice'.template = invoice.template
      /\ invoice'.status = IF paid' = Total THEN "paid" ELSE "sent"
  BY <1>1, <1>2 DEF IInv, TypeOK, Invoice, Statuses
<1>5. TypeOK'
  BY <1>1, <1>3, <1>4 DEF IInv, TypeOK
<1>6. org \in Organisation /\ org.version \in Nat
  BY DEF IInv, TypeOK, Organisation
<1>7. \A w \in Workers : Knows(w)'
  BY <1>1, <1>4, <1>6, UnlockedAssumption, KnowsKept DEF IInv
<1>8. VATNumberPresent' /\ Money'
  BY <1>1, <1>3, <1>4 DEF IInv, VATNumberPresent, Money
<1>9. QED
  BY <1>1, <1>4, <1>5, <1>7, <1>8 DEF IInv

LEMMA NextIInv == IInv /\ [Next]_vars => IInv'
<1> SUFFICES ASSUME IInv, [Next]_vars PROVE IInv'
  OBVIOUS
<1>1. CASE UNCHANGED vars
  <2>1. UNCHANGED <<org, logos, currency, address, template, invoice, paid, lock, pc, req, mem>>
    BY <1>1 DEF vars
  <2>2. TypeOK' /\ VATNumberPresent' /\ Money'
    BY <2>1 DEF IInv, TypeOK, VATNumberPresent, Money
  <2>3. org \in Organisation /\ org.version \in Nat
    BY DEF IInv, TypeOK, Organisation
  <2>4. \A w \in Workers : Knows(w)'
    BY <2>1, <2>3, KnowsKept DEF IInv
  <2>5. QED
    BY <2>1, <2>2, <2>4 DEF IInv
<1>2. CASE SetLogo \/ RemoveLogo \/ ChangeLiveData \/ Pay
  BY <1>2, LogoIInv, ChangeLiveDataIInv, PayIInv
<1>3. ASSUME NEW w \in Workers,
             \/ Receive(w) \/ Abort(w) \/ GetForUpdate(w) \/ MarkIssued(w)
             \/ ReadOrganisation(w) \/ ReadSettings(w) \/ ReadAddress(w) \/ ReadDefaultTemplate(w)
             \/ ReadInvoice(w) \/ ReadPaid(w) \/ ResolveTemplate(w) \/ Render(w) \/ Deliver(w)
             \/ MergeEdit(w) \/ SaveEdit(w) \/ ReadLogoID(w) \/ GetLogo(w)
      PROVE  IInv'
  BY <1>3, ReceiveIInv, AbortIInv, GetForUpdateIInv, MarkIssuedIInv, ReadIInv, ReadInvoiceIInv,
     ReadPaidIInv, ResolveTemplateIInv, RenderIInv, MergeEditIInv, SaveEditIInv, ReadLogoIDIInv
<1>4. QED
  BY <1>1, <1>2, <1>3 DEF Next

LEMMA SpecIInv == Spec => []IInv
BY InitIInv, NextIInv, PTL DEF Spec

-----------------------------------------------------------------------------
(* Every variable keeps its type. *)
THEOREM DocumentsTypeCorrect == Spec => []TypeOK
<1>1. IInv => TypeOK
  BY DEF IInv
<1>2. QED
  BY <1>1, SpecIInv, PTL

(* A VAT registered organisation has its number, whichever edits race      *)
(* (OrganisationService.Update).                                           *)
THEOREM VATNumberNeverMissing == Spec => []VATNumberPresent
<1>1. IInv => VATNumberPresent
  BY DEF IInv
<1>2. QED
  BY <1>1, SpecIInv, PTL

(* A logo that anything still refers to can be loaded (SaveLogo, ClearLogo). *)
THEOREM LogosNeverDangle == Spec => []LogosKept
<1>1. IInv => LogosKept
  BY DEF IInv, LogosKept, Knows, Loadable
<1>2. QED
  BY <1>1, SpecIInv, PTL

(* A document of an issued invoice shows what the invoice froze, for any   *)
(* data and any edits before, during and after (InvoicePDFService).        *)
THEOREM IssuedDocumentsStable == Spec => []IssuedDocumentStable
<1>1. IInv => IssuedDocumentStable
  BY DEF IInv, IssuedDocumentStable, Printing, Printed, Knows, Routed, Printer, Reads
<1>2. QED
  BY <1>1, SpecIInv, PTL

(* A document marked PAID shows no balance, whatever the invoice's total:  *)
(* of one that owes nothing no document is ever marked PAID.               *)
THEOREM PaidDocumentsSettled == Spec => []PaidDocumentHasNoBalance
<1>1. IInv => PaidDocumentHasNoBalance
  BY TotalAssumption
     DEF IInv, PaidDocumentHasNoBalance, ShowPaymentSummary, Printing, Printed, Knows, Routed,
         Printer, Reads
<1>2. QED
  BY <1>1, SpecIInv, PTL

(* No edit of the organisation overwrites another edit or a logo change,   *)
(* for any number of editors and versions (expectedVersion).               *)
THEOREM OrganisationEditsAtomic == Spec => EditsAreAtomic
<1>1. ASSUME IInv, Next, org'.version # org.version
      PROVE  \E w \in Workers : /\ req[w] \in EditRequests
                                /\ org' = [Patched(org, req[w].patch) EXCEPT !.version = @ + 1]
  <2>1. PICK w \in Workers : SaveEdit(w)
    <3>1. org \in Organisation
      BY <1>1 DEF IInv, TypeOK
    <3>2. ASSUME NEW l \in Logos \cup {None}, org' = [org EXCEPT !.logo = l]
          PROVE  org'.version = org.version
      BY <3>1, <3>2 DEF Organisation
    <3>3. ~SetLogo /\ ~RemoveLogo
      BY <1>1, <3>2 DEF SetLogo, RemoveLogo
    <3>4. QED
      BY <1>1, <3>3
         DEF Next, Receive, Abort, GetForUpdate, MarkIssued, ReadOrganisation, ReadSettings,
             ReadAddress, ReadDefaultTemplate, ReadInvoice, ReadPaid, ResolveTemplate, Render,
             Deliver, MergeEdit, ReadLogoID, GetLogo, ChangeLiveData, Pay, live
  <2>2. pc[w] = "save" /\ VersionMatches(w) /\ org' = Written(mem[w].row)
    BY <1>1, <2>1 DEF SaveEdit
  <2>3. /\ Merged(w) /\ req[w] \in EditRequests /\ org.version = req[w].expected
        /\ org \in Organisation
    BY <1>1, <2>2 DEF IInv, TypeOK, Knows, Routed, VersionMatches
  <2>4. req[w].patch \in Patches
    BY <2>3 DEF EditRequests
  <2> DEFINE p == req[w].patch
  <2>5. org' = [details |-> Field(org.details, p.details), taxID |-> Field(org.taxID, p.taxID),
                vat |-> Field(org.vat, p.vat), logo |-> org.logo, version |-> org.version + 1]
    BY <2>2, <2>3, WrittenType DEF Merged
  <2>6. org' = [Patched(org, p) EXCEPT !.version = @ + 1]
    BY <2>3, <2>4, <2>5, PatchedType
  <2>7. QED
    BY <2>3, <2>6
<1>2. QED
  BY <1>1, SpecIInv, PTL DEF Spec, EditsAreAtomic, vars
=============================================================================
