----------------------- MODULE InvoiceCreationProofs -----------------------
(***************************************************************************)
(* The numbering of InvoiceCreation is right for any number of concurrent  *)
(* requests, any prefixes and any history. The inductive invariant says    *)
(* that the holder of the lock on the settings row has in memory what is   *)
(* committed, and that a number it has found free stays free until it      *)
(* commits; and, of the edits, that equal versions mean equal contents.    *)
(***************************************************************************)
EXTENDS InvoiceCreation, SequenceTheorems, TLAPS

IInv ==
  /\ TypeOK
  /\ NumbersConsecutive
  /\ NumbersUnique
  /\ AllocationConsistent
  /\ EditsConsistent

-----------------------------------------------------------------------------
(* What the helpers return. *)

(* A number allocated within the bound leaves a settings row. *)
LEMMA NextNumberType ==
  ASSUME NEW s \in SettingsRow, s.number < MaxNumber
  PROVE  /\ NextInvoiceNumber(s) \in SettingsRow
         /\ NextInvoiceNumber(s).number = s.number + 1
         /\ NextInvoiceNumber(s).prefix = s.prefix
         /\ NextInvoiceNumber(s).currency = s.currency
         /\ NextInvoiceNumber(s).version = s.version
  BY BoundAssumption DEF NextInvoiceNumber, SettingsRow

(* Merging an edit changes the prefix or the currency and nothing else, *)
(* and which one depends on the edit alone.                             *)
LEMMA MergeType ==
  ASSUME NEW s \in SettingsRow, NEW p \in Edits
  PROVE  /\ Merge(s, p) \in SettingsRow
         /\ Merge(s, p).number = s.number
         /\ Merge(s, p).version = s.version
  BY DEF Merge, SettingsRow, Edits

LEMMA MergeDepends ==
  ASSUME NEW s \in SettingsRow, NEW t \in SettingsRow, NEW p \in Edits,
         s.prefix = t.prefix, s.currency = t.currency
  PROVE  /\ Merge(s, p).prefix = Merge(t, p).prefix
         /\ Merge(s, p).currency = Merge(t, p).currency
  BY DEF Merge, SettingsRow, Edits

(* The invoice a creation inserts shows the number it has allocated. *)
LEMMA InvoiceType ==
  ASSUME NEW s \in SettingsRow, 1 <= s.number
  PROVE  /\ Invoice(s) \in InvoiceRow
         /\ Invoice(s).number = s.number
         /\ TextOf(Invoice(s)) = NumberText(s.prefix, s.number)
  BY BoundAssumption DEF Invoice, InvoiceRow, SettingsRow, TextOf

(* Under one prefix, different numbers are different texts. *)
LEMMA SamePrefixInjective ==
  ASSUME NEW p \in InvoicePrefixes, NEW m \in 0 .. MaxNumber, NEW n \in 0 .. MaxNumber,
         NumberText(p, m) = NumberText(p, n)
  PROVE  m = n
<1>1. Itoa(m) \in Seq(Nat) /\ Itoa(n) \in Seq(Nat) /\ p \in Seq(Nat)
  BY TextAssumption
<1>2. p \o Itoa(m) = p \o Itoa(n)
  BY DEF NumberText
<1>3. Itoa(m) = Itoa(n)
  BY <1>1, <1>2, ConcatSimplifications
<1>4. QED
  BY <1>3, TextAssumption

-----------------------------------------------------------------------------
LEMMA InitIInv == Init => IInv
<1> SUFFICES ASSUME Init PROVE IInv
  OBVIOUS
<1>1. PICK p \in InvoicePrefixes, c \in Currencies :
        /\ settings = [prefix |-> p, currency |-> c, number |-> Issued, version |-> 1]
        /\ invoices = [n \in 1 .. Issued |-> [prefix |-> p, number |-> n, open |-> FALSE]]
  BY DEF Init
<1>2. DOMAIN invoices = 1 .. Issued /\ Len(invoices) = Issued /\ invoices \in Seq(InvoiceRow)
  BY <1>1, BoundAssumption DEF InvoiceRow
<1>3. \A w \in Workers : pc[w] = "idle"
  BY DEF Init
<1>4. TypeOK
  <2>1. settings \in SettingsRow
    BY <1>1, BoundAssumption DEF SettingsRow
  <2>2. QED
    BY <1>2, <2>1 DEF Init, TypeOK, CustomerStatuses, Steps
<1>5. NumbersConsecutive
  BY <1>1, <1>2 DEF NumbersConsecutive
<1>6. NumbersUnique
  <2>1. SUFFICES ASSUME NEW m \in 1 .. Issued, NEW n \in 1 .. Issued,
                        TextOf(invoices[m]) = TextOf(invoices[n])
                 PROVE  m = n
    BY <1>2 DEF NumbersUnique, IsInjective
  <2>2. NumberText(p, m) = NumberText(p, n)
    BY <1>1, <2>1 DEF TextOf
  <2>3. m \in 0 .. MaxNumber /\ n \in 0 .. MaxNumber
    BY BoundAssumption
  <2>4. QED
    BY <2>2, <2>3, SamePrefixInjective
<1>7. AllocationConsistent
  BY <1>3, NullAssumption DEF Init, AllocationConsistent, Creating
<1>8. EditsConsistent
  BY <1>3 DEF EditsConsistent, EditConsistent
<1>9. QED
  BY <1>4, <1>5, <1>6, <1>7, <1>8 DEF IInv

(* A step of a worker leaves what the other workers hold alone. *)
Frame(w) ==
  \A u \in Workers \ {w} :
    pc'[u] = pc[u] /\ patch'[u] = patch[u] /\ basis'[u] = basis[u] /\ mem'[u] = mem[u]

(* Steps that leave settings, lock and invoices alone, and keep the worker *)
(* out of the transaction or in the same place of it, need only be checked *)
(* for that worker.                                                        *)
LEMMA AllocationFrame ==
  ASSUME IInv, NEW w \in Workers, Frame(w), UNCHANGED <<settings, lock, invoices>>,
         lock = w <=> pc'[w] \in Creating,
         pc'[w] = "allocate" => mem'[w] = settings,
         pc'[w] \in {"insert", "commit"} => mem'[w] = NextInvoiceNumber(settings),
         pc'[w] = "commit" => ~NumberTaken(mem'[w]),
         pc'[w] \in Creating => pc[w] \in Creating
  PROVE  NumbersConsecutive' /\ NumbersUnique' /\ AllocationConsistent'
<1>1. NumbersConsecutive' /\ NumbersUnique'
  BY DEF IInv, NumbersConsecutive, NumbersUnique, TextOf
<1>2. AllocationConsistent'
  BY DEF IInv, AllocationConsistent, Frame, NumberTaken, TextOf
<1>3. QED
  BY <1>1, <1>2

LEMMA EditsFrame ==
  ASSUME IInv, NEW w \in Workers, Frame(w), EditConsistent(w)',
         settings'.version = settings.version,
         settings'.prefix = settings.prefix, settings'.currency = settings.currency
  PROVE  EditsConsistent'
<1>1. SUFFICES ASSUME NEW u \in Workers \ {w} PROVE EditConsistent(u)'
  BY DEF EditsConsistent
<1>2. EditConsistent(u)
  BY DEF IInv, EditsConsistent
<1>3. QED
  BY <1>2 DEF EditConsistent, Frame

(* An early return. *)
LEMMA RollbackIInv ==
  ASSUME IInv, NEW w \in Workers, Rollback(w)
  PROVE  IInv'
<1>1. Frame(w) /\ pc' = [pc EXCEPT ![w] = "idle"] /\ pc'[w] = "idle"
  BY DEF Rollback, Done, Goto, Frame, IInv, TypeOK
<1>2. TypeOK'
  BY DEF IInv, TypeOK, Rollback, Done, Goto, Steps
<1>3. NumbersConsecutive' /\ NumbersUnique'
  BY DEF IInv, NumbersConsecutive, NumbersUnique, TextOf, Rollback
<1>4. AllocationConsistent'
  <2>1. \A u \in Workers : lock' = u <=> pc'[u] \in Creating
    BY <1>1, NullAssumption DEF IInv, AllocationConsistent, Rollback, Frame, Creating
  <2>2. QED
    BY <1>1, <2>1 DEF IInv, AllocationConsistent, Rollback, Frame, NumberTaken, TextOf, Creating
<1>5. EditsConsistent'
  <2>1. EditConsistent(w)'
    BY <1>1 DEF EditConsistent
  <2>2. QED
    BY <1>1, <2>1, EditsFrame DEF Rollback
<1>6. QED
  BY <1>2, <1>3, <1>4, <1>5 DEF IInv

-----------------------------------------------------------------------------
(* One lemma per action that is more than an early return. *)

LEMMA ReceiveCreateIInv ==
  ASSUME IInv, NEW w \in Workers, ReceiveCreate(w)
  PROVE  IInv'
<1>1. Frame(w) /\ pc'[w] = "checkCustomer" /\ pc[w] = "idle"
  BY DEF ReceiveCreate, Goto, Frame, IInv, TypeOK
<1>2. TypeOK'
  BY DEF IInv, TypeOK, ReceiveCreate, Goto, Steps
<1>3. lock = w <=> pc'[w] \in Creating
  BY <1>1 DEF IInv, AllocationConsistent, Creating
<1>4. NumbersConsecutive' /\ NumbersUnique' /\ AllocationConsistent'
  BY <1>1, <1>3, AllocationFrame DEF ReceiveCreate, Creating
<1>5. EditsConsistent'
  <2>1. EditConsistent(w)'
    BY <1>1 DEF EditConsistent
  <2>2. QED
    BY <1>1, <2>1, EditsFrame DEF ReceiveCreate
<1>6. QED
  BY <1>2, <1>4, <1>5 DEF IInv

LEMMA CheckCustomerIInv ==
  ASSUME IInv, NEW w \in Workers, CheckCustomer(w)
  PROVE  IInv'
<1>1. CASE customer = "active"
  <2>1. /\ Frame(w) /\ pc'[w] = "lockSettings" /\ pc[w] = "checkCustomer"
        /\ UNCHANGED <<settings, lock, customer, invoices, patch, basis, mem>>
    BY <1>1 DEF CheckCustomer, Goto, Frame, IInv, TypeOK
  <2>2. TypeOK'
    BY <1>1 DEF IInv, TypeOK, CheckCustomer, Goto, Steps
  <2>3. lock = w <=> pc'[w] \in Creating
    BY <2>1 DEF IInv, AllocationConsistent, Creating
  <2>4. NumbersConsecutive' /\ NumbersUnique' /\ AllocationConsistent'
    BY <2>1, <2>3, AllocationFrame DEF Creating
  <2>5. EditConsistent(w)'
    BY <2>1 DEF EditConsistent
  <2>6. EditsConsistent'
    BY <2>1, <2>5, EditsFrame
  <2>7. QED
    BY <2>2, <2>4, <2>6 DEF IInv
<1>2. CASE customer # "active"
  BY <1>2, RollbackIInv DEF CheckCustomer
<1>3. QED
  BY <1>1, <1>2

LEMMA LockSettingsIInv ==
  ASSUME IInv, NEW w \in Workers, LockSettings(w)
  PROVE  IInv'
<1>1. /\ Frame(w) /\ pc'[w] = "allocate" /\ pc[w] = "lockSettings" /\ mem'[w] = settings
      /\ settings.number < MaxNumber /\ lock = Unlocked /\ lock' = w
      /\ UNCHANGED <<settings, customer, invoices, patch, basis>>
  BY DEF LockSettings, RowFree, Goto, Frame, IInv, TypeOK
<1>2. TypeOK'
  BY DEF IInv, TypeOK, LockSettings, Goto, Steps
<1>3. NumbersConsecutive' /\ NumbersUnique'
  BY <1>1 DEF IInv, NumbersConsecutive, NumbersUnique, TextOf
<1>4. \A u \in Workers : pc[u] \notin Creating
  BY <1>1, NullAssumption DEF IInv, AllocationConsistent
<1>5. AllocationConsistent'
  BY <1>1, <1>4 DEF AllocationConsistent, Creating, Frame
<1>6. EditsConsistent'
  <2>1. EditConsistent(w)'
    BY <1>1 DEF EditConsistent
  <2>2. QED
    BY <1>1, <2>1, EditsFrame
<1>7. QED
  BY <1>2, <1>3, <1>5, <1>6 DEF IInv

LEMMA AllocateIInv ==
  ASSUME IInv, NEW w \in Workers, Allocate(w)
  PROVE  IInv'
<1>1. /\ Frame(w) /\ pc'[w] = "insert" /\ pc[w] = "allocate"
      /\ mem'[w] = NextInvoiceNumber(mem[w])
      /\ UNCHANGED <<settings, lock, customer, invoices, patch, basis>>
  BY DEF Allocate, Goto, Frame, IInv, TypeOK
<1>2. mem[w] = settings /\ settings \in SettingsRow /\ settings.number < MaxNumber /\ lock = w
  BY <1>1 DEF IInv, AllocationConsistent, TypeOK, Creating
<1>3. NextInvoiceNumber(mem[w]) \in SettingsRow
  BY <1>2, NextNumberType
<1>4. TypeOK'
  BY <1>3 DEF IInv, TypeOK, Allocate, Goto, Steps
<1>5. NumbersConsecutive' /\ NumbersUnique' /\ AllocationConsistent'
  BY <1>1, <1>2, AllocationFrame DEF Creating
<1>6. EditsConsistent'
  <2>1. EditConsistent(w)'
    BY <1>1 DEF EditConsistent
  <2>2. QED
    BY <1>1, <2>1, EditsFrame
<1>7. QED
  BY <1>4, <1>5, <1>6 DEF IInv

LEMMA InsertIInv ==
  ASSUME IInv, NEW w \in Workers, Insert(w)
  PROVE  IInv'
<1>1. CASE ~NumberTaken(mem[w])
  <2>1. /\ Frame(w) /\ pc'[w] = "commit" /\ pc[w] = "insert"
        /\ UNCHANGED <<settings, lock, customer, invoices, patch, basis, mem>>
    BY <1>1 DEF Insert, Goto, Frame, IInv, TypeOK
  <2>2. TypeOK'
    BY <1>1 DEF IInv, TypeOK, Insert, Goto, Steps
  <2>3. mem[w] = NextInvoiceNumber(settings) /\ lock = w
    BY <2>1 DEF IInv, AllocationConsistent, Creating
  <2>4. ~NumberTaken(mem'[w])
    BY <1>1, <2>1
  <2>5. NumbersConsecutive' /\ NumbersUnique' /\ AllocationConsistent'
    BY <2>1, <2>3, <2>4, AllocationFrame DEF Creating
  <2>6. EditConsistent(w)'
    BY <2>1 DEF EditConsistent
  <2>7. EditsConsistent'
    BY <2>1, <2>6, EditsFrame
  <2>8. QED
    BY <2>2, <2>5, <2>7 DEF IInv
<1>2. CASE NumberTaken(mem[w])
  BY <1>2, RollbackIInv DEF Insert
<1>3. QED
  BY <1>1, <1>2

(* COMMIT: the number found free under the lock is still free. *)
LEMMA CommitIInv ==
  ASSUME IInv, NEW w \in Workers, Commit(w)
  PROVE  IInv'
<1> DEFINE i == Invoice(mem[w])
<1>1. /\ Frame(w) /\ pc'[w] = "idle" /\ pc[w] = "commit" /\ lock' = Unlocked
      /\ settings' = Numbered(settings, mem[w]) /\ invoices' = Append(invoices, i)
      /\ UNCHANGED customer
  BY DEF Commit, Done, Goto, Frame, IInv, TypeOK
<1>2. /\ mem[w] = NextInvoiceNumber(settings) /\ ~NumberTaken(mem[w]) /\ lock = w
      /\ settings.number < MaxNumber /\ settings \in SettingsRow
      /\ invoices \in Seq(InvoiceRow) /\ Len(invoices) = settings.number
  BY <1>1 DEF IInv, AllocationConsistent, Creating, TypeOK, NumbersConsecutive
<1>3. /\ mem[w] \in SettingsRow /\ mem[w].number = settings.number + 1
      /\ settings.number \in Nat
  BY <1>2, NextNumberType, BoundAssumption DEF SettingsRow
<1>4. settings' = [settings EXCEPT !.number = settings.number + 1]
  BY <1>1, <1>3 DEF Numbered
<1>5. /\ settings' \in SettingsRow /\ settings'.number = settings.number + 1
      /\ settings'.version = settings.version /\ settings'.prefix = settings.prefix
      /\ settings'.currency = settings.currency
  BY <1>2, <1>3, <1>4, BoundAssumption DEF SettingsRow
<1>6. /\ i \in InvoiceRow /\ i.number = settings.number + 1
      /\ TextOf(i) = NumberText(mem[w].prefix, mem[w].number)
  BY <1>3, InvoiceType
<1>7. /\ invoices' \in Seq(InvoiceRow)
      /\ Len(invoices') = Len(invoices) + 1
      /\ \A n \in 1 .. Len(invoices) : invoices'[n] = invoices[n]
      /\ invoices'[Len(invoices) + 1] = i
  BY <1>1, <1>2, <1>6
<1>8. /\ DOMAIN invoices = 1 .. Len(invoices)
      /\ DOMAIN invoices' = 1 .. Len(invoices) + 1
      /\ Len(invoices) \in Nat
  BY <1>2, <1>7
<1>9. TypeOK'
  BY <1>1, <1>5, <1>7 DEF IInv, TypeOK, Commit, Done, Goto, Steps
<1>10. NumbersConsecutive'
  BY <1>2, <1>5, <1>6, <1>7, <1>8 DEF IInv, NumbersConsecutive
<1>11. NumbersUnique'
  <2>1. \A n \in DOMAIN invoices : TextOf(invoices[n]) # TextOf(i)
    BY <1>2, <1>6 DEF NumberTaken
  <2>2. \A m, n \in DOMAIN invoices : TextOf(invoices[m]) = TextOf(invoices[n]) => m = n
    BY DEF IInv, NumbersUnique, IsInjective
  <2>3. \A n \in DOMAIN invoices : TextOf(invoices'[n]) = TextOf(invoices[n])
    BY <1>7, <1>8
  <2>4. TextOf(invoices'[Len(invoices) + 1]) = TextOf(i)
    BY <1>7
  <2>5. \A n \in DOMAIN invoices' : n \in DOMAIN invoices \/ n = Len(invoices) + 1
    BY <1>8
  <2>6. \A m, n \in DOMAIN invoices' : TextOf(invoices'[m]) = TextOf(invoices'[n]) => m = n
    BY <2>1, <2>2, <2>3, <2>4, <2>5
  <2>7. QED
    BY <2>6 DEF NumbersUnique, IsInjective, TextOf
<1>12. \A u \in Workers : pc'[u] \notin Creating
  <2>1. \A u \in Workers \ {w} : pc[u] \notin Creating
    BY <1>2 DEF IInv, AllocationConsistent
  <2>2. QED
    BY <1>1, <2>1 DEF Frame, Creating
<1>13. AllocationConsistent'
  BY <1>1, <1>12, NullAssumption DEF AllocationConsistent, Creating
<1>14. EditsConsistent'
  <2>1. EditConsistent(w)'
    BY <1>1 DEF EditConsistent
  <2>2. QED
    BY <1>1, <1>5, <2>1, EditsFrame
<1>15. QED
  BY <1>9, <1>10, <1>11, <1>13, <1>14 DEF IInv

LEMMA ReceiveEditIInv ==
  ASSUME IInv, NEW w \in Workers, ReceiveEdit(w)
  PROVE  IInv'
<1>1. /\ Frame(w) /\ pc'[w] = "checkVersion" /\ pc[w] = "idle" /\ basis'[w] = settings
      /\ patch'[w] \in Edits /\ UNCHANGED <<settings, lock, customer, invoices, mem>>
  BY DEF ReceiveEdit, Goto, Frame, IInv, TypeOK
<1>2. settings \in SettingsRow
  BY DEF IInv, TypeOK
<1>3. TypeOK'
  BY <1>2 DEF IInv, TypeOK, ReceiveEdit, Goto, Steps
<1>4. lock = w <=> pc'[w] \in Creating
  BY <1>1 DEF IInv, AllocationConsistent, Creating
<1>5. NumbersConsecutive' /\ NumbersUnique' /\ AllocationConsistent'
  BY <1>1, <1>4, AllocationFrame DEF Creating
<1>6. EditConsistent(w)'
  BY <1>1, <1>2 DEF EditConsistent, SettingsRow
<1>7. EditsConsistent'
  BY <1>1, <1>6, EditsFrame
<1>8. QED
  BY <1>3, <1>5, <1>7 DEF IInv

LEMMA CheckVersionIInv ==
  ASSUME IInv, NEW w \in Workers, CheckVersion(w)
  PROVE  IInv'
<1>1. CASE VersionMatches(settings, basis[w].version)
  <2>1. /\ Frame(w) /\ pc'[w] = "save" /\ pc[w] = "checkVersion"
        /\ mem'[w] = Merge(settings, patch[w])
        /\ UNCHANGED <<settings, lock, customer, invoices, patch, basis>>
    BY <1>1 DEF CheckVersion, Goto, Frame, IInv, TypeOK
  <2>2. /\ basis[w] \in SettingsRow /\ patch[w] \in Edits /\ settings \in SettingsRow
        /\ basis[w].prefix = settings.prefix /\ basis[w].currency = settings.currency
        /\ basis[w].version = settings.version
    BY <1>1, <2>1 DEF IInv, EditsConsistent, EditConsistent, VersionMatches, TypeOK
  <2>3. Merge(settings, patch[w]) \in SettingsRow
    BY <2>2, MergeType
  <2>4. TypeOK'
    BY <1>1, <2>3 DEF IInv, TypeOK, CheckVersion, Goto, Steps
  <2>5. lock = w <=> pc'[w] \in Creating
    BY <2>1 DEF IInv, AllocationConsistent, Creating
  <2>6. NumbersConsecutive' /\ NumbersUnique' /\ AllocationConsistent'
    BY <2>1, <2>5, AllocationFrame DEF Creating
  <2>7. EditConsistent(w)'
    <3>1. /\ Merge(settings, patch[w]).prefix = Merge(basis[w], patch[w]).prefix
          /\ Merge(settings, patch[w]).currency = Merge(basis[w], patch[w]).currency
      BY <2>2, MergeDepends
    <3>2. basis[w].version <= settings.version
      BY <2>1 DEF IInv, EditsConsistent, EditConsistent
    <3>3. QED
      BY <2>1, <2>2, <2>3, <3>1, <3>2 DEF EditConsistent
  <2>8. EditsConsistent'
    BY <2>1, <2>7, EditsFrame
  <2>9. QED
    BY <2>4, <2>6, <2>8 DEF IInv
<1>2. CASE ~VersionMatches(settings, basis[w].version)
  BY <1>2, RollbackIInv DEF CheckVersion
<1>3. QED
  BY <1>1, <1>2

(* What an accepted edit writes: the merge of the edit and the settings *)
(* its client had read, which are the settings committed now.           *)
LEMMA SaveEffect ==
  ASSUME IInv, NEW w \in Workers, Save(w), VersionMatches(settings, basis[w].version)
  PROVE  /\ Frame(w) /\ pc[w] = "save" /\ pc'[w] = "idle" /\ lock = Unlocked
         /\ UNCHANGED <<lock, customer, invoices>>
         /\ basis[w].prefix = settings.prefix /\ basis[w].currency = settings.currency
         /\ settings' = [Merge(settings, patch[w]) EXCEPT !.version = settings.version + 1]
         /\ settings' \in SettingsRow
         /\ settings'.number = settings.number /\ settings'.version = settings.version + 1
<1>1. /\ Frame(w) /\ pc[w] = "save" /\ pc'[w] = "idle" /\ lock = Unlocked
      /\ UNCHANGED <<lock, customer, invoices>>
      /\ settings.version < MaxVersion
      /\ settings' = Edited(settings, mem[w])
  BY DEF Save, RowFree, Done, Goto, Frame, IInv, TypeOK
<1>2. /\ settings \in SettingsRow /\ basis[w] \in SettingsRow /\ patch[w] \in Edits
      /\ basis[w].prefix = settings.prefix /\ basis[w].currency = settings.currency
      /\ mem[w].prefix = Merge(basis[w], patch[w]).prefix
      /\ mem[w].currency = Merge(basis[w], patch[w]).currency
      /\ mem[w] \in SettingsRow
  BY <1>1 DEF IInv, EditsConsistent, EditConsistent, VersionMatches, TypeOK
<1>3. /\ Merge(settings, patch[w]) \in SettingsRow
      /\ Merge(settings, patch[w]).number = settings.number
      /\ Merge(settings, patch[w]).prefix = mem[w].prefix
      /\ Merge(settings, patch[w]).currency = mem[w].currency
  BY <1>2, MergeType, MergeDepends
<1>4. settings.version + 1 \in 1 .. MaxVersion
  BY <1>1, <1>2, BoundAssumption DEF SettingsRow
<1>5. settings' = [Merge(settings, patch[w]) EXCEPT !.version = settings.version + 1]
  BY <1>1, <1>2, <1>3 DEF Edited, SettingsRow
<1>6. /\ settings' \in SettingsRow
      /\ settings'.number = settings.number /\ settings'.version = settings.version + 1
  BY <1>3, <1>4, <1>5 DEF SettingsRow
<1>7. QED
  BY <1>1, <1>2, <1>5, <1>6

LEMMA SaveIInv ==
  ASSUME IInv, NEW w \in Workers, Save(w)
  PROVE  IInv'
<1>1. CASE VersionMatches(settings, basis[w].version)
  <2>1. /\ Frame(w) /\ pc'[w] = "idle" /\ lock = Unlocked
        /\ UNCHANGED <<lock, customer, invoices>>
        /\ settings' \in SettingsRow
        /\ settings'.number = settings.number /\ settings'.version = settings.version + 1
    BY <1>1, SaveEffect
  <2>2. TypeOK'
    BY <1>1, <2>1 DEF IInv, TypeOK, Save, Done, Goto, Rollback, Steps
  <2>3. NumbersConsecutive' /\ NumbersUnique'
    BY <2>1 DEF IInv, NumbersConsecutive, NumbersUnique, TextOf
  <2>4. \A u \in Workers : pc'[u] \notin Creating
    BY <2>1, NullAssumption DEF IInv, AllocationConsistent, Frame, Creating
  <2>5. AllocationConsistent'
    BY <2>1, <2>4, NullAssumption DEF AllocationConsistent, Creating
  <2>6. ASSUME NEW u \in Workers PROVE EditConsistent(u)'
    <3>1. CASE u = w
      BY <2>1, <3>1 DEF EditConsistent
    <3>2. CASE u # w
      <4>1. EditConsistent(u)
        BY DEF IInv, EditsConsistent
      <4>2. settings.version \in Nat
        BY BoundAssumption DEF IInv, TypeOK, SettingsRow
      <4>3. basis[u] \in SettingsRow => basis[u].version \in Nat
        BY BoundAssumption DEF SettingsRow
      <4>4. /\ pc'[u] = pc[u] /\ patch'[u] = patch[u]
            /\ basis'[u] = basis[u] /\ mem'[u] = mem[u]
        BY <2>1, <3>2 DEF Frame
      <4>5. QED
        BY <2>1, <4>1, <4>2, <4>3, <4>4 DEF EditConsistent
    <3>3. QED
      BY <3>1, <3>2
  <2>7. QED
    BY <2>2, <2>3, <2>5, <2>6 DEF IInv, EditsConsistent
<1>2. CASE ~VersionMatches(settings, basis[w].version)
  BY <1>2, RollbackIInv DEF Save
<1>3. QED
  BY <1>1, <1>2

(* Closing an invoice changes neither its number nor its text. *)
LEMMA CloseInvoiceIInv ==
  ASSUME IInv, CloseInvoice
  PROVE  IInv'
<1>1. PICK n \in DOMAIN invoices :
        /\ invoices' = [invoices EXCEPT ![n].open = FALSE]
        /\ UNCHANGED <<settings, lock, customer, pc, patch, basis, mem>>
  BY DEF CloseInvoice
<1>2. invoices \in Seq(InvoiceRow)
  BY DEF IInv, TypeOK
<1>3. /\ invoices' \in Seq(InvoiceRow) /\ Len(invoices') = Len(invoices)
      /\ DOMAIN invoices' = DOMAIN invoices
      /\ \A k \in DOMAIN invoices : /\ invoices'[k].number = invoices[k].number
                                    /\ invoices'[k].prefix = invoices[k].prefix
  <2> DEFINE row == [invoices[n] EXCEPT !.open = FALSE]
  <2>1. invoices[n] \in InvoiceRow
    BY <1>2
  <2>2. row \in InvoiceRow /\ row.number = invoices[n].number /\ row.prefix = invoices[n].prefix
    BY <2>1 DEF InvoiceRow
  <2>3. invoices' = [invoices EXCEPT ![n] = row]
    BY <1>1
  <2> HIDE DEF row
  <2>4. /\ invoices' \in Seq(InvoiceRow) /\ Len(invoices') = Len(invoices)
        /\ DOMAIN invoices' = DOMAIN invoices
    BY <1>2, <2>2, <2>3
  <2>5. \A k \in DOMAIN invoices : invoices'[k] = IF k = n THEN row ELSE invoices[k]
    BY <1>2, <2>3
  <2>6. QED
    BY <2>2, <2>4, <2>5
<1>4. TypeOK'
  BY <1>1, <1>3 DEF IInv, TypeOK
<1>5. NumbersConsecutive'
  BY <1>1, <1>3 DEF IInv, NumbersConsecutive
<1>6. NumbersUnique'
  BY <1>3 DEF IInv, NumbersUnique, IsInjective, TextOf
<1>7. AllocationConsistent'
  BY <1>1, <1>3 DEF IInv, AllocationConsistent, NumberTaken, TextOf
<1>8. EditsConsistent'
  BY <1>1 DEF IInv, EditsConsistent, EditConsistent
<1>9. QED
  BY <1>4, <1>5, <1>6, <1>7, <1>8 DEF IInv

LEMMA SetStatusIInv ==
  ASSUME IInv, SetStatus
  PROVE  IInv'
<1>1. TypeOK'
  BY DEF IInv, TypeOK, SetStatus
<1>2. NumbersConsecutive' /\ NumbersUnique' /\ AllocationConsistent' /\ EditsConsistent'
  BY DEF IInv, SetStatus, NumbersConsecutive, NumbersUnique, TextOf, AllocationConsistent,
         NumberTaken, EditsConsistent, EditConsistent
<1>3. QED
  BY <1>1, <1>2 DEF IInv

-----------------------------------------------------------------------------
(* Every action preserves the invariant. *)
LEMMA StepIInv == IInv /\ [Next]_vars => IInv'
<1> SUFFICES ASSUME IInv, [Next]_vars PROVE IInv'
  OBVIOUS
<1>1. ASSUME NEW w \in Workers, ReceiveCreate(w) \/ ReceiveEdit(w) \/ Progress(w) \/ Abort(w)
      PROVE  IInv'
  BY <1>1, ReceiveCreateIInv, ReceiveEditIInv, CheckCustomerIInv, LockSettingsIInv,
     AllocateIInv, InsertIInv, CommitIInv, CheckVersionIInv, SaveIInv, RollbackIInv
     DEF Progress, Abort
<1>2. CASE SetStatus
  BY <1>2, SetStatusIInv
<1>3. CASE CloseInvoice
  BY <1>3, CloseInvoiceIInv
<1>4. CASE UNCHANGED vars
  BY <1>4 DEF vars, IInv, TypeOK, NumbersConsecutive, NumbersUnique, TextOf,
              AllocationConsistent, NumberTaken, EditsConsistent, EditConsistent
<1>5. QED
  BY <1>1, <1>2, <1>3, <1>4 DEF Next

LEMMA Invariance == Spec => []IInv
  BY InitIInv, StepIInv, PTL DEF Spec

(* Every variable keeps its type, whatever the requests. *)
THEOREM CreationTypeCorrect == Spec => []TypeOK
<1>1. IInv => TypeOK
  BY DEF IInv
<1>2. QED
  BY Invariance, <1>1, PTL

(* Invoice numbers have no gap and no repetition, for any number of        *)
(* concurrent creations that succeed or fail and any edits of the settings *)
(* (Create's transaction and UpdateInvoiceNumber).                         *)
THEOREM NumberingHasNoGaps == Spec => []NumbersConsecutive
<1>1. IInv => NumbersConsecutive
  BY DEF IInv
<1>2. QED
  BY Invariance, <1>1, PTL

(* No two invoices show the same number, for any prefixes administrators   *)
(* may choose: the number found free under the lock is free at COMMIT.     *)
THEOREM NumbersNeverRepeat == Spec => []NumbersUnique
<1>1. IInv => NumbersUnique
  BY DEF IInv
<1>2. QED
  BY Invariance, <1>1, PTL

(* Between its locked read and its COMMIT, a creation holds the lock and   *)
(* has in memory what is committed.                                        *)
THEOREM AllocationUnderLock == Spec => []AllocationConsistent
<1>1. IInv => AllocationConsistent
  BY DEF IInv
<1>2. QED
  BY Invariance, <1>1, PTL

(* An ETag is a sound validator: equal versions mean equal contents, and   *)
(* what an edit is about to write is its own change of what was read.      *)
THEOREM VersionsValidateEdits == Spec => []EditsConsistent
<1>1. IInv => EditsConsistent
  BY DEF IInv
<1>2. QED
  BY Invariance, <1>1, PTL

(* No edit is lost: the version moves only when an edit made on top of the *)
(* very settings its client had read is accepted, and then only the field  *)
(* it names changes (SettingsService.Update and the WHERE version of the   *)
(* repository; UpdateInvoiceNumber leaves the version alone).              *)
THEOREM EditsNeverLost == Spec => NoLostSettingsEdit
<1> DEFINE Accepted == settings'.version # settings.version =>
       \E w \in Workers :
         /\ pc[w] = "save" /\ pc'[w] = "idle"
         /\ basis[w].prefix = settings.prefix /\ basis[w].currency = settings.currency
         /\ settings' = [Merge(settings, patch[w]) EXCEPT !.version = settings.version + 1]
<1>1. ASSUME IInv, [Next]_vars PROVE Accepted
  <2>1. SUFFICES ASSUME settings'.version # settings.version
                 PROVE  \E w \in Workers :
                          /\ pc[w] = "save" /\ pc'[w] = "idle"
                          /\ basis[w].prefix = settings.prefix
                          /\ basis[w].currency = settings.currency
                          /\ settings' = [Merge(settings, patch[w])
                                            EXCEPT !.version = settings.version + 1]
    OBVIOUS
  <2>2. settings \in SettingsRow
    BY <1>1 DEF IInv, TypeOK
  <2>3. PICK w \in Workers : Commit(w) \/ Save(w)
    BY <1>1, <2>1 DEF Next, Progress, Abort, Rollback, ReceiveCreate, ReceiveEdit,
         CheckCustomer, LockSettings, Allocate, Insert, CheckVersion, SetStatus,
         CloseInvoice, vars
  <2>4. CASE Commit(w)
    <3>1. settings' = [settings EXCEPT !.number = mem[w].number]
      BY <2>4 DEF Commit, Numbered
    <3>2. QED
      BY <2>1, <2>2, <3>1 DEF SettingsRow
  <2>5. CASE Save(w)
    <3>1. VersionMatches(settings, basis[w].version)
      BY <2>1, <2>5 DEF Save, Rollback
    <3>2. QED
      BY <1>1, <2>5, <3>1, SaveEffect
  <2>6. QED
    BY <2>3, <2>4, <2>5
<1>2. QED
  BY <1>1, Invariance, PTL DEF Spec, NoLostSettingsEdit

(* The unique constraint refuses a number only for an invoice made under   *)
(* another prefix: the lock alone keeps equal prefixes apart.              *)
THEOREM LockKeepsNumbersApart == Spec => []OnlyPrefixesCollide
<1>1. ASSUME IInv PROVE OnlyPrefixesCollide
  <2>1. SUFFICES ASSUME NEW w \in Workers, pc[w] = "insert", NEW n \in DOMAIN invoices,
                        TextOf(invoices[n]) = NumberText(mem[w].prefix, mem[w].number),
                        invoices[n].prefix = mem[w].prefix
                 PROVE  FALSE
    BY DEF OnlyPrefixesCollide
  <2>2. /\ mem[w] = NextInvoiceNumber(settings)
        /\ settings \in SettingsRow /\ settings.number < MaxNumber
        /\ Len(invoices) = settings.number /\ invoices[n].number = n
        /\ invoices \in Seq(InvoiceRow)
    BY <1>1, <2>1 DEF IInv, AllocationConsistent, TypeOK, NumbersConsecutive, Creating
  <2>3. mem[w] \in SettingsRow /\ mem[w].number = settings.number + 1
    BY <2>2, NextNumberType
  <2>4. /\ mem[w].prefix \in InvoicePrefixes
        /\ n \in 1 .. settings.number /\ settings.number \in 0 .. MaxNumber
        /\ mem[w].number \in 0 .. MaxNumber
    BY <2>2, <2>3, BoundAssumption DEF SettingsRow
  <2>5. n \in 0 .. MaxNumber
    BY <2>4, BoundAssumption
  <2>6. NumberText(mem[w].prefix, n) = NumberText(mem[w].prefix, mem[w].number)
    BY <2>1, <2>2 DEF TextOf
  <2>7. n = mem[w].number
    BY <2>4, <2>5, <2>6, SamePrefixInjective
  <2>8. QED
    BY <2>3, <2>4, <2>7
<1>2. QED
  BY <1>1, Invariance, PTL
-----------------------------------------------------------------------------
(* The refinement. *)

(* The register has an entry for every invoice. *)
LEMMA EntriesType ==
  ASSUME IInv
  PROVE  /\ settings \in SettingsRow /\ invoices \in Seq(InvoiceRow)
         /\ Entries \in Seq({EntryOf(i) : i \in InvoiceRow})
         /\ Len(Entries) = Len(invoices) /\ DOMAIN Entries = DOMAIN invoices
         /\ Len(invoices) = settings.number
<1>1. settings \in SettingsRow /\ invoices \in Seq(InvoiceRow)
  BY DEF IInv, TypeOK
<1>2. DOMAIN invoices = 1 .. Len(invoices) /\ Len(invoices) \in Nat
      /\ \A n \in DOMAIN invoices : invoices[n] \in InvoiceRow
  BY <1>1
<1>3. Entries \in Seq({EntryOf(i) : i \in InvoiceRow}) /\ Len(Entries) = Len(invoices)
  BY <1>2 DEF Entries
<1>4. QED
  BY <1>1, <1>3 DEF Entries, IInv, NumbersConsecutive

LEMMA RegisterInitially == Init => Register!RegisterInit
  BY BoundAssumption DEF Init, Register!RegisterInit, Register!Entry, Entries, EntryOf, TextOf, Open

(* COMMIT enters one invoice: the transaction has found its number free    *)
(* while it held the lock, and the number is the next of the register.     *)
LEMMA CommitEnters ==
  ASSUME IInv, NEW w \in Workers, Commit(w)
  PROVE  Register!Enter
<1> DEFINE i == Invoice(mem[w])
           e == Register!Entry(settings.prefix, Len(Entries) + 1, TRUE)
<1>1. /\ settings' = Numbered(settings, mem[w]) /\ invoices' = Append(invoices, i)
      /\ pc[w] = "commit"
  BY DEF Commit
<1>2. /\ settings \in SettingsRow /\ invoices \in Seq(InvoiceRow)
      /\ Len(Entries) = Len(invoices) /\ DOMAIN Entries = DOMAIN invoices
      /\ Len(invoices) = settings.number
      /\ Entries \in Seq({EntryOf(j) : j \in InvoiceRow})
  BY EntriesType
<1>3. /\ mem[w] = NextInvoiceNumber(settings) /\ ~NumberTaken(mem[w])
      /\ settings.number < MaxNumber
  BY <1>1 DEF IInv, AllocationConsistent, Creating
<1>4. /\ mem[w] \in SettingsRow /\ mem[w].number = settings.number + 1
      /\ mem[w].prefix = settings.prefix /\ settings.number \in Nat
  BY <1>2, <1>3, NextNumberType, BoundAssumption DEF SettingsRow
<1>5. i \in InvoiceRow /\ TextOf(i) = NumberText(mem[w].prefix, mem[w].number) /\ Open(i)
  BY <1>4, InvoiceType DEF Invoice, Open
<1>6. e = EntryOf(i) /\ e.text = TextOf(i)
  <2>1. i.open = TRUE
    BY DEF Invoice
  <2>2. QED
    BY <1>2, <1>4, <1>5, <2>1 DEF EntryOf, Open, Register!Entry
<1>7. \A n \in DOMAIN Entries : Entries[n].text # e.text
  BY <1>2, <1>3, <1>5, <1>6 DEF Entries, EntryOf, NumberTaken
<1> HIDE DEF i
<1>8. Entries' = Append(Entries, EntryOf(i))
  <2>1. /\ DOMAIN invoices' = 1 .. Len(invoices) + 1 /\ DOMAIN invoices = 1 .. Len(invoices)
        /\ \A n \in 1 .. Len(invoices) : invoices'[n] = invoices[n]
        /\ invoices'[Len(invoices) + 1] = i
    BY <1>1, <1>2, <1>5
  <2>2. Entries' = [n \in 1 .. Len(invoices) + 1 |-> EntryOf(invoices'[n])]
    BY <2>1 DEF Entries, EntryOf, TextOf, Open
  <2> DEFINE S == {EntryOf(j) : j \in InvoiceRow}
             x == EntryOf(i)
             grown == Append(Entries, x)
  <2>3. x \in S /\ Entries \in Seq(S)
    BY <1>2, <1>5
  <2>4. \A n \in 1 .. Len(invoices) : Entries[n] = EntryOf(invoices'[n])
    BY <2>1 DEF Entries
  <2>5. x = EntryOf(invoices'[Len(invoices) + 1])
    BY <2>1
  <2> HIDE DEF S, x
  <2>6. /\ grown \in Seq(S) /\ Len(grown) = Len(Entries) + 1
        /\ \A n \in 1 .. Len(Entries) : grown[n] = Entries[n]
        /\ grown[Len(Entries) + 1] = x
    BY <2>3, AppendProperties
  <2> HIDE DEF grown
  <2>7. Len(invoices) \in Nat
    BY <1>2
  <2>8. grown = [n \in 1 .. Len(invoices) + 1 |-> grown[n]]
    BY <1>2, <2>6, <2>7
  <2>9. \A n \in 1 .. Len(invoices) + 1 : n \in 1 .. Len(invoices) \/ n = Len(invoices) + 1
    BY <2>7
  <2>10. \A n \in 1 .. Len(invoices) + 1 : grown[n] = EntryOf(invoices'[n])
    BY <1>2, <2>4, <2>5, <2>6, <2>9
  <2>11. Entries' = grown
    BY <2>2, <2>8, <2>10
  <2>12. QED
    BY <2>11 DEF grown, x
<1>9. UNCHANGED <<settings.prefix, settings.currency, settings.version>>
  BY <1>1, <1>2 DEF Numbered, SettingsRow
<1>10. QED
  BY <1>6, <1>7, <1>8, <1>9 DEF Register!Enter

LEMMA CloseCloses ==
  ASSUME IInv, CloseInvoice
  PROVE  \E n \in DOMAIN Entries : Register!Close(n)
<1>1. PICK n \in DOMAIN invoices :
        /\ Open(invoices[n])
        /\ invoices' = [invoices EXCEPT ![n].open = FALSE]
        /\ UNCHANGED settings
  BY DEF CloseInvoice
<1>2. /\ invoices \in Seq(InvoiceRow) /\ DOMAIN Entries = DOMAIN invoices
      /\ \A k \in DOMAIN invoices : invoices[k] \in InvoiceRow
  BY EntriesType
<1>3. /\ DOMAIN invoices' = DOMAIN invoices
      /\ \A k \in DOMAIN invoices \ {n} : invoices'[k] = invoices[k]
      /\ invoices'[n] = [invoices[n] EXCEPT !.open = FALSE]
  BY <1>1, <1>2
<1>4. EntryOf(invoices'[n]) = [EntryOf(invoices[n]) EXCEPT !.open = FALSE]
  <2> DEFINE i == invoices[n]
             closed == [i EXCEPT !.open = FALSE]
  <2>1. i \in InvoiceRow
    BY <1>1, <1>2
  <2> HIDE DEF i
  <2>2. /\ closed.prefix = i.prefix /\ closed.number = i.number /\ closed.open = FALSE
    BY <2>1 DEF InvoiceRow
  <2> HIDE DEF closed
  <2>3. EntryOf(closed) = [EntryOf(i) EXCEPT !.open = FALSE]
    <3>1. TextOf(closed) = TextOf(i) /\ Open(closed) = FALSE
      BY <2>2, Zenon DEF TextOf, Open
    <3>2. \A T : \A r \in [text : T, open : BOOLEAN], b \in BOOLEAN :
            [r EXCEPT !.open = b] = [text |-> r.text, open |-> b]
      OBVIOUS
    <3>3. /\ EntryOf(i) \in [text : {TextOf(i)}, open : BOOLEAN]
          /\ EntryOf(i).text = TextOf(i)
      BY <2>1 DEF EntryOf, Open, InvoiceRow
    <3>4. EntryOf(closed) = [text |-> TextOf(i), open |-> FALSE]
      BY <3>1 DEF EntryOf
    <3>5. QED
      BY <3>2, <3>3, <3>4, Zenon
  <2>4. QED
    BY <1>3, <2>3 DEF i, closed
<1>5. Entries' = [Entries EXCEPT ![n].open = FALSE]
  <2>1. Entries' = [k \in DOMAIN invoices |-> EntryOf(invoices'[k])]
    BY <1>3 DEF Entries, EntryOf, TextOf, Open
  <2>2. \A k \in DOMAIN invoices :
          EntryOf(invoices'[k]) = IF k = n THEN [Entries[n] EXCEPT !.open = FALSE] ELSE Entries[k]
    BY <1>1, <1>3, <1>4 DEF Entries
  <2>3. QED
    BY <1>1, <1>2, <2>1, <2>2
<1>6. Entries[n].open
  BY <1>1, <1>2 DEF Entries, EntryOf
<1>7. Register!Close(n)
  BY <1>1, <1>5, <1>6 DEF Register!Close
<1>8. QED
  BY <1>1, <1>2, <1>7

(* An accepted edit changes one field, and the version moves with it. *)
LEMMA SaveChanges ==
  ASSUME IInv, NEW w \in Workers, Save(w), settings' # settings
  PROVE  \/ \E p \in InvoicePrefixes : Register!ChangePrefix(p)
         \/ \E c \in Currencies : Register!ChangeCurrency(c)
<1>1. VersionMatches(settings, basis[w].version)
  BY DEF Save, Rollback
<1>2. /\ settings' = [Merge(settings, patch[w]) EXCEPT !.version = settings.version + 1]
      /\ settings' \in SettingsRow /\ settings'.version = settings.version + 1
      /\ pc[w] = "save" /\ UNCHANGED invoices
  BY <1>1, SaveEffect
<1>3. settings \in SettingsRow /\ patch[w] \in Edits
  BY <1>2 DEF IInv, TypeOK, EditsConsistent, EditConsistent
<1>4. UNCHANGED Entries
  BY <1>2 DEF Entries, EntryOf, TextOf, Open
<1>5. CASE patch[w].field = "prefix"
  <2>1. settings'.prefix = patch[w].value /\ settings'.currency = settings.currency
    BY <1>2, <1>3, <1>5 DEF Merge, SettingsRow
  <2>2. patch[w].value \in InvoicePrefixes
    BY <1>3, <1>5 DEF Edits
  <2>3. QED
    BY <1>2, <1>4, <2>1, <2>2 DEF Register!ChangePrefix
<1>6. CASE patch[w].field # "prefix"
  <2>1. settings'.currency = patch[w].value /\ settings'.prefix = settings.prefix
    BY <1>2, <1>3, <1>6 DEF Merge, SettingsRow
  <2>2. patch[w].value \in Currencies
    BY <1>3, <1>6 DEF Edits
  <2>3. QED
    BY <1>2, <1>4, <2>1, <2>2 DEF Register!ChangeCurrency
<1>7. QED
  BY <1>5, <1>6

(* What changes neither the settings nor the invoices is not seen. *)
LEMMA UnseenStep ==
  ASSUME UNCHANGED <<settings, invoices>>
  PROVE  UNCHANGED Register!registerVars
  BY DEF Register!registerVars, Entries, EntryOf, TextOf, Open

LEMMA RegisterStep ==
  IInv /\ [Next]_vars => [Register!RegisterNext]_(Register!registerVars)
<1> SUFFICES ASSUME IInv, [Next]_vars
             PROVE  [Register!RegisterNext]_(Register!registerVars)
  OBVIOUS
<1>1. CASE UNCHANGED <<settings, invoices>>
  BY <1>1, UnseenStep
<1>2. CASE ~UNCHANGED <<settings, invoices>>
  <2>1. \/ \E w \in Workers : Commit(w) \/ (Save(w) /\ settings' # settings)
        \/ CloseInvoice
    BY <1>2 DEF Next, Progress, Abort, Rollback, ReceiveCreate, ReceiveEdit,
         CheckCustomer, LockSettings, Allocate, Insert, CheckVersion, Save, SetStatus, vars
  <2>2. CASE \E w \in Workers : Commit(w)
    BY <2>2, CommitEnters DEF Register!RegisterNext
  <2>3. CASE \E w \in Workers : Save(w) /\ settings' # settings
    BY <2>3, SaveChanges DEF Register!RegisterNext
  <2>4. CASE CloseInvoice
    BY <2>4, CloseCloses DEF Register!RegisterNext
  <2>5. QED
    BY <2>1, <2>2, <2>3, <2>4
<1>3. QED
  BY <1>1, <1>2

(* The numbering and the edits implement a register written in one step    *)
(* at a time: whatever the interleaving of creations, edits, closings and  *)
(* failures (InvoiceService.Create under GetForUpdate, SettingsService's   *)
(* versioned UPDATE), what is committed moves only as InvoiceRegister      *)
(* allows, and the counter is always the length of the register.           *)
THEOREM CreationImplementsRegister == Spec => ImplementsRegister
<1> QED
  BY RegisterInitially, RegisterStep, Invariance, PTL
     DEF Spec, ImplementsRegister, Register!RegisterSpec
=============================================================================
