\* Two requests against every change of the live data.
SPECIFICATION Spec
CONSTANTS
  Workers = {w1, w2}
  Details = {d1}
  TaxIDs = {t1}
  Logos = {l1}
  Currencies = {c1}
  Addresses = {a1}
  Templates = {classic, custom}
  Classic = classic
  Patches <- MCPatches
  Total = 2
  MaxVersion = 1
  Unchanged = Unchanged
  Unlocked = Unlocked
  None = None
SYMMETRY MCSymmetry
INVARIANTS
  VATNumberPresent
  LogosKept
  IssuedDocumentStable
  PaidDocumentHasNoBalance
PROPERTY EditsAreAtomic
