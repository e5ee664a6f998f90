\* A Send lands between the two reads of the invoice by one PDF request.
SPECIFICATION Spec
CONSTANTS
  Workers = {w1, w2}
  Details = {d1}
  TaxIDs = {t1}
  Logos = {l1}
  Currencies = {c1}
  Addresses = {a1}
  Templates = {classic, custom}
  Classic = classic
  Patches <- MCPatches
  Total = 2
  MaxVersion = 1
  Unchanged = Unchanged
  Unlocked = Unlocked
  None = None
INVARIANT OneDataSource
