\* Two concurrent requests at a time over Classic and two user templates, so
\* that a SetDefault meets a Delete or another SetDefault at every statement,
\* and three versions, so that two edits can start from the same one.
SPECIFICATION Spec
CONSTANTS
  Workers = {w1, w2}
  Customs = {t1, t2}
  Classic = Classic
  Contents = {c1, c2}
  MaxVersion = 3
  Unlocked = Unlocked
  None = None
INVARIANTS
  AtMostOneDefault
PROPERTIES
  DeleteRevertsToClassic
  ProtectedRowsFrozen
  NoLostUpdate
  ImplementsCatalogue
SYMMETRY Interchangeable
