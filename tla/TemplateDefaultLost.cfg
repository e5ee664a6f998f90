\* SetDefault commits its first UPDATE before it issues the second.
SPECIFICATION Spec
CONSTANTS
  Workers = {w1, w2}
  Customs = {t1, t2}
  Classic = Classic
  Contents = {c1}
  MaxVersion = 1
  Unlocked = Unlocked
  None = None
INVARIANT DefaultBetweenRequests
