\* A SetDefault commits between the read and the UPDATE of a Delete.
SPECIFICATION Spec
CONSTANTS
  Workers = {w1, w2}
  Customs = {t1}
  Classic = Classic
  Contents = {c1}
  MaxVersion = 1
  Unlocked = Unlocked
  None = None
PROPERTY DeleteKeepsDefault
