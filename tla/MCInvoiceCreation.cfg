\* Two concurrent requests, nine invoices already issued, numbers 10 and 11
\* still to allocate, and two edits of the settings.
SPECIFICATION Spec
CONSTANTS
  Workers = {w1, w2}
  InvoicePrefixes <- MCPrefixes
  Itoa <- MCItoa
  Currencies = {gbp, eur}
  Issued = 9
  MaxNumber = 11
  MaxVersion = 3
  Unlocked = Unlocked
  None = None
INVARIANTS
  NumbersConsecutive
  NumbersUnique
  OnlyPrefixesCollide
PROPERTIES
  NoLostSettingsEdit
  ImplementsRegister
SYMMETRY Interchangeable
