\* Creation checks the customer before its transaction begins.
SPECIFICATION Spec
CONSTANTS
  Workers = {w1, w2}
  InvoicePrefixes <- MCPrefixes
  Itoa <- MCItoa
  Currencies = {gbp}
  Issued = 9
  MaxNumber = 10
  MaxVersion = 1
  Unlocked = Unlocked
  None = None
INVARIANT ArchivedHasNoOpenInvoice
