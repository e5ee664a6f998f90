\* Two concurrent requests, two idempotency keys, a total of 3 pence or 0:
\* retries, reuse of a key with another body, overpayment races, an invoice
\* that owes nothing, and edits of the live data.
SPECIFICATION FairSpec
CONSTANTS
  Workers = {w1, w2}
  Keys = {k1, k2}
  Bodies = {"nothing", "one", "two"}
  AmountOf <- MCAmountOf
  Versions = {v1, v2}
  Totals = {0, 3}
  Unlocked = Unlocked
  NoSnapshot = NoSnapshot
  Refused = Refused
  None = None
INVARIANTS
  NeverOverpaid
  StatusMatchesPayments
  ExactlyOncePerKey
  UniqueIndexNeverHit
  SnapshotIffIssued
  ResponsesConsistent
PROPERTIES
  SnapshotImmutable
  RetryNeverRefused
  EveryRequestAnswered
  ImplementsLedger
