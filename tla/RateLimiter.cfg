\* Five addresses on four keys, with room for two buckets.
SPECIFICATION Spec
CONSTANTS
  n1 = n1
  n2 = n2
  n3 = n3
  n4 = n4
  proxy = proxy
  Clients = {n1, n2, n3, n4}
  Proxies = {proxy}
  Malformed = Malformed
  Subnet <- MCSubnet
  Every = 3
  Burst = 1
  MaxKeys = 2
  Second = 2
  SweepInterval = 4
  MaxTime = 6
  None = None
SYMMETRY MCSymmetry
INVARIANTS
  TypeOK
  SweepChangesNothing
  ClientBounded
  FloodBounded
  RetryAfterIsEnough
