\* A rolling deploy: the new server checks the schema, the old one migrates on
\* startup, and the release step migrates for the new one.
SPECIFICATION Spec
CONSTANTS
  old = old
  new = new
  release = release
  Processes = {old, new, release}
  Commands = {release}
  OnStartup = {old}
  Latest <- MCLatest
  MaxVersion = 2
  MaxRequests <- MCMaxRequests
  MaxExpired = 2
  BatchSize = 1
  None = None
INVARIANTS
  MigratedOnce
  ServesReadySchema
  PoolOutlivesWork
PROPERTIES
  ShutdownEnds
  BacklogDrained
