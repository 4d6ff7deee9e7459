CONSTANTS
  d1 = d1
  n1 = n1
  n2 = n2
  s1 = s1
  s2 = s2
  q1 = q1
  q2 = q2
  a = a
  b = b
  c = c
  e = e
  Docs = {d1}
  NetChannels = {n1}
  StorageChannels = {s1, s2}
  Requests = {q1, q2}
  Ops = {a, b}
  Deps <- MCDeps
  Persisted <- MCPersisted
  LocalOps = {}
  RemoteOps = {}
  Allowed <- EveryPermission
  MaxDeletes = 1
  NoChannel = NoChannel
  NoAnswer = NoAnswer
  Guards = {FALSE}
SPECIFICATION MCFairSpec
INVARIANTS
  WaitIsOwed
  ParkedIsAnswerable
PROPERTIES
  ParkedLeavesForCause
  ParkedIsSettled
CHECK_DEADLOCK FALSE
