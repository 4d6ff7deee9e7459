CONSTANTS
  d1 = d1
  n1 = n1
  n2 = n2
  s1 = s1
  s2 = s2
  q1 = q1
  q2 = q2
  a = a
  b = b
  c = c
  e = e
  Docs = {d1}
  NetChannels = {n1, n2}
  StorageChannels = {s1, s2}
  Requests = {q1, q2}
  Ops = {a, b, c, e}
  Deps <- MCDeps
  Persisted <- MCPersisted
  LocalOps = {e}
  RemoteOps = {}
  Allowed <- EveryPermission
  MaxDeletes = 0
  NoChannel = NoChannel
  NoAnswer = NoAnswer
  Guards = {TRUE, FALSE}
SPECIFICATION MCSpec
SYMMETRY Symmetry
INVARIANTS
  TypeOK
  SubscribersServed
PROPERTIES
  NoPrematureAnswer
  ImplementsBarrier
CHECK_DEADLOCK FALSE
