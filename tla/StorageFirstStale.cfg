CONSTANTS
  d1 = d1
  n1 = n1
  n2 = n2
  s1 = s1
  s2 = s2
  q1 = q1
  q2 = q2
  a = a
  b = b
  c = c
  e = e
  Docs = {d1}
  NetChannels = {n1, n2}
  StorageChannels = {s1}
  Requests = {q1, q2}
  Ops = {a, b}
  Deps <- MCDeps
  Persisted <- MCPersisted
  LocalOps = {}
  RemoteOps = {a}
  Allowed <- EveryPermission
  MaxDeletes = 1
  NoChannel = NoChannel
  NoAnswer = NoAnswer
  Guards = {FALSE}
SPECIFICATION MCSpec
SYMMETRY Symmetry
PROPERTIES
  NoPrematureAnswer
CHECK_DEADLOCK FALSE
