CONSTANTS
  A = A
  B = B
  S = S
  a1 = a1
  a2 = a2
  b1 = b1
  s1 = s1
  Repos = {A, B, S}
  Links <- MCLinks
  Initiates <- ClientsInitiate
  Holders = {A}
  Ops = {a1, b1, s1}
  Author <- MCAuthor
  MaxBreaks = 0
  MaxRestarts = 0
  MaxOvertakes = 0
  Restartable = {S}
SPECIFICATION Spec
INVARIANTS
  TypeOK
  QuietSubscribed
  AwarenessSound
  CausallyComplete
CHECK_DEADLOCK FALSE
