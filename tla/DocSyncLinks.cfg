CONSTANTS
  A = A
  B = B
  S = S
  a1 = a1
  a2 = a2
  b1 = b1
  s1 = s1
  Repos = {A, S}
  Links <- MCLinks
  Initiates <- BothInitiate
  Holders = {A, S}
  Ops = {a1, s1}
  Author <- MCAuthor
  MaxBreaks = 2
  MaxRestarts = 1
  MaxOvertakes = 1
  Restartable = {A}
SPECIFICATION FairSpec
INVARIANTS
  QuietConverged
  NoneRejected
PROPERTIES
  ImplementsReplicas
  Converges
CHECK_DEADLOCK FALSE
