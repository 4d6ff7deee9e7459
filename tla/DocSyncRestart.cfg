CONSTANTS
  A = A
  B = B
  S = S
  a1 = a1
  a2 = a2
  b1 = b1
  s1 = s1
  Repos = {A, S}
  Links <- MCLinks
  Initiates <- ClientsInitiate
  Holders = {A}
  Ops = {a1, a2}
  Author <- MCAuthor
  MaxBreaks = 0
  MaxRestarts = 1
  MaxOvertakes = 0
  Restartable = {S}
SPECIFICATION Spec
INVARIANTS
  RestartedRefilled
CHECK_DEADLOCK FALSE
