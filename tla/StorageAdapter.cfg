CONSTANTS
  d1 = d1
  d2 = d2
  a = a
  b = b
  c = c
  t1 = t1
  t2 = t2
  t3 = t3
  Docs = {d1, d2}
  Ops = {a, b, c}
  DocOf <- MCDocOf
  Deps <- MCDeps
  Tasks = {t1, t2, t3}
  InRange <- ByElement
  ClockBack = FALSE
  MaxClock = 2
  MaxRestarts = 1
  MaxFailures = 1
  MaxDeletes = 1
  NoRead = NoRead
SPECIFICATION MCSpec
INVARIANTS
  QuietDurable
PROPERTIES
  FlushDurable
  FlushEnds
  ImplementsLog
CHECK_DEADLOCK FALSE
