CONSTANTS
  n1 = n1
  n2 = n2
  disk = disk
  m1 = m1
  m2 = m2
  m3 = m3
  h = h
  p1 = p1
  p2 = p2
  v1 = v1
  v2 = v2
  nil = nil
  A = A
  B = B
  S = S
  Db = Db
  a1 = a1
  a2 = a2
  s1 = s1
  net1 = net1
  sto1 = sto1
  Hooks = {m1, m2, m3}
  Slow = {m1, m2}
  MaxHooked = 2
  MaxAdds = 3
SPECIFICATION Spec
INVARIANTS
  OnceInOrder
  NothingLeft
  Limits
  PresenceIsOwn
  Agree
  WaitsHold
PROPERTIES
  RejectedStay
  HoldsEnd
  EndsWell
CHECK_DEADLOCK FALSE
