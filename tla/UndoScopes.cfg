CONSTANTS
  l1 = l1
  l2 = l2
  root = root
  c1 = c1
  c2 = c2
  c3 = c3
  r1 = r1
  r2 = r2
  n1 = n1
  n2 = n2
  e1 = e1
  e2 = e2
  t1 = t1
  t2 = t2
  s1 = s1
  s2 = s2
  k1 = k1
  i1 = i1
  i2 = i2
  i3 = i3
  d = d
  me = me
  other = other
  top = top
  away = away
  None = None
  null = null
SPECIFICATION Spec
INVARIANTS
  UndoStaysInField
CHECK_DEADLOCK FALSE
