SPECIFICATION Spec
CONSTANTS
  p1 = p1
  p2 = p2
  t1 = t1
  t2 = t2
  t3 = t3
  Pushes = {p1, p2}
  Calls = {t1, t2, t3}
  NoMeta = NoMeta
  MaxDepth = 2
INVARIANTS
  StatementsKept
  AllOrNothing
CHECK_DEADLOCK FALSE
