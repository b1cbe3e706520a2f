SPECIFICATION Spec
CONSTANTS
  a = a
  b = b
  Bytes = {a, b}
  Junk = Junk
  MaxWrite = 2
  MaxCapacity = 4
INVARIANT InBounds
PROPERTY ImplementsTape
CHECK_DEADLOCK FALSE
