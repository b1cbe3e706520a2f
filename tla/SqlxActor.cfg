SPECIFICATION FairSpec
CONSTANTS
  c1 = c1
  c2 = c2
  r1 = r1
  r2 = r2
  k1 = k1
  k2 = k2
  Clients = {c1, c2}
  Requests = {r1, r2}
  Closers = {k1, k2}
  ClientOf <- TwoClosers
  Waited = {r1}
  Opener = c1
  Opening = Opening
  Replacer = Replacer
  Close = Close
  NoReq = NoReq
  Capacity = 2
  MayPanic = TRUE
INVARIANTS
  CounterIsPending
  SingleClose
  ClosedIsDrained
  RepliesMatchPhases
PROPERTIES
  ImplementsFifo
  AcceptedFinish
  UnreachableRetires
  ClosersAnswered
CHECK_DEADLOCK FALSE
