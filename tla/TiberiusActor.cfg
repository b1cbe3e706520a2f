SPECIFICATION Spec
CONSTANTS
  c1 = c1
  c2 = c2
  r1 = r1
  r2 = r2
  r3 = r3
  k1 = k1
  Clients = {c1, c2}
  Requests = {r1, r2, r3}
  Closes = {k1}
  Waited = {r1}
  ClientOf <- FourCalls
  NoReq = NoReq
  Capacity = 2
  MaxFails = 2
INVARIANTS
  CounterLagsByCalls
  FireAndForgetSucceeds
PROPERTY ImplementsFifo
CHECK_DEADLOCK FALSE
