SPECIFICATION FairSpec
CONSTANTS
  q = q
  t = t
  b = b
  z = z
  Requests = {q, t, b, z}
  NoReq = NoReq
  KindOf <- MCKindOf
  StatementsOf <- MCStatementsOf
  Waited = {q}
  TicksPerMs = 2
  InitialDelay = 2
  MaxDelay = 3
  LogInterval = 3
  MaxNow = 6
INVARIANTS
  NotExecutedIsTrue
  CleanReuse
  AnswersAreHonest
  FailuresAccountedFor
PROPERTIES
  CooldownKept
  RequestsFinish
CHECK_DEADLOCK FALSE
