SPECIFICATION FairSpec
CONSTANTS
  o1 = o1
  o2 = o2
  r1 = r1
  r2 = r2
  r3 = r3
  Owners = {o1, o2}
  Workers = {w1, w2}
  Requests = {r1, r2, r3}
  Sessions = {1}
  Shards = {"s1"}
  OwnerOf <- MCOwnerOf
  SessionOf <- MCSessionOf
  ShardOf <- OneShard
  NoReq = NoReq
  Nobody = Nobody
  MaxAnswers = 2
  MaxVisits = 1
INVARIANTS
  EntriesMatchLeases
  NothingRetained
  OwnAnswer
  NoLockCycle
PROPERTIES
  ImplementsMailbox
  DueAnswerArrives
CHECK_DEADLOCK FALSE
