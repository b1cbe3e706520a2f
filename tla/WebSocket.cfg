SPECIFICATION FairSpec
CONSTANTS
  f1 = f1
  f2 = f2
  r1 = r1
  r2 = r2
  r3 = r3
  w1 = w1
  w2 = w2
  w3 = w3
  Frames = {f1, f2}
  Reads = {r1, r2, r3}
  Timed = {r1, r2}
  Writes = {w1, w2, w3}
  Closing = {w2}
  Nothing = Nothing
  ReadCap = 1
  WriteCap = 2
INVARIANTS
  FramesAreDeliveredInOrder
  FailureIsFinal
  WritesEndWithClosing
PROPERTIES
  ReadsImplementFifo
  TimedReadIsAnswered
CHECK_DEADLOCK FALSE
