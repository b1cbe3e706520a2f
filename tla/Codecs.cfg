SPECIFICATION Spec
CONSTANTS
  Second = 4
  MaxDays = 2147483647
  MinDays <- MCMin
  MaxMicros = 2147483647
  MinMicros <- MCMin
  Anchors <- MCAnchors
  Walk = 3000
  Instants <- MCInstants
  LuaValues <- MCLuaValues
  MaxDepth = 2
INVARIANTS
  CalendarIsGregorian
  InstantsReadBack
  JsonReadsBack
CHECK_DEADLOCK FALSE
