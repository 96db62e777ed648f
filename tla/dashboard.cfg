SPECIFICATION Spec
CONSTANTS
  Conns = {"a", "b"}
  MaxOrders = 2
  MaxCycles = 1
  MaxRestarts = 1
  Fields = {"f", "g"}
  Editors = {"e1", "e2"}
  Viewers = {"bot", "get"}
  Bot = "bot"
  Environment <- OneInEnvironment
  MaxEdits = 2
  Absent = Absent
  Empty = Empty
INVARIANTS TypeOK NeverTwice FlagsAsAsked
PROPERTIES RowsReach LonePutIsSeen
CHECK_DEADLOCK FALSE
