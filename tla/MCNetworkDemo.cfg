SPECIFICATION Spec
CONSTANTS
  RecordCounts <- MCCounts
  RecordLimit = 12
  Plan <- MCPlan
  WindowSize = 64
  FrameUnits = 3
  BufferSize = 7
CHECK_DEADLOCK FALSE
INVARIANTS
  LogsLineUp
  FramesStayWhole
  AlwaysPasses
PROPERTIES
  ImplementsPlan
  Terminates
