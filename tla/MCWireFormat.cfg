SPECIFICATION Spec
CONSTANTS
  Base = 2
  SessionLen = 1
  StreamLen = 1
  PrefixLen = 1
  SeqLen = 2
  LengthLen = 2
  TagLen = 1
  MaxPayloadLen = 2
  Candidates <- MCCandidates
  Bodies <- MCBodies
  MaxChanges = 2
INVARIANTS
  ReserialisesExactly
  UntouchedParses
  ChangeIsVisible
CHECK_DEADLOCK FALSE
