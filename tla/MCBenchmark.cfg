SPECIFICATION Spec
CONSTANTS
  Prefixes <- MCPrefixes
  SeqSpace = 64
  WindowSize = 64
  SizeLists <- MCSizeLists
  SweepCounts <- MCSweepCounts
  Reps = 2
  MinOps = 2
  MaxOps = 4
  BatchBytes = 12
  Slack = 1
  MaxPayload = 16
  MaxRuns = 3
CHECK_DEADLOCK FALSE
INVARIANTS
  RaisesForArgumentsOnly
  TimesOnlyRecoveries
  ResultsComplete
  ArtefactsOfOneRun
