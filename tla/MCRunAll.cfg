SPECIFICATION PipelineSpec
CONSTANTS
  Configurations = 2
  Demos = 2
  Pending = FALSE
INVARIANTS
  ZeroMeansPassed
  TestsGateEvidence
  TranscriptsTruthful
CHECK_DEADLOCK FALSE
