SPECIFICATION PipelineSpec
CONSTANTS
  Configurations = 2
  Demos = 2
  Pending = FALSE
INVARIANT ZeroMeansRegenerated
CHECK_DEADLOCK FALSE
