SPECIFICATION Spec
CONSTANTS
  Prefixes <- MCPrefixes
  SeqSpace = 16777216
  Suites <- MCSuites
  Sessions <- MCSessions
  StreamIds <- MCStreamIds
  RecordTypes <- MCRecordTypes
  Payloads <- MCPayloads
  PayloadLen <- MCPayloadLen
  RecordCounts <- MCCounts
  DeadBeef <- MCDeadBeef
  DefaultLimit = 400
  SmallLimit = 64
  DefaultWindow = 64
  FieldMasks <- MCFieldMasks
  Restarts = 3
CHECK_DEADLOCK FALSE
INVARIANTS
  FailsByChanceOnly
  RaisesForRecordsOnly
