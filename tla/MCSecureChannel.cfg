SPECIFICATION Spec
CONSTANTS
  first = first
  again = again
  other = other
  side = side
  alien = alien
  key = key
  oldKey = oldKey
  rogue = rogue
  sessA = sessA
  sessB = sessB
  p1 = p1
  p2 = p2
  data = data
  close = close
  empty = empty
  short = short
  NotPinned = NotPinned
  Suites <- MCSuites
  Sessions <- MCSessions
  StreamIds <- MCStreams
  Prefixes <- MCPrefixes
  RecordTypes <- MCTypes
  Payloads <- MCPayloads
  PayloadLen <- MCPayloadLen
  Seqs <- MCSeqs
  ForgedHeaders <- MCForgedHeaders
  SeqSpace = 4
  SenderIds <- MCSenders
  SenderConf <- MCConf
  ReceiverKey = key
  RogueKey = rogue
  ReceiverSuite = 1
  Pins <- MCPins
  WindowSize = 2
  MaxStreams = 2
  MaxRejects = 1
  MaxRestarts = 1
CHECK_DEADLOCK FALSE
INVARIANTS
  ChannelExact
  DeliveredOnce
  GuardMirrorsDelivered
  GenuineVerdict
PROPERTY ImplementsIdealChannel
