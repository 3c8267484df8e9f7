SPECIFICATION Spec
CONSTANTS
  k1 = k1
  k2 = k2
  k3 = k3
  StreamKeys <- MCKeys
  Seqs <- MCSeqs
  WindowSize = 3
  MaxStreams = 2
SYMMETRY Symmetry
INVARIANTS
  HistoryExact
  AtMostOnce
  VerdictsJustified
  CommitAgreesWithCheck
  BoundedMemory
  IntegersAgree
  SnapshotLossless
PROPERTIES
  NeverForgets
  ImplementsAntiReplay
