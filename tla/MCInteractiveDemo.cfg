SPECIFICATION Spec
CONSTANTS
  WindowSize = 2
  Lengths <- MCLengths
  DeclaredLen = 9
  RenumberedSeq = 20
  PoisonSeq = 30
  ForgedSeq = 3
  MaxSends = 7
INVARIANTS
  FailMeansUnaltered
  NeverPoisoned
CHECK_DEADLOCK FALSE
