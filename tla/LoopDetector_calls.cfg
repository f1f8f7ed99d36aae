SPECIFICATION DetectorSpec
CONSTANTS
  Node = {n1, n2, n3}
  Call = {read, write}
  MaxSteps = 6
  Window = 4
  Repeats = 3
  a = a
  b = b
  Letter = {a, b}
  Text <- MCText
  SemMax = 3
  Consecutive = 3
  Pause <- TwoThirds
  Warn <- OneThird
  MaxTold = 4
  MaxEdges = 5
CHECK_DEADLOCK FALSE
INVARIANTS CycleIsReal ReturnedIsAcyclic WindowIsExact SimilarTextsStop
PROPERTY RecordReturns
