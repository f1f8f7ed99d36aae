SPECIFICATION Spec
CONSTANTS
  Child = {c1, c2}
  Main = Main
  NoTask = NoTask
  MaxDepth = 2
  MaxExecutions = 2
  MaxSnapshots = 4
CHECK_DEADLOCK FALSE
SYMMETRY Symmetry
INVARIANTS OneStepAtATime GuardIsExact
PROPERTY NothingOverwritten
