SPECIFICATION Spec
CONSTANTS
  Field = {"a", "b", "c"}
  Absent = Absent
  Bodies <- AllBodies
  Patches <- PatchA
  MaxDeltas = 2
  MaxSnapshots = 7
  MaxStarts = 2
  MaxDecisions = 2
  MaxFaults = 1
CHECK_DEADLOCK FALSE
INVARIANTS LoadIsCommitted MemoryMatchesStore ReplayIsBounded
PROPERTIES NothingOverwritten EditReproduced SkippedStepIsInState
