SPECIFICATION Spec
CONSTANTS
  Field = {"a", "b", "c"}
  Absent = Absent
  Bodies <- SteppingBodies
  Patches <- NoEdit
  MaxDeltas = 2
  MaxSnapshots = 4
  MaxStarts = 1
  MaxDecisions = 0
  MaxFaults = 1
CHECK_DEADLOCK FALSE
PROPERTY ReturnedStepLoads
