SPECIFICATION Spec
CONSTANTS
  Handler = {h1, h2}
  Gates = 2
  MaxTokens = 2
  MaxStarts = 1
  MaxFaults = 2
SYMMETRY Symmetry
CHECK_DEADLOCK FALSE
INVARIANTS OneDecisionPerToken RestingRunIsSettled PausedCanBeReissued
PROPERTIES PassedWasAccepted ApprovedGateNeverAsks
