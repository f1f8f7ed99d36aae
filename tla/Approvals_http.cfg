SPECIFICATION FairSpec
CONSTANTS
  Slot = {1, 2}
  Gates = 2
  Permitted <- GatePermits
  Decision = {"APPROVE", "REJECT", "ESCALATE"}
  MaxTroubles = 1
CHECK_DEADLOCK FALSE
INVARIANT WaitingRunIsAnswerable
PROPERTIES ClickCountsOnce ReviewerGetsThrough
