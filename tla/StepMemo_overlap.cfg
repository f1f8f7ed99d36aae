SPECIFICATION Spec
CONSTANTS
  Worker = {w1, w2}
  Step = {s1, n1}
  Arg = {a}
  NoArg = NoArg
  Idempotent = {s1}
  Opaque = {}
  OperatorReplayable = {TRUE}
  MaxAutoRetries = 1
  MaxExecutions = 3
CHECK_DEADLOCK FALSE
SYMMETRY Symmetry
INVARIANT FirstAttemptExclusive
