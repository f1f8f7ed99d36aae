SPECIFICATION Spec
CONSTANTS
  Worker = {w1}
  Step = {s1, o1}
  Arg = {a, b}
  NoArg = NoArg
  Idempotent = {s1, o1}
  Opaque = {o1}
  OperatorReplayable = {TRUE}
  MaxAutoRetries = 1
  MaxExecutions = 3
CHECK_DEADLOCK FALSE
INVARIANTS TypeOK ExactlyOnce EffectKeepsClaim ReplayStable
PROPERTIES CompletedStays ImplementsLedger
