CONSTANTS
  Programs <- MCPrograms
  MaxRaises = 4
SPECIFICATION Spec
INVARIANT ReadyBeforeInterrupts
INVARIANT MainsPass
INVARIANT DropsAreReported
INVARIANT OverflowsAreHeld
PROPERTY OverflowsAreAnswered
CHECK_DEADLOCK FALSE
