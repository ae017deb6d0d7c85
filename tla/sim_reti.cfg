SPECIFICATION Spec
CONSTANT Cycles = 14
INVARIANT PassMeansReti
CHECK_DEADLOCK FALSE
