CONSTANT Programs <- MCPrograms
SPECIFICATION Spec
INVARIANT WritesAreWhole
INVARIANT InterruptsRestored
INVARIANT OutputsFollowACall
CHECK_DEADLOCK FALSE
