CONSTANTS
  Problems <- MCProblems
  Declarations <- MCDeclarations
  Rates <- MCRates
SPECIFICATION PartSpec
INVARIANT OracleAgrees
INVARIANT ChecksAreMet
INVARIANT PlansAreSound
INVARIANT OrderIsImmaterial
CHECK_DEADLOCK FALSE
