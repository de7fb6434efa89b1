SPECIFICATION Spec
CONSTANTS
  Junk = {0, 7}
  Scalars = {0, 3}
  MaxSteps = 3
  MaxRuns = 3
  Roots = {2, 3}
  MaxConversions = 5
INVARIANT InverseInverts
INVARIANT MatrixIsItsMap
INVARIANT FilterIsOptimal
INVARIANT RotationKept
CHECK_DEADLOCK FALSE
