\* A utility call fails on one rank, then another one is made.
CONSTANTS
  Workers = {0, 1}
  OutputRank = 0
  Kinds <- MCUtilities
  MaxCalls = 2
  MaxFaults = 1
SPECIFICATION Spec
INVARIANTS
  ResponsesMatchCall
CHECK_DEADLOCK FALSE
