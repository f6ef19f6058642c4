\* Two ranks, two calls of any kind, one fault.
CONSTANTS
  Workers = {0, 1}
  OutputRank = 0
  Kinds <- MCKinds
  MaxCalls = 2
  MaxFaults = 1
SPECIFICATION Spec
INVARIANTS
  ResponsesMatchUntilFailure
PROPERTIES
  WaitEnds
CHECK_DEADLOCK FALSE
