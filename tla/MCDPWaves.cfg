\* Two engines, one front end, one request, its abort, one pause.
CONSTANTS
  ca = ca
  NumEngines = 2
  Clients = {ca}
  SyncInterval = 2
  MaxRequests = 1
  MaxPauses = 1
SPECIFICATION Spec
INVARIANTS
  LockStep
  NoMixedCollectives
PROPERTIES
  PauseCompletes
  ServedAfterResume
CHECK_DEADLOCK FALSE
