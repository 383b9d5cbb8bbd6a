SPECIFICATION Spec
CONSTANTS
  Threads = {t1, t2}
  Nobody = Nobody
  MaxSolves = 2
  MaxRequests = 2
CHECK_DEADLOCK FALSE
INVARIANT HandlerIsRestored
