SPECIFICATION Spec
INVARIANT CallReachesHandler
CHECK_DEADLOCK FALSE
