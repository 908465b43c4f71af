\* Two invocations at the same time.
CONSTANTS
  Daemons = {d1, d2}
  None = None
  Overlap = TRUE
  PinMayFail = FALSE
SPECIFICATION Spec
INVARIANT CommandsReachDaemon
CHECK_DEADLOCK FALSE
