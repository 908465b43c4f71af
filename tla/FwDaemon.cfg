\* Two invocations of `falconwall start` on one interface, one after the other.
CONSTANTS
  Daemons = {d1, d2}
  None = None
  Overlap = FALSE
  PinMayFail = TRUE
SPECIFICATION Spec
INVARIANTS TypeOK ServingIsConsistent
PROPERTIES StopLeavesNothing SignalStopsDaemon AttachedGetsEnabled
CHECK_DEADLOCK FALSE
