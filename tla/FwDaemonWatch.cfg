\* A daemon and its successor, with a watch started in between.
CONSTANTS
  Daemons = {d1, d2}
  None = None
  Overlap = FALSE
  PinMayFail = FALSE
SPECIFICATION Spec
INVARIANT WatchFollowsDaemon
CHECK_DEADLOCK FALSE
