\* One invocation, interrupted at any step.
CONSTANTS
  Daemons = {d1}
  None = None
  Overlap = FALSE
  PinMayFail = FALSE
SPECIFICATION Spec
INVARIANT CtrlCDetaches
CHECK_DEADLOCK FALSE
