\* Three queues with few frames each.
CONSTANTS
  num_queues = 3
  None = None
  expected_packets = 2
  MaxFrames = 2
SPECIFICATION Spec
INVARIANTS TypeOK ReportIsTrue NoProgramLeft
PROPERTIES StartedEnds NotHeldUp
CHECK_DEADLOCK FALSE
