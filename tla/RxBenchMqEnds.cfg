\* Two queues; the specification assumes that each has traffic.
CONSTANTS
  num_queues = 2
  None = None
  expected_packets = 2
  MaxFrames = 3
SPECIFICATION TrafficSpec
PROPERTY RunEnds
CHECK_DEADLOCK FALSE
