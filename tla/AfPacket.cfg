\* Three blocks of two frames: the ring wraps round and fills up, blocks are
\* handed over full and on the timer.  The filter in front of the ring is
\* evaluated for every frame up to MaxLen.
CONSTANTS
  kBlockCount = 3
  BlockFrames = 2
  ArraySize = 2
  MaxFrames = 9
  MaxLen = 64
SPECIFICATION Spec
INVARIANTS TypeOK ReadableIsOurs FiltersAgree
PROPERTIES Implements FramesDelivered
CHECK_DEADLOCK FALSE
