\* Two slots, and a caller's array of two Frames, as falcon-bench has kBATCH.
CONSTANTS
  kBATCH = 2
  ArraySize = 2
  SocketQueue = 3
  MaxFrames = 6
SPECIFICATION Spec
INVARIANT TypeOK
PROPERTIES Implements FramesDelivered
CHECK_DEADLOCK FALSE
