\* Three chunks and a caller's array smaller than the rx ring: the driver runs
\* out of chunks, and recv leaves frames behind for the next call.
CONSTANTS
  kChunks = 3
  kRingSize = 4
  ArraySize = 2
  MaxFrames = 6
SPECIFICATION Spec
INVARIANTS TypeOK ChunksConserved NothingLeaks
PROPERTIES Implements DriverWoken FramesDelivered
CHECK_DEADLOCK FALSE
