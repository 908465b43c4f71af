\* An array of more than kBATCH Frames, as falcon-rxbench and falcon-validate
\* have: recv calls recvmmsg again.
CONSTANTS
  kBATCH = 2
  ArraySize = 4
  SocketQueue = 3
  MaxFrames = 6
SPECIFICATION Spec
PROPERTY Implements
CHECK_DEADLOCK FALSE
