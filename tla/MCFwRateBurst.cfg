CONSTANTS
  AddrBits = 1
  WordMod = 1024
  NsPerSec = 1
  Cpus = {c1}
  Sources = {0}
  Frames <- MCFrames
  FRAC = 4
  FRAC_STEP = 2
  MaxBlock = 1
  MaxRanges = 1
  MaxIps = 1
  MaxRx = 6
  BanSecs = {}
  PpsValues = {3}
  CidrArgs = {}
  MaxTime = 14
SPECIFICATION RSpec
INVARIANT NoBoundaryBurst
ACTION_CONSTRAINT Unhurried
CHECK_DEADLOCK FALSE
