CONSTANTS
  AddrBits = 1
  WordMod = 1024
  NsPerSec = 1
  Cpus = {c1, c2}
  Sources = {0}
  Frames <- MCFrames
  FRAC = 2
  FRAC_STEP = 1
  MaxBlock = 1
  MaxRanges = 1
  MaxIps = 1
  MaxRx = 2
  BanSecs = {}
  PpsValues = {}
  CidrArgs = {}
  MaxTime = 2
SPECIFICATION RSpec
INVARIANT SlotInRange
CHECK_DEADLOCK FALSE
