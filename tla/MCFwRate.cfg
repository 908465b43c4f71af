CONSTANTS
  AddrBits = 1
  WordMod = 1024
  NsPerSec = 1
  Cpus = {c1}
  Sources = {0}
  Frames <- FramesAndRunt
  FRAC = 2
  FRAC_STEP = 2
  MaxBlock = 1
  MaxRanges = 1
  MaxIps = 1
  MaxRx = 5
  BanSecs = {}
  PpsValues = {2}
  CidrArgs = {}
  MaxTime = 9
SPECIFICATION RSpec
INVARIANT SlotInRange
PROPERTIES SlidingQuota CompliantNeverDropped
CHECK_DEADLOCK FALSE
