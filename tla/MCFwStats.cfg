CONSTANTS
  AddrBits = 1
  WordMod = 64
  NsPerSec = 1
  Cpus = {0, 1}
  ncpu = 2
  Sources = {0}
  Frames <- MCFrames
  FRAC = 1
  FRAC_STEP = 1
  MaxBlock = 1
  MaxRanges = 1
  MaxIps = 1
  MaxRx = 2
  BanSecs = {0}
  PpsValues = {}
  CidrArgs = {}
  MaxTime = 0
SPECIFICATION SSpec
INVARIANTS PrintedBetween OneUnaccounted
CHECK_DEADLOCK FALSE
