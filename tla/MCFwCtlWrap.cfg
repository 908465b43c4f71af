CONSTANTS
  AddrBits = 1
  WordMod = 16
  NsPerSec = 1
  Cpus = {c1}
  Sources = {0}
  Frames <- MCFrames
  FRAC = 2
  FRAC_STEP = 1
  MaxBlock = 1
  MaxRanges = 1
  MaxIps = 1
  MaxRx = 1
  BanSecs = {15}
  PpsValues = {}
  CidrArgs = {}
  MaxTime = 3
SPECIFICATION Spec
PROPERTY BlockTakesEffect
CHECK_DEADLOCK FALSE
