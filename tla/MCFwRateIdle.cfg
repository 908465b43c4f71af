CONSTANTS
  AddrBits = 1
  WordMod = 1024
  NsPerSec = 1
  Cpus = {c1}
  Sources = {0}
  Frames <- MCFrames
  FRAC = 2
  FRAC_STEP = 1
  MaxBlock = 1
  MaxRanges = 1
  MaxIps = 1
  MaxRx = 5
  BanSecs = {}
  PpsValues = {1}
  CidrArgs = {}
  MaxTime = 7
SPECIFICATION RSpec
PROPERTY LimitDropIsRecent
CHECK_DEADLOCK FALSE
