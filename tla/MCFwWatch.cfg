CONSTANTS
  AddrBits = 1
  WordMod = 64
  NsPerSec = 1
  Cpus = {c1, c2}
  Sources = {0}
  Frames <- OneSource
  FRAC = 1
  FRAC_STEP = 1
  MaxBlock = 1
  MaxRanges = 1
  MaxIps = 1
  MaxRx = 2
  BanSecs = {}
  PpsValues = {}
  CidrArgs = {}
  MaxTime = 1
  RATE_MAX = 1
  SYN_FLOOR = 0
  UDP_MAX = 1
  ICMP_MAX = 1
  ban_sec = 0
SPECIFICATION WSpec
INVARIANTS WatchTypeOK BanIsEarned
SYMMETRY CpuSymmetry
CHECK_DEADLOCK FALSE
