CONSTANTS
  AddrBits = 1
  WordMod = 64
  NsPerSec = 1
  Cpus = {c1}
  Sources = {0}
  Frames <- OneSource
  FRAC = 1
  FRAC_STEP = 1
  MaxBlock = 1
  MaxRanges = 1
  MaxIps = 1
  MaxRx = 2
  BanSecs = {}
  PpsValues = {}
  CidrArgs = {}
  MaxTime = 3
  RATE_MAX = 1
  SYN_FLOOR = 0
  UDP_MAX = 1
  ICMP_MAX = 1
  ban_sec = 1
SPECIFICATION WSpec
PROPERTY MatchIsCurrent
CHECK_DEADLOCK FALSE
