CONSTANTS
  AddrBits = 2
  WordMod = 64
  NsPerSec = 1
  Cpus = {c1, c2}
  Sources = {2, 3}
  Frames <- MCFrames
  FRAC = 2
  FRAC_STEP = 1
  MaxBlock = 1
  MaxRanges = 1
  MaxIps = 1
  MaxRx = 1
  BanSecs = {0, 1}
  PpsValues = {1}
  CidrArgs <- MCCidrArgs
  MaxTime = 2
SPECIFICATION VSpec
INVARIANTS TypeOK CountersBalance
PROPERTIES NoPassWhileHeld NoDropWithoutCause
SYMMETRY CpuSymmetry
CHECK_DEADLOCK FALSE
