SPECIFICATION FairSpec
CONSTANTS
  NoProc = NoProc
  Procs = {p1, p2}
  Lines <- AllLines
  CharMod = 8
  MaxSigint = 1
  MayFail = FALSE
PROPERTY ZombiesReaped
CHECK_DEADLOCK FALSE
