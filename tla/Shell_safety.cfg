SPECIFICATION FairSpec
CONSTANTS
  NoProc = NoProc
  Procs = {p1, p2, p3}
  Lines <- EveryLine
  CharMod = 8
  MaxSigint = 1
  MayFail = TRUE
INVARIANTS TypeOK TermSparesChildren InterruptReachesCommand PipeEndsWithItsPrograms
PROPERTIES CommandReturns OrphansEnd ImplementsRunner
CHECK_DEADLOCK FALSE
