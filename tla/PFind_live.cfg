SPECIFICATION FairSpec
CONSTANTS
  r = r
  a = a
  b = b
  f = f
  g = g
  o = o
  NoThread = NoThread
  NoEntry = NoEntry
  Root <- r
  Threads = {t1, t2, t3}
  Dirs <- TreeDirs
  Matching = {f, g}
  Contents <- ChainContents
  MayFail = TRUE
  SpuriousWakeups = FALSE
INVARIANT BarrierHolds
PROPERTY EndsOrHeldByHandoffOrFailure
CHECK_DEADLOCK FALSE
