SPECIFICATION FairSpec
CONSTANTS
  r = r
  a = a
  b = b
  f = f
  g = g
  o = o
  NoThread = NoThread
  NoEntry = NoEntry
  Root <- r
  Threads = {t1, t2}
  Dirs <- TreeDirs
  Matching = {f, g}
  Contents <- ChainContents
  MayFail = FALSE
  SpuriousWakeups = FALSE
PROPERTY SearchEnds
CHECK_DEADLOCK FALSE
