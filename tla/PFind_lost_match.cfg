SPECIFICATION Spec
CONSTANTS
  r = r
  a = a
  b = b
  f = f
  g = g
  o = o
  NoThread = NoThread
  NoEntry = NoEntry
  Root <- r
  Threads = {t1, t2}
  Dirs <- TreeDirs
  Matching = {f, g}
  Contents <- TreeContents
  MayFail = FALSE
  SpuriousWakeups = FALSE
INVARIANT MatchesCounted
CHECK_DEADLOCK FALSE
