SPECIFICATION Spec
CONSTANTS
  r = r
  a = a
  b = b
  f = f
  g = g
  o = o
  NoThread = NoThread
  NoEntry = NoEntry
  Root <- r
  Threads = {t1, t2, t3}
  Dirs <- TreeDirs
  Matching = {f, g}
  Contents <- TreeContents
  MayFail = TRUE
  SpuriousWakeups = TRUE
SYMMETRY ThreadSymmetry
INVARIANTS TypeOK LockOwner SearchedOnce MatchesBounded CompleteAtExit CounterExactUntilHandoff
PROPERTY ImplementsSearch
CHECK_DEADLOCK FALSE
