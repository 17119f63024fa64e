SPECIFICATION Spec
CONSTANTS
  c1 = c1
  c2 = c2
  c3 = c3
  NoClient = NoClient
  Clients = {c1, c2}
  File <- TwoFiles
  Chars <- TwoChars
  UintMod = 8
  IntBytes = 2
  ListenQueue = 1
  MayFail = FALSE
  LinksMayFail = FALSE
  MaxSigint = 1
INVARIANT ShutdownWhenIdle
CHECK_DEADLOCK FALSE
