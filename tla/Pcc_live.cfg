SPECIFICATION FairSpec
CONSTANTS
  c1 = c1
  c2 = c2
  c3 = c3
  NoClient = NoClient
  Clients = {c1, c2, c3}
  File <- OddFiles
  Chars <- TwoChars
  UintMod = 4
  IntBytes = 1
  ListenQueue = 1
  MayFail = TRUE
  LinksMayFail = FALSE
  MaxSigint = 1
PROPERTIES SigintEndsServer ClientsServed ClientEndsOrSpins
CHECK_DEADLOCK FALSE
