SPECIFICATION Spec
CONSTANTS
  c1 = c1
  c2 = c2
  c3 = c3
  NoClient = NoClient
  Clients = {c1, c2}
  File <- TwoFiles
  Chars <- TwoChars
  UintMod = 8
  IntBytes = 2
  ListenQueue = 2
  MayFail = TRUE
  LinksMayFail = TRUE
  MaxSigint = 2
INVARIANTS TypeOK TotalsExact ReportExact AnsweredIsCounted AnswersExact OnlyWholeFiles
PROPERTY ImplementsService
CHECK_DEADLOCK FALSE
