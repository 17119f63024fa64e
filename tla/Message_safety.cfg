SPECIFICATION Spec
CONSTANTS
  s = s
  r = r
  u = u
  fs = fs
  fr = fr
  fu = fu
  NULL = NULL
  Wild = Wild
  None = None
  Procs = {s, u}
  Files = {fs, fu}
  FilesOf <- OwnFiles
  Minors = {0, 1}
  Channels = {1, 2}
  Nodes = {n1, n2}
  BUFFER_LENGTH = 2
  MayFail = TRUE
  Exclusions = {{"device", "message", "load"}, {"device", "message"}}
  Program <- EitherAndUser
  Messages <- AllLengths
  Lengths = {1, 2}
SYMMETRY NodeSymmetry
INVARIANTS TypeOK ListsWellFormed FilesPointIntoLists NothingLeaks
PROPERTIES OopsOnlyOutOfMemory ImplementsRegisters
