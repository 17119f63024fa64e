SPECIFICATION Spec
CONSTANTS
  s = s
  r = r
  u = u
  fs = fs
  fr = fr
  fu = fu
  NULL = NULL
  Wild = Wild
  None = None
  Procs = {s, r, u}
  Files = {fs, fr, fu}
  FilesOf <- OwnFiles
  Minors = {0}
  Channels = {1, 2}
  Nodes = {n1, n2}
  BUFFER_LENGTH = 2
  MayFail = FALSE
  Exclusions = {{"device", "load"}}
  Program <- SenderAndReader
  Messages <- AllLengths
  Lengths = {1, 2}
INVARIANT ReadsWhole
