CONSTANTS
  a = a
  sp = sp
  Bytes <- MCBytes
  Blanks <- MCBlanks
  Chunks <- MCChunks
  Delims <- MCDelims
  Junk = Junk
  Lengths = {0, 1, 2}
  InitSize = 2
  MaxCapacity = 6
  CopyOrder = "forward"
SPECIFICATION Spec
INVARIANTS TypeOK RoomEnsured
PROPERTIES StreamSpec
