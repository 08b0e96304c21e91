CONSTANTS
  Value <- MCValue
  Unknown = Unknown
  Word = 8
  MBASE = 4
  MSIZE = 2
  Memory <- MCMemory
  Pointer = 4
  StackEnd = 100
  NUL = NUL
  ScreenW = 4
  ScreenH = 3
  Black = Black
  Garbage = Garbage
  MaxSymbols = 5
  Few = {"5", "(", ")", "-", "*", "+"}
  MaxFew = 7
  MaxStrings = 2
SPECIFICATION Spec
INVARIANTS
  ExprRight
  ArgsArrive
  ScreenShows
CHECK_DEADLOCK FALSE
