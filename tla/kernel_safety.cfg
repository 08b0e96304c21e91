CONSTANTS
  NProc = 3
  Boot = Boot
  Null = Null
  hello = hello
  lost = lost
  Nterm = nterm
  InitPath = lost
  Programs <- MCPrograms
  Missing <- MCMissing
  InitImage <- MCInitImage
  ImgPages <- MCImgPages
  Period = 2
  Poll = 2
  MaxDir = 5
  MaxPage = 2
SPECIFICATION Spec
INVARIANTS
  TypeOK
  UserRuns
  ParkedResumable
  SeparateSpaces
  HeapMapped
PROPERTIES
  OthersUntouched
  Implements
