CONSTANTS
  NProc = 2
  Boot = Boot
  Null = Null
  hello = hello
  lost = lost
  Nterm = nterm
  InitPath = lost
  Programs <- MCPrograms
  Missing <- MCMissing
  InitImage <- MCInitImage
  ImgPages <- MCImgPages
  Period = 2
  Poll = 2
  MaxDir = 4
  MaxPage = 3
SPECIFICATION Spec
INVARIANT BelowBrkMapped
