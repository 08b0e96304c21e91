CONSTANTS
  NProc = 2
  Boot = Boot
  Null = Null
  hello = hello
  lost = lost
  Nterm = nterm
  InitPath = lost
  Programs <- MCPrograms
  Missing <- MCMissing
  InitImage <- MCInitImage
  ImgPages <- MCImgPages
  Period = 3
  Poll = 2
  MaxDir = 3
  MaxPage = 2
SPECIFICATION FairSpec
PROPERTIES
  BackgroundRuns
  ForegroundRuns
