CONSTANTS
  SizeT = 32
  files <- MCfiles
  RamdiskSize = 3
  Width = 2
  Height = 1
  Image <- MCImage
  Value = {9}
  Length <- MCLength
  Offset <- MCOffset
  EndOffset = {0}
SPECIFICATION Spec
INVARIANTS
  TypeOK
  OffsetInFile
PROPERTIES
  WritesInPlace
  Implements
