CONSTANTS
  SizeT = 32
  files <- MCfiles
  RamdiskSize = 3
  Width = 2
  Height = 1
  Image <- MCImage
  Value = {9}
  Length = {1}
  Offset <- MCOffset
  EndOffset = {30}
SPECIFICATION Spec
PROPERTY WritesInPlace
