CONSTANTS
  SizeT = 64
  files <- MCfiles
  RamdiskSize = 1
  Width = 2
  Height = 2
  Image <- MCImage
  Value = {}
  Length = {}
  Offset = {}
  EndOffset = {}
  Program = {1, 2, 3, 4}
SPECIFICATION CanvasSpec
INVARIANT OneFrame
PROPERTY FrameWhole
