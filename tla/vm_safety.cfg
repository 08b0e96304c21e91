CONSTANTS
  hello = hello
  nterm = nterm
  W = 4
  UserPages = 12
  StackPages = 2
  Segments <- MCSegments
  HeapStart = 13
  HeapEnd = 54
  NProc = 2
  File = {hello, nterm}
  Image <- MCImage
  InitImage <- MCInitImage
  StoreAt <- MCStoreAt
  BrkAt <- MCBrkAt
  Reserve = 10
SPECIFICATION Spec
CHECK_DEADLOCK FALSE
INVARIANTS
  TypeOK
  UserPagesApart
  KernelEverywhere
PROPERTIES
  Implements
