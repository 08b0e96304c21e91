CONSTANTS
  LSHIFT = LSHIFT
  RSHIFT = RSHIFT
  A = A
  SPACE = SPACE
  F1 = F1
  F3 = F3
  Return = Return
  Erase = Erase
  Key <- MCKey
  Mapped <- MCKey
  Repeating = {A}
  Foreground <- MCForeground
  Modifier = {LSHIFT, RSHIFT}
  Printing = {A, SPACE}
  Blank = {SPACE}
  Program = {1, 3}
  Term = {1}
  KEY_QUEUE_LEN = 3
  MaxEvents = 3
  Scheduler = Scheduler
  NONE = NONE
  Window = Window
  Nul = Nul
  NewLine = NewLine
  Backspace = Backspace
  EMPTY = EMPTY
  Cursor = Cursor
  W = 3
  H = 2
  InputSize = 3
  Banner <- MCNone
  Prompt <- MCPrompt
  MaxCommand = 2
SPECIFICATION NtermSpec
INVARIANTS
  TypeOK
  KeyStateTrue
  WhatYouType
  EchoOnScreen
PROPERTIES
  RefreshShows
  Implements
  KeysDrain
