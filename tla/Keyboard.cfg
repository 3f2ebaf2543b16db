SPECIFICATION Spec
CONSTANTS
  KEYBOARD_BUFFER_SIZE = 4
  MakeCode <- MCMakeCode
  Char <- MCChar
  NUL = "NUL"
  scancode_ascii_lower <- MCLower
  scancode_ascii_upper <- MCUpper
INVARIANTS
  TypeOK
  LoadedCharIsOldest
  OnlyTypedCharsWait
  ShiftDoesNotStick
PROPERTIES
  ImplementsKeyQueue
  WaitingCharIsTaken
