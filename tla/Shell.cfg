SPECIFICATION Spec
CONSTANTS
  CMD_BUFFER_SIZE = 4
  Width = 3
  Height = 3
  Glyph <- MCGlyph
  Blank = "blank"
  NEWLINE = "newline"
  BACKSPACE = "backspace"
  NUL = "NUL"
  Banner <- MCBanner
  Prompt <- MCPrompt
  ClearCommand <- MCClearCommand
  Report <- MCReport
  EchoPrefix <- MCEchoPrefix
  UnknownText <- MCUnknownText
INVARIANTS
  TypeOK
  BufferIsLine
  LineIsShown
