SPECIFICATION Spec
CONSTANTS
  VGA_WIDTH = 2
  VGA_HEIGHT = 2
  BYTE = 2
  Glyph <- OneGlyph
  Blank = "blank"
  NEWLINE = "newline"
  BACKSPACE = "backspace"
  ROW_BOUND = 4
INVARIANTS
  TypeOK
  CursorComesBack
  ScreenShowsText
