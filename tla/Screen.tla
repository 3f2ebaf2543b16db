------------------------------- MODULE Screen -------------------------------
(***************************************************************************)
(* What a text terminal shows: cells in reading order and the position of  *)
(* the next character.  Characters are taken one at a time and completely; *)
(* when the last cell is passed, the top line is dropped and a blank line  *)
(* comes in below.                                                         *)
(***************************************************************************)
EXTENDS Integers, Sequences

CONSTANTS
  Width, Height,  (* cells of a line, lines of the screen                   *)
  Glyph,          (* the characters that have a picture                     *)
  Blank,          (* the picture of an empty cell                           *)
  NEWLINE, BACKSPACE

Char == Glyph \cup {NEWLINE, BACKSPACE}
Cells == Width * Height
Place == 0 .. Cells - 1

Screens == [cells : [Place -> Glyph \cup {Blank}], pos : Place]
Empty == [cells |-> [i \in Place |-> Blank], pos |-> 0]

(* The next character goes to cell pos, which may lie behind the last one.  *)
Fitted(cells, pos) ==
  IF pos < Cells
    THEN [cells |-> cells, pos |-> pos]
    ELSE [cells |-> [i \in Place |-> IF i + Width < Cells THEN cells[i + Width] ELSE Blank],
          pos |-> pos - Width]

Backed(s) == IF s.pos = 0 THEN 0 ELSE s.pos - 1

Shown(s, ch) ==
  CASE ch \in Glyph    -> Fitted([s.cells EXCEPT ![s.pos] = ch], s.pos + 1)
    [] ch = NEWLINE    -> Fitted(s.cells, Width * (s.pos \div Width + 1))
    [] ch = BACKSPACE  -> [cells |-> [s.cells EXCEPT ![Backed(s)] = Blank],
                           pos |-> Backed(s)]

(* A whole text, character by character.                                    *)
Printed(s, text) ==
  LET after[n \in 0 .. Len(text)] ==
        IF n = 0 THEN s ELSE Shown(after[n - 1], text[n])
  IN after[Len(text)]
=============================================================================
