--------------------------- MODULE TerminalProofs ---------------------------
(***************************************************************************)
(* Two writers and a row that is stored before it is tested: why the row   *)
(* comes back to the screen all the same, and why the screen shows the     *)
(* text when no writer came in within a character of the other, for        *)
(* screens of every size.                                                  *)
(***************************************************************************)
EXTENDS Terminal, TLAPS

Scrolling(p) == pc[p] \in {"scroll", "last"}

(* A writer's copy of the row was on the screen when it was loaded, unless  *)
(* it was loaded while the other one scrolled.                              *)
CopyInv ==
  \A p \in Writer :
    pc[p] \in {"put", "column", "row", "erase"} =>
      /\ reg[p].y \in Row \/ (p = "isr" /\ Scrolling("shell"))
      /\ pc[p] = "row" /\ reg[p].c = BACKSPACE => reg[p].y > 0
      /\ pc[p] = "put" => reg[p].c \in Glyph

RowInv == terminal_row \in Row \/ \E p \in Writer : Scrolling(p)
IsrInv == ~in_isr => pc["isr"] = "rest"

IInv == TypeOK /\ CopyInv /\ RowInv /\ IsrInv

-----------------------------------------------------------------------------
(* What the abstract screen makes of a character is a screen again.         *)
LEMMA ProductMonotone ==
  ASSUME NEW w \in Nat, NEW a \in Nat, NEW b \in Nat, a <= b
  PROVE  w * a <= w * b
<1>1. PICK d \in Nat : b = a + d
  <2>1. b - a \in Nat /\ b = a + (b - a)
    OBVIOUS
  <2> QED  BY <2>1
<1>2. w * b = w * a + w * d
  BY <1>1
<1>3. w * d \in Nat /\ w * a \in Nat
  OBVIOUS
<1> QED  BY <1>2, <1>3

LEMMA NextLineFits ==
  ASSUME NEW w \in Nat \ {0}, NEW h \in Nat \ {0}, NEW p \in 0 .. w * h - 1
  PROVE  w * (p \div w + 1) \in 0 .. w * h
<1> DEFINE q == p \div w
<1>0. w * h \in Nat
  OBVIOUS
<1>1. q \in Nat /\ w * q <= p
  <2>1. p \in Nat /\ w \in Nat /\ w > 0
    BY <1>0
  <2>2. q \in Nat
    BY <2>1
  <2>3. w * q <= p
    BY <2>1
  <2> QED  BY <2>2, <2>3
<1>2. w * h \in Nat /\ w * q \in Nat /\ w * (q + 1) \in Nat
  BY <1>1
<1>3. ~ (h <= q)
  <2> SUFFICES ASSUME h <= q PROVE FALSE
    OBVIOUS
  <2>1. w * h <= w * q
    BY <1>1, ProductMonotone
  <2> QED  BY <1>1, <1>2, <2>1
<1>4. w * (q + 1) <= w * h
  BY <1>1, <1>3, ProductMonotone
<1> QED  BY <1>2, <1>4

LEMMA ScreenSize ==
  /\ S!Cells = VGA_WIDTH * VGA_HEIGHT
  /\ S!Cells \in Nat
  /\ VGA_WIDTH \in 1 .. S!Cells
<1>1. VGA_WIDTH \in Nat \ {0} /\ VGA_HEIGHT \in Nat \ {0}
  BY TerminalAssumption
<1>2. VGA_WIDTH * 1 <= VGA_WIDTH * VGA_HEIGHT
  BY <1>1, ProductMonotone
<1>3. VGA_WIDTH * VGA_HEIGHT \in Nat
  BY <1>1
<1> QED  BY <1>1, <1>2, <1>3 DEF S!Cells

LEMMA FittedType ==
  ASSUME NEW cells \in [S!Place -> Glyph \cup {Blank}], NEW pos \in 0 .. S!Cells
  PROVE  S!Fitted(cells, pos) \in S!Screens
<1>1. CASE pos < S!Cells
  BY <1>1, ScreenSize DEF S!Fitted, S!Screens, S!Place
<1>2. CASE ~ (pos < S!Cells)
  <2>1. pos - VGA_WIDTH \in S!Place
    BY <1>2, ScreenSize DEF S!Place
  <2>2. \A i \in S!Place : i + VGA_WIDTH < S!Cells => i + VGA_WIDTH \in S!Place
    BY ScreenSize DEF S!Place
  <2> QED  BY <1>2, <2>1, <2>2 DEF S!Fitted, S!Screens
<1> QED  BY <1>1, <1>2

LEMMA ShownType ==
  ASSUME NEW s \in S!Screens, NEW c \in Char
  PROVE  S!Shown(s, c) \in S!Screens
<1>1. s.cells \in [S!Place -> Glyph \cup {Blank}] /\ s.pos \in S!Place
  BY DEF S!Screens
<1>2. CASE c \in Glyph
  <2>1. s.pos + 1 \in 0 .. S!Cells
    BY <1>1, ScreenSize DEF S!Place
  <2>2. [s.cells EXCEPT ![s.pos] = c] \in [S!Place -> Glyph \cup {Blank}]
    BY <1>1, <1>2
  <2>3. S!Shown(s, c) = S!Fitted([s.cells EXCEPT ![s.pos] = c], s.pos + 1)
    BY <1>2, TerminalAssumption DEF S!Shown
  <2> QED  BY <2>1, <2>2, <2>3, FittedType
<1>3. CASE c = NEWLINE
  <2>1. VGA_WIDTH * (s.pos \div VGA_WIDTH + 1) \in 0 .. S!Cells
    BY <1>1, ScreenSize, TerminalAssumption, NextLineFits DEF S!Place
  <2>2. S!Shown(s, c) = S!Fitted(s.cells, VGA_WIDTH * (s.pos \div VGA_WIDTH + 1))
    BY <1>3, TerminalAssumption DEF S!Shown
  <2> QED  BY <1>1, <2>1, <2>2, FittedType
<1>4. CASE c = BACKSPACE
  <2>1. S!Backed(s) \in S!Place
    BY <1>1, ScreenSize DEF S!Place, S!Backed
  <2>2. S!Shown(s, c) = [cells |-> [s.cells EXCEPT ![S!Backed(s)] = Blank],
                        pos |-> S!Backed(s)]
    BY <1>4, TerminalAssumption DEF S!Shown
  <2> QED  BY <1>1, <2>1, <2>2 DEF S!Screens
<1> QED  BY <1>2, <1>3, <1>4 DEF Char

LEMMA EmptyType == S!Empty \in S!Screens
BY ScreenSize DEF S!Empty, S!Screens, S!Place

-----------------------------------------------------------------------------
LEMMA InitIInv == Init => IInv
<1> SUFFICES ASSUME Init PROVE IInv
  OBVIOUS
<1>1. 0 \in Row /\ 0 \in Column /\ 0 \in 0 .. BYTE - 1
  BY TerminalAssumption DEF Row, Column
<1>2. terminal_buffer \in [Row -> [Column -> Glyph \cup {Blank}]]
  BY DEF Init, BlankLine
<1>3. crtc \in [index : Register, low : 0 .. BYTE - 1, high : 0 .. BYTE - 1]
  BY <1>1 DEF Init, Register
<1>4. reg \in [Writer -> [c : Char, x : Column, y : Nat, n : Row]]
  BY <1>1 DEF Init, Char
<1>5. TypeOK
  BY <1>1, <1>2, <1>3, <1>4, EmptyType DEF Init, TypeOK
<1>6. \A p \in Writer : pc[p] = "rest"
  BY DEF Init
<1>7. CopyInv /\ RowInv /\ IsrInv
  BY <1>1, <1>6 DEF Init, CopyInv, RowInv, IsrInv, Writer
<1> QED  BY <1>5, <1>7 DEF IInv

(* When the shell runs the other writer is at rest; when the other runs the *)
(* shell is wherever it was stopped.                                        *)
LEMMA Positions ==
  ASSUME IInv, NEW p \in Writer, NEW place, At(p, place)
  PROVE  /\ pc[p] = place
         /\ p = "shell" => ~in_isr /\ pc["isr"] = "rest"
         /\ p = "isr" => in_isr
BY DEF IInv, IsrInv, At, Writer

(* A step that stores neither row nor column of the screen nor the copy.    *)
LEMMA MoveOn ==
  ASSUME IInv, NEW p \in Writer, NEW from, NEW to, At(p, from), Goto(p, to),
         to \in {"rest", "index", "low", "index2", "high", "load", "row0", "column0", "clear"},
         ~ Scrolling(p),
         UNCHANGED <<terminal_row, in_isr>>,
         \A q \in Writer \ {p} : reg'[q] = reg[q]
  PROVE  CopyInv' /\ RowInv' /\ IsrInv'
<1>2. /\ pc'[p] = to
      /\ \A q \in Writer \ {p} : pc'[q] = pc[q]
  BY DEF IInv, TypeOK, Goto
<1>3. CopyInv'
  BY <1>2 DEF IInv, CopyInv, Writer, Scrolling, Row
<1>4. RowInv'
  BY <1>2 DEF IInv, RowInv, Writer, Scrolling, Row
<1>5. IsrInv'
  BY <1>2, Positions DEF IInv, IsrInv, Writer
<1> QED  BY <1>3, <1>4, <1>5

LEMMA PutcharStep ==
  ASSUME IInv, NEW p \in Writer, NEW c \in Char, terminal_putchar(p, c)
  PROVE  IInv'
<1>1. S!Shown(expected, c) \in S!Screens
  BY ShownType DEF IInv, TypeOK
<1>2. TypeOK'
  BY <1>1 DEF IInv, TypeOK, terminal_putchar, Goto, position
<1>3. \A q \in Writer \ {p} : reg'[q] = reg[q]
  BY DEF IInv, TypeOK, terminal_putchar
<1>4. ~ Scrolling(p)
  BY DEF terminal_putchar, At, Scrolling
<1>5. CopyInv' /\ RowInv' /\ IsrInv'
  BY <1>3, <1>4, MoveOn DEF terminal_putchar, position
<1> QED  BY <1>2, <1>5 DEF IInv

LEMMA LoadStep ==
  ASSUME IInv, NEW p \in Writer, Load(p)
  PROVE  IInv'
<1> DEFINE next == FirstStore(reg[p].c, terminal_column, terminal_row)
<1>1. /\ next \in {"put", "column", "row", "erase"}
      /\ next = "row" => terminal_row > 0
      /\ next = "put" => reg[p].c \in Glyph
  BY TerminalAssumption DEF IInv, TypeOK, FirstStore, Char, Column
<1>2. /\ pc'[p] = next
      /\ \A q \in Writer \ {p} : pc'[q] = pc[q] /\ reg'[q] = reg[q]
      /\ reg'[p].y = terminal_row /\ reg'[p].c = reg[p].c
  BY DEF IInv, TypeOK, Load, Goto
<1>3. TypeOK'
  BY ZenonT(30), <1>1 DEF IInv, TypeOK, Load, Goto, position
<1>4. terminal_row \in Row \/ (p = "isr" /\ Scrolling("shell"))
  BY Positions DEF IInv, RowInv, Scrolling, Writer, Load
<1>5. CopyInv'
  BY ZenonT(30), <1>1, <1>2, <1>4, Positions DEF IInv, CopyInv, Scrolling, Writer, Load, Row
<1>6. RowInv'
  BY <1>2, <1>4 DEF RowInv, Scrolling, Writer, Load, position, Row
<1>7. IsrInv'
  BY <1>2, Positions DEF IInv, IsrInv, Load, Writer
<1> QED  BY <1>3, <1>5, <1>6, <1>7 DEF IInv

LEMMA BufferStep ==
  ASSUME IInv, NEW x \in Column, NEW y \in Nat, NEW c \in Glyph \cup {Blank},
         terminal_putentryat(c, x, y)
  PROVE  terminal_buffer' \in [Row -> [Column -> Glyph \cup {Blank}]]
BY DEF IInv, TypeOK, terminal_putentryat

LEMMA PutStep ==
  ASSUME IInv, NEW p \in Writer, Put(p)
  PROVE  IInv'
<1>1. reg[p].x \in Column /\ reg[p].y \in Nat /\ reg[p].c \in Glyph
  BY DEF IInv, TypeOK, CopyInv, Put, At
<1>2. terminal_buffer' \in [Row -> [Column -> Glyph \cup {Blank}]]
  BY <1>1, BufferStep DEF Put
<1>3. TypeOK'
  BY <1>2 DEF IInv, TypeOK, Put, Goto, position
<1>4. /\ pc[p] = "put" /\ pc'[p] = "column"
      /\ \A q \in Writer \ {p} : pc'[q] = pc[q]
  BY DEF IInv, TypeOK, Put, At, Goto
<1>5. CopyInv' /\ RowInv' /\ IsrInv'
  BY <1>4, Positions
     DEF IInv, CopyInv, RowInv, IsrInv, Put, position, Scrolling, Writer, Row
<1> QED  BY <1>3, <1>5 DEF IInv

LEMMA EraseStep ==
  ASSUME IInv, NEW p \in Writer, Erase(p)
  PROVE  IInv'
<1>1. reg[p].x \in Column /\ reg[p].y \in Nat
  BY DEF IInv, TypeOK
<1>2. terminal_buffer' \in [Row -> [Column -> Glyph \cup {Blank}]]
  BY <1>1, BufferStep DEF Erase
<1>3. TypeOK'
  BY <1>2 DEF IInv, TypeOK, Erase, Goto, position
<1>4. ~ Scrolling(p)
  BY DEF Erase, At, Scrolling
<1>5. CopyInv' /\ RowInv' /\ IsrInv'
  BY <1>4, MoveOn DEF Erase, position
<1> QED  BY <1>3, <1>5 DEF IInv

(* A store to the column leaves the copy of the row alone.                  *)
LEMMA StoreColumnStep ==
  ASSUME IInv, NEW p \in Writer, NEW x \in Column, NEW from, NEW to,
         At(p, from), from \in {"column", "column0"}, to \in {"index", "row", "erase", "clear"},
         to \in {"row", "erase"} => from = "column",
         to = "row" => reg[p].c # BACKSPACE,
         StoreColumn(p, x, to)
  PROVE  IInv'
<1>1. TypeOK'
  BY DEF IInv, TypeOK, StoreColumn, Goto
<1>2. /\ pc[p] = from /\ pc'[p] = to
      /\ reg'[p].y = reg[p].y /\ reg'[p].c = reg[p].c
      /\ \A q \in Writer \ {p} : pc'[q] = pc[q] /\ reg'[q] = reg[q]
  BY DEF IInv, TypeOK, StoreColumn, At, Goto
<1>3. UNCHANGED <<terminal_row, in_isr>>
  BY DEF StoreColumn
<1>4. CopyInv'
  BY <1>2, <1>3 DEF IInv, CopyInv, Scrolling, Writer, Row
<1>5. RowInv'
  BY <1>2, <1>3 DEF IInv, RowInv, Scrolling, Writer, Row
<1>6. IsrInv'
  BY <1>2, <1>3, Positions DEF IInv, IsrInv, Writer
<1> QED  BY <1>1, <1>4, <1>5, <1>6 DEF IInv

LEMMA SetColumnStep ==
  ASSUME IInv, NEW p \in Writer, SetColumn(p)
  PROVE  IInv'
<1>1. At(p, "column") /\ reg[p].c \in Char /\ reg[p].x \in Column
  BY DEF IInv, TypeOK, SetColumn
<1>2. PICK x \in Column, to \in {"index", "row", "erase"} :
        StoreColumn(p, x, to) /\ (to = "row" => reg[p].c # BACKSPACE)
  <2>1. CASE reg[p].c \in Glyph /\ ~LineFull(reg[p].x) /\ StoreColumn(p, reg[p].x + 1, "index")
    <3>1. reg[p].x + 1 \in Column
      BY <1>1, <2>1, TerminalAssumption DEF Column, LineFull
    <3> QED  BY <2>1, <3>1
  <2>2. CASE reg[p].c # BACKSPACE /\ StoreColumn(p, 0, "row")
    <3>1. 0 \in Column
      BY TerminalAssumption DEF Column
    <3> QED  BY <2>2, <3>1
  <2>3. CASE reg[p].x > 0 /\ StoreColumn(p, reg[p].x - 1, "erase")
    <3>1. reg[p].x - 1 \in Column
      BY <1>1, <2>3, TerminalAssumption DEF Column
    <3> QED  BY <2>3, <3>1
  <2>4. CASE StoreColumn(p, VGA_WIDTH - 1, "erase")
    <3>1. VGA_WIDTH - 1 \in Column
      BY TerminalAssumption DEF Column
    <3> QED  BY <2>4, <3>1
  <2> QED  BY <2>1, <2>2, <2>3, <2>4, TerminalAssumption DEF SetColumn
<1> QED  BY <1>1, <1>2, StoreColumnStep

(* A store to the row is on the screen, or is followed by a scroll, or is   *)
(* the other writer's while the shell scrolls.                              *)
LEMMA StoreRowStep ==
  ASSUME IInv, NEW p \in Writer, NEW y \in Nat, NEW from, NEW to,
         At(p, from), to \in {"scroll", "index", "column", "column0"},
         y \in Row \/ to = "scroll" \/ (p = "isr" /\ Scrolling("shell")),
         StoreRow(p, y, to)
  PROVE  IInv'
<1>1. 0 \in Row
  BY TerminalAssumption DEF Row
<1>2. TypeOK'
  BY ZenonT(30), <1>1 DEF IInv, TypeOK, StoreRow, Goto
<1>3. /\ pc'[p] = to /\ reg'[p].y = y /\ reg'[p].c = reg[p].c /\ terminal_row' = y
      /\ \A q \in Writer \ {p} : pc'[q] = pc[q] /\ reg'[q] = reg[q]
  BY DEF IInv, TypeOK, StoreRow, Goto
<1>4. in_isr' = in_isr
  BY DEF StoreRow
<1>5. p = "shell" => ~in_isr /\ pc["isr"] = "rest"
  BY Positions
<1>6. CopyInv'
  <2>1. to # "scroll" => y \in Row \/ (p = "isr" /\ Scrolling("shell"))
    OBVIOUS
  <2> QED  BY <1>3, <1>5, <2>1 DEF IInv, CopyInv, Scrolling, Writer, Row
<1>7. RowInv'
  BY <1>3, <1>5 DEF IInv, RowInv, Scrolling, Writer, Row
<1>8. IsrInv'
  BY <1>3, <1>4, <1>5, Positions DEF IInv, IsrInv, Writer
<1> QED  BY <1>2, <1>6, <1>7, <1>8 DEF IInv

LEMMA SetRowStep ==
  ASSUME IInv, NEW p \in Writer, SetRow(p)
  PROVE  IInv'
<1>1. At(p, "row") /\ reg[p].y \in Nat
  BY DEF IInv, TypeOK, SetRow
<1>2. /\ reg[p].y \in Row \/ (p = "isr" /\ Scrolling("shell"))
      /\ reg[p].c = BACKSPACE => reg[p].y > 0
  BY <1>1 DEF IInv, CopyInv, At
<1>3. CASE reg[p].y + 1 = VGA_HEIGHT /\ StoreRow(p, reg[p].y + 1, "scroll")
  BY <1>1, <1>3, StoreRowStep
<1>4. CASE reg[p].y + 1 # VGA_HEIGHT /\ StoreRow(p, reg[p].y + 1, "index")
  <2>1. reg[p].y + 1 \in Nat /\ (reg[p].y \in Row => reg[p].y + 1 \in Row)
    BY <1>1, <1>4, TerminalAssumption DEF Row
  <2> QED  BY <1>1, <1>2, <1>4, <2>1, StoreRowStep
<1>5. CASE reg[p].c = BACKSPACE /\ StoreRow(p, reg[p].y - 1, "column")
  <2>1. reg[p].y - 1 \in Nat /\ (reg[p].y \in Row => reg[p].y - 1 \in Row)
    BY <1>1, <1>2, <1>5, TerminalAssumption DEF Row
  <2> QED  BY <1>1, <1>2, <1>5, <2>1, StoreRowStep
<1> QED  BY <1>3, <1>4, <1>5 DEF SetRow

LEMMA LastRowStep ==
  ASSUME IInv, NEW p \in Writer, SetLastRow(p) \/ ClearRow(p)
  PROVE  IInv'
<1>1. VGA_HEIGHT - 1 \in Row /\ VGA_HEIGHT - 1 \in Nat /\ 0 \in Row
  BY TerminalAssumption DEF Row
<1> QED  BY <1>1, StoreRowStep DEF SetLastRow, ClearRow, LastRow

(* One line of a loop over the lines.                                       *)
LEMMA NextLineType ==
  ASSUME IInv, NEW p \in Writer, NEW place, NEW end, NextLine(p, place, end)
  PROVE  /\ reg' \in [Writer -> [c : Char, x : Column, y : Nat, n : Row]]
         /\ Goto(p, place) \/ Goto(p, end)
         /\ \A q \in Writer \ {p} : reg'[q] = reg[q]
<1>1. reg[p].n < VGA_HEIGHT - 1 => reg[p].n + 1 \in Row
  BY TerminalAssumption DEF IInv, TypeOK, Row
<1>2. reg \in [Writer -> [c : Char, x : Column, y : Nat, n : Row]]
  BY DEF IInv, TypeOK
<1>3. CASE reg[p].n < VGA_HEIGHT - 1
  <2>1. reg' = [reg EXCEPT ![p].n = reg[p].n + 1] /\ Goto(p, place)
    BY <1>3 DEF NextLine
  <2> QED  BY <1>1, <1>2, <1>3, <2>1
<1>4. CASE ~ (reg[p].n < VGA_HEIGHT - 1)
  BY <1>2, <1>4 DEF NextLine
<1> QED  BY <1>3, <1>4

LEMMA ScrollStep ==
  ASSUME IInv, NEW p \in Writer, terminal_scroll(p)
  PROVE  IInv'
<1>1. /\ reg' \in [Writer -> [c : Char, x : Column, y : Nat, n : Row]]
      /\ Goto(p, "scroll") \/ Goto(p, "last")
      /\ \A q \in Writer \ {p} : reg'[q] = reg[q]
  BY NextLineType DEF terminal_scroll
<1>2. LineBelow(reg[p].n) \in [Column -> Glyph \cup {Blank}]
  <2>1. reg[p].n \in Row /\ (reg[p].n < VGA_HEIGHT - 1 => reg[p].n + 1 \in Row)
    BY TerminalAssumption DEF IInv, TypeOK, Row
  <2> QED  BY <2>1 DEF IInv, TypeOK, LineBelow, BlankLine
<1>3. TypeOK'
  BY <1>1, <1>2 DEF IInv, TypeOK, terminal_scroll, Goto, position
<1>4. /\ Scrolling(p) /\ Scrolling(p)' /\ \A q \in Writer \ {p} : pc'[q] = pc[q]
      /\ pc'[p] \in {"scroll", "last"}
  BY <1>1 DEF IInv, TypeOK, terminal_scroll, Goto, At, Scrolling
<1>5. UNCHANGED <<terminal_row, in_isr>>
  BY DEF terminal_scroll, position
<1>6. CopyInv'
  BY <1>1, <1>4, <1>5 DEF IInv, CopyInv, Scrolling, Writer, Row
<1>7. RowInv'
  BY <1>4, <1>5 DEF IInv, RowInv, Scrolling, Writer, Row
<1>8. IsrInv'
  BY <1>4, <1>5, Positions DEF IInv, IsrInv, Writer, terminal_scroll
<1> QED  BY <1>3, <1>6, <1>7, <1>8 DEF IInv

LEMMA ClearStep ==
  ASSUME IInv, NEW p \in Writer, terminal_clear(p)
  PROVE  IInv'
<1>1. /\ reg' \in [Writer -> [c : Char, x : Column, y : Nat, n : Row]]
      /\ Goto(p, "clear") \/ Goto(p, "index")
      /\ \A q \in Writer \ {p} : reg'[q] = reg[q]
  BY NextLineType DEF terminal_clear
<1>2. BlankLine \in [Column -> Glyph \cup {Blank}]
  BY DEF BlankLine
<1>3. TypeOK'
  BY <1>1, <1>2 DEF IInv, TypeOK, terminal_clear, Goto, position
<1>4. ~ Scrolling(p) /\ At(p, "clear") /\ UNCHANGED <<terminal_row, in_isr>>
  BY DEF terminal_clear, At, Scrolling, position
<1>5. CopyInv' /\ RowInv' /\ IsrInv'
  BY <1>1, <1>4, MoveOn
<1> QED  BY <1>3, <1>5 DEF IInv

LEMMA ClearColumnStep ==
  ASSUME IInv, NEW p \in Writer, ClearColumn(p)
  PROVE  IInv'
<1>1. 0 \in Column
  BY TerminalAssumption DEF Column
<1> QED  BY <1>1, StoreColumnStep DEF ClearColumn

LEMMA InitializeStep ==
  ASSUME IInv, NEW p \in Writer, terminal_initialize(p)
  PROVE  IInv'
<1>1. TypeOK'
  BY EmptyType DEF IInv, TypeOK, terminal_initialize, Goto, position
<1>2. ~ Scrolling(p)
  BY DEF terminal_initialize, At, Scrolling
<1>3. CopyInv' /\ RowInv' /\ IsrInv'
  BY <1>2, MoveOn DEF terminal_initialize, position
<1> QED  BY <1>1, <1>3 DEF IInv

LEMMA CursorByteType ==
  ASSUME IInv, NEW p \in Writer, NEW r \in Register
  PROVE  CursorByte(r, reg[p].x, reg[p].y) \in 0 .. BYTE - 1
<1>1. reg[p].x \in Nat /\ reg[p].y \in Nat /\ VGA_WIDTH \in Nat
  BY TerminalAssumption DEF IInv, TypeOK, Column
<1>2. reg[p].y * VGA_WIDTH + reg[p].x \in Nat
  BY <1>1
<1>3. \A a \in Nat : a % BYTE \in 0 .. BYTE - 1 /\ a \div BYTE \in Nat
  BY TerminalAssumption
<1> QED  BY <1>2, <1>3 DEF CursorByte

LEMMA CursorStep ==
  ASSUME IInv, NEW p \in Writer, terminal_update_cursor(p)
  PROVE  IInv'
<1>1. PICK r \in Register : SelectRegister(p, r) \/ WriteRegister(p, r)
  BY DEF terminal_update_cursor
<1>2. CASE SelectRegister(p, r)
  <2>1. TypeOK'
    BY <1>2 DEF IInv, TypeOK, SelectRegister, Goto, position, Register
  <2>2. PICK from \in {"index", "index2"} : At(p, from)
    BY <1>2 DEF SelectRegister
  <2>3. ~ Scrolling(p) /\ Goto(p, r) /\ UNCHANGED <<terminal_row, in_isr, reg>>
    BY <1>2, <2>2 DEF SelectRegister, At, Scrolling, position
  <2>4. CopyInv' /\ RowInv' /\ IsrInv'
    BY <2>2, <2>3, MoveOn DEF Register
  <2> QED  BY <2>1, <2>4 DEF IInv
<1>3. CASE WriteRegister(p, r)
  <2>1. crtc' \in [index : Register, low : 0 .. BYTE - 1, high : 0 .. BYTE - 1]
    BY <1>3, CursorByteType DEF IInv, TypeOK, WriteRegister
  <2>2. TypeOK'
    BY <1>3, <2>1 DEF IInv, TypeOK, WriteRegister, Goto, position
  <2>3. PICK to \in {"index2", "rest"} : Goto(p, to)
    BY <1>3 DEF WriteRegister
  <2>4. ~ Scrolling(p) /\ At(p, r) /\ UNCHANGED <<terminal_row, in_isr, reg>>
    BY <1>3 DEF WriteRegister, At, Scrolling, position, Register
  <2>5. CopyInv' /\ RowInv' /\ IsrInv'
    BY <2>3, <2>4, MoveOn
  <2> QED  BY <2>2, <2>5 DEF IInv
<1> QED  BY <1>1, <1>2, <1>3

LEMMA IInvStep == IInv /\ [Next]_vars => IInv'
<1> SUFFICES ASSUME IInv, [Next]_vars PROVE IInv'
  OBVIOUS
<1>1. CASE EnterIsr \/ ReturnFromIsr
  <2>1. TypeOK' /\ IsrInv'
    BY <1>1 DEF IInv, TypeOK, IsrInv, EnterIsr, ReturnFromIsr, position
  <2>2. CopyInv' /\ RowInv'
    BY <1>1 DEF IInv, CopyInv, RowInv, Scrolling, EnterIsr, ReturnFromIsr, position, Row
  <2> QED  BY <2>1, <2>2 DEF IInv
<1>2. ASSUME NEW p \in Writer, Step(p) PROVE IInv'
  <2>1. CASE terminal_write(p)
    BY <2>1, PutcharStep DEF terminal_write
  <2> QED
    BY <1>2, <2>1, LoadStep, PutStep, EraseStep, SetColumnStep, SetRowStep, ScrollStep,
       LastRowStep, InitializeStep, ClearColumnStep, ClearStep, CursorStep DEF Step
<1>3. CASE UNCHANGED vars
  BY <1>3 DEF IInv, TypeOK, CopyInv, RowInv, IsrInv, Scrolling, vars, position, Row
<1> QED  BY <1>1, <1>2, <1>3 DEF Next

-----------------------------------------------------------------------------
(* Types, for every size of the screen; the column never leaves it.         *)
THEOREM TypeCorrect == Spec => []TypeOK
<1>1. IInv => TypeOK
  BY DEF IInv
<1> QED  BY <1>1, InitIInv, IInvStep, PTL DEF Spec

(* The row comes back to the screen with the end of the scroll, for every   *)
(* size of the screen and whatever the second writer prints meanwhile: all  *)
(* copies of the row that a writer may still store were loaded on it        *)
(* (terminal.c:76-92).                                                      *)
THEOREM CursorCorrect == Spec => []CursorComesBack
<1>1. IInv => CursorComesBack
  BY DEF IInv, IsrInv, RowInv, Scrolling, CursorComesBack, Writer
<1> QED  BY <1>1, InitIInv, IInvStep, PTL DEF Spec

-----------------------------------------------------------------------------
(* Cell x of line y, in reading order.                                      *)
Cell(y, x) == y * VGA_WIDTH + x
Position == Cell(terminal_row, terminal_column)

CellMap == [S!Place -> Glyph \cup {Blank}]
Picture(cells) ==
  \A y \in Row, x \in Column : terminal_buffer[y][x] = cells[Cell(y, x)]
Blanked(cells, pos) == [cells |-> [cells EXCEPT ![pos] = Blank], pos |-> pos]

Writing == IF in_isr THEN "isr" ELSE "shell"
Copied(p) == reg[p].x = terminal_column /\ reg[p].y = terminal_row

(* What is still to be done makes the screen that is expected of the one    *)
(* in the buffer.                                                           *)
Pending(p, cells) ==
  LET c == reg[p].c
  IN /\ pc[p] \in {"load", "put"} =>
          expected = S!Shown([cells |-> cells, pos |-> Position], c)
     /\ pc[p] = "column" /\ c \in Glyph =>
          expected = S!Fitted(cells, Position + 1)
     /\ pc[p] = "column" /\ c = NEWLINE =>
          expected = S!Fitted(cells, Cell(terminal_row + 1, 0))
     /\ pc[p] = "column" /\ c = BACKSPACE =>
          expected = Blanked(cells, IF terminal_column > 0
                                      THEN Cell(terminal_row, terminal_column - 1)
                                      ELSE Cell(terminal_row, VGA_WIDTH - 1))
     /\ pc[p] = "row" /\ c # BACKSPACE =>
          expected = S!Fitted(cells, Cell(terminal_row + 1, 0))
     /\ pc[p] = "row" /\ c = BACKSPACE =>
          expected = Blanked(cells, Cell(terminal_row - 1, VGA_WIDTH - 1))
     /\ pc[p] = "erase" => expected = Blanked(cells, Position)

CharInv(p) ==
  /\ pc[p] \in {"load", "put", "column", "row", "erase"} =>
       /\ terminal_row \in Row
       /\ \E cells \in CellMap : Picture(cells) /\ Pending(p, cells)
  /\ pc[p] \in {"put", "column", "row", "erase"} => Copied(p)
  /\ pc[p] = "row" => terminal_column = 0

ScrollInv(p) ==
  /\ pc[p] \in {"scroll", "last"} =>
       terminal_column = 0 /\ reg[p].x = 0 /\ expected.pos = Cell(VGA_HEIGHT - 1, 0)
  /\ pc[p] = "scroll" =>
       \A y \in Row, x \in Column :
         expected.cells[Cell(y, x)] =
           IF y < reg[p].n THEN terminal_buffer[y][x] ELSE LineBelow(y)[x]
  /\ pc[p] = "last" => Picture(expected.cells)

ClearInv(p) ==
  /\ pc[p] \in {"row0", "column0", "clear"} => expected = S!Empty
  /\ pc[p] \in {"column0", "clear"} => terminal_row = 0 /\ reg[p].y = 0 /\ (pc[p] = "column0" => reg[p].n = 0)
  /\ pc[p] = "clear" =>
       /\ terminal_column = 0 /\ reg[p].x = 0
       /\ \A y \in Row : y < reg[p].n => terminal_buffer[y] = BlankLine

CursorInv(p) ==
  /\ pc[p] \in {"index", "low", "index2", "high", "rest"} =>
       /\ terminal_row \in Row
       /\ Picture(expected.cells) /\ expected.pos = Position
  /\ pc[p] \in {"index", "low", "index2", "high"} => Copied(p)
  /\ pc[p] = "low" => crtc.index = "low"
  /\ pc[p] = "high" => crtc.index = "high"
  /\ pc[p] \in {"index2", "high", "rest"} => crtc.low = Position % BYTE
  /\ pc[p] = "rest" => crtc.high = (Position \div BYTE) % BYTE

TextAt(p) == CharInv(p) /\ ScrollInv(p) /\ ClearInv(p) /\ CursorInv(p)

TextInv ==
  ~intruded =>
    /\ \A q \in Writer : q # Writing => pc[q] = "rest"
    /\ TextAt(Writing)

-----------------------------------------------------------------------------
LEMMA Sizes == VGA_WIDTH \in Nat \ {0} /\ VGA_HEIGHT \in Nat \ {0}
BY TerminalAssumption

(* Where a cell is among all of them.                                       *)
LEMMA CellNumber ==
  ASSUME NEW y \in Nat, NEW x \in Column
  PROVE  /\ Cell(y, x) \in Nat
         /\ x + 1 < VGA_WIDTH => Cell(y, x) + 1 = Cell(y, x + 1)
         /\ x + 1 = VGA_WIDTH => Cell(y, x) + 1 = Cell(y + 1, 0)
         /\ x > 0 => Cell(y, x) - 1 = Cell(y, x - 1)
         /\ x = 0 /\ y > 0 => Cell(y, x) - 1 = Cell(y - 1, VGA_WIDTH - 1)
         /\ Cell(y, x) + VGA_WIDTH = Cell(y + 1, x)
         /\ Cell(y, x) \div VGA_WIDTH = y
         /\ Cell(y, x) % VGA_WIDTH = x
<1> DEFINE w == VGA_WIDTH
<1>1. w \in Nat \ {0} /\ x \in 0 .. w - 1 /\ y \in Nat /\ w * y \in Nat
  BY Sizes DEF Column
<1>2. Cell(y, x) = w * y + x
  BY <1>1 DEF Cell
<1>3. Cell(y, x) \div w = y /\ Cell(y, x) % w = x
  <2>1. (w * y + x) \div w = y
    BY <1>1
  <2>2. (w * y + x) % w = x
    BY <1>1
  <2> QED  BY <1>2, <2>1, <2>2
<1>4. /\ Cell(y, x + 1) = w * y + x + 1
      /\ Cell(y + 1, 0) = w * y + w
      /\ Cell(y, x - 1) = w * y + x - 1
      /\ Cell(y - 1, w - 1) = w * y - 1
      /\ Cell(y + 1, x) = w * y + w + x
  BY <1>1 DEF Cell
<1> HIDE DEF w
<1>5. Cell(y, x) \in Nat
  BY <1>1, <1>2
<1> QED  BY <1>1, <1>2, <1>3, <1>4, <1>5 DEF w

LEMMA CellUnique ==
  ASSUME NEW y \in Nat, NEW x \in Column, NEW v \in Nat, NEW u \in Column,
         Cell(y, x) = Cell(v, u)
  PROVE  y = v /\ x = u
<1>1. Cell(y, x) \div VGA_WIDTH = y /\ Cell(y, x) % VGA_WIDTH = x
  BY CellNumber
<1>2. Cell(v, u) \div VGA_WIDTH = v /\ Cell(v, u) % VGA_WIDTH = u
  BY CellNumber
<1> QED  BY <1>1, <1>2

LEMMA CellPlace ==
  ASSUME NEW y \in Nat, NEW x \in Column
  PROVE  Cell(y, x) < S!Cells <=> y \in Row
<1> DEFINE w == VGA_WIDTH
           h == VGA_HEIGHT
<1>1. w \in Nat \ {0} /\ h \in Nat \ {0} /\ x \in 0 .. w - 1
  BY Sizes DEF Column
<1>2. Cell(y, x) = w * y + x /\ S!Cells = w * h
  BY <1>1, ScreenSize DEF Cell
<1>3. w * y \in Nat /\ w * h \in Nat
  BY <1>1
<1>4. CASE y \in Row
  <2>1. y + 1 <= h
    BY <1>1, <1>4 DEF Row
  <2>2. w * (y + 1) <= w * h
    BY <1>1, <2>1, ProductMonotone
  <2>3. w * (y + 1) = w * y + w
    BY <1>1
  <2> QED  BY <1>1, <1>2, <1>3, <1>4, <2>2, <2>3
<1>5. CASE y \notin Row
  <2>1. h <= y
    BY <1>1, <1>5 DEF Row
  <2>2. w * h <= w * y
    BY <1>1, <2>1, ProductMonotone
  <2> QED  BY <1>1, <1>2, <1>3, <1>5, <2>2
<1> QED  BY <1>4, <1>5

LEMMA CellOnScreen ==
  ASSUME NEW y \in Row, NEW x \in Column
  PROVE  Cell(y, x) \in S!Place
<1>1. y \in Nat
  BY Sizes DEF Row
<1> QED  BY <1>1, CellNumber, CellPlace, ScreenSize DEF S!Place

LEMMA CellEnd ==
  /\ 0 \in Column /\ VGA_WIDTH - 1 \in Column /\ 0 \in Row /\ VGA_HEIGHT - 1 \in Row
  /\ Cell(VGA_HEIGHT, 0) = S!Cells
BY Sizes, ScreenSize DEF Cell, Column, Row

(* A store to a cell, and the cell blanked or filled.                       *)
LEMMA PictureOfCell ==
  ASSUME terminal_buffer \in [Row -> [Column -> Glyph \cup {Blank}]],
         NEW cells \in CellMap, Picture(cells),
         NEW v \in Row, NEW u \in Column, NEW c,
         terminal_buffer' = [terminal_buffer EXCEPT ![v][u] = c],
         NEW changed, changed = [cells EXCEPT ![Cell(v, u)] = c]
  PROVE  Picture(changed)'
<1> SUFFICES ASSUME NEW y \in Row, NEW x \in Column
             PROVE  terminal_buffer'[y][x] = changed[Cell(y, x)]
  BY DEF Picture
<1>1. y \in Nat /\ v \in Nat
  BY Sizes DEF Row
<1>2. Cell(y, x) \in S!Place /\ Cell(v, u) \in S!Place
  BY CellOnScreen
<1>3. terminal_buffer'[y][x] = IF y = v /\ x = u THEN c ELSE terminal_buffer[y][x]
  OBVIOUS
<1>4. changed[Cell(y, x)] = IF Cell(y, x) = Cell(v, u) THEN c ELSE cells[Cell(y, x)]
  BY <1>2 DEF CellMap
<1>5. Cell(y, x) = Cell(v, u) <=> y = v /\ x = u
  BY <1>1, CellUnique
<1> QED  BY <1>3, <1>4, <1>5 DEF Picture

(* What a character makes of the screen, by line and column.                *)
LEMMA GlyphAtCell ==
  ASSUME NEW cells, NEW pos, NEW c \in Glyph,
         NEW s, s = [cells |-> cells, pos |-> pos]
  PROVE  S!Shown(s, c) = S!Fitted([cells EXCEPT ![pos] = c], pos + 1)
<1>1. c # NEWLINE /\ c # BACKSPACE
  BY TerminalAssumption
<1>2. S!Shown(s, c) = S!Fitted([s.cells EXCEPT ![s.pos] = c], s.pos + 1)
  BY <1>1 DEF S!Shown
<1> QED  BY <1>2

LEMMA ShownAtCell ==
  ASSUME NEW cells, NEW y \in Row, NEW x \in Column,
         NEW s, s = [cells |-> cells, pos |-> Cell(y, x)]
  PROVE  /\ S!Shown(s, NEWLINE) = S!Fitted(cells, Cell(y + 1, 0))
         /\ x > 0 => S!Shown(s, BACKSPACE) = Blanked(cells, Cell(y, x - 1))
         /\ x = 0 /\ y > 0 =>
              S!Shown(s, BACKSPACE) = Blanked(cells, Cell(y - 1, VGA_WIDTH - 1))
         /\ x = 0 /\ y = 0 => S!Shown(s, BACKSPACE) = Blanked(cells, Cell(y, x))
<1>1. /\ NEWLINE # BACKSPACE /\ NEWLINE \notin Glyph /\ BACKSPACE \notin Glyph
      /\ VGA_WIDTH \in Nat \ {0} /\ y \in Nat /\ x \in Nat
  BY TerminalAssumption DEF Row, Column
<1>2. /\ Cell(y, x) \in Nat
      /\ x > 0 => Cell(y, x) - 1 = Cell(y, x - 1)
      /\ x = 0 /\ y > 0 => Cell(y, x) - 1 = Cell(y - 1, VGA_WIDTH - 1)
      /\ Cell(y, x) \div VGA_WIDTH = y
  BY <1>1, CellNumber
<1>3. VGA_WIDTH * (y + 1) = Cell(y + 1, 0)
  BY <1>1 DEF Cell
<1>4. Cell(y, x) = 0 <=> x = 0 /\ y = 0
  <2>1. 0 \in Nat /\ 0 \in Column /\ Cell(0, 0) = 0
    BY <1>1 DEF Cell, Column
  <2> QED  BY <1>1, <2>1, CellUnique
<1>5. s.cells = cells /\ s.pos = Cell(y, x)
  OBVIOUS
<1>6. S!Shown(s, NEWLINE) = S!Fitted(cells, Cell(y + 1, 0))
  <2>1. S!Shown(s, NEWLINE) = S!Fitted(s.cells, VGA_WIDTH * (s.pos \div VGA_WIDTH + 1))
    BY <1>1 DEF S!Shown
  <2> QED  BY <1>2, <1>3, <1>5, <2>1
<1>7. S!Shown(s, BACKSPACE) = Blanked(cells, IF Cell(y, x) = 0 THEN 0 ELSE Cell(y, x) - 1)
  <2>1. S!Shown(s, BACKSPACE) = Blanked(s.cells, S!Backed(s))
    BY <1>1 DEF S!Shown, Blanked
  <2>2. S!Backed(s) = IF Cell(y, x) = 0 THEN 0 ELSE Cell(y, x) - 1
    BY <1>5 DEF S!Backed
  <2> QED  BY <1>5, <2>1, <2>2
<1>8. x > 0 => S!Shown(s, BACKSPACE) = Blanked(cells, Cell(y, x - 1))
  <2> SUFFICES ASSUME x > 0 PROVE S!Shown(s, BACKSPACE) = Blanked(cells, Cell(y, x - 1))
    OBVIOUS
  <2>1. Cell(y, x) # 0 /\ Cell(y, x) - 1 = Cell(y, x - 1)
    BY <1>2, <1>4
  <2> QED  BY <1>7, <2>1
<1>9. x = 0 /\ y > 0 => S!Shown(s, BACKSPACE) = Blanked(cells, Cell(y - 1, VGA_WIDTH - 1))
  <2> SUFFICES ASSUME x = 0, y > 0
               PROVE  S!Shown(s, BACKSPACE) = Blanked(cells, Cell(y - 1, VGA_WIDTH - 1))
    OBVIOUS
  <2>1. Cell(y, x) # 0 /\ Cell(y, x) - 1 = Cell(y - 1, VGA_WIDTH - 1)
    BY <1>2, <1>4
  <2> QED  BY <1>7, <2>1
<1>10. x = 0 /\ y = 0 => S!Shown(s, BACKSPACE) = Blanked(cells, Cell(y, x))
  BY <1>4, <1>7
<1> QED  BY <1>6, <1>8, <1>9, <1>10

LEMMA FittedOnScreen ==
  ASSUME NEW cells, NEW y \in Row, NEW x \in Column
  PROVE  S!Fitted(cells, Cell(y, x)) = [cells |-> cells, pos |-> Cell(y, x)]
<1>1. Cell(y, x) < S!Cells
  BY CellOnScreen, ScreenSize DEF S!Place
<1> QED  BY <1>1 DEF S!Fitted

LEMMA FittedBelow ==
  ASSUME NEW cells, NEW f, f = S!Fitted(cells, Cell(VGA_HEIGHT, 0))
  PROVE  /\ f.pos = Cell(VGA_HEIGHT - 1, 0)
         /\ \A y \in Row, x \in Column :
              f.cells[Cell(y, x)] =
                IF y < VGA_HEIGHT - 1 THEN cells[Cell(y + 1, x)] ELSE Blank
<1> DEFINE moved == [i \in S!Place |-> IF i + VGA_WIDTH < S!Cells THEN cells[i + VGA_WIDTH] ELSE Blank]
<1>1. f = [cells |-> moved, pos |-> S!Cells - VGA_WIDTH]
  BY CellEnd, ScreenSize DEF S!Fitted
<1>2. S!Cells - VGA_WIDTH = Cell(VGA_HEIGHT - 1, 0)
  <2>1. VGA_HEIGHT - 1 \in Nat /\ (VGA_HEIGHT - 1) + 1 = VGA_HEIGHT
    BY Sizes
  <2>2. Cell(VGA_HEIGHT - 1, 0) + VGA_WIDTH = S!Cells /\ Cell(VGA_HEIGHT - 1, 0) \in Nat
    BY <2>1, CellNumber, CellEnd
  <2> QED  BY <2>2, ScreenSize, Sizes
<1>3. ASSUME NEW y \in Row, NEW x \in Column
      PROVE  moved[Cell(y, x)] = IF y < VGA_HEIGHT - 1 THEN cells[Cell(y + 1, x)] ELSE Blank
  <2>1. /\ y \in Nat /\ y + 1 \in Nat
        /\ y < VGA_HEIGHT - 1 <=> y + 1 \in Row
    BY Sizes DEF Row
  <2>2. Cell(y, x) + VGA_WIDTH = Cell(y + 1, x)
    BY <2>1, CellNumber
  <2>3. Cell(y + 1, x) < S!Cells <=> y + 1 \in Row
    BY <2>1, CellPlace
  <2>4. Cell(y, x) \in S!Place
    BY CellOnScreen
  <2> QED  BY <2>1, <2>2, <2>3, <2>4
<1> HIDE DEF moved
<1> QED  BY <1>1, <1>2, <1>3

-----------------------------------------------------------------------------
(* One step of the writer that has the processor, nobody else being within  *)
(* a character.                                                             *)
USE DEF TextAt

LEMMA PutcharText ==
  ASSUME IInv, NEW p \in Writer, TextAt(p), NEW c \in Char, terminal_putchar(p, c)
  PROVE  TextAt(p)'
<1>1. pc[p] = "rest" /\ pc'[p] = "load" /\ reg'[p].c = c
  BY DEF IInv, TypeOK, terminal_putchar, At, Goto
<1>2. /\ UNCHANGED <<terminal_row, terminal_column, terminal_buffer>>
      /\ expected' = S!Shown(expected, c)
  BY DEF terminal_putchar, position
<1>3. terminal_row \in Row /\ Picture(expected.cells) /\ expected.pos = Position
  BY <1>1 DEF CursorInv
<1>4. expected.cells \in CellMap /\ expected = [cells |-> expected.cells, pos |-> Position]
  BY <1>3 DEF IInv, TypeOK, S!Screens, CellMap
<1>5. PICK cells \in CellMap : cells = expected.cells
  BY <1>4
<1>6. Picture(cells)' /\ Position' = Position
  BY <1>2, <1>3, <1>5 DEF Picture, Position
<1>7. expected' = S!Shown([cells |-> cells, pos |-> Position'], reg'[p].c)
  BY <1>1, <1>2, <1>4, <1>5, <1>6
<1>8. Pending(p, cells)'
  BY <1>1, <1>7 DEF Pending
<1>9. CharInv(p)'
  BY <1>1, <1>2, <1>3, <1>6, <1>8 DEF CharInv
<1> QED  BY <1>1, <1>9 DEF ScrollInv, ClearInv, CursorInv

LEMMA LoadText ==
  ASSUME IInv, NEW p \in Writer, TextAt(p), Load(p)
  PROVE  TextAt(p)'
<1> DEFINE c == reg[p].c
           next == FirstStore(c, terminal_column, terminal_row)
<1>1. /\ pc[p] = "load" /\ pc'[p] = next /\ c \in Char
      /\ reg'[p].c = c /\ reg'[p].x = terminal_column /\ reg'[p].y = terminal_row
  BY DEF IInv, TypeOK, Load, At, Goto
<1>2. UNCHANGED <<terminal_row, terminal_column, terminal_buffer, expected>>
  BY DEF Load, position
<1>3. PICK cells \in CellMap : Picture(cells) /\ Pending(p, cells)
  BY <1>1 DEF CharInv
<1>4. /\ terminal_row \in Row /\ terminal_row \in Nat
      /\ terminal_column \in Column /\ terminal_column \in Nat
  BY <1>1, Sizes DEF CharInv, IInv, TypeOK, Column, Row
<1>5. expected = S!Shown([cells |-> cells, pos |-> Position], c)
  BY <1>1, <1>3 DEF Pending
<1>6. Picture(cells)' /\ Position' = Position
  BY <1>2, <1>3 DEF Picture, Position
<1>7. PICK s : s = [cells |-> cells, pos |-> Cell(terminal_row, terminal_column)]
  OBVIOUS
<1>8. expected = S!Shown(s, c)
  BY <1>5, <1>7 DEF Position
<1>9. /\ S!Shown(s, NEWLINE) = S!Fitted(cells, Cell(terminal_row + 1, 0))
      /\ terminal_column > 0 =>
           S!Shown(s, BACKSPACE) = Blanked(cells, Cell(terminal_row, terminal_column - 1))
      /\ terminal_column = 0 /\ terminal_row > 0 =>
           S!Shown(s, BACKSPACE) = Blanked(cells, Cell(terminal_row - 1, VGA_WIDTH - 1))
      /\ terminal_column = 0 /\ terminal_row = 0 =>
           S!Shown(s, BACKSPACE) = Blanked(cells, Cell(terminal_row, terminal_column))
  BY <1>4, <1>7, ShownAtCell
<1>10. /\ next \in {"put", "column", "row", "erase"}
       /\ next = "put" => c \in Glyph
       /\ next = "column" => c = NEWLINE \/ (c = BACKSPACE /\ terminal_column > 0)
       /\ next = "row" => c = BACKSPACE /\ terminal_column = 0 /\ terminal_row > 0
       /\ next = "erase" => c = BACKSPACE /\ terminal_column = 0 /\ terminal_row = 0
  BY <1>1, <1>4, TerminalAssumption DEF FirstStore, Char
<1> HIDE DEF next
<1>11. Pending(p, cells)'
  <2>1. CASE next = "put"
    BY <1>1, <1>2, <1>5, <1>6, <2>1 DEF Pending
  <2>2. CASE next = "column"
    BY <1>1, <1>2, <1>8, <1>9, <1>10, <2>2, TerminalAssumption DEF Pending
  <2>3. CASE next = "row"
    BY <1>1, <1>2, <1>8, <1>9, <1>10, <2>3 DEF Pending
  <2>4. CASE next = "erase"
    BY <1>1, <1>2, <1>6, <1>8, <1>9, <1>10, <2>4 DEF Pending, Position
  <2> QED  BY <1>10, <2>1, <2>2, <2>3, <2>4
<1>12. CharInv(p)'
  BY <1>1, <1>2, <1>4, <1>6, <1>10, <1>11 DEF CharInv, Copied
<1> QED  BY <1>1, <1>10, <1>12 DEF ScrollInv, ClearInv, CursorInv

LEMMA PutText ==
  ASSUME IInv, NEW p \in Writer, TextAt(p), Put(p)
  PROVE  TextAt(p)'
<1> DEFINE c == reg[p].c
<1>1. pc[p] = "put" /\ pc'[p] = "column" /\ c \in Glyph /\ c \notin {NEWLINE, BACKSPACE}
  BY TerminalAssumption DEF IInv, TypeOK, CopyInv, Put, At, Goto
<1>2. UNCHANGED <<terminal_row, terminal_column, expected, reg>>
  BY DEF Put, position
<1>3. PICK cells \in CellMap : Picture(cells) /\ Pending(p, cells)
  BY <1>1 DEF CharInv
<1>4. /\ terminal_row \in Row /\ terminal_column \in Column /\ Copied(p)
      /\ terminal_buffer \in [Row -> [Column -> Glyph \cup {Blank}]]
  BY <1>1 DEF CharInv, IInv, TypeOK
<1>5. PICK filled : filled = [cells EXCEPT ![Position] = c]
  OBVIOUS
<1>6. filled \in CellMap
  BY <1>1, <1>5 DEF CellMap
<1>7. terminal_buffer' = [terminal_buffer EXCEPT ![terminal_row][terminal_column] = c]
  BY <1>4 DEF Put, terminal_putentryat, Copied
<1>8. Picture(filled)'
  BY <1>3, <1>4, <1>5, <1>7, PictureOfCell DEF Position
<1>9. expected' = S!Fitted(filled, Position' + 1)
  <2>1. PICK s : s = [cells |-> cells, pos |-> Position]
    OBVIOUS
  <2>2. expected = S!Shown(s, c)
    BY <1>1, <1>3, <2>1 DEF Pending
  <2>3. S!Shown(s, c) = S!Fitted(filled, Position + 1)
    BY <1>1, <1>5, <2>1, GlyphAtCell
  <2> QED  BY <1>2, <2>2, <2>3 DEF Position
<1>10. Pending(p, filled)'
  BY <1>1, <1>2, <1>9 DEF Pending
<1>11. CharInv(p)'
  BY <1>1, <1>2, <1>4, <1>6, <1>8, <1>10 DEF CharInv, Copied
<1> QED  BY <1>1, <1>11 DEF ScrollInv, ClearInv, CursorInv

(* The last store to the screen: from here on only the cursor is missing.   *)
LEMMA Settled ==
  ASSUME NEW p \in Writer, (pc[p] = "index")', Copied(p)', terminal_row' \in Row,
         Picture(expected.cells)', expected'.pos = Position'
  PROVE  TextAt(p)'
BY DEF CharInv, ScrollInv, ClearInv, CursorInv

LEMMA EraseText ==
  ASSUME IInv, NEW p \in Writer, TextAt(p), Erase(p)
  PROVE  TextAt(p)'
<1>1. pc[p] = "erase" /\ pc'[p] = "index"
  BY DEF IInv, TypeOK, Erase, At, Goto
<1>2. UNCHANGED <<terminal_row, terminal_column, expected, reg>>
  BY DEF Erase, position
<1>3. PICK cells \in CellMap : Picture(cells) /\ Pending(p, cells)
  BY <1>1 DEF CharInv
<1>4. /\ terminal_row \in Row /\ terminal_column \in Column /\ Copied(p)
      /\ terminal_buffer \in [Row -> [Column -> Glyph \cup {Blank}]]
  BY <1>1 DEF CharInv, IInv, TypeOK
<1>5. PICK blanked : blanked = [cells EXCEPT ![Position] = Blank]
  OBVIOUS
<1>6. expected' = [cells |-> blanked, pos |-> Position]
  BY <1>1, <1>2, <1>3, <1>5 DEF Pending, Blanked
<1>7. terminal_buffer' = [terminal_buffer EXCEPT ![terminal_row][terminal_column] = Blank]
  BY <1>4 DEF Erase, terminal_putentryat, Copied
<1>8. Picture(blanked)'
  BY <1>3, <1>4, <1>5, <1>7, PictureOfCell DEF Position
<1>9. Picture(expected.cells)' /\ expected'.pos = Position'
  BY <1>2, <1>6, <1>8 DEF Picture, Position
<1> QED  BY <1>1, <1>2, <1>4, <1>9, Settled DEF Copied

LEMMA SetColumnText ==
  ASSUME IInv, NEW p \in Writer, TextAt(p), SetColumn(p)
  PROVE  TextAt(p)'
<1> DEFINE c == reg[p].c
           x == terminal_column
           y == terminal_row
<1>1. pc[p] = "column" /\ c \in Char /\ reg[p].x = x /\ reg[p].y = y
  BY DEF IInv, TypeOK, SetColumn, At, CharInv, Copied
<1>2. PICK cells \in CellMap : Picture(cells) /\ Pending(p, cells)
  BY <1>1 DEF CharInv
<1>3. y \in Row /\ x \in Column /\ y \in Nat /\ x \in Nat
  BY <1>1, Sizes DEF CharInv, IInv, TypeOK, Row, Column
<1>4. ASSUME NEW u, NEW to, StoreColumn(p, u, to)
      PROVE  /\ pc'[p] = to /\ terminal_column' = u
             /\ reg'[p].x = u /\ reg'[p].y = y /\ reg'[p].c = c
             /\ UNCHANGED <<terminal_row, terminal_buffer, expected>>
             /\ Picture(cells)'
  BY <1>1, <1>2, <1>4 DEF IInv, TypeOK, StoreColumn, Goto, Picture
<1>5. CASE c \in Glyph /\ ~LineFull(x) /\ StoreColumn(p, x + 1, "index")
  <2>1. x + 1 \in Column /\ x + 1 < VGA_WIDTH
    BY <1>3, <1>5, Sizes DEF LineFull, Column
  <2>2. Cell(y, x) + 1 = Cell(y, x + 1)
    BY <1>3, <2>1, CellNumber
  <2>3. expected = S!Fitted(cells, Cell(y, x + 1))
    BY <1>1, <1>2, <1>5, <2>2 DEF Pending, Position
  <2>4. expected = [cells |-> cells, pos |-> Cell(y, x + 1)]
    BY <1>3, <2>1, <2>3, FittedOnScreen
  <2>5. pc'[p] = "index" /\ terminal_column' = x + 1 /\ reg'[p].x = x + 1 /\ reg'[p].y = y
        /\ UNCHANGED <<terminal_row, terminal_buffer, expected>> /\ Picture(cells)'
    BY <1>4, <1>5
  <2>6. Picture(expected.cells)' /\ expected'.pos = Position'
    BY <2>4, <2>5 DEF Picture, Position
  <2> QED  BY <1>3, <2>5, <2>6, Settled DEF Copied
<1>6. CASE StoreColumn(p, 0, "row") /\ ((c \in Glyph /\ LineFull(x)) \/ c = NEWLINE)
  <2>1. c # BACKSPACE
    BY <1>6, TerminalAssumption
  <2>2. expected = S!Fitted(cells, Cell(y + 1, 0))
    <3>1. CASE c = NEWLINE
      BY <1>1, <1>2, <3>1 DEF Pending
    <3>2. CASE c \in Glyph /\ LineFull(x)
      <4>1. Cell(y, x) + 1 = Cell(y + 1, 0)
        BY <1>3, <3>2, CellNumber DEF LineFull
      <4> QED  BY <1>1, <1>2, <3>2, <4>1 DEF Pending, Position
    <3> QED  BY <1>6, <3>1, <3>2
  <2>3. pc'[p] = "row" /\ terminal_column' = 0 /\ reg'[p].x = 0 /\ reg'[p].y = y /\ reg'[p].c = c
        /\ UNCHANGED <<terminal_row, terminal_buffer, expected>> /\ Picture(cells)'
    BY <1>4, <1>6
  <2>4. Pending(p, cells)'
    BY <2>1, <2>2, <2>3 DEF Pending
  <2>5. CharInv(p)'
    BY <1>3, <2>3, <2>4 DEF CharInv, Copied
  <2> QED  BY <2>3, <2>5 DEF ScrollInv, ClearInv, CursorInv
<1>7. CASE \E u \in Column : /\ c = BACKSPACE /\ StoreColumn(p, u, "erase")
                             /\ u = IF x > 0 THEN x - 1 ELSE VGA_WIDTH - 1
  <2>1. PICK u \in Column : /\ c = BACKSPACE /\ StoreColumn(p, u, "erase")
                            /\ u = IF x > 0 THEN x - 1 ELSE VGA_WIDTH - 1
    BY <1>7
  <2>2. expected = Blanked(cells, Cell(y, u))
    BY <1>1, <1>2, <2>1 DEF Pending
  <2>3. pc'[p] = "erase" /\ terminal_column' = u /\ reg'[p].x = u /\ reg'[p].y = y
        /\ UNCHANGED <<terminal_row, terminal_buffer, expected>> /\ Picture(cells)'
    BY <1>4, <2>1
  <2>4. Pending(p, cells)'
    BY <2>2, <2>3 DEF Pending, Position
  <2>5. CharInv(p)'
    BY <1>3, <2>3, <2>4 DEF CharInv, Copied
  <2> QED  BY <2>3, <2>5 DEF ScrollInv, ClearInv, CursorInv
<1>8. \/ c \in Glyph /\ ~LineFull(x) /\ StoreColumn(p, x + 1, "index")
      \/ c \in Glyph /\ LineFull(x) /\ StoreColumn(p, 0, "row")
      \/ c = NEWLINE /\ StoreColumn(p, 0, "row")
      \/ c = BACKSPACE /\ x > 0 /\ StoreColumn(p, x - 1, "erase")
      \/ c = BACKSPACE /\ x = 0 /\ StoreColumn(p, VGA_WIDTH - 1, "erase")
  BY <1>1 DEF SetColumn
<1>9. CASE c = BACKSPACE /\ x > 0 /\ StoreColumn(p, x - 1, "erase")
  <2>1. x - 1 \in Column
    BY <1>3, <1>9, Sizes DEF Column
  <2> QED  BY <1>7, <1>9, <2>1
<1>10. CASE c = BACKSPACE /\ x = 0 /\ StoreColumn(p, VGA_WIDTH - 1, "erase")
  <2>1. VGA_WIDTH - 1 \in Column /\ ~ (x > 0)
    BY <1>10, CellEnd
  <2> QED  BY <1>7, <1>10, <2>1
<1> QED  BY <1>5, <1>6, <1>8, <1>9, <1>10

LEMMA SetRowText ==
  ASSUME IInv, NEW p \in Writer, TextAt(p), SetRow(p)
  PROVE  TextAt(p)'
<1> DEFINE c == reg[p].c
           y == terminal_row
<1>1. /\ pc[p] = "row" /\ c \in Char /\ reg[p].y = y /\ reg[p].x = 0 /\ terminal_column = 0
  BY DEF IInv, TypeOK, SetRow, At, CharInv, Copied
<1>2. PICK cells \in CellMap : Picture(cells) /\ Pending(p, cells)
  BY <1>1 DEF CharInv
<1>3. y \in Row /\ y \in Nat /\ 0 \in Column /\ VGA_HEIGHT \in Nat
  BY <1>1, Sizes DEF CharInv, Row, Column
<1>4. ASSUME NEW v, NEW to, StoreRow(p, v, to)
      PROVE  /\ pc'[p] = to /\ terminal_row' = v /\ terminal_column' = 0
             /\ reg'[p].x = 0 /\ reg'[p].y = v /\ reg'[p].c = c /\ reg'[p].n = 0
             /\ UNCHANGED <<terminal_buffer, expected>>
             /\ Picture(cells)'
  BY <1>1, <1>2, <1>4 DEF IInv, TypeOK, StoreRow, Goto, Picture
<1>5. CASE c # BACKSPACE /\ y + 1 = VGA_HEIGHT /\ StoreRow(p, y + 1, "scroll")
  <2>1. expected = S!Fitted(cells, Cell(VGA_HEIGHT, 0))
    BY <1>1, <1>2, <1>5 DEF Pending
  <2>2. /\ expected.pos = Cell(VGA_HEIGHT - 1, 0)
        /\ \A v \in Row, u \in Column :
             expected.cells[Cell(v, u)] =
               IF v < VGA_HEIGHT - 1 THEN cells[Cell(v + 1, u)] ELSE Blank
    BY <2>1, FittedBelow
  <2>3. pc'[p] = "scroll" /\ terminal_column' = 0 /\ reg'[p].x = 0 /\ reg'[p].n = 0
        /\ UNCHANGED <<terminal_buffer, expected>>
    BY <1>4, <1>5
  <2>4. ASSUME NEW v \in Row, NEW u \in Column
        PROVE  expected.cells[Cell(v, u)] = LineBelow(v)[u] /\ ~ (v < 0)
    <3>1. v \in Nat /\ (v < VGA_HEIGHT - 1 => v + 1 \in Row)
      BY Sizes DEF Row
    <3>2. CASE v < VGA_HEIGHT - 1
      BY <1>2, <2>2, <3>1, <3>2 DEF LineBelow, Picture
    <3>3. CASE ~ (v < VGA_HEIGHT - 1)
      BY <2>2, <3>1, <3>3 DEF LineBelow, BlankLine
    <3> QED  BY <3>1, <3>2, <3>3
  <2>5. ScrollInv(p)'
    BY <2>2, <2>3, <2>4 DEF ScrollInv, LineBelow
  <2> QED  BY <2>3, <2>5 DEF CharInv, ClearInv, CursorInv
<1>6. CASE c # BACKSPACE /\ y + 1 # VGA_HEIGHT /\ StoreRow(p, y + 1, "index")
  <2>1. y + 1 \in Row
    BY <1>3, <1>6 DEF Row
  <2>2. expected = [cells |-> cells, pos |-> Cell(y + 1, 0)]
    BY <1>1, <1>2, <1>3, <1>6, <2>1, FittedOnScreen DEF Pending
  <2>3. pc'[p] = "index" /\ terminal_row' = y + 1 /\ terminal_column' = 0 /\ reg'[p].x = 0
        /\ reg'[p].y = y + 1 /\ UNCHANGED <<terminal_buffer, expected>> /\ Picture(cells)'
    BY <1>4, <1>6
  <2>4. Picture(expected.cells)' /\ expected'.pos = Position'
    BY <2>2, <2>3 DEF Picture, Position
  <2> QED  BY <2>1, <2>3, <2>4, Settled DEF Copied
<1>7. CASE c = BACKSPACE /\ StoreRow(p, y - 1, "column")
  <2>1. y > 0 /\ expected = Blanked(cells, Cell(y - 1, VGA_WIDTH - 1))
    BY <1>1, <1>2, <1>7 DEF Pending, IInv, CopyInv
  <2>2. y - 1 \in Row
    BY <1>3, <2>1 DEF Row
  <2>3. pc'[p] = "column" /\ terminal_row' = y - 1 /\ terminal_column' = 0 /\ reg'[p].x = 0
        /\ reg'[p].y = y - 1 /\ reg'[p].c = BACKSPACE
        /\ UNCHANGED <<terminal_buffer, expected>> /\ Picture(cells)'
    BY <1>4, <1>7
  <2>4. Pending(p, cells)'
    BY <2>1, <2>3, TerminalAssumption DEF Pending
  <2>5. CharInv(p)'
    BY <2>2, <2>3, <2>4 DEF CharInv, Copied
  <2> QED  BY <2>3, <2>5 DEF ScrollInv, ClearInv, CursorInv
<1> QED  BY <1>1, <1>5, <1>6, <1>7 DEF SetRow

LEMMA ScrollText ==
  ASSUME IInv, NEW p \in Writer, TextAt(p), terminal_scroll(p)
  PROVE  TextAt(p)'
<1> DEFINE n == reg[p].n
<1>1. pc[p] = "scroll" /\ n \in Row /\ n \in Nat /\ VGA_HEIGHT \in Nat
  BY Sizes DEF IInv, TypeOK, terminal_scroll, At, Row
<1>2. /\ terminal_column = 0 /\ reg[p].x = 0 /\ expected.pos = Cell(VGA_HEIGHT - 1, 0)
      /\ \A y \in Row, x \in Column :
           expected.cells[Cell(y, x)] =
             IF y < n THEN terminal_buffer[y][x] ELSE LineBelow(y)[x]
  BY <1>1 DEF ScrollInv
<1>3. /\ UNCHANGED <<terminal_row, terminal_column, expected>>
      /\ terminal_buffer' = [terminal_buffer EXCEPT ![n] = LineBelow(n)]
      /\ terminal_buffer \in [Row -> [Column -> Glyph \cup {Blank}]]
  BY DEF terminal_scroll, position, IInv, TypeOK
<1>4. \A y \in Row : terminal_buffer'[y] = IF y = n THEN LineBelow(n) ELSE terminal_buffer[y]
  BY <1>3
<1>5. CASE n < VGA_HEIGHT - 1
  <2>1. /\ pc'[p] = "scroll" /\ reg'[p].n = n + 1 /\ reg'[p].x = 0
    BY <1>2, <1>5 DEF IInv, TypeOK, terminal_scroll, NextLine, Goto
  <2>2. ASSUME NEW y \in Row, NEW x \in Column
        PROVE  expected.cells[Cell(y, x)] =
                 IF y < n + 1 THEN terminal_buffer'[y][x] ELSE LineBelow(y)'[x]
    <3>1. y \in Nat /\ (y < VGA_HEIGHT - 1 => y + 1 \in Row)
      BY Sizes DEF Row
    <3>2. CASE y < n
      BY <1>1, <1>2, <1>4, <3>1, <3>2
    <3>3. CASE y = n
      BY <1>1, <1>2, <1>4, <3>1, <3>3
    <3>4. CASE y > n
      <4>1. LineBelow(y)' = LineBelow(y)
        <5>1. y < VGA_HEIGHT - 1 => terminal_buffer'[y + 1] = terminal_buffer[y + 1]
          BY <1>1, <1>4, <3>1, <3>4
        <5> QED  BY <5>1 DEF LineBelow, BlankLine
      <4> QED  BY <1>1, <1>2, <3>1, <3>4, <4>1
    <3> QED  BY <1>1, <3>1, <3>2, <3>3, <3>4
  <2>3. ScrollInv(p)'
    BY <1>2, <1>3, <2>1, <2>2 DEF ScrollInv
  <2> QED  BY <2>1, <2>3 DEF CharInv, ClearInv, CursorInv
<1>6. CASE ~ (n < VGA_HEIGHT - 1)
  <2>1. pc'[p] = "last" /\ reg' = reg
    BY <1>6 DEF IInv, TypeOK, terminal_scroll, NextLine, Goto
  <2>2. n = VGA_HEIGHT - 1
    BY <1>1, <1>6 DEF Row
  <2>3. ASSUME NEW y \in Row, NEW x \in Column
        PROVE  expected.cells[Cell(y, x)] = terminal_buffer'[y][x]
    <3>1. y \in Nat /\ (y < n \/ y = n)
      BY <1>1, <2>2 DEF Row
    <3>2. CASE y < n
      BY <1>1, <1>2, <1>4, <3>1, <3>2
    <3>3. CASE y = n
      BY <1>1, <1>2, <1>4, <3>1, <3>3
    <3> QED  BY <3>1, <3>2, <3>3
  <2>4. ScrollInv(p)'
    BY <1>2, <1>3, <2>1, <2>3 DEF ScrollInv, Picture
  <2> QED  BY <2>1, <2>4 DEF CharInv, ClearInv, CursorInv
<1> QED  BY <1>5, <1>6

LEMMA LastRowText ==
  ASSUME IInv, NEW p \in Writer, TextAt(p), SetLastRow(p)
  PROVE  TextAt(p)'
<1>1. pc[p] = "last"
  BY DEF SetLastRow, At
<1>2. /\ terminal_column = 0 /\ reg[p].x = 0 /\ expected.pos = Cell(VGA_HEIGHT - 1, 0)
      /\ Picture(expected.cells)
  BY <1>1 DEF ScrollInv
<1>3. /\ pc'[p] = "index" /\ terminal_row' = VGA_HEIGHT - 1
      /\ reg'[p].x = 0 /\ reg'[p].y = VGA_HEIGHT - 1
      /\ UNCHANGED <<terminal_column, terminal_buffer, expected>>
  BY <1>2 DEF IInv, TypeOK, SetLastRow, LastRow, StoreRow, Goto
<1>4. Picture(expected.cells)' /\ expected'.pos = Position'
  BY <1>2, <1>3 DEF Picture, Position
<1> QED  BY <1>2, <1>3, <1>4, CellEnd, Settled DEF Copied

LEMMA InitializeText ==
  ASSUME IInv, NEW p \in Writer, terminal_initialize(p)
  PROVE  TextAt(p)'
<1>1. pc'[p] = "row0" /\ expected' = S!Empty
  BY DEF IInv, TypeOK, terminal_initialize, Goto
<1> QED  BY <1>1 DEF CharInv, ScrollInv, ClearInv, CursorInv

LEMMA ClearRowText ==
  ASSUME IInv, NEW p \in Writer, TextAt(p), ClearRow(p)
  PROVE  TextAt(p)'
<1>1. pc[p] = "row0" /\ expected = S!Empty
  BY DEF ClearRow, At, ClearInv
<1>2. /\ pc'[p] = "column0" /\ terminal_row' = 0 /\ reg'[p].y = 0 /\ reg'[p].n = 0
      /\ expected' = expected
  BY DEF IInv, TypeOK, ClearRow, StoreRow, Goto
<1> QED  BY <1>1, <1>2 DEF CharInv, ScrollInv, ClearInv, CursorInv

LEMMA ClearColumnText ==
  ASSUME IInv, NEW p \in Writer, TextAt(p), ClearColumn(p)
  PROVE  TextAt(p)'
<1>1. /\ pc[p] = "column0" /\ expected = S!Empty /\ terminal_row = 0
      /\ reg[p].y = 0 /\ reg[p].n = 0
  BY DEF ClearColumn, At, ClearInv
<1>2. /\ pc'[p] = "clear" /\ terminal_column' = 0
      /\ reg'[p].x = 0 /\ reg'[p].y = 0 /\ reg'[p].n = 0
      /\ UNCHANGED <<terminal_row, expected>>
  BY <1>1 DEF IInv, TypeOK, ClearColumn, StoreColumn, Goto
<1>3. \A y \in Row : ~ (y < 0)
  BY Sizes DEF Row
<1> QED  BY <1>1, <1>2, <1>3 DEF CharInv, ScrollInv, ClearInv, CursorInv

LEMMA ClearText ==
  ASSUME IInv, NEW p \in Writer, TextAt(p), terminal_clear(p)
  PROVE  TextAt(p)'
<1> DEFINE n == reg[p].n
<1>1. pc[p] = "clear" /\ n \in Row /\ n \in Nat /\ VGA_HEIGHT \in Nat
  BY Sizes DEF IInv, TypeOK, terminal_clear, At, Row
<1>2. /\ expected = S!Empty /\ terminal_row = 0 /\ terminal_column = 0
      /\ reg[p].x = 0 /\ reg[p].y = 0
      /\ \A y \in Row : y < n => terminal_buffer[y] = BlankLine
  BY <1>1 DEF ClearInv
<1>3. /\ UNCHANGED <<terminal_row, terminal_column, expected>>
      /\ terminal_buffer' = [terminal_buffer EXCEPT ![n] = BlankLine]
      /\ terminal_buffer \in [Row -> [Column -> Glyph \cup {Blank}]]
  BY DEF terminal_clear, position, IInv, TypeOK
<1>4. ASSUME NEW y \in Row, y <= n
      PROVE  terminal_buffer'[y] = BlankLine
  <2>1. y < n \/ y = n
    BY <1>1, <1>4 DEF Row
  <2> QED  BY <1>1, <1>2, <1>3, <2>1
<1>5. CASE n < VGA_HEIGHT - 1
  <2>1. /\ pc'[p] = "clear" /\ reg'[p].n = n + 1 /\ reg'[p].x = 0 /\ reg'[p].y = 0
    BY <1>2, <1>5 DEF IInv, TypeOK, terminal_clear, NextLine, Goto
  <2>2. \A y \in Row : y < n + 1 => terminal_buffer'[y] = BlankLine
    BY <1>1, <1>4 DEF Row
  <2>3. ClearInv(p)'
    BY <1>2, <1>3, <2>1, <2>2 DEF ClearInv, BlankLine
  <2> QED  BY <2>1, <2>3 DEF CharInv, ScrollInv, CursorInv
<1>6. CASE ~ (n < VGA_HEIGHT - 1)
  <2>1. pc'[p] = "index" /\ reg' = reg
    BY <1>6 DEF IInv, TypeOK, terminal_clear, NextLine, Goto
  <2>2. \A y \in Row : y <= n
    BY <1>1, <1>6 DEF Row
  <2>3. ASSUME NEW y \in Row, NEW x \in Column
        PROVE  terminal_buffer'[y][x] = S!Empty.cells[Cell(y, x)]
    <3>1. Cell(y, x) \in S!Place
      BY CellOnScreen
    <3> QED  BY <1>4, <2>2, <3>1 DEF S!Empty, BlankLine
  <2>4. Picture(expected.cells)'
    BY <1>2, <1>3, <2>3 DEF Picture
  <2>5. Cell(0, 0) = 0
    BY Sizes DEF Cell
  <2>6. expected'.pos = Position'
    BY <1>2, <1>3, <2>5 DEF Position, S!Empty
  <2> QED  BY <1>2, <1>3, <2>1, <2>4, <2>6, CellEnd, Settled DEF Copied
<1> QED  BY <1>5, <1>6

LEMMA CursorText ==
  ASSUME IInv, NEW p \in Writer, TextAt(p), terminal_update_cursor(p)
  PROVE  TextAt(p)'
<1>1. PICK r \in Register : SelectRegister(p, r) \/ WriteRegister(p, r)
  BY DEF terminal_update_cursor
<1>2. /\ pc[p] \in {"index", "low", "index2", "high"}
      /\ UNCHANGED <<terminal_row, terminal_column, terminal_buffer, expected, reg>>
  BY <1>1 DEF SelectRegister, WriteRegister, At, position, Register
<1>3. /\ terminal_row \in Row /\ Picture(expected.cells) /\ expected.pos = Position /\ Copied(p)
  BY <1>2 DEF CursorInv
<1>4. /\ terminal_row' \in Row /\ Picture(expected.cells)' /\ expected'.pos = Position'
      /\ Copied(p)' /\ Position' = Position
  BY <1>2, <1>3 DEF Picture, Position, Copied
<1>5. crtc \in [index : Register, low : 0 .. BYTE - 1, high : 0 .. BYTE - 1]
  BY DEF IInv, TypeOK
<1>6. CursorInv(p)' /\ pc'[p] \in {"low", "high", "index2", "rest"}
  <2>1. CASE SelectRegister(p, "low")
    <3>1. pc'[p] = "low" /\ crtc'.index = "low"
      BY <1>5, <2>1 DEF IInv, TypeOK, SelectRegister, At, Goto
    <3> QED  BY <1>4, <3>1 DEF CursorInv
  <2>2. CASE SelectRegister(p, "high")
    <3>1. pc[p] = "index2" /\ pc'[p] = "high" /\ crtc'.index = "high" /\ crtc'.low = crtc.low
      BY <1>5, <2>2 DEF IInv, TypeOK, SelectRegister, At, Goto
    <3> QED  BY <1>4, <3>1 DEF CursorInv
  <2>3. CASE WriteRegister(p, "low")
    <3>1. pc[p] = "low" /\ pc'[p] = "index2"
      BY <2>3 DEF IInv, TypeOK, WriteRegister, At, Goto
    <3>2. crtc' = [crtc EXCEPT !.low = CursorByte("low", reg[p].x, reg[p].y)]
      BY <2>3, <3>1 DEF WriteRegister, CursorInv
    <3>3. CursorByte("low", reg[p].x, reg[p].y) = Position % BYTE
      BY <1>3 DEF CursorByte, Copied, Position, Cell
    <3>4. crtc'.low = Position % BYTE
      BY <1>5, <3>2, <3>3
    <3> QED  BY <1>4, <3>1, <3>4 DEF CursorInv
  <2>4. CASE WriteRegister(p, "high")
    <3>1. pc[p] = "high" /\ pc'[p] = "rest"
      BY <2>4 DEF IInv, TypeOK, WriteRegister, At, Goto
    <3>2. crtc' = [crtc EXCEPT !.high = CursorByte("high", reg[p].x, reg[p].y)]
      BY <2>4, <3>1 DEF WriteRegister, CursorInv
    <3>3. CursorByte("high", reg[p].x, reg[p].y) = (Position \div BYTE) % BYTE
      BY <1>3 DEF CursorByte, Copied, Position, Cell
    <3>4. crtc'.high = (Position \div BYTE) % BYTE /\ crtc'.low = crtc.low
      BY <1>5, <3>2, <3>3
    <3> QED  BY <1>4, <3>1, <3>4 DEF CursorInv
  <2> QED  BY <1>1, <2>1, <2>2, <2>3, <2>4 DEF Register
<1> QED  BY <1>6 DEF CharInv, ScrollInv, ClearInv

-----------------------------------------------------------------------------
LEMMA InitTextInv == Init => TextInv
<1> SUFFICES ASSUME Init PROVE TextInv
  OBVIOUS
<1>1. \A q \in Writer : pc[q] = "rest"
  BY DEF Init
<1>2. ASSUME NEW y \in Row, NEW x \in Column
      PROVE  terminal_buffer[y][x] = expected.cells[Cell(y, x)]
  BY CellOnScreen DEF Init, BlankLine, S!Empty
<1>3. Position = 0 /\ expected.pos = 0 /\ terminal_row \in Row
  BY CellEnd, Sizes DEF Init, Position, Cell, S!Empty
<1>4. crtc.low = Position % BYTE /\ crtc.high = (Position \div BYTE) % BYTE
  <2>1. 0 % BYTE = 0 /\ (0 \div BYTE) % BYTE = 0
    BY TerminalAssumption
  <2> QED  BY <1>3, <2>1 DEF Init
<1>5. \A q \in Writer : TextAt(q)
  BY <1>1, <1>2, <1>3, <1>4 DEF CharInv, ScrollInv, ClearInv, CursorInv, Picture
<1>6. Writing \in Writer
  BY DEF Writing, Writer
<1> QED  BY <1>1, <1>5, <1>6 DEF TextInv

LEMMA WriterText ==
  ASSUME IInv, NEW p \in Writer, TextAt(p), Step(p)
  PROVE  TextAt(p)'
<1>1. CASE terminal_write(p)
  BY <1>1, PutcharText DEF terminal_write
<1> QED
  BY <1>1, LoadText, PutText, EraseText, SetColumnText, SetRowText, ScrollText, LastRowText,
     InitializeText, ClearRowText, ClearColumnText, ClearText, CursorText DEF Step

(* Whose step it is, and what it leaves to the other one.                   *)
LEMMA StepFrame ==
  ASSUME IInv, NEW p \in Writer, Step(p)
  PROVE  /\ p = Writing /\ in_isr' = in_isr
         /\ \A q \in Writer : q # p => pc'[q] = pc[q]
         /\ intruded' = intruded \/ terminal_initialize(p)
<1>1. \E place : At(p, place)
  BY DEF Step, terminal_write, terminal_putchar, Load, Put, Erase, SetColumn, SetRow,
     terminal_scroll, SetLastRow, terminal_initialize, ClearRow, ClearColumn, terminal_clear,
     terminal_update_cursor, SelectRegister, WriteRegister
<1>2. p = Writing
  BY <1>1 DEF At, Writing, Writer
<1>3. in_isr' = in_isr
  BY DEF Step, terminal_write, terminal_putchar, Load, Put, Erase, SetColumn, SetRow,
     StoreRow, StoreColumn,
     terminal_scroll, SetLastRow, terminal_initialize, ClearRow, ClearColumn, terminal_clear,
     terminal_update_cursor, SelectRegister, WriteRegister
<1>4. intruded' = intruded \/ terminal_initialize(p)
  BY DEF Step, terminal_write, terminal_putchar, Load, Put, Erase, SetColumn, SetRow,
     StoreRow, StoreColumn,
     terminal_scroll, SetLastRow, ClearRow, ClearColumn, terminal_clear,
     terminal_update_cursor, SelectRegister, WriteRegister
<1>5. \E to : Goto(p, to)
  BY DEF Step, terminal_write, terminal_putchar, Load, Put, Erase, SetColumn, SetRow,
     StoreRow, StoreColumn, NextLine,
     terminal_scroll, SetLastRow, terminal_initialize, ClearRow, ClearColumn, terminal_clear,
     terminal_update_cursor, SelectRegister, WriteRegister
<1>6. \A q \in Writer : q # p => pc'[q] = pc[q]
  BY <1>5 DEF Goto, IInv, TypeOK
<1> QED  BY <1>2, <1>3, <1>4, <1>6

LEMMA TextInvStep == IInv /\ TextInv /\ [Next]_vars => TextInv'
<1> SUFFICES ASSUME IInv, TextInv, [Next]_vars, ~intruded' PROVE TextInv'
  BY DEF TextInv
<1>1. ASSUME NEW p \in Writer, Step(p) PROVE TextInv'
  <2>1. /\ p = Writing /\ in_isr' = in_isr /\ Writing' = Writing
        /\ \A q \in Writer : q # p => pc'[q] = pc[q]
        /\ intruded' = intruded \/ terminal_initialize(p)
    BY <1>1, StepFrame DEF Writing
  <2>2. CASE intruded' = intruded
    <3>1. TextAt(p) /\ \A q \in Writer : q # p => pc[q] = "rest"
      BY <2>1, <2>2 DEF TextInv
    <3>2. TextAt(p)'
      BY <1>1, <3>1, WriterText
    <3> QED  BY <2>1, <3>1, <3>2 DEF TextInv
  <2>3. CASE terminal_initialize(p)
    <3>1. TextAt(p)' /\ p = "shell"
      BY <2>3, InitializeText DEF terminal_initialize
    <3>2. \A q \in Writer : q # p => pc[q] = "rest"
      BY <2>3, <3>1, Positions DEF terminal_initialize, Writer
    <3> QED  BY <2>1, <3>1, <3>2 DEF TextInv
  <2> QED  BY <2>1, <2>2, <2>3
<1>2. ASSUME NEW p \in Writer, NEW q \in Writer, TextAt(p), pc[p] = "rest", pc[q] = "rest",
             UNCHANGED <<position, terminal_buffer, crtc, pc, reg, expected>>
      PROVE  TextAt(q)'
  BY <1>2 DEF CharInv, ScrollInv, ClearInv, CursorInv, Picture, Position, position
<1>3. CASE EnterIsr
  <2>1. /\ Writing = "shell" /\ Writing' = "isr" /\ ~intruded
        /\ pc["shell"] = "rest" /\ pc["isr"] = "rest"
        /\ UNCHANGED <<position, terminal_buffer, crtc, pc, reg, expected>>
    BY <1>3 DEF EnterIsr, Writing, IInv, IsrInv, TypeOK
  <2>2. TextAt("isr")'
    BY <1>2, <2>1 DEF TextInv, Writer
  <2> QED  BY <2>1, <2>2 DEF TextInv, Writer
<1>4. CASE ReturnFromIsr
  <2>1. /\ Writing = "isr" /\ Writing' = "shell" /\ ~intruded /\ pc["isr"] = "rest"
        /\ UNCHANGED <<position, terminal_buffer, crtc, pc, reg, expected>>
    BY <1>4 DEF ReturnFromIsr, Writing
  <2>2. pc["shell"] = "rest" /\ TextAt("isr")
    BY <2>1 DEF TextInv, Writer
  <2>3. TextAt("shell")'
    BY <1>2, <2>1, <2>2 DEF Writer
  <2> QED  BY <2>1, <2>2, <2>3 DEF TextInv, Writer
<1>5. CASE UNCHANGED vars
  BY <1>5 DEF TextInv, Writing, CharInv, Pending, ScrollInv, LineBelow, ClearInv, CursorInv, Picture,
     Position, Copied, vars, position
<1> QED  BY <1>1, <1>3, <1>4, <1>5 DEF Next

LEMMA Remainder ==
  ASSUME NEW b \in Nat \ {0}, NEW n \in Nat
  PROVE  n \div b \in Nat /\ n = b * (n \div b) + (n % b) /\ n % b \in 0 .. b - 1
<1>1. n \div b \in Nat
  OBVIOUS
<1>2. n = b * (n \div b) + (n % b)
  OBVIOUS
<1>3. n % b \in 0 .. b - 1
  OBVIOUS
<1> QED  BY <1>1, <1>2, <1>3

(* When nobody writes, the screen and the hardware's cursor are those of a  *)
(* terminal that takes one whole character after the other, for every size  *)
(* of the screen whose cells two cursor registers can number and for texts  *)
(* of every length: with a writer in the middle of a character, what it has *)
(* still to do makes the expected screen of the one in the buffer           *)
(* (terminal.c:29-94).                                                      *)
THEOREM TextCorrect == Spec => []ScreenShowsText
<1>1. IInv /\ TextInv => ScreenShowsText
  <2> SUFFICES ASSUME IInv, TextInv, AtRest, ~intruded
               PROVE  /\ \A y \in Row, x \in Column :
                           terminal_buffer[y][x] = expected.cells[y * VGA_WIDTH + x]
                      /\ terminal_row * VGA_WIDTH + terminal_column = expected.pos
                      /\ crtc.high * BYTE + crtc.low = expected.pos
    BY DEF ScreenShowsText
  <2>1. TextAt("shell") /\ pc["shell"] = "rest"
    BY DEF TextInv, AtRest, Writing, Writer
  <2>2. /\ Picture(expected.cells) /\ expected.pos = Position
        /\ crtc.low = Position % BYTE /\ crtc.high = (Position \div BYTE) % BYTE
    BY <2>1 DEF CursorInv
  <2>3. expected.pos \in Nat /\ expected.pos < BYTE * BYTE /\ BYTE \in Nat \ {0}
    BY TerminalAssumption, ScreenSize DEF IInv, TypeOK, S!Screens, S!Place
  <2>4. ASSUME NEW b \in Nat \ {0}, NEW n \in Nat, n < b * b
        PROVE  ((n \div b) % b) * b + (n % b) = n
    <3>1. n \div b \in Nat /\ n = b * (n \div b) + (n % b) /\ n % b \in 0 .. b - 1
      BY Remainder
    <3>2. n \div b < b
      <4>1. ~ (b <= n \div b)
        <5> SUFFICES ASSUME b <= n \div b PROVE FALSE
          OBVIOUS
        <5>1. b * b <= b * (n \div b)
          BY <3>1, ProductMonotone
        <5>2. b * b \in Nat /\ b * (n \div b) \in Nat
          BY <3>1
        <5> QED  BY <2>4, <3>1, <5>1, <5>2
      <4> QED  BY <3>1, <4>1
    <3>3. (n \div b) % b = n \div b
      BY <3>1, <3>2
    <3> QED  BY <3>1, <3>3
  <2>5. crtc.high * BYTE + crtc.low = expected.pos
    BY <2>2, <2>3, <2>4
  <2> QED  BY <2>2, <2>5 DEF Picture, Position, Cell
<1> QED  BY <1>1, InitIInv, IInvStep, InitTextInv, TextInvStep, PTL DEF Spec
=============================================================================
