------------------------------ MODULE Terminal ------------------------------
(***************************************************************************)
(* drivers/terminal.c: the text terminal, store by store.                  *)
(*                                                                         *)
(* There are two writers.  The shell's thread runs with interrupts on and  *)
(* may be stopped between any two accesses.  isr_handler (a system call,   *)
(* or an exception nobody handles) runs with interrupts off from another   *)
(* thread, so the shell waits until it has returned.                       *)
(*                                                                         *)
(* The variables are not volatile: the compiler loads the row and the      *)
(* column once for each character (reg), but makes every store at its      *)
(* place in the code.  Colours are left out.                               *)
(***************************************************************************)
EXTENDS Integers

CONSTANTS
  VGA_WIDTH, VGA_HEIGHT,
  BYTE,           (* the range of a register of the cursor (256)            *)
  Glyph, Blank, NEWLINE, BACKSPACE,
  ROW_BOUND       (* bound of the model on the row of the second writer     *)

Row == 0 .. VGA_HEIGHT - 1
Column == 0 .. VGA_WIDTH - 1
Char == Glyph \cup {NEWLINE, BACKSPACE}
Writer == {"shell", "isr"}
Register == {"low", "high"}

ASSUME TerminalAssumption ==
  /\ VGA_WIDTH \in Nat \ {0} /\ VGA_HEIGHT \in Nat \ {0}
  /\ BYTE \in Nat \ {0} /\ VGA_WIDTH * VGA_HEIGHT <= BYTE * BYTE
  /\ NEWLINE # BACKSPACE /\ NEWLINE \notin Glyph /\ BACKSPACE \notin Glyph
  /\ ROW_BOUND \in Nat

VARIABLES
  terminal_row, terminal_column,
  terminal_buffer,  (* the lines of the screen                              *)
  crtc,             (* the cursor: the register selected, and both          *)
  pc,               (* where each writer is in terminal_putchar             *)
  reg,              (* its locals: the character, row and column, a counter *)
  in_isr,           (* the second writer is running                         *)
  expected,         (* what the text written so far should look like        *)
  intruded          (* history: a second writer came in between two         *)
                    (* accesses of the shell, and nobody cleared the screen *)
                    (* since                                                *)

position == <<terminal_row, terminal_column>>
vars == <<position, terminal_buffer, crtc, pc, reg, in_isr, expected, intruded>>

S == INSTANCE Screen WITH Width <- VGA_WIDTH, Height <- VGA_HEIGHT

BlankLine == [x \in Column |-> Blank]

TypeOK ==
  /\ terminal_row \in Nat
  /\ terminal_column \in Column
  /\ terminal_buffer \in [Row -> [Column -> Glyph \cup {Blank}]]
  /\ crtc \in [index : Register, low : 0 .. BYTE - 1, high : 0 .. BYTE - 1]
  /\ pc \in [Writer -> {"rest", "load", "put", "column", "row", "erase", "scroll",
                        "last", "row0", "column0", "clear", "index", "low",
                        "index2", "high"}]
  /\ reg \in [Writer -> [c : Char, x : Column, y : Nat, n : Row]]
  /\ in_isr \in BOOLEAN
  /\ expected \in S!Screens
  /\ intruded \in BOOLEAN

Init ==
  /\ terminal_row = 0
  /\ terminal_column = 0
  /\ terminal_buffer = [y \in Row |-> BlankLine]
  /\ crtc = [index |-> "high", low |-> 0, high |-> 0]
  /\ pc = [p \in Writer |-> "rest"]
  /\ reg = [p \in Writer |-> [c |-> NEWLINE, x |-> 0, y |-> 0, n |-> 0]]
  /\ in_isr = FALSE
  /\ expected = S!Empty
  /\ intruded = FALSE

-----------------------------------------------------------------------------
(* The writer that has the processor is at a place in the code, and goes on *)
(* to another.                                                              *)
At(p, place) == pc[p] = place /\ (p = "isr") = in_isr
Goto(p, place) == pc' = [pc EXCEPT ![p] = place]

(* terminal_putchar, whose first effect is the character on the serial line.*)
terminal_putchar(p, c) ==
  /\ At(p, "rest")
  /\ expected' = S!Shown(expected, c)
  /\ reg' = [reg EXCEPT ![p].c = c]
  /\ Goto(p, "load")
  /\ UNCHANGED <<position, terminal_buffer, crtc, in_isr, intruded>>

FirstStore(c, x, y) ==
  CASE c \in Glyph                       -> "put"
    [] c = NEWLINE                       -> "column"
    [] c = BACKSPACE /\ x > 0            -> "column"
    [] c = BACKSPACE /\ x = 0 /\ y > 0   -> "row"
    [] c = BACKSPACE /\ x = 0 /\ y = 0   -> "erase"

Load(p) ==
  /\ At(p, "load")
  /\ reg' = [reg EXCEPT ![p].x = terminal_column, ![p].y = terminal_row]
  /\ Goto(p, FirstStore(reg[p].c, terminal_column, terminal_row))
  /\ UNCHANGED <<position, terminal_buffer, crtc, in_isr, expected, intruded>>

(* A cell below the last line is memory that is not shown.                  *)
terminal_putentryat(c, x, y) ==
  terminal_buffer' =
    IF y \in Row THEN [terminal_buffer EXCEPT ![y][x] = c] ELSE terminal_buffer

Put(p) ==
  /\ At(p, "put")
  /\ terminal_putentryat(reg[p].c, reg[p].x, reg[p].y)
  /\ Goto(p, "column")
  /\ UNCHANGED <<position, crtc, reg, in_isr, expected, intruded>>

Erase(p) ==
  /\ At(p, "erase")
  /\ terminal_putentryat(Blank, reg[p].x, reg[p].y)
  /\ Goto(p, "index")
  /\ UNCHANGED <<position, crtc, reg, in_isr, expected, intruded>>

StoreColumn(p, x, next) ==
  /\ terminal_column' = x
  /\ reg' = [reg EXCEPT ![p].x = x]
  /\ Goto(p, next)
  /\ UNCHANGED <<terminal_row, terminal_buffer, crtc, in_isr, expected, intruded>>

(* (The test comes one column late.) *)
LineFullLate(x) == x = VGA_WIDTH
LineFull(x) == x + 1 = VGA_WIDTH

SetColumn(p) ==
  /\ At(p, "column")
  /\ LET c == reg[p].c
         x == reg[p].x
     IN \/ c \in Glyph /\ ~LineFull(x) /\ StoreColumn(p, x + 1, "index")
        \/ c \in Glyph /\ LineFull(x) /\ StoreColumn(p, 0, "row")
        \/ c = NEWLINE /\ StoreColumn(p, 0, "row")
        \/ c = BACKSPACE /\ x > 0 /\ StoreColumn(p, x - 1, "erase")
        \/ c = BACKSPACE /\ x = 0 /\ StoreColumn(p, VGA_WIDTH - 1, "erase")

StoreRow(p, y, next) ==
  /\ terminal_row' = y
  /\ reg' = [reg EXCEPT ![p].y = y, ![p].n = 0]
  /\ Goto(p, next)
  /\ UNCHANGED <<terminal_column, terminal_buffer, crtc, in_isr, expected, intruded>>

(* The row is stored before it is tested: it is the one behind the last     *)
(* while the screen scrolls.                                                *)
SetRow(p) ==
  /\ At(p, "row")
  /\ LET c == reg[p].c
         y == reg[p].y
     IN \/ c # BACKSPACE /\ y + 1 = VGA_HEIGHT /\ StoreRow(p, y + 1, "scroll")
        \/ c # BACKSPACE /\ y + 1 # VGA_HEIGHT /\ StoreRow(p, y + 1, "index")
        \/ c = BACKSPACE /\ StoreRow(p, y - 1, "column")

(* The loops over lines: line n is overwritten, then the next.              *)
NextLine(p, place, end) ==
  IF reg[p].n < VGA_HEIGHT - 1
    THEN /\ reg' = [reg EXCEPT ![p].n = reg[p].n + 1]
         /\ Goto(p, place)
    ELSE /\ Goto(p, end)
         /\ UNCHANGED reg

(* (Without the blank last line.) *)
LineBelowOrSame(n) == terminal_buffer[IF n < VGA_HEIGHT - 1 THEN n + 1 ELSE n]
LineBelow(n) == IF n < VGA_HEIGHT - 1 THEN terminal_buffer[n + 1] ELSE BlankLine

terminal_scroll(p) ==
  /\ At(p, "scroll")
  /\ terminal_buffer' = [terminal_buffer EXCEPT ![reg[p].n] = LineBelow(reg[p].n)]
  /\ NextLine(p, "scroll", "last")
  /\ UNCHANGED <<position, crtc, in_isr, expected, intruded>>

(* (One less than it is now.) *)
OneRowUp == terminal_row - 1
LastRow == VGA_HEIGHT - 1

SetLastRow(p) ==
  /\ At(p, "last")
  /\ StoreRow(p, LastRow, "index")

(* terminal_initialize, which the shell's command clear calls.              *)
terminal_initialize(p) ==
  /\ p = "shell"
  /\ At(p, "rest")
  /\ expected' = S!Empty
  /\ intruded' = FALSE
  /\ Goto(p, "row0")
  /\ UNCHANGED <<position, terminal_buffer, crtc, reg, in_isr>>

ClearRow(p) == At(p, "row0") /\ StoreRow(p, 0, "column0")
ClearColumn(p) == At(p, "column0") /\ StoreColumn(p, 0, "clear")

terminal_clear(p) ==
  /\ At(p, "clear")
  /\ terminal_buffer' = [terminal_buffer EXCEPT ![reg[p].n] = BlankLine]
  /\ NextLine(p, "clear", "index")
  /\ UNCHANGED <<position, crtc, in_isr, expected, intruded>>

(* terminal_update_cursor: each byte goes out in two commands, the register *)
(* and its value.                                                           *)
CursorByte(r, x, y) ==
  LET pos == y * VGA_WIDTH + x
  IN IF r = "low" THEN pos % BYTE ELSE (pos \div BYTE) % BYTE

SelectRegister(p, r) ==
  /\ At(p, IF r = "low" THEN "index" ELSE "index2")
  /\ crtc' = [crtc EXCEPT !.index = r]
  /\ Goto(p, r)
  /\ UNCHANGED <<position, terminal_buffer, reg, in_isr, expected, intruded>>

(* The value goes to whatever register is selected.                         *)
WriteRegister(p, r) ==
  /\ At(p, r)
  /\ LET value == CursorByte(r, reg[p].x, reg[p].y)
     IN crtc' = IF crtc.index = "low" THEN [crtc EXCEPT !.low = value]
                                      ELSE [crtc EXCEPT !.high = value]
  /\ Goto(p, IF r = "low" THEN "index2" ELSE "rest")
  /\ UNCHANGED <<position, terminal_buffer, reg, in_isr, expected, intruded>>

terminal_update_cursor(p) ==
  \E r \in Register : SelectRegister(p, r) \/ WriteRegister(p, r)

-----------------------------------------------------------------------------
(* The second writer interrupts the shell anywhere and prints a text.       *)
EnterIsr ==
  /\ ~in_isr
  /\ in_isr' = TRUE
  /\ intruded' = (intruded \/ pc["shell"] # "rest")
  /\ UNCHANGED <<position, terminal_buffer, crtc, pc, reg, expected>>

ReturnFromIsr ==
  /\ in_isr /\ pc["isr"] = "rest"
  /\ in_isr' = FALSE
  /\ UNCHANGED <<position, terminal_buffer, crtc, pc, reg, expected, intruded>>

(* The bound cuts off a user who prints line after line while the shell is  *)
(* stopped in the middle of a scroll.                                       *)
terminal_write(p) ==
  \E c \in Char : (p = "isr" => terminal_row < ROW_BOUND) /\ terminal_putchar(p, c)

Step(p) ==
  \/ terminal_write(p) \/ Load(p) \/ Put(p) \/ Erase(p) \/ SetColumn(p) \/ SetRow(p)
  \/ terminal_scroll(p) \/ SetLastRow(p) \/ terminal_initialize(p) \/ ClearRow(p)
  \/ ClearColumn(p) \/ terminal_clear(p) \/ terminal_update_cursor(p)

Next == EnterIsr \/ ReturnFromIsr \/ \E p \in Writer : Step(p)

Spec == Init /\ [][Next]_vars

-----------------------------------------------------------------------------
(* The cursor may leave the screen while a writer is stopped in the middle  *)
(* of a scroll (terminal.c:78-80, 88-90), but never for longer: whatever    *)
(* was printed in between, the shell's next character is on the screen.     *)
CursorComesBack ==
  ~in_isr /\ pc["shell"] \notin {"scroll", "last"} => terminal_row \in Row

AtRest == ~in_isr /\ \A p \in Writer : pc[p] = "rest"

(* When nobody writes, screen and cursor are those of a terminal that takes *)
(* one whole character after the other: the tests for the end of a line and *)
(* of the screen, and the scroll, lose and displace nothing.  A second      *)
(* writer between two characters does no harm, and clearing the screen      *)
(* mends what one within a character has done (terminal.c:29-94).           *)
ScreenShowsText ==
  AtRest /\ ~intruded =>
    /\ \A y \in Row, x \in Column :
         terminal_buffer[y][x] = expected.cells[y * VGA_WIDTH + x]
    /\ terminal_row * VGA_WIDTH + terminal_column = expected.pos
    /\ crtc.high * BYTE + crtc.low = expected.pos
=============================================================================
