---------------------------- MODULE ShellProofs ----------------------------
(***************************************************************************)
(* The command buffer and the screen against the line the user has edited, *)
(* for buffers and screens of every size.  A text is printed character by  *)
(* character, so what it makes of a screen is found by induction; a set    *)
(* takes the place of the predicate.                                       *)
(***************************************************************************)
EXTENDS Shell, SequenceTheorems, WellFoundedInduction, TLAPS

Typed == [i \in 1 .. cmd_length |-> cmd_buffer[i - 1]]

(* Before the end of the line there is no NUL, whatever is behind it.       *)
IInv ==
  /\ cmd_buffer \in [Index -> Glyph \cup {NUL}]
  /\ cmd_length \in Index
  /\ \A i \in 0 .. cmd_length - 1 : cmd_buffer[i] \in Glyph
  /\ Typed = line
  /\ executed = submitted

USE DEF Index

LEMMA InitIInv == Init => IInv
<1> SUFFICES ASSUME Init PROVE IInv
  OBVIOUS
<1>1. Typed = <<>>
  BY DEF Init, Typed
<1> QED  BY <1>1, ShellAssumption DEF Init, IInv

(* The NUL behind the line is the first one.                                *)
LEMMA CStringOfLine ==
  ASSUME IInv, NEW buffer, buffer = Terminated
  PROVE  CString(buffer) = line
<1> DEFINE ends(n) == buffer[n] = NUL /\ \A i \in 0 .. n - 1 : buffer[i] # NUL
           length == CHOOSE n \in Index : ends(n)
<1>1. /\ buffer[cmd_length] = NUL
      /\ \A i \in 0 .. cmd_length - 1 : buffer[i] = cmd_buffer[i] /\ buffer[i] # NUL
  BY ShellAssumption DEF IInv, Terminated
<1>2. cmd_length \in Index /\ ends(cmd_length)
  BY <1>1 DEF IInv
<1>3. length \in Index /\ buffer[length] = NUL /\ \A i \in 0 .. length - 1 : buffer[i] # NUL
  BY <1>2
<1>5. CString(buffer) = [i \in 1 .. length |-> buffer[i - 1]]
  BY DEF CString
<1> HIDE DEF length
<1>4. length = cmd_length
  <2>1. length \in Int /\ cmd_length \in Int /\ 0 <= length /\ 0 <= cmd_length
    BY <1>2, <1>3
  <2>2. ~ (length < cmd_length)
    <3>1. length < cmd_length => length \in 0 .. cmd_length - 1
      BY <2>1
    <3> QED  BY <1>1, <1>3, <3>1
  <2>3. ~ (cmd_length < length)
    <3>1. cmd_length < length => cmd_length \in 0 .. length - 1
      BY <2>1
    <3> QED  BY <1>1, <1>3, <3>1
  <2> QED  BY <2>1, <2>2, <2>3
<1>6. \A i \in 1 .. cmd_length : buffer[i - 1] = cmd_buffer[i - 1]
  BY <1>1, <1>2
<1> QED  BY <1>4, <1>5, <1>6 DEF IInv, Typed

LEMMA EnterStep == ASSUME IInv, Enter PROVE IInv'
<1>1. executed' = line
  BY CStringOfLine DEF Enter
<1>2. Typed' = <<>>
  BY DEF Typed, Enter
<1>3. cmd_buffer' \in [Index -> Glyph \cup {NUL}]
  BY DEF IInv, Enter, Terminated
<1>4. 0 \in Index
  BY ShellAssumption
<1> QED  BY <1>1, <1>2, <1>3, <1>4 DEF IInv, Enter

LEMMA LineLength ==
  ASSUME IInv
  PROVE  line \in Seq(Glyph) /\ Len(line) = cmd_length
<1>1. cmd_length \in Nat
  BY ShellAssumption DEF IInv
<1>2. \A i \in 1 .. cmd_length : i - 1 \in 0 .. cmd_length - 1
  BY <1>1
<1>3. \A i \in 1 .. cmd_length : cmd_buffer[i - 1] \in Glyph
  BY <1>2 DEF IInv
<1>4. Typed \in [1 .. cmd_length -> Glyph]
  BY <1>3 DEF Typed
<1> QED  BY <1>1, <1>4, SeqDef DEF IInv

LEMMA PrintableStep ==
  ASSUME IInv, NEW c \in Glyph, Printable(c)
  PROVE  IInv'
<1>1. Len(line) = cmd_length /\ line \in Seq(Glyph)
  BY LineLength
<1>2. CASE Fits
  <2>1. /\ cmd_length' = cmd_length + 1
        /\ cmd_buffer' = [cmd_buffer EXCEPT ![cmd_length] = c]
        /\ line' = Append(line, c)
    BY <1>1, <1>2 DEF Printable, Fits
  <2>2. /\ cmd_length' \in Index
        /\ cmd_length \in Nat
        /\ cmd_buffer' \in [Index -> Glyph \cup {NUL}]
        /\ \A i \in 0 .. cmd_length' - 1 : cmd_buffer'[i] \in Glyph
    BY <1>2, <2>1, ShellAssumption DEF IInv, Fits
  <2>3. line = [i \in 1 .. cmd_length |-> cmd_buffer[i - 1]]
    BY DEF IInv, Typed
  <2>4. \A i \in 1 .. cmd_length + 1 :
          cmd_buffer'[i - 1] = IF i = cmd_length + 1 THEN c ELSE line[i]
    BY <2>1, <2>2, <2>3 DEF IInv
  <2>5. line' = [i \in 1 .. cmd_length + 1 |-> IF i = cmd_length + 1 THEN c ELSE line[i]]
    <3>1. /\ line' \in Seq(Glyph) /\ Len(line') = cmd_length + 1
          /\ \A i \in 1 .. cmd_length : line'[i] = line[i]
          /\ line'[cmd_length + 1] = c
      BY <1>1, <2>1, AppendProperties
    <3>2. line' = [i \in 1 .. cmd_length + 1 |-> line'[i]]
      BY <3>1, LenProperties
    <3>3. \A i \in 1 .. cmd_length + 1 :
            line'[i] = IF i = cmd_length + 1 THEN c ELSE line[i]
      BY <2>2, <3>1
    <3> QED  BY <3>2, <3>3
  <2>6. Typed' = line'
    BY <2>1, <2>4, <2>5 DEF Typed
  <2> QED  BY <2>2, <2>6 DEF IInv, Printable
<1>3. CASE ~Fits
  <2>1. UNCHANGED <<cmd_buffer, cmd_length, line>>
    BY <1>1, <1>3, ShellAssumption DEF Printable, Fits, IInv
  <2> QED  BY <2>1 DEF IInv, Typed, Printable
<1> QED  BY <1>2, <1>3

LEMMA EraseStep == ASSUME IInv, Erase PROVE IInv'
<1>1. Len(line) = cmd_length /\ line \in Seq(Glyph) /\ cmd_length \in Nat
  BY LineLength, ShellAssumption DEF IInv
<1>2. CASE cmd_length > 0
  <2>1. /\ cmd_length' = cmd_length - 1 /\ cmd_buffer' = cmd_buffer
        /\ line' = SubSeq(line, 1, cmd_length - 1)
    BY <1>1, <1>2 DEF Erase
  <2>2. line = [i \in 1 .. cmd_length |-> cmd_buffer[i - 1]]
    BY DEF IInv, Typed
  <2>3. line' = [i \in 1 .. cmd_length - 1 |-> line[i]]
    BY <1>1, <2>1
  <2>4. Typed' = [i \in 1 .. cmd_length - 1 |-> cmd_buffer[i - 1]]
    BY <2>1 DEF Typed
  <2>5. \A i \in 1 .. cmd_length - 1 : line[i] = cmd_buffer[i - 1]
    BY <1>1, <2>2
  <2>6. Typed' = line'
    BY <2>3, <2>4, <2>5
  <2> QED  BY <1>1, <1>2, <2>1, <2>6, ShellAssumption DEF IInv, Erase
<1>3. CASE ~ (cmd_length > 0)
  <2>1. UNCHANGED <<cmd_buffer, cmd_length, line>>
    BY <1>1, <1>3, EmptySeq DEF Erase
  <2> QED  BY <2>1 DEF IInv, Typed, Erase
<1> QED  BY <1>2, <1>3

LEMMA IInvStep == IInv /\ [Next]_vars => IInv'
<1>1. IInv /\ UNCHANGED vars => IInv'
  BY DEF IInv, Typed, vars
<1> QED  BY <1>1, EnterStep, EraseStep, PrintableStep DEF Next, IgnoreControl

(* The buffer is the line of the user, of one character less than it has    *)
(* bytes, and what is executed is what was sent, for every size, every      *)
(* prompt and every set of commands (shell.c:197-217).                      *)
THEOREM BufferCorrect == Spec => []BufferIsLine
<1>1. IInv /\ [Next]_vars => IInv'
  BY IInvStep
<1>2. IInv => BufferIsLine
  BY DEF IInv, BufferIsLine, Typed
<1> QED  BY <1>1, <1>2, InitIInv, PTL DEF Spec

-----------------------------------------------------------------------------
(* Induction over the numbers, on a set in the place of a predicate.        *)
LEMMA NatIsInductive ==
  ASSUME NEW T, 0 \in T, \A n \in Nat : n \in T => n + 1 \in T
  PROVE  Nat \subseteq T
<1> DEFINE Missing == Nat \ T
           Less == {p \in Nat \X Nat : p[1] < p[2]}
<1> SUFFICES ASSUME Missing # {} PROVE FALSE
  OBVIOUS
<1>1. IsWellFoundedOn(Less, Nat)
  BY NatLessThanWellFounded DEF OpToRel
<1>2. PICK x \in Missing : \A y \in Missing : <<y, x>> \notin Less
  <2> HIDE DEF Missing, Less
  <2>1. Missing \subseteq Nat
    BY DEF Missing
  <2> QED  BY <1>1, <2>1, WFMin
<1>3. x - 1 \in Missing
  BY DEF Missing
<1>4. <<x - 1, x>> \in Less
  BY <1>3
<1> QED  BY <1>2, <1>3, <1>4

-----------------------------------------------------------------------------
(* Lines of the screen.                                                     *)
LEMMA ProductMonotone ==
  ASSUME NEW w \in Nat, NEW a \in Nat, NEW b \in Nat, a <= b
  PROVE  w * a <= w * b
<1>1. PICK d \in Nat : b = a + d
  <2>1. b - a \in Nat /\ b = a + (b - a)
    OBVIOUS
  <2> QED  BY <2>1
<1>2. w * b = w * a + w * d
  BY <1>1
<1>3. w * d \in Nat /\ w * a \in Nat
  OBVIOUS
<1> QED  BY <1>2, <1>3

LEMMA LineBegins ==
  ASSUME NEW w \in Nat \ {0}, NEW k \in Nat
  PROVE  w * k \in Nat /\ (w * k) % w = 0
OBVIOUS

LEMMA LineNumber ==
  ASSUME NEW w \in Nat \ {0}, NEW p \in Nat, p % w = 0
  PROVE  \E k \in Nat : p = w * k
<1>1. p = w * (p \div w) + (p % w)
  OBVIOUS
<1>2. p \div w \in Nat
  OBVIOUS
<1> QED  BY <1>1, <1>2

(* The begin of a line that is not the top one has a whole line above it.   *)
LEMMA LineAbove ==
  ASSUME NEW w \in Nat \ {0}, NEW p \in Nat, p % w = 0, p > 0
  PROVE  p - w \in Nat /\ (p - w) % w = 0
<1>1. PICK k \in Nat : p = w * k
  BY LineNumber
<1>2. k # 0
  BY <1>1
<1>3. k - 1 \in Nat /\ w * k = w * (k - 1) + w
  BY <1>2
<1>4. w * (k - 1) \in Nat /\ (w * (k - 1)) % w = 0
  BY <1>3, LineBegins
<1> QED  BY <1>1, <1>3, <1>4

LEMMA NextLineFits ==
  ASSUME NEW w \in Nat \ {0}, NEW h \in Nat \ {0}, NEW p \in 0 .. w * h - 1,
         NEW next, next = w * (p \div w + 1)
  PROVE  next \in 0 .. w * h /\ next % w = 0 /\ p < next
<1> DEFINE q == p \div w
<1>1. w * h \in Nat /\ p \in Nat
  OBVIOUS
<1>2. q \in Nat /\ w * q <= p /\ p < w * q + w
  BY <1>1
<1>3. /\ w * q \in Nat /\ w * (q + 1) \in Nat /\ (w * (q + 1)) % w = 0
      /\ w * (q + 1) = w * q + w
  BY <1>2, LineBegins
<1>4. ~ (h <= q)
  <2> SUFFICES ASSUME h <= q PROVE FALSE
    OBVIOUS
  <2>1. w * h <= w * q
    BY <1>2, ProductMonotone
  <2> QED  BY <1>1, <1>2, <1>3, <2>1
<1>5. w * (q + 1) <= w * h
  BY <1>2, <1>4, ProductMonotone
<1> QED  BY <1>1, <1>2, <1>3, <1>5

LEMMA Characters ==
  NEWLINE \notin Glyph /\ BACKSPACE \notin Glyph /\ NEWLINE # BACKSPACE
BY ShellAssumption

LEMMA ScreenSize ==
  /\ Width \in Nat \ {0} /\ Height \in Nat \ {0}
  /\ S!Cells = Width * Height
  /\ S!Cells \in Nat
  /\ Width \in 1 .. S!Cells
  /\ S!Cells % Width = 0
<1>1. Width \in Nat \ {0} /\ Height \in Nat \ {0}
  BY ShellAssumption
<1>2. Width * 1 <= Width * Height
  BY <1>1, ProductMonotone
<1>3. Width * Height \in Nat /\ (Width * Height) % Width = 0
  BY <1>1, LineBegins
<1> QED  BY <1>1, <1>2, <1>3 DEF S!Cells

-----------------------------------------------------------------------------
(* From its position on, the screen is blank.                               *)
Clean(s) == \A i \in s.pos .. S!Cells - 1 : s.cells[i] = Blank

(* The last line of the screen begins with the text w, the position is      *)
(* behind it, and nothing is shown from there on.                           *)
Displays(s, w) ==
  /\ s.pos >= Len(w)
  /\ (s.pos - Len(w)) % Width = 0
  /\ \A i \in 1 .. Len(w) : s.cells[s.pos - Len(w) + i - 1] = w[i]
  /\ Clean(s)

(* A screen that the last character has left as it is, or moved up.         *)
LEMMA FittedShape ==
  ASSUME NEW cells \in [S!Place -> Glyph \cup {Blank}], NEW pos \in 0 .. S!Cells,
         \A i \in pos .. S!Cells - 1 : cells[i] = Blank,
         NEW f, f = S!Fitted(cells, pos),
         NEW up, up = IF pos < S!Cells THEN 0 ELSE Width
  PROVE  /\ f \in S!Screens /\ f.pos = pos - up
         /\ \A i \in S!Place : i + up < pos => f.cells[i] = cells[i + up]
         /\ Clean(f)
<1>1. CASE pos < S!Cells
  BY <1>1, ScreenSize DEF S!Fitted, S!Screens, S!Place, Clean
<1>2. CASE ~ (pos < S!Cells)
  <2>0. pos = S!Cells
    BY <1>2, ScreenSize
  <2>1. pos - Width \in S!Place
    BY <2>0, ScreenSize DEF S!Place
  <2>2. \A i \in S!Place : i + Width < S!Cells => i + Width \in S!Place
    BY ScreenSize DEF S!Place
  <2> DEFINE moved == [i \in S!Place |-> IF i + Width < S!Cells THEN cells[i + Width] ELSE Blank]
  <2>3. S!Fitted(cells, pos) = [cells |-> moved, pos |-> pos - Width]
    BY <1>2 DEF S!Fitted
  <2>4. moved \in [S!Place -> Glyph \cup {Blank}]
    BY <2>2
  <2>5. \A i \in S!Place : i + Width < pos => moved[i] = cells[i + Width]
    BY <2>0
  <2>6. \A i \in pos - Width .. S!Cells - 1 : moved[i] = Blank
    BY <2>0, <2>1, ScreenSize DEF S!Place
  <2> HIDE DEF moved
  <2> QED  BY <1>2, <2>1, <2>3, <2>4, <2>5, <2>6 DEF S!Screens, Clean
<1> QED  BY <1>1, <1>2

LEMMA GlyphShown ==
  ASSUME NEW s \in S!Screens, NEW c \in Glyph, Clean(s),
         NEW t, t = S!Shown(s, c),
         NEW up, up = IF s.pos + 1 < S!Cells THEN 0 ELSE Width
  PROVE  /\ t \in S!Screens /\ t.pos = s.pos + 1 - up /\ Clean(t)
         /\ \A i \in S!Place : i + up < s.pos => t.cells[i] = s.cells[i + up]
         /\ t.cells[s.pos - up] = c \/ s.pos < up
<1>1. s.cells \in [S!Place -> Glyph \cup {Blank}] /\ s.pos \in S!Place
  BY DEF S!Screens
<1> DEFINE cells == [s.cells EXCEPT ![s.pos] = c]
<1>2. S!Shown(s, c) = S!Fitted(cells, s.pos + 1)
  BY Characters DEF S!Shown
<1>3. s.pos + 1 \in 0 .. S!Cells
  BY <1>1, ScreenSize DEF S!Place
<1>4. /\ cells \in [S!Place -> Glyph \cup {Blank}]
      /\ cells[s.pos] = c
      /\ \A i \in S!Place : i # s.pos => cells[i] = s.cells[i]
  BY <1>1
<1>5. \A i \in s.pos + 1 .. S!Cells - 1 : cells[i] = Blank
  BY <1>1, <1>4, ScreenSize DEF Clean, S!Place
<1> HIDE DEF cells
<1>6. PICK pos \in 0 .. S!Cells : pos = s.pos + 1
  BY <1>3
<1>7. /\ t \in S!Screens /\ t.pos = pos - up /\ Clean(t)
      /\ \A i \in S!Place : i + up < pos => t.cells[i] = cells[i + up]
  <2>1. t = S!Fitted(cells, pos) /\ up = IF pos < S!Cells THEN 0 ELSE Width
    BY <1>2, <1>6
  <2>2. \A i \in pos .. S!Cells - 1 : cells[i] = Blank
    BY <1>5, <1>6
  <2> QED  BY <1>4, <2>1, <2>2, FittedShape
<1>8. up \in Nat
  BY ScreenSize
<1>9. \A i \in S!Place : i + up < s.pos => t.cells[i] = s.cells[i + up]
  <2> SUFFICES ASSUME NEW i \in S!Place, i + up < s.pos
               PROVE  t.cells[i] = s.cells[i + up]
    OBVIOUS
  <2>1. i + up \in S!Place /\ i + up # s.pos /\ i + up < pos
    BY <1>1, <1>8, <1>6, ScreenSize DEF S!Place
  <2> QED  BY <1>4, <1>7, <2>1
<1>10. t.cells[s.pos - up] = c \/ s.pos < up
  <2> SUFFICES ASSUME s.pos >= up PROVE t.cells[s.pos - up] = c
    BY <1>1, <1>8, <1>6, ScreenSize DEF S!Place
  <2>1. s.pos - up \in S!Place /\ (s.pos - up) + up = s.pos /\ (s.pos - up) + up < pos
    BY <1>1, <1>8, <1>6, ScreenSize DEF S!Place
  <2> QED  BY <1>4, <1>7, <2>1
<1>11. t.pos = s.pos + 1 - up
  <2>1. s.pos \in Nat
    BY <1>1, ScreenSize DEF S!Place
  <2> QED  BY <1>8, <1>6, <1>7, <2>1
<1> QED  BY <1>7, <1>9, <1>10, <1>11

LEMMA NewlineShown ==
  ASSUME NEW s \in S!Screens, Clean(s),
         NEW t, t = S!Shown(s, NEWLINE)
  PROVE  t \in S!Screens /\ t.pos % Width = 0 /\ Clean(t)
<1>1. s.cells \in [S!Place -> Glyph \cup {Blank}] /\ s.pos \in S!Place
  BY DEF S!Screens
<1>2. PICK next : next = Width * (s.pos \div Width + 1)
  OBVIOUS
<1>3. S!Shown(s, NEWLINE) = S!Fitted(s.cells, next)
  BY <1>2, Characters DEF S!Shown
<1>4. next \in 0 .. S!Cells /\ next % Width = 0 /\ s.pos < next
  <2>1. s.pos \in 0 .. Width * Height - 1
    BY <1>1, ScreenSize DEF S!Place
  <2>2. Width \in Nat \ {0} /\ Height \in Nat \ {0}
    BY ScreenSize
  <2>3. next \in 0 .. Width * Height /\ next % Width = 0 /\ s.pos < next
    BY <1>2, <2>1, <2>2, NextLineFits
  <2> QED  BY <2>3, ScreenSize
<1>5. \A i \in next .. S!Cells - 1 : s.cells[i] = Blank
  BY <1>1, <1>4, ScreenSize DEF Clean, S!Place
<1>6. t \in S!Screens /\ Clean(t) /\ t.pos = next - (IF next < S!Cells THEN 0 ELSE Width)
  BY <1>1, <1>3, <1>4, <1>5, FittedShape
<1>7. t.pos % Width = 0
  <2>1. next \in Nat /\ next > 0 /\ next - Width \in Nat /\ (next - Width) % Width = 0
    <3>1. Width \in Nat \ {0} /\ next \in Nat /\ next > 0
      BY <1>1, <1>4, ScreenSize DEF S!Place
    <3> QED  BY <1>4, <3>1, LineAbove
  <2> QED  BY <1>4, <1>6, <2>1
<1> QED  BY <1>6, <1>7

LEMMA BackspaceShown ==
  ASSUME NEW s \in S!Screens, Clean(s), s.pos > 0,
         NEW t, t = S!Shown(s, BACKSPACE)
  PROVE  /\ t \in S!Screens /\ t.pos = s.pos - 1 /\ Clean(t)
         /\ \A i \in S!Place : i < s.pos - 1 => t.cells[i] = s.cells[i]
<1>1. s.cells \in [S!Place -> Glyph \cup {Blank}] /\ s.pos \in S!Place
  BY DEF S!Screens
<1>2. S!Shown(s, BACKSPACE) = [cells |-> [s.cells EXCEPT ![s.pos - 1] = Blank], pos |-> s.pos - 1]
  <2>1. S!Backed(s) = s.pos - 1
    BY <1>1 DEF S!Backed
  <2> QED  BY <2>1, Characters DEF S!Shown
<1>3. s.pos - 1 \in S!Place
  BY <1>1, ScreenSize DEF S!Place
<1> QED  BY <1>1, <1>2, <1>3, ScreenSize DEF S!Screens, Clean, S!Place

LEMMA DisplaysGlyph ==
  ASSUME NEW s \in S!Screens, NEW w \in Seq(Glyph), NEW c \in Glyph,
         Displays(s, w), Len(w) + 1 < S!Cells,
         NEW t, t = S!Shown(s, c)
  PROVE  t \in S!Screens /\ Displays(t, Append(w, c))
<1>1. s.pos \in Nat /\ s.pos < S!Cells /\ S!Cells \in Nat /\ S!Place = 0 .. S!Cells - 1
  BY ScreenSize DEF S!Screens, S!Place
<1>2. PICK start \in Nat : start = s.pos - Len(w)
  BY <1>1, LenProperties DEF Displays
<1>3. /\ start % Width = 0 /\ Clean(s)
      /\ \A i \in 1 .. Len(w) : s.cells[start + i - 1] = w[i]
  BY <1>2 DEF Displays
<1>4. PICK up : up = IF s.pos + 1 < S!Cells THEN 0 ELSE Width
  OBVIOUS
<1>5. Len(w) \in Nat /\ Width \in Nat \ {0} /\ up \in Nat
  BY <1>4, ScreenSize, LenProperties
<1>6. /\ t \in S!Screens /\ t.pos = s.pos + 1 - up /\ Clean(t)
      /\ \A i \in S!Place : i + up < s.pos => t.cells[i] = s.cells[i + up]
      /\ t.cells[s.pos - up] = c \/ s.pos < up
  BY <1>3, <1>4, GlyphShown
<1>7. start - up \in Nat /\ (start - up) % Width = 0
  <2>1. CASE up = 0
    BY <1>3, <2>1
  <2>2. CASE up = Width
    <3>1. start > 0
      BY <1>1, <1>2, <1>4, <1>5, <2>2
    <3> QED  BY <1>3, <1>5, <2>2, <3>1, LineAbove
  <2> QED  BY <1>4, <2>1, <2>2
<1>8. /\ start \in Nat /\ up \in Nat /\ Len(w) \in Nat /\ s.pos = start + Len(w)
      /\ s.pos \in Nat /\ s.pos < S!Cells /\ S!Cells \in Nat /\ start - up \in Nat
      /\ start >= up
  <2>1. start - up \in Nat
    BY <1>7
  <2> QED  BY <1>1, <1>2, <1>5, <2>1
<1> DEFINE v == Append(w, c)
<1>9. /\ Len(v) = Len(w) + 1 /\ v[Len(w) + 1] = c
      /\ \A i \in 1 .. Len(w) : v[i] = w[i]
  BY AppendProperties
<1>10. t.pos - Len(v) = start - up
  BY <1>8, <1>6, <1>9
<1>11. \A i \in 1 .. Len(w) : t.cells[start - up + i - 1] = w[i]
  <2> SUFFICES ASSUME NEW i \in 1 .. Len(w) PROVE t.cells[start - up + i - 1] = w[i]
    OBVIOUS
  <2>1. PICK j \in S!Place : j = start - up + i - 1
    <3>1. start - up + i - 1 \in 0 .. S!Cells - 1
      BY <1>8
    <3> QED  BY <1>1, <3>1
  <2>2. j + up = start + i - 1 /\ j + up < s.pos
    BY <1>8, <2>1
  <2> QED  BY <1>3, <1>6, <2>1, <2>2
<1>12. t.cells[start - up + (Len(w) + 1) - 1] = c
  <2>1. start - up + (Len(w) + 1) - 1 = s.pos - up /\ s.pos >= up
    BY <1>8
  <2> QED  BY <1>8, <1>6, <2>1
<1>13. t.pos >= Len(v) /\ (t.pos - Len(v)) % Width = 0
  <2>1. t.pos >= Len(v)
    BY <1>8, <1>6, <1>9
  <2> QED  BY <1>7, <1>10, <2>1
<1>14. \A i \in 1 .. Len(v) : t.cells[t.pos - Len(v) + i - 1] = v[i]
  <2> SUFFICES ASSUME NEW i \in 1 .. Len(v) PROVE t.cells[start - up + i - 1] = v[i]
    BY <1>10
  <2>1. i \in 1 .. Len(w) \/ i = Len(w) + 1
    BY <1>5, <1>9
  <2> QED  BY <1>9, <1>11, <1>12, <2>1
<1> HIDE DEF v
<1>15. Displays(t, v)
  BY <1>6, <1>13, <1>14 DEF Displays
<1> QED  BY <1>6, <1>15 DEF v

LEMMA DisplaysBackspace ==
  ASSUME NEW s \in S!Screens, NEW w \in Seq(Glyph), w # <<>>, Displays(s, w),
         NEW t, t = S!Shown(s, BACKSPACE)
  PROVE  t \in S!Screens /\ Displays(t, SubSeq(w, 1, Len(w) - 1))
<1>1. s.pos \in Nat /\ s.pos < S!Cells /\ S!Cells \in Nat /\ S!Place = 0 .. S!Cells - 1
  BY ScreenSize DEF S!Screens, S!Place
<1>2. Len(w) \in Nat /\ Len(w) > 0
  BY LenProperties, EmptySeq
<1>3. PICK start \in Nat : start = s.pos - Len(w)
  BY <1>1, <1>2 DEF Displays
<1>4. /\ start % Width = 0 /\ Clean(s) /\ s.pos > 0
      /\ \A i \in 1 .. Len(w) : s.cells[start + i - 1] = w[i]
  BY <1>1, <1>2, <1>3 DEF Displays
<1>5. /\ t \in S!Screens /\ t.pos = s.pos - 1 /\ Clean(t)
      /\ \A i \in S!Place : i < s.pos - 1 => t.cells[i] = s.cells[i]
  BY <1>4, BackspaceShown
<1> DEFINE v == SubSeq(w, 1, Len(w) - 1)
<1> HIDE DEF v
<1>6. Len(v) = Len(w) - 1 /\ \A i \in 1 .. Len(w) - 1 : v[i] = w[i]
  <2>1. \A i \in 1 .. Len(w) - 1 : i \in 1 .. Len(w) /\ w[i] \in Glyph
    BY <1>2, ElementOfSeq
  <2>2. 1 \in Int /\ Len(w) - 1 \in Int /\ (Len(w) - 1) - 1 + 1 = Len(w) - 1
    BY <1>2
  <2>3. /\ Len(v) = IF 1 <= Len(w) - 1 THEN (Len(w) - 1) - 1 + 1 ELSE 0
        /\ \A i \in 1 .. (Len(w) - 1) - 1 + 1 : v[i] = w[1 + i - 1]
    BY <2>1, <2>2, SubSeqProperties DEF v
  <2>4. Len(v) = Len(w) - 1
    <3>1. CASE 1 <= Len(w) - 1
      BY <1>2, <2>3, <3>1
    <3>2. CASE ~ (1 <= Len(w) - 1)
      <4>1. Len(w) - 1 = 0
        <5>1. PICK n \in Nat : n = Len(w) /\ n > 0
          BY <1>2
        <5>2. n - 1 = 0
          BY <5>1, <3>2
        <5> QED  BY <5>1, <5>2
      <4> QED  BY <2>3, <3>2, <4>1
    <3> QED  BY <3>1, <3>2
  <2>5. \A i \in 1 .. Len(w) - 1 : 1 + i - 1 = i
    BY <1>2
  <2> QED  BY <2>2, <2>3, <2>4, <2>5
<1>7. t.pos - Len(v) = start
  BY <1>1, <1>2, <1>3, <1>5, <1>6
<1>8. \A i \in 1 .. Len(v) : t.cells[start + i - 1] = v[i]
  <2> SUFFICES ASSUME NEW i \in 1 .. Len(v) PROVE t.cells[start + i - 1] = v[i]
    OBVIOUS
  <2>1. /\ i \in 1 .. Len(w) /\ i \in 1 .. Len(w) - 1 /\ start + i - 1 \in S!Place
        /\ start + i - 1 < s.pos - 1
    BY SMTT(30), <1>1, <1>2, <1>3, <1>6
  <2> QED  BY <1>4, <1>5, <1>6, <2>1
<1>9. t.pos >= Len(v) /\ (t.pos - Len(v)) % Width = 0
  BY <1>1, <1>2, <1>3, <1>4, <1>5, <1>6, <1>7
<1>10. Displays(t, v)
  BY <1>5, <1>7, <1>8, <1>9 DEF Displays
<1> QED  BY <1>5, <1>10 DEF v

LEMMA DisplaysNothing ==
  ASSUME NEW s \in S!Screens, Clean(s), s.pos % Width = 0
  PROVE  Displays(s, <<>>)
BY ScreenSize DEF Displays, S!Screens, S!Place

LEMMA EmptyDisplaysNothing == S!Empty \in S!Screens /\ Displays(S!Empty, <<>>)
<1>1. S!Empty \in S!Screens /\ S!Empty.pos = 0
  BY ScreenSize DEF S!Empty, S!Screens, S!Place
<1>2. Clean(S!Empty)
  BY DEF Clean, S!Empty, S!Place
<1>3. S!Empty.pos % Width = 0
  BY <1>1, ScreenSize
<1> QED  BY <1>1, <1>2, <1>3, DisplaysNothing

-----------------------------------------------------------------------------
(* The screens a text makes, one after the other.                           *)
Passes(f, n, s, text) ==
  /\ f \in [0 .. n -> S!Screens]
  /\ f[0] = s
  /\ \A k \in 1 .. n : f[k] = S!Shown(f[k - 1], text[k])

LEMMA ShownType ==
  ASSUME NEW s \in S!Screens, NEW c \in Glyph \cup {NEWLINE}, Clean(s)
  PROVE  S!Shown(s, c) \in S!Screens /\ Clean(S!Shown(s, c))
<1>1. PICK t : t = S!Shown(s, c)
  OBVIOUS
<1>2. CASE c \in Glyph
  <2>1. PICK up : up = IF s.pos + 1 < S!Cells THEN 0 ELSE Width
    OBVIOUS
  <2> QED  BY <1>1, <1>2, <2>1, GlyphShown
<1>3. CASE c = NEWLINE
  BY <1>1, <1>3, NewlineShown
<1> QED  BY <1>2, <1>3

LEMMA PassesExist ==
  ASSUME NEW s \in S!Screens, Clean(s), NEW text \in Text
  PROVE  \E f : Passes(f, Len(text), s, text) /\ \A k \in 0 .. Len(text) : Clean(f[k])
<1> DEFINE Good(f, n) == Passes(f, n, s, text) /\ \A k \in 0 .. n : Clean(f[k])
           T == {n \in Nat : n <= Len(text) => \E f : Good(f, n)}
<1>1. Len(text) \in Nat
  BY LenProperties DEF Text
<1>2. 0 \in T
  <2>1. Good([k \in 0 .. 0 |-> s], 0)
    BY DEF Passes
  <2> QED  BY <2>1
<1>3. ASSUME NEW n \in Nat, n \in T PROVE n + 1 \in T
  <2> SUFFICES ASSUME n + 1 <= Len(text) PROVE \E f : Good(f, n + 1)
    OBVIOUS
  <2>1. PICK f : Good(f, n)
    BY <1>1, <1>3
  <2>2. text[n + 1] \in Glyph \cup {NEWLINE}
    BY <1>1, ElementOfSeq DEF Text
  <2>3. f[n] \in S!Screens /\ Clean(f[n])
    BY <2>1 DEF Passes
  <2>4. PICK u : u = S!Shown(f[n], text[n + 1])
    OBVIOUS
  <2>5. u \in S!Screens /\ Clean(u)
    BY <2>2, <2>3, <2>4, ShownType
  <2> DEFINE g == [k \in 0 .. n + 1 |-> IF k <= n THEN f[k] ELSE u]
  <2>6. g \in [0 .. n + 1 -> S!Screens] /\ g[0] = s
    BY <2>1, <2>5 DEF Passes
  <2>7. ASSUME NEW k \in 1 .. n + 1 PROVE g[k] = S!Shown(g[k - 1], text[k])
    <3>1. CASE k \in 1 .. n
      BY <2>1, <3>1 DEF Passes
    <3>2. CASE k = n + 1
      BY <2>4, <3>2
    <3> QED  BY <3>1, <3>2
  <2>8. \A k \in 0 .. n + 1 : Clean(g[k])
    BY <2>1, <2>5
  <2>9. Good(g, n + 1)
    BY <2>6, <2>7, <2>8 DEF Passes
  <2> QED  BY <2>9
<1>4. Nat \subseteq T
  <2> HIDE DEF T
  <2> QED  BY <1>2, <1>3, NatIsInductive
<1> QED  BY <1>1, <1>4

LEMMA PrintedIsLast ==
  ASSUME NEW s \in S!Screens, NEW text \in Text,
         NEW f, Passes(f, Len(text), s, text)
  PROVE  S!Printed(s, text) = f[Len(text)]
<1> DEFINE next(h) == [n \in 0 .. Len(text) |->
                         IF n = 0 THEN s ELSE S!Shown(h[n - 1], text[n])]
           after == CHOOSE h : h = next(h)
<1>1. Len(text) \in Nat
  BY LenProperties DEF Text
<1>2. S!Printed(s, text) = after[Len(text)]
  BY DEF S!Printed
<1>3. f = next(f)
  <2>1. \A n \in 0 .. Len(text) : f[n] = IF n = 0 THEN s ELSE S!Shown(f[n - 1], text[n])
    BY <1>1 DEF Passes
  <2>2. f = [n \in 0 .. Len(text) |-> f[n]]
    BY DEF Passes
  <2> QED  BY <2>1, <2>2
<1>4. after = next(after)
  <2> HIDE DEF next
  <2> QED  BY <1>3
<1> HIDE DEF after
<1> DEFINE T == {n \in Nat : n <= Len(text) => after[n] = f[n]}
<1>5. 0 \in T
  BY <1>1, <1>4 DEF Passes
<1>6. ASSUME NEW n \in Nat, n \in T PROVE n + 1 \in T
  <2> SUFFICES ASSUME n + 1 <= Len(text) PROVE after[n + 1] = f[n + 1]
    OBVIOUS
  <2>1. after[n] = f[n] /\ n + 1 \in 1 .. Len(text)
    BY <1>1, <1>6
  <2>2. after[n + 1] = S!Shown(after[n], text[n + 1])
    BY <1>1, <1>4
  <2>3. f[n + 1] = S!Shown(f[n], text[n + 1])
    BY <2>1 DEF Passes
  <2> QED  BY <2>1, <2>2, <2>3
<1>7. Nat \subseteq T
  <2> HIDE DEF T
  <2> QED  BY <1>5, <1>6, NatIsInductive
<1> QED  BY <1>1, <1>2, <1>7

(* Whole lines leave the position at the begin of a line.                   *)
LEMMA LinesPrinted ==
  ASSUME NEW s \in S!Screens, Displays(s, <<>>), NEW text \in Text, EndsLine(text)
  PROVE  S!Printed(s, text) \in S!Screens /\ Displays(S!Printed(s, text), <<>>)
<1>1. Clean(s)
  BY DEF Displays
<1>2. PICK f : Passes(f, Len(text), s, text) /\ \A k \in 0 .. Len(text) : Clean(f[k])
  BY <1>1, PassesExist
<1>3. S!Printed(s, text) = f[Len(text)]
  BY <1>2, PrintedIsLast
<1>4. Len(text) \in Nat
  BY LenProperties DEF Text
<1>5. CASE Len(text) = 0
  BY <1>2, <1>3, <1>5 DEF Passes
<1>6. CASE Len(text) # 0
  <2>1. text[Len(text)] = NEWLINE
    BY <1>6, EmptySeq DEF EndsLine
  <2>2. /\ f[Len(text) - 1] \in S!Screens /\ Clean(f[Len(text) - 1])
        /\ f[Len(text)] = S!Shown(f[Len(text) - 1], NEWLINE)
    BY <1>2, <1>4, <1>6, <2>1 DEF Passes
  <2>3. PICK t : t = f[Len(text)]
    OBVIOUS
  <2>4. t \in S!Screens /\ t.pos % Width = 0 /\ Clean(t)
    BY <2>2, <2>3, NewlineShown
  <2> QED  BY <1>3, <2>3, <2>4, DisplaysNothing
<1> QED  BY <1>5, <1>6

(* The prompt stands alone in its line.                                     *)
LEMMA WordPrinted ==
  ASSUME NEW s \in S!Screens, Displays(s, <<>>),
         NEW word \in Seq(Glyph), Len(word) < S!Cells
  PROVE  S!Printed(s, word) \in S!Screens /\ Displays(S!Printed(s, word), word)
<1>1. Clean(s) /\ word \in Text /\ Len(word) \in Nat
  BY LenProperties, SeqMonotonic DEF Displays, Text
<1>2. PICK f : Passes(f, Len(word), s, word) /\ \A k \in 0 .. Len(word) : Clean(f[k])
  BY <1>1, PassesExist
<1>3. S!Printed(s, word) = f[Len(word)]
  BY <1>1, <1>2, PrintedIsLast
<1> DEFINE Begin(n) == SubSeq(word, 1, n)
           T == {n \in Nat : n <= Len(word) => Displays(f[n], Begin(n))}
<1>4. 0 \in T
  <2>1. Begin(0) = <<>>
    BY SubSeqEmpty
  <2> QED  BY <1>2, <2>1 DEF Passes
<1>5. ASSUME NEW n \in Nat, n \in T PROVE n + 1 \in T
  <2> SUFFICES ASSUME n + 1 <= Len(word) PROVE Displays(f[n + 1], Begin(n + 1))
    OBVIOUS
  <2>1. Displays(f[n], Begin(n)) /\ n + 1 \in 1 .. Len(word) /\ n \in 0 .. Len(word)
    BY <1>1, <1>5
  <2>2. \A i \in 1 .. n : i \in 1 .. Len(word) /\ word[i] \in Glyph
    BY <1>1, <2>1, ElementOfSeq
  <2>3. Begin(n) \in Seq(Glyph) /\ Len(Begin(n)) = n
    <3>1. CASE n = 0
      BY <3>1, SubSeqEmpty, EmptySeq
    <3>2. CASE n # 0
      BY <2>2, <3>2, SubSeqProperties
    <3> QED  BY <3>1, <3>2
  <2>4. f[n] \in S!Screens /\ f[n + 1] = S!Shown(f[n], word[n + 1]) /\ word[n + 1] \in Glyph
    BY <1>1, <1>2, <2>1, ElementOfSeq DEF Passes
  <2>5. Begin(n + 1) = Append(Begin(n), word[n + 1])
    BY <1>1, <2>1, <2>3
  <2>6. PICK t : t = f[n + 1]
    OBVIOUS
  <2>7. Len(Begin(n)) + 1 < S!Cells
    BY <1>1, <2>1, <2>3, ScreenSize
  <2>8. Displays(t, Append(Begin(n), word[n + 1]))
    <3> HIDE DEF Begin
    <3> QED  BY <2>1, <2>3, <2>4, <2>6, <2>7, DisplaysGlyph
  <2> QED  BY <2>5, <2>6, <2>8
<1>6. Nat \subseteq T
  <2> HIDE DEF T
  <2> QED  BY <1>4, <1>5, NatIsInductive
<1>7. Displays(f[Len(word)], Begin(Len(word)))
  BY <1>1, <1>6
<1>8. Begin(Len(word)) = word
  BY SubSeqFull
<1>9. f[Len(word)] \in S!Screens
  BY <1>1, <1>2 DEF Passes
<1> QED  BY <1>3, <1>7, <1>8, <1>9

-----------------------------------------------------------------------------
(* The last line of the screen is the prompt and the line of the user.      *)
ScreenInv ==
  /\ screen \in S!Screens
  /\ submitted \in Seq(Glyph)
  /\ Displays(screen, Prompt \o line)

LEMMA PromptFits ==
  /\ Prompt \in Seq(Glyph) /\ Len(Prompt) \in Nat
  /\ Len(Prompt) + CMD_BUFFER_SIZE <= S!Cells /\ CMD_BUFFER_SIZE \in Nat \ {0}
BY ShellAssumption, LenProperties, ScreenSize

LEMMA Prompting ==
  ASSUME NEW scr \in S!Screens, Displays(scr, <<>>)
  PROVE  Prompted(scr) \in S!Screens /\ Displays(Prompted(scr), Prompt \o <<>>)
<1>1. Len(Prompt) < S!Cells
  BY PromptFits, ScreenSize
<1>2. Prompt \o <<>> = Prompt
  BY PromptFits, ConcatEmptySeq
<1> QED  BY <1>1, <1>2, PromptFits, WordPrinted DEF Prompted

LEMMA InitScreenInv == Init => ScreenInv
<1> SUFFICES ASSUME Init PROVE ScreenInv
  OBVIOUS
<1> DEFINE scr == S!Printed(S!Empty, Banner)
<1>1. scr \in S!Screens /\ Displays(scr, <<>>)
  BY EmptyDisplaysNothing, LinesPrinted, ShellAssumption
<1> HIDE DEF scr
<1>2. screen = Prompted(scr) /\ line = <<>> /\ submitted = <<>>
  BY DEF Init, scr
<1> QED  BY <1>1, <1>2, Prompting, EmptySeq DEF ScreenInv

(* Every answer is a text of whole lines.                                   *)
LEMMA AnswersEndLines ==
  ASSUME NEW cmd \in Seq(Glyph), NEW text \in Answers(cmd)
  PROVE  text \in Text /\ EndsLine(text)
<1>1. ASSUME NEW word \in Seq(Glyph)
      PROVE  word \o <<NEWLINE>> \in Text /\ EndsLine(word \o <<NEWLINE>>)
  <2>1. word \in Text /\ <<NEWLINE>> \in Text /\ Len(<<NEWLINE>>) = 1 /\ Len(word) \in Nat
    BY SeqMonotonic, LenProperties DEF Text
  <2>2. /\ word \o <<NEWLINE>> \in Text
        /\ Len(word \o <<NEWLINE>>) = Len(word) + 1
        /\ (word \o <<NEWLINE>>)[Len(word) + 1] = <<NEWLINE>>[1]
    BY <2>1, ConcatProperties DEF Text
  <2> QED  BY <2>2 DEF EndsLine
<1>2. CASE cmd \in DOMAIN Report
  BY <1>2, ShellAssumption DEF Answers
<1>3. CASE cmd \notin DOMAIN Report /\ IsEcho(cmd)
  <2>1. Len(cmd) \in Nat /\ Len(EchoPrefix) \in Nat
    BY LenProperties, ShellAssumption
  <2>2. \A i \in Len(EchoPrefix) + 1 .. Len(cmd) : cmd[i] \in Glyph
    BY <2>1, ElementOfSeq
  <2>3. SubSeq(cmd, Len(EchoPrefix) + 1, Len(cmd)) \in Seq(Glyph)
    BY <2>1, <2>2, SubSeqProperties
  <2> QED  BY <1>1, <1>3, <2>3 DEF Answers
<1>4. CASE cmd \notin DOMAIN Report /\ ~ IsEcho(cmd)
  <2>1. UnknownText \o cmd \in Seq(Glyph)
    BY ConcatProperties, ShellAssumption
  <2>2. text = (UnknownText \o cmd) \o <<NEWLINE>>
    <3>1. text = UnknownText \o cmd \o <<NEWLINE>>
      BY <1>4 DEF Answers
    <3> QED  BY <3>1
  <2> QED  BY <1>1, <2>1, <2>2
<1> QED  BY <1>2, <1>3, <1>4

LEMMA EnterShows ==
  ASSUME IInv, ScreenInv, Enter
  PROVE  ScreenInv'
<1>1. executed' = line /\ line \in Seq(Glyph) /\ submitted' = line /\ line' = <<>>
  BY CStringOfLine, LineLength DEF Enter
<1>2. PICK below : below = S!Shown(screen, NEWLINE)
  OBVIOUS
<1>3. below \in S!Screens /\ Displays(below, <<>>)
  BY <1>2, NewlineShown, DisplaysNothing DEF ScreenInv, Displays
<1>4. PICK scr \in execute_command(line, below) : screen' = Prompted(scr)
  BY <1>1, <1>2 DEF Enter
<1>5. scr \in S!Screens /\ Displays(scr, <<>>)
  <2>1. CASE line = <<>>
    BY <1>3, <1>4, <2>1 DEF execute_command
  <2>2. CASE line # <<>> /\ line \in ClearCommand
    BY <1>4, <2>2, EmptyDisplaysNothing DEF execute_command
  <2>3. CASE line # <<>> /\ line \notin ClearCommand
    <3>1. PICK text \in Answers(line) : scr = S!Printed(below, text)
      BY <1>4, <2>3 DEF execute_command
    <3> QED  BY <1>1, <1>3, <3>1, AnswersEndLines, LinesPrinted
  <2> QED  BY <2>1, <2>2, <2>3
<1> QED  BY <1>1, <1>4, <1>5, Prompting DEF ScreenInv

LEMMA PrintableShows ==
  ASSUME IInv, ScreenInv, NEW c \in Glyph, Printable(c)
  PROVE  ScreenInv'
<1>1. Len(line) = cmd_length /\ line \in Seq(Glyph) /\ cmd_length \in Nat
  BY LineLength, ShellAssumption DEF IInv
<1>2. CASE Fits
  <2>1. screen' = S!Shown(screen, c) /\ line' = Append(line, c) /\ submitted' = submitted
    BY <1>1, <1>2 DEF Printable, Fits
  <2>2. /\ Prompt \o line \in Seq(Glyph)
        /\ Len(Prompt \o line) = Len(Prompt) + cmd_length
    BY <1>1, PromptFits, ConcatProperties
  <2>3. Len(Prompt \o line) + 1 < S!Cells
    BY <1>1, <1>2, <2>2, PromptFits, ScreenSize DEF Fits
  <2>4. Append(Prompt \o line, c) = Prompt \o Append(line, c)
    <3>1. <<c>> \in Seq(Glyph)
      OBVIOUS
    <3>2. /\ Append(Prompt \o line, c) = (Prompt \o line) \o <<c>>
          /\ Append(line, c) = line \o <<c>>
      BY <1>1, <2>2, AppendIsConcat
    <3> QED  BY SMTT(30), <1>1, <3>1, <3>2, PromptFits, ConcatAssociative
  <2>5. screen' \in S!Screens /\ Displays(screen', Prompt \o line')
    BY <2>1, <2>2, <2>3, <2>4, DisplaysGlyph DEF ScreenInv
  <2> QED  BY <2>1, <2>5 DEF ScreenInv
<1>3. CASE ~Fits
  <2>1. UNCHANGED <<screen, line, submitted>>
    BY <1>1, <1>3, ShellAssumption DEF Printable, Fits, IInv
  <2> QED  BY <2>1 DEF ScreenInv
<1> QED  BY <1>2, <1>3

LEMMA EraseShows ==
  ASSUME IInv, ScreenInv, Erase
  PROVE  ScreenInv'
<1>1. Len(line) = cmd_length /\ line \in Seq(Glyph) /\ cmd_length \in Nat
  BY LineLength, ShellAssumption DEF IInv
<1>2. CASE cmd_length > 0
  <2> DEFINE front == SubSeq(line, 1, Len(line) - 1)
             w == Prompt \o line
  <2>1. screen' = S!Shown(screen, BACKSPACE) /\ line' = front /\ submitted' = submitted
    BY <1>1, <1>2, EmptySeq DEF Erase, Erased
  <2>2. /\ w \in Seq(Glyph) /\ Len(w) = Len(Prompt) + cmd_length
        /\ w # <<>>
    <3>1. w \in Seq(Glyph) /\ Len(w) = Len(Prompt) + cmd_length
      BY <1>1, PromptFits, ConcatProperties
    <3>2. Len(w) # 0
      BY <1>1, <1>2, <3>1, PromptFits
    <3> HIDE DEF w
    <3> QED  BY <3>1, <3>2, EmptySeq
  <2>3. SubSeq(w, 1, Len(w) - 1) = Prompt \o front
    <3>1. \A i \in 1 .. Len(w) : w[i] = IF i <= Len(Prompt) THEN Prompt[i] ELSE line[i - Len(Prompt)]
      BY <1>1, <2>2, PromptFits, ConcatProperties
    <3>2. front \in Seq(Glyph) /\ Len(front) = cmd_length - 1
          /\ \A i \in 1 .. cmd_length - 1 : front[i] = line[i]
      BY <1>1, <1>2
    <3> QED  BY <1>1, <1>2, <2>2, <3>1, <3>2, PromptFits
  <2>4. screen' \in S!Screens /\ Displays(screen', Prompt \o front)
    <3> HIDE DEF w, front
    <3>1. Displays(screen, w)
      BY DEF ScreenInv, w
    <3> QED  BY <2>1, <2>2, <2>3, <3>1, DisplaysBackspace DEF ScreenInv
  <2> QED  BY <2>1, <2>4 DEF ScreenInv
<1>3. CASE ~ (cmd_length > 0)
  <2>1. UNCHANGED <<screen, line, submitted>>
    BY <1>1, <1>3, EmptySeq DEF Erase, Erased
  <2> QED  BY <2>1 DEF ScreenInv
<1> QED  BY <1>2, <1>3

LEMMA InvStep == IInv /\ ScreenInv /\ [Next]_vars => ScreenInv'
<1>1. IInv /\ ScreenInv /\ UNCHANGED vars => ScreenInv'
  BY DEF ScreenInv, vars
<1> QED  BY <1>1, EnterShows, EraseShows, PrintableShows DEF Next, IgnoreControl

(* The buffer, the screen and the lines keep their types: cmd_length stays  *)
(* inside the buffer, and no command leaves a picture that is no screen     *)
(* (shell.c:15-22, shell.c:197-221).                                        *)
THEOREM TypeCorrect == Spec => []TypeOK
<1>1. IInv /\ [Next]_vars => IInv'
  BY IInvStep
<1>2. IInv /\ ScreenInv => TypeOK
  BY LineLength DEF IInv, ScreenInv, TypeOK
<1> QED  BY <1>1, <1>2, InitIInv, InitScreenInv, InvStep, PTL DEF Spec

(* The user sees the line that will be executed, for every size of screen   *)
(* and buffer, every prompt and every command whose text ends its line: a   *)
(* key shows what it puts into the buffer, an erased character is taken     *)
(* from both, also over the end of a screen line or of the screen           *)
(* (shell.c:197-221, docs/shell.md:9).                                      *)
THEOREM LineShown == Spec => []LineIsShown
<1>1. IInv /\ ScreenInv => LineIsShown
  <2> SUFFICES ASSUME IInv, ScreenInv PROVE LineIsShown
    OBVIOUS
  <2> DEFINE w == Prompt \o line
             start == screen.pos - cmd_length - Len(Prompt)
  <2>1. Len(line) = cmd_length /\ line \in Seq(Glyph) /\ cmd_length \in Nat
    BY LineLength, ShellAssumption DEF IInv
  <2>2. /\ Len(w) = Len(Prompt) + cmd_length
        /\ \A i \in 1 .. Len(Prompt) + cmd_length :
             w[i] = IF i <= Len(Prompt) THEN Prompt[i] ELSE line[i - Len(Prompt)]
    BY <2>1, PromptFits, ConcatProperties
  <2>3. screen.pos \in Nat
    BY ScreenSize DEF ScreenInv, S!Screens, S!Place
  <2> HIDE DEF w
  <2>4. /\ screen.pos >= Len(w) /\ (screen.pos - Len(w)) % Width = 0
        /\ \A i \in 1 .. Len(w) : screen.cells[screen.pos - Len(w) + i - 1] = w[i]
        /\ \A i \in screen.pos .. S!Cells - 1 : screen.cells[i] = Blank
    BY DEF ScreenInv, Displays, Clean, w
  <2>5. screen.pos - Len(w) = start /\ start >= 0
    BY <2>1, <2>2, <2>3, <2>4, PromptFits
  <2>6. start >= 0 /\ start % Width = 0
    BY <2>4, <2>5
  <2> HIDE DEF start
  <2>7. \A i \in 1 .. Len(Prompt) : screen.cells[start + i - 1] = Prompt[i]
    BY <2>1, <2>2, <2>4, <2>5, PromptFits
  <2>8. ASSUME NEW i \in 0 .. cmd_length - 1
        PROVE  screen.cells[start + Len(Prompt) + i] = cmd_buffer[i]
    <3>1. PICK k \in 1 .. Len(w) : k = Len(Prompt) + i + 1
      BY <2>1, <2>2, PromptFits
    <3>2. w[k] = line[i + 1]
      BY <2>1, <2>2, <3>1, PromptFits
    <3>3. start + k - 1 = start + Len(Prompt) + i
      BY <2>1, <2>3, <2>2, <3>1, PromptFits DEF start
    <3>4. line[i + 1] = cmd_buffer[i]
      BY <2>1 DEF IInv, Typed
    <3> QED  BY <2>4, <2>5, <3>1, <3>2, <3>3, <3>4
  <2> QED  BY <2>4, <2>6, <2>7, <2>8, ScreenSize DEF LineIsShown, start
<1>2. IInv /\ [Next]_vars => IInv'
  BY IInvStep
<1> QED  BY <1>1, <1>2, InitIInv, InitScreenInv, InvStep, PTL DEF Spec
=============================================================================
