-------------------------------- MODULE Shell --------------------------------
(***************************************************************************)
(* shell/shell.c: the line editor and the commands.  The shell takes one   *)
(* character at a time from the keyboard's queue and shares what it        *)
(* touches with nobody, so a key is one step.  Its terminal is the screen  *)
(* that module Terminal implements.                                        *)
(*                                                                         *)
(* A command is known by its line.  What it prints comes from other parts  *)
(* of the kernel and is one of the texts Report allows.                    *)
(***************************************************************************)
EXTENDS Integers, Sequences

CONSTANTS
  CMD_BUFFER_SIZE,  (* bytes of the command buffer (256)                    *)
  Width, Height,    (* of the screen                                        *)
  Glyph,            (* the printable characters                             *)
  Blank, NEWLINE, BACKSPACE,
  NUL,              (* the end of a string                                  *)
  Banner, Prompt,   (* the texts of shell_run and shell_prompt              *)
  ClearCommand,     (* the lines that clear the screen: clear and cls       *)
  Report,           (* for the lines of the other commands, the texts they  *)
                    (* may print                                            *)
  EchoPrefix,       (* the begin of an echo command                         *)
  UnknownText       (* the begin of the answer to any other line            *)

Index == 0 .. CMD_BUFFER_SIZE - 1
Text == Seq(Glyph \cup {NEWLINE})
EndsLine(text) == text = <<>> \/ text[Len(text)] = NEWLINE

ASSUME ShellAssumption ==
  /\ CMD_BUFFER_SIZE \in Nat \ {0}
  /\ Width \in Nat \ {0} /\ Height \in Nat \ {0}
  /\ NUL \notin Glyph /\ NEWLINE \notin Glyph /\ BACKSPACE \notin Glyph
  /\ NEWLINE # BACKSPACE
  /\ Banner \in Text /\ EndsLine(Banner)
  /\ Prompt \in Seq(Glyph) /\ UnknownText \in Seq(Glyph)
  /\ Len(Prompt) + CMD_BUFFER_SIZE <= Width * Height
  /\ EchoPrefix \in Seq(Glyph) /\ EchoPrefix # <<>>
  /\ ClearCommand \subseteq Seq(Glyph) \ {<<>>}
  /\ DOMAIN Report \subseteq Seq(Glyph) \ ({<<>>} \cup ClearCommand)
  /\ \A line \in DOMAIN Report : \A text \in Report[line] :
       text \in Text /\ EndsLine(text)

VARIABLES
  cmd_buffer, cmd_length,
  executed,   (* the line execute_command got last                          *)
  screen,     (* what the terminal shows                                    *)
  line,       (* the line the user has edited                               *)
  submitted   (* the line the user has sent last                            *)

vars == <<cmd_buffer, cmd_length, executed, screen, line, submitted>>

S == INSTANCE Screen

TypeOK ==
  /\ cmd_buffer \in [Index -> Glyph \cup {NUL}]
  /\ cmd_length \in Index
  /\ executed \in Seq(Glyph)
  /\ screen \in S!Screens
  /\ line \in Seq(Glyph)
  /\ submitted \in Seq(Glyph)

Prompted(scr) == S!Printed(scr, Prompt)

Init ==
  /\ cmd_buffer = [i \in Index |-> NUL]
  /\ cmd_length = 0
  /\ executed = <<>>
  /\ screen = Prompted(S!Printed(S!Empty, Banner))
  /\ line = <<>>
  /\ submitted = <<>>

-----------------------------------------------------------------------------
(* The string that begins at the buffer ends before the first NUL.          *)
CString(buffer) ==
  LET length == CHOOSE n \in Index : buffer[n] = NUL /\ \A i \in 0 .. n - 1 : buffer[i] # NUL
  IN [i \in 1 .. length |-> buffer[i - 1]]

IsEcho(cmd) ==
  Len(EchoPrefix) <= Len(cmd) /\ SubSeq(cmd, 1, Len(EchoPrefix)) = EchoPrefix

Answers(cmd) ==
  IF cmd \in DOMAIN Report THEN Report[cmd]
  ELSE IF IsEcho(cmd) THEN {SubSeq(cmd, Len(EchoPrefix) + 1, Len(cmd)) \o <<NEWLINE>>}
  ELSE {UnknownText \o cmd \o <<NEWLINE>>}

(* What execute_command makes of the screen.                                *)
execute_command(cmd, scr) ==
  IF cmd = <<>> THEN {scr}
  ELSE IF cmd \in ClearCommand THEN {S!Empty}
  ELSE {S!Printed(scr, text) : text \in Answers(cmd)}

(* (Without the NUL behind the last character.) *)
Unterminated == cmd_buffer
Terminated == [cmd_buffer EXCEPT ![cmd_length] = NUL]

Enter ==
  /\ cmd_buffer' = Terminated
  /\ executed' = CString(cmd_buffer')
  /\ \E scr \in execute_command(executed', S!Shown(screen, NEWLINE)) :
       screen' = Prompted(scr)
  /\ cmd_length' = 0
  /\ submitted' = line
  /\ line' = <<>>

(* (The last byte is not kept for the NUL.) *)
FitsWithoutNul == cmd_length < CMD_BUFFER_SIZE
Fits == cmd_length < CMD_BUFFER_SIZE - 1

Printable(c) ==
  /\ IF Fits
       THEN /\ cmd_buffer' = [cmd_buffer EXCEPT ![cmd_length] = c]
            /\ cmd_length' = cmd_length + 1
            /\ screen' = S!Shown(screen, c)
       ELSE UNCHANGED <<cmd_buffer, cmd_length, screen>>
  /\ line' = IF Len(line) < CMD_BUFFER_SIZE - 1 THEN Append(line, c) ELSE line
  /\ UNCHANGED <<executed, submitted>>

(* (The screen is told also when there is nothing to erase.) *)
ErasedAlways == S!Shown(screen, BACKSPACE)
Erased == IF cmd_length > 0 THEN S!Shown(screen, BACKSPACE) ELSE screen

Erase ==
  /\ cmd_length' = IF cmd_length > 0 THEN cmd_length - 1 ELSE 0
  /\ screen' = Erased
  /\ line' = IF line = <<>> THEN line ELSE SubSeq(line, 1, Len(line) - 1)
  /\ UNCHANGED <<cmd_buffer, executed, submitted>>

(* Escape, tabulator.                                                       *)
IgnoreControl == UNCHANGED vars

Next == Enter \/ Erase \/ IgnoreControl \/ \E c \in Glyph : Printable(c)

Spec == Init /\ [][Next]_vars

-----------------------------------------------------------------------------
(* The buffer holds the line the user has edited, and what is executed is   *)
(* the line the user has sent, whatever longer lines were in the buffer     *)
(* before (shell.c:200-216).                                                *)
BufferIsLine ==
  /\ [i \in 1 .. cmd_length |-> cmd_buffer[i - 1]] = line
  /\ executed = submitted

(* The user sees the line that will be executed: a prompt at the begin of a *)
(* screen line, the buffer up to the cursor, and nothing behind it, also    *)
(* when the line goes over the end of a screen line or of the screen        *)
(* (docs/shell.md:9).                                                       *)
LineIsShown ==
  LET start == screen.pos - cmd_length - Len(Prompt)
  IN /\ start >= 0 /\ start % Width = 0
     /\ \A i \in 1 .. Len(Prompt) : screen.cells[start + i - 1] = Prompt[i]
     /\ \A i \in 0 .. cmd_length - 1 :
          screen.cells[start + Len(Prompt) + i] = cmd_buffer[i]
     /\ \A i \in screen.pos .. Width * Height - 1 : screen.cells[i] = Blank
=============================================================================
