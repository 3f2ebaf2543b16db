------------------------------ MODULE Keyboard ------------------------------
(***************************************************************************)
(* drivers/keyboard.c: the PS/2 interrupt handler translates scan codes    *)
(* and fills a ring buffer; the one reader (shell_run) empties it with     *)
(* keyboard_getchar, which halts the CPU while the buffer is empty.        *)
(*                                                                         *)
(* The handler runs with interrupts disabled, so it is one step.  The      *)
(* reader runs with interrupts enabled and may be interrupted between any  *)
(* two of its accesses to the shared indices, also between finding the     *)
(* buffer empty and executing hlt, so each access is a step of its own.    *)
(***************************************************************************)
EXTENDS Integers, Sequences

CONSTANTS
  KEYBOARD_BUFFER_SIZE,  (* slots of the ring buffer (256 in the code)      *)
  MakeCode,              (* make codes of the keys other than shift         *)
  Char,                  (* the characters of the translation tables        *)
  NUL,                   (* the 0 of a key without a character              *)
  scancode_ascii_lower,  (* the translation table without shift             *)
  scancode_ascii_upper   (* the translation table with shift                *)

ShiftMake == {\h2A, \h36}                      \* left and right shift
BreakCode(make) == make + \h80
LeftShiftBreak == {BreakCode(\h2A)}
ShiftBreak == {BreakCode(s) : s \in ShiftMake}

ASSUME KeyboardAssumption ==
  /\ KEYBOARD_BUFFER_SIZE \in Nat \ {0}
  /\ MakeCode \subseteq (0 .. \h7F) \ ShiftMake
  /\ NUL \notin Char
  /\ scancode_ascii_lower \in [MakeCode -> Char \cup {NUL}]
  /\ scancode_ascii_upper \in [MakeCode -> Char \cup {NUL}]

VARIABLES
  keyboard_buffer,  (* the ring buffer                                      *)
  buffer_head,      (* where the handler writes next                        *)
  buffer_tail,      (* where the reader reads next                          *)
  shift_pressed,    (* the handler's view of the shift keys                 *)
  held,             (* make codes of the shift keys that are down           *)
  typed,            (* history: for every other key, whether it has gone    *)
                    (* down an odd number of times                          *)
  pc,               (* where the reader is in keyboard_getchar              *)
  c,                (* the local of keyboard_getchar                        *)
  returned          (* what keyboard_getchar returned last                  *)

vars ==
  <<keyboard_buffer, buffer_head, buffer_tail, shift_pressed, held, typed,
    pc, c, returned>>

Index == 0 .. KEYBOARD_BUFFER_SIZE - 1
AfterUnwrapped(i) == i + 1
After(i) == (i + 1) % KEYBOARD_BUFFER_SIZE

TypeOK ==
  /\ keyboard_buffer \in [Index -> Char \cup {NUL}]
  /\ buffer_head \in Index
  /\ buffer_tail \in Index
  /\ shift_pressed \in BOOLEAN
  /\ held \in SUBSET ShiftMake
  /\ typed \in [MakeCode -> BOOLEAN]
  /\ pc \in {"caller", "poll", "hlt", "halted", "load", "advance"}
  /\ c \in Char \cup {NUL}
  /\ returned \in Char \cup {NUL}

Init ==
  /\ keyboard_buffer = [i \in Index |-> NUL]
  /\ buffer_head = 0
  /\ buffer_tail = 0
  /\ shift_pressed = FALSE
  /\ held = {}
  /\ typed = [make \in MakeCode |-> FALSE]
  /\ pc = "caller"
  /\ c = NUL
  /\ returned = NUL

-----------------------------------------------------------------------------
(* The interrupt side.                                                      *)

(* Any interrupt ends a hlt: the reader goes back to the loop condition.    *)
Wake == pc' = IF pc = "halted" THEN "poll" ELSE pc

(* (Without the test for a key without a character.) *)
PushCharUntranslated(ch) ==
  IF After(buffer_head) # buffer_tail
    THEN /\ keyboard_buffer' = [keyboard_buffer EXCEPT ![buffer_head] = ch]
         /\ buffer_head' = After(buffer_head)
    ELSE UNCHANGED <<keyboard_buffer, buffer_head>>

(* (Without the test for a full buffer.) *)
PushCharWhenFull(ch) ==
  IF ch # NUL
    THEN /\ keyboard_buffer' = [keyboard_buffer EXCEPT ![buffer_head] = ch]
         /\ buffer_head' = After(buffer_head)
    ELSE UNCHANGED <<keyboard_buffer, buffer_head>>

(* (With a buffer that counts as full one slot too early.) *)
PushCharEarlyFull(ch) ==
  IF /\ ch # NUL
     /\ After(buffer_head) # buffer_tail
     /\ After(After(buffer_head)) # buffer_tail
    THEN /\ keyboard_buffer' = [keyboard_buffer EXCEPT ![buffer_head] = ch]
         /\ buffer_head' = After(buffer_head)
    ELSE UNCHANGED <<keyboard_buffer, buffer_head>>

(* The tail of keyboard_callback: a translated character enters the ring    *)
(* buffer, and is dropped when the buffer is full.                          *)
PushChar(ch) ==
  IF ch # NUL /\ After(buffer_head) # buffer_tail
    THEN /\ keyboard_buffer' = [keyboard_buffer EXCEPT ![buffer_head] = ch]
         /\ buffer_head' = After(buffer_head)
    ELSE UNCHANGED <<keyboard_buffer, buffer_head>>

keyboard_callback(scancode) ==
  \/ /\ scancode \in ShiftMake
     /\ shift_pressed' = TRUE
     /\ UNCHANGED <<keyboard_buffer, buffer_head>>
  \/ /\ scancode \in ShiftBreak
     /\ shift_pressed' = FALSE
     /\ UNCHANGED <<keyboard_buffer, buffer_head>>
  \/ /\ scancode >= \h80
     /\ scancode \notin ShiftBreak
     /\ UNCHANGED <<keyboard_buffer, buffer_head, shift_pressed>>
  \/ /\ scancode \in MakeCode
     /\ PushChar(IF shift_pressed THEN scancode_ascii_upper[scancode]
                                  ELSE scancode_ascii_lower[scancode])
     /\ UNCHANGED shift_pressed

(* IRQ 1: the controller reports one key going down (or repeating) or up.   *)
KeyInterrupt(scancode) ==
  /\ keyboard_callback(scancode)
  /\ Wake
  /\ UNCHANGED <<buffer_tail, c, returned>>

ShiftDown(s) ==
  /\ KeyInterrupt(s)
  /\ held' = held \cup {s}
  /\ UNCHANGED typed

ShiftUp(s) ==
  /\ s \in held
  /\ KeyInterrupt(BreakCode(s))
  /\ held' = held \ {s}
  /\ UNCHANGED typed

KeyDown(make) ==
  /\ KeyInterrupt(make)
  /\ typed' = [typed EXCEPT ![make] = ~ typed[make]]
  /\ UNCHANGED held

KeyUp(make) ==
  /\ KeyInterrupt(BreakCode(make))
  /\ UNCHANGED <<held, typed>>

(* IRQ 0: the timer handler touches nothing of the keyboard driver, but its *)
(* interrupt ends a hlt like any other.                                     *)
TimerOff == UNCHANGED vars
TimerInterrupt ==
  /\ Wake
  /\ UNCHANGED <<keyboard_buffer, buffer_head, buffer_tail, shift_pressed, held,
                 typed, c, returned>>

-----------------------------------------------------------------------------
(* The reader's side.                                                       *)

keyboard_haskey == buffer_head # buffer_tail

ReaderUnchanged ==
  UNCHANGED <<keyboard_buffer, buffer_head, shift_pressed, held, typed>>

(* shell_run is done with the last character and calls keyboard_getchar.    *)
CallGetchar ==
  /\ pc = "caller"
  /\ pc' = "poll"
  /\ UNCHANGED <<buffer_tail, c, returned>>
  /\ ReaderUnchanged

(* The loop condition of keyboard_getchar.                                  *)
Poll ==
  /\ pc = "poll"
  /\ pc' = IF keyboard_haskey THEN "load" ELSE "hlt"
  /\ UNCHANGED <<buffer_tail, c, returned>>
  /\ ReaderUnchanged

Halt ==
  /\ pc = "hlt"
  /\ pc' = "halted"
  /\ UNCHANGED <<buffer_tail, c, returned>>
  /\ ReaderUnchanged

LoadChar ==
  /\ pc = "load"
  /\ c' = keyboard_buffer[buffer_tail]
  /\ pc' = "advance"
  /\ UNCHANGED <<buffer_tail, returned>>
  /\ ReaderUnchanged

(* The slot is freed and the character is returned to the caller.           *)
AdvanceTail ==
  /\ pc = "advance"
  /\ buffer_tail' = After(buffer_tail)
  /\ returned' = c
  /\ pc' = "caller"
  /\ UNCHANGED c
  /\ ReaderUnchanged

Reader == CallGetchar \/ Poll \/ Halt \/ LoadChar \/ AdvanceTail

Next ==
  \/ \E s \in ShiftMake : ShiftDown(s) \/ ShiftUp(s)
  \/ \E make \in MakeCode : KeyDown(make) \/ KeyUp(make)
  \/ TimerInterrupt
  \/ Reader

(***************************************************************************)
(* The user may stop typing at any time.  The timer never stops (the PIT   *)
(* is programmed once and free-runs), and the reader keeps being scheduled *)
(* (module Multitask).                                                     *)
(***************************************************************************)
Spec == Init /\ [][Next]_vars /\ WF_vars(TimerInterrupt) /\ WF_vars(Reader)

-----------------------------------------------------------------------------
(* The characters waiting in the ring buffer, oldest first.                 *)
Count ==
  IF buffer_head >= buffer_tail
    THEN buffer_head - buffer_tail
    ELSE buffer_head + KEYBOARD_BUFFER_SIZE - buffer_tail

Slot(i) ==
  IF buffer_tail + i < KEYBOARD_BUFFER_SIZE
    THEN buffer_tail + i
    ELSE buffer_tail + i - KEYBOARD_BUFFER_SIZE

Contents == [i \in 1 .. Count |-> keyboard_buffer[Slot(i - 1)]]

(* The ring buffer with its two indices implements the abstract queue; one  *)
(* slot stays free, so it holds one character less than it has slots.       *)
Queue == INSTANCE KeyQueue WITH
           Key <- MakeCode, ShiftKey <- ShiftMake,
           plain <- scancode_ascii_lower, shifted <- scancode_ascii_upper,
           Capacity <- KEYBOARD_BUFFER_SIZE - 1, NoChar <- NUL,
           shift <- shift_pressed, queue <- Contents, delivered <- returned

(* Between reading a slot and freeing it the reader may be interrupted by   *)
(* any number of key presses (keyboard.c:97-98); the slot it read must stay *)
(* the oldest one and keep the character it read.                           *)
LoadedCharIsOldest ==
  pc = "advance" => Count > 0 /\ c = keyboard_buffer[buffer_tail]

(* Only characters of the tables are ever waiting: the reader never gets a  *)
(* slot the handler has not filled (keyboard.c:74-78).                      *)
OnlyTypedCharsWait ==
  \A i \in 1 .. Count : Contents[i] \in Char

(* With no shift key down the driver translates without shift: shift cannot *)
(* get stuck, whatever order the two keys went down and up in               *)
(* (keyboard.c:49-56).                                                      *)
ShiftDoesNotStick == held = {} => ~shift_pressed

(* Every behaviour of the driver, seen together with what is typed, is one  *)
(* of the queue: each press of a key queues the character its table has for *)
(* it unless the queue holds KEYBOARD_BUFFER_SIZE - 1 characters, and they  *)
(* come out once each, unaltered and in the order they were typed           *)
(* (docs/keyboard.md:13-18, keyboard.c:49-79, 91-100).                      *)
ImplementsKeyQueue == Queue!Spec

(* A character in the buffer is eventually taken out, although the reader   *)
(* may go to sleep after the handler has filled the buffer                  *)
(* (keyboard.c:93-95).                                                      *)
WaitingCharIsTaken ==
  \A i \in Index : (keyboard_haskey /\ buffer_tail = i) ~> (buffer_tail # i)
=============================================================================
