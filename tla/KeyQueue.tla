------------------------------ MODULE KeyQueue ------------------------------
(***************************************************************************)
(* What the keyboard driver promises the rest of the kernel: a bounded     *)
(* first-in first-out queue of the characters that are typed.  Each time a *)
(* key goes down its character is queued, the shifted one while shift is   *)
(* on; only a key without a character, or one typed while the queue is     *)
(* full, leaves the queue as it is.                                        *)
(*                                                                         *)
(* What the user types is part of the state: every press turns the key's   *)
(* bit in typed over, so no press can pass for a stuttering step.          *)
(***************************************************************************)
EXTENDS Naturals, Sequences

CONSTANTS
  Key,       (* the keys other than shift                                   *)
  ShiftKey,  (* the shift keys                                              *)
  Char,      (* the characters the driver delivers                          *)
  plain,     (* what a key gives without shift: a character or NoChar       *)
  shifted,   (* what it gives with shift                                    *)
  Capacity,  (* how many characters the queue holds                         *)
  NoChar     (* what keyboard_getchar has returned before the first call    *)

VARIABLES
  typed,     (* for every key whether it went down an odd number of times   *)
  held,      (* the shift keys that are down                                *)
  shift,     (* whether the driver takes shift to be on                     *)
  queue,     (* the characters typed and not yet delivered, oldest first    *)
  delivered  (* the character keyboard_getchar returned last                *)

vars == <<typed, held, shift, queue, delivered>>

Init ==
  /\ typed = [k \in Key |-> FALSE]
  /\ held = {}
  /\ shift = FALSE
  /\ queue = <<>>
  /\ delivered = NoChar

(* A shift key goes down, or is held long enough to be reported again.      *)
ShiftOn(s) ==
  /\ held' = held \cup {s}
  /\ shift' = TRUE
  /\ UNCHANGED <<typed, queue, delivered>>

(* The driver has one flag for all shift keys: the first one that goes up   *)
(* ends shift.                                                              *)
ShiftOff(s) ==
  /\ s \in held
  /\ held' = held \ {s}
  /\ shift' = FALSE
  /\ UNCHANGED <<typed, queue, delivered>>

Translation(k) == IF shift THEN shifted[k] ELSE plain[k]

(* The interrupt side: a key goes down.                                     *)
Press(k) ==
  /\ typed' = [typed EXCEPT ![k] = ~ typed[k]]
  /\ queue' = IF Translation(k) # NoChar /\ Len(queue) < Capacity
                THEN Append(queue, Translation(k))
                ELSE queue
  /\ UNCHANGED <<held, shift, delivered>>

(* The reader's side: the oldest character is delivered.                    *)
Get ==
  /\ queue # <<>>
  /\ delivered' = Head(queue)
  /\ queue' = Tail(queue)
  /\ UNCHANGED <<typed, held, shift>>

Next ==
  \/ \E s \in ShiftKey : ShiftOn(s) \/ ShiftOff(s)
  \/ \E k \in Key : Press(k)
  \/ Get

Spec == Init /\ [][Next]_vars
=============================================================================
