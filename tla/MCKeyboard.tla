----------------------------- MODULE MCKeyboard -----------------------------
(***************************************************************************)
(* A ring buffer of a few slots, a letter key, the enter key and a         *)
(* function key the tables have no character for.                          *)
(***************************************************************************)
EXTENDS Keyboard, TLC

Letter   == \h1E
Enter    == \h1C
Function == \h3B

MCMakeCode == {Letter, Enter, Function}
MCLower == Letter :> "a" @@ Enter :> "newline" @@ Function :> "NUL"
MCUpper == Letter :> "A" @@ Enter :> "newline" @@ Function :> "NUL"
MCChar == {"a", "A", "newline"}
=============================================================================
