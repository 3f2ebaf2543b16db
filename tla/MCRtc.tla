------------------------------- MODULE MCRtc -------------------------------
(***************************************************************************)
(* Clocks of four registers (seconds, hours, year, century), each counting *)
(* through values on both sides of the conversions' cases.  A clock whose  *)
(* updates may come between any two accesses, and one that leaves time for *)
(* three passes.                                                           *)
(***************************************************************************)
EXTENDS Rtc

Counts(centuries) == << <<0, 1, 9, 10, 19, 59>>, <<0, 9, 11, 12, 23>>, <<69, 70>>, centuries >>

Chip(centuries, binary, h24, gap) ==
  [values |-> Counts(centuries), binary |-> binary, h24 |-> h24, gap |-> gap]

AllChips ==
  {Chip(<<0>>, binary, h24, 2) : binary \in BOOLEAN, h24 \in BOOLEAN}
    \cup {Chip(<<19, 20>>, FALSE, TRUE, 2), Chip(<<0>>, FALSE, FALSE, 15)}

TwelveHourChip == {Chip(<<19, 20>>, FALSE, FALSE, 15)}
=============================================================================
