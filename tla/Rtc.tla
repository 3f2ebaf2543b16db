-------------------------------- MODULE Rtc --------------------------------
(***************************************************************************)
(* drivers/rtc.c: rtc_get_time reads the registers of the battery-backed   *)
(* clock one port access at a time, while the clock goes on.               *)
(*                                                                         *)
(* The clock is the external part: an update sets the flag "update in      *)
(* progress", steps the first register to its next value, goes on to the   *)
(* next register when the first has wrapped, and clears the flag.          *)
(***************************************************************************)
EXTENDS Integers, Sequences

CONSTANTS
  Chips,    (* the clocks the machine may have:                             *)
            (*   values, the values each register counts through, in order; *)
            (*   binary and h24, bits 2 and 1 of register B;                *)
            (*   gap, the least number of accesses rtc_get_time makes       *)
            (*   between two updates (a second is far longer than a pass,   *)
            (*   but the reader may be preempted)                           *)
  HOUR,     (* the position of the hour among the registers read            *)
  YEAR,     (* of the year                                                  *)
  CENTURY   (* of the century: the last one read                            *)

Byte == 0 .. 255

ASSUME RtcAssumption ==
  /\ HOUR \in 1 .. YEAR - 1
  /\ CENTURY = YEAR + 1
  /\ YEAR \in Nat
  /\ \A c \in Chips :
       /\ c.values \in [1 .. CENTURY -> Seq(0 .. 99)]
       /\ \A r \in 1 .. CENTURY : c.values[r] # <<>>
       /\ \A i \in DOMAIN c.values[HOUR] : c.values[HOUR][i] < 24
       /\ c.binary \in BOOLEAN
       /\ c.h24 \in BOOLEAN
       /\ c.gap \in Nat

Register == 1 .. CENTURY

VARIABLES
  chip,
  clock,     (* clock[r]: the position of register r in its values          *)
  update,    (* the register an update is about to step, 0 between updates  *)
  accesses,  (* of rtc_get_time since the last update, counted up to gap    *)
  pc,
  time,      (* the registers read in this pass                             *)
  last,      (* those of the pass before                                    *)
  start,     (* the clock when this call, and then this pass, began          *)
  date       (* what rtc_get_time returned, until the next call              *)

clockVars == <<chip, clock, update>>
readVars == <<pc, time, last, start, date>>
vars == <<clockVars, accesses, readVars>>

Clock ==
  {c \in [Register -> UNION {DOMAIN chip.values[r] : r \in Register}] :
     \A r \in Register : c[r] \in DOMAIN chip.values[r]}

-----------------------------------------------------------------------------
(* The clock.                                                               *)
UpdateBegins ==
  /\ update = 0
  /\ pc = "shell" \/ accesses >= chip.gap
  /\ update' = 1
  /\ UNCHANGED <<chip, clock, accesses, readVars>>

Step ==
  /\ update # 0
  /\ LET wraps == clock[update] = Len(chip.values[update])
     IN  /\ clock' = [clock EXCEPT ![update] = IF wraps THEN 1 ELSE @ + 1]
         /\ update' = IF wraps /\ update < CENTURY THEN update + 1 ELSE 0
  /\ accesses' = 0
  /\ UNCHANGED <<chip, readVars>>

(* How the clock shows a number, and how it shows the hour: in 12-hour mode *)
(* as 12, 1 .. 11 with bit 7 set in the afternoon.                          *)
Shown(n) == IF chip.binary THEN n ELSE 16 * (n \div 10) + (n % 10)

Contents(r) ==
  LET n == chip.values[r][clock[r]]
  IN  IF r = HOUR /\ ~chip.h24
        THEN Shown(((n + 11) % 12) + 1) + 128 * (n \div 12)
        ELSE Shown(n)

-----------------------------------------------------------------------------
(* rtc_get_time.                                                            *)
Access ==
  /\ accesses' = IF accesses < chip.gap THEN accesses + 1 ELSE accesses
  /\ UNCHANGED clockVars

rtc_get_time ==
  /\ pc = "shell"
  /\ pc' = "wait"
  /\ start' = clock
  /\ date' = <<>>
  /\ UNCHANGED <<clockVars, accesses, time, last>>

(* It polls the flag until it is clear.                                     *)
get_update_in_progress_flag ==
  /\ pc = "wait"
  /\ update = 0
  /\ pc' = "read"
  /\ start' = clock
  /\ UNCHANGED <<time, last, date>>
  /\ Access

get_rtc_register ==
  /\ pc = "read"
  /\ Len(time) < CENTURY
  /\ time' = Append(time, Contents(Len(time) + 1))
  /\ UNCHANGED <<pc, last, start, date>>
  /\ Access

(* (One pass is enough.) *)
AcceptFirst ==
  /\ pc = "read"
  /\ Len(time) = CENTURY
  /\ pc' = "registerB"
  /\ UNCHANGED <<clockVars, accesses, time, last, start, date>>

(* (Every pass is compared with the first.) *)
CompareWithFirst ==
  /\ pc = "read"
  /\ Len(time) = CENTURY
  /\ pc' = IF last = time THEN "registerB" ELSE "wait"
  /\ time' = IF last = time THEN time ELSE <<>>
  /\ last' = IF last = <<>> THEN time ELSE last
  /\ UNCHANGED <<clockVars, accesses, start, date>>

(* Another pass, after the first and until two passes in a row agree.       *)
Compare ==
  /\ pc = "read"
  /\ Len(time) = CENTURY
  /\ IF last = time
       THEN /\ pc' = "registerB"
            /\ UNCHANGED <<time, last>>
       ELSE /\ pc' = "wait"
            /\ last' = time
            /\ time' = <<>>
  /\ UNCHANGED <<clockVars, accesses, start, date>>

(* The numbers the registers stand for; an hour keeps its bit 7.            *)
Number(r) ==
  LET b == time[r]
  IN  IF chip.binary THEN b
      ELSE IF r = HOUR THEN (b % 16) + 10 * ((b % 128) \div 16) + 128 * (b \div 128)
      ELSE (b % 16) + 10 * (b \div 16)

(* (24 o'clock.) *)
HourNotReduced(h) == IF ~chip.h24 /\ h >= 128 THEN (h % 128) + 12 ELSE h

Hour(h) == IF ~chip.h24 /\ h >= 128 THEN ((h % 128) + 12) % 24 ELSE h

Year(y, century) ==
  IF century # 0 THEN y + century * 100 ELSE y + IF y > 69 THEN 1900 ELSE 2000

Converted ==
  [r \in 1 .. YEAR |->
     CASE r = HOUR -> Hour(Number(r))
       [] r = YEAR -> Year(Number(r), Number(CENTURY))
       [] OTHER    -> Number(r)]

Return ==
  /\ pc = "registerB"
  /\ date' = Converted
  /\ pc' = "shell"
  /\ time' = <<>>
  /\ last' = <<>>
  /\ UNCHANGED start
  /\ Access

Init ==
  /\ chip \in Chips
  /\ clock \in Clock
  /\ update = 0
  /\ accesses = 0
  /\ pc = "shell"
  /\ time = <<>>
  /\ last = <<>>
  /\ start = clock
  /\ date = <<>>

Reader ==
  get_update_in_progress_flag \/ get_rtc_register \/ Compare \/ Return

Next == UpdateBegins \/ Step \/ rtc_get_time \/ Reader

(* An update ends, and the shell, once it has called, runs again.           *)
Spec == Init /\ [][Next]_vars /\ WF_vars(Step) /\ WF_vars(Reader)

-----------------------------------------------------------------------------
TypeOK ==
  /\ chip \in Chips
  /\ clock \in [Register -> Nat] /\ start \in [Register -> Nat]
  /\ \A r \in Register : {clock[r], start[r]} \subseteq DOMAIN chip.values[r]
  /\ update \in 0 .. CENTURY
  /\ accesses \in 0 .. chip.gap
  /\ pc \in {"shell", "wait", "read", "registerB"}
  /\ time \in Seq(Byte) /\ Len(time) <= CENTURY
  /\ last \in Seq(Byte) /\ Len(last) \in {0, CENTURY}
  /\ date # <<>> => /\ date \in [1 .. YEAR -> Nat]
                    /\ date[HOUR] < 24
                    /\ \A r \in 1 .. YEAR - 1 : date[r] < 100

(* The date and time of day a clock stands for; one without a century       *)
(* counts from 1970 to 2069.                                                *)
Meaning(c) ==
  LET value(r) == chip.values[r][c[r]]
  IN  [r \in 1 .. YEAR |->
         IF r # YEAR THEN value(r)
         ELSE IF value(CENTURY) # 0 THEN 100 * value(CENTURY) + value(YEAR)
         ELSE CHOOSE y \in 1970 .. 2069 : y % 100 = value(YEAR)]

(* The date is one the clock showed: the whole of it, at the moment the     *)
(* last pass began, although updates come between the accesses and ripple   *)
(* through the registers during a pass, and whatever format the clock keeps *)
(* it in (rtc.c:26-56, 60-80).  Twelve o'clock in 12-hour mode is left to   *)
(* TwelveHourClock.                                                         *)
TwelveOClock(c) == ~chip.h24 /\ chip.values[HOUR][c[HOUR]] \in {0, 12}

DateIsOnePointInTime ==
  pc = "shell" /\ date # <<>> /\ ~TwelveOClock(start) => date = Meaning(start)

(* rtc_get_time returns, although its loop starts again whenever the clock  *)
(* moved, when three passes fit between two updates (rtc.c:36-56).          *)
Answers ==
  (pc # "shell" /\ chip.gap >= 3 * (CENTURY + 1)) ~> (pc = "shell")

(* docs/drivers.md:11: "Manages 12-hour vs 24-hour clock conversions."      *)
TwelveHourClock ==
  pc = "shell" /\ date # <<>> => date[HOUR] = Meaning(start)[HOUR]
=============================================================================
