----------------------------- MODULE RtcProofs -----------------------------
(***************************************************************************)
(* The date rtc_get_time returns, for every clock: the conversions never   *)
(* leave the range of their field, whatever an update left in a pass; and  *)
(* two passes that agree show one moment of the clock, as long as the      *)
(* seconds do not come round meanwhile.                                    *)
(***************************************************************************)
EXTENDS Rtc, SequenceTheorems, TLAPS

(* What the clock shows in register r for the number n.                     *)
Code(r, n) ==
  IF r = HOUR /\ ~chip.h24
    THEN Shown(((n + 11) % 12) + 1) + (128 * (n \div 12))
    ELSE Shown(n)

ChipInv ==
  /\ chip \in Chips
  /\ clock \in [Register -> Nat] /\ start \in [Register -> Nat]
  /\ \A r \in Register : {clock[r], start[r]} \subseteq DOMAIN chip.values[r]
  /\ update \in 0 .. CENTURY
  /\ accesses \in 0 .. chip.gap

(* Every register read is a number of its register as the clock shows it.   *)
PassInv ==
  /\ pc \in {"shell", "wait", "read", "registerB"}
  /\ time \in Seq(Byte) /\ Len(time) <= CENTURY
  /\ last \in Seq(Byte) /\ Len(last) \in {0, CENTURY}
  /\ pc = "registerB" => Len(time) = CENTURY
  /\ \A r \in DOMAIN time :
       \E k \in DOMAIN chip.values[r] : time[r] = Code(r, chip.values[r][k])

DateInv ==
  date # <<>> => /\ date \in [1 .. YEAR -> Nat]
                 /\ date[HOUR] < 24
                 /\ \A r \in 1 .. YEAR - 1 : date[r] < 100

IInv == ChipInv /\ PassInv /\ DateInv

-----------------------------------------------------------------------------
LEMMA Constants ==
  /\ YEAR \in Nat /\ CENTURY = YEAR + 1 /\ HOUR \in 1 .. YEAR - 1
  /\ \A c \in Chips : \A r \in Register :
       /\ c.values[r] \in Seq(0 .. 99)
       /\ c.values[r] # <<>>
       /\ Len(c.values[r]) \in Nat \ {0}
       /\ DOMAIN c.values[r] = 1 .. Len(c.values[r])
       /\ \A k \in DOMAIN c.values[r] :
            /\ c.values[r][k] \in 0 .. 99
            /\ r = HOUR => c.values[r][k] \in 0 .. 23
<1>1. YEAR \in Nat /\ CENTURY = YEAR + 1 /\ HOUR \in 1 .. YEAR - 1
  BY RtcAssumption
<1>2. ASSUME NEW c \in Chips, NEW r \in Register
      PROVE  /\ c.values[r] \in Seq(0 .. 99)
             /\ c.values[r] # <<>>
             /\ Len(c.values[r]) \in Nat \ {0}
             /\ DOMAIN c.values[r] = 1 .. Len(c.values[r])
             /\ \A k \in DOMAIN c.values[r] :
                  /\ c.values[r][k] \in 0 .. 99
                  /\ r = HOUR => c.values[r][k] \in 0 .. 23
  <2>1. c.values[r] \in Seq(0 .. 99) /\ c.values[r] # <<>>
    BY RtcAssumption DEF Register
  <2>2. /\ Len(c.values[r]) \in Nat \ {0}
        /\ DOMAIN c.values[r] = 1 .. Len(c.values[r])
        /\ \A k \in DOMAIN c.values[r] : c.values[r][k] \in 0 .. 99
    BY <2>1, EmptySeq, LenProperties, ElementOfSeq
  <2>3. ASSUME NEW k \in DOMAIN c.values[r], r = HOUR PROVE c.values[r][k] \in 0 .. 23
    <3>1. c.values[r][k] < 24
      BY <2>3, RtcAssumption
    <3>2. c.values[r][k] \in 0 .. 99
      BY <2>2
    <3> QED  BY <3>1, <3>2
  <2> QED  BY <2>1, <2>2, <2>3
<1> QED  BY <1>1, <1>2

(* A number, and an hour in 12-hour mode, is a byte on the clock.           *)
LEMMA CodeIsByte ==
  ASSUME NEW r, NEW n \in 0 .. 99, r = HOUR => n \in 0 .. 23
  PROVE  Code(r, n) \in Byte
BY DEF Code, Shown, Byte

(* And the number is found again.                                           *)
LEMMA NumberOfCode ==
  ASSUME NEW r, NEW n \in 0 .. 99, r = HOUR => n \in 0 .. 23, time[r] = Code(r, n)
  PROVE  Number(r) = IF r = HOUR /\ ~chip.h24
                       THEN ((n + 11) % 12) + 1 + (128 * (n \div 12)) ELSE n
<1>1. CASE r # HOUR \/ chip.h24
  BY <1>1 DEF Number, Code, Shown
<1>2. CASE r = HOUR /\ ~chip.h24
  <2> DEFINE m == ((n + 11) % 12) + 1
             p == n \div 12
  <2>1. m \in 1 .. 12 /\ p \in 0 .. 1
    BY <1>2
  <2>2. time[r] = Shown(m) + (128 * p)
    BY <1>2 DEF Code
  <2> HIDE DEF m, p
  <2>3. Number(r) = m + (128 * p)
    <3>1. CASE chip.binary
      BY <2>1, <2>2, <3>1 DEF Number, Shown
    <3>2. CASE ~chip.binary
      <4>1. PICK d \in 0 .. 1 : Shown(m) = (6 * d) + m /\ m - (10 * d) \in 0 .. 9
        BY <2>1, <3>2 DEF Shown
      <4>2. time[r] = (16 * d) + (m - (10 * d)) + (128 * p)
        BY <2>1, <2>2, <4>1
      <4>3. /\ time[r] % 16 = m - (10 * d)
            /\ (time[r] % 128) \div 16 = d
            /\ time[r] \div 128 = p
        BY <2>1, <4>1, <4>2
      <4> QED  BY <1>2, <2>1, <3>2, <4>1, <4>3 DEF Number
    <3> QED  BY <3>1, <3>2
  <2> QED  BY <1>2, <2>3 DEF m, p
<1> QED  BY <1>1, <1>2

LEMMA ContentsIsCode ==
  ASSUME IInv, NEW r \in Register
  PROVE  /\ Contents(r) \in Byte
         /\ \E k \in DOMAIN chip.values[r] : Contents(r) = Code(r, chip.values[r][k])
<1>1. clock[r] \in DOMAIN chip.values[r]
  BY DEF IInv, ChipInv
<1>2. Contents(r) = Code(r, chip.values[r][clock[r]])
  BY DEF Contents, Code
<1>3. /\ chip.values[r][clock[r]] \in 0 .. 99
      /\ r = HOUR => chip.values[r][clock[r]] \in 0 .. 23
  BY <1>1, Constants DEF IInv, ChipInv
<1> QED  BY <1>1, <1>2, <1>3, CodeIsByte

-----------------------------------------------------------------------------
LEMMA InitIInv == Init => IInv
<1> SUFFICES ASSUME Init PROVE IInv
  OBVIOUS
<1>1. clock \in [Register -> Nat] /\ \A r \in Register : clock[r] \in DOMAIN chip.values[r]
  <2>1. clock \in Clock /\ chip \in Chips
    BY DEF Init
  <2>2. \A r \in Register : DOMAIN chip.values[r] \subseteq Nat
    BY <2>1, Constants
  <2> QED  BY <2>1, <2>2 DEF Clock
<1>2. chip.gap \in Nat
  BY RtcAssumption DEF Init
<1> QED  BY <1>1, <1>2, Constants DEF Init, IInv, ChipInv, PassInv, DateInv, Register

(* An update leaves what was read and what was returned alone.              *)
LEMMA ClockStep == ASSUME IInv, UpdateBegins \/ Step PROVE IInv'
<1>1. UNCHANGED <<chip, readVars>>
  BY DEF UpdateBegins, Step
<1>2. PassInv' /\ DateInv'
  BY <1>1 DEF IInv, PassInv, DateInv, readVars, Code, Shown
<1>3. CASE UpdateBegins
  BY <1>1, <1>2, <1>3, Constants DEF UpdateBegins, IInv, ChipInv, readVars
<1>4. CASE Step
  <2>1. update \in Register
    BY <1>4, Constants DEF Step, IInv, ChipInv, Register
  <2>2. PICK v \in DOMAIN chip.values[update] : clock' = [clock EXCEPT ![update] = v]
    <3>1. /\ clock[update] \in 1 .. Len(chip.values[update])
          /\ DOMAIN chip.values[update] = 1 .. Len(chip.values[update])
          /\ Len(chip.values[update]) \in Nat \ {0}
      BY <2>1, Constants DEF IInv, ChipInv
    <3> DEFINE v == IF clock[update] = Len(chip.values[update]) THEN 1 ELSE clock[update] + 1
    <3>2. v \in DOMAIN chip.values[update]
      BY <3>1
    <3>3. clock' = [clock EXCEPT ![update] = v]
      BY <1>4 DEF Step
    <3> QED  BY <3>2, <3>3
  <2>3. v \in Nat
    BY <2>1, <2>2, Constants DEF IInv, ChipInv
  <2>4. update' \in 0 .. CENTURY /\ accesses' \in 0 .. chip.gap
    <3>1. update' = 0 \/ (update' = update + 1 /\ update < CENTURY)
      BY <1>4 DEF Step
    <3>2. chip.gap \in Nat /\ accesses' = 0
      BY <1>4, RtcAssumption DEF Step, IInv, ChipInv
    <3> QED  BY <2>1, <3>1, <3>2, Constants DEF Register
  <2> QED
    BY <1>1, <1>2, <2>1, <2>2, <2>3, <2>4 DEF IInv, ChipInv, readVars
<1> QED  BY <1>3, <1>4

LEMMA AccessCounts == ASSUME IInv, Access, UNCHANGED start PROVE ChipInv'
<1>1. chip.gap \in Nat
  BY RtcAssumption DEF IInv, ChipInv
<1> QED  BY <1>1 DEF Access, clockVars, IInv, ChipInv

LEMMA CallStep == ASSUME IInv, rtc_get_time PROVE IInv'
BY DEF rtc_get_time, clockVars, IInv, ChipInv, PassInv, DateInv, Code, Shown

LEMMA WaitStep == ASSUME IInv, get_update_in_progress_flag PROVE IInv'
<1>1. chip.gap \in Nat
  BY RtcAssumption DEF IInv, ChipInv
<1> QED
  BY <1>1 DEF get_update_in_progress_flag, Access, clockVars, IInv, ChipInv, PassInv,
              DateInv, Code, Shown

LEMMA ReadStep == ASSUME IInv, get_rtc_register PROVE IInv'
<1>1. ChipInv' /\ UNCHANGED <<chip, pc, last, date>>
  BY AccessCounts DEF get_rtc_register, Access, clockVars
<1> DEFINE n == Len(time) + 1
<1>2. n \in Register /\ time' = Append(time, Contents(n)) /\ time \in Seq(Byte)
  BY LenProperties, Constants DEF get_rtc_register, IInv, PassInv, Register
<1>3. /\ Contents(n) \in Byte
      /\ \E k \in DOMAIN chip.values[n] : Contents(n) = Code(n, chip.values[n][k])
  BY <1>2, ContentsIsCode
<1> HIDE DEF n
<1>4. /\ time' \in Seq(Byte) /\ Len(time') = n
      /\ DOMAIN time' = DOMAIN time \cup {n}
      /\ time'[n] = Contents(n)
      /\ \A r \in DOMAIN time : time'[r] = time[r] /\ r # n
  BY <1>2, <1>3, LenProperties, AppendProperties DEF n
<1>5. \A r \in DOMAIN time' :
        \E k \in DOMAIN chip.values[r] : time'[r] = Code(r, chip.values[r][k])
  BY <1>3, <1>4 DEF IInv, PassInv
<1>6. PassInv'
  BY SMTT(30), <1>1, <1>2, <1>4, <1>5, Constants
     DEF get_rtc_register, IInv, PassInv, Code, Shown, Register
<1> QED  BY <1>1, <1>6 DEF IInv, DateInv

LEMMA CompareStep == ASSUME IInv, Compare PROVE IInv'
<1>1. UNCHANGED <<chip, clock, update, accesses, start, date>>
  BY DEF Compare, clockVars
<1>2. <<>> \in Seq(Byte) /\ Len(<<>>) = 0 /\ DOMAIN <<>> = {}
  BY EmptySeq
<1>3. Len(time) = CENTURY /\ pc' \in {"registerB", "wait"}
  BY DEF Compare
<1>4. \/ UNCHANGED <<time, last>>
      \/ pc' = "wait" /\ last' = time /\ time' = <<>>
  BY DEF Compare
<1>5. PassInv'
  <2>1. CASE UNCHANGED <<time, last>>
    BY <1>1, <1>3, <2>1 DEF IInv, PassInv, Code, Shown
  <2>2. CASE pc' = "wait" /\ last' = time /\ time' = <<>>
    BY <1>1, <1>2, <1>3, <2>2, Constants DEF IInv, PassInv
  <2> QED  BY <1>4, <2>1, <2>2
<1> QED  BY <1>1, <1>5 DEF IInv, ChipInv, DateInv

(* The conversions.                                                         *)
LEMMA ReturnStep == ASSUME IInv, Return PROVE IInv'
<1>1. ChipInv' /\ UNCHANGED chip
  BY AccessCounts DEF Return, Access, clockVars
<1>2. PassInv'
  <2>1. <<>> \in Seq(Byte) /\ Len(<<>>) = 0 /\ DOMAIN <<>> = {}
    BY EmptySeq
  <2>2. time' = <<>> /\ last' = <<>> /\ pc' = "shell"
    BY DEF Return
  <2> QED  BY <2>1, <2>2, Constants DEF PassInv
<1>3. DOMAIN time = Register
  BY LenProperties DEF Return, IInv, PassInv, Register
<1>4. ASSUME NEW r \in Register, r # HOUR PROVE Number(r) \in 0 .. 99
  <2>1. PICK k \in DOMAIN chip.values[r] : time[r] = Code(r, chip.values[r][k])
    BY <1>3 DEF IInv, PassInv
  <2>2. chip.values[r][k] \in 0 .. 99
    BY Constants DEF IInv, ChipInv
  <2> QED  BY <1>4, <2>1, <2>2, NumberOfCode
<1>5. Hour(Number(HOUR)) \in 0 .. 23
  <2>0. HOUR \in Register
    BY Constants DEF Register
  <2>1. PICK k \in DOMAIN chip.values[HOUR] : time[HOUR] = Code(HOUR, chip.values[HOUR][k])
    BY <1>3, <2>0 DEF IInv, PassInv
  <2>2. chip.values[HOUR][k] \in 0 .. 23
    BY <2>0, Constants DEF IInv, ChipInv
  <2> DEFINE n == chip.values[HOUR][k]
             m == ((n + 11) % 12) + 1
             p == n \div 12
  <2>3. Number(HOUR) = IF ~chip.h24 THEN m + (128 * p) ELSE n
    BY <2>1, <2>2, NumberOfCode
  <2>4. n \in 0 .. 23 /\ m \in 1 .. 12 /\ p \in 0 .. 1
    BY <2>2
  <2> HIDE DEF n, m, p
  <2> QED  BY <2>3, <2>4 DEF Hour
<1>6. /\ Converted \in [1 .. YEAR -> Nat]
      /\ Converted[HOUR] < 24
      /\ \A r \in 1 .. YEAR - 1 : Converted[r] < 100
  <2>1. \A r \in 1 .. YEAR : r \in Register
    BY Constants DEF Register
  <2>2. CENTURY \in Register /\ CENTURY # HOUR /\ YEAR # HOUR /\ YEAR \in Register
    BY Constants DEF Register
  <2>3. Year(Number(YEAR), Number(CENTURY)) \in Nat
    <3>1. Number(YEAR) \in 0 .. 99 /\ Number(CENTURY) \in 0 .. 99
      BY <1>4, <2>2
    <3> DEFINE y == Number(YEAR)
               century == Number(CENTURY)
    <3>2. y \in Nat /\ century \in Nat
      BY <3>1
    <3> HIDE DEF y, century
    <3>3. Year(y, century) \in Nat
      BY <3>2 DEF Year
    <3> QED  BY <3>3 DEF y, century
  <2>4. \A r \in 1 .. YEAR :
          Converted[r] = IF r = HOUR THEN Hour(Number(r))
                         ELSE IF r = YEAR THEN Year(Number(r), Number(CENTURY))
                         ELSE Number(r)
    BY <2>2 DEF Converted
  <2>5. \A r \in 1 .. YEAR : Converted[r] \in Nat /\ (r # YEAR => Converted[r] < 100)
    BY <1>4, <1>5, <2>1, <2>2, <2>3, <2>4
  <2>6. HOUR \in 1 .. YEAR /\ \A r \in 1 .. YEAR - 1 : r \in 1 .. YEAR /\ r # YEAR
    BY Constants
  <2>7. Converted \in [1 .. YEAR -> Nat]
    <3>1. Converted = [r \in 1 .. YEAR |-> Converted[r]]
      BY DEF Converted
    <3> QED  BY <2>5, <3>1
  <2> QED  BY SMTT(30), <1>5, <2>4, <2>5, <2>6, <2>7
<1>7. DateInv'
  BY <1>6 DEF Return, DateInv
<1> QED  BY <1>1, <1>2, <1>7 DEF IInv

LEMMA Invariance == Spec => []IInv
<1>1. IInv /\ [Next]_vars => IInv'
  <2> SUFFICES ASSUME IInv, [Next]_vars PROVE IInv'
    OBVIOUS
  <2>1. CASE UNCHANGED vars
    BY <2>1 DEF vars, clockVars, readVars, IInv, ChipInv, PassInv, DateInv, Code, Shown
  <2> QED
    BY <2>1, ClockStep, CallStep, WaitStep, ReadStep, CompareStep, ReturnStep
       DEF Next, Reader
<1> QED  BY <1>1, InitIInv, PTL DEF Spec

(* For every clock, in every format, an hour of the date is less than 24    *)
(* and the other numbers but the year less than 100 (rtc.c:60-72).          *)
THEOREM TypeCorrect == Spec => []TypeOK
<1>1. IInv => TypeOK
  BY DEF IInv, ChipInv, PassInv, DateInv, TypeOK
<1> QED  BY <1>1, Invariance, PTL

-----------------------------------------------------------------------------
LEMMA HourOfCode ==
  ASSUME NEW n \in 0 .. 23, time[HOUR] = Code(HOUR, n), chip.h24 \/ n \notin {0, 12}
  PROVE  Hour(Number(HOUR)) = n
<1> DEFINE m == ((n + 11) % 12) + 1
           p == n \div 12
<1>1. Number(HOUR) = IF ~chip.h24 THEN m + (128 * p) ELSE n
  BY NumberOfCode
<1>2. n \notin {0, 12} => p \in 0 .. 1 /\ n = m + (12 * p) /\ m \in 1 .. 11
  OBVIOUS
<1> HIDE DEF m, p
<1> QED  BY <1>1, <1>2 DEF Hour

LEMMA YearOfCode ==
  ASSUME NEW y \in 0 .. 99, NEW century \in 0 .. 99
  PROVE  Year(y, century) = IF century # 0 THEN (100 * century) + y
                            ELSE CHOOSE k \in 1970 .. 2069 : k % 100 = y
<1>1. CASE century # 0
  BY <1>1 DEF Year
<1>2. CASE century = 0
  <2> DEFINE k == Year(y, century)
  <2>1. k \in 1970 .. 2069 /\ k % 100 = y
    BY <1>2 DEF Year
  <2>2. \A l \in 1970 .. 2069 : l % 100 = y => l = k
    BY <1>2 DEF Year
  <2> HIDE DEF k
  <2>3. (CHOOSE l \in 1970 .. 2069 : l % 100 = y) = k
    BY <2>1, <2>2
  <2> QED  BY <1>2, <2>3 DEF k
<1> QED  BY <1>1, <1>2

(* What a register shows at some moment of the clock.                       *)
ShownBy(c, r) == Code(r, chip.values[r][c[r]])

(* For every clock, in every format: registers that show one moment of the  *)
(* clock are converted to the date and time of day the clock stands for,  *)
(* with the exception of twelve o'clock in 12-hour mode (rtc.c:60-80).      *)
THEOREM ConversionCorrect ==
  ASSUME chip \in Chips,
         NEW c, \A r \in Register : c[r] \in DOMAIN chip.values[r],
         \A r \in Register : time[r] = ShownBy(c, r),
         ~TwelveOClock(c)
  PROVE  Converted = Meaning(c)
<1> DEFINE value(r) == chip.values[r][c[r]]
<1>1. /\ HOUR \in Register /\ YEAR \in Register /\ CENTURY \in Register
      /\ YEAR # HOUR /\ CENTURY # HOUR /\ \A r \in 1 .. YEAR : r \in Register
  BY Constants DEF Register
<1>2. \A r \in Register : /\ time[r] = Code(r, value(r))
                          /\ value(r) \in 0 .. 99
                          /\ r = HOUR => value(r) \in 0 .. 23
  BY Constants DEF ShownBy
<1>3. \A r \in Register : r # HOUR => Number(r) = value(r)
  BY <1>2, NumberOfCode
<1>4. Hour(Number(HOUR)) = value(HOUR)
  <2>1. chip.h24 \/ value(HOUR) \notin {0, 12}
    BY DEF TwelveOClock
  <2>2. time[HOUR] = Code(HOUR, value(HOUR)) /\ value(HOUR) \in 0 .. 23
    BY <1>1, <1>2
  <2> HIDE DEF value
  <2> QED  BY <2>1, <2>2, HourOfCode
<1>5. Year(Number(YEAR), Number(CENTURY)) =
        IF value(CENTURY) # 0 THEN (100 * value(CENTURY)) + value(YEAR)
        ELSE CHOOSE k \in 1970 .. 2069 : k % 100 = value(YEAR)
  <2>1. /\ Number(YEAR) = value(YEAR) /\ value(YEAR) \in 0 .. 99
        /\ Number(CENTURY) = value(CENTURY) /\ value(CENTURY) \in 0 .. 99
    BY <1>1, <1>2, <1>3
  <2> DEFINE y == value(YEAR)
             century == value(CENTURY)
  <2>2. Year(y, century) = IF century # 0 THEN (100 * century) + y
                           ELSE CHOOSE k \in 1970 .. 2069 : k % 100 = y
    <3> HIDE DEF y, century
    <3>1. y \in 0 .. 99 /\ century \in 0 .. 99
      BY <2>1 DEF y, century
    <3> QED  BY <3>1, YearOfCode
  <2> QED  BY <2>1, <2>2
<1> HIDE DEF value
<1>6. \A r \in 1 .. YEAR : Converted[r] = Meaning(c)[r]
  <2>1. ASSUME NEW r \in 1 .. YEAR PROVE Converted[r] = Meaning(c)[r]
    <3>1. Converted[r] = CASE r = HOUR -> Hour(Number(r))
                           [] r = YEAR -> Year(Number(r), Number(CENTURY))
                           [] OTHER    -> Number(r)
      BY DEF Converted
    <3>2. Meaning(c)[r] =
            IF r # YEAR THEN value(r)
            ELSE IF value(CENTURY) # 0 THEN (100 * value(CENTURY)) + value(YEAR)
            ELSE CHOOSE k \in 1970 .. 2069 : k % 100 = value(YEAR)
      BY DEF Meaning, value
    <3>3. CASE r = HOUR
      BY <1>1, <1>4, <3>1, <3>2, <3>3
    <3>4. CASE r = YEAR
      BY <1>1, <1>5, <3>1, <3>2, <3>4
    <3>5. CASE r # HOUR /\ r # YEAR
      BY <1>1, <1>3, <3>1, <3>2, <3>5
    <3> QED  BY <3>3, <3>4, <3>5
  <2> QED  BY <2>1
<1> QED  BY <1>6 DEF Converted, Meaning

-----------------------------------------------------------------------------
(* Two passes end before the register of the seconds has come round: the    *)
(* clock counts distinct values in it, and makes a pause after each.        *)
SecondsOutlastTwoPasses ==
  \A c \in Chips :
    /\ \A k, l \in DOMAIN c.values[1] : c.values[1][k] = c.values[1][l] => k = l
    /\ 2 * CENTURY < c.gap * (Len(c.values[1]) - 1)

(* The positions of the seconds in circular order, and what is shown there. *)
Around == Len(chip.values[1])
After(a, d) == IF a + d <= Around THEN a + d ELSE a + d - Around
Seconds(k) == Code(1, chip.values[1][k])

(* Of n accesses since a moment, d steps of the seconds.                    *)
Paced(d, n) ==
  /\ chip.gap * d <= n + chip.gap
  /\ update = 0 => (chip.gap * d) + accesses <= n + chip.gap
  /\ update = 1 => chip.gap * (d + 1) <= n + chip.gap

(* The pass being read, since the seconds were read at position a: unless   *)
(* a carry may have been on its way, it shows the clock until the next step.*)
TimeInv(a, d) ==
  /\ time[1] = Seconds(a)
  /\ clock[1] = After(a, d)
  /\ Paced(d, Len(time) - 1)
  /\ a # 1 /\ d = 0 => \A r \in DOMAIN time : time[r] = Contents(r)

(* The pass before: the same until this pass begins, ...                    *)
WaitInv(a, d) ==
  /\ last[1] = Seconds(a)
  /\ clock[1] = After(a, d)
  /\ Paced(d, CENTURY - 1)
  /\ a # 1 /\ d = 0 => \A r \in Register : last[r] = Contents(r)

(* ... s steps of the seconds later.  A clock whose seconds started again   *)
(* before does not carry once more during this pass.                        *)
ReadInv(a, d, s) ==
  /\ last[1] = Seconds(a)
  /\ clock[1] = After(a, d)
  /\ Paced(d, CENTURY + Len(time))
  /\ start[1] = After(a, s)
  /\ a # 1 /\ s = 0 => \A r \in Register : last[r] = ShownBy(start, r)
  /\ time # <<>> => \E m \in s .. d : time[1] = Seconds(After(a, m))
  /\ a = 1 /\ s = 0 =>
       /\ update <= 1
       /\ \A r \in Register \ {1} :
            /\ clock[r] = start[r]
            /\ r \in DOMAIN time => time[r] = ShownBy(start, r)

PointInv ==
  /\ update > 1 => clock[1] = 1
  /\ pc = "read" /\ time # <<>> =>
       \E a \in 1 .. Around, d \in 0 .. Around - 1 : TimeInv(a, d)
  /\ pc = "wait" /\ last # <<>> =>
       \E a \in 1 .. Around, d \in 0 .. Around - 1 : WaitInv(a, d)
  /\ pc = "read" /\ last # <<>> =>
       \E a \in 1 .. Around, d \in 0 .. Around - 1 : \E s \in 0 .. d : ReadInv(a, d, s)
  /\ pc = "registerB" => \A r \in Register : time[r] = ShownBy(start, r)
  /\ pc # "shell" => date = <<>>
  /\ pc = "shell" => time = <<>> /\ last = <<>>
  /\ pc = "wait" => time = <<>>
  /\ date # <<>> /\ ~TwelveOClock(start) => date = Meaning(start)


-----------------------------------------------------------------------------
LEMMA ContentsAreShown == \A r : Contents(r) = ShownBy(clock, r)
BY DEF Contents, ShownBy, Code

LEMMA Circle ==
  ASSUME IInv
  PROVE  /\ Around \in Nat \ {0} /\ chip.gap \in Nat
         /\ CENTURY \in Nat /\ CENTURY > 1 /\ 1 \in Register
         /\ clock[1] \in 1 .. Around /\ start[1] \in 1 .. Around
         /\ \A k \in 1 .. Around : After(k, 0) = k
BY SMTT(30), Constants, RtcAssumption DEF IInv, ChipInv, Around, Register, After

(* Two different numbers never look the same on the clock.                  *)
LEMMA SecondsDiffer ==
  ASSUME SecondsOutlastTwoPasses, IInv,
         NEW k \in 1 .. Around, NEW l \in 1 .. Around, Seconds(k) = Seconds(l)
  PROVE  k = l
<1> DEFINE m == chip.values[1][k]
           n == chip.values[1][l]
<1>1. chip \in Chips /\ 1 \in Register /\ DOMAIN chip.values[1] = 1 .. Around
  BY Circle, Constants DEF IInv, ChipInv, Around
<1>2. m \in 0 .. 99 /\ n \in 0 .. 99 /\ (1 = HOUR => m \in 0 .. 23 /\ n \in 0 .. 23)
  BY ZenonT(30), <1>1, Constants
<1>3. Code(1, m) = Code(1, n)
  BY DEF Seconds
<1>4. m = n
  <2> HIDE DEF m, n
  <2>1. CASE 1 = HOUR /\ ~chip.h24
    <3> DEFINE f(x) == ((x + 11) % 12) + 1
    <3>1. \A x \in 0 .. 23 : f(x) \in 1 .. 12 /\ x \div 12 \in 0 .. 1
      OBVIOUS
    <3>2. \A x \in 0 .. 23, y \in 0 .. 23 : f(x) = f(y) /\ x \div 12 = y \div 12 => x = y
      OBVIOUS
    <3>3. \A x \in 1 .. 12 : Shown(x) \in 0 .. 127
      BY DEF Shown
    <3>4. \A x \in 1 .. 12, y \in 1 .. 12 : Shown(x) = Shown(y) => x = y
      BY DEF Shown
    <3>5. /\ Shown(f(m)) + (128 * (m \div 12)) = Shown(f(n)) + (128 * (n \div 12))
          /\ f(m) \in 1 .. 12 /\ f(n) \in 1 .. 12
          /\ m \div 12 \in 0 .. 1 /\ n \div 12 \in 0 .. 1
      BY <1>2, <1>3, <2>1, <3>1 DEF Code
    <3> HIDE DEF f
    <3>6. m \div 12 = n \div 12 /\ Shown(f(m)) = Shown(f(n))
      <4>1. Shown(f(m)) \in 0 .. 127 /\ Shown(f(n)) \in 0 .. 127
        BY <3>3, <3>5
      <4> DEFINE p == m \div 12
                 q == n \div 12
      <4>2. p \in 0 .. 1 /\ q \in 0 .. 1 /\ Shown(f(m)) + (128 * p) = Shown(f(n)) + (128 * q)
        BY <3>5
      <4> HIDE DEF p, q
      <4>3. ASSUME NEW u \in 0 .. 127, NEW v \in 0 .. 127, u + (128 * p) = v + (128 * q)
            PROVE  p = q /\ u = v
        BY <4>2, <4>3
      <4> QED  BY <4>1, <4>2, <4>3 DEF p, q
    <3> QED  BY <1>2, <2>1, <3>2, <3>4, <3>5, <3>6
  <2>2. CASE ~(1 = HOUR /\ ~chip.h24)
    BY <1>2, <1>3, <2>2 DEF Code, Shown
  <2> QED  BY <2>1, <2>2
<1> QED  BY <1>1, <1>4 DEF SecondsOutlastTwoPasses, Around

(* Fewer steps than there are positions fit into two passes.                *)
LEMMA NotAround ==
  ASSUME SecondsOutlastTwoPasses, IInv, NEW d \in Nat, NEW n \in 0 .. 2 * CENTURY,
         chip.gap * d <= n + chip.gap
  PROVE  d < Around
<1> DEFINE g == chip.gap
<1>1. g \in Nat /\ Around \in Nat \ {0} /\ CENTURY \in Nat
  BY Circle
<1>2. 2 * CENTURY < g * (Around - 1)
  BY DEF SecondsOutlastTwoPasses, IInv, ChipInv, Around
<1>3. g * (Around - 1) = g * Around - g
  <2> HIDE DEF g
  <2> QED  BY <1>1
<1>4. g * d < g * Around
  <2> g * d \in Int /\ g * Around \in Int
    BY <1>1
  <2> QED  BY <1>1, <1>2, <1>3
<1> SUFFICES ASSUME Around <= d PROVE FALSE
  BY <1>1
<1>5. g * Around <= g * d
  <2> HIDE DEF g
  <2> QED  BY <1>1
<1> QED  BY <1>1, <1>4, <1>5

-----------------------------------------------------------------------------
(* The pace.                                                                *)
LEMMA PacedAccess ==
  ASSUME IInv, Access, NEW d \in Nat, NEW n \in Nat, Paced(d, n)
  PROVE  Paced(d, n + 1)'
<1> DEFINE g == chip.gap
<1>1. g \in Nat /\ accesses \in 0 .. g
  BY Circle DEF IInv, ChipInv
<1>2. g' = g /\ update' = update /\ accesses' \in Nat /\ accesses' <= accesses + 1
  BY <1>1 DEF Access, clockVars
<1>3. g * d \in Nat /\ g * (d + 1) \in Nat
  <2> HIDE DEF g
  <2> QED  BY <1>1
<1> QED  BY <1>1, <1>2, <1>3 DEF Paced

LEMMA PacedBegins ==
  ASSUME IInv, UpdateBegins, pc # "shell", NEW d \in Nat, NEW n \in Nat, Paced(d, n)
  PROVE  Paced(d, n)'
<1> DEFINE g == chip.gap
<1>1. g \in Nat /\ accesses = g
  BY Circle DEF IInv, ChipInv, UpdateBegins
<1>2. g' = g /\ update = 0 /\ update' = 1
  BY DEF UpdateBegins
<1>3. g * (d + 1) = (g * d) + g /\ g * d \in Nat
  <2> HIDE DEF g
  <2> QED  BY <1>1
<1> QED  BY <1>1, <1>2, <1>3 DEF Paced

LEMMA PacedStep ==
  ASSUME SecondsOutlastTwoPasses, IInv, Step,
         NEW d \in Nat, NEW n \in 0 .. 2 * CENTURY, Paced(d, n)
  PROVE  /\ update = 1 => d + 1 < Around /\ Paced(d + 1, n)'
         /\ update # 1 => Paced(d, n)'
<1> DEFINE g == chip.gap
<1>1. g \in Nat /\ update \in 0 .. CENTURY /\ CENTURY \in Nat
  BY Circle DEF IInv, ChipInv
<1>2. g' = g /\ accesses' = 0 /\ (update' = 0 \/ update' = update + 1)
  BY DEF Step
<1>3. g * (d + 1) \in Nat /\ g * d \in Nat
  <2> HIDE DEF g
  <2> QED  BY <1>1
<1>4. update # 0
  BY DEF Step
<1>5. ASSUME update = 1 PROVE d + 1 < Around /\ Paced(d + 1, n)'
  <2>1. g * (d + 1) <= n + g
    BY <1>5 DEF Paced
  <2> QED  BY <1>1, <1>2, <1>3, <1>5, <2>1, NotAround DEF Paced
<1>6. ASSUME update # 1 PROVE Paced(d, n)'
  BY <1>1, <1>2, <1>3, <1>4, <1>6 DEF Paced
<1> QED  BY <1>5, <1>6

(* The clock.                                                               *)
LEMMA ClockMoves ==
  ASSUME IInv, Step, update > 1 => clock[1] = 1
  PROVE  /\ update = 1 =>
              /\ clock'[1] = After(clock[1], 1)
              /\ \A r \in Register \ {1} : clock'[r] = clock[r]
         /\ update # 1 => clock'[1] = clock[1]
         /\ update' > 1 => clock'[1] = 1
         /\ update = 1 /\ clock[1] # Around => update' = 0
<1>1. update \in 1 .. CENTURY /\ clock \in [Register -> Nat] /\ 1 \in Register
  BY Circle DEF IInv, ChipInv, Step
<1>2. clock[1] \in 1 .. Around /\ Around \in Nat \ {0}
  BY Circle
<1>3. clock' = [clock EXCEPT ![update] =
                  IF clock[update] = Len(chip.values[update]) THEN 1 ELSE clock[update] + 1]
  BY DEF Step
<1>4. update' = IF clock[update] = Len(chip.values[update]) /\ update < CENTURY
                  THEN update + 1 ELSE 0
  BY DEF Step
<1>5. CASE update = 1
  BY <1>1, <1>2, <1>3, <1>4, <1>5 DEF After, Around
<1>6. CASE update # 1
  BY <1>1, <1>2, <1>3, <1>4, <1>6
<1> QED  BY <1>5, <1>6

LEMMA AfterNext ==
  ASSUME IInv, NEW a \in 1 .. Around, NEW d \in 0 .. Around - 1, d + 1 < Around
  PROVE  /\ After(After(a, d), 1) = After(a, d + 1)
         /\ After(a, d + 1) = a => FALSE
         /\ a = 1 => After(a, d) # Around
BY Circle DEF After

-----------------------------------------------------------------------------
(* The steps of the clock.                                                  *)
LEMMA PointBegins == ASSUME IInv, PointInv, UpdateBegins PROVE PointInv'
<1>1. /\ update' = 1
      /\ UNCHANGED <<chip, clock, pc, time, last, start, date>>
  BY DEF UpdateBegins, readVars
<1>2. \A a, k : Seconds(a)' = Seconds(a) /\ After(a, k)' = After(a, k)
  BY <1>1 DEF Seconds, After, Around, Code, Shown
<1>3. Around' = Around /\ \A r : Contents(r)' = Contents(r) /\ ShownBy(start, r)' = ShownBy(start, r)
  BY <1>1 DEF Around, Contents, ShownBy, Code, Shown
<1>4. Around \in Nat /\ CENTURY \in Nat
  BY Circle
<1>5. ASSUME pc = "read", time # <<>>
      PROVE  \E a \in 1 .. Around, d \in 0 .. Around - 1 : TimeInv(a, d)'
  <2>1. PICK a \in 1 .. Around, d \in 0 .. Around - 1 : TimeInv(a, d)
    BY <1>5 DEF PointInv
  <2>2. Len(time) - 1 \in Nat
    BY <1>5, EmptySeq, LenProperties DEF IInv, PassInv
  <2>3. Paced(d, Len(time) - 1)'
    BY <1>1, <1>4, <1>5, <2>1, <2>2, PacedBegins DEF TimeInv
  <2> QED  BY <1>1, <1>2, <1>3, <2>1, <2>3 DEF TimeInv
<1>6. ASSUME pc = "wait", last # <<>>
      PROVE  \E a \in 1 .. Around, d \in 0 .. Around - 1 : WaitInv(a, d)'
  <2>1. PICK a \in 1 .. Around, d \in 0 .. Around - 1 : WaitInv(a, d)
    BY <1>6 DEF PointInv
  <2>2. CENTURY - 1 \in Nat
    BY Circle
  <2>3. Paced(d, CENTURY - 1)'
    BY <1>1, <1>4, <1>6, <2>1, <2>2, PacedBegins DEF WaitInv
  <2> QED  BY <1>1, <1>2, <1>3, <2>1, <2>3 DEF WaitInv
<1>7. ASSUME pc = "read", last # <<>>
      PROVE  \E a \in 1 .. Around, d \in 0 .. Around - 1 : \E s \in 0 .. d : ReadInv(a, d, s)'
  <2>1. PICK a \in 1 .. Around, d \in 0 .. Around - 1 : \E s \in 0 .. d : ReadInv(a, d, s)
    BY <1>7 DEF PointInv
  <2>2. PICK s \in 0 .. d : ReadInv(a, d, s)
    BY <2>1
  <2>3. CENTURY + Len(time) \in Nat
    BY <1>4, LenProperties DEF IInv, PassInv
  <2>4. Paced(d, CENTURY + Len(time))'
    BY <1>1, <1>4, <1>7, <2>2, <2>3, PacedBegins DEF ReadInv
  <2> QED  BY <1>1, <1>2, <1>3, <2>2, <2>4 DEF ReadInv
<1>8. TwelveOClock(start)' = TwelveOClock(start) /\ Meaning(start)' = Meaning(start)
  BY <1>1 DEF TwelveOClock, Meaning
<1> QED  BY SMTT(30), <1>1, <1>3, <1>5, <1>6, <1>7, <1>8 DEF PointInv

LEMMA PointSteps ==
  ASSUME SecondsOutlastTwoPasses, IInv, PointInv, Step PROVE PointInv'
<1>1. UNCHANGED <<chip, pc, time, last, start, date>>
  BY DEF Step, readVars
<1>2. \A a, k : Seconds(a)' = Seconds(a) /\ After(a, k)' = After(a, k)
  BY <1>1 DEF Seconds, After, Around, Code, Shown
<1>3. Around' = Around /\ \A r : ShownBy(start, r)' = ShownBy(start, r)
  BY <1>1 DEF Around, ShownBy, Code, Shown
<1>4. Around \in Nat /\ CENTURY \in Nat /\ CENTURY > 1
  BY Circle
<1>5. update > 1 => clock[1] = 1
  BY DEF PointInv
<1>6. update \in 1 .. CENTURY
  BY <1>4 DEF IInv, ChipInv, Step
<1>7. Len(time) \in 0 .. CENTURY
  BY <1>4, LenProperties DEF IInv, PassInv
<1>8. ASSUME pc = "read", time # <<>>
      PROVE  \E a \in 1 .. Around, d \in 0 .. Around - 1 : TimeInv(a, d)'
  <2>1. PICK a \in 1 .. Around, d \in 0 .. Around - 1 : TimeInv(a, d)
    BY <1>8 DEF PointInv
  <2>2. Len(time) - 1 \in 0 .. 2 * CENTURY
    BY <1>4, <1>7, <1>8, EmptySeq, LenProperties DEF IInv, PassInv
  <2>3. CASE update = 1
    <3>1. d + 1 \in 0 .. Around - 1 /\ Paced(d + 1, Len(time) - 1)'
      BY <1>1, <1>4, <2>1, <2>2, <2>3, PacedStep DEF TimeInv
    <3>2. clock'[1] = After(a, d + 1)
      <4>1. clock'[1] = After(clock[1], 1)
        BY <1>5, <2>3, ClockMoves
      <4>2. d + 1 < Around
        BY <1>4, <3>1
      <4> QED  BY <2>1, <4>1, <4>2, AfterNext DEF TimeInv
    <3>3. TimeInv(a, d + 1)'
      BY <1>1, <1>2, <2>1, <3>1, <3>2 DEF TimeInv
    <3> QED  BY <3>1, <3>3
  <2>4. CASE update # 1
    <3>1. Paced(d, Len(time) - 1)' /\ clock'[1] = clock[1] /\ clock[1] = 1
      BY <1>1, <1>4, <1>5, <1>6, <2>1, <2>2, <2>4, PacedStep, ClockMoves DEF TimeInv
    <3>2. ~(a # 1 /\ d = 0)
      BY <2>1, <3>1, Circle DEF TimeInv
    <3> QED  BY <1>1, <1>2, <2>1, <3>1, <3>2 DEF TimeInv
  <2> QED  BY <2>3, <2>4
<1>9. ASSUME pc = "wait", last # <<>>
      PROVE  \E a \in 1 .. Around, d \in 0 .. Around - 1 : WaitInv(a, d)'
  <2>1. PICK a \in 1 .. Around, d \in 0 .. Around - 1 : WaitInv(a, d)
    BY <1>9 DEF PointInv
  <2>2. CENTURY - 1 \in 0 .. 2 * CENTURY
    BY <1>4
  <2>3. CASE update = 1
    <3>1. d + 1 \in 0 .. Around - 1 /\ Paced(d + 1, CENTURY - 1)'
      BY <1>1, <1>4, <2>1, <2>2, <2>3, PacedStep DEF WaitInv
    <3>2. clock'[1] = After(a, d + 1)
      <4>1. clock'[1] = After(clock[1], 1)
        BY <1>5, <2>3, ClockMoves
      <4>2. d + 1 < Around
        BY <1>4, <3>1
      <4> QED  BY <2>1, <4>1, <4>2, AfterNext DEF WaitInv
    <3>3. WaitInv(a, d + 1)'
      BY <1>1, <1>2, <2>1, <3>1, <3>2 DEF WaitInv
    <3> QED  BY <3>1, <3>3
  <2>4. CASE update # 1
    <3>1. Paced(d, CENTURY - 1)' /\ clock'[1] = clock[1] /\ clock[1] = 1
      BY <1>1, <1>4, <1>5, <1>6, <2>1, <2>2, <2>4, PacedStep, ClockMoves DEF WaitInv
    <3>2. ~(a # 1 /\ d = 0)
      BY <2>1, <3>1, Circle DEF WaitInv
    <3> QED  BY <1>1, <1>2, <2>1, <3>1, <3>2 DEF WaitInv
  <2> QED  BY <2>3, <2>4
<1>10. ASSUME pc = "read", last # <<>>
       PROVE  \E a \in 1 .. Around, d \in 0 .. Around - 1 : \E s \in 0 .. d : ReadInv(a, d, s)'
  <2>1. PICK a \in 1 .. Around, d \in 0 .. Around - 1 : \E s \in 0 .. d : ReadInv(a, d, s)
    BY <1>10 DEF PointInv
  <2>2. PICK s \in 0 .. d : ReadInv(a, d, s)
    BY <2>1
  <2>3. CENTURY + Len(time) \in 0 .. 2 * CENTURY
    BY <1>4, <1>7
  <2>4. CASE update = 1
    <3>1. d + 1 \in 0 .. Around - 1 /\ Paced(d + 1, CENTURY + Len(time))'
      BY <1>1, <1>4, <2>2, <2>3, <2>4, PacedStep DEF ReadInv
    <3>2. clock'[1] = After(a, d + 1)
      <4>1. clock'[1] = After(clock[1], 1)
        BY <1>5, <2>4, ClockMoves
      <4>2. d + 1 < Around
        BY <1>4, <3>1
      <4> QED  BY <2>2, <4>1, <4>2, AfterNext DEF ReadInv
    <3>3. \A r \in Register \ {1} : clock'[r] = clock[r]
      BY <1>5, <2>4, ClockMoves
    <3>4. a = 1 => update' = 0
      <4>1. a = 1 => clock[1] # Around
        BY <1>4, <2>2, <3>1 DEF ReadInv, After
      <4> QED  BY <1>5, <2>4, <4>1, ClockMoves
    <3>5. s \in 0 .. d + 1 /\ 0 .. d \in SUBSET (0 .. d + 1)
      OBVIOUS
    <3>6. ReadInv(a, d + 1, s)'
      BY <1>1, <1>2, <1>3, <2>2, <3>1, <3>2, <3>3, <3>4, <3>5 DEF ReadInv
    <3> QED  BY <3>1, <3>5, <3>6
  <2>5. CASE update # 1
    <3>1. Paced(d, CENTURY + Len(time))' /\ clock'[1] = clock[1]
      BY <1>1, <1>4, <1>5, <1>6, <2>2, <2>3, <2>5, PacedStep, ClockMoves DEF ReadInv
    <3>2. ~(a = 1 /\ s = 0)
      BY <1>6, <2>2, <2>5 DEF ReadInv
    <3> QED  BY <1>1, <1>2, <1>3, <2>1, <2>2, <3>1, <3>2 DEF ReadInv
  <2> QED  BY <2>4, <2>5
<1>11. TwelveOClock(start)' = TwelveOClock(start) /\ Meaning(start)' = Meaning(start)
  BY <1>1 DEF TwelveOClock, Meaning
<1>12. update' > 1 => clock'[1] = 1
  BY <1>5, ClockMoves
<1> QED  BY <1>1, <1>3, <1>8, <1>9, <1>10, <1>11, <1>12 DEF PointInv

-----------------------------------------------------------------------------
(* The steps of rtc_get_time.                                               *)
LEMMA PointCall == ASSUME IInv, PointInv, rtc_get_time PROVE PointInv'
<1>1. /\ pc = "shell" /\ pc' = "wait" /\ date' = <<>>
      /\ UNCHANGED <<chip, clock, update, time, last>>
  BY DEF rtc_get_time, clockVars
<1> QED  BY <1>1 DEF PointInv

LEMMA PointWait == ASSUME IInv, PointInv, get_update_in_progress_flag PROVE PointInv'
<1>1. /\ pc = "wait" /\ pc' = "read" /\ update = 0 /\ start' = clock
      /\ UNCHANGED <<chip, clock, update, time, last, date>>
  BY DEF get_update_in_progress_flag, Access, clockVars
<1>2. \A a, k : Seconds(a)' = Seconds(a) /\ After(a, k)' = After(a, k)
  BY <1>1 DEF Seconds, After, Around, Code, Shown
<1>3. Around' = Around /\ \A r : Contents(r) = ShownBy(start, r)'
  BY <1>1, ContentsAreShown DEF Around, ShownBy, Code, Shown
<1>4. time = <<>> /\ date = <<>>
  BY <1>1 DEF PointInv
<1>5. ASSUME last # <<>>
      PROVE  \E a \in 1 .. Around, d \in 0 .. Around - 1 : \E s \in 0 .. d : ReadInv(a, d, s)'
  <2>1. PICK a \in 1 .. Around, d \in 0 .. Around - 1 : WaitInv(a, d)
    BY <1>1, <1>5 DEF PointInv
  <2>2. CENTURY \in Nat /\ CENTURY > 1 /\ Len(<<>>) = 0 /\ DOMAIN <<>> = {}
    BY Circle, EmptySeq
  <2>3. Paced(d, CENTURY)'
    <3>1. CENTURY - 1 \in Nat /\ (CENTURY - 1) + 1 = CENTURY /\ d \in Nat
      BY <2>2
    <3>2. Access
      BY DEF get_update_in_progress_flag
    <3>3. Paced(d, (CENTURY - 1) + 1)'
      BY <2>1, <3>1, <3>2, PacedAccess DEF WaitInv
    <3> QED  BY <3>1, <3>3
  <2>4. d \in 0 .. d /\ CENTURY + 0 = CENTURY
    BY <2>2
  <2>5. ReadInv(a, d, d)'
    BY <1>1, <1>2, <1>3, <1>4, <2>1, <2>2, <2>3, <2>4 DEF WaitInv, ReadInv
  <2> QED  BY <2>4, <2>5
<1> QED  BY <1>1, <1>3, <1>4, <1>5 DEF PointInv

LEMMA PointRead == ASSUME IInv, PointInv, get_rtc_register PROVE PointInv'
<1> DEFINE n == Len(time) + 1
<1>1. /\ pc = "read" /\ pc' = "read" /\ Access
      /\ UNCHANGED <<chip, clock, update, last, start, date>>
  BY DEF get_rtc_register, Access, clockVars
<1>2. \A a, k : Seconds(a)' = Seconds(a) /\ After(a, k)' = After(a, k)
  BY <1>1 DEF Seconds, After, Around, Code, Shown
<1>3. /\ Around' = Around
      /\ \A r : Contents(r)' = Contents(r) /\ ShownBy(start, r)' = ShownBy(start, r)
  BY <1>1 DEF Around, Contents, ShownBy, Code, Shown
<1>4. /\ n \in Register /\ Contents(n) \in Byte /\ time \in Seq(Byte)
      /\ time' = Append(time, Contents(n))
  BY ContentsIsCode, LenProperties, Constants DEF get_rtc_register, IInv, PassInv, Register
<1>5. /\ Len(time') = n /\ Len(time) \in Nat /\ time' # <<>>
      /\ DOMAIN time = 1 .. n - 1 /\ DOMAIN time' = 1 .. n
      /\ time'[n] = Contents(n)
      /\ \A r \in 1 .. n - 1 : time'[r] = time[r]
  BY <1>4, LenProperties, AppendProperties, EmptySeq
<1>6. time = <<>> <=> n = 1
  BY <1>4, EmptySeq, LenProperties
<1>7. Contents(1) = Seconds(clock[1])
  BY ContentsAreShown DEF ShownBy, Seconds
<1>8. Around \in Nat \ {0} /\ CENTURY \in Nat /\ clock[1] \in 1 .. Around
      /\ chip.gap \in Nat /\ \A k \in 1 .. Around : After(k, 0) = k
  BY Circle
<1> HIDE DEF n
<1>9. \E a \in 1 .. Around, d \in 0 .. Around - 1 : TimeInv(a, d)'
  <2>1. CASE time = <<>>
    <3>1. n = 1 /\ 0 \in 0 .. Around - 1
      BY <1>6, <1>8, <2>1
    <3>2. Paced(0, 0)'
      <4>1. chip.gap' = chip.gap /\ chip.gap * 0 = 0 /\ chip.gap * (0 + 1) = chip.gap
        BY <1>1, <1>8
      <4>2. accesses' \in 0 .. chip.gap
        BY <1>1, <1>8 DEF Access, IInv, ChipInv
      <4> QED  BY <1>8, <4>1, <4>2 DEF Paced
    <3>3. Len(time') - 1 = 0
      BY <1>5, <3>1
    <3>4. PICK a \in 1 .. Around : a = clock[1]
      BY <1>8
    <3>5. time'[1] = Seconds(a)' /\ clock'[1] = After(a, 0)'
      BY <1>1, <1>2, <1>5, <1>7, <1>8, <3>1, <3>4
    <3>6. \A r \in DOMAIN time' : time'[r] = Contents(r)'
      BY <1>3, <1>5, <3>1
    <3>7. TimeInv(a, 0)'
      BY <3>2, <3>3, <3>5, <3>6 DEF TimeInv
    <3> QED  BY <3>1, <3>7
  <2>2. CASE time # <<>>
    <3>1. PICK a \in 1 .. Around, d \in 0 .. Around - 1 : TimeInv(a, d)
      BY <1>1, <2>2 DEF PointInv
    <3>2. n - 1 = Len(time) /\ n - 1 \in Nat /\ n - 1 # 0
      BY <1>5, <1>6, <2>2 DEF n
    <3>3. Paced(d, Len(time) - 1)'
      <4>1. PICK k \in Nat : k = Len(time) - 1
        BY <1>5, <3>2
      <4>2. k + 1 = Len(time') - 1 /\ d \in Nat
        BY <1>5, <1>8, <3>2, <4>1
      <4>3. Paced(d, k + 1)'
        BY <1>1, <3>1, <4>1, <4>2, PacedAccess DEF TimeInv
      <4> QED  BY <4>2, <4>3
    <3>4. time'[1] = time[1]
      BY <1>5, <3>2
    <3>5. \A r \in DOMAIN time' : r = n \/ r \in DOMAIN time
      BY <1>5, <3>2
    <3>6. TimeInv(a, d)'
      BY <1>1, <1>2, <1>3, <1>5, <3>1, <3>3, <3>4, <3>5 DEF TimeInv
    <3> QED  BY <3>1, <3>6
  <2> QED  BY <2>1, <2>2
<1>10. ASSUME last # <<>>
       PROVE  \E a \in 1 .. Around, d \in 0 .. Around - 1 : \E s \in 0 .. d : ReadInv(a, d, s)'
  <2>1. PICK a \in 1 .. Around, d \in 0 .. Around - 1 : \E s \in 0 .. d : ReadInv(a, d, s)
    BY <1>1, <1>10 DEF PointInv
  <2>2. PICK s \in 0 .. d : ReadInv(a, d, s)
    BY <2>1
  <2>3. Paced(d, CENTURY + Len(time))'
    <3>1. PICK k \in Nat : k = CENTURY + Len(time)
      BY <1>5, <1>8
    <3>2. k + 1 = CENTURY + Len(time') /\ d \in Nat
      BY <1>5, <1>8, <3>1 DEF n
    <3>3. Paced(d, k + 1)'
      BY <1>1, <2>2, <3>1, <3>2, PacedAccess DEF ReadInv
    <3> QED  BY <3>2, <3>3
  <2>4. \E m \in s .. d : time'[1] = Seconds(After(a, m))
    <3>1. CASE n = 1
      BY <1>5, <1>7, <2>2, <3>1 DEF ReadInv
    <3>2. CASE n # 1
      BY <1>5, <1>6, <2>2, <3>2 DEF ReadInv, n
    <3> QED  BY <3>1, <3>2
  <2>5. a = 1 /\ s = 0 =>
          \A r \in Register \ {1} : r \in DOMAIN time' => time'[r] = ShownBy(start, r)
    <3>1. ASSUME a = 1, s = 0, NEW r \in Register \ {1}, r \in DOMAIN time'
          PROVE  time'[r] = ShownBy(start, r)
      <4>1. CASE r = n
        BY <1>5, <2>2, <3>1, <4>1, ContentsAreShown DEF ReadInv, ShownBy
      <4>2. CASE r # n
        <5>1. r \in DOMAIN time /\ time'[r] = time[r]
          BY <1>5, <3>1, <4>2 DEF n
        <5> QED  BY <2>2, <3>1, <5>1 DEF ReadInv
      <4> QED  BY <4>1, <4>2
    <3> QED  BY <3>1
  <2>6. ReadInv(a, d, s)'
    BY <1>1, <1>2, <1>3, <2>2, <2>3, <2>4, <2>5 DEF ReadInv
  <2> QED  BY <2>2, <2>6
<1>11. TwelveOClock(start)' = TwelveOClock(start) /\ Meaning(start)' = Meaning(start)
  BY <1>1 DEF TwelveOClock, Meaning
<1> QED  BY <1>1, <1>3, <1>5, <1>9, <1>10, <1>11 DEF PointInv

(* Two passes that agree show the moment the second one began.              *)
LEMMA PassesAgree ==
  ASSUME SecondsOutlastTwoPasses, IInv, PointInv,
         pc = "read", Len(time) = CENTURY, last = time
  PROVE  \A r \in Register : time[r] = ShownBy(start, r)
<1>1. time # <<>> /\ DOMAIN time = Register /\ 1 \in Register
  BY Circle, EmptySeq, LenProperties DEF IInv, PassInv, Register
<1>2. PICK a \in 1 .. Around, d \in 0 .. Around - 1 : \E s \in 0 .. d : ReadInv(a, d, s)
  BY <1>1 DEF PointInv
<1>3. PICK s \in 0 .. d : ReadInv(a, d, s)
  BY <1>2
<1>4. PICK m \in s .. d : time[1] = Seconds(After(a, m))
  BY <1>1, <1>3 DEF ReadInv
<1>5. Around \in Nat \ {0} /\ After(a, m) \in 1 .. Around /\ (After(a, m) = a => m = 0)
  BY Circle, <1>4 DEF After
<1>6. After(a, m) = a
  BY <1>3, <1>4, <1>5, SecondsDiffer DEF ReadInv
<1>7. s = 0 /\ start[1] = a
  BY <1>3, <1>4, <1>5, <1>6, Circle DEF ReadInv
<1>8. CASE a # 1
  BY <1>3, <1>7, <1>8 DEF ReadInv
<1>9. CASE a = 1
  <2>1. time[1] = ShownBy(start, 1)
    BY <1>3, <1>7 DEF ReadInv, Seconds, ShownBy
  <2>2. \A r \in Register \ {1} : time[r] = ShownBy(start, r)
    BY <1>1, <1>3, <1>7, <1>9 DEF ReadInv
  <2> QED  BY <2>1, <2>2
<1> QED  BY <1>8, <1>9

LEMMA PointCompare ==
  ASSUME SecondsOutlastTwoPasses, IInv, PointInv, Compare PROVE PointInv'
<1>1. /\ pc = "read" /\ Len(time) = CENTURY
      /\ UNCHANGED <<chip, clock, update, accesses, start, date>>
  BY DEF Compare, clockVars
<1>2. \A a, k : Seconds(a)' = Seconds(a) /\ After(a, k)' = After(a, k)
  BY <1>1 DEF Seconds, After, Around, Code, Shown
<1>3. /\ Around' = Around
      /\ \A r : Contents(r)' = Contents(r) /\ ShownBy(start, r)' = ShownBy(start, r)
  BY <1>1 DEF Around, Contents, ShownBy, Code, Shown
<1>4. time # <<>> /\ DOMAIN time = Register
  BY <1>1, Circle, EmptySeq, LenProperties DEF IInv, PassInv, Register
<1>5. CASE last = time
  <2>1. pc' = "registerB" /\ time' = time /\ last' = last
    BY <1>5 DEF Compare
  <2>2. \A r \in Register : time[r] = ShownBy(start, r)
    BY <1>1, <1>5, PassesAgree
  <2> QED  BY <1>1, <1>3, <2>1, <2>2 DEF PointInv
<1>6. CASE last # time
  <2>1. pc' = "wait" /\ time' = <<>> /\ last' = time
    BY <1>6 DEF Compare
  <2>2. PICK a \in 1 .. Around, d \in 0 .. Around - 1 : TimeInv(a, d)
    BY <1>1, <1>4 DEF PointInv
  <2>3. WaitInv(a, d)'
    BY <1>1, <1>2, <1>3, <1>4, <2>1, <2>2 DEF TimeInv, WaitInv, Paced
  <2> QED  BY <1>1, <1>3, <2>1, <2>2, <2>3 DEF PointInv
<1> QED  BY <1>5, <1>6

LEMMA PointReturn == ASSUME IInv, PointInv, Return PROVE PointInv'
<1>1. /\ pc = "registerB" /\ pc' = "shell" /\ time' = <<>> /\ last' = <<>>
      /\ date' = Converted
      /\ UNCHANGED <<chip, clock, update, start>>
  BY DEF Return, Access, clockVars
<1>2. ~TwelveOClock(start) => Converted = Meaning(start)
  <2>1. chip \in Chips /\ \A r \in Register : start[r] \in DOMAIN chip.values[r]
    BY DEF IInv, ChipInv
  <2>2. \A r \in Register : time[r] = ShownBy(start, r)
    BY <1>1 DEF PointInv
  <2> QED  BY <2>1, <2>2, ConversionCorrect
<1>3. TwelveOClock(start)' = TwelveOClock(start) /\ Meaning(start)' = Meaning(start)
  BY <1>1 DEF TwelveOClock, Meaning
<1> QED  BY <1>1, <1>2, <1>3 DEF PointInv

(* As long as two passes end before the seconds come round, the date is the *)
(* one the clock showed when the last pass began, whatever updates come     *)
(* between the accesses, wherever a carry is, and however often a pass is   *)
(* repeated (rtc.c:26-56, 60-80).                                           *)
THEOREM DateCorrect ==
  ASSUME SecondsOutlastTwoPasses
  PROVE  Spec => []DateIsOnePointInTime
<1>1. Init => PointInv
  BY DEF Init, PointInv
<1>2. IInv /\ PointInv /\ [Next]_vars => PointInv'
  <2> SUFFICES ASSUME IInv, PointInv, [Next]_vars PROVE PointInv'
    OBVIOUS
  <2>1. CASE UNCHANGED vars
    <3>1. UNCHANGED <<chip, clock, update, accesses, pc, time, last, start, date>>
      BY <2>1 DEF vars, clockVars, readVars
    <3>2. Around' = Around /\ \A a, k : After(a, k)' = After(a, k) /\ Paced(a, k)' = Paced(a, k)
      BY <3>1 DEF Around, After, Paced
    <3>3. \A r : /\ Contents(r)' = Contents(r) /\ Seconds(r)' = Seconds(r)
                 /\ ShownBy(start, r)' = ShownBy(start, r)
      BY <3>1 DEF Contents, Seconds, ShownBy, Code, Shown
    <3>4. TwelveOClock(start)' = TwelveOClock(start) /\ Meaning(start)' = Meaning(start)
      BY <3>1 DEF TwelveOClock, Meaning
    <3>5. \A a, d : /\ TimeInv(a, d) => TimeInv(a, d)'
                    /\ WaitInv(a, d) => WaitInv(a, d)'
                    /\ \A s : ReadInv(a, d, s) => ReadInv(a, d, s)'
      BY <3>1, <3>2, <3>3 DEF TimeInv, WaitInv, ReadInv
    <3> QED  BY <3>1, <3>2, <3>3, <3>4, <3>5 DEF PointInv
  <2> QED
    BY <2>1, PointBegins, PointSteps, PointCall, PointWait, PointRead, PointCompare,
       PointReturn DEF Next, Reader
<1>3. PointInv => DateIsOnePointInTime
  BY DEF PointInv, DateIsOnePointInTime
<1> QED  BY <1>1, <1>2, <1>3, Invariance, PTL DEF Spec
=============================================================================
