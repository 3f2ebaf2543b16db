--------------------------- MODULE KeyboardProofs ---------------------------
(***************************************************************************)
(* Proofs about Keyboard for a ring buffer of any size, any tables and any *)
(* number of keys.  The invariant that is inductive adds to the types what *)
(* the reader knows between finding the buffer non-empty and freeing the   *)
(* slot: there is a character, and it is the one it has read.              *)
(***************************************************************************)
EXTENDS Keyboard, SequenceTheorems, TLAPS

SlotsFilled ==
  \A i \in Index :
    (IF buffer_head >= buffer_tail
       THEN buffer_tail <= i /\ i < buffer_head
       ELSE buffer_tail <= i \/ i < buffer_head) => keyboard_buffer[i] \in Char

ReaderInv ==
  /\ pc \in {"load", "advance"} => keyboard_haskey
  /\ pc = "advance" => c = keyboard_buffer[buffer_tail]

IInv == TypeOK /\ SlotsFilled /\ ReaderInv

-----------------------------------------------------------------------------
(* The successor of a slot, without the division.                           *)
LEMMA AfterValue ==
  ASSUME NEW i \in Index
  PROVE  /\ After(i) = IF i + 1 = KEYBOARD_BUFFER_SIZE THEN 0 ELSE i + 1
         /\ After(i) \in Index
BY KeyboardAssumption DEF Index, After

LEMMA InitIInv == Init => IInv
<1> SUFFICES ASSUME Init PROVE IInv
  OBVIOUS
<1>1. 0 \in Index
  BY KeyboardAssumption DEF Index
<1>2. TypeOK
  BY <1>1 DEF Init, TypeOK
<1>3. SlotsFilled /\ ReaderInv
  BY DEF Init, SlotsFilled, ReaderInv, Index
<1> QED  BY <1>2, <1>3 DEF IInv

(* A character that is pushed fills the slot at the head; the slots from    *)
(* the tail on stay as they are.                                            *)
LEMMA PushCharStep ==
  ASSUME IInv, NEW ch \in Char \cup {NUL}, PushChar(ch), UNCHANGED buffer_tail
  PROVE  /\ keyboard_buffer' \in [Index -> Char \cup {NUL}]
         /\ buffer_head' \in Index
         /\ SlotsFilled'
         /\ keyboard_haskey => keyboard_haskey'
         /\ keyboard_haskey => keyboard_buffer'[buffer_tail] = keyboard_buffer[buffer_tail]
<1>1. /\ keyboard_buffer \in [Index -> Char \cup {NUL}]
      /\ buffer_head \in Index /\ buffer_tail \in Index
      /\ Index = 0 .. KEYBOARD_BUFFER_SIZE - 1 /\ KEYBOARD_BUFFER_SIZE \in Nat \ {0}
  BY KeyboardAssumption DEF IInv, TypeOK, Index
<1>2. CASE ch # NUL /\ After(buffer_head) # buffer_tail
  <2>1. /\ keyboard_buffer' = [keyboard_buffer EXCEPT ![buffer_head] = ch]
        /\ buffer_head' = After(buffer_head)
    BY <1>2 DEF PushChar
  <2>2. /\ After(buffer_head) \in Index
        /\ After(buffer_head) =
             IF buffer_head + 1 = KEYBOARD_BUFFER_SIZE THEN 0 ELSE buffer_head + 1
    BY <1>1, AfterValue
  <2>3. keyboard_buffer'[buffer_head] = ch /\ ch \in Char
        /\ \A i \in Index \ {buffer_head} : keyboard_buffer'[i] = keyboard_buffer[i]
    BY <1>1, <1>2, <2>1
  <2>4. SlotsFilled'
    BY <1>1, <1>2, <2>1, <2>2, <2>3 DEF IInv, SlotsFilled
  <2> QED  BY <1>1, <1>2, <2>1, <2>2, <2>3, <2>4 DEF keyboard_haskey
<1>3. CASE ~ (ch # NUL /\ After(buffer_head) # buffer_tail)
  BY <1>1, <1>3 DEF PushChar, IInv, SlotsFilled, keyboard_haskey
<1> QED  BY <1>2, <1>3

(* One interrupt of the keyboard, whatever the scan code.                   *)
LEMMA CallbackStep ==
  ASSUME IInv, NEW scancode, keyboard_callback(scancode), UNCHANGED buffer_tail
  PROVE  /\ keyboard_buffer' \in [Index -> Char \cup {NUL}]
         /\ buffer_head' \in Index
         /\ shift_pressed' \in BOOLEAN
         /\ SlotsFilled'
         /\ keyboard_haskey => keyboard_haskey'
         /\ keyboard_haskey => keyboard_buffer'[buffer_tail] = keyboard_buffer[buffer_tail]
<1>1. CASE scancode \in MakeCode /\ UNCHANGED shift_pressed
           /\ PushChar(IF shift_pressed THEN scancode_ascii_upper[scancode]
                                        ELSE scancode_ascii_lower[scancode])
  <2>1. (IF shift_pressed THEN scancode_ascii_upper[scancode]
                          ELSE scancode_ascii_lower[scancode]) \in Char \cup {NUL}
    BY <1>1, KeyboardAssumption
  <2> QED  BY <1>1, <2>1, PushCharStep DEF IInv, TypeOK
<1>2. CASE UNCHANGED <<keyboard_buffer, buffer_head>> /\ shift_pressed' \in BOOLEAN
  BY <1>2 DEF IInv, TypeOK, SlotsFilled, keyboard_haskey
<1> QED  BY <1>1, <1>2 DEF keyboard_callback, IInv, TypeOK

LEMMA KeyInterruptStep ==
  ASSUME IInv, NEW scancode, KeyInterrupt(scancode), held' \in SUBSET ShiftMake,
         typed' \in [MakeCode -> BOOLEAN]
  PROVE  IInv'
<1>1. /\ keyboard_callback(scancode)
      /\ UNCHANGED <<buffer_tail, c, returned>>
      /\ pc' = IF pc = "halted" THEN "poll" ELSE pc
  BY DEF KeyInterrupt, Wake
<1>2. TypeOK'
  BY <1>1, CallbackStep DEF IInv, TypeOK
<1>3. SlotsFilled'
  BY <1>1, CallbackStep
<1>4. ReaderInv'
  BY <1>1, CallbackStep DEF IInv, ReaderInv
<1> QED  BY <1>2, <1>3, <1>4 DEF IInv

(* The reader and the timer leave the handler's part alone; only freeing a  *)
(* slot changes which slots are in use.                                     *)
LEMMA AdvanceTailStep ==
  ASSUME IInv, AdvanceTail
  PROVE  IInv'
<1>1. /\ buffer_tail' = After(buffer_tail) /\ returned' = c /\ pc' = "caller"
      /\ UNCHANGED <<c, keyboard_buffer, buffer_head, shift_pressed, held, typed>>
  BY DEF AdvanceTail, ReaderUnchanged
<1>2. /\ buffer_head \in Index /\ buffer_tail \in Index /\ buffer_head # buffer_tail
      /\ Index = 0 .. KEYBOARD_BUFFER_SIZE - 1 /\ KEYBOARD_BUFFER_SIZE \in Nat \ {0}
  BY KeyboardAssumption DEF IInv, TypeOK, ReaderInv, keyboard_haskey, AdvanceTail, Index
<1>3. /\ After(buffer_tail) \in Index
      /\ After(buffer_tail) =
           IF buffer_tail + 1 = KEYBOARD_BUFFER_SIZE THEN 0 ELSE buffer_tail + 1
  BY <1>2, AfterValue
<1>4. TypeOK'
  BY <1>1, <1>3 DEF IInv, TypeOK
<1>5. SlotsFilled'
  BY <1>1, <1>2, <1>3 DEF IInv, SlotsFilled
<1>6. ReaderInv'
  BY <1>1 DEF ReaderInv
<1> QED  BY <1>4, <1>5, <1>6 DEF IInv

LEMMA IInvStep == IInv /\ [Next]_vars => IInv'
<1> SUFFICES ASSUME IInv, [Next]_vars PROVE IInv'
  OBVIOUS
<1> USE DEF ReaderUnchanged
<1>1. ASSUME NEW s \in ShiftMake, ShiftDown(s) \/ ShiftUp(s) PROVE IInv'
  BY <1>1, KeyInterruptStep DEF ShiftDown, ShiftUp, IInv, TypeOK
<1>2. ASSUME NEW make \in MakeCode, KeyDown(make) \/ KeyUp(make) PROVE IInv'
  BY <1>2, KeyInterruptStep DEF KeyDown, KeyUp, IInv, TypeOK
<1>3. CASE TimerInterrupt
  BY <1>3 DEF TimerInterrupt, Wake, IInv, TypeOK, SlotsFilled, ReaderInv, keyboard_haskey
<1>4. CASE CallGetchar
  BY <1>4 DEF CallGetchar, IInv, TypeOK, SlotsFilled, ReaderInv, keyboard_haskey
<1>5. CASE Poll
  BY <1>5 DEF Poll, IInv, TypeOK, SlotsFilled, ReaderInv, keyboard_haskey
<1>6. CASE Halt
  BY <1>6 DEF Halt, IInv, TypeOK, SlotsFilled, ReaderInv, keyboard_haskey
<1>7. CASE LoadChar
  BY <1>7 DEF LoadChar, IInv, TypeOK, SlotsFilled, ReaderInv, keyboard_haskey
<1>8. CASE AdvanceTail
  BY <1>8, AdvanceTailStep
<1>9. CASE UNCHANGED vars
  BY <1>9 DEF vars, IInv, TypeOK, SlotsFilled, ReaderInv, keyboard_haskey
<1> QED  BY <1>1, <1>2, <1>3, <1>4, <1>5, <1>6, <1>7, <1>8, <1>9 DEF Next, Reader

(* The invariant holds in every state of every behaviour.                   *)
THEOREM Invariance == Spec => []IInv
<1> QED  BY InitIInv, IInvStep, PTL DEF Spec

(* The indices stay inside the buffer (keyboard.c:74-77, 97-98).            *)
THEOREM TypeCorrect == Spec => []TypeOK
<1>1. IInv => TypeOK
  BY DEF IInv
<1> QED  BY <1>1, Invariance, PTL

(* Shift is off whenever no shift key is down, in whatever order the keys   *)
(* went down and up (keyboard.c:49-56).                                     *)
THEOREM ShiftCorrect == Spec => []ShiftDoesNotStick
<1>1. Init => ShiftDoesNotStick
  BY DEF Init, ShiftDoesNotStick
<1>2. ShiftDoesNotStick /\ [Next]_vars => ShiftDoesNotStick'
  <2> SUFFICES ASSUME ShiftDoesNotStick, [Next]_vars PROVE ShiftDoesNotStick'
    OBVIOUS
  <2> USE DEF ShiftDoesNotStick
  <2>1. ASSUME NEW s \in ShiftMake, ShiftDown(s) PROVE ShiftDoesNotStick'
    BY <2>1 DEF ShiftDown
  <2>2. ASSUME NEW s \in ShiftMake, ShiftUp(s) PROVE ShiftDoesNotStick'
    <3>1. BreakCode(s) \in ShiftBreak /\ BreakCode(s) \notin ShiftMake
          /\ BreakCode(s) \notin MakeCode
      BY <2>2, KeyboardAssumption DEF ShiftBreak, BreakCode, ShiftMake
    <3> QED  BY <2>2, <3>1 DEF ShiftUp, KeyInterrupt, keyboard_callback
  <2>3. ASSUME NEW make \in MakeCode, KeyDown(make) \/ KeyUp(make)
        PROVE  ShiftDoesNotStick'
    <3>1. make \notin ShiftMake /\ BreakCode(make) \notin ShiftMake
      BY <2>3, KeyboardAssumption DEF BreakCode, ShiftMake
    <3>2. UNCHANGED held /\ (UNCHANGED shift_pressed \/ shift_pressed' = FALSE)
      BY <2>3, <3>1 DEF KeyDown, KeyUp, KeyInterrupt, keyboard_callback
    <3> QED  BY <3>2
  <2>4. CASE TimerInterrupt \/ Reader
    BY <2>4 DEF TimerInterrupt, Reader, CallGetchar, Poll, Halt, LoadChar, AdvanceTail,
                ReaderUnchanged
  <2>5. CASE UNCHANGED vars
    BY <2>5 DEF vars
  <2> QED  BY <2>1, <2>2, <2>3, <2>4, <2>5 DEF Next
<1> QED  BY <1>1, <1>2, PTL DEF Spec

-----------------------------------------------------------------------------
(* The waiting characters as a sequence.                                    *)
ContentsFacts ==
  /\ Count \in 0 .. KEYBOARD_BUFFER_SIZE - 1
  /\ \A i \in 0 .. Count - 1 : Slot(i) \in Index /\ keyboard_buffer[Slot(i)] \in Char
  /\ Contents \in Seq(Char)
  /\ Len(Contents) = Count
  /\ \A i \in 1 .. Count : Contents[i] = keyboard_buffer[Slot(i - 1)]

LEMMA ContentsType == IInv => ContentsFacts
<1> SUFFICES ASSUME IInv PROVE ContentsFacts
  OBVIOUS
<1>1. /\ buffer_head \in Index /\ buffer_tail \in Index
      /\ Index = 0 .. KEYBOARD_BUFFER_SIZE - 1 /\ KEYBOARD_BUFFER_SIZE \in Nat \ {0}
  BY KeyboardAssumption DEF IInv, TypeOK, Index
<1>2. Count \in 0 .. KEYBOARD_BUFFER_SIZE - 1
  BY <1>1 DEF Count
<1>3. ASSUME NEW i \in 0 .. Count - 1
      PROVE  Slot(i) \in Index /\ keyboard_buffer[Slot(i)] \in Char
  BY <1>1, <1>2 DEF Count, Slot, IInv, SlotsFilled
<1>4. \A i \in 1 .. Count : i - 1 \in 0 .. Count - 1
  BY <1>2
<1>5. Contents \in [1 .. Count -> Char]
  BY <1>3, <1>4 DEF Contents
<1> QED  BY <1>2, <1>3, <1>5 DEF Contents, ContentsFacts

(* The slot a reader has read stays the oldest one, with its character,     *)
(* while the reader is interrupted before freeing it (keyboard.c:97-98).    *)
THEOREM LoadedCharCorrect == Spec => []LoadedCharIsOldest
<1>1. IInv => LoadedCharIsOldest
  BY KeyboardAssumption
     DEF IInv, ReaderInv, LoadedCharIsOldest, keyboard_haskey, Count, TypeOK, Index
<1> QED  BY <1>1, Invariance, PTL

(* The reader never gets a slot without a character (keyboard.c:74-78).     *)
THEOREM WaitingCharsCorrect == Spec => []OnlyTypedCharsWait
<1>1. IInv => OnlyTypedCharsWait
  BY ContentsType, ElementOfSeq DEF OnlyTypedCharsWait, ContentsFacts
<1> QED  BY <1>1, Invariance, PTL

-----------------------------------------------------------------------------
(* The driver implements the queue.  A character that is pushed is appended *)
(* to the waiting ones.                                                     *)
LEMMA PushAppends ==
  ASSUME IInv, IInv', NEW ch \in Char, UNCHANGED buffer_tail,
         After(buffer_head) # buffer_tail,
         keyboard_buffer' = [keyboard_buffer EXCEPT ![buffer_head] = ch],
         buffer_head' = After(buffer_head)
  PROVE  /\ Len(Contents) < KEYBOARD_BUFFER_SIZE - 1
         /\ Contents' = Append(Contents, ch)
<1>1. /\ keyboard_buffer \in [Index -> Char \cup {NUL}]
      /\ buffer_head \in Index /\ buffer_tail \in Index
      /\ Index = 0 .. KEYBOARD_BUFFER_SIZE - 1 /\ KEYBOARD_BUFFER_SIZE \in Nat \ {0}
  BY KeyboardAssumption DEF IInv, TypeOK, Index
<1>2. After(buffer_head) =
        IF buffer_head + 1 = KEYBOARD_BUFFER_SIZE THEN 0 ELSE buffer_head + 1
  BY <1>1, AfterValue
<1>3. Count' = Count + 1 /\ Count < KEYBOARD_BUFFER_SIZE - 1 /\ Slot(Count) = buffer_head
  BY <1>1, <1>2 DEF Count, Slot
<1>4. \A i \in 0 .. Count - 1 : Slot(i) # buffer_head /\ Slot(i) \in Index
  BY <1>1 DEF Count, Slot
<1>5. /\ Contents \in Seq(Char) /\ Len(Contents) = Count /\ Count \in Nat
      /\ \A i \in 1 .. Count : Contents[i] = keyboard_buffer[Slot(i - 1)]
  BY ContentsType DEF ContentsFacts
<1>6. /\ Contents' \in Seq(Char) /\ Len(Contents') = Count'
      /\ \A i \in 1 .. Count' : Contents'[i] = keyboard_buffer'[Slot(i - 1)]
  <2>1. /\ Contents' \in Seq(Char) /\ Len(Contents') = Count'
        /\ \A i \in 1 .. Count' : Contents'[i] = keyboard_buffer'[Slot(i - 1)']
    <3>1. (IInv => ContentsFacts)'
      BY ContentsType, PTL
    <3> QED  BY <3>1 DEF ContentsFacts
  <2> QED  BY <2>1 DEF Slot
<1>7. Contents' = Append(Contents, ch)
  <2>1. /\ Append(Contents, ch) \in Seq(Char)
        /\ Len(Append(Contents, ch)) = Count + 1
        /\ \A i \in 1 .. Count : Append(Contents, ch)[i] = Contents[i]
        /\ Append(Contents, ch)[Count + 1] = ch
    BY <1>5, AppendProperties
  <2>2. ASSUME NEW i \in 1 .. Count + 1
        PROVE  Contents'[i] = Append(Contents, ch)[i]
    <3>1. CASE i = Count + 1
      BY <1>1, <1>3, <1>5, <1>6, <2>1, <3>1
    <3>2. CASE i # Count + 1
      BY <1>1, <1>3, <1>4, <1>5, <1>6, <2>1, <3>2
    <3> QED  BY <3>1, <3>2
  <2> QED  BY <1>3, <1>6, <2>1, <2>2, SeqEqual
<1> QED  BY <1>3, <1>5, <1>7

(* The buffer the handler finds full holds all it can.                      *)
LEMMA FullIsCapacity ==
  ASSUME IInv, After(buffer_head) = buffer_tail
  PROVE  ~ (Len(Contents) < KEYBOARD_BUFFER_SIZE - 1)
<1>1. /\ buffer_head \in Index /\ buffer_tail \in Index
      /\ Index = 0 .. KEYBOARD_BUFFER_SIZE - 1 /\ KEYBOARD_BUFFER_SIZE \in Nat \ {0}
  BY KeyboardAssumption DEF IInv, TypeOK, Index
<1>2. After(buffer_head) =
        IF buffer_head + 1 = KEYBOARD_BUFFER_SIZE THEN 0 ELSE buffer_head + 1
  BY <1>1, AfterValue
<1>3. Count = KEYBOARD_BUFFER_SIZE - 1
  BY <1>1, <1>2 DEF Count
<1> QED  BY <1>1, <1>3, ContentsType DEF ContentsFacts

LEMMA ContentsStay ==
  ASSUME UNCHANGED <<keyboard_buffer, buffer_head, buffer_tail>>
  PROVE  Contents' = Contents
BY DEF Contents, Count, Slot

(* A key that goes down is the queue's Press of that key.                   *)
LEMMA KeyDownIsPress ==
  ASSUME IInv, IInv', NEW make \in MakeCode, KeyDown(make)
  PROVE  Queue!Press(make)
<1> DEFINE ch == Queue!Translation(make)
<1>1. make \notin ShiftMake /\ make \notin ShiftBreak /\ ~ (make >= \h80)
  BY KeyboardAssumption DEF ShiftBreak, BreakCode, ShiftMake
<1>2. /\ PushChar(ch) /\ UNCHANGED <<shift_pressed, buffer_tail, returned, held>>
      /\ typed' = [typed EXCEPT ![make] = ~ typed[make]]
  BY <1>1 DEF KeyDown, KeyInterrupt, keyboard_callback, Queue!Translation
<1>3. ch \in Char \cup {NUL}
  BY KeyboardAssumption DEF Queue!Translation
<1>4. Contents' = IF ch # NUL /\ Len(Contents) < KEYBOARD_BUFFER_SIZE - 1
                    THEN Append(Contents, ch)
                    ELSE Contents
  <2> HIDE DEF ch
  <2>1. CASE ch # NUL /\ After(buffer_head) # buffer_tail
    <3>1. /\ ch \in Char
          /\ keyboard_buffer' = [keyboard_buffer EXCEPT ![buffer_head] = ch]
          /\ buffer_head' = After(buffer_head)
          /\ UNCHANGED buffer_tail
      BY <1>2, <1>3, <2>1 DEF PushChar
    <3>2. /\ Len(Contents) < KEYBOARD_BUFFER_SIZE - 1
          /\ Contents' = Append(Contents, ch)
      BY <2>1, <3>1, PushAppends
    <3> QED  BY <2>1, <3>2
  <2>2. CASE ~ (ch # NUL /\ After(buffer_head) # buffer_tail)
    <3>1. Contents' = Contents
      BY <1>2, <2>2, ContentsStay DEF PushChar
    <3> QED  BY <2>2, <3>1, FullIsCapacity
  <2> QED  BY <2>1, <2>2
<1> QED  BY <1>2, <1>4 DEF Queue!Press

LEMMA AdvanceIsGet ==
  ASSUME IInv, IInv', AdvanceTail
  PROVE  Queue!Get
<1>1. /\ buffer_head \in Index /\ buffer_tail \in Index /\ buffer_head # buffer_tail
      /\ Index = 0 .. KEYBOARD_BUFFER_SIZE - 1 /\ KEYBOARD_BUFFER_SIZE \in Nat \ {0}
      /\ c = keyboard_buffer[buffer_tail]
  BY KeyboardAssumption DEF IInv, TypeOK, ReaderInv, keyboard_haskey, AdvanceTail, Index
<1>2. /\ buffer_tail' = After(buffer_tail)
      /\ After(buffer_tail) =
           IF buffer_tail + 1 = KEYBOARD_BUFFER_SIZE THEN 0 ELSE buffer_tail + 1
      /\ UNCHANGED <<keyboard_buffer, buffer_head>> /\ returned' = c
  BY <1>1, AfterValue DEF AdvanceTail, ReaderUnchanged
<1>3. Count > 0 /\ Count' = Count - 1 /\ Count \in Nat /\ Slot(0) = buffer_tail
  BY <1>1, <1>2 DEF Count, Slot
<1>4. \A i \in 0 .. Count - 2 : Slot(i)' = Slot(i + 1)
  BY <1>1, <1>2 DEF Count, Slot
<1>5. /\ Contents \in Seq(Char) /\ Len(Contents) = Count
      /\ \A i \in 1 .. Count : Contents[i] = keyboard_buffer[Slot(i - 1)]
  BY ContentsType DEF ContentsFacts
<1>6. /\ Contents' \in Seq(Char) /\ Len(Contents') = Count'
      /\ \A i \in 1 .. Count' : Contents'[i] = keyboard_buffer'[Slot(i - 1)']
  <2>1. (IInv => ContentsFacts)'
    BY ContentsType, PTL
  <2> QED  BY <2>1 DEF ContentsFacts
<1>7. Contents # <<>> /\ Head(Contents) = c
  BY <1>1, <1>3, <1>5
<1>8. Contents' = Tail(Contents)
  <2>1. /\ Tail(Contents) \in Seq(Char)
        /\ Len(Tail(Contents)) = Count - 1
        /\ \A i \in 1 .. Count - 1 : Tail(Contents)[i] = Contents[i + 1]
    BY <1>5, <1>7, HeadTailProperties
  <2>2. ASSUME NEW i \in 1 .. Count - 1
        PROVE  Contents'[i] = Tail(Contents)[i]
    <3>1. i - 1 \in 0 .. Count - 2 /\ i + 1 \in 1 .. Count
          /\ i - 1 + 1 = i /\ i + 1 - 1 = i
      BY <1>3
    <3>2. Slot(i - 1)' = Slot(i)
      BY <1>4, <3>1
    <3>3. Contents'[i] = keyboard_buffer[Slot(i)]
      <4>1. i \in 1 .. Count'
        BY <1>3
      <4>2. Contents'[i] = keyboard_buffer'[Slot(i - 1)']
        BY <1>6, <4>1
      <4> QED  BY <1>2, <3>2, <4>2
    <3>4. Contents[i + 1] = keyboard_buffer[Slot(i)]
      BY <1>5, <3>1
    <3> QED  BY <2>1, <3>3, <3>4
  <2> QED  BY <1>3, <1>6, <2>1, <2>2, SeqEqual
<1>9. UNCHANGED <<typed, held, shift_pressed>>
  BY DEF AdvanceTail, ReaderUnchanged
<1> QED  BY <1>2, <1>7, <1>8, <1>9 DEF Queue!Get

(* The interrupts of the shift keys switch the driver's flag; that of any   *)
(* other key going up does nothing.                                         *)
LEMMA ShiftDownEffect ==
  ASSUME NEW s \in ShiftMake, ShiftDown(s)
  PROVE  /\ held' = held \cup {s} /\ shift_pressed' = TRUE
         /\ UNCHANGED <<typed, keyboard_buffer, buffer_head, buffer_tail, returned>>
<1>1. s \notin ShiftBreak /\ ~ (s >= \h80) /\ s \notin MakeCode
  BY KeyboardAssumption DEF ShiftBreak, BreakCode, ShiftMake
<1> QED  BY <1>1 DEF ShiftDown, KeyInterrupt, keyboard_callback

LEMMA ShiftUpEffect ==
  ASSUME NEW s \in ShiftMake, ShiftUp(s)
  PROVE  /\ s \in held /\ held' = held \ {s} /\ shift_pressed' = FALSE
         /\ UNCHANGED <<typed, keyboard_buffer, buffer_head, buffer_tail, returned>>
<1>1. /\ BreakCode(s) \in ShiftBreak /\ BreakCode(s) \notin ShiftMake
      /\ BreakCode(s) \notin MakeCode
  BY KeyboardAssumption DEF ShiftBreak, BreakCode, ShiftMake
<1> QED  BY <1>1 DEF ShiftUp, KeyInterrupt, keyboard_callback

LEMMA KeyUpEffect ==
  ASSUME NEW make \in MakeCode, KeyUp(make)
  PROVE  UNCHANGED <<typed, held, shift_pressed, keyboard_buffer, buffer_head,
                     buffer_tail, returned>>
<1>1. /\ BreakCode(make) \notin ShiftBreak /\ BreakCode(make) \notin ShiftMake
      /\ BreakCode(make) \notin MakeCode /\ BreakCode(make) >= \h80
  BY KeyboardAssumption DEF ShiftBreak, BreakCode, ShiftMake
<1> QED  BY <1>1 DEF KeyUp, KeyInterrupt, keyboard_callback

(* Every step of the driver and its reader is one of the queue, or leaves   *)
(* the queue alone.                                                         *)
LEMMA StepImplementsQueue ==
  ASSUME IInv, IInv', [Next]_vars
  PROVE  [Queue!Next]_(Queue!vars)
<1>1. ASSUME NEW s \in ShiftMake, ShiftDown(s)
      PROVE  [Queue!Next]_(Queue!vars)
  <2>1. Queue!ShiftOn(s)
    BY <1>1, ShiftDownEffect, ContentsStay DEF Queue!ShiftOn
  <2> QED  BY <2>1 DEF Queue!Next
<1>2. ASSUME NEW s \in ShiftMake, ShiftUp(s)
      PROVE  [Queue!Next]_(Queue!vars)
  <2>1. Queue!ShiftOff(s)
    BY <1>2, ShiftUpEffect, ContentsStay DEF Queue!ShiftOff
  <2> QED  BY <2>1 DEF Queue!Next
<1>3. ASSUME NEW make \in MakeCode, KeyDown(make)
      PROVE  [Queue!Next]_(Queue!vars)
  BY <1>3, KeyDownIsPress DEF Queue!Next
<1>4. ASSUME NEW make \in MakeCode, KeyUp(make)
      PROVE  [Queue!Next]_(Queue!vars)
  BY <1>4, KeyUpEffect, ContentsStay DEF Queue!vars
<1>5. CASE AdvanceTail
  BY <1>5, AdvanceIsGet DEF Queue!Next
<1>6. CASE TimerInterrupt \/ CallGetchar \/ Poll \/ Halt \/ LoadChar \/ UNCHANGED vars
  BY <1>6, ContentsStay
     DEF TimerInterrupt, CallGetchar, Poll, Halt, LoadChar, ReaderUnchanged, vars, Queue!vars
<1> QED
  BY <1>1, <1>2, <1>3, <1>4, <1>5, <1>6 DEF Next, Reader

(* Every press of a key queues its character unless the buffer holds all it *)
(* can, and characters come out once each, unaltered, in the order they     *)
(* were typed (keyboard.c:49-79, 91-100).                                   *)
THEOREM QueueImplemented == Spec => ImplementsKeyQueue
<1>1. Init => Queue!Init
  <2> SUFFICES ASSUME Init PROVE Queue!Init
    OBVIOUS
  <2>1. Count = 0 /\ returned = NUL
    BY DEF Init, Count
  <2>2. Contents = <<>>
    BY <2>1 DEF Contents
  <2> QED  BY <2>1, <2>2 DEF Queue!Init, Init
<1>2. IInv /\ IInv' /\ [Next]_vars => [Queue!Next]_(Queue!vars)
  BY StepImplementsQueue
<1> QED  BY <1>1, <1>2, Invariance, PTL DEF Spec, ImplementsKeyQueue, Queue!Spec
=============================================================================
