-------------------------- MODULE MultitaskProofs --------------------------
(***************************************************************************)
(* Proofs about Multitask for any number of threads, any entry points, any *)
(* time slice, any width of the tick counter and any set of lines.         *)
(*                                                                         *)
(* The inductive invariant says where the context of every thread is: in   *)
(* the processor, in the interrupt frame of the handler that runs, or in   *)
(* the frames below the saved stack pointer of its PCB.  From it follow    *)
(* the safety properties and, in the last part, RoundRobin.                *)
(***************************************************************************)
EXTENDS Multitask, TLAPS

(* Slot 1 of the stack of t is an interrupt frame with the context of t.    *)
HoldsContext(t) ==
  \E v \in Vector : stack[t][1] = InterruptFrame(v, Saved(Started(t)))

Suspended(t) ==
  /\ esp[t].on = t
  /\ \/ t # Main /\ esp[t].sp = 1 /\ stack[t][1] = SwitchFrame("entry")
     \/ esp[t].sp = 2 /\ stack[t][2] = SwitchFrame("unstub") /\ HoldsContext(t)

BootInv ==
  /\ cpu.loc = "boot" => cpu = Birth[Main] /\ current_process \in {NULL, Main}
  /\ cpu.loc # "boot" => current_process # NULL
  /\ current_process = NULL => next_pid = 1 /\ process_queue = NULL
  /\ kernel_stack[Main] = NULL
  /\ current_process # NULL => /\ process_queue = Main
                               /\ current_process \in 1 .. next_pid - 1

CpuInv ==
  /\ cpu.loc \in {"body", "halted"} => InBody(cpu) = Started(current_process)
  /\ cpu.loc = "entry" => current_process # Main /\ cpu = Birth[current_process]
  /\ cpu.loc \in HandlerLoc =>
       /\ cpu.cpl = 0 /\ cpu.iflag = FALSE /\ cpu.ds = KERNEL_DS
       /\ cpu.regs = Kernel /\ cpu.on = current_process /\ cpu.sp = 1
       /\ HoldsContext(current_process)

ThreadInv ==
  \A t \in 1 .. next_pid - 1 :
    /\ kernel_stack[t] = (IF t = Main THEN NULL ELSE t)
    /\ t # current_process => Suspended(t)

TssInv == current_process \notin {NULL, Main} => tss = current_process

PicInv ==
  /\ cpu.loc # "irq" => inService = {}
  /\ cpu.loc = "irq" =>
       \E i \in Irq \cup {Spurious} :
         /\ IntNo = 32 + i
         /\ inService = {i, Line(i)} \/ (i = Spurious /\ inService = {})

IInv ==
  TypeOK /\ BootInv /\ RunQueueIsRing /\ CpuInv /\ ThreadInv /\ TssInv /\ PicInv

-----------------------------------------------------------------------------
(* The context a started thread runs in is its own, in ring 0 or ring 3.    *)
LEMMA StartedType ==
  ASSUME NEW t \in Thread
  PROVE  /\ Started(t) \in Cpu
         /\ Started(t).loc = "body"
         /\ Started(t).regs = t
         /\ Started(t).on = t
         /\ \/ /\ Started(t).cpl = 3
               /\ Started(t).sp = 1
               /\ Started(t).iflag
               /\ Started(t).ds = USER_DS
               /\ t # Main
            \/ /\ Started(t).cpl = 0
               /\ Started(t).sp = 0
               /\ Started(t).ds = KERNEL_DS
<1>1. CASE t = Main
  BY <1>1 DEF Started, Cpu, Main, Kernel, Thread, Slots, KERNEL_DS, ThreadLoc
<1>2. CASE t # Main /\ Entry[t] = "user"
  BY <1>2 DEF Started, Entered, Cpu, Main, Kernel, Thread, Slots, USER_DS,
              ThreadLoc
<1>3. CASE t # Main /\ Entry[t] # "user"
  BY <1>3 DEF Started, Entered, Cpu, Main, Kernel, Thread, Slots, KERNEL_DS,
              ThreadLoc
<1> QED  BY <1>1, <1>2, <1>3

(* What the stub saves of it is a context.                                  *)
LEMMA SavedType ==
  ASSUME NEW t \in Thread
  PROVE  Saved(Started(t)) \in Context
<1>1. Started(t) \in Cpu /\ Started(t).loc = "body" /\ Started(t).regs = t
  BY StartedType
<1> QED  BY <1>1 DEF Saved, Moved, Context, Cpu, Slots

(* What the stub pushes of it, the end of the stub restores.                *)
LEMMA SavedIsRestored ==
  ASSUME NEW t \in Thread, HoldsContext(t)
  PROVE  /\ Restored(t, 1) = Started(t)
         /\ stack[t][1].int_no \in Vector
<1>1. PICK v \in Vector : stack[t][1] = InterruptFrame(v, Saved(Started(t)))
  BY DEF HoldsContext
<1>2. stack[t][1].pushed = Saved(Started(t)) /\ stack[t][1].int_no = v
  BY <1>1 DEF InterruptFrame
<1>3. Started(t) \in Cpu /\ Started(t).on = t
      /\ (Started(t).cpl = 3 \/ Started(t).sp = 0)
  BY StartedType
<1>4. CASE Started(t).cpl = 3
  BY <1>2, <1>4 DEF Restored, Saved
<1>5. CASE Started(t).cpl # 3
  <2>1. Restored(t, 1) = Moved(Started(t), Started(t).loc, t, 0)
    BY <1>2, <1>5 DEF Restored, Saved, Moved
  <2> QED  BY <1>2, <1>3, <1>5, <2>1 DEF Moved, Cpu
<1> QED  BY <1>2, <1>4, <1>5

-----------------------------------------------------------------------------
(* The initial state.                                                       *)
LEMMA InitIInv == Init => IInv
<1> SUFFICES ASSUME Init PROVE IInv
  OBVIOUS
<1> USE DEF Init
<1>1. TypeOK
  <2>1. Main \in Thread /\ tick \in 0 .. TICKS - 1 /\ next_pid \in 1 .. N + 1
    BY MultitaskAssumption DEF Main, Thread
  <2>2. cpu \in Cpu
    BY <2>1 DEF Cpu, ThreadLoc, Slots
  <2>3. stack \in [Thread -> [1 .. Slots -> Frame]]
    BY DEF Frame
  <2>4. esp \in [Thread -> [on : Thread \cup {NULL}, sp : 0 .. Slots]]
    BY DEF Slots
  <2>5. /\ next \in [Thread -> Thread \cup {NULL}]
        /\ kernel_stack \in [Thread -> Thread \cup {NULL}]
    OBVIOUS
  <2>6. /\ {current_process, process_queue, tss} \subseteq Thread \cup {NULL}
        /\ since \in Nat
        /\ irr \subseteq Irq
        /\ inService \subseteq 0 .. 15
    OBVIOUS
  <2> HIDE DEF Init
  <2> QED  BY <2>1, <2>2, <2>3, <2>4, <2>5, <2>6 DEF TypeOK
<1>2. BootInv
  BY MultitaskAssumption DEF BootInv, Birth, Main, NULL, Thread
<1>3. RunQueueIsRing /\ CpuInv /\ ThreadInv /\ TssInv /\ PicInv
  BY DEF RunQueueIsRing, CpuInv, ThreadInv, TssInv, PicInv, HandlerLoc
<1> QED  BY <1>1, <1>2, <1>3 DEF IInv

(* A request changes nothing but the request register.                      *)
LEMMA RaiseIrqStep ==
  ASSUME IInv, NEW i \in Irq, RaiseIrq(i)
  PROVE  IInv'
<1> USE DEF RaiseIrq, processVars, timerVars
<1>1. TypeOK'
  BY DEF IInv, TypeOK
<1>2. BootInv' /\ RunQueueIsRing' /\ TssInv' /\ PicInv'
  BY DEF IInv, BootInv, RunQueueIsRing, TssInv, PicInv, IntNo
<1>3. CpuInv'
  BY DEF IInv, CpuInv, HoldsContext
<1>4. ThreadInv'
  BY DEF IInv, ThreadInv, Suspended, HoldsContext
<1> QED  BY <1>1, <1>2, <1>3, <1>4 DEF IInv

-----------------------------------------------------------------------------
(* Taking an interrupt saves the context of the running thread in slot 1 of *)
(* its own stack, from ring 0 or from ring 3.                               *)
LEMMA InterruptSavesContext ==
  ASSUME IInv, NEW v \in Vector, NEW loc \in {"irq", "isr"}, Interrupt(v, loc),
         cpu.loc \in {"body", "halted"}
  PROVE  /\ current_process \in Thread
         /\ stack' = [stack EXCEPT ![current_process] =
                        [@ EXCEPT ![1] =
                          InterruptFrame(v, Saved(Started(current_process)))]]
         /\ cpu' = [loc |-> loc, cpl |-> 0, iflag |-> FALSE, ds |-> KERNEL_DS,
                    regs |-> Kernel, on |-> current_process, sp |-> 1]
<1> DEFINE t == current_process
<1>1. t # NULL /\ t \in Thread /\ InBody(cpu) = Started(t) /\ cpu \in Cpu
  BY DEF IInv, TypeOK, BootInv, CpuInv
<1>2. /\ Started(t).on = t
      /\ Started(t).cpl = 3 => Started(t).sp = 1 /\ t # Main
      /\ Started(t).cpl # 3 => Started(t).sp = 0
  BY <1>1, StartedType
<1>3. cpu.cpl = Started(t).cpl /\ cpu.on = Started(t).on /\ cpu.sp = Started(t).sp
  BY <1>1 DEF InBody, Cpu
<1>4. cpu.cpl = 3 => tss = t
  BY <1>1, <1>2, <1>3 DEF IInv, TssInv
<1>5. Pushed = Saved(Started(t))
  BY <1>1 DEF Pushed
<1>6. (IF cpu.cpl = 3 THEN tss ELSE cpu.on) = t /\ (IF cpu.cpl = 3 THEN 0 ELSE cpu.sp) = 0
  BY <1>2, <1>3, <1>4
<1>7. /\ stack' = [stack EXCEPT ![t][0 + 1] = InterruptFrame(v, Pushed)]
      /\ cpu' = [loc |-> loc, cpl |-> 0, iflag |-> FALSE, ds |-> KERNEL_DS,
                 regs |-> Kernel, on |-> t, sp |-> 0 + 1]
  BY <1>6, Zenon DEF Interrupt, FlagInHandler
<1> QED  BY <1>1, <1>5, <1>7

LEMMA InterruptKeepsIInv ==
  ASSUME IInv, NEW v \in Vector, NEW loc \in {"irq", "isr"}, Interrupt(v, loc),
         cpu.loc \in {"body", "halted"},
         UNCHANGED <<processVars, timerVars>>,
         irr' \subseteq Irq, inService' \subseteq 0 .. 15, PicInv'
  PROVE  IInv'
<1> DEFINE t == current_process
           frame == InterruptFrame(v, Saved(Started(t)))
<1>1. /\ t \in Thread
      /\ stack' = [stack EXCEPT ![t] = [@ EXCEPT ![1] = frame]]
      /\ cpu' = [loc |-> loc, cpl |-> 0, iflag |-> FALSE, ds |-> KERNEL_DS,
                 regs |-> Kernel, on |-> t, sp |-> 1]
  BY InterruptSavesContext
<1>2. stack \in [Thread -> [1 .. Slots -> Frame]] /\ 1 \in 1 .. Slots
  BY DEF IInv, TypeOK, Slots
<1>3. /\ stack'[t][1] = frame
      /\ \A u \in Thread \ {t} : stack'[u] = stack[u]
  BY <1>1, <1>2
<1>4. frame \in Frame
  BY <1>1, SavedType DEF Frame, InterruptFrame
<1>5. TypeOK'
  <2>1. stack' \in [Thread -> [1 .. Slots -> Frame]]
    BY <1>1, <1>2, <1>4
  <2>2. cpu' \in Cpu
    BY <1>1 DEF Cpu, HandlerLoc, Slots
  <2> QED  BY <2>1, <2>2 DEF IInv, TypeOK, processVars, timerVars
<1>6. BootInv' /\ RunQueueIsRing' /\ TssInv'
  BY <1>1 DEF IInv, BootInv, RunQueueIsRing, TssInv, processVars
<1>7. CpuInv'
  BY <1>1, <1>3 DEF CpuInv, HoldsContext, HandlerLoc, processVars
<1>8. ThreadInv'
  <2> SUFFICES ASSUME NEW u \in 1 .. next_pid - 1
               PROVE  /\ kernel_stack[u] = (IF u = Main THEN NULL ELSE u)
                      /\ u # t => Suspended(u)'
    BY DEF ThreadInv, processVars
  <2>1. u \in Thread
    BY MultitaskAssumption DEF IInv, TypeOK, Thread
  <2> QED  BY <1>3, <2>1 DEF IInv, ThreadInv, Suspended, HoldsContext, processVars
<1> QED  BY <1>5, <1>6, <1>7, <1>8 DEF IInv

(* Interrupts are off in the boot code, in handlers and on the way into a   *)
(* new thread.                                                              *)
LEMMA InterruptibleOnlyInBody ==
  ASSUME IInv, cpu.iflag
  PROVE  cpu.loc \in {"body", "halted"}
<1>1. cpu.loc \in ThreadLoc \cup HandlerLoc \cup {"entry"}
  BY DEF IInv, TypeOK, Cpu
<1>2. cpu.loc # "boot"
  BY MultitaskAssumption DEF IInv, BootInv, Birth, Main, Thread
<1>3. cpu.loc # "entry"
  <2>1. SUFFICES ASSUME cpu.loc = "entry" PROVE FALSE
    OBVIOUS
  <2>2. current_process \in Thread /\ cpu = Birth[current_process]
    BY <2>1 DEF IInv, TypeOK, BootInv, CpuInv
  <2> QED  BY <2>2 DEF Birth
<1>4. cpu.loc \notin HandlerLoc
  BY DEF IInv, CpuInv
<1> QED  BY <1>1, <1>2, <1>3, <1>4 DEF ThreadLoc

(* A request of the controllers.  Only the line taken is in service then.   *)
LEMMA DeliverStep ==
  ASSUME IInv, NEW i \in Irq, Deliver(i)
  PROVE  IInv'
<1>1. cpu.loc \in {"body", "halted"}
  BY InterruptibleOnlyInBody DEF Deliver
<1>2. i \in 0 .. 15 /\ Line(i) \in 0 .. 7 /\ 32 + i \in Vector
  BY MultitaskAssumption DEF Line, Vector
<1>3. inService = {} /\ inService' = {i, Line(i)}
  BY <1>1 DEF IInv, PicInv, Deliver
<1>4. cpu'.loc = "irq" /\ IntNo' = 32 + i
  <2>1. /\ current_process \in Thread
        /\ stack' = [stack EXCEPT ![current_process] =
                       [@ EXCEPT ![1] =
                         InterruptFrame(32 + i, Saved(Started(current_process)))]]
        /\ cpu' = [loc |-> "irq", cpl |-> 0, iflag |-> FALSE, ds |-> KERNEL_DS,
                   regs |-> Kernel, on |-> current_process, sp |-> 1]
    BY <1>1, <1>2, InterruptSavesContext DEF Deliver
  <2>2. stack \in [Thread -> [1 .. Slots -> Frame]]
    BY DEF IInv, TypeOK
  <2> QED  BY <2>1, <2>2 DEF IntNo, InterruptFrame, Slots
<1>5. PicInv'
  BY <1>3, <1>4 DEF PicInv
<1>6. irr' \subseteq Irq /\ inService' \subseteq 0 .. 15
  BY <1>2, <1>3 DEF IInv, TypeOK, Deliver
<1> QED  BY <1>1, <1>2, <1>5, <1>6, InterruptKeepsIInv DEF Deliver

LEMMA DeliverSpuriousStep ==
  ASSUME IInv, DeliverSpurious
  PROVE  IInv'
<1>1. cpu.loc \in {"body", "halted"}
  BY InterruptibleOnlyInBody DEF DeliverSpurious
<1>2. 32 + Spurious \in Vector
  BY DEF Vector
<1>3. inService = {} /\ inService' = {}
  BY <1>1 DEF IInv, PicInv, DeliverSpurious, picVars
<1>4. cpu'.loc = "irq" /\ IntNo' = 32 + Spurious
  <2>1. /\ current_process \in Thread
        /\ stack' = [stack EXCEPT ![current_process] =
                       [@ EXCEPT ![1] =
                         InterruptFrame(32 + Spurious, Saved(Started(current_process)))]]
        /\ cpu' = [loc |-> "irq", cpl |-> 0, iflag |-> FALSE, ds |-> KERNEL_DS,
                   regs |-> Kernel, on |-> current_process, sp |-> 1]
    BY <1>1, <1>2, InterruptSavesContext DEF DeliverSpurious
  <2>2. stack \in [Thread -> [1 .. Slots -> Frame]]
    BY DEF IInv, TypeOK
  <2> QED  BY <2>1, <2>2 DEF IntNo, InterruptFrame, Slots
<1>5. PicInv'
  BY <1>3, <1>4 DEF PicInv
<1>6. irr' \subseteq Irq /\ inService' \subseteq 0 .. 15
  BY <1>3 DEF IInv, TypeOK, DeliverSpurious, picVars
<1> QED  BY <1>1, <1>2, <1>5, <1>6, InterruptKeepsIInv DEF DeliverSpurious

LEMMA UserTrapStep ==
  ASSUME IInv, NEW v \in {14, 128}, UserTrap(v)
  PROVE  IInv'
<1>1. cpu.loc \in {"body", "halted"} /\ v \in Vector
  BY DEF UserTrap, Executes, Vector
<1>2. inService' = {} /\ cpu'.loc # "irq"
  BY <1>1 DEF IInv, PicInv, UserTrap, Executes, picVars, Interrupt
<1>3. PicInv'
  BY <1>2 DEF PicInv
<1>4. irr' \subseteq Irq /\ inService' \subseteq 0 .. 15
  BY DEF IInv, TypeOK, UserTrap, picVars
<1> QED  BY <1>1, <1>3, <1>4, InterruptKeepsIInv DEF UserTrap

-----------------------------------------------------------------------------
(* A handler that goes on to its next part, with no line in service.        *)
LEMMA HandlerKeepsIInv ==
  ASSUME IInv, cpu.loc \in HandlerLoc,
         NEW loc \in HandlerLoc \ {"irq"}, cpu' = [cpu EXCEPT !.loc = loc],
         UNCHANGED <<processVars, stack, irr>>,
         tick' \in 0 .. TICKS - 1, since' \in Nat, inService' = {}
  PROVE  IInv'
<1>1. /\ cpu \in Cpu
      /\ cpu.cpl = 0 /\ cpu.iflag = FALSE /\ cpu.ds = KERNEL_DS
      /\ cpu.regs = Kernel /\ cpu.on = current_process /\ cpu.sp = 1
      /\ HoldsContext(current_process)
      /\ current_process \in Thread
  BY DEF IInv, TypeOK, BootInv, CpuInv, HandlerLoc
<1>2. cpu' = [loc |-> loc, cpl |-> 0, iflag |-> FALSE, ds |-> KERNEL_DS,
             regs |-> Kernel, on |-> current_process, sp |-> 1]
  BY <1>1 DEF Cpu
<1>3. cpu' \in Cpu
  <2>1. loc \in ThreadLoc \cup HandlerLoc \cup {"entry"} /\ 1 \in 0 .. Slots
    BY DEF Slots
  <2>2. cpu' \in [loc : ThreadLoc \cup HandlerLoc \cup {"entry"}, cpl : {0, 3},
                  iflag : BOOLEAN, ds : {KERNEL_DS, USER_DS}, regs : {Kernel} \cup Thread,
                  on : Thread, sp : 0 .. Slots]
    BY <1>1, <1>2, <2>1
  <2> QED  BY <2>2 DEF Cpu
<1>4. TypeOK'
  BY <1>3 DEF IInv, TypeOK, processVars
<1>5. BootInv' /\ RunQueueIsRing' /\ TssInv' /\ PicInv'
  BY <1>2 DEF IInv, BootInv, RunQueueIsRing, TssInv, PicInv, processVars, HandlerLoc
<1>6. CpuInv'
  BY <1>1, <1>2 DEF CpuInv, HoldsContext, HandlerLoc, processVars
<1>7. ThreadInv'
  BY DEF IInv, ThreadInv, Suspended, HoldsContext, processVars
<1> QED  BY <1>4, <1>5, <1>6, <1>7 DEF IInv

(* The bit of a line, and of the slave's line in the master, is cleared.    *)
LEMMA EoiClears ==
  ASSUME NEW i \in 0 .. 15
  PROVE  /\ AfterEoi(i, {i, Line(i)}) = {}
         /\ AfterEoi(i, {}) = {}
<1>1. \A j \in Nat : Least({j}) = j
  BY DEF Least
<1>2. CASE i < 8
  <2>3. Line(i) = i /\ i \in 0 .. 7
    BY <1>2 DEF Line
  <2>1. {i, Line(i)} = {i} /\ {i} \cap (0 .. 7) = {i}
    BY <2>3
  <2>2. EoiTo(0 .. 7, {i, Line(i)}) = {}
    BY <1>1, <2>1 DEF EoiTo
  <2> QED  BY <1>2, <2>2 DEF AfterEoi, EoiTo
<1>3. CASE i >= 8
  <2>1. Line(i) = 2 /\ i # 2
    BY <1>3 DEF Line
  <2>2. {i, 2} \cap (8 .. 15) = {i}
    <3>1. i \in 8 .. 15 /\ 2 \notin 8 .. 15
      BY <1>3
    <3> QED  BY <3>1
  <2>4. EoiTo(8 .. 15, {i, Line(i)}) = {2}
    BY <1>1, <2>1, <2>2 DEF EoiTo
  <2>3. EoiTo(0 .. 7, {2}) = {}
    <3>1. {2} \cap (0 .. 7) = {2}
      OBVIOUS
    <3> QED  BY <1>1, <3>1 DEF EoiTo
  <2> QED  BY <1>3, <2>4, <2>3 DEF AfterEoi, EoiTo
<1> QED  BY <1>2, <1>3

LEMMA IrqHandlerStep ==
  ASSUME IInv, irq_handler
  PROVE  IInv'
<1>1. PICK i \in Irq \cup {Spurious} :
        /\ IntNo = 32 + i
        /\ inService = {i, Line(i)} \/ (i = Spurious /\ inService = {})
  BY DEF IInv, PicInv, irq_handler
<1>2. i \in 0 .. 15 /\ IntNo - 32 = i
  BY <1>1, MultitaskAssumption DEF Spurious
<1>3. inService' = {}
  BY <1>1, <1>2, EoiClears DEF irq_handler, pic_send_eoi
<1>4. tick' \in 0 .. TICKS - 1 /\ since' \in Nat
  BY DEF IInv, TypeOK, irq_handler, timerVars
<1> QED  BY <1>3, <1>4, HandlerKeepsIInv DEF irq_handler, HandlerLoc

LEMMA PitCallbackStep ==
  ASSUME IInv, pit_callback
  PROVE  IInv'
<1>1. inService' = {}
  BY DEF IInv, PicInv, pit_callback, picVars
<1>2. tick' \in 0 .. TICKS - 1 /\ since' \in Nat
  BY MultitaskAssumption DEF IInv, TypeOK, pit_callback
<1> QED  BY <1>1, <1>2, HandlerKeepsIInv DEF pit_callback, HandlerLoc, picVars

LEMMA OtherIrqHandlerStep ==
  ASSUME IInv, OtherIrqHandler
  PROVE  IInv'
<1>1. inService' = {} /\ tick' \in 0 .. TICKS - 1 /\ since' \in Nat
  BY DEF IInv, TypeOK, PicInv, OtherIrqHandler, picVars, timerVars
<1> QED  BY <1>1, HandlerKeepsIInv DEF OtherIrqHandler, HandlerLoc, picVars

LEMMA IsrHandlerStep ==
  ASSUME IInv, isr_handler
  PROVE  IInv'
<1>1. inService' = {} /\ tick' \in 0 .. TICKS - 1 /\ since' \in Nat
  BY DEF IInv, TypeOK, PicInv, isr_handler, picVars, timerVars
<1> QED  BY <1>1, HandlerKeepsIInv DEF isr_handler, HandlerLoc, picVars

(* The end of the stub gives the running thread its own context back.       *)
LEMMA ReturnStep ==
  ASSUME IInv, ReturnFromInterrupt
  PROVE  IInv'
<1> DEFINE t == current_process
<1>1. /\ t \in Thread /\ t # NULL
      /\ HoldsContext(t) /\ cpu.on = t /\ cpu.sp = 1
  BY DEF IInv, TypeOK, BootInv, CpuInv, HandlerLoc, ReturnFromInterrupt
<1>2. cpu' = Started(t)
  BY <1>1, SavedIsRestored DEF ReturnFromInterrupt
<1>3. cpu' \in Cpu /\ cpu'.loc = "body"
  BY <1>1, <1>2, StartedType
<1>4. TypeOK'
  BY <1>3 DEF IInv, TypeOK, ReturnFromInterrupt, processVars, timerVars, picVars
<1>5. BootInv' /\ RunQueueIsRing' /\ TssInv'
  BY <1>1, <1>3 DEF IInv, BootInv, RunQueueIsRing, TssInv, ReturnFromInterrupt, processVars
<1>6. PicInv'
  BY <1>3 DEF IInv, PicInv, ReturnFromInterrupt, picVars
<1>7. CpuInv'
  BY <1>2, <1>3 DEF CpuInv, InBody, HandlerLoc, ReturnFromInterrupt, processVars
<1>8. ThreadInv'
  BY DEF IInv, ThreadInv, Suspended, HoldsContext, ReturnFromInterrupt, processVars
<1> QED  BY <1>4, <1>5, <1>6, <1>7, <1>8 DEF IInv

-----------------------------------------------------------------------------
(* The next thread of the ring exists, and is another one when there are    *)
(* two.                                                                     *)
LEMMA NextThread ==
  ASSUME IInv, current_process # NULL
  PROVE  /\ current_process \in 1 .. next_pid - 1
         /\ next_pid - 1 \in Thread
         /\ next[current_process] =
              (IF current_process = next_pid - 1 THEN Main ELSE current_process + 1)
         /\ next[current_process] \in 1 .. next_pid - 1
         /\ next[current_process] \in Thread
<1>1. N \in Nat /\ next_pid \in 1 .. N + 1 /\ current_process \in 1 .. next_pid - 1
  BY MultitaskAssumption DEF IInv, TypeOK, BootInv
<1>2. next[current_process] =
        (IF current_process = next_pid - 1 THEN Main ELSE current_process + 1)
  BY <1>1 DEF IInv, RunQueueIsRing
<1>3. next[current_process] \in 1 .. next_pid - 1
  BY <1>1, <1>2 DEF Main
<1> QED  BY <1>1, <1>2, <1>3 DEF Thread

(* The switch: the frame of switch_task goes above the interrupt frame of   *)
(* the old thread, and the new thread is entered or goes on in its handler. *)
LEMMA SwitchStep ==
  ASSUME IInv, process_schedule,
         current_process # NULL, next[current_process] # current_process
  PROVE  IInv'
<1>0. PICK from \in Thread, to \in Thread :
        from = current_process /\ to = next[current_process]
  BY NextThread DEF IInv, TypeOK
<1>1. /\ from \in Thread /\ to \in Thread /\ from # to
      /\ from \in 1 .. next_pid - 1 /\ to \in 1 .. next_pid - 1
  BY <1>0, NextThread
<1>2. /\ cpu \in Cpu /\ cpu.cpl = 0 /\ cpu.iflag = FALSE /\ cpu.ds = KERNEL_DS
      /\ cpu.regs = Kernel /\ cpu.on = from /\ cpu.sp = 1
      /\ HoldsContext(from)
  BY <1>0 DEF IInv, TypeOK, CpuInv, HandlerLoc, process_schedule
<1>3. /\ stack' = [stack EXCEPT ![from] = [@ EXCEPT ![2] = SwitchFrame("unstub")]]
      /\ esp' = [esp EXCEPT ![from] = [on |-> from, sp |-> 2]]
      /\ cpu' = Moved(cpu, stack[esp[to].on][esp[to].sp].ret, esp[to].on, esp[to].sp - 1)
      /\ tss' = kernel_stack[to]
      /\ current_process' = to
  BY <1>0, <1>2 DEF process_schedule, switch_task, tss_set_stack
<1>4. Suspended(to) /\ kernel_stack[to] = (IF to = Main THEN NULL ELSE to)
  BY <1>0, <1>1 DEF IInv, ThreadInv
<1>5. /\ stack \in [Thread -> [1 .. Slots -> Frame]] /\ 1 \in 1 .. Slots /\ 2 \in 1 .. Slots
      /\ esp \in [Thread -> [on : Thread \cup {NULL}, sp : 0 .. Slots]]
  BY DEF IInv, TypeOK, Slots
<1>6. /\ \A u \in Thread : stack'[u][1] = stack[u][1]
      /\ \A u \in Thread \ {from} : stack'[u] = stack[u] /\ esp'[u] = esp[u]
      /\ stack'[from][2] = SwitchFrame("unstub")
      /\ esp'[from].on = from /\ esp'[from].sp = 2
  <2>1. stack' = [stack EXCEPT ![from] = [@ EXCEPT ![2] = SwitchFrame("unstub")]]
    BY <1>3
  <2>2. /\ \A u \in Thread \ {from} : stack'[u] = stack[u]
        /\ stack'[from] = [stack[from] EXCEPT ![2] = SwitchFrame("unstub")]
    BY <1>1, <1>5, <2>1
  <2>3. stack'[from][1] = stack[from][1] /\ stack'[from][2] = SwitchFrame("unstub")
    <3>1. stack[from] \in [1 .. Slots -> Frame]
      BY <1>1, <1>5
    <3> QED  BY <1>5, <2>2, <3>1
  <2>4. esp' = [esp EXCEPT ![from] = [on |-> from, sp |-> 2]]
    BY <1>3
  <2>5. /\ \A u \in Thread \ {from} : esp'[u] = esp[u]
        /\ esp'[from].on = from /\ esp'[from].sp = 2
    BY <1>1, <1>5, <2>4
  <2> QED  BY <2>2, <2>3, <2>5
<1>7. UNCHANGED <<process_queue, next, next_pid, kernel_stack, tick, irr, inService>>
      /\ since' = 0
  BY DEF process_schedule, picVars
<1>8. \/ /\ to # Main
         /\ cpu' = [loc |-> "entry", cpl |-> 0, iflag |-> FALSE, ds |-> KERNEL_DS,
                    regs |-> Kernel, on |-> to, sp |-> 0]
      \/ /\ HoldsContext(to)
         /\ cpu' = [loc |-> "unstub", cpl |-> 0, iflag |-> FALSE, ds |-> KERNEL_DS,
                    regs |-> Kernel, on |-> to, sp |-> 1]
  <2>1. CASE to # Main /\ esp[to].on = to /\ esp[to].sp = 1
             /\ stack[to][1] = SwitchFrame("entry")
    <3>1. stack[to][1].ret = "entry" /\ 1 - 1 = 0
      BY <2>1 DEF SwitchFrame
    <3>2. cpu' = Moved(cpu, "entry", to, 0)
      BY <1>3, <2>1, <3>1
    <3> QED  BY <1>2, <2>1, <3>2 DEF Moved
  <2>2. CASE esp[to].on = to /\ esp[to].sp = 2 /\ HoldsContext(to)
             /\ stack[to][2] = SwitchFrame("unstub")
    <3>1. stack[to][2].ret = "unstub" /\ 2 - 1 = 1
      BY <2>2 DEF SwitchFrame
    <3>2. cpu' = Moved(cpu, "unstub", to, 1)
      BY <1>3, <2>2, <3>1
    <3> QED  BY <1>2, <2>2, <3>2 DEF Moved
  <2> QED  BY <1>4, <2>1, <2>2 DEF Suspended
<1>9. cpu' \in Cpu
  <2>1. {0, 1} \subseteq 0 .. Slots /\ {"entry", "unstub"} \subseteq HandlerLoc \cup {"entry"}
    BY DEF Slots, HandlerLoc
  <2>2. ASSUME NEW loc \in {"entry", "unstub"}, NEW sp \in {0, 1}
        PROVE  [loc |-> loc, cpl |-> 0, iflag |-> FALSE, ds |-> KERNEL_DS,
                regs |-> Kernel, on |-> to, sp |-> sp] \in Cpu
    BY <1>1, <2>1 DEF Cpu
  <2> QED  BY <1>8, <2>2
<1>10. TypeOK'
  <2>1. stack' \in [Thread -> [1 .. Slots -> Frame]]
    <3>1. SwitchFrame("unstub") \in Frame
      BY DEF Frame, SwitchFrame
    <3> QED  BY <1>1, <1>3, <1>5, <3>1
  <2>2. esp' \in [Thread -> [on : Thread \cup {NULL}, sp : 0 .. Slots]]
    BY <1>1, <1>3, <1>5 DEF Slots
  <2>3. tss' \in Thread \cup {NULL} /\ current_process' \in Thread \cup {NULL}
    BY <1>1, <1>3, <1>4
  <2> QED  BY <1>7, <1>9, <2>1, <2>2, <2>3 DEF IInv, TypeOK
<1>11. BootInv'
  <2>1. cpu'.loc # "boot" /\ to # NULL
    BY <1>1, <1>8 DEF NULL, Thread
  <2>2. process_queue = Main /\ kernel_stack[Main] = NULL
    BY DEF IInv, BootInv
  <2> QED  BY <1>1, <1>3, <1>7, <2>1, <2>2 DEF BootInv
<1>12. RunQueueIsRing' /\ TssInv'
  BY <1>0, <1>1, <1>3, <1>4, <1>7 DEF IInv, RunQueueIsRing, TssInv
<1>13. PicInv'
  BY <1>7, <1>8 DEF IInv, PicInv, process_schedule
<1>14. CpuInv'
  <2>1. HoldsContext(to) => HoldsContext(to)'
    <3>1. stack'[to][1] = stack[to][1]
      BY <1>1, <1>6
    <3> QED  BY <3>1 DEF HoldsContext
  <2>2. CASE cpu'.loc = "entry"
    <3>1. to # Main /\ cpu' = Birth[to]
      BY <1>1, <1>8, <2>2 DEF Birth
    <3> QED  BY <1>3, <2>2, <3>1 DEF CpuInv, HandlerLoc
  <2>3. CASE cpu'.loc = "unstub"
    <3>1. /\ HoldsContext(to)' /\ cpu'.cpl = 0 /\ cpu'.iflag = FALSE
          /\ cpu'.ds = KERNEL_DS /\ cpu'.regs = Kernel /\ cpu'.on = to /\ cpu'.sp = 1
      BY <1>8, <2>1, <2>3
    <3> QED  BY <1>3, <2>3, <3>1 DEF CpuInv, HandlerLoc
  <2> QED  BY <1>8, <2>2, <2>3
<1>15. ThreadInv'
  <2> SUFFICES ASSUME NEW u \in 1 .. next_pid - 1
               PROVE  /\ kernel_stack[u] = (IF u = Main THEN NULL ELSE u)
                      /\ u # to => Suspended(u)'
    BY <1>3, <1>7 DEF ThreadInv
  <2>1. u \in Thread
    BY MultitaskAssumption DEF IInv, TypeOK, Thread
  <2>2. CASE u = from
    BY <1>0, <1>2, <1>6, <2>1, <2>2 DEF IInv, ThreadInv, Suspended, HoldsContext
  <2>3. CASE u # from
    BY <1>0, <1>6, <2>1, <2>3 DEF IInv, ThreadInv, Suspended, HoldsContext
  <2> QED  BY <2>2, <2>3
<1> QED  BY <1>10, <1>11, <1>12, <1>13, <1>14, <1>15 DEF IInv

LEMMA ScheduleStep ==
  ASSUME IInv, process_schedule
  PROVE  IInv'
<1>1. CASE current_process = NULL \/ next[current_process] = current_process
  <2>1. inService' = {} /\ tick' \in 0 .. TICKS - 1 /\ since' \in Nat
    BY DEF IInv, TypeOK, PicInv, process_schedule, picVars
  <2>2. /\ cpu' = [cpu EXCEPT !.loc = "unstub"]
        /\ UNCHANGED <<processVars, stack, irr>>
    BY <1>1 DEF process_schedule, processVars, picVars
  <2> QED  BY <2>1, <2>2, HandlerKeepsIInv DEF process_schedule, HandlerLoc
<1>2. CASE ~ (current_process = NULL \/ next[current_process] = current_process)
  BY <1>2, SwitchStep
<1> QED  BY <1>1, <1>2

-----------------------------------------------------------------------------
(* The threads' own steps.                                                  *)
LEMMA InitializeStep ==
  ASSUME IInv, process_initialize
  PROVE  IInv'
<1> USE DEF process_initialize, Executes, timerVars, picVars
<1>1. next_pid = 1 /\ N \in Nat \ {0} /\ Main \in Thread /\ Main # NULL
  BY MultitaskAssumption DEF IInv, BootInv, Main, NULL, Thread
<1>2. current_process' = Main /\ process_queue' = Main /\ next_pid' = 2
      /\ next' = [next EXCEPT ![Main] = Main]
  BY <1>1 DEF Main
<1>3. TypeOK'
  BY <1>1, <1>2 DEF IInv, TypeOK
<1>4. BootInv'
  BY <1>1, <1>2 DEF IInv, BootInv, Main
<1>5. RunQueueIsRing'
  BY <1>1, <1>2 DEF IInv, TypeOK, RunQueueIsRing, Main
<1>6. CpuInv' /\ TssInv' /\ PicInv'
  BY <1>2 DEF IInv, CpuInv, TssInv, PicInv, HandlerLoc, IntNo
<1>7. ThreadInv'
  <2>1. kernel_stack[Main] = NULL
    BY DEF IInv, BootInv
  <2> QED  BY <1>2, <2>1 DEF ThreadInv, Main
<1> QED  BY <1>3, <1>4, <1>5, <1>6, <1>7 DEF IInv

(* The last thread of the ring is the one the search ends at.               *)
LEMMA LastOfRing ==
  ASSUME IInv, current_process # NULL
  PROVE  LastOfQueue = next_pid - 1
<1>1. N \in Nat /\ next_pid \in 1 .. N + 1 /\ process_queue = Main
      /\ next_pid - 1 \in 1 .. next_pid - 1
  BY MultitaskAssumption DEF IInv, TypeOK, BootInv
<1>2. \A p \in 1 .. next_pid - 1 : next[p] = process_queue <=> p = next_pid - 1
  BY <1>1 DEF IInv, RunQueueIsRing, Main
<1> QED  BY <1>1, <1>2 DEF LastOfQueue

LEMMA CreateThreadStep ==
  ASSUME IInv, process_create_thread
  PROVE  IInv'
<1>1. PICK proc \in Thread, last \in Thread :
        /\ proc = next_pid /\ last = next_pid - 1
        /\ last \in 1 .. next_pid - 1 /\ proc # Main /\ proc # NULL
        /\ next_pid \in 1 .. N /\ N \in Nat
  BY MultitaskAssumption
     DEF IInv, TypeOK, BootInv, process_create_thread, Thread, Main, NULL
<1>2. /\ next' = [next EXCEPT ![last] = proc, ![proc] = Main]
      /\ kernel_stack' = [kernel_stack EXCEPT ![proc] = proc]
      /\ stack' = [stack EXCEPT ![proc] = [@ EXCEPT ![1] = SwitchFrame("entry")]]
      /\ esp' = [esp EXCEPT ![proc] = [on |-> proc, sp |-> 1]]
      /\ next_pid' = next_pid + 1
      /\ process_queue = Main
  BY <1>1, LastOfRing DEF process_create_thread, IInv, BootInv
<1>3. UNCHANGED <<current_process, process_queue, tss, tick, since, cpu, irr, inService>>
  BY DEF process_create_thread, timerVars, picVars
<1>4. /\ stack \in [Thread -> [1 .. Slots -> Frame]] /\ 1 \in 1 .. Slots
      /\ esp \in [Thread -> [on : Thread \cup {NULL}, sp : 0 .. Slots]]
      /\ next \in [Thread -> Thread \cup {NULL}]
      /\ kernel_stack \in [Thread -> Thread \cup {NULL}]
  BY DEF IInv, TypeOK, Slots
<1>5. cpu.loc = "boot" /\ cpu = Birth[Main] /\ current_process # NULL
      /\ current_process = Main
  BY DEF IInv, BootInv, process_create_thread, Executes
<1>6. Main \in Thread
  BY <1>1 DEF Main, Thread
<1>7. TypeOK'
  <2>1. stack' \in [Thread -> [1 .. Slots -> Frame]]
    <3>1. SwitchFrame("entry") \in Frame
      BY DEF Frame, SwitchFrame
    <3> QED  BY <1>2, <1>4, <3>1
  <2>2. esp' \in [Thread -> [on : Thread \cup {NULL}, sp : 0 .. Slots]]
    BY <1>2, <1>4 DEF Slots
  <2>3. next' \in [Thread -> Thread \cup {NULL}]
    BY <1>2, <1>4, <1>6
  <2>4. kernel_stack' \in [Thread -> Thread \cup {NULL}]
    BY <1>2, <1>4
  <2>5. next_pid' \in 1 .. N + 1
    BY <1>1, <1>2
  <2> QED  BY <1>3, <2>1, <2>2, <2>3, <2>4, <2>5 DEF IInv, TypeOK
<1>8. BootInv'
  <2>1. kernel_stack'[Main] = NULL
    BY <1>1, <1>2, <1>4, <1>6 DEF IInv, BootInv
  <2>2. current_process \in 1 .. next_pid' - 1
    BY <1>1, <1>2, <1>5 DEF Main
  <2> QED  BY <1>2, <1>3, <1>5, <2>1, <2>2 DEF BootInv
<1>9. RunQueueIsRing'
  <2>0. next_pid' - 1 = proc
    BY <1>1, <1>2
  <2> SUFFICES ASSUME NEW u \in 1 .. proc
               PROVE  next'[u] = IF u = proc THEN Main ELSE u + 1
    BY <2>0 DEF RunQueueIsRing
  <2>1. u \in Thread /\ (u # proc => u \in 1 .. next_pid - 1)
    BY <1>1 DEF Thread
  <2>2. u # proc => next[u] = IF u = last THEN Main ELSE u + 1
    BY <1>1, <1>5, <2>1 DEF IInv, RunQueueIsRing
  <2> QED  BY <1>1, <1>2, <1>4, <2>1, <2>2
<1>10. CpuInv' /\ TssInv' /\ PicInv'
  BY <1>3, <1>5 DEF IInv, CpuInv, TssInv, PicInv, HandlerLoc
<1>11. ThreadInv'
  <2> SUFFICES ASSUME NEW u \in 1 .. proc
               PROVE  /\ kernel_stack'[u] = (IF u = Main THEN NULL ELSE u)
                      /\ u # current_process => Suspended(u)'
    BY <1>1, <1>2, <1>3 DEF ThreadInv
  <2>1. u \in Thread /\ (u # proc => u \in 1 .. next_pid - 1)
    BY <1>1 DEF Thread
  <2>2. CASE u = proc
    <3>1. stack'[proc][1] = SwitchFrame("entry")
      BY <1>2, <1>4
    <3>2. esp'[proc].on = proc /\ esp'[proc].sp = 1 /\ kernel_stack'[proc] = proc
      BY <1>2, <1>4
    <3> QED  BY <1>1, <2>2, <3>1, <3>2 DEF Suspended
  <2>3. CASE u # proc
    <3>1. stack'[u] = stack[u] /\ esp'[u] = esp[u] /\ kernel_stack'[u] = kernel_stack[u]
      BY <1>2, <1>4, <2>1, <2>3
    <3> QED  BY <2>1, <2>3, <3>1 DEF IInv, ThreadInv, Suspended, HoldsContext
  <2> QED  BY <2>2, <2>3
<1> QED  BY <1>7, <1>8, <1>9, <1>10, <1>11 DEF IInv

(* A step that leaves all but the processor's registers alone.              *)
LEMMA CpuStepKeepsIInv ==
  ASSUME IInv, UNCHANGED <<processVars, timerVars, stack, picVars>>, cpu.loc # "irq",
         cpu' \in Cpu, cpu'.loc \in {"body", "halted"}, current_process # NULL,
         InBody(cpu') = Started(current_process)
  PROVE  IInv'
<1> USE DEF processVars, timerVars, picVars
<1>1. TypeOK'
  BY DEF IInv, TypeOK
<1>2. BootInv' /\ RunQueueIsRing' /\ TssInv' /\ PicInv'
  BY DEF IInv, BootInv, RunQueueIsRing, TssInv, PicInv
<1>3. CpuInv'
  BY DEF CpuInv, HandlerLoc
<1>4. ThreadInv'
  BY DEF IInv, ThreadInv, Suspended, HoldsContext
<1> QED  BY <1>1, <1>2, <1>3, <1>4 DEF IInv

LEMMA EnableInterruptsStep ==
  ASSUME IInv, EnableInterrupts
  PROVE  IInv'
<1>1. Main \in Thread
  BY MultitaskAssumption DEF Main, Thread
<1>2. /\ cpu = Birth[Main] /\ cpu.loc = "boot"
      /\ current_process = Main /\ current_process # NULL
  BY MultitaskAssumption
     DEF IInv, TypeOK, BootInv, EnableInterrupts, Executes, Main, NULL
<1>3. cpu' = Started(Main)
  BY <1>1, <1>2 DEF EnableInterrupts, Birth, Started
<1>4. cpu' \in Cpu /\ cpu'.loc = "body" /\ InBody(cpu') = Started(Main)
  BY <1>1, <1>3, StartedType DEF InBody
<1> QED  BY <1>2, <1>4, CpuStepKeepsIInv DEF EnableInterrupts

LEMMA HaltStep ==
  ASSUME IInv, Halt
  PROVE  IInv'
<1>1. /\ cpu.loc = "body" /\ cpu \in Cpu /\ current_process # NULL
      /\ InBody(cpu) = Started(current_process)
  BY DEF IInv, TypeOK, BootInv, CpuInv, Halt, Executes
<1>2. cpu' = [cpu EXCEPT !.loc = "halted"]
  BY DEF Halt
<1>3. cpu' \in Cpu /\ cpu'.loc = "halted"
  BY <1>1, <1>2 DEF Cpu, ThreadLoc
<1>4. InBody(cpu') = cpu
  <2>1. InBody(cpu') = [cpu' EXCEPT !.loc = "body"]
    BY <1>3 DEF InBody
  <2>2. /\ cpu'.cpl = cpu.cpl /\ cpu'.iflag = cpu.iflag /\ cpu'.ds = cpu.ds
        /\ cpu'.regs = cpu.regs /\ cpu'.on = cpu.on /\ cpu'.sp = cpu.sp
    BY <1>1, <1>2 DEF Cpu
  <2>3. [cpu' EXCEPT !.loc = "body"] = cpu
    BY <1>1, <1>3, <2>2 DEF Cpu
  <2> QED  BY <2>1, <2>3
<1>5. InBody(cpu) = cpu
  BY <1>1 DEF InBody
<1> QED  BY <1>1, <1>3, <1>4, <1>5, CpuStepKeepsIInv DEF Halt

(* A user function's frame replaces what is in slot 1 of its own stack,     *)
(* where nothing is saved while it runs.                                    *)
LEMMA UserFrameKeepsIInv ==
  ASSUME IInv, UNCHANGED <<processVars, timerVars, picVars>>, cpu.loc # "irq",
         NEW t \in Thread, t = current_process, t # NULL, NEW i \in 0 .. 1,
         stack' = [stack EXCEPT ![t] = [@ EXCEPT ![1] = UserFrame(i)]],
         cpu' = Started(t)
  PROVE  IInv'
<1> USE DEF processVars, timerVars, picVars
<1>1. cpu' \in Cpu /\ cpu'.loc = "body" /\ InBody(cpu') = Started(t)
  BY StartedType DEF InBody
<1>2. stack \in [Thread -> [1 .. Slots -> Frame]] /\ 1 \in 1 .. Slots
  BY DEF IInv, TypeOK, Slots
<1>3. UserFrame(i) \in Frame
  BY DEF Frame, UserFrame
<1>4. stack' \in [Thread -> [1 .. Slots -> Frame]]
  BY <1>2, <1>3
<1>5. TypeOK'
  BY <1>1, <1>4 DEF IInv, TypeOK
<1>6. BootInv' /\ RunQueueIsRing' /\ TssInv' /\ PicInv'
  BY <1>1 DEF IInv, BootInv, RunQueueIsRing, TssInv, PicInv
<1>7. CpuInv'
  BY <1>1 DEF CpuInv, HandlerLoc
<1>8. ThreadInv'
  <2> SUFFICES ASSUME NEW u \in 1 .. next_pid - 1
               PROVE  /\ kernel_stack[u] = (IF u = Main THEN NULL ELSE u)
                      /\ u # t => Suspended(u)'
    BY DEF ThreadInv
  <2>1. u \in Thread
    BY MultitaskAssumption DEF IInv, TypeOK, Thread
  <2>2. u # t => stack'[u] = stack[u]
    BY <1>2, <2>1
  <2> QED  BY <2>1, <2>2 DEF IInv, ThreadInv, Suspended, HoldsContext
<1> QED  BY <1>5, <1>6, <1>7, <1>8 DEF IInv

LEMMA EnterThreadStep ==
  ASSUME IInv, EnterThread
  PROVE  IInv'
<1>1. PICK t \in Thread : t = current_process /\ t # NULL /\ t # Main
  BY DEF IInv, TypeOK, BootInv, CpuInv, EnterThread, Executes
<1>2. cpu.on = t /\ cpu.loc = "entry"
  BY <1>1 DEF IInv, CpuInv, Birth, EnterThread, Executes
<1>3. cpu' = Started(t)
  BY <1>1, <1>2 DEF EnterThread, Started
<1>4. CASE Entry[t] = "user"
  <2>1. stack' = [stack EXCEPT ![t] = [@ EXCEPT ![1] = UserFrame(0)]]
    BY <1>2, <1>4 DEF EnterThread
  <2>2. 0 \in 0 .. 1 /\ cpu.loc # "irq"
    BY <1>2
  <2>3. UNCHANGED <<processVars, timerVars, picVars>>
    BY DEF EnterThread
  <2> QED  BY <1>1, <1>3, <2>1, <2>2, <2>3, UserFrameKeepsIInv
<1>5. CASE Entry[t] # "user"
  <2>1. UNCHANGED stack
    BY <1>2, <1>5 DEF EnterThread
  <2>2. cpu' \in Cpu /\ cpu'.loc = "body" /\ InBody(cpu') = Started(t)
    BY <1>3, StartedType DEF InBody
  <2> QED  BY <1>1, <1>2, <2>1, <2>2, CpuStepKeepsIInv DEF EnterThread
<1> QED  BY <1>4, <1>5

LEMMA UserStepStep ==
  ASSUME IInv, UserStep
  PROVE  IInv'
<1>1. PICK t \in Thread : t = current_process /\ t # NULL
  BY DEF IInv, TypeOK, BootInv, UserStep, Executes
<1>2. cpu.loc = "body" /\ cpu.cpl = 3 /\ cpu = Started(t)
  BY <1>1 DEF IInv, CpuInv, UserStep, Executes, InBody
<1>3. cpu.on = t /\ cpu.sp = 1
  BY <1>2, StartedType
<1>4. PICK i \in 0 .. 1 : stack' = [stack EXCEPT ![t] = [@ EXCEPT ![1] = UserFrame(i)]]
  BY <1>3 DEF UserStep
<1> QED  BY <1>1, <1>2, <1>4, UserFrameKeepsIInv DEF UserStep

-----------------------------------------------------------------------------
LEMMA StutterStep ==
  ASSUME IInv, UNCHANGED vars
  PROVE  IInv'
<1> USE DEF vars, processVars, timerVars, picVars
<1>1. TypeOK' /\ BootInv' /\ RunQueueIsRing' /\ TssInv'
  BY DEF IInv, TypeOK, BootInv, RunQueueIsRing, TssInv
<1>2. PicInv'
  BY DEF IInv, PicInv, IntNo
<1>3. CpuInv' /\ ThreadInv'
  BY DEF IInv, CpuInv, ThreadInv, Suspended, HoldsContext
<1> QED  BY <1>1, <1>2, <1>3 DEF IInv

LEMMA IInvStep == IInv /\ [Next]_vars => IInv'
<1> SUFFICES ASSUME IInv, [Next]_vars PROVE IInv'
  OBVIOUS
<1>1. ASSUME NEW i \in Irq, RaiseIrq(i) PROVE IInv'
  BY <1>1, RaiseIrqStep
<1>2. ASSUME NEW i \in Irq, Deliver(i) PROVE IInv'
  BY <1>2, DeliverStep
<1>3. CASE DeliverSpurious
  BY <1>3, DeliverSpuriousStep
<1>4. CASE Handler
  BY <1>4, IrqHandlerStep, PitCallbackStep, OtherIrqHandlerStep, IsrHandlerStep,
     ScheduleStep, ReturnStep DEF Handler
<1>5. ASSUME NEW v \in {14, 128}, UserTrap(v) PROVE IInv'
  BY <1>5, UserTrapStep
<1>6. CASE process_initialize \/ process_create_thread \/ EnableInterrupts \/ Halt
           \/ EnterThread \/ UserStep
  BY <1>6, InitializeStep, CreateThreadStep, EnableInterruptsStep, HaltStep,
     EnterThreadStep, UserStepStep
<1>7. CASE UNCHANGED vars
  BY <1>7, StutterStep
<1> QED
  BY <1>1, <1>2, <1>3, <1>4, <1>5, <1>6, <1>7 DEF Next, TakeInterrupt, ThreadStep

(* The invariant holds in every state of every behaviour.                   *)
THEOREM Invariance == Spec => []IInv
<1> QED  BY InitIInv, IInvStep, PTL DEF Spec

(* The state keeps its types; in particular no stack ever holds more than   *)
(* one interrupt frame and one switch frame, so interrupts cannot exhaust   *)
(* the 4 KiB of a stack (interrupts.s:34-139, process.c:53-54).             *)
THEOREM TypeCorrect == Spec => []TypeOK
<1>1. IInv => TypeOK
  BY DEF IInv
<1> QED  BY <1>1, Invariance, PTL

(* The run queue is the ring of all threads in the order of their creation  *)
(* (process.c:78-84).                                                       *)
THEOREM RunQueueCorrect == Spec => []RunQueueIsRing
<1>1. IInv => RunQueueIsRing
  BY DEF IInv
<1> QED  BY <1>1, Invariance, PTL

(* No interrupt line is left blocked (isr.c:137-145, pic.c:24-29).          *)
THEOREM LinesCorrect == Spec => []NoLineBlocked
<1>1. IInv => NoLineBlocked
  BY DEF IInv, PicInv, NoLineBlocked
<1> QED  BY <1>1, Invariance, PTL

(* Whatever the interleaving of interrupts, switches and threads, the PCB,  *)
(* the stack pointer and the registers belong to one thread                 *)
(* (process.c:94-100, switch.s:18-38).                                      *)
THEOREM ProcessorCorrect == Spec => []OneThreadOnProcessor
<1>1. IInv => OneThreadOnProcessor
  <2> SUFFICES ASSUME IInv PROVE OneThreadOnProcessor
    OBVIOUS
  <2>1. CASE cpu.loc = "boot"
    <3>1. cpu = Birth[Main] /\ current_process \in {NULL, Main} /\ Main \in Thread
      BY <2>1, MultitaskAssumption DEF IInv, BootInv, Main, Thread
    <3>2. Birth[Main].on = Main /\ Birth[Main].regs = Main
      BY <3>1 DEF Birth
    <3> QED  BY <3>1, <3>2 DEF OneThreadOnProcessor
  <2>2. CASE cpu.loc = "entry"
    <3>1. cpu = Birth[current_process] /\ current_process \in Thread
      BY <2>2 DEF IInv, TypeOK, BootInv, CpuInv
    <3>2. Birth[current_process].on = current_process
      BY <3>1 DEF Birth
    <3> QED  BY <2>2, <3>1, <3>2 DEF OneThreadOnProcessor, ThreadLoc
  <2>3. CASE cpu.loc \in {"body", "halted"}
    <3>1. current_process \in Thread /\ InBody(cpu) = Started(current_process)
      BY <2>3 DEF IInv, TypeOK, BootInv, CpuInv
    <3>2. InBody(cpu).on = current_process /\ InBody(cpu).regs = current_process
      BY <3>1, StartedType
    <3>3. cpu.on = current_process /\ cpu.regs = current_process
      BY <3>2 DEF IInv, TypeOK, Cpu, InBody
    <3> QED  BY <3>3 DEF OneThreadOnProcessor
  <2>4. CASE cpu.loc \in HandlerLoc
    BY <2>4 DEF IInv, CpuInv, OneThreadOnProcessor, HandlerLoc, ThreadLoc
  <2> QED
    BY <2>1, <2>2, <2>3, <2>4 DEF IInv, TypeOK, Cpu, ThreadLoc, HandlerLoc
<1> QED  BY <1>1, Invariance, PTL

(* Code in ring 3 runs with interrupts on and the stack of its own thread   *)
(* in the TSS (process.c:97-98, user.s:35-38).                              *)
THEOREM RingThreeCorrect == Spec => []RingThreeCanBeInterrupted
<1>1. IInv => RingThreeCanBeInterrupted
  <2> SUFFICES ASSUME IInv, cpu.cpl = 3
               PROVE  tss = current_process /\ cpu.iflag /\ cpu.ds = USER_DS
    BY DEF RingThreeCanBeInterrupted
  <2>1. cpu.loc \in {"body", "halted"}
    <3>1. cpu.loc \notin HandlerLoc
      BY DEF IInv, CpuInv
    <3>2. \A t \in Thread : Birth[t].cpl = 0
      BY DEF Birth
    <3>3. cpu.loc # "boot"
      BY <3>2, MultitaskAssumption DEF IInv, BootInv, Main, Thread
    <3>4. cpu.loc # "entry"
      BY <3>2 DEF IInv, TypeOK, BootInv, CpuInv
    <3> QED  BY <3>1, <3>3, <3>4 DEF IInv, TypeOK, Cpu, ThreadLoc, HandlerLoc
  <2>2. current_process \in Thread /\ InBody(cpu) = Started(current_process)
    BY <2>1 DEF IInv, TypeOK, BootInv, CpuInv
  <2>3. InBody(cpu).cpl = 3 /\ InBody(cpu).iflag = cpu.iflag /\ InBody(cpu).ds = cpu.ds
    BY DEF IInv, TypeOK, Cpu, InBody
  <2>4. cpu.iflag /\ cpu.ds = USER_DS /\ current_process # Main
    BY <2>2, <2>3, StartedType
  <2> QED  BY <2>2, <2>4 DEF IInv, TssInv, Thread, NULL
<1> QED  BY <1>1, Invariance, PTL

-----------------------------------------------------------------------------
(* The scheduler was called when the counter was at a multiple of SLICE,    *)
(* also when that was 0 after a wrap, so the counter modulo SLICE is the    *)
(* number of ticks since then.                                              *)
SliceInv ==
  /\ cpu.loc # "schedule" => since = tick % SLICE
  /\ cpu.loc = "schedule" =>
       since \in 1 .. SLICE /\ tick % SLICE = 0 /\ (since = SLICE \/ tick = 0)

(* The number of the ticks that are counted, one more than the others.      *)
LEMMA NextTick ==
  ASSUME NEW s \in Nat \ {0}, NEW t \in Nat
  PROVE  /\ t % s \in 0 .. s - 1
         /\ (t + 1) % s = IF t % s = s - 1 THEN 0 ELSE (t % s) + 1
<1>1. PICK q \in Nat, r \in 0 .. s - 1 : t = (s * q) + r /\ t % s = r
  <2>1. t \div s \in Nat /\ t % s \in 0 .. s - 1 /\ t = (s * (t \div s)) + (t % s)
    OBVIOUS
  <2> QED  BY <2>1
<1>2. PICK p \in Nat, u \in 0 .. s - 1 : t + 1 = (s * p) + u /\ (t + 1) % s = u
  <2>1. /\ (t + 1) \div s \in Nat /\ (t + 1) % s \in 0 .. s - 1
        /\ t + 1 = (s * ((t + 1) \div s)) + ((t + 1) % s)
    OBVIOUS
  <2> QED  BY <2>1
<1>3. ASSUME NEW k \in Nat, p = q + 2 + k PROVE FALSE
  <2>1. s * p = (s * q) + s + s + (s * k) /\ s * k \in Nat /\ s * q \in Nat
    BY <1>3
  <2> QED  BY <1>1, <1>2, <2>1
<1>4. ASSUME NEW k \in Nat, q = p + 1 + k PROVE FALSE
  <2>1. s * q = (s * p) + s + (s * k) /\ s * k \in Nat /\ s * p \in Nat
    BY <1>4
  <2> QED  BY <1>1, <1>2, <2>1
<1>5. p = q \/ p = q + 1
  <2>1. p > q + 1 => p - q - 2 \in Nat /\ p = q + 2 + (p - q - 2)
    OBVIOUS
  <2>2. q > p => q - p - 1 \in Nat /\ q = p + 1 + (q - p - 1)
    OBVIOUS
  <2> QED  BY <1>3, <1>4, <2>1, <2>2
<1>6. CASE p = q
  <2>1. u = r + 1
    <3>1. PICK m \in Nat : m = s * q
      OBVIOUS
    <3> QED  BY <1>1, <1>2, <1>6, <3>1
  <2> QED  BY <1>1, <1>2, <2>1
<1>7. CASE p = q + 1
  <2>1. s * p = (s * q) + s /\ s * q \in Nat
    BY <1>7
  <2>2. u + s = r + 1
    BY <1>1, <1>2, <2>1
  <2> QED  BY <1>1, <1>2, <2>2
<1> QED  BY <1>5, <1>6, <1>7

LEMMA TickStep == ASSUME IInv, SliceInv, pit_callback PROVE SliceInv'
<1> DEFINE r == tick % SLICE
<1>1. /\ SLICE \in Nat \ {0} /\ TICKS \in Nat \ {0} /\ tick \in 0 .. TICKS - 1
      /\ tick \in Nat
  BY MultitaskAssumption DEF IInv, TypeOK
<1>2. /\ r \in 0 .. SLICE - 1
      /\ (tick + 1) % SLICE = IF r = SLICE - 1 THEN 0 ELSE r + 1
  BY <1>1, NextTick
<1>3. since = r /\ since' = since + 1 /\ tick' = (tick + 1) % TICKS
  BY DEF pit_callback, SliceInv
<1>4. cpu'.loc = IF tick' % SLICE = 0 THEN "schedule" ELSE "unstub"
  BY DEF pit_callback, SliceOver, IInv, TypeOK, Cpu
<1>5. tick' = IF tick = TICKS - 1 THEN 0 ELSE tick + 1
  <2>1. tick % TICKS = tick
    BY <1>1
  <2> QED  BY <1>1, <1>3, <2>1, NextTick
<1> HIDE DEF r
<1>6. CASE tick = TICKS - 1
  <2>1. tick' = 0 /\ tick' % SLICE = 0
    BY <1>1, <1>5, <1>6
  <2> QED  BY <1>1, <1>2, <1>3, <1>4, <2>1 DEF SliceInv
<1>7. CASE tick # TICKS - 1
  <2>1. tick' % SLICE = IF r = SLICE - 1 THEN 0 ELSE r + 1
    BY <1>2, <1>5, <1>7
  <2> QED  BY <1>1, <1>2, <1>3, <1>4, <2>1 DEF SliceInv
<1> QED  BY <1>6, <1>7

LEMMA ScheduledLoc ==
  ASSUME IInv, process_schedule
  PROVE  cpu'.loc # "schedule"
<1>1. CASE current_process = NULL \/ next[current_process] = current_process
  BY <1>1 DEF process_schedule, IInv, TypeOK, Cpu
<1>2. CASE ~ (current_process = NULL \/ next[current_process] = current_process)
  <2>1. PICK to \in Thread : to = next[current_process] /\ Suspended(to)
    BY <1>2, NextThread DEF IInv, ThreadInv
  <2>2. cpu'.loc = stack[esp[to].on][esp[to].sp].ret
    BY <1>2, <2>1 DEF process_schedule, switch_task, Moved
  <2>3. cpu'.loc \in {"entry", "unstub"}
    BY <2>1, <2>2 DEF Suspended, SwitchFrame
  <2> QED  BY <2>3
<1> QED  BY <1>1, <1>2

LEMMA SliceStep == IInv /\ SliceInv /\ [Next]_vars => SliceInv'
<1> SUFFICES ASSUME IInv, SliceInv, [Next]_vars PROVE SliceInv'
  OBVIOUS
<1>0. cpu \in Cpu
  BY DEF IInv, TypeOK
<1>1. ASSUME NEW i \in Irq, RaiseIrq(i) PROVE SliceInv'
  BY <1>1 DEF RaiseIrq, timerVars, SliceInv
<1>2. CASE TakeInterrupt
  <2>1. cpu.iflag
    BY <1>2 DEF TakeInterrupt, Deliver, DeliverSpurious
  <2>2. cpu.loc # "schedule"
    BY <2>1, InterruptibleOnlyInBody
  <2>3. UNCHANGED timerVars
    BY <1>2, Zenon DEF TakeInterrupt, Deliver, DeliverSpurious
  <2>4. \/ \E i \in Irq : Interrupt(32 + i, "irq")
        \/ Interrupt(32 + Spurious, "irq")
    BY <1>2, Zenon DEF TakeInterrupt, Deliver, DeliverSpurious
  <2>5. ASSUME NEW n, Interrupt(n, "irq") PROVE cpu'.loc # "schedule"
    BY <2>5 DEF Interrupt
  <2> QED  BY <2>2, <2>3, <2>4, <2>5 DEF SliceInv, timerVars
<1>3. CASE pit_callback
  BY <1>3, TickStep
<1>4. CASE irq_handler \/ OtherIrqHandler \/ isr_handler
  BY <1>0, <1>4 DEF irq_handler, OtherIrqHandler, isr_handler, timerVars, SliceInv, Cpu
<1>5. CASE process_schedule
  BY <1>5, ScheduledLoc DEF process_schedule, SliceInv
<1>6. CASE ReturnFromInterrupt
  <2>1. cpu.loc \in HandlerLoc /\ current_process \in Thread
    BY <1>6 DEF ReturnFromInterrupt, HandlerLoc, IInv, BootInv, TypeOK
  <2>2. cpu' = Started(current_process)
    BY <1>6, <2>1, SavedIsRestored DEF ReturnFromInterrupt, IInv, CpuInv
  <2>3. cpu'.loc # "schedule"
    BY <2>1, <2>2, StartedType
  <2> QED  BY <1>6, <2>3 DEF ReturnFromInterrupt, SliceInv, timerVars
<1>7. CASE ThreadStep
  <2>1. cpu.loc # "schedule" /\ cpu'.loc # "schedule" /\ UNCHANGED timerVars
    BY <1>0, <1>7
       DEF ThreadStep, Executes, process_initialize, process_create_thread,
           EnableInterrupts, Halt, EnterThread, Entered, UserStep, UserTrap,
           Interrupt, Cpu
  <2> QED  BY <2>1 DEF SliceInv, timerVars
<1>8. CASE UNCHANGED vars
  BY <1>8 DEF vars, timerVars, SliceInv
<1> QED  BY <1>1, <1>2, <1>3, <1>4, <1>5, <1>6, <1>7, <1>8 DEF Next, Handler

(* Whatever the slice and the width of the counter, no thread runs longer   *)
(* than a slice, and a slice is cut short only where the counter wraps      *)
(* (pit.c:9-15).                                                            *)
THEOREM SlicesCorrect == Spec => []SlicesAreEven
<1>1. Init => SliceInv
  <2>1. 0 % SLICE = 0
    BY MultitaskAssumption
  <2> QED  BY <2>1 DEF Init, SliceInv
<1>2. IInv /\ SliceInv => SlicesAreEven
  <2> SUFFICES ASSUME IInv, SliceInv PROVE SlicesAreEven
    OBVIOUS
  <2>1. tick % SLICE <= SLICE
    <3>1. SLICE \in Nat \ {0} /\ tick \in Nat
      BY MultitaskAssumption DEF IInv, TypeOK
    <3> QED  BY <3>1, NextTick
  <2> QED  BY <2>1 DEF SliceInv, SlicesAreEven
<1> QED  BY <1>1, <1>2, SliceStep, Invariance, PTL DEF Spec

-----------------------------------------------------------------------------
(* Multitask implements RoundRobin.  A thread's context, scattered over the *)
(* processor and the frames on its stack, has only two values: the one it   *)
(* is created with while it is fresh, and the one it runs in afterwards.    *)
(* So it is enough to follow which threads are fresh.                       *)

(* Thread t has not executed an instruction of its own yet.                 *)
Fresh(t) ==
  IF t = Running THEN cpu.loc \in {"boot", "entry"}
                 ELSE t >= next_pid \/ esp[t].sp = 1

Created == IF next_pid = 1 THEN 1 ELSE next_pid - 1
Contexts == [t \in Thread |-> ContextOf(t)]

ContextsAreKnown ==
  /\ Running \in Thread
  /\ Contexts = [t \in Thread |-> IF Fresh(t) THEN Birth[t] ELSE Started(t)]

LEMMA RunningType ==
  ASSUME IInv
  PROVE  /\ Running \in Thread
         /\ current_process # NULL => Running = current_process
         /\ current_process = NULL => Running = Main /\ cpu.loc = "boot" /\ next_pid = 1
BY MultitaskAssumption DEF IInv, TypeOK, BootInv, Running, Main, Thread

LEMMA ContextOfRunning ==
  ASSUME IInv
  PROVE  ContextOf(Running) = IF Fresh(Running) THEN Birth[Running] ELSE Started(Running)
<1>1. CASE cpu.loc = "boot"
  <2>1. cpu = Birth[Main] /\ Running = Main
    BY <1>1 DEF IInv, BootInv, Running, NULL, Main
  <2> QED  BY <1>1, <2>1 DEF ContextOf, Fresh, InBody, HandlerLoc
<1>2. CASE cpu.loc = "entry"
  <2>1. cpu = Birth[Running]
    BY <1>2, RunningType DEF IInv, CpuInv
  <2> QED  BY <1>2, <2>1 DEF ContextOf, Fresh, InBody, HandlerLoc
<1>3. CASE cpu.loc \in {"body", "halted"}
  <2>1. InBody(cpu) = Started(Running)
    BY <1>3, RunningType DEF IInv, CpuInv
  <2> QED  BY <1>3, <2>1 DEF ContextOf, Fresh, HandlerLoc
<1>4. CASE cpu.loc \in HandlerLoc
  <2>1. /\ Running = current_process /\ cpu.on = Running /\ cpu.sp = 1
        /\ HoldsContext(Running)
    BY <1>4, RunningType DEF IInv, CpuInv, HandlerLoc
  <2>2. Restored(Running, 1) = Started(Running)
    BY <2>1, RunningType, SavedIsRestored
  <2> QED  BY <1>4, <2>1, <2>2 DEF ContextOf, Fresh, HandlerLoc
<1> QED  BY <1>1, <1>2, <1>3, <1>4 DEF IInv, TypeOK, Cpu, ThreadLoc, HandlerLoc

LEMMA ContextOfSuspended ==
  ASSUME IInv, NEW t \in Thread, t # Running
  PROVE  ContextOf(t) = IF Fresh(t) THEN Birth[t] ELSE Started(t)
<1>1. CASE t >= next_pid
  BY <1>1 DEF ContextOf, Fresh
<1>2. CASE ~ (t >= next_pid)
  <2>1. t \in 1 .. next_pid - 1
    BY <1>2, MultitaskAssumption DEF IInv, TypeOK, Thread
  <2>2. Suspended(t)
    BY <2>1, RunningType DEF IInv, ThreadInv
  <2>3. CASE esp[t].sp = 1
    <3>1. esp[t].on = t /\ stack[t][1] = SwitchFrame("entry")
      BY <2>2, <2>3 DEF Suspended
    <3> QED  BY <2>3, <3>1 DEF ContextOf, Fresh
  <2>4. CASE esp[t].sp # 1
    <3>1. /\ esp[t].on = t /\ esp[t].sp = 2 /\ stack[t][2] = SwitchFrame("unstub")
          /\ HoldsContext(t)
      BY <2>2, <2>4 DEF Suspended
    <3>2. SwitchFrame("unstub") # SwitchFrame("entry")
      <4>1. SwitchFrame("unstub").ret = "unstub" /\ SwitchFrame("entry").ret = "entry"
        BY DEF SwitchFrame
      <4> QED  BY <4>1
    <3>3. Restored(t, 1) = Started(t)
      BY <3>1, SavedIsRestored
    <3>4. esp[t].sp - 1 = 1
      BY <3>1
    <3> QED  BY <1>2, <2>4, <3>1, <3>2, <3>3, <3>4 DEF ContextOf, Fresh
  <2> QED  BY <2>3, <2>4
<1> QED  BY <1>1, <1>2

LEMMA ContextsKnown == IInv => ContextsAreKnown
<1> SUFFICES ASSUME IInv PROVE ContextsAreKnown
  OBVIOUS
<1>1. \A t \in Thread : ContextOf(t) = IF Fresh(t) THEN Birth[t] ELSE Started(t)
  BY ContextOfRunning, ContextOfSuspended
<1> QED  BY <1>1, RunningType DEF ContextsAreKnown, Contexts

-----------------------------------------------------------------------------
(* A step that neither creates nor switches, and after which the same       *)
(* threads are fresh, is a stutter of the round.                            *)
LEMMA SameFreshIsStutter ==
  ASSUME IInv, IInv', Created' = Created, Running' = Running,
         \A t \in Thread : Fresh(t)' <=> Fresh(t)
  PROVE  UNCHANGED Rounds!vars
<1>1. ContextsAreKnown /\ ContextsAreKnown'
  <2>1. (IInv => ContextsAreKnown)'
    BY ContextsKnown, PTL
  <2> QED  BY <2>1, ContextsKnown
<1>2. Contexts' = Contexts
  BY <1>1 DEF ContextsAreKnown, Started, Entered, Birth
<1> QED  BY <1>2 DEF Rounds!vars, Contexts, Created

(* A step of the running thread or of its handlers.                         *)
LEMMA SameThreadIsStutter ==
  ASSUME IInv, IInv', UNCHANGED <<current_process, next_pid, esp>>,
         cpu'.loc \in {"boot", "entry"} <=> cpu.loc \in {"boot", "entry"}
  PROVE  UNCHANGED Rounds!vars
<1>1. Created' = Created /\ Running' = Running
  BY DEF Created, Running
<1>2. \A t \in Thread : Fresh(t)' <=> Fresh(t)
  BY <1>1 DEF Fresh
<1> QED  BY <1>1, <1>2, SameFreshIsStutter

LEMMA InterruptIsStutter ==
  ASSUME IInv, IInv', NEW int_no, NEW loc \in HandlerLoc, Interrupt(int_no, loc),
         cpu.loc \in {"body", "halted"}, UNCHANGED <<current_process, next_pid, esp>>
  PROVE  UNCHANGED Rounds!vars
<1>1. cpu'.loc = loc
  BY DEF Interrupt
<1> QED  BY <1>1, SameThreadIsStutter DEF HandlerLoc

LEMMA InitializeIsStutter ==
  ASSUME IInv, IInv', process_initialize
  PROVE  UNCHANGED Rounds!vars
<1>1. /\ current_process = NULL /\ next_pid = 1 /\ cpu.loc = "boot"
      /\ current_process' = Main /\ next_pid' = 2 /\ UNCHANGED <<cpu, esp>>
      /\ Main # NULL
  BY DEF IInv, BootInv, process_initialize, Executes, Main, NULL
<1>2. Created' = Created /\ Running' = Running /\ Running = Main
  BY <1>1 DEF Created, Running
<1>3. ASSUME NEW t \in Thread PROVE Fresh(t)' <=> Fresh(t)
  <2>1. CASE t = Main
    BY <1>1, <1>2, <2>1 DEF Fresh
  <2>2. CASE t # Main
    <3>1. t >= 1 /\ t >= 2
      BY <2>2, MultitaskAssumption DEF Thread, Main
    <3> QED  BY <1>1, <1>2, <2>2, <3>1 DEF Fresh
  <2> QED  BY <2>1, <2>2
<1> QED  BY <1>2, <1>3, SameFreshIsStutter

(* A new thread is fresh before and after its creation.                     *)
LEMMA CreateIsCreate ==
  ASSUME IInv, IInv', process_create_thread
  PROVE  Rounds!Create
<1>1. /\ current_process # NULL /\ next_pid <= N /\ next_pid' = next_pid + 1
      /\ esp' = [esp EXCEPT ![next_pid] = [on |-> next_pid, sp |-> 1]]
      /\ UNCHANGED <<current_process, cpu>>
  BY DEF process_create_thread
<1>2. /\ N \in Nat /\ next_pid \in 1 .. N /\ next_pid # 1
      /\ current_process \in 1 .. next_pid - 1
      /\ esp \in [Thread -> [on : Thread \cup {NULL}, sp : 0 .. Slots]]
  BY <1>1, MultitaskAssumption DEF IInv, TypeOK, BootInv
<1>3. Created' = Created + 1 /\ Created < N /\ Running' = Running
      /\ Running = current_process
  BY <1>1, <1>2 DEF Created, Running
<1>4. ASSUME NEW t \in Thread PROVE Fresh(t)' <=> Fresh(t)
  <2>1. t \in 1 .. N
    BY DEF Thread
  <2>2. CASE t = next_pid
    <3>1. esp'[t].sp = 1 /\ t # Running
      BY <1>1, <1>2, <1>3, <2>2
    <3> QED  BY <1>2, <1>3, <2>1, <2>2, <3>1 DEF Fresh
  <2>3. CASE t # next_pid
    <3>1. esp'[t] = esp[t] /\ (t >= next_pid + 1 <=> t >= next_pid)
      BY <1>1, <1>2, <2>1, <2>3
    <3> QED  BY <1>1, <1>3, <3>1 DEF Fresh
  <2> QED  BY <2>2, <2>3
<1>5. Contexts' = Contexts
  <2>1. (IInv => ContextsAreKnown)'
    BY ContextsKnown, PTL
  <2>2. ContextsAreKnown /\ ContextsAreKnown'
    BY <2>1, ContextsKnown
  <2> QED  BY <1>4, <2>2 DEF ContextsAreKnown, Started, Entered, Birth
<1> QED  BY <1>3, <1>5 DEF Rounds!Create, Created, Contexts

(* A thread stops being fresh: its own first step.                          *)
LEMMA FirstStepIsRun ==
  ASSUME IInv, IInv', UNCHANGED <<current_process, next_pid, esp>>,
         cpu.loc \in {"boot", "entry"}, cpu'.loc = "body"
  PROVE  Rounds!Run
<1>1. Created' = Created /\ Running' = Running
  BY DEF Created, Running
<1>2. PICK r \in Thread : r = Running
  BY RunningType
<1>3. Fresh(r) /\ ~Fresh(r)' /\ \A t \in Thread \ {r} : Fresh(t)' <=> Fresh(t)
  BY <1>1, <1>2 DEF Fresh
<1>4. ContextsAreKnown /\ ContextsAreKnown'
  <2>1. (IInv => ContextsAreKnown)'
    BY ContextsKnown, PTL
  <2> QED  BY <2>1, ContextsKnown
<1>5. Contexts[r] = Birth[r] /\ Contexts' = [Contexts EXCEPT ![r] = Started(r)]
  BY <1>3, <1>4 DEF ContextsAreKnown, Started, Entered, Birth
<1>6. <<Birth[r], Started(r)>> \in Own[r]
  BY DEF Own
<1> DEFINE change == <<Birth[r], Started(r)>>
<1>7. change[1] = Birth[r] /\ change[2] = Started(r)
  OBVIOUS
<1>8. \E ch \in Own[r] : Contexts[r] = ch[1] /\ Contexts' = [Contexts EXCEPT ![r] = ch[2]]
  BY <1>5, <1>6, <1>7
<1> QED  BY <1>1, <1>2, <1>8 DEF Rounds!Run, Created, Contexts

(* A switch leaves every thread as fresh as it was: the old one has an      *)
(* interrupt frame, the new one is entered or goes on as its frame says.    *)
LEMMA SwitchIsPreempt ==
  ASSUME IInv, IInv', process_schedule,
         current_process # NULL, next[current_process] # current_process
  PROVE  Rounds!Preempt
<1>1. PICK from \in Thread, to \in Thread :
        from = current_process /\ to = next[current_process]
  BY NextThread DEF IInv, TypeOK
<1>2. /\ from # to /\ from \in 1 .. next_pid - 1 /\ to \in 1 .. next_pid - 1
      /\ to = IF from = next_pid - 1 THEN Main ELSE from + 1
      /\ next_pid \in 1 .. N + 1 /\ N \in Nat
      /\ cpu.loc = "schedule" /\ cpu.on = from /\ cpu.sp = 1
      /\ to # NULL /\ from # NULL
  <2>1. /\ from # to /\ from \in 1 .. next_pid - 1 /\ to \in 1 .. next_pid - 1
        /\ to = IF from = next_pid - 1 THEN Main ELSE from + 1
    BY <1>1, NextThread
  <2>2. next_pid \in 1 .. N + 1 /\ N \in Nat
    BY MultitaskAssumption DEF IInv, TypeOK
  <2>3. cpu.loc = "schedule"
    BY DEF process_schedule
  <2>4. cpu.on = from /\ cpu.sp = 1
    BY <1>1, <2>3 DEF IInv, CpuInv, HandlerLoc
  <2>5. to # NULL /\ from # NULL
    BY <2>1, <2>2 DEF NULL
  <2> QED  BY <2>1, <2>2, <2>3, <2>4, <2>5
<1>3. /\ current_process' = to /\ UNCHANGED next_pid
      /\ esp' = [esp EXCEPT ![from] = [on |-> from, sp |-> 2]]
      /\ cpu'.loc = stack[esp[to].on][esp[to].sp].ret
  BY <1>1, <1>2 DEF process_schedule, switch_task, Moved
<1>4. Suspended(to) /\ esp \in [Thread -> [on : Thread \cup {NULL}, sp : 0 .. Slots]]
  BY <1>1, <1>2 DEF IInv, TypeOK, ThreadInv
<1>5. Created' = Created /\ Running = from /\ Running' = to
      /\ Created = next_pid - 1 /\ Created > 1
  BY <1>1, <1>2, <1>3 DEF Created, Running, Main
<1>6. cpu'.loc = "entry" <=> esp[to].sp = 1
  BY <1>3, <1>4 DEF Suspended, SwitchFrame
<1>7. cpu'.loc # "boot"
  BY <1>3, <1>4 DEF Suspended, SwitchFrame
<1>8. ASSUME NEW t \in Thread PROVE Fresh(t)' <=> Fresh(t)
  <2>1. CASE t = from
    <3>1. esp'[from].sp = 2 /\ ~ (from >= next_pid)
      BY <1>2, <1>3, <1>4
    <3> QED  BY <1>2, <1>3, <1>5, <2>1, <3>1 DEF Fresh
  <2>2. CASE t = to
    <3>1. ~ (to >= next_pid)
      BY <1>2
    <3> QED  BY <1>2, <1>5, <1>6, <1>7, <2>2, <3>1 DEF Fresh
  <2>3. CASE t # from /\ t # to
    BY <1>3, <1>4, <1>5, <2>3 DEF Fresh
  <2> QED  BY <2>1, <2>2, <2>3
<1>9. Contexts' = Contexts
  <2>1. (IInv => ContextsAreKnown)'
    BY ContextsKnown, PTL
  <2>2. ContextsAreKnown /\ ContextsAreKnown'
    BY <2>1, ContextsKnown
  <2> QED  BY <1>8, <2>2 DEF ContextsAreKnown, Started, Entered, Birth
<1>10. to = Rounds!After(from)
  BY <1>2, <1>5 DEF Rounds!After, Created, Main
<1> QED  BY <1>5, <1>9, <1>10 DEF Rounds!Preempt, Created, Contexts

-----------------------------------------------------------------------------
LEMMA StepImplementsRounds ==
  ASSUME IInv, IInv', [Next]_vars
  PROVE  [Rounds!Next]_(Rounds!vars)
<1> USE DEF processVars
<1>1. ASSUME NEW i \in Irq, RaiseIrq(i) PROVE UNCHANGED Rounds!vars
  BY <1>1, SameThreadIsStutter DEF RaiseIrq
<1>2. ASSUME NEW i \in Irq, Deliver(i) PROVE UNCHANGED Rounds!vars
  <2>1. cpu.loc \in {"body", "halted"} /\ "irq" \in HandlerLoc
    BY <1>2, InterruptibleOnlyInBody DEF Deliver, HandlerLoc
  <2> QED  BY <1>2, <2>1, InterruptIsStutter DEF Deliver
<1>3. CASE DeliverSpurious
  <2>1. cpu.loc \in {"body", "halted"} /\ "irq" \in HandlerLoc
    BY <1>3, InterruptibleOnlyInBody DEF DeliverSpurious, HandlerLoc
  <2>2. UNCHANGED Rounds!vars
    BY <1>3, <2>1, InterruptIsStutter DEF DeliverSpurious
  <2> QED  BY <2>2
<1>4. ASSUME NEW v \in {14, 128}, UserTrap(v) PROVE UNCHANGED Rounds!vars
  <2>1. cpu.loc \in {"body", "halted"} /\ "isr" \in HandlerLoc
    BY <1>4 DEF UserTrap, Executes, HandlerLoc
  <2> QED  BY <1>4, <2>1, InterruptIsStutter DEF UserTrap
<1>5. CASE irq_handler \/ pit_callback \/ OtherIrqHandler \/ isr_handler
  <2>1. cpu \in Cpu
    BY DEF IInv, TypeOK
  <2>2. /\ UNCHANGED <<current_process, next_pid, esp>>
        /\ cpu.loc \in HandlerLoc /\ cpu'.loc \in HandlerLoc
    BY <1>5, <2>1
       DEF irq_handler, pit_callback, OtherIrqHandler, isr_handler, HandlerLoc, Cpu
  <2>3. UNCHANGED Rounds!vars
    BY <2>2, SameThreadIsStutter DEF HandlerLoc
  <2> QED  BY <2>3
<1>6. CASE process_schedule
  <2>1. CASE current_process = NULL \/ next[current_process] = current_process
    <3>1. cpu.loc = "schedule" /\ cpu'.loc = "unstub" /\ cpu \in Cpu
          /\ UNCHANGED <<current_process, next_pid, esp>>
      BY <1>6, <2>1 DEF process_schedule, IInv, TypeOK, Cpu
    <3>2. UNCHANGED Rounds!vars
      BY <3>1, SameThreadIsStutter
    <3> QED  BY <3>2
  <2>2. CASE current_process # NULL /\ next[current_process] # current_process
    <3>1. Rounds!Preempt
      BY <1>6, <2>2, SwitchIsPreempt
    <3> QED  BY <3>1 DEF Rounds!Next
  <2> QED  BY <2>1, <2>2
<1>7. CASE ReturnFromInterrupt
  <2>1. /\ cpu.loc = "unstub" /\ cpu' = Restored(cpu.on, cpu.sp)
        /\ UNCHANGED <<current_process, next_pid, esp>>
    BY <1>7 DEF ReturnFromInterrupt
  <2>2. /\ current_process \in Thread /\ cpu.on = current_process /\ cpu.sp = 1
        /\ HoldsContext(current_process)
    BY <2>1 DEF IInv, TypeOK, BootInv, CpuInv, HandlerLoc
  <2>3. cpu'.loc = "body"
    BY <2>1, <2>2, SavedIsRestored, StartedType
  <2>4. UNCHANGED Rounds!vars
    BY <2>1, <2>3, SameThreadIsStutter
  <2> QED  BY <2>4
<1>8. CASE process_initialize
  BY <1>8, InitializeIsStutter
<1>9. CASE process_create_thread
  <2>1. Rounds!Create
    BY <1>9, CreateIsCreate
  <2> QED  BY <2>1 DEF Rounds!Next
<1>10. CASE EnableInterrupts
  <2>1. Rounds!Run
    BY <1>10, FirstStepIsRun DEF EnableInterrupts, Executes
  <2> QED  BY <2>1 DEF Rounds!Next
<1>11. CASE EnterThread
  <2>1. cpu'.loc = "body"
    BY <1>11 DEF EnterThread, Entered
  <2>2. Rounds!Run
    BY <1>11, <2>1, FirstStepIsRun DEF EnterThread, Executes
  <2> QED  BY <2>2 DEF Rounds!Next
<1>12. CASE Halt
  <2>1. cpu.loc = "body" /\ cpu'.loc = "halted" /\ UNCHANGED <<current_process, next_pid, esp>>
    BY <1>12 DEF Halt, Executes, IInv, TypeOK, Cpu
  <2>2. UNCHANGED Rounds!vars
    BY <2>1, SameThreadIsStutter
  <2> QED  BY <2>2
<1>13. CASE UserStep
  <2>1. UNCHANGED Rounds!vars
    BY <1>13, SameThreadIsStutter DEF UserStep
  <2> QED  BY <2>1
<1>14. CASE UNCHANGED vars
  <2>1. UNCHANGED Rounds!vars
    BY <1>14, SameThreadIsStutter DEF vars
  <2> QED  BY <2>1
<1> QED
  BY <1>1, <1>2, <1>3, <1>4, <1>5, <1>6, <1>7, <1>8, <1>9, <1>10, <1>11, <1>12, <1>13,
     <1>14 DEF Next, TakeInterrupt, Handler, ThreadStep

LEMMA InitImplementsRounds == Init => Rounds!Init
<1> SUFFICES ASSUME Init PROVE Rounds!Init
  OBVIOUS
<1>1. IInv
  BY InitIInv
<1>2. next_pid = 1 /\ current_process = NULL /\ cpu.loc = "boot"
  BY DEF Init
<1>3. Created = 1 /\ Running = 1
  BY <1>2 DEF Created, Running, Main
<1>4. \A t \in Thread : Fresh(t)
  BY <1>2, <1>3, MultitaskAssumption DEF Fresh, Thread
<1>5. Contexts = [t \in Thread |-> Birth[t]]
  BY <1>1, <1>4, ContextsKnown DEF ContextsAreKnown
<1>6. Contexts = Birth
  BY <1>5 DEF Birth
<1> QED  BY <1>3, <1>6 DEF Rounds!Init, Created, Contexts

(* Interrupts and switches are invisible to the threads: whatever the       *)
(* number of threads, their entry points, the lines in use, the slice and   *)
(* the order of requests, each thread's context is changed by that thread   *)
(* only, and the processor goes round in the order of creation              *)
(* (interrupts.s:113-166, switch.s:12-38, process.c:78-100).                *)
THEOREM RoundRobinImplemented == Spec => ImplementsRoundRobin
<1>1. Init /\ [][Next]_vars => ImplementsRoundRobin
  <2>1. Init /\ [][Next]_vars => []IInv
    BY InitIInv, IInvStep, PTL
  <2>2. IInv /\ IInv' /\ [Next]_vars => [Rounds!Next]_(Rounds!vars)
    BY StepImplementsRounds
  <2> QED  BY <2>1, <2>2, InitImplementsRounds, PTL DEF ImplementsRoundRobin, Rounds!Spec
<1> QED  BY <1>1, PTL DEF Spec
=============================================================================
