----------------------------- MODULE Multitask -----------------------------
(***************************************************************************)
(* Preemptive multitasking: the threads of process/process.c, the stack    *)
(* switch of process/switch.s, the way into ring 3 of process/user.s, the  *)
(* interrupt stubs of kernel/interrupts.s with the dispatchers of          *)
(* kernel/isr.c, the timer of drivers/pit.c and the interrupt controllers  *)
(* of drivers/pic.c, on one processor.                                     *)
(*                                                                         *)
(* A stack is a row of slots.  A slot holds what one piece of code pushes  *)
(* together: the hardware frame with the registers of the stub (the code's *)
(* registers_t), the frame of switch_task, the frame process_create_thread *)
(* builds by hand, or the user function's frame, which lies on the kernel  *)
(* stack of its thread (enter_user_mode passes its own esp to ring 3).     *)
(***************************************************************************)
EXTENDS Integers

CONSTANTS
  N,        (* threads: kernel_main and those it creates (2 in the code)    *)
  Entry,    (* Entry[t]: what the entry point of thread t does              *)
  SLICE,    (* ticks between two calls of the scheduler (50)                *)
  TICKS,    (* the tick counter is a uint32_t: 2^32                         *)
  Irq       (* the interrupt lines in use                                   *)

Thread == 1 .. N
Main == 1              \* the boot thread, next_pid's first value
NULL == 0              \* no thread, no stack
Timer == 0             \* IRQ 0
Spurious == 7          \* the line the controller reports for a lost request

ASSUME MultitaskAssumption ==
  /\ N \in Nat \ {0}
  /\ Entry \in [Thread -> {"shell", "user", "kernel", "return"}]
  /\ \A t \in Thread : Entry[t] = "shell" <=> t = Main
  /\ SLICE \in Nat \ {0}
  /\ TICKS \in Nat \ {0}
  /\ Irq \subseteq 0 .. 15
  /\ Timer \in Irq
  /\ Spurious \notin Irq

Slots == 2             \* a stack holds one interrupt and one switch frame
Kernel == 0            \* register contents of the kernel's own making
KERNEL_DS == 16        \* 0x10
USER_DS == 35          \* 0x23

VARIABLES
  current_process,  (* the thread the scheduler believes is running         *)
  process_queue,    (* where the run queue starts                           *)
  next,             (* the run queue's links                                *)
  next_pid,
  kernel_stack,     (* kernel_stack[t]: the stack in the PCB of t           *)
  esp,              (* the saved stack pointers of the PCBs                 *)
  tss,              (* whose stack tss.esp0 points to                       *)
  tick,             (* the PIT's counter                                    *)
  since,            (* history: ticks since process_schedule was called     *)
  cpu,              (* the processor's registers                            *)
  stack,            (* stack[t][i]: slot i of the stack of t                *)
  irr,              (* lines with a pending request                         *)
  inService         (* in-service bits of both controllers                  *)

processVars == <<current_process, process_queue, next, next_pid, kernel_stack, esp, tss>>
timerVars == <<tick, since>>
picVars == <<irr, inService>>
vars == <<processVars, timerVars, cpu, stack, picVars>>

-----------------------------------------------------------------------------
(* The processor.  loc stands for the instruction pointer; regs says whose  *)
(* values the general registers hold; sp counts the slots in use of the     *)
(* stack the stack pointer is in.                                           *)
ThreadLoc == {"boot", "body", "halted"}
HandlerLoc == {"irq", "dispatch", "isr", "schedule", "unstub"}

Cpu == [loc : ThreadLoc \cup HandlerLoc \cup {"entry"}, cpl : {0, 3}, iflag : BOOLEAN,
        ds : {KERNEL_DS, USER_DS}, regs : {Kernel} \cup Thread,
        on : Thread, sp : 0 .. Slots]

Moved(c, loc, on, sp) ==
  [loc |-> loc, cpl |-> c.cpl, iflag |-> c.iflag, ds |-> c.ds, regs |-> c.regs,
   on |-> on, sp |-> sp]

(* The instruction after hlt is the one an interrupt returns to.            *)
InBody(c) == IF c.loc = "halted" THEN [c EXCEPT !.loc = "body"] ELSE c

(* The stack pointer is pushed only when the interrupt comes from ring 3.   *)
Saved(c) == IF c.cpl = 3 THEN c ELSE Moved(c, c.loc, NULL, 0)

(* What the hardware and the stub push (the mutant is a stub without pusha).*)
PushedWithoutRegisters == Saved([InBody(cpu) EXCEPT !.regs = Kernel])
Pushed == Saved(InBody(cpu))

InterruptFrame(int_no, pushed) == [int_no |-> int_no, pushed |-> pushed]
SwitchFrame(ret) == [ret |-> ret]
UserFrame(i) == [i |-> i]
Free == [free |-> TRUE]

(* (A stub that leaves the kernel's segments loaded.) *)
RestoredButSegments(t, sp) ==
  LET p == [stack[t][sp].pushed EXCEPT !.ds = KERNEL_DS]
  IN IF p.cpl = 3 THEN p ELSE Moved(p, p.loc, t, sp - 1)

(* What iret and the pops before it restore from slot sp of stack t.        *)
Restored(t, sp) ==
  LET p == stack[t][sp].pushed
  IN IF p.cpl = 3 THEN p ELSE Moved(p, p.loc, t, sp - 1)

(* Every gate is an interrupt gate (0x8E, 0xEE) and every stub starts with  *)
(* cli.                                                                     *)
TrapGateFlag == cpu.iflag
FlagInHandler == FALSE

(* The gate and the stub up to its call: the frame goes onto the stack of   *)
(* the TSS when the interrupt comes from ring 3, and onto the current stack *)
(* otherwise; interrupts are off until the stub returns.                    *)
Interrupt(int_no, loc) ==
  LET on == IF cpu.cpl = 3 THEN tss ELSE cpu.on
      sp == IF cpu.cpl = 3 THEN 0 ELSE cpu.sp
  IN /\ stack' = [stack EXCEPT ![on][sp + 1] = InterruptFrame(int_no, Pushed)]
     /\ cpu' = [loc |-> loc, cpl |-> 0, iflag |-> FlagInHandler, ds |-> KERNEL_DS,
                regs |-> Kernel, on |-> on, sp |-> sp + 1]

-----------------------------------------------------------------------------
(* The interrupt controllers.  The slave reports through line 2.            *)
Line(i) == IF i >= 8 THEN 2 ELSE i
Before(i, j) == Line(i) < Line(j) \/ (Line(i) = Line(j) /\ i <= j)
Least(S) == CHOOSE i \in S : \A j \in S : i <= j

(* The request the controllers put through to the processor: the one of     *)
(* highest priority, unless a bit of its own or higher priority is in       *)
(* service.                                                                 *)
Asserted(i) ==
  /\ i \in irr
  /\ \A j \in irr : Before(i, j)
  /\ \A j \in inService : (j < 8 => Line(i) < j) /\ (i >= 8 /\ j >= 8 => i < j)

IntrPending == \E i \in Irq : Asserted(i)

(* (pic_send_eoi that forgets the slave.) *)
EoiToMasterOnly(irq, served) ==
  IF served \cap (0 .. 7) = {} THEN served ELSE served \ {Least(served \cap (0 .. 7))}

(* A non-specific end of interrupt clears the highest bit in service of a   *)
(* controller; pic_send_eoi sends it to the slave first when it asked.      *)
EoiTo(bits, served) ==
  IF served \cap bits = {} THEN served ELSE served \ {Least(served \cap bits)}

AfterEoi(irq, served) ==
  EoiTo(0 .. 7, IF irq >= 8 THEN EoiTo(8 .. 15, served) ELSE served)

pic_send_eoi(irq) == inService' = AfterEoi(irq, inService)

RaiseIrq(i) ==
  /\ i \notin irr
  /\ irr' = irr \cup {i}
  /\ UNCHANGED <<processVars, timerVars, cpu, stack, inService>>

(* The processor takes the request before it executes another instruction.  *)
Deliver(i) ==
  /\ cpu.iflag
  /\ Asserted(i)
  /\ irr' = irr \ {i}
  /\ inService' = inService \cup {i, Line(i)}
  /\ Interrupt(32 + i, "irq")
  /\ UNCHANGED <<processVars, timerVars>>

(* A request that vanished is reported as line 7, with no bit in service.   *)
DeliverSpurious ==
  /\ cpu.iflag
  /\ ~ IntrPending
  /\ Interrupt(32 + Spurious, "irq")
  /\ UNCHANGED <<processVars, timerVars, picVars>>

-----------------------------------------------------------------------------
(* The dispatchers.  Their argument is the frame the stub pushed.           *)
IntNo == stack[cpu.on][cpu.sp].int_no

irq_handler ==
  /\ cpu.loc = "irq"
  /\ pic_send_eoi(IntNo - 32)
  /\ cpu' = [cpu EXCEPT !.loc = "dispatch"]
  /\ UNCHANGED <<processVars, timerVars, stack, irr>>

(* (Tick 0 does not count.) *)
SliceOverButNotAtZero(t) == t > 0 /\ t % SLICE = 0
SliceOver(t) == t % SLICE = 0

(* pit_callback, the handler of vector 32.                                  *)
pit_callback ==
  /\ cpu.loc = "dispatch"
  /\ IntNo = 32
  /\ tick' = (tick + 1) % TICKS
  /\ since' = since + 1
  /\ cpu' = [cpu EXCEPT !.loc = IF SliceOver(tick') THEN "schedule" ELSE "unstub"]
  /\ UNCHANGED <<processVars, stack, picVars>>

(* The handler of another line leaves all of this alone (keyboard_callback, *)
(* module Keyboard), and most lines have none.                              *)
OtherIrqHandler ==
  /\ cpu.loc = "dispatch"
  /\ IntNo # 32
  /\ cpu' = [cpu EXCEPT !.loc = "unstub"]
  /\ UNCHANGED <<processVars, timerVars, stack, picVars>>

(* The system call prints, an exception without a handler is reported.      *)
isr_handler ==
  /\ cpu.loc = "isr"
  /\ cpu' = [cpu EXCEPT !.loc = "unstub"]
  /\ UNCHANGED <<processVars, timerVars, stack, picVars>>

(* switch_task: its frame goes onto the old stack, the stack pointer into   *)
(* the old PCB, and the frame the new PCB points to says where to go on.    *)
switch_task(prev, to) ==
  /\ stack' = [stack EXCEPT ![cpu.on][cpu.sp + 1] = SwitchFrame("unstub")]
  /\ esp' = [esp EXCEPT ![prev] = [on |-> cpu.on, sp |-> cpu.sp + 1]]
  /\ LET from == esp[to]
     IN cpu' = Moved(cpu, stack[from.on][from.sp].ret, from.on, from.sp - 1)

tss_left_alone(kernel_esp) == UNCHANGED tss
tss_set_stack(kernel_esp) == tss' = kernel_esp

process_schedule ==
  /\ cpu.loc = "schedule"
  /\ since' = 0
  /\ IF current_process = NULL \/ next[current_process] = current_process
       THEN /\ cpu' = [cpu EXCEPT !.loc = "unstub"]
            /\ UNCHANGED <<current_process, esp, tss, stack>>
       ELSE LET to == next[current_process]
            IN /\ current_process' = to
               /\ tss_set_stack(kernel_stack[to])
               /\ switch_task(current_process, to)
  /\ UNCHANGED <<process_queue, next, next_pid, kernel_stack, tick, picVars>>

(* The end of the stubs: the pops, sti (in whose shadow nothing is taken)   *)
(* and iret.                                                                *)
ReturnFromInterrupt ==
  /\ cpu.loc = "unstub"
  /\ cpu' = Restored(cpu.on, cpu.sp)
  /\ UNCHANGED <<processVars, timerVars, stack, picVars>>

Handler ==
  \/ irq_handler \/ pit_callback \/ OtherIrqHandler \/ isr_handler
  \/ process_schedule \/ ReturnFromInterrupt

-----------------------------------------------------------------------------
(* The threads.  A thread executes its next instruction when no request is  *)
(* waiting for the processor to take it.                                    *)
Executes(loc) ==
  /\ cpu.loc = loc
  /\ ~ (cpu.iflag /\ IntrPending)

(* kernel_main becomes the first thread.  Its kernel_stack is a guess,      *)
(* which is beyond the boot stack.                                          *)
process_initialize ==
  /\ Executes("boot")
  /\ current_process = NULL
  /\ current_process' = next_pid
  /\ process_queue' = next_pid
  /\ next' = [next EXCEPT ![next_pid] = next_pid]
  /\ next_pid' = next_pid + 1
  /\ UNCHANGED <<kernel_stack, esp, tss, timerVars, cpu, stack, picVars>>

(* The search for the last thread of the run queue (the mutant forgets it). *)
FirstOfQueue == process_queue
LastOfQueue == CHOOSE p \in 1 .. next_pid - 1 : next[p] = process_queue

(* A new thread is linked behind the last one of the run queue.             *)
process_create_thread ==
  /\ Executes("boot")
  /\ current_process # NULL
  /\ next_pid <= N
  /\ LET proc == next_pid
     IN /\ next' = [next EXCEPT ![LastOfQueue] = proc, ![proc] = process_queue]
        /\ kernel_stack' = [kernel_stack EXCEPT ![proc] = proc]
        /\ stack' = [stack EXCEPT ![proc][1] = SwitchFrame("entry")]
        /\ esp' = [esp EXCEPT ![proc] = [on |-> proc, sp |-> 1]]
        /\ next_pid' = next_pid + 1
  /\ UNCHANGED <<current_process, process_queue, tss, timerVars, cpu, picVars>>

(* kernel_main executes sti and goes on to the shell.                       *)
EnableInterrupts ==
  /\ Executes("boot")
  /\ next_pid > N
  /\ cpu' = [loc |-> "body", cpl |-> cpu.cpl, iflag |-> TRUE, ds |-> cpu.ds,
             regs |-> cpu.regs, on |-> cpu.on, sp |-> cpu.sp]
  /\ UNCHANGED <<processVars, timerVars, stack, picVars>>

(* The shell waits for a key in keyboard_getchar; a thread that has         *)
(* returned stays in thread_exit.                                           *)
Halt ==
  /\ Executes("body")
  /\ Entry[current_process] \in {"shell", "return"}
  /\ cpu' = [cpu EXCEPT !.loc = "halted"]
  /\ UNCHANGED <<processVars, timerVars, stack, picVars>>

(* (enter_user_mode without or $0x200.) *)
EnteredWithInterruptsOff(t) ==
  [loc |-> "body", cpl |-> 3, iflag |-> FALSE, ds |-> USER_DS, regs |-> t,
   on |-> t, sp |-> 1]

(* The context a thread's entry point puts it into.  background_task calls  *)
(* enter_user_mode, whose iret leaves the user function on the same stack   *)
(* with interrupts on; a kernel function is entered by ret with the timer   *)
(* interrupt's IF, and thread_exit after it.                                *)
Entered(t) ==
  IF Entry[t] = "user"
    THEN [loc |-> "body", cpl |-> 3, iflag |-> TRUE, ds |-> USER_DS, regs |-> t,
          on |-> t, sp |-> 1]
    ELSE [loc |-> "body", cpl |-> 0, iflag |-> FALSE, ds |-> KERNEL_DS, regs |-> t,
          on |-> t, sp |-> 0]

EnterThread ==
  /\ Executes("entry")
  /\ cpu' = Entered(cpu.on)
  /\ stack' = IF Entry[cpu.on] = "user"
                THEN [stack EXCEPT ![cpu.on][1] = UserFrame(0)]
                ELSE stack
  /\ UNCHANGED <<processVars, timerVars, picVars>>

(* user_mode_function assigns its local variable.                           *)
UserStep ==
  /\ Executes("body")
  /\ cpu.cpl = 3
  /\ \E i \in 0 .. 1 : stack' = [stack EXCEPT ![cpu.on][cpu.sp] = UserFrame(i)]
  /\ UNCHANGED <<processVars, timerVars, cpu, picVars>>

(* User code makes a system call or raises an exception.                    *)
UserTrap(int_no) ==
  /\ Executes("body")
  /\ cpu.cpl = 3
  /\ Interrupt(int_no, "isr")
  /\ UNCHANGED <<processVars, timerVars, picVars>>

ThreadStep ==
  \/ process_initialize \/ process_create_thread \/ EnableInterrupts \/ Halt
  \/ EnterThread \/ UserStep
  \/ \E int_no \in {14, 128} : UserTrap(int_no)

-----------------------------------------------------------------------------
Init ==
  /\ current_process = NULL
  /\ process_queue = NULL
  /\ next = [t \in Thread |-> NULL]
  /\ next_pid = 1
  /\ kernel_stack = [t \in Thread |-> NULL]
  /\ esp = [t \in Thread |-> [on |-> NULL, sp |-> 0]]
  /\ tss = NULL
  /\ tick = 0
  /\ since = 0
  /\ cpu = [loc |-> "boot", cpl |-> 0, iflag |-> FALSE, ds |-> KERNEL_DS, regs |-> Main,
            on |-> Main, sp |-> 0]
  /\ stack = [t \in Thread |-> [i \in 1 .. Slots |-> Free]]
  /\ irr = {}
  /\ inService = {}

TakeInterrupt == (\E i \in Irq : Deliver(i)) \/ DeliverSpurious

Next ==
  \/ \E i \in Irq : RaiseIrq(i)
  \/ TakeInterrupt
  \/ Handler
  \/ ThreadStep

(***************************************************************************)
(* The processor never stops executing: it takes the requests the          *)
(* controllers put through, finishes handlers and executes threads.  The   *)
(* PIT, programmed once as a rate generator, raises its line again and     *)
(* again.  Nothing else ever has to happen.                                *)
(***************************************************************************)
Fairness ==
  /\ WF_vars((\E i \in Irq : Deliver(i)) \/ Handler \/ ThreadStep)
  /\ WF_vars(RaiseIrq(Timer))

Spec == Init /\ [][Next]_vars /\ Fairness

-----------------------------------------------------------------------------
(* The types; that sp stays within Slots says that interrupts do not nest   *)
(* on a stack (interrupts.s:35, 54, 137, 165).                              *)
Context == [loc : {"body"}, cpl : {0, 3}, iflag : BOOLEAN, ds : {KERNEL_DS, USER_DS},
            regs : Thread, on : Thread \cup {NULL}, sp : 0 .. Slots]
Vector == {14, 128} \cup {32 + i : i \in Irq \cup {Spurious}}
Frame ==
  [int_no : Vector, pushed : Context] \cup [ret : {"entry", "unstub"}]
    \cup [i : 0 .. 1] \cup {Free}

TypeOK ==
  /\ current_process \in Thread \cup {NULL}
  /\ process_queue \in Thread \cup {NULL}
  /\ next \in [Thread -> Thread \cup {NULL}]
  /\ next_pid \in 1 .. N + 1
  /\ kernel_stack \in [Thread -> Thread \cup {NULL}]
  /\ esp \in [Thread -> [on : Thread \cup {NULL}, sp : 0 .. Slots]]
  /\ tss \in Thread \cup {NULL}
  /\ tick \in 0 .. TICKS - 1
  /\ since \in Nat
  /\ cpu \in Cpu
  /\ stack \in [Thread -> [1 .. Slots -> Frame]]
  /\ irr \subseteq Irq
  /\ inService \subseteq 0 .. 15

(* The run queue links every thread that was created, in the order of       *)
(* creation, and back to the first (process.c:78-84).                       *)
RunQueueIsRing ==
  current_process # NULL =>
    \A t \in 1 .. next_pid - 1 : next[t] = IF t = next_pid - 1 THEN Main ELSE t + 1

(* Whatever runs, the PCB, the stack pointer and the general registers are  *)
(* those of one thread: the switch changes them together                    *)
(* (process.c:94-100, switch.s:18-38).                                      *)
OneThreadOnProcessor ==
  /\ current_process # NULL => cpu.on = current_process
  /\ cpu.loc \in ThreadLoc => cpu.regs = cpu.on

(* In ring 3 the next interrupt finds the stack of the thread that runs,    *)
(* and it can come (process.c:97-98, user.s:35-38).                         *)
RingThreeCanBeInterrupted ==
  cpu.cpl = 3 => tss = current_process /\ cpu.iflag /\ cpu.ds = USER_DS

(* No line stays blocked: the controllers have been told the end of every   *)
(* interrupt before its handler runs, so also before the handler switches   *)
(* to a thread that has no handler to return from (isr.c:138-144).          *)
NoLineBlocked == cpu.loc # "irq" => inService = {}

(* Interrupts and switches are invisible to the threads, except that the    *)
(* processor goes round: a suspended thread resumes with the ring, the      *)
(* interrupt flag, the segments, the registers, the stack pointer and the   *)
(* place it was suspended with (interrupts.s:113-166, switch.s:18-38,       *)
(* docs/process.md:16, 22).                                                 *)
Birth ==
  [t \in Thread |->
    [loc |-> IF t = Main THEN "boot" ELSE "entry", cpl |-> 0, iflag |-> FALSE,
     ds |-> KERNEL_DS, regs |-> IF t = Main THEN Main ELSE Kernel, on |-> t, sp |-> 0]]

Started(t) ==
  IF t = Main
    THEN [loc |-> "body", cpl |-> 0, iflag |-> TRUE, ds |-> KERNEL_DS, regs |-> Main,
          on |-> Main, sp |-> 0]
    ELSE Entered(t)

Own == [t \in Thread |-> {<<Birth[t], Started(t)>>}]

Running == IF current_process = NULL THEN Main ELSE current_process

ContextOf(t) ==
  IF t = Running
    THEN IF cpu.loc \in HandlerLoc THEN Restored(cpu.on, cpu.sp) ELSE InBody(cpu)
    ELSE IF t >= next_pid \/ stack[esp[t].on][esp[t].sp] = SwitchFrame("entry")
           THEN Birth[t]
           ELSE Restored(esp[t].on, esp[t].sp - 1)

Rounds == INSTANCE RoundRobin WITH
            created <- IF next_pid = 1 THEN 1 ELSE next_pid - 1,
            running <- Running,
            context <- [t \in Thread |-> ContextOf(t)]

ImplementsRoundRobin == Rounds!Spec

(* Every thread executes its own code again and again (docs/process.md:22). *)
EveryThreadRuns ==
  \A t \in Thread : []<>(current_process = t /\ cpu.loc \in {"body", "halted"})

(* The scheduler is called every SLICE ticks.  A slice is shorter only when *)
(* the tick counter wraps in it, and none is ever longer (pit.c:9-15,       *)
(* docs/process.md:22).                                                     *)
SlicesAreEven ==
  /\ since <= SLICE
  /\ cpu.loc = "schedule" => since = SLICE \/ tick = 0

(* docs/process.md:16 says a switch seamlessly resumes the next task: what  *)
(* a user function keeps in memory is changed by nobody else.               *)
UserMemoryIsPrivate ==
  [][\A t \in Thread :
       stack[t][1] \in [i : 0 .. 1] /\ stack'[t][1] # stack[t][1] => UserStep]_vars

(* docs/process.md:3 says multitasking is preemptive at the kernel level: a *)
(* thread that stays in the kernel, also one that has returned and halts    *)
(* there (process.c:60), does not keep the others from running.             *)
KernelThreadsArePreempted == EveryThreadRuns
=============================================================================
