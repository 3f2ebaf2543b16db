---------------------------- MODULE RoundRobin ----------------------------
(***************************************************************************)
(* What the kernel's multitasking promises its threads: each thread owns a *)
(* processor context that only the thread itself changes, whatever the     *)
(* interrupts and the other threads do, and the processor is handed round  *)
(* in the order the threads were created, again and again.                 *)
(***************************************************************************)
EXTENDS Naturals

CONSTANTS
  N,        (* how many threads there can be; the boot thread is thread 1   *)
  Birth,    (* Birth[t]: the context thread t starts with                   *)
  Own       (* Own[t]: the changes <<from, to>> thread t makes to its own   *)

Thread == 1 .. N

VARIABLES
  created,  (* the threads 1 .. created exist                               *)
  running,  (* the thread that has the processor                            *)
  context   (* the context of every thread                                  *)

vars == <<created, running, context>>

Init ==
  /\ created = 1
  /\ running = 1
  /\ context = Birth

(* The running thread creates one more thread, the last of the round.       *)
Create ==
  /\ created < N
  /\ created' = created + 1
  /\ UNCHANGED <<running, context>>

(* The running thread changes its own context.                              *)
Run ==
  /\ \E c \in Own[running] :
       /\ context[running] = c[1]
       /\ context' = [context EXCEPT ![running] = c[2]]
  /\ UNCHANGED <<created, running>>

(* The next thread of the round gets the processor.                         *)
After(t) == IF t = created THEN 1 ELSE t + 1

Preempt ==
  /\ created > 1
  /\ running' = After(running)
  /\ UNCHANGED <<created, context>>

Next == Create \/ Run \/ Preempt

Spec == Init /\ [][Next]_vars
=============================================================================
