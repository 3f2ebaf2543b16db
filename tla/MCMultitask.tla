---------------------------- MODULE MCMultitask ----------------------------
(***************************************************************************)
(* kernel_main and the threads it creates, with the timer, one more line   *)
(* of the master controller and one of the slave.                          *)
(***************************************************************************)
EXTENDS Multitask

UserThreads      == [t \in Thread |-> IF t = Main THEN "shell" ELSE "user"]
ReturningThreads == [t \in Thread |-> IF t = Main THEN "shell" ELSE "return"]
=============================================================================
