----------------------------- MODULE BlockPool -----------------------------
(***************************************************************************)
(* What the physical memory manager promises the rest of the kernel: a     *)
(* pool of blocks of usable memory.  A block is in the pool or held by one *)
(* caller, never both and never by two, and a caller is refused only when  *)
(* the pool is empty.                                                      *)
(***************************************************************************)
CONSTANTS
  Block,   (* the blocks of the address space                               *)
  NoBlock  (* what a caller gets that is refused                            *)

VARIABLES
  usable,  (* the blocks a caller can be given, known when the kernel boots *)
  open,    (* the pool has been filled                                      *)
  pool,    (* the blocks waiting for a caller                               *)
  held,    (* the blocks callers hold                                       *)
  result   (* what the last caller got                                      *)

vars == <<usable, open, pool, held, result>>

Init ==
  /\ usable \in SUBSET Block
  /\ open = FALSE
  /\ pool = {}
  /\ held = {}
  /\ result = NoBlock

Open ==
  /\ ~open
  /\ open' = TRUE
  /\ pool' \in SUBSET usable
  /\ UNCHANGED <<usable, held, result>>

Take(b) ==
  /\ b \in pool
  /\ pool' = pool \ {b}
  /\ held' = held \cup {b}
  /\ result' = b
  /\ UNCHANGED <<usable, open>>

Refuse ==
  /\ open /\ pool = {}
  /\ result' = NoBlock
  /\ UNCHANGED <<usable, open, pool, held>>

Give(b) ==
  /\ b \in held
  /\ held' = held \ {b}
  /\ pool' = pool \cup {b}
  /\ UNCHANGED <<usable, open, result>>

Next == Open \/ Refuse \/ \E b \in Block : Take(b) \/ Give(b)

Spec == Init /\ [][Next]_vars
=============================================================================
