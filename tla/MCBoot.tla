------------------------------- MODULE MCBoot -------------------------------
(***************************************************************************)
(* 64 blocks of 4 bytes, tables of 8 entries, an identity map that ends    *)
(* inside its third table, and registers of three pages, right behind it   *)
(* in the same table or across two others.  Memory and modules for which   *)
(* the boot succeeds, just succeeds, runs out of blocks or of identity map *)
(* at different points, and never gets through the map of the memory.      *)
(***************************************************************************)
EXTENDS Boot

Lower == 11
Info(blocks, mods) ==
  LET top == PMM_BLOCK_SIZE * blocks + LOWER_END - Lower + 3
  IN  [mem |-> Lower + top - LOWER_END, mods |-> mods,
       mmap |-> <<[addr |-> 0, len |-> Lower, available |-> TRUE],
                  [addr |-> Lower, len |-> LOWER_END - Lower, available |-> FALSE],
                  [addr |-> LOWER_END, len |-> top - LOWER_END, available |-> TRUE]>>]
Module(from, to) == <<[mod_start |-> from, mod_end |-> to]>>

TooLarge ==
  [mem |-> 160, mods |-> <<>>,
   mmap |-> <<[addr |-> LOWER_END, len |-> 152, available |-> TRUE],
              [addr |-> W, len |-> W - 2, available |-> TRUE]>>]

AllBootInfo ==
  {Info(40, <<>>), Info(40, Module(36, 42)), Info(40, Module(36, 60)),
   Info(40, Module(100, 110)), Info(16, <<>>), Info(16, Module(36, 40)),
   Info(16, Module(36, 48)), Info(12, <<>>), Info(8, <<>>), TooLarge}

Slot(multi, f0, f1, f2) ==
  [multi |-> multi, functions |-> (0 :> f0) @@ (1 :> f1) @@ (2 :> f2)]

Kinds ==
  {Slot(FALSE, "none", "none", "none"), Slot(FALSE, "e1000", "none", "none"),
   Slot(FALSE, "ide", "none", "none"), Slot(TRUE, "ide", "none", "e1000"),
   Slot(TRUE, "none", "e1000", "none")}

AllMachines ==
  [slots : [1 .. 2 -> Kinds], bar : {20, 54}, magic : {TRUE}]
    \cup [slots : {<<>>}, bar : {20}, magic : {FALSE}]
=============================================================================
