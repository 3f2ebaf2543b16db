------------------------------- MODULE MCPmm -------------------------------
(***************************************************************************)
(* An address space of 32 blocks of 4 bytes.  The lower memory ends inside *)
(* block 2, the upper memory starts with block 6, as 640 KiB and 1 MiB do. *)
(***************************************************************************)
EXTENDS Pmm

Lower == 11
LowerRegion == [addr |-> 0, len |-> Lower, available |-> TRUE]
Hole == [addr |-> Lower, len |-> LOWER_END - Lower, available |-> FALSE]
Region(from, to) == [addr |-> from, len |-> to - from, available |-> TRUE]
Reserved(from, to) == [addr |-> from, len |-> to - from, available |-> FALSE]
Module(from, to) == [mod_start |-> from, mod_end |-> to]

(* mem_upper ends with the first hole above LOWER_END.                      *)
Boot(top, mods, rest) ==
  [mem |-> Lower + top - LOWER_END, mods |-> mods,
   mmap |-> <<LowerRegion, Hole, Region(LOWER_END, top)>> \o rest]

Plain == Boot(88, <<>>, <<>>)
Unaligned == Boot(90, <<Module(36, 46)>>, <<>>)
TwoModules == Boot(88, <<Module(34, 40), Module(40, 46)>>, <<>>)
Holes == Boot(64, <<>>, <<Reserved(64, 66), Region(66, 89)>>)
High == Boot(88, <<>>, <<Region(W, W + 56)>>)

(* More memory above 4 GiB than a uint32_t can count, and as much that the  *)
(* loop over it does not end.                                               *)
Large == Boot(88, <<>>, <<Region(W, 2 * W + 56)>>)
TooLarge == Boot(88, <<>>, <<Region(W, 2 * W + W - 2)>>)

AllBoots == {Plain, Unaligned, TwoModules, Holes, High, Large, TooLarge}

(* The module that ends last is not the last one of the list, and, with a   *)
(* kernel that ends at 32, the bitmap with all its bytes but the last ends  *)
(* where a block ends.                                                      *)
Descending == Boot(88, <<Module(38, 46), Module(34, 36)>>, <<>>)
OneBoot == {Descending}
=============================================================================
