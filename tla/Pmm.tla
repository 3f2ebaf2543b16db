-------------------------------- MODULE Pmm --------------------------------
(***************************************************************************)
(* memory/pmm.c: the physical memory manager fills a bitmap from the map   *)
(* the boot loader hands over, and gives out and takes back blocks.        *)
(*                                                                         *)
(* The bitmap is itself in memory, behind the kernel and the modules, so   *)
(* the block a byte of it lies in matters: whoever holds that block writes *)
(* over the bitmap.  Addresses and the counter are uint32_t: modulo W.     *)
(***************************************************************************)
EXTENDS Integers, Sequences, FiniteSets

CONSTANTS
  PMM_BLOCK_SIZE,  (* bytes of a block (4096)                               *)
  BITS,            (* blocks a byte of the bitmap stands for (8)            *)
  W,               (* the range of a uint32_t (2^32)                        *)
  LOWER_END,       (* where the memory above the legacy hole starts (1 MiB) *)
  kernel_end,      (* where the linker put the end of the kernel            *)
  BootInfo         (* the boot informations the kernel may be handed:       *)
                   (* mem, the bytes of mem_lower and mem_upper together;   *)
                   (* mods, the modules; mmap, the regions of the map       *)

Address == 0 .. W - 1
Block == 0 .. (W - 1) \div PMM_BLOCK_SIZE
NULL == 0

ASSUME PmmAssumption ==
  /\ PMM_BLOCK_SIZE \in Nat \ {0}
  /\ BITS \in Nat \ {0}
  /\ W \in Nat \ {0}
  /\ W % PMM_BLOCK_SIZE = 0
  /\ LOWER_END \in Address
  /\ kernel_end \in Address
  /\ PMM_BLOCK_SIZE <= kernel_end
  /\ \A b \in BootInfo :
       /\ b.mem \in Address
       /\ b.mods \in Seq([mod_start : Address, mod_end : Address])
       /\ b.mmap \in Seq([addr : Nat, len : Nat, available : BOOLEAN])

VARIABLES
  mbi,              (* the boot information                                 *)
  pmm_bitmap,       (* pmm_bitmap[i]: the bit of block i is set             *)
  pmm_max_blocks,
  pmm_used_blocks,
  initialized,      (* pmm_initialize has run                               *)
  held,             (* the blocks the callers hold                          *)
  returned          (* what pmm_alloc_block returned last, as a block       *)

vars ==
  <<mbi, pmm_bitmap, pmm_max_blocks, pmm_used_blocks, initialized, held, returned>>

TypeOK ==
  /\ mbi \in BootInfo
  /\ pmm_bitmap \in [Block -> BOOLEAN]
  /\ pmm_max_blocks \in Block
  /\ pmm_used_blocks \in 0 .. W - 1
  /\ initialized \in BOOLEAN
  /\ held \subseteq Block
  /\ returned \in Block

-----------------------------------------------------------------------------
(* pmm_initialize.                                                          *)
(* (Bytes taken for blocks.) *)
MaxBytes == mbi.mem
MaxBlocks == mbi.mem \div PMM_BLOCK_SIZE

(* (Modules are not protected.) *)
BitmapBehindKernel == kernel_end

(* The bitmap comes behind the kernel and the last module.                  *)
BitmapStart ==
  IF mbi.mods # <<>> /\ mbi.mods[Len(mbi.mods)].mod_end > kernel_end
    THEN mbi.mods[Len(mbi.mods)].mod_end
    ELSE kernel_end

BitmapSize == MaxBlocks \div BITS
SafeMemStart == BitmapStart + BitmapSize

(* The bits memset has not set keep what the memory held before.            *)
Garbage == {i \in 0 .. MaxBlocks - 1 : i \div BITS >= BitmapSize}

(* The loop over an available region takes every address a whole number of  *)
(* blocks from its start; of start and length only the lower half is used.  *)
LenLow(region) == region.len % W

Visited(region) ==
  IF region.available
    THEN {(region.addr + k * PMM_BLOCK_SIZE) % W :
            k \in {j \in Block : j * PMM_BLOCK_SIZE < LenLow(region)}}
    ELSE {}

(* Its counter is a uint32_t too: behind the last multiple of the block     *)
(* size it starts from 0 again, and never reaches a length beyond that.     *)
LoopEnds(region) == region.available => LenLow(region) <= W - PMM_BLOCK_SIZE

LoopsEnd == \A r \in DOMAIN mbi.mmap : LoopEnds(mbi.mmap[r])

Cleared(region) ==
  {a \div PMM_BLOCK_SIZE : a \in {v \in Visited(region) : v >= SafeMemStart}}

(* One decrement of the counter for each bit cleared, also for a bit that   *)
(* was clear before.                                                        *)
Decrements ==
  UNION {{<<r, b>> : b \in Cleared(mbi.mmap[r])} : r \in DOMAIN mbi.mmap}

pmm_initialize ==
  /\ ~initialized
  /\ LoopsEnd
  /\ initialized' = TRUE
  /\ pmm_max_blocks' = MaxBlocks
  /\ \E garbage \in SUBSET Garbage :
       pmm_bitmap' =
         [i \in Block |->
           /\ \A r \in DOMAIN mbi.mmap : i \notin Cleared(mbi.mmap[r])
           /\ IF i \div BITS < BitmapSize THEN TRUE
              ELSE IF i \in Garbage THEN i \in garbage ELSE pmm_bitmap[i]]
  /\ pmm_used_blocks' = (MaxBlocks - Cardinality(Decrements)) % W
  /\ UNCHANGED <<mbi, held, returned>>

(* The loop that does not end: the kernel never gets any further.           *)
Endless ==
  /\ ~initialized
  /\ ~LoopsEnd
  /\ UNCHANGED vars

-----------------------------------------------------------------------------
(* The operations.                                                          *)
ClearBits == {i \in 0 .. pmm_max_blocks - 1 : ~pmm_bitmap[i]}

(* The first bit that is clear.                                             *)
Found(i) == i \in ClearBits /\ \A j \in ClearBits : i <= j

pmm_alloc_block ==
  /\ initialized
  /\ \/ \E i \in Block :
          /\ Found(i)
          /\ pmm_bitmap' = [pmm_bitmap EXCEPT ![i] = TRUE]
          /\ pmm_used_blocks' = (pmm_used_blocks + 1) % W
          /\ returned' = i
          /\ held' = held \cup {i}
     \/ /\ ClearBits = {}
        /\ returned' = NULL
        /\ UNCHANGED <<pmm_bitmap, pmm_used_blocks, held>>
  /\ UNCHANGED <<mbi, pmm_max_blocks, initialized>>

(* (Without the test of the bit.) *)
ReleaseUntested(b) ==
  /\ pmm_bitmap' = [pmm_bitmap EXCEPT ![b] = FALSE]
  /\ pmm_used_blocks' = (pmm_used_blocks - 1) % W

Release(b) ==
  IF pmm_bitmap[b]
    THEN /\ pmm_bitmap' = [pmm_bitmap EXCEPT ![b] = FALSE]
         /\ pmm_used_blocks' = (pmm_used_blocks - 1) % W
    ELSE UNCHANGED <<pmm_bitmap, pmm_used_blocks>>

(* A caller gives back a block it holds, or one that was given back before. *)
pmm_free_block(b) ==
  /\ initialized
  /\ b \in held \cup ClearBits
  /\ Release(b)
  /\ held' = held \ {b}
  /\ UNCHANGED <<mbi, pmm_max_blocks, initialized, returned>>

(* The bits whose byte of the bitmap lies in block b.                       *)
BitsIn(b) ==
  {i \in 0 .. pmm_max_blocks - 1 : (BitmapStart + i \div BITS) \div PMM_BLOCK_SIZE = b}

(* The holder of a block writes to it.                                      *)
Write(b) ==
  /\ b \in held
  /\ \E set \in SUBSET BitsIn(b) :
       pmm_bitmap' =
         [i \in Block |-> IF i \in BitsIn(b) THEN i \in set ELSE pmm_bitmap[i]]
  /\ UNCHANGED <<mbi, pmm_max_blocks, pmm_used_blocks, initialized, held, returned>>

Init ==
  /\ mbi \in BootInfo
  /\ pmm_bitmap = [i \in Block |-> FALSE]
  /\ pmm_max_blocks = 0
  /\ pmm_used_blocks = 0
  /\ initialized = FALSE
  /\ held = {}
  /\ returned = NULL

Next ==
  \/ pmm_initialize \/ Endless
  \/ pmm_alloc_block
  \/ \E b \in Block : pmm_free_block(b) \/ Write(b)

Spec == Init /\ [][Next]_vars

-----------------------------------------------------------------------------
(* The bytes of block b.                                                    *)
BytesOf(b) == b * PMM_BLOCK_SIZE .. b * PMM_BLOCK_SIZE + PMM_BLOCK_SIZE - 1

(* The bytes nobody may be given: the legacy area with the kernel behind    *)
(* it, the modules, and the bitmap with its last byte.                      *)
ModuleBytes ==
  UNION {mbi.mods[m].mod_start .. mbi.mods[m].mod_end - 1 : m \in DOMAIN mbi.mods}

Taken ==
  (0 .. kernel_end - 1)
    \cup ModuleBytes
    \cup (BitmapStart .. BitmapStart + (MaxBlocks + BITS - 1) \div BITS - 1)

Usable ==
  {b \in Block :
     /\ BytesOf(b) \cap Taken = {}
     /\ \E r \in DOMAIN mbi.mmap :
          /\ mbi.mmap[r].available
          /\ BytesOf(b) \subseteq
               mbi.mmap[r].addr .. mbi.mmap[r].addr + mbi.mmap[r].len - 1}

(* The allocator is the abstract pool, and every block it gives out is a    *)
(* whole block of RAM without a byte of the kernel, of a module or of the   *)
(* bitmap, although the map is unaligned and overlaps with the kernel       *)
(* (pmm.c:29-74, 76-93).  This is for lists whose last module ends last;    *)
(* NothingTakenIsGivenOut is checked with another one.                      *)
Pool == INSTANCE BlockPool WITH
          NoBlock <- NULL, usable <- Usable, open <- initialized,
          pool <- IF initialized THEN ClearBits ELSE {}, result <- returned

ImplementsBlockPool == Pool!Spec

(* The counter moves with the bitmap: whatever the callers do, also when    *)
(* they give a block back twice, its distance from the number of set bits   *)
(* stays what pmm_initialize made it (pmm.c:79-80, 89-92).                  *)
SetBits == {i \in 0 .. pmm_max_blocks - 1 : pmm_bitmap[i]}

CounterFollowsBitmap ==
  [][initialized =>
       pmm_used_blocks' = (pmm_used_blocks + Cardinality(SetBits')
                             - Cardinality(SetBits)) % W]_vars

(* pmm.c:32 says that the modules are protected (so does                    *)
(* docs/filesystem.md:17), pmm.c:50 that the memory it frees starts after   *)
(* the bitmap: no block that is given out holds a byte of the kernel, of a  *)
(* module or of the bitmap.                                                 *)
NothingTakenIsGivenOut == \A b \in held : BytesOf(b) \cap Taken = {}

(* The part of it that the operations depend on: no holder of a block       *)
(* writes over the bitmap.                                                  *)
BitmapIsProtected == \A b \in held : BitsIn(b) = {}
=============================================================================
