----------------------------- MODULE PmmProofs -----------------------------
(***************************************************************************)
(* The allocator for memories of every size and every map the boot loader  *)
(* may hand over.                                                          *)
(***************************************************************************)
EXTENDS Pmm, FiniteSetTheorems, SequenceTheorems, TLAPS

LEMMA Constants ==
  /\ PMM_BLOCK_SIZE \in Nat \ {0} /\ W \in Nat \ {0}
  /\ NULL \in Block /\ Block \subseteq Nat /\ IsFiniteSet(Block)
  /\ \A a \in Address : a \div PMM_BLOCK_SIZE \in Block
<1> DEFINE B == PMM_BLOCK_SIZE
           top == (W - 1) \div B
<1>1. B \in Nat \ {0} /\ W \in Nat \ {0} /\ W - 1 \in Nat
  BY PmmAssumption
<1>2. \A a \in Nat : /\ a \div B \in Nat /\ a % B \in 0 .. B - 1
                     /\ a = (B * (a \div B)) + (a % B)
  BY <1>1
<1>3. top \in Nat
  BY <1>1, <1>2
<1> HIDE DEF B
<1>4. ASSUME NEW a \in Address PROVE a \div B \in Block
  <2>1. a \in Nat /\ a <= W - 1
    BY <1>1 DEF Address
  <2>2. PICK q \in Nat : q = a \div B
    BY <1>2, <2>1
  <2>3. PICK r \in Nat : a = (B * q) + r
    <3>1. a % B \in Nat /\ a = (B * (a \div B)) + (a % B)
      BY <1>1, <1>2, <2>1
    <3> QED  BY <2>2, <3>1
  <2>4. PICK s \in 0 .. B - 1 : W - 1 = (B * top) + s
    <3>1. (W - 1) % B \in 0 .. B - 1 /\ W - 1 = (B * top) + ((W - 1) % B)
      BY <1>1, <1>2
    <3> QED  BY <3>1
  <2> HIDE DEF top
  <2>5. ASSUME NEW k \in Nat, q = top + 1 + k PROVE FALSE
    <3>1. B * q = (B * top) + B + (B * k)
      BY <1>1, <1>3, <2>5
    <3>2. B * k \in Nat /\ B * top \in Nat
      BY <1>1, <1>3
    <3> QED  BY <1>1, <2>1, <2>3, <2>4, <3>1, <3>2
  <2>6. q > top => q - top - 1 \in Nat /\ q = top + 1 + (q - top - 1)
    BY <1>3
  <2>7. q <= top
    BY <1>3, <2>5, <2>6
  <2> QED  BY <1>3, <2>2, <2>7 DEF Block, top, B
<1>5. Block = 0 .. top /\ NULL \in Block /\ Block \subseteq Nat
  BY <1>3 DEF Block, NULL, B
<1>6. IsFiniteSet(Block)
  BY <1>3, <1>5, FS_Interval
<1> QED  BY <1>1, <1>4, <1>5, <1>6 DEF B

(* One decrement for a block of a region: there are finitely many.          *)
LEMMA DecrementsFinite ==
  ASSUME mbi \in BootInfo
  PROVE  Cardinality(Decrements) \in Nat
<1>1. mbi.mmap \in Seq([addr : Nat, len : Nat, available : BOOLEAN])
  BY PmmAssumption
<1>2. PICK n \in Nat : DOMAIN mbi.mmap = 1 .. n
  BY <1>1, LenProperties
<1>3. ASSUME NEW r \in DOMAIN mbi.mmap PROVE Cleared(mbi.mmap[r]) \subseteq Block
  <2>1. mbi.mmap[r].addr \in Nat
    <3>1. mbi.mmap[r] \in [addr : Nat, len : Nat, available : BOOLEAN]
      BY <1>1, ElementOfSeq, LenProperties
    <3> QED  BY <3>1
  <2>2. Visited(mbi.mmap[r]) \subseteq Address
    <3>1. ASSUME NEW k \in Block
          PROVE  (mbi.mmap[r].addr + k * PMM_BLOCK_SIZE) % W \in Address
      <4>1. k * PMM_BLOCK_SIZE \in Nat
        BY Constants
      <4> QED  BY <2>1, <4>1, Constants DEF Address
    <3> QED  BY <3>1 DEF Visited
  <2> QED  BY <2>2, Constants DEF Cleared
<1>4. Decrements \subseteq (1 .. n) \X Block
  BY <1>2, <1>3 DEF Decrements
<1>5. IsFiniteSet(1 .. n) /\ IsFiniteSet(Block)
  BY FS_Interval, Constants
<1>6. IsFiniteSet((1 .. n) \X Block)
  BY <1>5, FS_Product
<1> QED  BY <1>4, <1>6, FS_Subset, FS_CardinalityType

-----------------------------------------------------------------------------
LEMMA InitType == Init => TypeOK
<1> SUFFICES ASSUME Init PROVE TypeOK
  OBVIOUS
<1>1. 0 \in Block /\ 0 \in 0 .. W - 1
  BY Constants DEF NULL
<1>2. pmm_bitmap \in [Block -> BOOLEAN]
  BY DEF Init
<1> QED  BY <1>1, <1>2 DEF Init, TypeOK, NULL

LEMMA TypeStep == TypeOK /\ [Next]_vars => TypeOK'
<1> SUFFICES ASSUME TypeOK, [Next]_vars PROVE TypeOK'
  OBVIOUS
<1> DEFINE Bits == [Block -> BOOLEAN]
<1>1. CASE pmm_initialize
  <2>1. MaxBlocks \in Block
    BY PmmAssumption, Constants DEF MaxBlocks, TypeOK
  <2>2. (MaxBlocks - Cardinality(Decrements)) % W \in 0 .. W - 1
    <3>1. MaxBlocks \in Int /\ Cardinality(Decrements) \in Int
      BY <2>1, Constants, DecrementsFinite DEF TypeOK
    <3> QED  BY <3>1, Constants
  <2>3. pmm_bitmap' \in Bits
    BY <1>1, Zenon DEF pmm_initialize, TypeOK
  <2> QED  BY <1>1, <2>1, <2>2, <2>3 DEF pmm_initialize, TypeOK
<1>2. CASE pmm_alloc_block
  <2>1. pmm_bitmap' \in Bits
    BY <1>2 DEF pmm_alloc_block, TypeOK
  <2>2. (pmm_used_blocks + 1) % W \in 0 .. W - 1
    BY Constants DEF TypeOK
  <2>3. pmm_used_blocks' \in 0 .. W - 1
    BY <1>2, <2>2 DEF pmm_alloc_block, TypeOK
  <2>4. held' \subseteq Block /\ returned' \in Block
    BY <1>2, Constants DEF pmm_alloc_block, TypeOK
  <2> QED  BY <1>2, <2>1, <2>3, <2>4 DEF pmm_alloc_block, TypeOK
<1>3. ASSUME NEW b \in Block, pmm_free_block(b) PROVE TypeOK'
  <2>1. pmm_bitmap' \in Bits
    BY <1>3 DEF pmm_free_block, Release, TypeOK
  <2>2. (pmm_used_blocks - 1) % W \in 0 .. W - 1
    BY Constants DEF TypeOK
  <2>3. pmm_used_blocks' \in 0 .. W - 1
    BY <1>3, <2>2 DEF pmm_free_block, Release, TypeOK
  <2> QED  BY <1>3, <2>1, <2>3 DEF pmm_free_block, TypeOK
<1>4. ASSUME NEW b \in Block, Write(b) PROVE TypeOK'
  <2>1. PICK set \in SUBSET BitsIn(b) :
          pmm_bitmap' =
            [i \in Block |-> IF i \in BitsIn(b) THEN i \in set ELSE pmm_bitmap[i]]
    BY <1>4 DEF Write
  <2>2. ASSUME NEW i \in Block
        PROVE  (IF i \in BitsIn(b) THEN i \in set ELSE pmm_bitmap[i]) \in BOOLEAN
    <3>1. pmm_bitmap[i] \in BOOLEAN
      BY DEF TypeOK
    <3>2. (i \in set) \in BOOLEAN
      OBVIOUS
    <3>3. CASE i \in BitsIn(b)
      BY <3>2, <3>3, Zenon
    <3>4. CASE i \notin BitsIn(b)
      BY <3>1, <3>4, Zenon
    <3> QED  BY <3>3, <3>4
  <2>3. pmm_bitmap' \in Bits
    BY <2>1, <2>2, Zenon
  <2> QED  BY <1>4, <2>3 DEF Write, TypeOK
<1>5. CASE Endless \/ UNCHANGED vars
  BY <1>5 DEF Endless, vars, TypeOK
<1> QED  BY <1>1, <1>2, <1>3, <1>4, <1>5 DEF Next

(* For every map every block number is that of a block and the counter that *)
(* wraps stays a uint32_t (pmm.c:9-12).                                     *)
THEOREM TypeCorrect == Spec => []TypeOK
BY InitType, TypeStep, PTL DEF Spec

-----------------------------------------------------------------------------
(* Only blocks of the memory are held, and none before pmm_initialize.      *)
HeldInv ==
  /\ held \subseteq 0 .. pmm_max_blocks - 1
  /\ ~initialized => held = {}

LEMMA HeldStep == TypeOK /\ HeldInv /\ [Next]_vars => HeldInv'
<1> SUFFICES ASSUME TypeOK, HeldInv, [Next]_vars PROVE HeldInv'
  OBVIOUS
<1>1. CASE pmm_initialize
  BY <1>1 DEF pmm_initialize, HeldInv
<1>2. CASE pmm_alloc_block
  BY <1>2 DEF pmm_alloc_block, Found, ClearBits, HeldInv
<1>3. ASSUME NEW b \in Block, pmm_free_block(b) PROVE HeldInv'
  BY <1>3 DEF pmm_free_block, HeldInv
<1>4. ASSUME NEW b \in Block, Write(b) PROVE HeldInv'
  BY <1>4 DEF Write, HeldInv
<1>5. CASE Endless \/ UNCHANGED vars
  BY <1>5 DEF Endless, vars, HeldInv
<1> QED  BY <1>1, <1>2, <1>3, <1>4, <1>5 DEF Next

LEMMA HeldCorrect == Spec => [](TypeOK /\ HeldInv)
<1>1. Init => HeldInv
  BY DEF Init, HeldInv
<1> QED  BY <1>1, InitType, TypeStep, HeldStep, PTL DEF Spec

(* Who holds no block with a byte of the bitmap in it writes no bit.        *)
LEMMA WriteKeepsBits ==
  ASSUME TypeOK, BitmapIsProtected, NEW b \in Block, Write(b)
  PROVE  pmm_bitmap' = pmm_bitmap
<1>1. BitsIn(b) = {}
  BY DEF Write, BitmapIsProtected
<1>2. pmm_bitmap' = [i \in Block |-> pmm_bitmap[i]]
  BY <1>1 DEF Write
<1> QED  BY <1>2 DEF TypeOK

-----------------------------------------------------------------------------
(* One bit more or less is one block more or less.                          *)
LEMMA SetBitsFinite ==
  ASSUME TypeOK
  PROVE  IsFiniteSet(SetBits) /\ Cardinality(SetBits) \in Nat
<1>1. IsFiniteSet(0 .. pmm_max_blocks - 1)
  BY Constants, FS_Interval DEF TypeOK
<1>2. SetBits \subseteq 0 .. pmm_max_blocks - 1
  BY DEF SetBits
<1> QED  BY <1>1, <1>2, FS_Subset, FS_CardinalityType

LEMMA BitSet ==
  ASSUME TypeOK, NEW i \in ClearBits, UNCHANGED pmm_max_blocks,
         pmm_bitmap' = [pmm_bitmap EXCEPT ![i] = TRUE]
  PROVE  Cardinality(SetBits') = Cardinality(SetBits) + 1
<1>1. pmm_max_blocks \in Block /\ pmm_max_blocks \in Nat
  BY Constants DEF TypeOK
<1>2. 0 .. pmm_max_blocks - 1 \subseteq Block
  BY <1>1, Constants DEF Block
<1>3. SetBits' = SetBits \cup {i}
  BY <1>2 DEF SetBits, ClearBits, TypeOK
<1>4. i \notin SetBits
  BY DEF SetBits, ClearBits
<1> QED  BY <1>3, <1>4, SetBitsFinite, FS_AddElement

LEMMA BitCleared ==
  ASSUME TypeOK, NEW i \in SetBits, UNCHANGED pmm_max_blocks,
         pmm_bitmap' = [pmm_bitmap EXCEPT ![i] = FALSE]
  PROVE  Cardinality(SetBits') = Cardinality(SetBits) - 1
<1>1. pmm_max_blocks \in Block /\ pmm_max_blocks \in Nat
  BY Constants DEF TypeOK
<1>2. 0 .. pmm_max_blocks - 1 \subseteq Block
  BY <1>1, Constants DEF Block
<1>3. SetBits' = SetBits \ {i}
  BY <1>2 DEF SetBits, TypeOK
<1> QED  BY <1>3, SetBitsFinite, FS_RemoveElement

(* The step of CounterFollowsBitmap.                                        *)
CounterMoves ==
  initialized =>
    pmm_used_blocks' = (pmm_used_blocks + Cardinality(SetBits')
                          - Cardinality(SetBits)) % W

LEMMA CounterKept ==
  ASSUME TypeOK, UNCHANGED <<pmm_bitmap, pmm_max_blocks, pmm_used_blocks>>
  PROVE  CounterMoves
<1>1. SetBits' = SetBits
  BY DEF SetBits
<1>2. pmm_used_blocks = pmm_used_blocks % W
  BY Constants DEF TypeOK
<1>3. pmm_used_blocks + Cardinality(SetBits) - Cardinality(SetBits) = pmm_used_blocks
  BY SetBitsFinite, Constants DEF TypeOK
<1> QED  BY <1>1, <1>2, <1>3 DEF CounterMoves

LEMMA CounterStep ==
  TypeOK /\ HeldInv /\ BitmapIsProtected /\ [Next]_vars => CounterMoves
<1> SUFFICES ASSUME TypeOK, HeldInv, BitmapIsProtected, [Next]_vars
             PROVE  CounterMoves
  OBVIOUS
<1> DEFINE n == Cardinality(SetBits)
           used == pmm_used_blocks
<1>0. n \in Nat /\ used \in Nat
  BY SetBitsFinite, Constants DEF TypeOK
<1>1. CASE pmm_initialize
  BY <1>1 DEF pmm_initialize, CounterMoves
<1>2. CASE pmm_alloc_block
  <2>1. UNCHANGED pmm_max_blocks
    BY <1>2 DEF pmm_alloc_block
  <2>2. ASSUME NEW i \in Block, Found(i),
               pmm_bitmap' = [pmm_bitmap EXCEPT ![i] = TRUE],
               pmm_used_blocks' = (pmm_used_blocks + 1) % W
        PROVE  CounterMoves
    <3>1. Cardinality(SetBits') = n + 1
      BY <2>1, <2>2, BitSet DEF Found
    <3>2. used + (n + 1) - n = used + 1
      BY <1>0
    <3> QED  BY <2>2, <3>1, <3>2 DEF CounterMoves
  <2>3. CASE UNCHANGED <<pmm_bitmap, pmm_used_blocks, held>>
    BY <2>1, <2>3, CounterKept
  <2> QED  BY <1>2, <2>2, <2>3 DEF pmm_alloc_block
<1>3. ASSUME NEW b \in Block, pmm_free_block(b) PROVE CounterMoves
  <2>1. UNCHANGED pmm_max_blocks
    BY <1>3 DEF pmm_free_block
  <2>2. CASE pmm_bitmap[b]
    <3>1. b \in SetBits
      BY <1>3, <2>2 DEF pmm_free_block, HeldInv, ClearBits, SetBits
    <3>2. /\ pmm_bitmap' = [pmm_bitmap EXCEPT ![b] = FALSE]
          /\ pmm_used_blocks' = (pmm_used_blocks - 1) % W
      BY <1>3, <2>2 DEF pmm_free_block, Release
    <3>3. Cardinality(SetBits') = n - 1
      BY <2>1, <3>1, <3>2, BitCleared
    <3>4. used + (n - 1) - n = used - 1
      BY <1>0
    <3> QED  BY <3>2, <3>3, <3>4 DEF CounterMoves
  <2>3. CASE ~pmm_bitmap[b]
    BY <1>3, <2>1, <2>3, CounterKept DEF pmm_free_block, Release
  <2> QED  BY <2>2, <2>3
<1>4. ASSUME NEW b \in Block, Write(b) PROVE CounterMoves
  BY <1>4, WriteKeepsBits, CounterKept DEF Write
<1>5. CASE Endless \/ UNCHANGED vars
  BY <1>5, CounterKept DEF Endless, vars
<1> QED  BY <1>1, <1>2, <1>3, <1>4, <1>5 DEF Next

(* As long as nobody holds a block with a byte of the bitmap in it, the     *)
(* counter moves with the bitmap, whatever is given back, once or twice     *)
(* (pmm.c:79-80, 89-92).                                                    *)
THEOREM CounterCorrect == Spec /\ []BitmapIsProtected => CounterFollowsBitmap
<1>1. TypeOK /\ HeldInv /\ BitmapIsProtected /\ [Next]_vars => [CounterMoves]_vars
  BY CounterStep
<1> QED  BY <1>1, HeldCorrect, PTL DEF Spec, CounterFollowsBitmap, CounterMoves

-----------------------------------------------------------------------------
(* A block that is held is not on offer, so pmm_alloc_block gives no block  *)
(* to two callers.                                                          *)
HeldIsSet == \A b \in held : pmm_bitmap[b]

LEMMA HeldIsSetStep ==
  TypeOK /\ HeldInv /\ BitmapIsProtected /\ HeldIsSet /\ [Next]_vars => HeldIsSet'
<1> SUFFICES ASSUME TypeOK, HeldInv, BitmapIsProtected, HeldIsSet, [Next]_vars
             PROVE  HeldIsSet'
  OBVIOUS
<1>1. CASE pmm_initialize
  BY <1>1 DEF pmm_initialize, HeldInv, HeldIsSet
<1>2. CASE pmm_alloc_block
  BY <1>2 DEF pmm_alloc_block, TypeOK, HeldIsSet
<1>3. ASSUME NEW b \in Block, pmm_free_block(b) PROVE HeldIsSet'
  BY <1>3 DEF pmm_free_block, Release, TypeOK, HeldIsSet
<1>4. ASSUME NEW b \in Block, Write(b) PROVE HeldIsSet'
  BY <1>4, WriteKeepsBits DEF Write, HeldIsSet
<1>5. CASE Endless \/ UNCHANGED vars
  BY <1>5 DEF Endless, vars, HeldIsSet
<1> QED  BY <1>1, <1>2, <1>3, <1>4, <1>5 DEF Next

(* As long as nobody holds a block with a byte of the bitmap in it, no      *)
(* block that is held is free in the bitmap: the allocator never gives a    *)
(* block to a second caller (pmm.c:76-84).                                  *)
THEOREM OneHolder == Spec /\ []BitmapIsProtected => [](held \cap ClearBits = {})
<1>1. Init => HeldIsSet
  BY DEF Init, HeldIsSet
<1>2. HeldIsSet => held \cap ClearBits = {}
  BY DEF HeldIsSet, ClearBits
<1> QED  BY <1>1, <1>2, HeldCorrect, HeldIsSetStep, PTL DEF Spec

-----------------------------------------------------------------------------
(* A boot information like that of a PC: the last module ends last, each    *)
(* available region is below the memory that is given out, or beyond the    *)
(* last block that is searched, or starts with a whole block and goes on to *)
(* there; the bits behind the area of the bitmap are those of such a        *)
(* region; and the area does not end at the start of a block while bits lie *)
(* behind it.                                                               *)
Regular ==
  /\ \A m \in DOMAIN mbi.mods : mbi.mods[m].mod_end <= BitmapStart
  /\ \A k \in DOMAIN mbi.mmap :
       LET from == mbi.mmap[k].addr
           to == mbi.mmap[k].addr + mbi.mmap[k].len
       IN  mbi.mmap[k].available =>
             \/ to <= SafeMemStart
             \/ /\ to <= W
                /\ from >= PMM_BLOCK_SIZE * MaxBlocks
             \/ /\ to <= W
                /\ to >= PMM_BLOCK_SIZE * MaxBlocks
                /\ from % PMM_BLOCK_SIZE = 0
  /\ \A g \in Garbage : \E k \in DOMAIN mbi.mmap : g \in Cleared(mbi.mmap[k])
  /\ MaxBlocks % BITS = 0 \/ SafeMemStart % PMM_BLOCK_SIZE # 0

LEMMA Divide ==
  ASSUME NEW n \in Nat \ {0}, NEW x \in Nat
  PROVE  /\ x \div n \in Nat /\ x % n \in 0 .. n - 1
         /\ x = (n * (x \div n)) + (x % n)
OBVIOUS

(* The quotient is the only one.                                            *)
LEMMA Quotient ==
  ASSUME NEW n \in Nat \ {0}, NEW q \in Nat, NEW p \in Nat,
         NEW r \in 0 .. n - 1, NEW s \in 0 .. n - 1,
         (n * q) + r <= (n * p) + s
  PROVE  q <= p
<1>1. ASSUME NEW k \in Nat, q = p + 1 + k PROVE FALSE
  <2>1. n * q = (n * p) + n + (n * k) /\ n * k \in Nat /\ n * p \in Nat
    BY <1>1
  <2> QED  BY <2>1
<1>2. q > p => q - p - 1 \in Nat /\ q = p + 1 + (q - p - 1)
  OBVIOUS
<1> QED  BY <1>1, <1>2

LEMMA DivMonotone ==
  ASSUME NEW n \in Nat \ {0}, NEW x \in Nat, NEW y \in Nat, x <= y
  PROVE  x \div n <= y \div n
<1>1. /\ x = (n * (x \div n)) + (x % n) /\ x \div n \in Nat /\ x % n \in 0 .. n - 1
      /\ y = (n * (y \div n)) + (y % n) /\ y \div n \in Nat /\ y % n \in 0 .. n - 1
  BY Divide
<1> DEFINE p == x \div n
           q == y \div n
<1> QED  BY <1>1, Quotient

(* The whole block a multiple of the block size starts.                     *)
LEMMA WholeBlock ==
  ASSUME NEW n \in Nat \ {0}, NEW q \in Nat, NEW x \in Nat, x = n * q
  PROVE  x \div n = q
<1>1. x = (n * (x \div n)) + (x % n) /\ x \div n \in Nat /\ x % n \in 0 .. n - 1
  BY Divide
<1>2. q <= x \div n
  <2>1. (n * q) + 0 <= (n * (x \div n)) + (x % n)
    BY <1>1
  <2> QED  BY <1>1, <2>1, Quotient
<1>3. x \div n <= q
  <2>1. (n * (x \div n)) + (x % n) <= (n * q) + 0
    BY <1>1
  <2> QED  BY <1>1, <2>1, Quotient
<1> QED  BY <1>1, <1>2, <1>3

LEMMA Layout ==
  ASSUME mbi \in BootInfo
  PROVE  /\ MaxBlocks \in Block /\ MaxBlocks \in Nat /\ BITS \in Nat \ {0}
         /\ kernel_end \in Nat /\ BitmapStart \in Nat /\ kernel_end <= BitmapStart
         /\ BitmapSize \in Nat /\ SafeMemStart \in Nat
         /\ SafeMemStart = BitmapStart + BitmapSize
<1>1. /\ MaxBlocks \in Block /\ MaxBlocks \in Nat /\ BITS \in Nat \ {0}
      /\ kernel_end \in Nat
  <2>1. mbi.mem \in Address /\ BITS \in Nat \ {0} /\ kernel_end \in Address
    BY PmmAssumption
  <2>2. MaxBlocks \in Block
    BY <2>1, Constants DEF MaxBlocks
  <2> QED  BY <2>1, <2>2, Constants DEF Address
<1>2. mbi.mods # <<>> => mbi.mods[Len(mbi.mods)].mod_end \in Nat
  <2>1. ASSUME mbi.mods # <<>>
        PROVE  mbi.mods[Len(mbi.mods)] \in [mod_start : Address, mod_end : Address]
    <3>1. mbi.mods \in Seq([mod_start : Address, mod_end : Address])
      BY PmmAssumption
    <3>2. Len(mbi.mods) \in 1 .. Len(mbi.mods)
      BY <2>1, <3>1, EmptySeq, LenProperties
    <3> QED  BY <3>1, <3>2, ElementOfSeq
  <2> QED  BY <2>1, Constants DEF Address
<1>3. BitmapStart \in Nat /\ kernel_end <= BitmapStart
  BY <1>1, <1>2 DEF BitmapStart
<1>4. BitmapSize \in Nat
  BY <1>1, Divide DEF BitmapSize
<1> QED  BY <1>1, <1>3, <1>4 DEF SafeMemStart

(* The bytes of the bitmap end with or, if bits lie behind the area that is *)
(* reserved for it, one behind that area.                                   *)
BitmapBytes == (MaxBlocks + BITS - 1) \div BITS

LEMMA BitmapEnd ==
  ASSUME mbi \in BootInfo
  PROVE  /\ BitmapBytes \in Nat
         /\ BitmapBytes <= BitmapSize + 1
         /\ MaxBlocks % BITS = 0 => BitmapBytes <= BitmapSize
<1> DEFINE m == MaxBlocks
           n == BITS
<1>1. m \in Nat /\ n \in Nat \ {0} /\ m + n - 1 \in Nat
  BY Layout
<1>2. /\ m \div n \in Nat /\ m % n \in 0 .. n - 1
      /\ m = (n * (m \div n)) + (m % n)
  BY <1>1, Divide
<1>3. /\ BitmapBytes \in Nat /\ (m + n - 1) % n \in 0 .. n - 1
      /\ m + n - 1 = (n * BitmapBytes) + ((m + n - 1) % n)
  BY <1>1, Divide DEF BitmapBytes
<1> HIDE DEF m, n
<1>4. PICK q \in Nat : q = m \div n
  BY <1>2
<1>5. BitmapBytes <= q + 1
  <2>1. n * (q + 1) = (n * q) + n /\ n * q \in Nat
    BY <1>1, <1>4
  <2>2. (n * BitmapBytes) + ((m + n - 1) % n) <= (n * (q + 1)) + (n - 1)
    BY <1>1, <1>2, <1>3, <1>4, <2>1
  <2>3. q + 1 \in Nat /\ n - 1 \in 0 .. n - 1
    BY <1>1, <1>4
  <2> QED  BY <1>1, <1>3, <2>2, <2>3, Quotient
<1>6. ASSUME m % n = 0 PROVE BitmapBytes <= q
  <2>1. (n * BitmapBytes) + ((m + n - 1) % n) <= (n * q) + (n - 1)
    BY <1>1, <1>2, <1>3, <1>4, <1>6
  <2> QED  BY <1>1, <1>3, <2>1, Quotient
<1> QED  BY <1>3, <1>4, <1>5, <1>6 DEF BitmapSize, m, n

(* What a region clears below the limit of the search is usable.            *)
LEMMA ClearedIsUsable ==
  ASSUME mbi \in BootInfo, Regular,
         NEW k \in DOMAIN mbi.mmap, NEW b \in Cleared(mbi.mmap[k]), b < MaxBlocks
  PROVE  b \in Usable
<1> DEFINE B == PMM_BLOCK_SIZE
           from == mbi.mmap[k].addr
           len == mbi.mmap[k].len
<1>1. /\ B \in Nat \ {0} /\ W \in Nat \ {0}
      /\ from \in Nat /\ len \in Nat
      /\ MaxBlocks \in Nat /\ SafeMemStart \in Nat
  <2>1. mbi.mmap \in Seq([addr : Nat, len : Nat, available : BOOLEAN])
    BY PmmAssumption
  <2>2. mbi.mmap[k] \in [addr : Nat, len : Nat, available : BOOLEAN]
    BY <2>1, ElementOfSeq, LenProperties
  <2> QED  BY <2>2, Constants, Layout
<1>2. mbi.mmap[k].available
  BY DEF Cleared, Visited
<1>3. PICK j \in Block : /\ j * B < len
                         /\ b = ((from + (j * B)) % W) \div B
                         /\ (from + (j * B)) % W >= SafeMemStart
  <2>1. PICK j \in Block : /\ j * B < len % W
                           /\ b = ((from + (j * B)) % W) \div B
                           /\ (from + (j * B)) % W >= SafeMemStart
    BY <1>2 DEF Cleared, Visited, LenLow
  <2>2. len % W \in Nat /\ len % W <= len
    <3> HIDE DEF len, from, B
    <3>1. len \div W \in Nat /\ len % W \in 0 .. W - 1
          /\ len = (W * (len \div W)) + (len % W)
      BY <1>1, Divide
    <3>2. W * (len \div W) \in Nat
      BY <1>1, <3>1
    <3> QED  BY <1>1, <3>1, <3>2
  <2>3. j * B \in Nat
    BY <1>1, Constants
  <2>4. j * B < len
    BY <1>1, <2>1, <2>2, <2>3
  <2> QED  BY <2>1, <2>4
<1>4. j \in Nat /\ j * B \in Nat /\ j * B = B * j
  BY <1>1, Constants
<1> DEFINE x == from + (j * B)
<1>5. x \in Nat /\ x < from + len /\ b = (x % W) \div B /\ x % W >= SafeMemStart
  BY <1>1, <1>3, <1>4
<1> HIDE DEF B, from, len, x
<1>6. x % W \in Nat /\ x % W <= x
  <2>1. /\ x = (W * (x \div W)) + (x % W) /\ x \div W \in Nat /\ x % W \in 0 .. W - 1
    BY <1>1, <1>5, Divide
  <2>2. W * (x \div W) \in Nat
    BY <1>1, <2>1
  <2> QED  BY <1>1, <2>1, <2>2
<1>7. from + len > SafeMemStart
  BY <1>1, <1>5, <1>6
<1>8. from + len <= W
  BY <1>1, <1>2, <1>7 DEF Regular, from, len
<1>9. x % W = x
  <2>1. x < W /\ x \in Nat
    BY <1>1, <1>5, <1>8
  <2> QED  BY <1>1, <2>1
<1>10. b \in Nat /\ x = (B * b) + (x % B) /\ x % B \in 0 .. B - 1
  BY <1>1, <1>5, <1>9, Divide
<1>11. x < B * MaxBlocks
  <2>1. PICK d \in Nat : MaxBlocks = b + 1 + d
    <3>1. MaxBlocks - b - 1 \in Nat /\ MaxBlocks = b + 1 + (MaxBlocks - b - 1)
      BY <1>1, <1>10
    <3> QED  BY <3>1
  <2>2. B * MaxBlocks = (B * b) + B + (B * d) /\ B * d \in Nat /\ B * b \in Nat
    BY <1>1, <1>10, <2>1
  <2> QED  BY <1>1, <1>10, <2>2
<1>12. from < B * MaxBlocks
  <2>1. from <= x
    BY <1>1, <1>4 DEF x
  <2>2. B * MaxBlocks \in Nat
    BY <1>1
  <2> QED  BY <1>1, <1>5, <1>11, <2>1, <2>2
<1>13. B * MaxBlocks \in Nat
  BY <1>1
<1>14. from + len >= B * MaxBlocks /\ from % B = 0
  BY <1>1, <1>2, <1>7, <1>12, <1>13 DEF Regular, from, len, B
<1>15. x = B * b
  <2>1. PICK q \in Nat : from = B * q
    <3>1. from = (B * (from \div B)) + (from % B) /\ from \div B \in Nat
      BY <1>1, Divide
    <3>2. from = B * (from \div B)
      BY <1>1, <1>14, <3>1
    <3> QED  BY <3>1, <3>2
  <2>2. x = B * (q + j)
    BY <1>1, <1>4, <2>1 DEF x
  <2>3. x \div B = q + j
    BY <1>1, <1>4, <1>5, <2>1, <2>2, WholeBlock
  <2> QED  BY <1>5, <1>9, <2>2, <2>3
<1>16. BytesOf(b) = x .. x + B - 1
  <2>1. b * PMM_BLOCK_SIZE = x
    BY <1>1, <1>10, <1>15 DEF B
  <2> QED  BY <2>1 DEF BytesOf, B
<1>17. x + B <= from + len
  <2>1. PICK d \in Nat : MaxBlocks = b + 1 + d
    <3>1. MaxBlocks - b - 1 \in Nat /\ MaxBlocks = b + 1 + (MaxBlocks - b - 1)
      BY <1>1, <1>10
    <3> QED  BY <3>1
  <2>2. B * MaxBlocks = (B * b) + B + (B * d) /\ B * d \in Nat /\ B * b \in Nat
    BY <1>1, <1>10, <2>1
  <2> QED  BY <1>1, <1>14, <1>15, <2>2
<1>18. BytesOf(b) \subseteq from .. from + len - 1
  BY <1>1, <1>4, <1>5, <1>16, <1>17 DEF x
<1>19. x >= SafeMemStart
  BY <1>5, <1>9
<1>20. x >= BitmapStart + BitmapBytes
  <2>1. CASE MaxBlocks % BITS = 0
    BY <1>1, <1>5, <1>19, <2>1, Layout, BitmapEnd
  <2>2. CASE SafeMemStart % B # 0
    <3>1. x # SafeMemStart
      <4>1. x % B = 0
        <5>1. x = (B * (x \div B)) + (x % B)
          BY <1>1, <1>5, Divide
        <5> QED  BY <1>1, <1>5, <1>9, <1>10, <1>15, <5>1
      <4> QED  BY <2>2, <4>1
    <3> QED  BY <1>1, <1>5, <1>19, <3>1, Layout, BitmapEnd
  <2> QED  BY <2>1, <2>2 DEF Regular, B
<1>21. BytesOf(b) \cap Taken = {}
  <2> SUFFICES ASSUME NEW a \in BytesOf(b), a \in Taken PROVE FALSE
    OBVIOUS
  <2>1. a \in Int /\ a >= x
    BY <1>1, <1>5, <1>16
  <2>2. a >= SafeMemStart /\ a >= BitmapStart + BitmapBytes
    BY <1>1, <1>5, <1>19, <1>20, <2>1, Layout, BitmapEnd
  <2>3. a \notin 0 .. kernel_end - 1
    BY <2>1, <2>2, Layout
  <2>4. a \notin BitmapStart .. BitmapStart + (MaxBlocks + BITS - 1) \div BITS - 1
    BY <2>1, <2>2, Layout, BitmapEnd DEF BitmapBytes
  <2>5. ASSUME NEW m \in DOMAIN mbi.mods,
               a \in mbi.mods[m].mod_start .. mbi.mods[m].mod_end - 1
        PROVE  FALSE
    <3>1. mbi.mods[m] \in [mod_start : Address, mod_end : Address]
      <4>1. mbi.mods \in Seq([mod_start : Address, mod_end : Address])
        BY PmmAssumption
      <4> QED  BY <4>1, ElementOfSeq, LenProperties
    <3>2. mbi.mods[m].mod_end \in Nat /\ mbi.mods[m].mod_start \in Nat
      BY <3>1, Constants DEF Address
    <3>3. mbi.mods[m].mod_end <= BitmapStart
      BY DEF Regular
    <3> QED  BY <2>1, <2>2, <2>5, <3>2, <3>3, Layout
  <2>6. a \notin UNION {mbi.mods[m].mod_start .. mbi.mods[m].mod_end - 1 :
                         m \in DOMAIN mbi.mods}
    BY <2>5
  <2> QED  BY <2>3, <2>4, <2>6 DEF Taken, ModuleBytes
<1>22. b \in Block
  <2>1. PICK top \in Int : Block = 0 .. top
    BY Constants DEF Block
  <2>2. MaxBlocks \in 0 .. top
    BY <2>1, Layout
  <2> QED  BY <1>1, <1>10, <2>1, <2>2
<1> QED  BY <1>2, <1>18, <1>21, <1>22 DEF Usable, from, len

-----------------------------------------------------------------------------
(* The pool: blocks on offer and blocks that are held are usable, and none  *)
(* is both.                                                                 *)
PoolInv ==
  /\ initialized =>
       /\ pmm_max_blocks = MaxBlocks
       /\ held \subseteq Usable
       /\ ClearBits \subseteq Usable
  /\ HeldIsSet

LEMMA UsableKept == ASSUME UNCHANGED mbi PROVE Usable' = Usable
BY DEF Usable, Taken, ModuleBytes, BytesOf, BitmapStart, MaxBlocks

(* A usable block has no byte of the bitmap.                                *)
LEMMA UsableIsOutside ==
  ASSUME mbi \in BootInfo, pmm_max_blocks = MaxBlocks, NEW b \in Usable
  PROVE  BitsIn(b) = {}
<1> SUFFICES ASSUME NEW g \in BitsIn(b) PROVE FALSE
  OBVIOUS
<1> DEFINE B == PMM_BLOCK_SIZE
           a == BitmapStart + (g \div BITS)
<1>1. /\ B \in Nat \ {0} /\ BITS \in Nat \ {0} /\ BitmapStart \in Nat
      /\ MaxBlocks \in Nat
  BY Constants, Layout
<1>2. g \in Nat /\ g <= MaxBlocks - 1 /\ a \div B = b
  BY <1>1 DEF BitsIn
<1>3. g \div BITS \in Nat /\ a \in Nat
  <2>1. g \div BITS \in Nat
    BY <1>1, <1>2, Divide
  <2> QED  BY <1>1, <2>1
<1>4. a \in BytesOf(b)
  <2> HIDE DEF a, B
  <2>1. a = (B * (a \div B)) + (a % B) /\ a \div B \in Nat /\ a % B \in 0 .. B - 1
    BY <1>1, <1>3, Divide
  <2>2. PICK r \in 0 .. B - 1 : a = (B * b) + r
    BY <1>2, <2>1
  <2>3. b \in Nat /\ b * B = B * b /\ b * B \in Nat
    BY <1>1, <1>2, <2>1
  <2>4. a \in b * B .. b * B + B - 1
    BY <1>1, <1>3, <2>2, <2>3
  <2> QED  BY <2>4 DEF BytesOf, B
<1>5. a \in BitmapStart .. BitmapStart + (MaxBlocks + BITS - 1) \div BITS - 1
  <2>1. PICK p \in Nat : p = g \div BITS
    BY <1>3
  <2>2. g = (BITS * p) + (g % BITS) /\ g % BITS \in 0 .. BITS - 1
    BY <1>1, <1>2, <2>1, Divide
  <2>3. /\ BitmapBytes \in Nat /\ (MaxBlocks + BITS - 1) % BITS \in 0 .. BITS - 1
        /\ MaxBlocks + BITS - 1 = (BITS * BitmapBytes) + ((MaxBlocks + BITS - 1) % BITS)
    <3>1. MaxBlocks + BITS - 1 \in Nat
      BY <1>1
    <3> QED  BY <1>1, <3>1, Divide DEF BitmapBytes
  <2>4. BITS * (p + 1) = (BITS * p) + BITS /\ BITS * p \in Nat
    BY <1>1, <2>1
  <2>5. (BITS * (p + 1)) + 0 <= MaxBlocks + BITS - 1
    BY <1>1, <1>2, <2>2, <2>4
  <2>6. p + 1 <= BitmapBytes
    <3>1. p + 1 \in Nat /\ 0 \in 0 .. BITS - 1
      BY <1>1, <2>1
    <3> QED  BY <1>1, <2>3, <2>5, <3>1, Quotient
  <2>7. a \in BitmapStart .. BitmapStart + BitmapBytes - 1
    BY <1>1, <2>1, <2>3, <2>6
  <2> QED  BY <2>7 DEF BitmapBytes
<1>6. a \in Taken
  BY <1>5 DEF Taken
<1> QED  BY <1>4, <1>6 DEF Usable

LEMMA PoolIsOutside ==
  TypeOK /\ HeldInv /\ PoolInv => BitmapIsProtected
BY UsableIsOutside DEF TypeOK, HeldInv, PoolInv, BitmapIsProtected

(* What the operations do to the bits that are clear.                       *)
LEMMA BitsChange ==
  ASSUME TypeOK, NEW b \in Block, NEW v \in BOOLEAN, UNCHANGED pmm_max_blocks,
         pmm_bitmap' = [pmm_bitmap EXCEPT ![b] = v]
  PROVE  /\ v => ClearBits' = ClearBits \ {b}
         /\ ~v => ClearBits' = ClearBits \cup ({b} \cap (0 .. pmm_max_blocks - 1))
<1>1. pmm_max_blocks \in Block /\ pmm_max_blocks \in Nat
  BY Constants DEF TypeOK
<1>2. 0 .. pmm_max_blocks - 1 \subseteq Block
  BY <1>1, Constants DEF Block
<1>3. \A c \in 0 .. pmm_max_blocks - 1 :
        pmm_bitmap'[c] = IF c = b THEN v ELSE pmm_bitmap[c]
  BY <1>2 DEF TypeOK
<1>4. CASE v
  BY <1>3, <1>4 DEF ClearBits
<1>5. CASE ~v
  BY <1>3, <1>5 DEF ClearBits
<1> QED  BY <1>4, <1>5

(* Every bit that is clear after pmm_initialize was cleared for a region.   *)
LEMMA OpenedPool ==
  ASSUME TypeOK, Regular, pmm_initialize
  PROVE  ClearBits' \subseteq Usable
<1> SUFFICES ASSUME NEW b \in ClearBits' PROVE b \in Usable
  OBVIOUS
<1>1. /\ MaxBlocks \in Block /\ MaxBlocks \in Nat /\ BITS \in Nat \ {0}
      /\ mbi \in BootInfo
  BY Layout DEF TypeOK
<1>2. b \in 0 .. MaxBlocks - 1 /\ ~pmm_bitmap'[b]
  BY DEF ClearBits, pmm_initialize
<1>3. b \in Block
  <2>1. PICK top \in Int : Block = 0 .. top
    BY Constants DEF Block
  <2> QED  BY <1>1, <1>2, <2>1
<1>4. PICK garbage \in SUBSET Garbage :
        pmm_bitmap' =
          [g \in Block |->
            /\ \A r \in DOMAIN mbi.mmap : g \notin Cleared(mbi.mmap[r])
            /\ IF g \div BITS < BitmapSize THEN TRUE
               ELSE IF g \in Garbage THEN g \in garbage ELSE pmm_bitmap[g]]
  BY DEF pmm_initialize
<1>5. \E r \in DOMAIN mbi.mmap : b \in Cleared(mbi.mmap[r])
  <2> SUFFICES ASSUME \A r \in DOMAIN mbi.mmap : b \notin Cleared(mbi.mmap[r])
               PROVE  FALSE
    OBVIOUS
  <2>1. b \notin Garbage
    BY DEF Regular
  <2>2. b \div BITS \in Nat /\ BitmapSize \in Nat
    <3>1. b \in Nat
      BY <1>1, <1>2
    <3> QED  BY <1>1, <3>1, Divide, Layout
  <2>3. b \div BITS < BitmapSize
    BY <1>2, <2>1, <2>2 DEF Garbage
  <2>4. pmm_bitmap'[b]
    BY <1>3, <1>4, <2>3
  <2> QED  BY <1>2, <2>4
<1> QED  BY <1>1, <1>2, <1>5, ClearedIsUsable

LEMMA PoolStep ==
  TypeOK /\ HeldInv /\ Regular /\ PoolInv /\ [Next]_vars => PoolInv'
<1> SUFFICES ASSUME TypeOK, HeldInv, Regular, PoolInv, [Next]_vars PROVE PoolInv'
  OBVIOUS
<1>0. BitmapIsProtected
  BY PoolIsOutside
<1>1. HeldIsSet'
  BY <1>0, HeldIsSetStep DEF PoolInv
<1>2. mbi' = mbi /\ Usable' = Usable /\ MaxBlocks' = MaxBlocks
  <2>1. mbi' = mbi
    BY DEF Next, vars, pmm_initialize, Endless, pmm_alloc_block, pmm_free_block, Write
  <2> QED  BY <2>1, UsableKept DEF MaxBlocks
<1>3. CASE pmm_initialize
  <2>1. pmm_max_blocks' = MaxBlocks /\ held' = {}
    BY <1>3 DEF pmm_initialize, HeldInv
  <2>2. ClearBits' \subseteq Usable
    BY <1>3, OpenedPool
  <2> QED  BY <1>1, <1>2, <2>1, <2>2 DEF PoolInv
<1>4. CASE pmm_alloc_block
  <2>1. ClearBits' \subseteq ClearBits /\ held' \subseteq held \cup ClearBits
    <3>1. ASSUME NEW b \in Block, Found(b), held' = held \cup {b},
                 pmm_bitmap' = [pmm_bitmap EXCEPT ![b] = TRUE]
          PROVE  ClearBits' \subseteq ClearBits /\ held' \subseteq held \cup ClearBits
      BY <1>4, <3>1, BitsChange DEF pmm_alloc_block, Found
    <3>2. CASE UNCHANGED <<pmm_bitmap, pmm_used_blocks, held>>
      BY <1>4, <3>2 DEF pmm_alloc_block, ClearBits
    <3> QED  BY <1>4, <3>1, <3>2 DEF pmm_alloc_block
  <2> QED  BY <1>1, <1>2, <1>4, <2>1 DEF PoolInv, pmm_alloc_block
<1>5. ASSUME NEW b \in Block, pmm_free_block(b) PROVE PoolInv'
  <2>1. ClearBits' \subseteq ClearBits \cup held /\ held' \subseteq held
    <3>1. CASE pmm_bitmap[b]
      <4>1. b \in held
        BY <1>5, <3>1 DEF pmm_free_block, ClearBits
      <4>2. ClearBits' \subseteq ClearBits \cup {b}
        BY <1>5, <3>1, BitsChange DEF pmm_free_block, Release
      <4> QED  BY <1>5, <4>1, <4>2 DEF pmm_free_block
    <3>2. CASE ~pmm_bitmap[b]
      BY <1>5, <3>2 DEF pmm_free_block, Release, ClearBits
    <3> QED  BY <3>1, <3>2
  <2> QED  BY <1>1, <1>2, <1>5, <2>1 DEF PoolInv, pmm_free_block
<1>6. ASSUME NEW b \in Block, Write(b) PROVE PoolInv'
  <2>1. ClearBits' = ClearBits
    BY <1>0, <1>6, WriteKeepsBits DEF Write, ClearBits
  <2> QED  BY <1>1, <1>2, <1>6, <2>1 DEF PoolInv, Write
<1>7. CASE Endless \/ UNCHANGED vars
  <2>1. ClearBits' = ClearBits
    BY <1>7 DEF Endless, vars, ClearBits
  <2> QED  BY <1>1, <1>2, <1>7, <2>1 DEF PoolInv, Endless, vars
<1> QED  BY <1>3, <1>4, <1>5, <1>6, <1>7 DEF Next

LEMMA PoolCorrect == Spec /\ []Regular => [](TypeOK /\ HeldInv /\ PoolInv)
<1>1. Init => PoolInv
  BY DEF Init, PoolInv, HeldIsSet
<1> QED  BY <1>1, HeldCorrect, PoolStep, PTL DEF Spec

(* With a regular boot information no block that is given out holds a byte  *)
(* of the kernel, of a module or of the bitmap (pmm.c:29-74).               *)
THEOREM NothingTaken == Spec /\ []Regular => []NothingTakenIsGivenOut
<1>1. TypeOK /\ HeldInv /\ PoolInv => NothingTakenIsGivenOut
  BY DEF HeldInv, PoolInv, Usable, NothingTakenIsGivenOut
<1> QED  BY <1>1, PoolCorrect, PTL

(* In particular none holds a byte of the bitmap, which is all that the     *)
(* bits of the bitmap depend on (pmm.c:45-74).                              *)
THEOREM BitmapProtected == Spec /\ []Regular => []BitmapIsProtected
BY PoolCorrect, PoolIsOutside, PTL

-----------------------------------------------------------------------------
(* Every step is one of the pool.                                           *)
LEMMA PoolSteps ==
  TypeOK /\ HeldInv /\ Regular /\ PoolInv /\ PoolInv' /\ [Next]_vars
    => [Pool!Next]_(Pool!vars)
<1> SUFFICES ASSUME TypeOK, HeldInv, Regular, PoolInv, PoolInv', [Next]_vars
             PROVE  [Pool!Next]_(Pool!vars)
  OBVIOUS
<1> DEFINE pool == IF initialized THEN ClearBits ELSE {}
<1>0. BitmapIsProtected
  BY PoolIsOutside
<1>1. mbi' = mbi /\ Usable' = Usable
  <2>1. mbi' = mbi
    BY DEF Next, vars, pmm_initialize, Endless, pmm_alloc_block, pmm_free_block, Write
  <2> QED  BY <2>1, UsableKept
<1>2. CASE pmm_initialize
  <2>1. ClearBits' \subseteq Usable /\ initialized' /\ ~initialized
    BY <1>2, OpenedPool DEF pmm_initialize
  <2>2. Pool!Open
    BY <1>1, <1>2, <2>1 DEF Pool!Open, pmm_initialize, TypeOK
  <2> QED  BY <2>2 DEF Pool!Next
<1>3. CASE pmm_alloc_block
  <2>1. ASSUME NEW b \in Block, Found(b), returned' = b, held' = held \cup {b},
               pmm_bitmap' = [pmm_bitmap EXCEPT ![b] = TRUE]
        PROVE  Pool!Take(b)
    <3>1. ClearBits' = ClearBits \ {b} /\ b \in ClearBits
      BY <1>3, <2>1, BitsChange DEF pmm_alloc_block, Found
    <3> QED  BY <1>1, <1>3, <2>1, <3>1 DEF Pool!Take, pmm_alloc_block
  <2>2. ASSUME ClearBits = {}, returned' = NULL, UNCHANGED <<pmm_bitmap, held>>
        PROVE  Pool!Refuse
    <3>1. ClearBits' = ClearBits
      BY <1>3, <2>2 DEF pmm_alloc_block, ClearBits
    <3> QED  BY <1>1, <1>3, <2>2, <3>1 DEF Pool!Refuse, pmm_alloc_block
  <2> QED  BY <1>3, <2>1, <2>2 DEF Pool!Next, pmm_alloc_block
<1>4. ASSUME NEW b \in Block, pmm_free_block(b) PROVE [Pool!Next]_(Pool!vars)
  <2>1. CASE b \in held
    <3>1. pmm_bitmap[b] /\ b \in 0 .. pmm_max_blocks - 1
      BY <2>1 DEF PoolInv, HeldIsSet, HeldInv
    <3>2. ClearBits' = ClearBits \cup {b}
      BY <1>4, <3>1, BitsChange DEF pmm_free_block, Release
    <3>3. Pool!Give(b)
      BY <1>1, <1>4, <2>1, <3>2 DEF Pool!Give, pmm_free_block
    <3> QED  BY <3>3 DEF Pool!Next
  <2>2. CASE b \notin held
    <3>1. ~pmm_bitmap[b] /\ held' = held
      BY <1>4, <2>2 DEF pmm_free_block, ClearBits
    <3>2. ClearBits' = ClearBits
      BY <1>4, <3>1 DEF pmm_free_block, Release, ClearBits
    <3> QED  BY <1>1, <1>4, <3>1, <3>2 DEF Pool!vars, pmm_free_block
  <2> QED  BY <2>1, <2>2
<1>5. ASSUME NEW b \in Block, Write(b) PROVE [Pool!Next]_(Pool!vars)
  <2>1. ClearBits' = ClearBits
    BY <1>0, <1>5, WriteKeepsBits DEF Write, ClearBits
  <2> QED  BY <1>1, <1>5, <2>1 DEF Pool!vars, Write
<1>6. CASE Endless \/ UNCHANGED vars
  <2>1. ClearBits' = ClearBits
    BY <1>6 DEF Endless, vars, ClearBits
  <2> QED  BY <1>1, <1>6, <2>1 DEF Pool!vars, Endless, vars
<1> QED  BY <1>2, <1>3, <1>4, <1>5, <1>6 DEF Next

(* With a regular boot information the allocator implements the pool: a     *)
(* block that is given out is whole, usable and nobody else's, and a caller *)
(* is refused only when none is left (pmm.c:29-74, 76-93).                  *)
THEOREM BlockPoolImplemented == Spec /\ []Regular => ImplementsBlockPool
<1>1. Init => Pool!Init
  BY DEF Init, Pool!Init, Usable
<1> QED  BY <1>1, PoolCorrect, PoolSteps, PTL DEF Spec, ImplementsBlockPool, Pool!Spec
=============================================================================
