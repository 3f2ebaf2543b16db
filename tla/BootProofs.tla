----------------------------- MODULE BootProofs -----------------------------
(***************************************************************************)
(* The boot sequence over memories, buses and identity maps of every size: *)
(* the interrupts that are served, the pages the processor finds, the      *)
(* devices the two scans find, and the types.                              *)
(***************************************************************************)
EXTENDS Boot, PmmProofs, WellFoundedInduction, TLAPS

-----------------------------------------------------------------------------
(* The places of the steps in the order of kernel_main.                     *)
LEMMA StepNames ==
  /\ Len(Order) = 20
  /\ \A n \in 0 .. 20 : n > 0 =>
       /\ Order[n] = "magic" <=> n = 1
       /\ Order[n] = "gdt" <=> n = 2
       /\ Order[n] = "idt" <=> n = 3
       /\ Order[n] = "isr" <=> n = 4
       /\ Order[n] = "pit" <=> n = 5
       /\ Order[n] = "keyboard" <=> n = 6
       /\ Order[n] = "pmm" <=> n = 7
       /\ Order[n] = "directory" <=> n = 8
       /\ Order[n] = "identity" <=> n = 9
       /\ Order[n] = "paging" <=> n = 10
       /\ Order[n] = "find" <=> n = 11
       /\ Order[n] = "mmio" <=> n = 12
       /\ Order[n] = "mac" <=> n = 13
       /\ Order[n] = "modules" <=> n = 14
       /\ Order[n] = "process" <=> n = 15
       /\ Order[n] = "pcb" <=> n = 16
       /\ Order[n] = "stack" <=> n = 17
       /\ Order[n] = "syscall" <=> n = 18
       /\ Order[n] = "sti" <=> n = 19
       /\ Order[n] = "shell" <=> n = 20
BY DEF Order

LEMMA Numbers == Number("find") = 11 /\ Number("modules") = 14
<1>1. DOMAIN Order = 1 .. 20
  BY DEF Order
<1>2. \A n \in 1 .. 20 : n \in 0 .. 20 /\ n > 0
  OBVIOUS
<1>3. \A n \in DOMAIN Order : Order[n] = "find" <=> n = 11
  BY <1>1, <1>2, StepNames
<1>4. \A n \in DOMAIN Order : Order[n] = "modules" <=> n = 14
  BY <1>1, <1>2, StepNames
<1>5. 11 \in DOMAIN Order /\ 14 \in DOMAIN Order
  BY <1>1
<1> QED  BY <1>3, <1>4, <1>5 DEF Number

-----------------------------------------------------------------------------
(* How far the tables are filled follows from the place in kernel_main.     *)
ServedInv ==
  /\ at \in 0 .. 20
  /\ DOMAIN interrupt_handlers = Vectors
  /\ at > 2 => gdt
  /\ at > 4 => (0 .. 47) \cup {128} \subseteq gates
  /\ at > 5 => interrupt_handlers[32] = "pit_callback"
  /\ at > 6 => interrupt_handlers[33] = "keyboard_callback"
  /\ at > 18 => interrupt_handlers[128] = "syscall_handler"
  /\ interrupts => at > 19

LEMMA InitServed == BootInit => ServedInv
BY DEF BootInit, ServedInv, Vectors

(* A step on from one that fills nothing.                                   *)
LEMMA UnservedStep ==
  ASSUME ServedInv, UNCHANGED cpu,
         at' \in 0 .. 20,
         \/ at' = at
         \/ at = 1 /\ at' \in {0, 2}
         \/ at \in 7 .. 17 /\ at' \in at .. 18
  PROVE  ServedInv'
BY DEF ServedInv, cpu

LEMMA ServedStep == ServedInv /\ [BootNext]_bootVars => ServedInv'
<1> SUFFICES ASSUME ServedInv, [BootNext]_bootVars PROVE ServedInv'
  OBVIOUS
<1>0. at \in 0 .. 20
  BY DEF ServedInv
<1>1. CASE CheckMagic
  <2>1. at = 1 /\ UNCHANGED cpu /\ at' \in {0, 2}
    BY <1>0, <1>1, StepNames DEF CheckMagic, Step
  <2> QED  BY <2>1, UnservedStep DEF ServedInv
<1>2. CASE gdt_initialize
  <2>1. at = 2 /\ at' = 3
    BY <1>0, <1>2, StepNames DEF gdt_initialize, Step, Done
  <2> QED  BY <1>2, <2>1 DEF gdt_initialize, ServedInv
<1>3. CASE idt_initialize
  <2>1. at = 3 /\ at' = 4
    BY <1>0, <1>3, StepNames DEF idt_initialize, Step, Done
  <2> QED  BY <1>3, <2>1 DEF idt_initialize, ServedInv
<1>4. CASE isr_initialize
  <2>1. at = 4 /\ at' = 5
    BY <1>0, <1>4, StepNames DEF isr_initialize, Step, Done
  <2> QED  BY <1>4, <2>1 DEF isr_initialize, ServedInv
<1>5. CASE Register
  <2>1. CASE Step("pit") /\ register_interrupt_handler(32, "pit_callback")
    <3>1. at = 5 /\ at' = 6
      BY <1>0, <1>5, <2>1, StepNames DEF Register, Step, Done
    <3> QED  BY <2>1, <3>1 DEF register_interrupt_handler, ServedInv, Vectors
  <2>2. CASE Step("keyboard") /\ register_interrupt_handler(33, "keyboard_callback")
    <3>1. at = 6 /\ at' = 7
      BY <1>0, <1>5, <2>2, StepNames DEF Register, Step, Done
    <3> QED  BY <2>2, <3>1 DEF register_interrupt_handler, ServedInv, Vectors
  <2>3. CASE Step("syscall") /\ register_interrupt_handler(128, "syscall_handler")
    <3>1. at = 18 /\ at' = 19
      BY <1>0, <1>5, <2>3, StepNames DEF Register, Step, Done
    <3> QED  BY <2>3, <3>1 DEF register_interrupt_handler, ServedInv, Vectors
  <2> QED  BY <1>5, <2>1, <2>2, <2>3 DEF Register
<1>6. CASE InitializeMemory
  <2>1. at = 7 /\ at' = 8 /\ UNCHANGED cpu
    BY <1>0, <1>6, StepNames DEF InitializeMemory, Step, Done
  <2> QED  BY <2>1, UnservedStep
<1>7. CASE vmm_initialize
  <2>1. /\ UNCHANGED cpu
        /\ \/ at = 8 /\ at' \in {9, 11}
           \/ at = 9 /\ at' \in {9, 10}
           \/ at = 10 /\ at' = 11
    BY <1>0, <1>7, StepNames, Numbers DEF vmm_initialize, Step, Done, Loop
  <2> QED  BY <2>1, UnservedStep
<1>8. CASE FindAdapter
  <2>1. at = 11 /\ at' \in {12, 14} /\ UNCHANGED cpu
    BY <1>0, <1>8, StepNames, Numbers DEF FindAdapter, Step
  <2> QED  BY <2>1, UnservedStep
<1>9. CASE MapRegisters
  <2>1. at = 12 /\ at' \in {12, 13} /\ UNCHANGED cpu
    BY <1>0, <1>9, StepNames DEF MapRegisters, Step, Loop
  <2> QED  BY <2>1, UnservedStep
<1>10. CASE ReadMac
  <2>1. at = 13 /\ at' = 14 /\ UNCHANGED cpu
    BY <1>0, <1>10, StepNames DEF ReadMac, Step, Done
  <2> QED  BY <2>1, UnservedStep
<1>11. CASE MountModule
  <2>1. at = 14 /\ at' = 15 /\ UNCHANGED cpu
    BY <1>0, <1>11, StepNames DEF MountModule, Step, Done
  <2> QED  BY <2>1, UnservedStep
<1>12. CASE simple_kmalloc
  <2>1. at \in {15, 16, 17} /\ at' = at + 1 /\ UNCHANGED cpu
    BY <1>0, <1>12, StepNames DEF simple_kmalloc, Step, Done
  <2> QED  BY <2>1, UnservedStep
<1>13. CASE EnableInterrupts
  <2>1. at = 19 /\ at' = 20
    BY <1>0, <1>13, StepNames DEF EnableInterrupts, Step, Done
  <2> QED  BY <1>13, <2>1 DEF EnableInterrupts, ServedInv
<1>14. CASE lspci
  <2>1. at = 20 /\ at' = 20 /\ UNCHANGED cpu
    BY <1>0, <1>14, StepNames DEF lspci, Step
  <2> QED  BY <2>1, UnservedStep
<1>15. CASE Stopped \/ UNCHANGED bootVars
  BY <1>15 DEF Stopped, bootVars, cpu, ServedInv
<1> QED
  BY <1>1, <1>2, <1>3, <1>4, <1>5, <1>6, <1>7, <1>8, <1>9, <1>10, <1>11, <1>12,
     <1>13, <1>14, <1>15 DEF BootNext

(* Whatever the memory and the bus, interrupts come on only when all of     *)
(* them have a gate and those the kernel serves their handler               *)
(* (kernel.c:74-131).                                                       *)
THEOREM InterruptsServed == BootSpec => []InterruptsAreServed
<1>1. ServedInv => InterruptsAreServed
  BY DEF ServedInv, InterruptsAreServed
<1> QED  BY <1>1, InitServed, ServedStep, PTL DEF BootSpec

-----------------------------------------------------------------------------
(* A page number is the number of its table and that of its entry in it.    *)
LEMMA PageSplits ==
  /\ \A p \in Block : p \div ENTRIES \in Index /\ p % ENTRIES \in Index
  /\ \A p, q \in Block :
       p \div ENTRIES = q \div ENTRIES /\ p % ENTRIES = q % ENTRIES => p = q
<1> DEFINE E == ENTRIES
<1>1. E \in Nat \ {0} /\ Block = 0 .. (E * E) - 1
  BY VmmAssumption
<1>2. \A p \in Block : /\ p \div E \in Nat /\ p % E \in 0 .. E - 1
                       /\ p = (E * (p \div E)) + (p % E)
  BY <1>1
<1> HIDE DEF E
<1>3. ASSUME NEW p \in Block PROVE p \div E < E
  <2>1. PICK q \in Nat : q = p \div E
    BY <1>2
  <2>2. PICK r \in Nat : p = (E * q) + r
    <3>1. p % E \in Nat /\ p = (E * (p \div E)) + (p % E)
      BY <1>1, <1>2
    <3> QED  BY <2>1, <3>1
  <2>3. (E * q) + r < E * E
    BY <1>1, <2>2
  <2>4. ASSUME NEW k \in Nat, q = E + k PROVE FALSE
    <3>1. E * q = (E * E) + (E * k)
      BY <1>1, <2>4
    <3>2. E * k \in Nat /\ E * E \in Nat
      BY <1>1
    <3> QED  BY <2>3, <3>1, <3>2
  <2>5. q >= E => q - E \in Nat /\ q = E + (q - E)
    BY <1>1
  <2> QED  BY <1>1, <2>1, <2>4, <2>5
<1>4. ASSUME NEW p \in Block PROVE p \div E \in Index /\ p % E \in Index
  <2>1. p \div E \in Nat /\ p \div E < E /\ p % E \in 0 .. E - 1
    BY <1>2, <1>3
  <2>2. Index = 0 .. E - 1
    BY DEF Index, E
  <2> QED  BY <1>1, <2>1, <2>2
<1>5. ASSUME NEW p \in Block, NEW q \in Block, p \div E = q \div E, p % E = q % E
      PROVE  p = q
  BY <1>2, <1>5
<1> QED  BY <1>4, <1>5 DEF E

-----------------------------------------------------------------------------
(* The directory and its tables are blocks of their own, taken from the     *)
(* block allocator, and every entry of the directory has at least rights.   *)
Directory == tables[page_directory]

TablesInv ==
  /\ pmm_bitmap \in [Block -> BOOLEAN]
  /\ DOMAIN tables \subseteq Block
  /\ \A t \in DOMAIN tables : tables[t] \in [Index -> Entry] /\ pmm_bitmap[t]

DirectoryInv(rights) ==
  page_directory # NULL =>
    /\ page_directory \in DOMAIN tables
    /\ \A m \in Index : Present(Directory[m]) =>
         /\ Directory[m].frame \in DOMAIN tables
         /\ Directory[m].frame # page_directory
         /\ rights \subseteq Directory[m].flags
    /\ \A m, j \in Index :
         /\ Present(Directory[m]) /\ Present(Directory[j])
         /\ Directory[m].frame = Directory[j].frame
         => m = j

AskedInv ==
  /\ DOMAIN asked \subseteq Block
  /\ \A p \in DOMAIN asked : Present(asked[p])
  /\ TranslationIsAsked

MapInv(rights) == TablesInv /\ DirectoryInv(rights) /\ AskedInv

(* A block that is handed out was clear, and blocks that were not stay so.  *)
LEMMA AllocStep ==
  ASSUME TablesInv, pmm_alloc_block
  PROVE  /\ pmm_bitmap' \in [Block -> BOOLEAN]
         /\ \A b \in Block : pmm_bitmap[b] => pmm_bitmap'[b]
         /\ returned' # NULL =>
              returned' \in Block /\ returned' \notin DOMAIN tables /\ pmm_bitmap'[returned']
<1>1. CASE ClearBits = {} /\ returned' = NULL /\ UNCHANGED pmm_bitmap
  BY <1>1 DEF TablesInv
<1>2. CASE \E m \in Block : /\ Found(m) /\ returned' = m
                            /\ pmm_bitmap' = [pmm_bitmap EXCEPT ![m] = TRUE]
  <2>1. PICK m \in Block : /\ Found(m) /\ returned' = m
                           /\ pmm_bitmap' = [pmm_bitmap EXCEPT ![m] = TRUE]
    BY <1>2
  <2>2. ~pmm_bitmap[m]
    BY <2>1 DEF Found, ClearBits
  <2> QED  BY <2>1, <2>2 DEF TablesInv
<1> QED  BY <1>1, <1>2 DEF pmm_alloc_block

(* A page in a table there is.                                              *)
LEMMA OldTableStep ==
  ASSUME NEW phys \in Block, NEW virt \in Block,
         NEW flags \in SUBSET {"WRITABLE", "USER"},
         MapInv(flags \cup {"PRESENT"}),
         page_directory # NULL,
         asked' = [p \in DOMAIN asked \cup {virt} |->
                     IF p = virt THEN PageEntry(phys, flags) ELSE asked[p]],
         InOldTable(phys, virt, flags),
         UNCHANGED page_directory
  PROVE  MapInv(flags \cup {"PRESENT"})'
<1> DEFINE d == virt \div ENTRIES
           e == virt % ENTRIES
           t == Directory[d].frame
<1>1. d \in Index /\ e \in Index /\ Present(Directory[d])
  BY PageSplits DEF InOldTable, Directory
<1>2. t \in DOMAIN tables /\ t # page_directory /\ page_directory \in DOMAIN tables
  BY <1>1 DEF MapInv, DirectoryInv
<1>3. PageEntry(phys, flags) \in Entry /\ Present(PageEntry(phys, flags))
  BY DEF PageEntry, Entry, Present
<1>4. CASE trouble' = trouble /\ tables' = [tables EXCEPT ![t][e] = PageEntry(phys, flags)]
  <2>1. /\ DOMAIN tables' = DOMAIN tables
        /\ \A b \in DOMAIN tables : b # t => tables'[b] = tables[b]
        /\ tables'[t] = [tables[t] EXCEPT ![e] = PageEntry(phys, flags)]
    BY <1>2, <1>4
  <2>2. TablesInv'
    BY <1>1, <1>2, <1>3, <2>1 DEF MapInv, TablesInv, InOldTable, pmmVars
  <2>3. Directory' = Directory
    BY <1>2, <2>1 DEF Directory
  <2>4. DirectoryInv(flags \cup {"PRESENT"})'
    BY <1>2, <2>1, <2>3 DEF MapInv, DirectoryInv, Present
  <2>5. Translation(virt)' = PageEntry(phys, flags)
    <3>1. tables'[Directory'[d].frame][e] = PageEntry(phys, flags)
      BY <1>1, <1>2, <2>1, <2>3 DEF MapInv, TablesInv
    <3>2. flags \cup {"PRESENT"} \subseteq Directory[d].flags
      BY <1>1 DEF MapInv, DirectoryInv
    <3>3. Translation(virt)' =
            [frame |-> phys, flags |-> Directory[d].flags \cap (flags \cup {"PRESENT"})]
      BY <1>1, <1>3, <2>3, <3>1 DEF Translation, Directory, PageEntry, Present
    <3>4. Directory[d].flags \cap (flags \cup {"PRESENT"}) = flags \cup {"PRESENT"}
      BY <3>2
    <3> QED  BY <3>3, <3>4 DEF PageEntry
  <2>6. ASSUME NEW p \in Block, p # virt PROVE Translation(p)' = Translation(p)
    <3> DEFINE m == p \div ENTRIES
    <3>1. m \in Index /\ p % ENTRIES \in Index
      BY PageSplits
    <3>2. CASE ~Present(Directory[m])
      BY <2>3, <3>2 DEF Translation, Directory
    <3>3. CASE Present(Directory[m])
      <4>1. Directory[m].frame \in DOMAIN tables
        BY <3>1, <3>3 DEF MapInv, DirectoryInv
      <4>2. tables'[Directory[m].frame][p % ENTRIES] = tables[Directory[m].frame][p % ENTRIES]
        <5>1. CASE Directory[m].frame # t
          BY <2>1, <4>1, <5>1
        <5>2. CASE Directory[m].frame = t
          <6>1. m = d
            BY <1>1, <3>1, <3>3, <5>2 DEF MapInv, DirectoryInv
          <6>2. p % ENTRIES # e
            BY <2>6, <6>1, PageSplits
          <6> QED  BY <1>1, <1>2, <2>1, <3>1, <5>2, <6>2 DEF MapInv, TablesInv
        <5> QED  BY <5>1, <5>2
      <4> QED  BY <2>3, <4>2 DEF Translation, Directory
    <3> QED  BY <3>2, <3>3
  <2>7. AskedInv'
    BY <1>3, <1>4, <2>5, <2>6 DEF MapInv, AskedInv, TranslationIsAsked, Present
  <2> QED  BY <2>2, <2>4, <2>7 DEF MapInv
<1>5. CASE Trouble("fault") /\ UNCHANGED tables
  <2>1. TablesInv' /\ DirectoryInv(flags \cup {"PRESENT"})'
    BY <1>5 DEF MapInv, TablesInv, DirectoryInv, Directory, InOldTable, pmmVars, Present
  <2>2. AskedInv'
    BY <1>3, <1>5 DEF MapInv, AskedInv, TranslationIsAsked, Trouble, Present
  <2> QED  BY <2>1, <2>2 DEF MapInv
<1> QED  BY <1>4, <1>5 DEF InOldTable, Directory

(* A page whose table is a new one.                                         *)
LEMMA NewTableStep ==
  ASSUME NEW phys \in Block, NEW virt \in Block,
         NEW flags \in SUBSET {"WRITABLE", "USER"},
         MapInv(flags \cup {"PRESENT"}),
         page_directory # NULL,
         asked' = [p \in DOMAIN asked \cup {virt} |->
                     IF p = virt THEN PageEntry(phys, flags) ELSE asked[p]],
         InNewTable(phys, virt, flags),
         UNCHANGED page_directory
  PROVE  MapInv(flags \cup {"PRESENT"})'
<1> DEFINE d == virt \div ENTRIES
           e == virt % ENTRIES
           b == returned'
<1>1. d \in Index /\ e \in Index /\ ~Present(Directory[d])
  BY PageSplits DEF InNewTable, Directory
<1>2. page_directory \in DOMAIN tables
  BY DEF MapInv, DirectoryInv
<1>3. PageEntry(phys, flags) \in Entry /\ Present(PageEntry(phys, flags))
  BY DEF PageEntry, Entry, Present
<1>4. /\ pmm_bitmap' \in [Block -> BOOLEAN]
      /\ \A k \in Block : pmm_bitmap[k] => pmm_bitmap'[k]
      /\ b # NULL => b \in Block /\ b \notin DOMAIN tables /\ pmm_bitmap'[b]
  BY AllocStep DEF InNewTable, MapInv
<1>5. CASE (Trouble("lost") \/ Trouble("fault")) /\ UNCHANGED tables
  <2>1. TablesInv' /\ DirectoryInv(flags \cup {"PRESENT"})'
    BY <1>4, <1>5 DEF MapInv, TablesInv, DirectoryInv, Directory, Present
  <2>2. Translation(virt) = Absent
    BY <1>1 DEF Translation, Directory
  <2>3. \A p \in Block : Translation(p)' = Translation(p)
    BY <1>5 DEF Translation
  <2>4. AskedInv'
    BY <1>3, <1>5, <2>2, <2>3 DEF MapInv, AskedInv, TranslationIsAsked, Trouble, Present
  <2> QED  BY <2>1, <2>4 DEF MapInv
<1>6. CASE /\ b # NULL
           /\ trouble' = trouble
           /\ tables' =
                [WithTable(b) EXCEPT
                   ![page_directory][d] =
                     [frame |-> b, flags |-> DirectoryFlags(flags)],
                   ![b][e] = PageEntry(phys, flags)]
  <2> DEFINE pde == [frame |-> b, flags |-> DirectoryFlags(flags)]
  <2>1. b \in Block /\ b \notin DOMAIN tables /\ b # page_directory
    BY <1>2, <1>4, <1>6
  <2>2. /\ DOMAIN tables' = DOMAIN tables \cup {b}
        /\ \A k \in DOMAIN tables : k # page_directory => tables'[k] = tables[k]
        /\ tables'[page_directory] = [tables[page_directory] EXCEPT ![d] = pde]
        /\ tables'[b] = [Empty EXCEPT ![e] = PageEntry(phys, flags)]
    BY <1>2, <1>6, <2>1 DEF WithTable
  <2>3. pde \in Entry /\ Present(pde) /\ pde.frame = b
        /\ pde.flags = flags \cup {"PRESENT"}
    BY <2>1 DEF Entry, DirectoryFlags, Present
  <2>4. Empty \in [Index -> Entry]
    BY VmmAssumption DEF Empty, Absent, Entry, NULL
  <2>5. TablesInv'
    <3>1. \A k \in DOMAIN tables :
            k \in Block /\ pmm_bitmap[k] /\ tables[k] \in [Index -> Entry]
      BY DEF MapInv, TablesInv
    <3>2. ASSUME NEW k \in DOMAIN tables'
          PROVE  k \in Block /\ pmm_bitmap'[k] /\ tables'[k] \in [Index -> Entry]
      <4>1. CASE k = b
        <5>1. tables'[b] \in [Index -> Entry]
          BY <1>1, <1>3, <2>2, <2>4
        <5> QED  BY <1>4, <1>6, <2>1, <4>1, <5>1
      <4>2. CASE k = page_directory
        <5>1. tables'[k] \in [Index -> Entry]
          BY <1>1, <1>2, <2>2, <2>3, <3>1, <4>2
        <5> QED  BY <1>2, <1>4, <3>1, <4>2, <5>1
      <4>3. CASE k # b /\ k # page_directory
        BY <1>4, <2>2, <3>1, <4>3
      <4> QED  BY <4>1, <4>2, <4>3
    <3> QED  BY <1>4, <3>2 DEF TablesInv
  <2>6. /\ Directory'[d] = pde
        /\ \A m \in Index : m # d => Directory'[m] = Directory[m]
    BY <1>1, <1>2, <2>2 DEF Directory, MapInv, TablesInv
  <2>7. DirectoryInv(flags \cup {"PRESENT"})'
    <3>1. ASSUME NEW m \in Index, Present(Directory'[m])
          PROVE  /\ Directory'[m].frame \in DOMAIN tables'
                 /\ Directory'[m].frame # page_directory
                 /\ flags \cup {"PRESENT"} \subseteq Directory'[m].flags
      <4>1. CASE m = d
        BY <2>1, <2>2, <2>3, <2>6, <4>1
      <4>2. CASE m # d
        BY <2>2, <2>6, <3>1, <4>2 DEF MapInv, DirectoryInv
      <4> QED  BY <4>1, <4>2
    <3>2. ASSUME NEW m \in Index, NEW j \in Index,
                 Present(Directory'[m]), Present(Directory'[j]),
                 Directory'[m].frame = Directory'[j].frame
          PROVE  m = j
      <4>1. \A k \in Index : k # d /\ Present(Directory'[k]) =>
              Directory'[k].frame \in DOMAIN tables
        BY <2>6 DEF MapInv, DirectoryInv
      <4>2. Directory'[d].frame \notin DOMAIN tables
        BY <2>1, <2>3, <2>6
      <4>3. CASE m # d /\ j # d
        BY <2>6, <3>2, <4>3 DEF MapInv, DirectoryInv
      <4> QED  BY <3>2, <4>1, <4>2, <4>3
    <3> QED  BY <1>2, <2>2, <3>1, <3>2 DEF DirectoryInv, Present
  <2>8. Translation(virt)' = PageEntry(phys, flags)
    <3>1. tables'[b][e] = PageEntry(phys, flags)
      BY <1>1, <2>2, <2>4
    <3>2. /\ Present(Directory'[d]) /\ Directory'[d].frame = b
          /\ Directory'[d].flags = flags \cup {"PRESENT"}
      BY <2>3, <2>6
    <3>3. tables'[Directory'[d].frame][e] = PageEntry(phys, flags)
      BY <3>1, <3>2
    <3>4. PageEntry(phys, flags).flags = flags \cup {"PRESENT"}
          /\ PageEntry(phys, flags).frame = phys
      BY DEF PageEntry
    <3> QED  BY <1>3, <3>2, <3>3, <3>4 DEF Translation, Directory, PageEntry, Present
  <2>9. ASSUME NEW p \in Block, p # virt PROVE Translation(p)' = Translation(p)
    <3> DEFINE m == p \div ENTRIES
    <3>1. m \in Index /\ p % ENTRIES \in Index
      BY PageSplits
    <3>2. CASE m = d
      <4>1. p % ENTRIES # e
        BY <2>9, <3>2, PageSplits
      <4>2. tables'[b][p % ENTRIES] = Absent
        BY <2>2, <3>1, <4>1 DEF Empty
      <4>3. ~Present(Absent) /\ Translation(p) = Absent
        BY <1>1, <3>2 DEF Translation, Directory, Absent, Present
      <4> QED  BY <2>3, <2>6, <3>2, <4>2, <4>3 DEF Translation, Directory
    <3>3. CASE m # d
      <4>1. Directory'[m] = Directory[m]
        BY <2>6, <3>1, <3>3
      <4>2. Present(Directory[m]) =>
              Directory[m].frame \in DOMAIN tables /\ Directory[m].frame # page_directory
        BY <3>1 DEF MapInv, DirectoryInv
      <4>3. Present(Directory[m]) => tables'[Directory[m].frame] = tables[Directory[m].frame]
        BY <2>2, <4>2
      <4> QED  BY <4>1, <4>3 DEF Translation, Directory
    <3> QED  BY <3>2, <3>3
  <2>10. AskedInv'
    BY <1>3, <1>6, <2>8, <2>9 DEF MapInv, AskedInv, TranslationIsAsked, Present
  <2> QED  BY <2>5, <2>7, <2>10 DEF MapInv
<1> QED  BY <1>5, <1>6 DEF InNewTable, Trouble

LEMMA MapPageStep ==
  ASSUME NEW phys \in Block, NEW virt \in Block,
         NEW flags \in SUBSET {"WRITABLE", "USER"},
         MapInv(flags \cup {"PRESENT"}),
         vmm_map_page(phys, virt, flags)
  PROVE  MapInv(flags \cup {"PRESENT"})'
<1>1. CASE page_directory # NULL /\ (InOldTable(phys, virt, flags) \/ InNewTable(phys, virt, flags))
  BY <1>1, OldTableStep, NewTableStep DEF vmm_map_page
<1>2. CASE /\ page_directory = NULL \/ Trouble("fault")
           /\ UNCHANGED <<pmmVars, tables>>
  <2>1. TablesInv' /\ DirectoryInv(flags \cup {"PRESENT"})'
    BY <1>2 DEF vmm_map_page, MapInv, TablesInv, DirectoryInv, Directory, pmmVars, Present
  <2>2. Present(PageEntry(phys, flags))
    BY DEF PageEntry, Present
  <2>3. AskedInv'
    BY <1>2, <2>2 DEF vmm_map_page, MapInv, AskedInv, TranslationIsAsked, Trouble, Present
  <2> QED  BY <2>1, <2>3 DEF MapInv
<1> QED  BY <1>1, <1>2 DEF vmm_map_page

-----------------------------------------------------------------------------
(* Until the identity map is complete every entry of the directory gives    *)
(* all rights; the pages mapped later ask for fewer.                        *)
Rights == {"PRESENT", "WRITABLE"} \cup IF at <= 9 THEN {"USER"} ELSE {}

BootInv ==
  /\ machine \in Machines
  /\ at \in 0 .. 20
  /\ i \in Nat
  /\ at <= 8 => page_directory = NULL /\ DOMAIN asked = {} /\ i = 0
  /\ at = 9 => i < IDENTITY
  /\ ~initialized => DOMAIN tables = {}
  /\ MapInv(Rights)

LEMMA InitBoot == BootInit => BootInv
BY DEF BootInit, Init, VmmInit, BootInv, MapInv, TablesInv, DirectoryInv, AskedInv,
       TranslationIsAsked

(* A step that writes to no table.                                          *)
LEMMA QuietStep ==
  ASSUME BootInv,
         UNCHANGED <<machine, pmm_bitmap, initialized, page_directory, tables, asked, i>>,
         trouble \subseteq trouble',
         at' \in 0 .. 20, at' <= 8 <=> at <= 8, at' = 9 <=> at = 9
  PROVE  BootInv'
<1>1. Rights' = Rights
  BY DEF BootInv, Rights
<1>2. TablesInv' /\ DirectoryInv(Rights)'
  BY <1>1 DEF BootInv, MapInv, TablesInv, DirectoryInv, Directory, Present
<1>3. AskedInv'
  BY DEF BootInv, MapInv, AskedInv, TranslationIsAsked, Translation, Present
<1> QED  BY <1>2, <1>3 DEF BootInv, MapInv

LEMMA InitializeMemoryStep == ASSUME BootInv, InitializeMemory PROVE BootInv'
<1>1. /\ at = 7 /\ at' = 8 /\ ~initialized /\ initialized'
      /\ UNCHANGED <<machine, page_directory, tables, asked, i, trouble>>
  <2>1. at = 7
    BY StepNames DEF InitializeMemory, BootInv, Step
  <2> QED  BY <2>1 DEF InitializeMemory, BootInv, Step, Done, pmm_initialize, vmmVars
<1>2. pmm_bitmap' \in [Block -> BOOLEAN]
  BY DEF InitializeMemory, pmm_initialize, BootInv, MapInv, TablesInv
<1>3. TablesInv' /\ DirectoryInv(Rights)' /\ AskedInv'
  BY <1>1, <1>2 DEF BootInv, MapInv, TablesInv, DirectoryInv, AskedInv, TranslationIsAsked
<1> QED  BY <1>1, <1>3 DEF BootInv, MapInv

LEMMA AllocateDirectoryStep ==
  ASSUME BootInv, Step("directory"), AllocateDirectory, UNCHANGED i,
         at' = IF returned' = NULL THEN Number("find") ELSE at + 1
  PROVE  BootInv'
<1>1. /\ at = 8 /\ at' \in {9, 11} /\ page_directory = NULL /\ DOMAIN asked = {} /\ i = 0
      /\ initialized /\ initialized' /\ UNCHANGED <<machine, asked, trouble>>
      /\ page_directory' = returned'
  BY StepNames, Numbers DEF BootInv, Step, AllocateDirectory, pmm_alloc_block
<1>2. /\ pmm_bitmap' \in [Block -> BOOLEAN]
      /\ \A b \in Block : pmm_bitmap[b] => pmm_bitmap'[b]
      /\ returned' # NULL =>
           returned' \in Block /\ returned' \notin DOMAIN tables /\ pmm_bitmap'[returned']
  BY AllocStep DEF AllocateDirectory, BootInv, MapInv
<1>3. Empty \in [Index -> Entry] /\ \A k \in Index : ~Present(Empty[k])
  BY VmmAssumption DEF Empty, Absent, Entry, NULL, Present
<1>4. AskedInv'
  BY <1>1 DEF AskedInv, TranslationIsAsked
<1>5. CASE returned' = NULL
  <2>1. TablesInv' /\ DirectoryInv(Rights)'
    BY <1>1, <1>2, <1>5 DEF AllocateDirectory, BootInv, MapInv, TablesInv, DirectoryInv
  <2> QED  BY <1>1, <1>4, <1>5, <2>1, Numbers DEF BootInv, MapInv
<1>6. CASE returned' # NULL
  <2>1. /\ DOMAIN tables' = DOMAIN tables \cup {returned'}
        /\ \A b \in DOMAIN tables : tables'[b] = tables[b]
        /\ tables'[returned'] = Empty
    BY <1>2, <1>6 DEF AllocateDirectory, WithTable
  <2>2. TablesInv'
    BY <1>2, <1>3, <1>6, <2>1 DEF BootInv, MapInv, TablesInv
  <2>3. DirectoryInv(Rights)'
    BY <1>1, <1>3, <2>1 DEF DirectoryInv, Directory, Present
  <2>4. at' = 9 /\ 0 < IDENTITY
    BY <1>1, <1>6, VmmAssumption
  <2> QED  BY <1>1, <1>4, <2>2, <2>3, <2>4 DEF BootInv, MapInv
<1> QED  BY <1>5, <1>6

LEMMA IdentityStep ==
  ASSUME BootInv, Step("identity"), Loop(IDENTITY),
         vmm_map_page(i, i, {"WRITABLE", "USER"})
  PROVE  BootInv'
<1>1. at = 9 /\ at' \in {9, 10} /\ i < IDENTITY /\ i \in Nat
  <2>1. at = 9
    BY StepNames DEF BootInv, Step
  <2> QED  BY <2>1 DEF BootInv, Loop
<1>2. i \in Block /\ IDENTITY \in Nat
  BY <1>1, VmmAssumption
<1>3. Rights = {"WRITABLE", "USER"} \cup {"PRESENT"}
  BY <1>1 DEF Rights
<1>4. MapInv({"WRITABLE", "USER"} \cup {"PRESENT"})'
  BY <1>2, <1>3, MapPageStep DEF BootInv
<1>5. MapInv(Rights)'
  <2>1. Rights' \subseteq {"WRITABLE", "USER"} \cup {"PRESENT"}
    BY DEF Rights
  <2> QED  BY <1>4, <2>1 DEF MapInv, DirectoryInv
<1>6. i' \in Nat /\ (at' = 9 => i' < IDENTITY)
  BY <1>1, <1>2 DEF Loop
<1>7. ~initialized' => DOMAIN tables' = {}
  BY DEF vmm_map_page, BootInv, InOldTable, InNewTable, pmm_alloc_block, pmmVars
<1> QED  BY <1>1, <1>5, <1>6, <1>7 DEF BootInv, Step

LEMMA MapRegistersStep == ASSUME BootInv, MapRegisters PROVE BootInv'
<1>1. at = 12 /\ at' \in {12, 13} /\ i \in Nat /\ i' \in Nat
  <2>1. at = 12
    BY StepNames DEF MapRegisters, BootInv, Step
  <2> QED  BY <2>1 DEF MapRegisters, BootInv, Loop
<1>2. PICK page \in Block : vmm_map_page(page, page, {"WRITABLE"})
  <2>1. machine.bar \in Nat /\ ENTRIES * ENTRIES \in Nat \ {0}
    BY BootAssumption, VmmAssumption DEF BootInv
  <2>2. RegisterPage(machine.bar, i) \in Block
    BY <1>1, <2>1, VmmAssumption DEF RegisterPage
  <2> QED  BY <2>2 DEF MapRegisters
<1>3. Rights = {"WRITABLE"} \cup {"PRESENT"} /\ Rights' = Rights
  BY <1>1 DEF Rights
<1>4. MapInv(Rights)'
  BY <1>2, <1>3, MapPageStep DEF BootInv
<1>5. ~initialized' => DOMAIN tables' = {}
  BY <1>2 DEF vmm_map_page, BootInv, InOldTable, InNewTable, pmm_alloc_block, pmmVars
<1> QED  BY <1>1, <1>4, <1>5 DEF BootInv, MapRegisters, Step

LEMMA KmallocStep == ASSUME BootInv, simple_kmalloc PROVE BootInv'
<1>1. /\ at \in 15 .. 17 /\ at' = at + 1 /\ initialized /\ initialized'
      /\ UNCHANGED <<machine, page_directory, tables, asked, i>> /\ trouble \subseteq trouble'
  BY SMTT(30), StepNames DEF simple_kmalloc, BootInv, Step, Done, pmm_alloc_block
<1>2. /\ pmm_bitmap' \in [Block -> BOOLEAN]
      /\ \A b \in Block : pmm_bitmap[b] => pmm_bitmap'[b]
  BY AllocStep DEF simple_kmalloc, BootInv, MapInv
<1>3. Rights' = Rights
  BY <1>1 DEF Rights
<1>4. TablesInv' /\ DirectoryInv(Rights)'
  BY <1>1, <1>2, <1>3 DEF BootInv, MapInv, TablesInv, DirectoryInv, Directory, Present
<1>5. AskedInv'
  BY <1>1 DEF BootInv, MapInv, AskedInv, TranslationIsAsked, Translation, Present
<1> QED  BY <1>1, <1>4, <1>5 DEF BootInv, MapInv

LEMMA BootStep == BootInv /\ [BootNext]_bootVars => BootInv'
<1> SUFFICES ASSUME BootInv, [BootNext]_bootVars PROVE BootInv'
  OBVIOUS
<1>0. at \in 0 .. 20 /\ i \in Nat
  BY DEF BootInv
<1>1. CASE CheckMagic
  <2>1. at = 1 /\ at' \in {0, 2}
    BY <1>0, <1>1, StepNames DEF CheckMagic, Step
  <2> QED  BY <1>1, <2>1, QuietStep DEF CheckMagic, Step, memory, pmmVars, vmmVars
<1>2. CASE gdt_initialize \/ idt_initialize \/ isr_initialize
  <2>1. at \in 2 .. 4 /\ at' = at + 1
    BY <1>0, <1>2, StepNames DEF gdt_initialize, idt_initialize, isr_initialize, Step, Done
  <2> QED
    BY <1>2, <2>1, QuietStep
       DEF gdt_initialize, idt_initialize, isr_initialize, Step, Done, memory, pmmVars, vmmVars
<1>3. CASE Register
  <2>1. at \in {5, 6, 18} /\ at' = at + 1
    BY <1>0, <1>3, StepNames DEF Register, Step, Done
  <2> QED
    BY <1>3, <2>1, QuietStep
       DEF Register, register_interrupt_handler, Step, Done, memory, pmmVars, vmmVars
<1>4. CASE InitializeMemory
  BY <1>4, InitializeMemoryStep
<1>5. CASE vmm_initialize
  <2>1. CASE Step("directory") /\ AllocateDirectory /\ UNCHANGED i
             /\ at' = IF returned' = NULL THEN Number("find") ELSE at + 1
    BY <2>1, AllocateDirectoryStep
  <2>2. CASE Step("identity") /\ Loop(IDENTITY) /\ vmm_map_page(i, i, {"WRITABLE", "USER"})
    BY <2>2, IdentityStep
  <2>3. CASE Step("paging") /\ Done /\ vmm_enable_paging
    <3>1. at = 10 /\ at' = 11
      BY <1>0, <2>3, StepNames DEF Step, Done
    <3>2. trouble \subseteq trouble'
      BY <2>3 DEF vmm_enable_paging, Trouble
    <3> QED
      BY <2>3, <3>1, <3>2, QuietStep DEF Step, Done, vmm_enable_paging, pmmVars
  <2> QED  BY <1>5, <2>1, <2>2, <2>3 DEF vmm_initialize
<1>6. CASE FindAdapter
  <2>1. at = 11 /\ at' \in {12, 14}
    BY <1>0, <1>6, StepNames, Numbers DEF FindAdapter, Step
  <2> QED  BY <1>6, <2>1, QuietStep DEF FindAdapter, Step, memory, pmmVars, vmmVars
<1>7. CASE MapRegisters
  BY <1>7, MapRegistersStep
<1>8. CASE ReadMac \/ MountModule
  <2>1. at \in {13, 14} /\ at' = at + 1
    BY <1>0, <1>8, StepNames DEF ReadMac, MountModule, Step, Done
  <2>2. trouble \subseteq trouble'
    BY <1>8 DEF ReadMac, MountModule, FaultUnless
  <2> QED
    BY <1>8, <2>1, <2>2, QuietStep DEF ReadMac, MountModule, Step, Done, pmmVars
<1>9. CASE simple_kmalloc
  BY <1>9, KmallocStep
<1>10. CASE EnableInterrupts
  <2>1. at = 19 /\ at' = 20
    BY <1>0, <1>10, StepNames DEF EnableInterrupts, Step, Done
  <2> QED
    BY <1>10, <2>1, QuietStep DEF EnableInterrupts, Step, Done, memory, pmmVars, vmmVars
<1>11. CASE lspci
  <2>1. at = 20 /\ at' = 20
    BY <1>0, <1>11, StepNames DEF lspci, Step
  <2> QED  BY <1>11, <2>1, QuietStep DEF lspci, Step, memory, pmmVars, vmmVars
<1>12. CASE Stopped \/ UNCHANGED bootVars
  BY <1>0, <1>12, QuietStep DEF Stopped, bootVars, memory, pmmVars, vmmVars
<1> QED
  BY <1>1, <1>2, <1>3, <1>4, <1>5, <1>6, <1>7, <1>8, <1>9, <1>10, <1>11, <1>12
     DEF BootNext

(* Whatever the memory, the bus and the size of the tables, the processor   *)
(* finds for every page the frame and the rights that were asked for, or,   *)
(* once memory has run out, nothing (vmm.c:18-32).                          *)
THEOREM TranslationCorrect == BootSpec => []TranslationIsAsked
<1>1. BootInv => TranslationIsAsked
  BY DEF BootInv, MapInv, AskedInv
<1> QED  BY <1>1, InitBoot, BootStep, PTL DEF BootSpec

-----------------------------------------------------------------------------
(* The place every call is made at, and the one it leads to.                *)
LEMMA WhereCalled ==
  ASSUME at \in 0 .. 20
  PROVE  /\ CheckMagic => at = 1 /\ at' \in {0, 2}
         /\ gdt_initialize => at = 2 /\ at' = 3
         /\ idt_initialize => at = 3 /\ at' = 4
         /\ isr_initialize => at = 4 /\ at' = 5
         /\ Register => at \in {5, 6, 18} /\ at' = at + 1
         /\ InitializeMemory => at = 7 /\ at' = 8
         /\ vmm_initialize => \/ at = 8 /\ at' \in {9, 11}
                              \/ at = 9 /\ at' \in {9, 10}
                              \/ at = 10 /\ at' = 11
         /\ FindAdapter => at = 11 /\ at' = IF e1000_found' THEN 12 ELSE 14
         /\ MapRegisters => at = 12 /\ at' \in {12, 13}
         /\ ReadMac => at = 13 /\ at' = 14
         /\ MountModule => at = 14 /\ at' = 15
         /\ simple_kmalloc => at \in 15 .. 17 /\ at' = at + 1
         /\ EnableInterrupts => at = 19 /\ at' = 20
         /\ lspci => at = 20 /\ at' = 20
<1>1. /\ CheckMagic => at = 1 /\ at' \in {0, 2}
      /\ gdt_initialize => at = 2 /\ at' = 3
      /\ idt_initialize => at = 3 /\ at' = 4
      /\ isr_initialize => at = 4 /\ at' = 5
      /\ InitializeMemory => at = 7 /\ at' = 8
  BY StepNames DEF CheckMagic, gdt_initialize, idt_initialize, isr_initialize,
                   InitializeMemory, Step, Done
<1>2. Register => at \in {5, 6, 18} /\ at' = at + 1
  BY StepNames DEF Register, Step, Done
<1>3. vmm_initialize => \/ at = 8 /\ at' \in {9, 11}
                        \/ at = 9 /\ at' \in {9, 10}
                        \/ at = 10 /\ at' = 11
  BY StepNames, Numbers DEF vmm_initialize, Step, Done, Loop
<1>4. FindAdapter => at = 11 /\ at' = IF e1000_found' THEN 12 ELSE 14
  BY StepNames, Numbers DEF FindAdapter, Step
<1>5. /\ MapRegisters => at = 12 /\ at' \in {12, 13}
      /\ ReadMac => at = 13 /\ at' = 14
      /\ MountModule => at = 14 /\ at' = 15
  <2>1. MapRegisters => at = 12 /\ at' \in {12, 13}
    BY StepNames DEF MapRegisters, Step, Loop
  <2>2. ReadMac => at = 13 /\ at' = 14
    BY StepNames DEF ReadMac, Step, Done
  <2>3. MountModule => at = 14 /\ at' = 15
    BY StepNames DEF MountModule, Step, Done
  <2> QED  BY <2>1, <2>2, <2>3
<1>6. simple_kmalloc => at \in 15 .. 17 /\ at' = at + 1
  <2>1. Step("process") \/ Step("pcb") \/ Step("stack") => at \in 15 .. 17
    BY StepNames DEF Step
  <2> QED  BY <2>1 DEF simple_kmalloc, Done
<1>7. /\ EnableInterrupts => at = 19 /\ at' = 20
      /\ lspci => at = 20 /\ at' = 20
  BY StepNames DEF EnableInterrupts, lspci, Step, Done
<1> QED  BY <1>1, <1>2, <1>3, <1>4, <1>5, <1>6, <1>7

-----------------------------------------------------------------------------
(* The bus.  What the two scans read of a slot and what is really in it:    *)
(* they look at different things before they skip functions, but function 0 *)
(* reads as multi-function where there is none.                             *)
LEMMA ScansReadReal ==
  ASSUME NEW m \in Machines
  PROVE  /\ {p \in Places(m.slots) : /\ p.function \in Listed(m.slots[p.slot])
                                     /\ At(m.slots, p) # NoDevice} = Real(m.slots)
         /\ {p \in Places(m.slots) : /\ p.function \in Searched(m.slots[p.slot])
                                     /\ At(m.slots, p) = E1000}
              = {p \in Real(m.slots) : At(m.slots, p) = E1000}
<1>1. ASSUME NEW p \in Places(m.slots)
      PROVE  /\ p.function \in Listed(m.slots[p.slot]) /\ At(m.slots, p) # NoDevice
                   <=> p \in Real(m.slots)
             /\ p.function \in Searched(m.slots[p.slot]) /\ At(m.slots, p) # NoDevice
                   <=> p \in Real(m.slots)
  <2>1. PICK s : s = m.slots[p.slot]
    OBVIOUS
  <2>2. PICK f : f = p.function
    OBVIOUS
  <2>3. s.multi \in BOOLEAN /\ f \in Function
    BY <2>1, <2>2, BootAssumption DEF Places
  <2>4. At(m.slots, p) = Answer(s, f)
    BY <2>1, <2>2 DEF At
  <2>5. p \in Real(m.slots) <=> s.functions[f] # NoDevice /\ (s.multi \/ f = 0)
    BY <2>1, <2>2 DEF Real
  <2>6. f \in Listed(s) /\ Answer(s, f) # NoDevice
          <=> s.functions[f] # NoDevice /\ (s.multi \/ f = 0)
    <3>1. CASE s.multi
      BY <2>3, <3>1 DEF Listed, MultiFunction, Answer
    <3>2. CASE ~s.multi
      BY <2>3, <3>2 DEF Listed, MultiFunction, Answer
    <3> QED  BY <2>3, <3>1, <3>2
  <2>7. f \in Searched(s) /\ Answer(s, f) # NoDevice
          <=> s.functions[f] # NoDevice /\ (s.multi \/ f = 0)
    <3>1. CASE s.multi
      BY <2>3, <3>1 DEF Searched, MultiFunction, Answer
    <3>2. CASE ~s.multi
      BY <2>3, <3>2 DEF Searched, MultiFunction, Answer
    <3> QED  BY <2>3, <3>1, <3>2
  <2> QED  BY <2>1, <2>2, <2>4, <2>5, <2>6, <2>7
<1>2. Real(m.slots) \subseteq Places(m.slots)
  BY DEF Real
<1> QED  BY <1>1, <1>2, BootAssumption

LEMMA PlaceType ==
  ASSUME NEW m \in Machines
  PROVE  \E n \in Nat : Place(m.slots) \in [1 .. n -> Places(m.slots)]
<1> DEFINE F == FUNCTIONS
           L == Len(m.slots)
<1>1. F \in Nat \ {0} /\ L \in Nat /\ DOMAIN m.slots = 1 .. L
  BY PciAssumption, BootAssumption, LenProperties
<1>2. F * L \in Nat
  BY <1>1
<1>3. ASSUME NEW k \in 1 .. F * L
      PROVE  /\ ((k - 1) \div F) + 1 \in 1 .. L
             /\ (k - 1) % F \in 0 .. F - 1
  <2> HIDE DEF F, L
  <2>1. k - 1 \in Nat /\ k - 1 < F * L
    BY <1>2
  <2>2. PICK q \in Nat : q = (k - 1) \div F
    BY <1>1, <2>1
  <2>3. PICK r \in 0 .. F - 1 : r = (k - 1) % F
    BY SMTT(30), <1>1, <2>1
  <2>4. k - 1 = (F * q) + r
    BY <1>1, <2>1, <2>2, <2>3
  <2>5. ASSUME NEW d \in Nat, q = L + d PROVE FALSE
    <3>1. F * q = (F * L) + (F * d)
      BY <1>1, <2>5
    <3>2. F * d \in Nat
      BY <1>1
    <3> QED  BY <1>2, <2>1, <2>3, <2>4, <3>1, <3>2
  <2>6. q >= L => q - L \in Nat /\ q = L + (q - L)
    BY <1>1
  <2>7. q < L
    BY <1>1, <2>5, <2>6
  <2> QED  BY <1>1, <2>2, <2>3, <2>7
<1>4. Place(m.slots) = [k \in 1 .. F * L |-> [slot |-> ((k - 1) \div F) + 1,
                                              function |-> (k - 1) % F]]
  BY DEF Place
<1>5. \A k \in 1 .. F * L : [slot |-> ((k - 1) \div F) + 1,
                             function |-> (k - 1) % F] \in Places(m.slots)
  BY <1>1, <1>3 DEF Places, Function
<1> HIDE DEF F, L
<1> QED  BY <1>2, <1>4, <1>5

LEMMA FirstIsOne ==
  ASSUME NEW m \in Machines, NEW places
  PROVE  /\ First(m.slots, places) \subseteq Places(m.slots)
         /\ Cardinality(First(m.slots, places)) <= 1
<1>1. PICK n \in Nat : Place(m.slots) \in [1 .. n -> Places(m.slots)]
  BY PlaceType
<1> DEFINE met == {k \in DOMAIN Place(m.slots) : Place(m.slots)[k] \in places}
           first == {j \in met : \A h \in met : j <= h}
<1>2. First(m.slots, places) = {Place(m.slots)[k] : k \in first}
  BY DEF First
<1>3. \A j, k \in first : j = k
  BY <1>1
<1>4. first \subseteq 1 .. n
  BY <1>1
<1> HIDE DEF first
<1>5. CASE first = {}
  BY <1>2, <1>5, FS_EmptySet
<1>6. ASSUME NEW j \in first PROVE Cardinality(First(m.slots, places)) = 1
  <2>1. First(m.slots, places) = {Place(m.slots)[j]}
    BY <1>2, <1>3
  <2> QED  BY <2>1, FS_Singleton
<1> QED  BY <1>1, <1>2, <1>4, <1>5, <1>6

(* Induction over the numbers, on a set in the place of a predicate.        *)
LEMMA NatIsInductive ==
  ASSUME NEW T, 0 \in T, \A n \in Nat : n \in T => n + 1 \in T
  PROVE  Nat \subseteq T
<1> DEFINE Missing == Nat \ T
           Less == {p \in Nat \X Nat : p[1] < p[2]}
<1> SUFFICES ASSUME Missing # {} PROVE FALSE
  OBVIOUS
<1>1. IsWellFoundedOn(Less, Nat)
  BY NatLessThanWellFounded DEF OpToRel
<1>2. PICK x \in Missing : \A y \in Missing : <<y, x>> \notin Less
  <2> HIDE DEF Missing, Less
  <2>1. Missing \subseteq Nat
    BY DEF Missing
  <2> QED  BY <1>1, <2>1, WFMin
<1>3. x - 1 \in Missing
  BY DEF Missing
<1>4. <<x - 1, x>> \in Less
  BY <1>3
<1> QED  BY <1>2, <1>3, <1>4

(* What the loops have met, place by place.                                 *)
Met(f, n, slots, places) ==
  /\ f \in [0 .. n -> Seq(Places(slots))]
  /\ f[0] = <<>>
  /\ \A k \in 1 .. n :
       f[k] = IF Place(slots)[k] \in places THEN Append(f[k - 1], Place(slots)[k])
              ELSE f[k - 1]

LEMMA MetExists ==
  ASSUME NEW slots, NEW places, NEW n \in Nat,
         Place(slots) \in [1 .. n -> Places(slots)]
  PROVE  \E f : Met(f, n, slots, places)
<1> DEFINE T == {k \in Nat : k <= n => \E f : Met(f, k, slots, places)}
<1>1. 0 \in T
  <2>1. Met([k \in 0 .. 0 |-> <<>>], 0, slots, places)
    BY EmptySeq DEF Met
  <2> QED  BY <2>1
<1>2. ASSUME NEW k \in Nat, k \in T PROVE k + 1 \in T
  <2> SUFFICES ASSUME k + 1 <= n PROVE \E f : Met(f, k + 1, slots, places)
    OBVIOUS
  <2>1. PICK f : Met(f, k, slots, places)
    BY <1>2
  <2>2. f[k] \in Seq(Places(slots)) /\ Place(slots)[k + 1] \in Places(slots)
    BY <2>1 DEF Met
  <2>3. PICK u : u = IF Place(slots)[k + 1] \in places
                       THEN Append(f[k], Place(slots)[k + 1]) ELSE f[k]
    OBVIOUS
  <2>4. u \in Seq(Places(slots))
    BY <2>2, <2>3, AppendProperties
  <2> DEFINE g == [j \in 0 .. k + 1 |-> IF j <= k THEN f[j] ELSE u]
  <2>5. g \in [0 .. k + 1 -> Seq(Places(slots))] /\ g[0] = <<>>
    BY <2>1, <2>4 DEF Met
  <2>6. ASSUME NEW j \in 1 .. k + 1
        PROVE  g[j] = IF Place(slots)[j] \in places
                        THEN Append(g[j - 1], Place(slots)[j]) ELSE g[j - 1]
    <3>1. CASE j \in 1 .. k
      BY SMTT(30), <2>1, <3>1 DEF Met
    <3>2. CASE j = k + 1
      BY <2>3, <3>2
    <3> QED  BY <3>1, <3>2
  <2>7. Met(g, k + 1, slots, places)
    BY <2>5, <2>6 DEF Met
  <2> QED  BY <2>7
<1>3. Nat \subseteq T
  <2> HIDE DEF T
  <2> QED  BY <1>1, <1>2, NatIsInductive
<1> QED  BY <1>3

LEMMA InOrderType ==
  ASSUME NEW m \in Machines, NEW places
  PROVE  InOrder(m.slots, places) \in Seq(Places(m.slots))
<1>1. PICK n \in Nat : Place(m.slots) \in [1 .. n -> Places(m.slots)]
  BY PlaceType
<1>2. Len(Place(m.slots)) = n
  BY <1>1
<1>3. PICK f : Met(f, n, m.slots, places)
  BY <1>1, MetExists
<1> DEFINE next(h) == [k \in 0 .. n |->
                         IF k = 0 THEN <<>>
                         ELSE IF Place(m.slots)[k] \in places
                           THEN Append(h[k - 1], Place(m.slots)[k])
                         ELSE h[k - 1]]
           met == CHOOSE h : h = next(h)
<1>4. InOrder(m.slots, places) = met[n]
  BY <1>2 DEF InOrder
<1>5. f = next(f)
  <2>1. f = [k \in 0 .. n |-> f[k]]
    BY <1>3 DEF Met
  <2>2. ASSUME NEW k \in 0 .. n PROVE f[k] = next(f)[k]
    <3>1. CASE k = 0
      BY <1>3, <3>1 DEF Met
    <3>2. CASE k \in 1 .. n
      BY <1>3, <3>2 DEF Met
    <3> QED  BY <3>1, <3>2
  <2>3. next(f) = [k \in 0 .. n |-> next(f)[k]]
    OBVIOUS
  <2> HIDE DEF next
  <2> QED  BY <2>1, <2>2, <2>3
<1>6. met = next(met)
  <2> HIDE DEF next
  <2> QED  BY <1>5
<1> HIDE DEF met
<1> DEFINE T == {k \in Nat : k <= n => met[k] \in Seq(Places(m.slots))}
<1>7. 0 \in T
  BY <1>6, EmptySeq
<1>8. ASSUME NEW k \in Nat, k \in T PROVE k + 1 \in T
  <2> SUFFICES ASSUME k + 1 <= n PROVE met[k + 1] \in Seq(Places(m.slots))
    OBVIOUS
  <2>1. met[k] \in Seq(Places(m.slots)) /\ Place(m.slots)[k + 1] \in Places(m.slots)
    BY <1>1, <1>8
  <2>2. met[k + 1] = IF Place(m.slots)[k + 1] \in places
                       THEN Append(met[k], Place(m.slots)[k + 1]) ELSE met[k]
    <3>1. k + 1 \in 0 .. n /\ k + 1 # 0 /\ k + 1 - 1 = k
      OBVIOUS
    <3>2. next(met)[k + 1] = IF Place(m.slots)[k + 1] \in places
                               THEN Append(met[k], Place(m.slots)[k + 1]) ELSE met[k]
      BY <3>1
    <3> HIDE DEF next
    <3> QED  BY <1>6, <3>2
  <2> QED  BY ZenonT(30), <2>1, <2>2, AppendProperties
<1>9. Nat \subseteq T
  <2> HIDE DEF T
  <2> QED  BY <1>7, <1>8, NatIsInductive
<1> QED  BY <1>4, <1>9

-----------------------------------------------------------------------------
(* What the bus holds: nothing is found before the search, and after it the *)
(* adapter is the first there is.                                           *)
BusInv ==
  /\ machine \in Machines
  /\ command \in [Places(machine.slots) -> SUBSET {"memory", "master"}]
  /\ at <= 11 => adapter = {} /\ ~e1000_found
  /\ at > 11 => adapter = FirstReal
  /\ e1000_found \in BOOLEAN /\ (e1000_found <=> adapter # {})
  /\ listed \in {<<>>, InOrder(machine.slots, Real(machine.slots))}

LEMMA InitBus == BootInit => BusInv
<1> SUFFICES ASSUME BootInit PROVE BusInv
  OBVIOUS
<1>1. command \in [Places(machine.slots) -> SUBSET {"memory", "master"}]
  BY DEF BootInit
<1>2. at = 1 /\ adapter = {} /\ e1000_found = FALSE /\ listed = <<>> /\ machine \in Machines
  BY DEF BootInit
<1>3. e1000_found \in BOOLEAN /\ (e1000_found <=> adapter # {})
  BY <1>2, Zenon
<1> QED  BY <1>1, <1>2, <1>3 DEF BusInv

(* A step that leaves the bus alone.                                        *)
LEMMA QuietBusStep ==
  ASSUME BusInv, at \in 0 .. 20, at' \in 0 .. 20, at <= 11 <=> at' <= 11,
         UNCHANGED <<machine, command, adapter, e1000_found, listed>>
  PROVE  BusInv'
<1>1. FirstReal' = FirstReal
  BY DEF FirstReal
<1> QED  BY <1>1 DEF BusInv

LEMMA FindAdapterStep ==
  ASSUME BusInv, at \in 0 .. 20, FindAdapter
  PROVE  BusInv'
<1>1. machine' = machine /\ listed' = listed /\ at' \in {12, 14}
  BY WhereCalled DEF FindAdapter, Step
<1>2. adapter' = FirstReal'
  <2>1. adapter' = First(machine.slots, {p \in Real(machine.slots) : At(machine.slots, p) = E1000})
    BY ScansReadReal DEF FindAdapter, pci_find_device, BusInv
  <2> QED  BY <1>1, <2>1 DEF FirstReal
<1>3. command' \in [Places(machine.slots) -> SUBSET {"memory", "master"}]
  BY DEF BusInv, FindAdapter, pci_enable_bus_mastering
<1>4. e1000_found' \in BOOLEAN /\ (e1000_found' <=> adapter' # {})
  BY Zenon DEF FindAdapter
<1> QED  BY <1>1, <1>2, <1>3, <1>4 DEF BusInv

LEMMA ListStep ==
  ASSUME BusInv, at \in 0 .. 20, lspci
  PROVE  BusInv'
<1>1. at = 20 /\ at' = 20
  BY WhereCalled
<1>2. UNCHANGED <<machine, command, adapter, e1000_found>>
  BY DEF lspci, Step
<1>3. listed' = InOrder(machine.slots, Real(machine.slots))
  BY ScansReadReal DEF lspci, pci_enumerate, BusInv
<1>4. FirstReal' = FirstReal
  BY <1>2 DEF FirstReal
<1> QED  BY <1>1, <1>2, <1>3, <1>4 DEF BusInv

LEMMA BusStep ==
  ASSUME BusInv, at \in 0 .. 20, [BootNext]_bootVars
  PROVE  BusInv'
<1> DEFINE Quiet == UNCHANGED <<machine, command, adapter, e1000_found, listed>>
<1>1. CASE CheckMagic
  <2>1. Quiet
    BY <1>1 DEF CheckMagic, Step, bus
  <2> QED  BY <1>1, <2>1, WhereCalled, QuietBusStep
<1>2. CASE gdt_initialize \/ idt_initialize \/ isr_initialize
  <2>1. Quiet
    BY <1>2 DEF gdt_initialize, idt_initialize, isr_initialize, Step, bus
  <2> QED  BY <1>2, <2>1, WhereCalled, QuietBusStep
<1>3. CASE Register
  <2>1. Quiet
    BY <1>3 DEF Register, register_interrupt_handler, Step, bus
  <2>2. at \in {5, 6, 18} /\ at' = at + 1
    BY <1>3, WhereCalled
  <2> QED  BY <2>1, <2>2, QuietBusStep
<1>4. CASE InitializeMemory
  <2>1. Quiet
    BY <1>4 DEF InitializeMemory, Step, bus
  <2> QED  BY <1>4, <2>1, WhereCalled, QuietBusStep
<1>5. CASE vmm_initialize
  <2>1. Quiet
    BY <1>5 DEF vmm_initialize, Step, bus
  <2>2. at \in 8 .. 10 /\ at' \in 9 .. 11
    BY <1>5, WhereCalled
  <2> QED  BY <2>1, <2>2, QuietBusStep
<1>6. CASE FindAdapter
  BY <1>6, FindAdapterStep
<1>7. CASE MapRegisters
  <2>1. Quiet
    BY <1>7 DEF MapRegisters, Step, bus
  <2> QED  BY <1>7, <2>1, WhereCalled, QuietBusStep
<1>8. CASE ReadMac \/ MountModule
  <2>1. Quiet
    BY <1>8 DEF ReadMac, MountModule, Step, bus
  <2> QED  BY <1>8, <2>1, WhereCalled, QuietBusStep
<1>9. CASE simple_kmalloc
  <2>1. Quiet
    BY <1>9 DEF simple_kmalloc, Step, bus
  <2>2. at \in 15 .. 17 /\ at' = at + 1
    BY <1>9, WhereCalled
  <2> QED  BY <2>1, <2>2, QuietBusStep
<1>10. CASE EnableInterrupts
  <2>1. Quiet
    BY <1>10 DEF EnableInterrupts, Step, bus
  <2> QED  BY <1>10, <2>1, WhereCalled, QuietBusStep
<1>11. CASE lspci
  BY <1>11, ListStep
<1>12. CASE Stopped \/ UNCHANGED bootVars
  <2>1. Quiet /\ at' = at
    BY <1>12 DEF Stopped, bootVars, bus
  <2> QED  BY <2>1, QuietBusStep
<1> QED
  BY <1>1, <1>2, <1>3, <1>4, <1>5, <1>6, <1>7, <1>8, <1>9, <1>10, <1>11, <1>12
     DEF BootNext

(* Whatever is on the bus, the two scans agree with it: lspci shows what    *)
(* there is, and the kernel that has come to the shell knows its adapter    *)
(* (pci.c:44-64, 103-119).                                                  *)
THEOREM ScansCorrect == BootSpec => []ScansAgree
<1>1. ServedInv /\ BusInv => ScansAgree
  <2>1. Len(Order) = 20
    BY StepNames
  <2> QED  BY <2>1 DEF ServedInv, BusInv, ScansAgree
<1>2. ServedInv => at \in 0 .. 20
  BY DEF ServedInv
<1>3. ServedInv /\ BusInv /\ [BootNext]_bootVars => BusInv'
  BY <1>2, BusStep
<1> QED  BY <1>1, <1>3, InitServed, ServedStep, InitBus, PTL DEF BootSpec

-----------------------------------------------------------------------------
(* The types.  Those of the tables the processor uses.                      *)
CpuType ==
  /\ gdt \in BOOLEAN /\ interrupts \in BOOLEAN /\ mac \in BOOLEAN
  /\ gates \subseteq Vectors
  /\ interrupt_handlers \in [Vectors -> Handlers]

LEMMA InitCpuType == BootInit => CpuType
BY DEF BootInit, CpuType, Handlers

LEMMA CpuTypeStep == CpuType /\ [BootNext]_bootVars => CpuType'
<1> SUFFICES ASSUME CpuType, [BootNext]_bootVars PROVE CpuType'
  OBVIOUS
<1>1. ASSUME UNCHANGED <<cpu, mac>> PROVE CpuType'
  BY <1>1 DEF CpuType, cpu
<1>2. CASE gdt_initialize \/ idt_initialize \/ EnableInterrupts
  <2>1. mac' = mac /\ interrupt_handlers' = interrupt_handlers
    BY <1>2 DEF gdt_initialize, idt_initialize, EnableInterrupts, bus
  <2>2. gdt' \in BOOLEAN /\ interrupts' \in BOOLEAN /\ gates' \subseteq Vectors
    BY <1>2 DEF gdt_initialize, idt_initialize, EnableInterrupts, CpuType
  <2> QED  BY <2>1, <2>2 DEF CpuType
<1>3. CASE isr_initialize
  <2>1. UNCHANGED <<mac, gdt, interrupts>>
    BY <1>3 DEF isr_initialize, bus
  <2>2. gates' \subseteq Vectors
    BY <1>3 DEF isr_initialize, Vectors
  <2>3. interrupt_handlers' \in [Vectors -> Handlers]
    BY <1>3 DEF isr_initialize, Handlers
  <2> QED  BY <2>1, <2>2, <2>3 DEF CpuType
<1>4. CASE Register
  <2>1. PICK n \in {32, 33, 128},
             h \in {"pit_callback", "keyboard_callback", "syscall_handler"} :
               register_interrupt_handler(n, h)
    BY <1>4 DEF Register
  <2> QED  BY <2>1 DEF register_interrupt_handler, bus, CpuType, Vectors, Handlers
<1>5. CASE ReadMac
  <2>1. mac' \in BOOLEAN
    BY <1>5, Zenon DEF ReadMac, Reached
  <2> QED  BY <1>5, <2>1 DEF ReadMac, cpu, CpuType
<1>6. CASE CheckMagic \/ InitializeMemory \/ vmm_initialize
  BY <1>1, <1>6 DEF CheckMagic, InitializeMemory, vmm_initialize, bus
<1>7. CASE FindAdapter \/ MapRegisters \/ MountModule
  BY <1>1, <1>7 DEF FindAdapter, MapRegisters, MountModule, bus
<1>8. CASE simple_kmalloc \/ lspci
  BY <1>1, <1>8 DEF simple_kmalloc, lspci, bus
<1>9. CASE Stopped \/ UNCHANGED bootVars
  BY <1>1, <1>9 DEF Stopped, bootVars, bus
<1> QED
  BY <1>2, <1>3, <1>4, <1>5, <1>6, <1>7, <1>8, <1>9 DEF BootNext

-----------------------------------------------------------------------------
(* Those of the memory: the block allocator makes the same steps as on its  *)
(* own, and there is paging only with a directory.                          *)
MemoryType ==
  /\ TypeOK
  /\ page_directory \in Block
  /\ paging \in BOOLEAN
  /\ \A p \in DOMAIN asked : asked[p] \in Entry
  /\ trouble \subseteq {"lost", "null", "fault"}
  /\ at \in {9, 10} \/ paging => page_directory # NULL

LEMMA InitMemoryType == BootInit => MemoryType
<1>1. BootInit => TypeOK
  BY InitType DEF BootInit
<1>2. NULL \in Block
  BY Constants
<1>3. ASSUME BootInit PROVE \A p \in DOMAIN asked : asked[p] \in Entry
  <2>1. DOMAIN asked = {}
    BY <1>3 DEF BootInit, VmmInit
  <2> QED  BY <2>1
<1>4. BootInit => at = 1 /\ page_directory = NULL /\ trouble = {}
  BY DEF BootInit, VmmInit
<1>5. BootInit => paging \in BOOLEAN /\ ~paging
  BY Zenon DEF BootInit, VmmInit
<1> QED  BY <1>1, <1>2, <1>3, <1>4, <1>5 DEF MemoryType

LEMMA AllocType ==
  ASSUME TypeOK, pmm_alloc_block
  PROVE  TypeOK'
BY TypeStep DEF Next

LEMMA SameType ==
  ASSUME TypeOK, UNCHANGED <<mbi, pmmVars>>
  PROVE  TypeOK'
BY DEF TypeOK, pmmVars

LEMMA MapPageType ==
  ASSUME MemoryType, NEW phys \in Block, NEW virt \in Block,
         NEW flags \in SUBSET {"WRITABLE", "USER"},
         vmm_map_page(phys, virt, flags),
         at \notin {9, 10} => at' \notin {9, 10}
  PROVE  MemoryType'
<1>1. PageEntry(phys, flags) \in Entry
  BY DEF PageEntry, Entry
<1>2. \A p \in DOMAIN asked' : asked'[p] \in Entry
  BY <1>1 DEF vmm_map_page, MemoryType
<1>3. UNCHANGED <<mbi, page_directory, paging>>
  BY DEF vmm_map_page
<1>4. /\ UNCHANGED pmmVars \/ pmm_alloc_block
      /\ trouble' = trouble \/ \E kind \in {"lost", "null", "fault"} : Trouble(kind)
  BY DEF vmm_map_page, InOldTable, InNewTable
<1>5. TypeOK'
  BY <1>3, <1>4, AllocType, SameType DEF MemoryType
<1>6. trouble' \subseteq {"lost", "null", "fault"}
  BY <1>4 DEF Trouble, MemoryType
<1> QED  BY <1>2, <1>3, <1>5, <1>6 DEF MemoryType

LEMMA QuietMemoryType ==
  ASSUME MemoryType, UNCHANGED <<mbi, pmmVars, page_directory, paging, asked>>,
         trouble' \subseteq trouble \cup {"fault"},
         at \notin {9, 10} => at' \notin {9, 10}
  PROVE  MemoryType'
BY SameType DEF MemoryType

LEMMA MemoryTypeStep ==
  ASSUME BootInv, MemoryType, [BootNext]_bootVars
  PROVE  MemoryType'
<1> DEFINE Quiet == /\ UNCHANGED <<mbi, pmmVars, page_directory, paging, asked>>
                    /\ trouble' \subseteq trouble \cup {"fault"}
<1>0. at \in 0 .. 20 /\ i \in Nat
  BY DEF BootInv
<1>1. CASE CheckMagic
  <2>1. Quiet
    BY <1>1 DEF CheckMagic, memory, vmmVars
  <2> QED  BY <1>0, <1>1, <2>1, WhereCalled, QuietMemoryType
<1>2. CASE gdt_initialize \/ idt_initialize \/ isr_initialize
  <2>1. Quiet
    BY <1>2 DEF gdt_initialize, idt_initialize, isr_initialize, memory, vmmVars
  <2> QED  BY <1>0, <1>2, <2>1, WhereCalled, QuietMemoryType
<1>3. CASE Register
  <2>1. Quiet
    BY <1>3 DEF Register, register_interrupt_handler, memory, vmmVars
  <2>2. at \in {5, 6, 18} /\ at' = at + 1
    BY <1>0, <1>3, WhereCalled
  <2> QED  BY <2>1, <2>2, QuietMemoryType
<1>4. CASE InitializeMemory
  <2>1. TypeOK'
    BY <1>4, TypeStep DEF InitializeMemory, Next, MemoryType
  <2>2. UNCHANGED <<page_directory, paging, asked, trouble>> /\ at' = 8
    BY <1>0, <1>4, WhereCalled DEF InitializeMemory, vmmVars
  <2> QED  BY <2>1, <2>2 DEF MemoryType
<1>5. CASE vmm_initialize
  <2>1. CASE Step("directory") /\ AllocateDirectory
             /\ at' = IF returned' = NULL THEN Number("find") ELSE at + 1
    <3>1. TypeOK' /\ page_directory' = returned' /\ UNCHANGED <<paging, asked, trouble>>
      BY <2>1, AllocType DEF AllocateDirectory, MemoryType
    <3>2. at = 8 /\ (at' \in {9, 10} => returned' # NULL)
      BY <1>0, <2>1, StepNames, Numbers DEF Step
    <3>3. page_directory' \in Block
      BY <3>1 DEF TypeOK
    <3>4. ~paging
      <4>1. page_directory = NULL
        BY <3>2 DEF BootInv
      <4> QED  BY <4>1 DEF MemoryType
    <3> QED  BY <3>1, <3>2, <3>3, <3>4 DEF MemoryType
  <2>2. CASE Step("identity") /\ vmm_map_page(i, i, {"WRITABLE", "USER"})
    <3>1. at = 9
      BY <1>0, <2>2, StepNames DEF Step
    <3>2. i \in Block
      BY <3>1, VmmAssumption DEF BootInv
    <3> QED  BY <2>2, <3>1, <3>2, MapPageType
  <2>3. CASE Step("paging") /\ Done /\ vmm_enable_paging
    <3>1. at = 10 /\ at' = 11
      BY <1>0, <2>3, StepNames DEF Step, Done
    <3>2. /\ paging' \in BOOLEAN /\ UNCHANGED <<mbi, pmmVars, page_directory, asked>>
          /\ trouble' \subseteq trouble \cup {"fault"}
      BY <2>3 DEF vmm_enable_paging, Trouble
    <3>3. TypeOK'
      BY <3>2, SameType DEF MemoryType
    <3> QED  BY <3>1, <3>2, <3>3 DEF MemoryType
  <2> QED  BY <1>5, <2>1, <2>2, <2>3 DEF vmm_initialize
<1>6. CASE FindAdapter
  <2>1. Quiet
    BY <1>6 DEF FindAdapter, memory, vmmVars
  <2> QED  BY <1>0, <1>6, <2>1, WhereCalled, QuietMemoryType
<1>7. CASE MapRegisters
  <2>1. machine.bar \in Nat /\ ENTRIES * ENTRIES \in Nat \ {0}
    BY BootAssumption, VmmAssumption DEF BootInv
  <2>2. RegisterPage(machine.bar, i) \in Block
    BY <1>0, <2>1, VmmAssumption DEF RegisterPage
  <2>3. at = 12 /\ at' \in {12, 13}
    BY <1>0, <1>7, WhereCalled
  <2> QED  BY <1>7, <2>2, <2>3, MapPageType DEF MapRegisters
<1>8. CASE ReadMac \/ MountModule
  <2>1. Quiet
    BY <1>8 DEF ReadMac, MountModule, FaultUnless
  <2> QED  BY <1>0, <1>8, <2>1, WhereCalled, QuietMemoryType
<1>9. CASE simple_kmalloc
  <2>1. /\ TypeOK' /\ UNCHANGED <<page_directory, paging, asked>>
        /\ trouble' \subseteq trouble \cup {"null", "fault"}
    BY <1>9, AllocType DEF simple_kmalloc, MemoryType
  <2>2. at \in 15 .. 17 /\ at' = at + 1
    BY <1>0, <1>9, WhereCalled
  <2> QED  BY <2>1, <2>2 DEF MemoryType
<1>10. CASE EnableInterrupts \/ lspci
  <2>1. Quiet
    BY <1>10 DEF EnableInterrupts, lspci, memory, vmmVars
  <2> QED  BY <1>0, <1>10, <2>1, WhereCalled, QuietMemoryType
<1>11. CASE Stopped \/ UNCHANGED bootVars
  <2>1. Quiet /\ at' = at
    BY <1>11 DEF Stopped, bootVars, memory, vmmVars
  <2> QED  BY <2>1, QuietMemoryType
<1> QED
  BY <1>1, <1>2, <1>3, <1>4, <1>5, <1>6, <1>7, <1>8, <1>9, <1>10, <1>11 DEF BootNext

-----------------------------------------------------------------------------
(* Those of the loops and of the three blocks process.c asks for.           *)
CallsType ==
  /\ i \in Nat
  /\ at = 9 => i < IDENTITY
  /\ at = 12 => i < MMIO
  /\ at \notin {9, 12} => i = 0
  /\ kmalloced \in Seq(Block)
  /\ at <= 15 => Len(kmalloced) = 0
  /\ at = 16 => Len(kmalloced) = 1
  /\ at = 17 => Len(kmalloced) = 2
  /\ at >= 18 => Len(kmalloced) = 3

LEMMA InitCallsType == BootInit => CallsType
BY EmptySeq DEF BootInit, CallsType

LEMMA QuietCallsType ==
  ASSUME CallsType, UNCHANGED <<i, kmalloced>>,
         at \in 0 .. 20, at # 9, at # 12, at' \in 0 .. 20,
         (at <= 15 /\ at' <= 15) \/ (at >= 18 /\ at' >= 18)
  PROVE  CallsType'
<1>1. i' = 0 /\ kmalloced' \in Seq(Block)
  BY DEF CallsType
<1>2. IDENTITY \in Nat \ {0} /\ MMIO \in Nat \ {0}
  BY VmmAssumption, BootAssumption
<1>3. CASE at <= 15 /\ at' <= 15
  BY <1>1, <1>2, <1>3 DEF CallsType
<1>4. CASE at >= 18 /\ at' >= 18
  BY <1>1, <1>2, <1>4 DEF CallsType
<1> QED  BY <1>3, <1>4

LEMMA LoopCallsType ==
  ASSUME CallsType, UNCHANGED kmalloced, at <= 15, at \in {9, 12}, NEW bound \in Nat,
         i < bound, at = 9 => bound = IDENTITY, at = 12 => bound = MMIO,
         Loop(bound)
  PROVE  CallsType'
<1>1. CASE i + 1 = bound
  BY <1>1 DEF Loop, CallsType
<1>2. CASE i + 1 # bound
  <2>1. i' = i + 1 /\ at' = at /\ i \in Nat
    BY <1>2 DEF Loop, CallsType
  <2>2. i' \in Nat /\ i' < bound
    BY <1>2, <2>1
  <2> QED  BY <2>1, <2>2 DEF CallsType
<1> QED  BY <1>1, <1>2

LEMMA CallsTypeStep ==
  ASSUME at \in 0 .. 20, TypeOK', CallsType, [BootNext]_bootVars
  PROVE  CallsType'
<1>1. CASE CheckMagic
  <2>1. at = 1 /\ at' \in {0, 2} /\ UNCHANGED <<i, kmalloced>>
    BY <1>1, WhereCalled DEF CheckMagic
  <2> QED  BY <2>1, QuietCallsType
<1>2. CASE gdt_initialize \/ idt_initialize \/ isr_initialize
  <2>1. at \in 2 .. 4 /\ at' = at + 1
    BY <1>2, WhereCalled
  <2>2. UNCHANGED <<i, kmalloced>>
    BY <1>2 DEF gdt_initialize, idt_initialize, isr_initialize, Done
  <2> QED  BY <2>1, <2>2, QuietCallsType
<1>3. CASE Register
  <2>1. at \in {5, 6, 18} /\ at' = at + 1
    BY <1>3, WhereCalled
  <2>2. UNCHANGED <<i, kmalloced>>
    BY <1>3 DEF Register, register_interrupt_handler, Done
  <2> QED  BY <2>1, <2>2, QuietCallsType
<1>4. CASE InitializeMemory
  <2>1. at = 7 /\ at' = 8 /\ UNCHANGED <<i, kmalloced>>
    BY <1>4, WhereCalled DEF InitializeMemory, Done
  <2> QED  BY <2>1, QuietCallsType
<1>5. CASE vmm_initialize
  <2>0. UNCHANGED kmalloced
    BY <1>5 DEF vmm_initialize
  <2>1. CASE Step("directory") /\ UNCHANGED i
             /\ at' = IF returned' = NULL THEN Number("find") ELSE at + 1
    <3>1. at = 8 /\ at' \in {9, 11}
      BY <2>1, StepNames, Numbers DEF Step
    <3> QED  BY <2>0, <2>1, <3>1, QuietCallsType
  <2>2. CASE Step("identity") /\ Loop(IDENTITY)
    <3>1. at = 9
      BY <2>2, StepNames DEF Step
    <3>2. IDENTITY \in Nat /\ i < IDENTITY
      BY <3>1, VmmAssumption DEF CallsType
    <3> QED  BY <2>0, <2>2, <3>1, <3>2, LoopCallsType
  <2>3. CASE Step("paging") /\ Done
    <3>1. at = 10 /\ at' = 11 /\ UNCHANGED i
      BY <2>3, StepNames DEF Step, Done
    <3> QED  BY <2>0, <3>1, QuietCallsType
  <2> QED  BY <1>5, <2>1, <2>2, <2>3 DEF vmm_initialize
<1>6. CASE FindAdapter
  <2>1. at = 11 /\ at' \in {12, 14} /\ UNCHANGED <<i, kmalloced>>
    BY <1>6, WhereCalled DEF FindAdapter
  <2> QED  BY <2>1, QuietCallsType
<1>7. CASE MapRegisters
  <2>1. at = 12 /\ Loop(MMIO) /\ UNCHANGED kmalloced
    BY <1>7, WhereCalled DEF MapRegisters
  <2>2. MMIO \in Nat /\ i < MMIO
    BY <2>1, BootAssumption DEF CallsType
  <2> QED  BY <2>1, <2>2, LoopCallsType
<1>8. CASE ReadMac \/ MountModule
  <2>1. at \in {13, 14} /\ at' = at + 1
    BY <1>8, WhereCalled
  <2>2. UNCHANGED <<i, kmalloced>>
    BY <1>8 DEF ReadMac, MountModule, Done
  <2> QED  BY <2>1, <2>2, QuietCallsType
<1>9. CASE simple_kmalloc
  <2>1. at \in 15 .. 17 /\ at' = at + 1
    BY <1>9, WhereCalled
  <2>2. i' = i /\ kmalloced' = Append(kmalloced, returned') /\ returned' \in Block
    BY <1>9 DEF simple_kmalloc, Done, TypeOK
  <2>3. kmalloced' \in Seq(Block) /\ Len(kmalloced') = Len(kmalloced) + 1
    BY <2>2, AppendProperties DEF CallsType
  <2> QED  BY <2>1, <2>2, <2>3 DEF CallsType
<1>10. CASE EnableInterrupts \/ lspci
  <2>1. at \in {19, 20} /\ at' = 20
    BY <1>10, WhereCalled
  <2>2. UNCHANGED <<i, kmalloced>>
    BY <1>10 DEF EnableInterrupts, lspci, Done
  <2> QED  BY <2>1, <2>2, QuietCallsType
<1>11. CASE Stopped \/ UNCHANGED bootVars
  <2>1. UNCHANGED <<at, i, kmalloced>>
    BY <1>11 DEF Stopped, bootVars
  <2> QED  BY <2>1 DEF CallsType
<1> QED
  BY <1>1, <1>2, <1>3, <1>4, <1>5, <1>6, <1>7, <1>8, <1>9, <1>10, <1>11 DEF BootNext

-----------------------------------------------------------------------------
TypeInv ==
  ServedInv /\ BootInv /\ BusInv /\ CpuType /\ MemoryType /\ CallsType

LEMMA TypeInvStep == TypeInv /\ [BootNext]_bootVars => TypeInv'
<1> SUFFICES ASSUME TypeInv, [BootNext]_bootVars PROVE TypeInv'
  OBVIOUS
<1>1. at \in 0 .. 20
  BY DEF TypeInv, ServedInv
<1>2. ServedInv' /\ BootInv' /\ BusInv' /\ CpuType'
  BY <1>1, ServedStep, BootStep, BusStep, CpuTypeStep DEF TypeInv
<1>3. MemoryType'
  BY MemoryTypeStep DEF TypeInv
<1>4. CallsType'
  <2>1. TypeOK'
    BY <1>3 DEF MemoryType
  <2> QED  BY <1>1, <2>1, CallsTypeStep DEF TypeInv
<1> QED  BY <1>2, <1>3, <1>4 DEF TypeInv

LEMMA TypeInvIsType == TypeInv => BootTypeOK
<1> SUFFICES ASSUME TypeInv PROVE BootTypeOK
  OBVIOUS
<1>1. VmmTypeOK
  BY DEF TypeInv, BootInv, MapInv, TablesInv, DirectoryInv, AskedInv, MemoryType, VmmTypeOK
<1>2. machine \in Machines /\ DOMAIN command = Places(machine.slots)
      /\ command \in [Places(machine.slots) -> SUBSET {"memory", "master"}]
  BY DEF TypeInv, BusInv
<1>3. at \in 0 .. Len(Order) /\ i \in 0 .. IDENTITY + MMIO
  <2>1. Len(Order) = 20 /\ IDENTITY \in Nat /\ MMIO \in Nat
    BY StepNames, VmmAssumption, BootAssumption
  <2> QED  BY <2>1 DEF TypeInv, BootInv, CallsType
<1>4. adapter \subseteq DOMAIN command /\ Cardinality(adapter) <= 1
  <2>1. CASE at <= 11
    BY <2>1, FS_EmptySet DEF TypeInv, BusInv
  <2>2. CASE at > 11
    BY <1>2, <2>2, FirstIsOne DEF TypeInv, BusInv, FirstReal
  <2> QED  BY <2>1, <2>2 DEF TypeInv, BootInv
<1>5. listed \in Seq(DOMAIN command)
  BY <1>2, InOrderType, EmptySeq DEF TypeInv, BusInv
<1>6. kmalloced \in Seq(Block) /\ Len(kmalloced) <= 3
  <2>1. at \in 0 .. 20 /\ kmalloced \in Seq(Block)
    BY DEF TypeInv, BootInv, CallsType
  <2>2. at <= 15 \/ at = 16 \/ at = 17 \/ at >= 18
    BY <2>1
  <2>3. \E n \in 0 .. 3 : Len(kmalloced) = n
    BY <2>2 DEF TypeInv, CallsType
  <2> QED  BY <2>1, <2>3
<1>7. /\ gdt \in BOOLEAN /\ gates \subseteq Vectors /\ interrupts \in BOOLEAN
      /\ interrupt_handlers \in [Vectors -> Handlers]
      /\ e1000_found \in BOOLEAN /\ mac \in BOOLEAN /\ TypeOK
  BY DEF TypeInv, CpuType, BusInv, MemoryType
<1> QED  BY <1>1, <1>2, <1>3, <1>4, <1>5, <1>6, <1>7 DEF BootTypeOK

(* Whatever the memory and the bus, also when blocks run out: tables of     *)
(* whole entries in blocks of their own, paging only with a directory, one  *)
(* adapter at most, three calls of simple_kmalloc.                          *)
THEOREM BootTypeCorrect == BootSpec => []BootTypeOK
<1>1. BootInit => TypeInv
  BY InitServed, InitBoot, InitBus, InitCpuType, InitMemoryType, InitCallsType DEF TypeInv
<1> QED  BY <1>1, TypeInvStep, TypeInvIsType, PTL DEF BootSpec
=============================================================================
