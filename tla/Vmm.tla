-------------------------------- MODULE Vmm --------------------------------
(***************************************************************************)
(* memory/vmm.c: the page directory and its tables, in blocks of the       *)
(* physical memory manager.  The code reaches them at their physical       *)
(* address, also when paging is on.  A page is numbered as its block is.   *)
(***************************************************************************)
EXTENDS Pmm

CONSTANTS
  ENTRIES,   (* of a directory or a table (1024)                            *)
  IDENTITY   (* the pages vmm_initialize maps to themselves (4096)          *)

ASSUME VmmAssumption ==
  /\ ENTRIES \in Nat \ {0}
  /\ Block = 0 .. ENTRIES * ENTRIES - 1
  /\ IDENTITY \in Block \ {0}
  (* A bitmap of whole bytes and regions of whole blocks: no block that is  *)
  (* given out holds a part of the bitmap (Pmm has the other cases).        *)
  /\ \A b \in BootInfo :
       /\ (b.mem \div PMM_BLOCK_SIZE) % BITS = 0
       /\ \A r \in DOMAIN b.mmap : b.mmap[r].available => b.mmap[r].addr % PMM_BLOCK_SIZE = 0

Index == 0 .. ENTRIES - 1
Entry == [frame : Block, flags : SUBSET {"PRESENT", "WRITABLE", "USER"}]
Absent == [frame |-> NULL, flags |-> {}]
Empty == [i \in Index |-> Absent]

VARIABLES
  page_directory,
  tables,          (* the entries of the blocks that hold them              *)
  paging,
  asked,           (* the entry vmm_map_page was last asked for, of each    *)
                   (* page it was called for                                *)
  trouble          (* what went wrong so far: "lost", a mapping that was    *)
                   (* not made; "null", an access through a null pointer;   *)
                   (* "fault", a page fault, which nobody handles           *)

pmmVars == <<pmm_bitmap, pmm_max_blocks, pmm_used_blocks, initialized, held, returned>>
vmmVars == <<page_directory, tables, paging, asked, trouble>>

VmmTypeOK ==
  /\ page_directory \in Block
  /\ DOMAIN tables \subseteq Block
  /\ \A t \in DOMAIN tables : tables[t] \in [Index -> Entry]
  /\ paging \in BOOLEAN
  /\ DOMAIN asked \subseteq Block
  /\ \A p \in DOMAIN asked : asked[p] \in Entry
  /\ trouble \subseteq {"lost", "null", "fault"}
  /\ paging => page_directory \in DOMAIN tables

VmmInit ==
  /\ page_directory = NULL
  /\ tables = [t \in {} |-> Empty]
  /\ paging = FALSE
  /\ asked = [p \in {} |-> Absent]
  /\ trouble = {}

-----------------------------------------------------------------------------
Present(entry) == "PRESENT" \in entry.flags

(* What the processor finds for page p: the frame of the table's entry with *)
(* the rights both entries give.                                            *)
Translation(p) ==
  LET pde == tables[page_directory][p \div ENTRIES]
      pte == tables[pde.frame][p % ENTRIES]
  IN  IF Present(pde) /\ Present(pte)
        THEN [frame |-> pte.frame, flags |-> pde.flags \cap pte.flags]
        ELSE Absent

(* The code reaches physical block b at its own address.                    *)
Reached(b) == paging => Present(Translation(b)) /\ Translation(b).frame = b

Trouble(kind) == trouble' = trouble \cup {kind}

WithTable(t) ==
  [b \in DOMAIN tables \cup {t} |-> IF b = t THEN Empty ELSE tables[b]]

(* (The rights of the first page are forgotten.) *)
WritableOnly(flags) == {"PRESENT", "WRITABLE"}

DirectoryFlags(flags) == flags \cup {"PRESENT"}

PageEntry(phys, flags) == [frame |-> phys, flags |-> flags \cup {"PRESENT"}]

(* A table there is, or a new one; without a block for it the page is       *)
(* silently not mapped.                                                     *)
InOldTable(phys, virt, flags) ==
  LET pde == tables[page_directory][virt \div ENTRIES]
  IN  /\ Present(pde)
      /\ UNCHANGED pmmVars
      /\ IF Reached(pde.frame)
           THEN /\ tables' = [tables EXCEPT ![pde.frame][virt % ENTRIES] =
                                PageEntry(phys, flags)]
                /\ UNCHANGED trouble
           ELSE Trouble("fault") /\ UNCHANGED tables

InNewTable(phys, virt, flags) ==
  /\ ~Present(tables[page_directory][virt \div ENTRIES])
  /\ pmm_alloc_block
  /\ IF returned' = NULL THEN Trouble("lost") /\ UNCHANGED tables
     ELSE IF ~Reached(returned') THEN Trouble("fault") /\ UNCHANGED tables
     ELSE /\ tables' =
               [WithTable(returned') EXCEPT
                  ![page_directory][virt \div ENTRIES] =
                    [frame |-> returned', flags |-> DirectoryFlags(flags)],
                  ![returned'][virt % ENTRIES] = PageEntry(phys, flags)]
          /\ UNCHANGED trouble

vmm_map_page(phys, virt, flags) ==
  /\ asked' = [p \in DOMAIN asked \cup {virt} |->
                 IF p = virt THEN PageEntry(phys, flags) ELSE asked[p]]
  /\ \/ /\ page_directory = NULL
        /\ Trouble("null")
        /\ UNCHANGED <<pmmVars, tables>>
     \/ /\ page_directory # NULL
        /\ ~Reached(page_directory)
        /\ Trouble("fault")
        /\ UNCHANGED <<pmmVars, tables>>
     \/ /\ page_directory # NULL
        /\ Reached(page_directory)
        /\ InOldTable(phys, virt, flags) \/ InNewTable(phys, virt, flags)
  /\ UNCHANGED <<mbi, page_directory, paging>>

(* vmm_initialize: a block for the directory, ...                           *)
AllocateDirectory ==
  /\ pmm_alloc_block
  /\ page_directory' = returned'
  /\ tables' = IF returned' = NULL THEN tables ELSE WithTable(returned')
  /\ UNCHANGED <<paging, asked, trouble>>

(* ... IDENTITY calls of vmm_map_page, and paging: a kernel that is not     *)
(* mapped cannot go on.                                                     *)
vmm_enable_paging ==
  /\ paging' = TRUE
  /\ IF \A p \in 0 .. (kernel_end - 1) \div PMM_BLOCK_SIZE :
          Present(Translation(p)) /\ Translation(p).frame = p
       THEN UNCHANGED trouble
       ELSE Trouble("fault")
  /\ UNCHANGED <<mbi, pmmVars, page_directory, tables, asked>>

-----------------------------------------------------------------------------
(* The processor finds for every page what the last call for it asked for,  *)
(* the frame and the rights: the rights of a directory entry are those of   *)
(* the first page mapped through it, and every table is a block that        *)
(* nothing else writes to.  Once memory has run out, a page may be missing, *)
(* but it is never translated in another way, also when its table is        *)
(* allocated later (vmm.c:18-32).                                           *)
TranslationIsAsked ==
  page_directory # NULL /\ "fault" \notin trouble =>
    \A p \in DOMAIN asked :
      \/ Translation(p) = asked[p]
      \/ "lost" \in trouble /\ Translation(p) = Absent
=============================================================================
