-------------------------------- MODULE Boot --------------------------------
(***************************************************************************)
(* kernel_main, from the boot loader to the shell, over the memory of Vmm  *)
(* and Pmm and the bus of Pci.  Interrupts are off and nothing runs beside *)
(* it, so one call is one step, and the loops that map pages make one step *)
(* for each page.  What can go wrong is memory: too little, or too high.   *)
(***************************************************************************)
EXTENDS Vmm, Pci

CONSTANTS
  Machines,  (* slots, what is on the bus, bar, the page where the network  *)
             (* adapter's registers start, and magic, that the boot loader  *)
             (* is one the kernel knows                                     *)
  E1000,     (* the vendor and device e1000_initialize looks for            *)
  MMIO,      (* the pages of registers it maps (256)                        *)
  RAL        (* the page among them that has the hardware address (5)       *)

Page(address) == address \div PMM_BLOCK_SIZE
RegisterPage(bar, k) == (bar + k) % (ENTRIES * ENTRIES)

ASSUME BootAssumption ==
  /\ MMIO \in Nat \ {0} /\ RAL \in 0 .. MMIO - 1
  /\ E1000 # NoDevice
  /\ \A m \in Machines :
       /\ m.magic \in BOOLEAN /\ m.bar \in Block
       /\ m.slots \in Seq(ToSet(m.slots))
       /\ \A s \in DOMAIN m.slots :
            m.slots[s].multi \in BOOLEAN /\ DOMAIN m.slots[s].functions = Function
       (* The registers are behind the identity map.                        *)
       /\ \A k \in 0 .. MMIO - 1 : RegisterPage(m.bar, k) >= IDENTITY

(* (The table of handlers is cleared after two have registered.) *)
OrderSwapped ==
  <<"magic", "gdt", "idt", "pit", "keyboard", "isr",
    "pmm", "directory", "identity", "paging", "find", "mmio", "mac",
    "modules", "process", "pcb", "stack", "syscall", "sti", "shell">>

(* The order of kernel_main, with the loops and calls inside                *)
(* vmm_initialize, e1000_initialize and process_create_thread.              *)
Order ==
  <<"magic", "gdt", "idt", "isr", "pit", "keyboard",
    "pmm", "directory", "identity", "paging", "find", "mmio", "mac",
    "modules", "process", "pcb", "stack", "syscall", "sti", "shell">>

Number(step) == CHOOSE n \in DOMAIN Order : Order[n] = step

Vectors == 0 .. 255
Handlers == {"none", "pit_callback", "keyboard_callback", "syscall_handler"}

VARIABLES
  machine,
  at, i,               (* the step of Order, the page of its loop           *)
  gdt, gates,          (* the loaded table, the vectors that have a gate    *)
  interrupt_handlers,
  interrupts,          (* sti was executed                                  *)
  command,             (* the command register of every place on the bus    *)
  adapter, e1000_found, mac,
  kmalloced,           (* what simple_kmalloc returned                      *)
  listed               (* what lspci showed                                 *)

cpu == <<gdt, gates, interrupt_handlers, interrupts>>
bus == <<command, adapter, e1000_found, mac, listed>>
memory == <<pmmVars, vmmVars>>
bootVars == <<mbi, machine, at, i, cpu, bus, memory, kmalloced>>

BootTypeOK ==
  /\ TypeOK /\ VmmTypeOK
  /\ machine \in Machines
  /\ at \in 0 .. Len(Order) /\ i \in 0 .. IDENTITY + MMIO
  /\ gdt \in BOOLEAN /\ gates \subseteq Vectors /\ interrupts \in BOOLEAN
  /\ interrupt_handlers \in [Vectors -> Handlers]
  /\ command \in [Places(machine.slots) -> SUBSET {"memory", "master"}]
  /\ adapter \subseteq DOMAIN command /\ Cardinality(adapter) <= 1
  /\ e1000_found \in BOOLEAN /\ mac \in BOOLEAN
  /\ kmalloced \in Seq(Block) /\ Len(kmalloced) <= 3
  /\ listed \in Seq(DOMAIN command)

-----------------------------------------------------------------------------
Step(name) ==
  /\ at > 0 /\ Order[at] = name
  /\ "fault" \notin trouble
  /\ UNCHANGED machine

Done == at' = at + 1 /\ UNCHANGED i

(* (The last page is left out.) *)
LoopTooShort(bound) ==
  IF i + 2 = bound THEN at' = at + 1 /\ i' = 0 ELSE at' = at /\ i' = i + 1

Loop(bound) ==
  IF i + 1 = bound THEN at' = at + 1 /\ i' = 0 ELSE at' = at /\ i' = i + 1

(* A boot loader that left another number in EAX: kernel_main returns to    *)
(* boot.s, which halts.                                                     *)
CheckMagic ==
  /\ Step("magic")
  /\ at' = IF machine.magic THEN at + 1 ELSE 0
  /\ UNCHANGED <<mbi, i, cpu, bus, memory, kmalloced>>

gdt_initialize ==
  /\ Step("gdt") /\ Done
  /\ gdt' = TRUE
  /\ UNCHANGED <<mbi, gates, interrupt_handlers, interrupts, bus, memory, kmalloced>>

idt_initialize ==
  /\ Step("idt") /\ Done
  /\ gates' = {}
  /\ UNCHANGED <<mbi, gdt, interrupt_handlers, interrupts, bus, memory, kmalloced>>

isr_initialize ==
  /\ Step("isr") /\ Done
  /\ gates' = (0 .. 47) \cup {128}
  /\ interrupt_handlers' = [n \in Vectors |-> "none"]
  /\ UNCHANGED <<mbi, gdt, interrupts, bus, memory, kmalloced>>

register_interrupt_handler(n, handler) ==
  /\ interrupt_handlers' = [interrupt_handlers EXCEPT ![n] = handler]
  /\ UNCHANGED <<mbi, gdt, gates, interrupts, bus, memory, kmalloced>>

Register ==
  /\ Done
  /\ \/ Step("pit") /\ register_interrupt_handler(32, "pit_callback")
     \/ Step("keyboard") /\ register_interrupt_handler(33, "keyboard_callback")
     \/ Step("syscall") /\ register_interrupt_handler(128, "syscall_handler")

InitializeMemory ==
  /\ Step("pmm") /\ Done
  /\ pmm_initialize
  /\ UNCHANGED <<vmmVars, cpu, bus, kmalloced>>

(* Without a block for the directory vmm_initialize returns.                *)
vmm_initialize ==
  /\ \/ /\ Step("directory")
        /\ AllocateDirectory
        /\ at' = IF returned' = NULL THEN Number("find") ELSE at + 1
        /\ UNCHANGED i
     \/ /\ Step("identity") /\ Loop(IDENTITY)
        /\ vmm_map_page(i, i, {"WRITABLE", "USER"})
     \/ /\ Step("paging") /\ Done
        /\ vmm_enable_paging
  /\ UNCHANGED <<cpu, bus, kmalloced>>

(* e1000_initialize: the adapter, if there is one, may use the bus, ...     *)
pci_enable_bus_mastering(places) ==
  command' = [p \in DOMAIN command |->
                IF p \in places THEN command[p] \cup {"master"} ELSE command[p]]

FindAdapter ==
  /\ Step("find")
  /\ adapter' = pci_find_device(machine.slots, E1000)
  /\ e1000_found' = (adapter' # {})
  /\ pci_enable_bus_mastering(adapter')
  /\ at' = IF e1000_found' THEN at + 1 ELSE Number("modules")
  /\ UNCHANGED <<mbi, i, cpu, mac, listed, memory, kmalloced>>

(* ... its registers are mapped, ...                                        *)
MapRegisters ==
  /\ Step("mmio") /\ Loop(MMIO)
  /\ LET page == RegisterPage(machine.bar, i)
     IN  vmm_map_page(page, page, {"WRITABLE"})
  /\ UNCHANGED <<cpu, bus, kmalloced>>

(* ... and the hardware address is read from them.                          *)
FaultUnless(reached) ==
  trouble' = IF reached THEN trouble ELSE trouble \cup {"fault"}

ReadMac ==
  /\ Step("mac") /\ Done
  /\ mac' = Reached(RegisterPage(machine.bar, RAL))
  /\ FaultUnless(mac')
  /\ UNCHANGED <<mbi, cpu, command, adapter, e1000_found, listed, pmmVars,
                 page_directory, tables, paging, asked, kmalloced>>

(* initrd_initialize reads the header of the first module (see Initrd).     *)
MountModule ==
  /\ Step("modules") /\ Done
  /\ FaultUnless(mbi.mods # <<>> => Reached(Page(mbi.mods[1].mod_start)))
  /\ UNCHANGED <<mbi, cpu, bus, pmmVars, page_directory, tables, paging, asked,
                 kmalloced>>

(* process_initialize, and process_create_thread with its two blocks: each  *)
(* is written to without looking whether there is one.                      *)
simple_kmalloc ==
  /\ Step("process") \/ Step("pcb") \/ Step("stack")
  /\ Done
  /\ pmm_alloc_block
  /\ kmalloced' = Append(kmalloced, returned')
  /\ trouble' = trouble \cup
       (IF returned' = NULL THEN {"null"}
        ELSE IF Reached(returned') THEN {} ELSE {"fault"})
  /\ UNCHANGED <<cpu, bus, page_directory, tables, paging, asked>>

EnableInterrupts ==
  /\ Step("sti") /\ Done
  /\ interrupts' = TRUE
  /\ UNCHANGED <<mbi, gdt, gates, interrupt_handlers, bus, memory, kmalloced>>

lspci ==
  /\ Step("shell")
  /\ listed' = pci_enumerate(machine.slots)
  /\ UNCHANGED <<mbi, at, i, cpu, command, adapter, e1000_found, mac, memory, kmalloced>>

(* The processor halts; or pmm_initialize never ends; or isr_handler prints *)
(* its line and returns to the instruction that faulted, for ever; or, with *)
(* the kernel itself not mapped, it does not get as far as that.            *)
Stopped ==
  /\ \/ at = 0
     \/ Step("pmm") /\ ~LoopsEnd
     \/ "fault" \in trouble
  /\ UNCHANGED bootVars

BootInit ==
  /\ Init /\ VmmInit
  /\ machine \in Machines
  /\ at = 1 /\ i = 0
  /\ gdt = FALSE /\ gates = {} /\ interrupts = FALSE
  /\ interrupt_handlers = [n \in Vectors |-> "none"]
  /\ command = [p \in Places(machine.slots) |-> {"memory"}]
  /\ adapter = {} /\ e1000_found = FALSE /\ mac = FALSE
  /\ kmalloced = <<>> /\ listed = <<>>

BootNext ==
  \/ CheckMagic \/ gdt_initialize \/ idt_initialize \/ isr_initialize \/ Register
  \/ InitializeMemory \/ vmm_initialize
  \/ FindAdapter \/ MapRegisters \/ ReadMac \/ MountModule
  \/ simple_kmalloc \/ EnableInterrupts \/ lspci \/ Stopped

(* The processor goes on.                                                   *)
BootSpec == BootInit /\ [][BootNext]_bootVars /\ WF_bootVars(BootNext)

-----------------------------------------------------------------------------
(* When an interrupt can come for the first time, and ever after, each one  *)
(* has a gate and the three the kernel serves have their handler, although  *)
(* they register one by one and isr_initialize clears the table, and also   *)
(* when memory ran out on the way (kernel.c:74-131, isr.c:119-121).         *)
InterruptsAreServed ==
  interrupts =>
    /\ gdt /\ (0 .. 47) \cup {128} \subseteq gates
    /\ interrupt_handlers[32] = "pit_callback"
    /\ interrupt_handlers[33] = "keyboard_callback"
    /\ interrupt_handlers[128] = "syscall_handler"

(* lspci shows what is really on the bus, in order and once, and the        *)
(* adapter found is the first of them that is one: also with a device that  *)
(* answers for all its functions, and where function 0 is missing, whose    *)
(* header type then reads as multi-function (pci.c:44-64, 103-119).         *)
FirstReal ==
  First(machine.slots, {p \in Real(machine.slots) : At(machine.slots, p) = E1000})

ScansAgree ==
  /\ listed \in {<<>>, InOrder(machine.slots, Real(machine.slots))}
  /\ e1000_found => adapter = FirstReal
  /\ at = Len(Order) /\ ~e1000_found => FirstReal = {}

(* The kernel reaches the shell with nothing lost: memory mapped, modules   *)
(* readable, the adapter, if there is one and only then, found, allowed on  *)
(* the bus and read, two threads in blocks of their own; if the blocks it   *)
(* needs are free inside the identity map and the modules lie in it         *)
(* (kernel.c:43-136, vmm.c:22-48, e1000.c:17-45, process.c:20-56).          *)
Pages(bytes) == {Page(a) : a \in bytes}
ModulePages == Pages(UNION {m.mod_start .. m.mod_end - 1 : m \in ToSet(mbi.mods)})
Free == (UNION {Cleared(mbi.mmap[r]) : r \in DOMAIN mbi.mmap}) \cap (0 .. MaxBlocks - 1)

Mapped ==
  0 .. IDENTITY - 1 \cup
    IF FirstReal = {} THEN {} ELSE {RegisterPage(machine.bar, k) : k \in 0 .. MMIO - 1}

Enough ==
  /\ machine.magic
  /\ LoopsEnd
  /\ Page(kernel_end) < IDENTITY
  /\ \A p \in ModulePages : p < IDENTITY
  /\ Cardinality({b \in Free : b < IDENTITY}) >=
       1 + Cardinality({p \div ENTRIES : p \in Mapped}) + 3

Booted ==
  /\ at = Len(Order) /\ trouble = {} /\ paging /\ interrupts
  /\ \A p \in Mapped \cup ModulePages : Reached(p)
  /\ adapter = FirstReal /\ e1000_found = (FirstReal # {}) /\ mac = e1000_found
  /\ \A p \in DOMAIN command :
       command[p] = {"memory"} \cup IF p \in FirstReal THEN {"master"} ELSE {}
  /\ Cardinality(ToSet(kmalloced)) = 3 /\ NULL \notin ToSet(kmalloced)

BootSucceeds == Enough => <>Booted
=============================================================================
