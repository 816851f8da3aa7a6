------------------------------- MODULE Memory -------------------------------
(***************************************************************************)
(* Virtual memory of the kernel while it boots: the page table the boot    *)
(* loader built, kernel_page_mmap and kernel_page_unmap, the page-fault    *)
(* handler that fills holes on demand from alloc_4k_phys (PhysMem), and a  *)
(* translation buffer that may cache any present entry at any moment.      *)
(* main goes through it as it maps the picture, scans the PCI bus (Pci)    *)
(* and sets up every AHCI controller it finds.                             *)
(*                                                                         *)
(* Virtual pages have their real numbers; of a region the instance has as  *)
(* many pages as its constants say, and of a region the boot loader maps   *)
(* the first page stands for all.  Frames of RAM are those of PhysMem.     *)
(***************************************************************************)
EXTENDS PhysMem, Pci

CONSTANTS
    VramPages,        \* bound: pages of the picture, up to 2048 in the code
    PciPages,         \* bound: pages of the list, 128 in the code
    EntriesPerPage,   \* bound: entries in each, 512 in the code
    AhciPages,        \* 4 in the code
    Ports,            \* bound: the ports controllers implement, of 32
    CachedPages,      \* bound: the pages whose cached translations are followed
    VramFrame         \* first frame of the picture, outside RAM

None == -1

\* Pages of the regions of mm_internal.h.
PciList(n)  == \hc0020 + n
Ahci(n)     == \hc00a0 + n
Command(n)  == \hc00a4 + n
Vram(n)     == \hc1000 + n
NullPage    == 0

PciRegion   == {PciList(n) : n \in 0..(PciPages - 1)}
AhciRegion  == {Ahci(n) : n \in 0..(AhciPages - 1)}
VramRegion  == {Vram(n) : n \in 0..(VramPages - 1)}

\* Two pages for each port; those of ports nobody has are left out.
CommandRegion == {Command(2 * i + j) : i \in Ports, j \in {0, 1}}

\* The page of the window that has the registers of a port.
PortPage(i) == Ahci((\h100 + \h80 * i) \div \h1000)

\* What protect_mode_start maps: frame, number of pages, first page.
BootCalls ==
    << <<\h8, 1, \h8>>, <<\h10, 1, \h10>>, <<\h20, 16, \hc0000>>,
       <<\h10, 1, \hc0010>>, <<\h7, 1, \hc0011>>, <<\he, 1, \hc0012>>,
       <<\h600, 512, \hc0600>>, <<0, 7, \hffbf8>>, <<\h1ff, 1025, \hffbff>> >>

\* The frames the calls start at, numbered in their order: the RAM that the
\* kernel has reserved is as small as that.
BootFrame(f) == Cardinality({BootCalls[i][1] : i \in DOMAIN BootCalls} \cap 0..(f - 1))

BootMap ==
    [v \in {BootCalls[i][3] : i \in DOMAIN BootCalls} |->
        BootFrame((CHOOSE c \in {BootCalls[i] : i \in DOMAIN BootCalls} : c[3] = v)[1])]

DemandPages == PciRegion \cup CommandRegion \cup {NullPage}
VPages      == DOMAIN BootMap \cup VramRegion \cup AhciRegion \cup DemandPages

\* No two regions of the kernel's address space overlap, at their full size.
Layout ==
    << <<\h8, 1>>, <<\h10, 1>>, <<\hc0000, 16>>, <<\hc0010, 1>>, <<\hc0011, 1>>,
       <<\hc0012, 1>>, <<\hc0020, 128>>, <<\hc00a0, 4>>, <<\hc00a4, 64>>,
       <<\hc0600, 512>>, <<\hc1000, 2048>>, <<\hffbf8, 7>>, <<\hffbff, 1025>> >>

ASSUME LayoutAssumption ==
    /\ \A i, j \in DOMAIN Layout : i < j => Layout[i][1] + Layout[i][2] <= Layout[j][1]
    /\ \A c \in DOMAIN BootCalls : \E i \in DOMAIN Layout :
          Layout[i] = <<BootCalls[c][3], BootCalls[c][2]>>

\* The frames of the picture, those the window shows of a controller, and those
\* among them where it has registers: the enable bit and the implemented ports.
Picture         == VramFrame..(VramFrame + VramPages - 1)
Window(m, c)    == m.bar[c]..(m.bar[c] + AhciPages - 1)
Registers(m, c) == {m.bar[c]} \cup {m.bar[c] + (PortPage(i) - Ahci(0)) : i \in m.pi[c]}

\* Neither RAM nor in the memory the kernel has reserved; what else a memory map
\* lists, such as a reserved entry, may lie anywhere.
OutsideRam(f) ==
    /\ f * PageSize >= USABLE_PHY_ADDR_BASE
    /\ \A m \in MemoryMaps : \A i \in 1..Len(m) : m[i].type = Ram => ~Covers(m[i], f)

\* Devices answer outside of RAM and no two of them at one place.  The list has
\* room for the functions of the bus and for its end: with the sizes of the code
\* that is every bus but the one with all 65536 functions.
ASSUME MemoryAssumption ==
    /\ VramPages \in 1..2048 /\ PciPages \in 1..128 /\ AhciPages \in 1..4
    /\ EntriesPerPage \in Nat \ {0}
    /\ Ports \subseteq 0..31 /\ \A i \in Ports : PortPage(i) \in AhciRegion
    /\ CachedPages \subseteq VPages
    /\ \A v \in DOMAIN BootMap : BootMap[v] * PageSize < USABLE_PHY_ADDR_BASE
    /\ VramFrame \in Nat /\ \A f \in Picture : OutsideRam(f)
    /\ \A m \in Machines : Cardinality(OnBus(m)) < PciPages * EntriesPerPage
    /\ \A m \in Machines : \A c \in DOMAIN m.bar :
          /\ m.bar[c] \in Nat /\ m.pi[c] \subseteq Ports
          /\ \A f \in Window(m, c) : OutsideRam(f) /\ f \notin Picture
          /\ \A d \in DOMAIN m.bar \ {c} : Registers(m, c) \cap Registers(m, d) = {}

VARIABLES
    pageTable,  \* [VPages -> frame or None]
    tlb,        \* the translations the CPU has cached
    flush,      \* the page whose entry was written but not yet invalidated
    pc,         \* the stage of main
    step,       \* progress of the loop of a stage
    wanted,     \* pages the stage is still going to access, from the lowest up
    index,      \* i of main's loop over the list, from one
    ports,      \* of sata_driver_init: the ports still to be programmed
    hba         \* [controller -> its enable bit and the ports programmed]

mmuVars  == <<pageTable, tlb, flush>>
mainVars == <<pc, step, wanted>>
sataVars == <<index, ports, hba>>
memVars  == <<vars, pciVars, mmuVars, mainVars, sataVars>>

MemInit ==
    /\ Init
    /\ PciInit
    /\ pageTable = [v \in VPages |-> IF v \in DOMAIN BootMap THEN BootMap[v] ELSE None]
    /\ tlb = [v \in VPages |-> None]
    /\ flush = {}
    /\ pc = "display"
    /\ step = 0
    /\ wanted = {}
    /\ index = 1
    /\ ports = {}
    /\ hba = [c \in Controllers |-> [on |-> FALSE, ports |-> {}]]

-----------------------------------------------------------------------------
(* The processor *)

\* A present entry may be cached at any time; other entries never are.
CacheEntry(v) ==
    /\ tlb[v] = None
    /\ pageTable[v] # None
    /\ tlb' = [tlb EXCEPT ![v] = pageTable[v]]
    /\ UNCHANGED <<vars, pciVars, pageTable, flush, mainVars, sataVars>>

Translation(v) == IF tlb[v] # None THEN tlb[v] ELSE pageTable[v]

\* The kernel accesses the lowest of the pages it wants.
Accessing(v) == v \in wanted /\ (\A w \in wanted : v <= w) /\ flush = {}

Access(v) ==
    /\ Accessing(v)
    /\ Translation(v) # None
    /\ wanted' = wanted \ {v}
    /\ UNCHANGED <<vars, pciVars, mmuVars, pc, step, sataVars>>

-----------------------------------------------------------------------------
(* kernel_page_mmap and kernel_page_unmap: the store and the invlpg *)

\* Mutant: a page is also unmapped where its frame was mapped before.
SetEntryStealing(v, frame) ==
    /\ flush = {}
    /\ pageTable' = [w \in VPages |-> IF w = v THEN frame
                                     ELSE IF pageTable[w] = pageTable[v] THEN None
                                     ELSE pageTable[w]]
    /\ flush' = {v}
    /\ UNCHANGED tlb

SetEntry(v, frame) ==
    /\ flush = {}
    /\ pageTable' = [pageTable EXCEPT ![v] = frame]
    /\ flush' = {v}
    /\ UNCHANGED tlb

\* Mutant: the translation buffer is not told.
InvlpgForgotten ==
    /\ flush # {}
    /\ flush' = {}
    /\ UNCHANGED <<vars, pciVars, pageTable, tlb, mainVars, sataVars>>

Invlpg ==
    /\ flush # {}
    /\ tlb' = [v \in VPages |-> IF v \in flush THEN None ELSE tlb[v]]
    /\ flush' = {}
    /\ UNCHANGED <<vars, pciVars, pageTable, mainVars, sataVars>>

kernel_page_mmap(frame, v) == SetEntry(v, frame)
kernel_page_unmap(v)       == SetEntry(v, None)

-----------------------------------------------------------------------------
(* page_fault *)

\* Mutant: a fault on a page that is not present is taken for a protection
\* fault and left alone.
page_fault_ignored(v) ==
    /\ Accessing(v)
    /\ Translation(v) = None
    /\ UNCHANGED memVars

\* Mutant: the frame is mapped one further up.
page_fault_next(v) ==
    /\ Accessing(v)
    /\ Translation(v) = None
    /\ alloc_4k_phys
    /\ kernel_page_mmap(FrameOf(result') + 1, v)
    /\ UNCHANGED <<pciVars, mainVars, sataVars>>

\* An access to a page that is not present (bit 0 of the error code is clear):
\* the handler maps whatever alloc_4k_phys returned, NULL included, and the
\* access is tried again.
page_fault(v) ==
    /\ Accessing(v)
    /\ Translation(v) = None
    /\ alloc_4k_phys
    /\ kernel_page_mmap(FrameOf(result'), v)
    /\ UNCHANGED <<pciVars, mainVars, sataVars>>

-----------------------------------------------------------------------------
(* main *)

\* display_init maps the picture, then clears it.
display_init ==
    /\ pc = "display"
    /\ IF step < VramPages
       THEN /\ kernel_page_mmap(VramFrame + step, Vram(step))
            /\ step' = step + 1
            /\ UNCHANGED <<pc, wanted>>
       ELSE /\ flush = {}
            /\ wanted' = VramRegion
            /\ pc' = "unmap"
            /\ step' = 0
            /\ UNCHANGED mmuVars
    /\ UNCHANGED <<vars, pciVars, sataVars>>

\* Mutant: one of the two temporary mappings is kept.
mm_init_unmap_one ==
    /\ pc = "unmap" /\ wanted = {} /\ flush = {}
    /\ IF step = 0
       THEN kernel_page_unmap(\h8) /\ step' = 2 /\ UNCHANGED pc
       ELSE pc' = "mm_init" /\ step' = 0 /\ UNCHANGED mmuVars
    /\ UNCHANGED <<vars, pciVars, wanted, sataVars>>

\* mm_init: the two temporary mappings of the boot loader go first.
mm_init_unmap ==
    /\ pc = "unmap" /\ wanted = {} /\ flush = {}
    /\ \/ step = 0 /\ kernel_page_unmap(\h8) /\ step' = 1 /\ UNCHANGED pc
       \/ step = 1 /\ kernel_page_unmap(\h10) /\ step' = 2 /\ UNCHANGED pc
       \/ step = 2 /\ pc' = "mm_init" /\ step' = 0 /\ UNCHANGED mmuVars
    /\ UNCHANGED <<vars, pciVars, wanted, sataVars>>

\* The rest of mm_init.
mm_init ==
    /\ pc = "mm_init"
    /\ \/ mm_init_entry /\ UNCHANGED pc
       \/ mm_init_done /\ pc' = "pci"
    /\ UNCHANGED <<pciVars, mmuVars, step, wanted, sataVars>>

\* The page of entry n of the list, from one.
EntryPage(n) == PciList((n - 1) \div EntriesPerPage)

\* pci_init, one read or one entry at a time.
pci_init ==
    /\ pc = "pci" /\ wanted = {} /\ flush = {}
    /\ \/ pci_init_read /\ UNCHANGED wanted
       \/ pci_init_write /\ wanted' = {EntryPage(Len(list'))}
    /\ UNCHANGED <<vars, mmuVars, pc, step, sataVars>>

\* A release build goes straight to the loop; a debug build tests the handler
\* with a write to page 0 and then looks through the list.
pci_init_done ==
    /\ pc = "pci" /\ wanted = {} /\ flush = {}
    /\ slot > Slots
    /\ \/ pc' = "loop" /\ UNCHANGED wanted
       \/ pc' = "list" /\ wanted' = {NullPage, EntryPage(1)}
    /\ UNCHANGED <<vars, pciVars, mmuVars, step, sataVars>>

\* main looks at an entry: the end, an AHCI controller or another function.
FindController ==
    /\ pc = "list" /\ wanted = {} /\ flush = {}
    /\ \/ /\ list[index] = End
          /\ pc' = "loop"
          /\ UNCHANGED <<wanted, index>>
       \/ /\ list[index].ahci
          /\ pc' = "sata_map"
          /\ UNCHANGED <<wanted, index>>
       \/ /\ list[index] # End /\ ~list[index].ahci
          /\ index' = index + 1
          /\ wanted' = {EntryPage(index + 1)}
          /\ UNCHANGED pc
    /\ UNCHANGED <<vars, pciVars, mmuVars, step, ports, hba>>

-----------------------------------------------------------------------------
(* sata_driver_init *)

Bar == machine.bar[<<list[index].bus, list[index].fun>>]

\* Mutant: one page is taken for enough.
sata_map_one ==
    /\ pc = "sata_map"
    /\ \/ /\ step = 0
          /\ kernel_page_mmap(Bar, Ahci(0))
          /\ step' = 1
          /\ UNCHANGED <<pc, wanted>>
       \/ /\ step = 1 /\ flush = {}
          /\ wanted' = CommandRegion
          /\ pc' = "sata_enable"
          /\ step' = 0
          /\ UNCHANGED mmuVars
    /\ UNCHANGED <<vars, pciVars, sataVars>>

\* The registers of the controller are mapped over those of the one before, and
\* the command lists are cleared.
sata_map ==
    /\ pc = "sata_map"
    /\ \/ /\ step < AhciPages
          /\ kernel_page_mmap(Bar + step, Ahci(step))
          /\ step' = step + 1
          /\ UNCHANGED <<pc, wanted>>
       \/ /\ step = AhciPages /\ flush = {}
          /\ wanted' = CommandRegion
          /\ pc' = "sata_enable"
          /\ step' = 0
          /\ UNCHANGED mmuVars
    /\ UNCHANGED <<vars, pciVars, sataVars>>

\* The controllers whose registers a page of the window reaches.
Reached(v) == {c \in Controllers : Translation(v) = machine.bar[c] + (v - Ahci(0))}

\* ghc is set and pi is read, both in the first page of the window.
sata_enable ==
    /\ pc = "sata_enable" /\ wanted = {} /\ flush = {}
    /\ hba' = [c \in Controllers |-> [hba[c] EXCEPT !.on = @ \/ c \in Reached(Ahci(0))]]
    /\ ports' = UNION {machine.pi[c] : c \in Reached(Ahci(0))}
    /\ pc' = "sata_port"
    /\ UNCHANGED <<vars, pciVars, mmuVars, step, wanted, index>>

\* clb and fb of the lowest port left.
sata_port ==
    /\ pc = "sata_port" /\ wanted = {} /\ flush = {}
    /\ \E i \in ports :
          /\ \A j \in ports : i <= j
          /\ IF Translation(PortPage(i)) = None
             THEN wanted' = {PortPage(i)} /\ UNCHANGED <<ports, hba>>
             ELSE /\ ports' = ports \ {i}
                  /\ hba' = [c \in Controllers |->
                                IF c \in Reached(PortPage(i))
                                THEN [hba[c] EXCEPT !.ports = @ \cup {i}] ELSE hba[c]]
                  /\ UNCHANGED wanted
    /\ UNCHANGED <<vars, pciVars, mmuVars, pc, step, index>>

\* main goes on with the next entry.
sata_done ==
    /\ pc = "sata_port" /\ ports = {}
    /\ pc' = "list"
    /\ index' = index + 1
    /\ wanted' = {EntryPage(index + 1)}
    /\ UNCHANGED <<vars, pciVars, mmuVars, step, ports, hba>>

sata_driver_init == sata_map \/ sata_enable \/ sata_port \/ sata_done

\* The main loop touches nothing that is not mapped (MainLoop).
Loop ==
    /\ pc = "loop"
    /\ UNCHANGED memVars

Kernel ==
    \/ Invlpg
    \/ \E v \in VPages : Access(v) \/ page_fault(v)
    \/ display_init
    \/ mm_init_unmap
    \/ mm_init
    \/ pci_init
    \/ pci_init_done
    \/ FindController
    \/ sata_driver_init
    \/ Loop

MemNext == Kernel \/ \E v \in CachedPages : CacheEntry(v)

\* The processor runs the kernel: main is never blocked while it boots.
MemSpec == MemInit /\ [][MemNext]_memVars /\ WF_memVars(Kernel)

-----------------------------------------------------------------------------
(* Properties *)

Stages ==
    {"display", "unmap", "mm_init", "pci", "list", "sata_map", "sata_enable",
     "sata_port", "loop"}

MemTypeOK ==
    /\ TypeOK
    /\ pageTable \in [VPages -> Nat \cup {None}]
    /\ tlb \in [VPages -> Nat \cup {None}]
    /\ flush \in SUBSET VPages /\ Cardinality(flush) <= 1
    /\ pc \in Stages
    /\ step \in 0..(VramPages + AhciPages + 2)
    /\ wanted \subseteq VPages
    /\ index \in 1..(Slots * Funs + 1)
    /\ ports \subseteq Ports
    /\ hba \in [Controllers -> [on : BOOLEAN, ports : SUBSET Ports]]

\* A cached translation is the one in the page table, but for the one entry
\* between its store and its invlpg.
TlbCoherent ==
    \A v \in VPages \ flush : tlb[v] # None => tlb[v] = pageTable[v]

\* The type invariant, with the promise of the translation buffer.
MmuInv == MemTypeOK /\ TlbCoherent

\* Once mm_init is done two pages share a frame only where a page fault found no
\* memory and mapped frame 0, or within the window while it is moved from one
\* controller to another whose registers follow closely.
NothingShared ==
    mmInitialed =>
        \A v, w \in VPages :
            v # w /\ pageTable[v] # None /\ pageTable[v] = pageTable[w]
                => \/ pageTable[v] = FrameOf(NULL)
                   \/ pc = "sata_map" /\ {v, w} \subseteq AhciRegion

\* The memory below the limit is reserved by the kernel: a page filled on demand
\* is never one of its frames.
DemandAboveReserved ==
    \A v \in DemandPages :
        pageTable[v] # None => pageTable[v] * PageSize >= USABLE_PHY_ADDR_BASE

\* Frames and mappings agree: a frame that is handed out is mapped, at one page,
\* and a page filled on demand has such a frame, or frame 0 without one.
OwnersAreMapped ==
    \A f \in Frames \ {FrameOf(NULL)} :
        users[f] = Cardinality({v \in DemandPages : pageTable[v] = f})

\* When main has gone through the list every AHCI controller on the bus is
\* enabled and has exactly the ports programmed that it implements, although
\* all of them are reached through the one window, cached translations of the
\* controller before included.
ControllersAreSetUp ==
    pc = "loop" /\ index > 1 =>
        \A c \in Controllers : hba[c] = [on |-> TRUE, ports |-> machine.pi[c]]

\* Whatever is not mapped when the kernel touches it, it gets past the boot.
BootFinishes == <>(pc = "loop")

\* The kernel's own pages are mapped where the boot loader put them as long as
\* the machine runs, whatever faults and remappings happen.
KernelStaysMapped ==
    [][\A v \in DOMAIN BootMap \ {\h8, \h10} : pageTable'[v] = BootMap[v]]_memVars

=============================================================================
