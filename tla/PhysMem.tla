------------------------------ MODULE PhysMem -------------------------------
(***************************************************************************)
(* Physical memory management (mm.c): mm_init turns the memory map of int  *)
(* 15h into a bitmap of free frames, alloc_4k_phys and free_4k_phys clear  *)
(* and set its bits.                                                       *)
(*                                                                         *)
(* The bitmap is the set of the numbers of its set bits: the scan for the  *)
(* first non-zero word and then for its lowest bit finds the least one.    *)
(* Sizes and addresses are scaled: PageSize stands for 0x1000, WordBits    *)
(* for 32, AddrLimit for the 2^32 of a mem_addr_t.                         *)
(***************************************************************************)
EXTENDS Integers, Sequences, FiniteSets

CONSTANTS
    PageSize, WordBits, AddrLimit,
    USABLE_PHY_ADDR_BASE,
    BitmapCapacity,  \* words in the 2 MB reserved for the bitmap
    MaxPage,         \* bound: the memory maps stay below this page
    MemoryMaps       \* the tables the BIOS may have left

ASSUME PhysMemAssumption ==
    /\ PageSize \in Nat \ {0}
    /\ WordBits \in Nat \ {0}
    /\ AddrLimit \in Nat \ {0}
    /\ AddrLimit % PageSize = 0
    /\ USABLE_PHY_ADDR_BASE \in Nat
    /\ USABLE_PHY_ADDR_BASE >= PageSize
    /\ USABLE_PHY_ADDR_BASE % PageSize = 0
    /\ BitmapCapacity \in Nat
    /\ MaxPage \in Nat
    /\ MemoryMaps \subseteq Seq([addr : Nat, size : Nat, type : Nat])
    /\ \A m \in MemoryMaps : \A i \in 1..Len(m) : m[i].addr + m[i].size <= MaxPage * PageSize

Ram    == 1                                \* the type of usable memory
Pages  == 0..(MaxPage - 1)
Frames == 0..(AddrLimit \div PageSize - 1)  \* what a 32-bit address can name
NULL   == 0

VARIABLES
    memInfo,            \* the memory map, as a sequence of entries
    next,               \* mm_init: index of the entry to be read
    bitmap,             \* pages whose bit is set, garbage beyond the size included
    physMemBitmapSize,  \* in words
    mmInitialed,
    reported,           \* the number of free pages mm_init has printed
    users,              \* history: how often each frame is handed out
    result              \* the address alloc_4k_phys returned last

vars == <<memInfo, next, bitmap, physMemBitmapSize, mmInitialed, reported, users, result>>

TypeOK ==
    /\ memInfo \in MemoryMaps
    /\ next \in 1..(Len(memInfo) + 1)
    /\ bitmap \subseteq Pages
    /\ physMemBitmapSize \in Nat
    /\ mmInitialed \in BOOLEAN
    /\ reported \in Nat
    /\ users \in [Frames -> Nat]
    /\ result \in 0..(AddrLimit - 1)

\* The region of the bitmap holds whatever was in memory before.
Init ==
    /\ memInfo \in MemoryMaps
    /\ next = 1
    /\ bitmap \in {{}, Pages}
    /\ physMemBitmapSize = 0
    /\ mmInitialed = FALSE
    /\ reported = 0
    /\ users = [f \in Frames |-> 0]
    /\ result = NULL

-----------------------------------------------------------------------------
(* mm_init *)

\* The entry after the correction of an unaligned start.  newAddr is computed
\* from the offset in the page alone, so that newAddr - addr wraps around and
\* drops every unaligned entry that starts above the second page.
NewAddr(e)   == (e.addr % PageSize) + PageSize
Aligned(e)   == e.addr % PageSize = 0
Dropped(e)   == ~Aligned(e) /\ (NewAddr(e) < e.addr \/ NewAddr(e) - e.addr >= e.size)
Start(e)     == IF Aligned(e) THEN e.addr ELSE NewAddr(e)
Length(e)    == e.size - (Start(e) - e.addr)

\* Mutant: a last page that the entry covers in part is used.
PageCountRoundedUp(e) ==
    IF Dropped(e) THEN 0 ELSE (Length(e) + PageSize - 1) \div PageSize

\* while (size >= 0x1000): how many pages of the entry are looked at.
PageCount(e) == IF Dropped(e) THEN 0 ELSE Length(e) \div PageSize

PagesOf(e) == {Start(e) \div PageSize + k : k \in 0..(PageCount(e) - 1)}

\* Mutant: the low memory of the kernel is not left out.
UsableAnywhere(e) == IF e.type = Ram THEN PagesOf(e) ELSE {}

\* The pages whose mask is not zero.
Usable(e) ==
    IF e.type = Ram
    THEN {Start(e) \div PageSize + k : k \in
            {j \in 0..(PageCount(e) - 1) : Start(e) + j * PageSize >= USABLE_PHY_ADDR_BASE}}
    ELSE {}

\* The size after while (mapIndex >= physMemBitmapSize).
SizeAfter(e) ==
    IF PagesOf(e) = {} THEN physMemBitmapSize
    ELSE LET last == (Start(e) \div PageSize + PageCount(e) - 1) \div WordBits + 1
         IN  IF last > physMemBitmapSize THEN last ELSE physMemBitmapSize

\* The bits that are part of the bitmap.
FreePages == {p \in bitmap : p \div WordBits < physMemBitmapSize}

\* Mutant: an entry replaces the bits of the entries before it.
BitmapAfterReplaced(e) ==
    {p \in bitmap : p \div WordBits >= SizeAfter(e)} \cup Usable(e)

\* The added words are cleared first, then the entry's bits are set.
BitmapAfter(e) ==
    FreePages \cup {p \in bitmap : p \div WordBits >= SizeAfter(e)} \cup Usable(e)

mm_init_entry ==
    /\ ~mmInitialed
    /\ next <= Len(memInfo)
    /\ bitmap' = BitmapAfter(memInfo[next])
    /\ physMemBitmapSize' = SizeAfter(memInfo[next])
    /\ next' = next + 1
    /\ UNCHANGED <<memInfo, mmInitialed, reported, users, result>>

get_free_page_num == Cardinality(FreePages)

mm_init_done ==
    /\ ~mmInitialed
    /\ next > Len(memInfo)
    /\ reported' = get_free_page_num
    /\ mmInitialed' = TRUE
    /\ UNCHANGED <<memInfo, next, bitmap, physMemBitmapSize, users, result>>

-----------------------------------------------------------------------------
(* Allocation *)

\* The address of a page as a mem_addr_t: i * 0x1000 * 32 is a product of 32-bit
\* numbers.
Address(p) == (p * PageSize) % AddrLimit
FrameOf(a) == a \div PageSize

\* Mutant: the bit is not cleared.
TakeKept(p) ==
    /\ bitmap' = bitmap
    /\ result' = Address(p)
    /\ users' = [users EXCEPT ![FrameOf(Address(p))] = @ + 1]

\* Mutant: the bit after it is cleared.
TakeNeighbour(p) ==
    /\ bitmap' = bitmap \ {p + 1}
    /\ result' = Address(p)
    /\ users' = [users EXCEPT ![FrameOf(Address(p))] = @ + 1]

Take(p) ==
    /\ bitmap' = bitmap \ {p}
    /\ result' = Address(p)
    /\ users' = [users EXCEPT ![FrameOf(Address(p))] = @ + 1]

\* The only caller is page_fault, before mm_init or after it.
alloc_4k_phys ==
    /\ next = 1 \/ mmInitialed
    /\ \/ \E p \in FreePages :
             /\ \A q \in FreePages : p <= q
             /\ Take(p)
       \/ /\ FreePages = {}
          /\ result' = NULL
          /\ UNCHANGED <<bitmap, users>>
    /\ UNCHANGED <<memInfo, next, physMemBitmapSize, mmInitialed, reported>>

\* Called by the owner of a frame (the kernel does not call it yet).
free_4k_phys(addr) ==
    /\ users[FrameOf(addr)] > 0
    /\ bitmap' = bitmap \cup {FrameOf(addr)}
    /\ users' = [users EXCEPT ![FrameOf(addr)] = @ - 1]
    /\ UNCHANGED <<memInfo, next, physMemBitmapSize, mmInitialed, reported, result>>

Next ==
    \/ mm_init_entry
    \/ mm_init_done
    \/ alloc_4k_phys
    \/ \E f \in Frames : free_4k_phys(f * PageSize)

Spec == Init /\ [][Next]_vars

-----------------------------------------------------------------------------
(* Properties *)

HandedOut == {f \in Frames : users[f] > 0}

\* No frame is handed out twice without being freed in between.
SoleOwner == \A f \in Frames : users[f] <= 1

\* The kernel's memory is never handed out: no frame below the reserved limit.
AboveReserved == \A f \in HandedOut : f * PageSize >= USABLE_PHY_ADDR_BASE

\* Every frame handed out is covered by one entry of usable RAM, and where the
\* entries of the memory map do not overlap it touches no other memory.
Covers(e, f)  == e.addr <= f * PageSize /\ (f + 1) * PageSize <= e.addr + e.size
Touches(e, f) == e.addr < (f + 1) * PageSize /\ f * PageSize < e.addr + e.size

Disjoint(m) ==
    \A i, j \in 1..Len(m) :
        i # j => m[i].addr + m[i].size <= m[j].addr \/ m[j].addr + m[j].size <= m[i].addr

RealRam ==
    \A f \in HandedOut :
        /\ \E i \in 1..Len(memInfo) : memInfo[i].type = Ram /\ Covers(memInfo[i], f)
        /\ Disjoint(memInfo) =>
              \A i \in 1..Len(memInfo) : Touches(memInfo[i], f) => memInfo[i].type = Ram

\* The amount of free RAM that mm_init reports is what can be allocated: no
\* frame is lost or made up by later allocations and releases.
NothingLost ==
    mmInitialed => reported = get_free_page_num + Cardinality(HandedOut)

\* Every whole page of an aligned entry of usable RAM is found, whatever memory
\* the bitmap was built in and whichever entries follow.
RamIsFound ==
    mmInitialed =>
        \A i \in 1..Len(memInfo), p \in Pages :
            /\ memInfo[i].type = Ram
            /\ Aligned(memInfo[i])
            /\ Covers(memInfo[i], p)
            /\ p * PageSize >= USABLE_PHY_ADDR_BASE
            => p \in FreePages \/ p \in HandedOut

\* What the memory manager promises: PageAllocator.
Allocator == INSTANCE PageAllocator WITH
    Frames <- Frames \ {0},
    ram    <- FreePages \cup HandedOut,
    free   <- FreePages,
    result <- FrameOf(result)

Implements == Allocator!Spec

\* The region the memory layout reserves for the bitmap is large enough.
BitmapFits == physMemBitmapSize <= BitmapCapacity

=============================================================================
