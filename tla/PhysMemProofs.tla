--------------------------- MODULE PhysMemProofs ----------------------------
(***************************************************************************)
(* What holds of the physical memory manager for every memory map, every   *)
(* limit and every order of allocations and releases, as long as the RAM   *)
(* lies below the limit of 32-bit addresses.  Other entries may be anywhere.*)
(***************************************************************************)
EXTENDS PhysMem, Division, FiniteSetTheorems, SequenceTheorems, TLAPS

\* All RAM is below 4 GB; what is reserved need not be.
Below4G ==
    \A m \in MemoryMaps : \A i \in 1..Len(m) :
        m[i].type = Ram => m[i].addr + m[i].size <= AddrLimit

-----------------------------------------------------------------------------
(* Pages and addresses *)

\* Below the limit a frame has the number of its page.
LEMMA AddressOfPage ==
    ASSUME NEW p \in Frames
    PROVE  /\ Address(p) = p * PageSize
           /\ Address(p) \in 0..(AddrLimit - 1)
           /\ FrameOf(Address(p)) = p
<1> DEFINE q == AddrLimit \div PageSize
           r == AddrLimit % PageSize
<1>1. PageSize \in Nat \ {0} /\ AddrLimit \in Nat \ {0} /\ r = 0
  BY PhysMemAssumption
<1>2. q \in Nat /\ r \in 0..(PageSize - 1) /\ AddrLimit = PageSize * q + r
  BY <1>1, Quotient
<1>3. p \in 0..(q - 1)
  BY DEF Frames
<1> HIDE DEF q, r
<1>4. p \in Nat /\ p < q
  BY <1>2, <1>3
<1>5. PageSize * p < PageSize * q
  BY <1>1, <1>2, <1>4, FactorOrder
<1>6. p * PageSize \in Nat /\ p * PageSize < AddrLimit
  BY <1>1, <1>2, <1>4, <1>5
<1>7. Address(p) = p * PageSize
  BY <1>1, <1>6 DEF Address
<1>8. p * PageSize \in 0..(AddrLimit - 1)
  BY <1>1, <1>6
<1>9. FrameOf(p * PageSize) = p
  BY <1>1, <1>4, QuotientOfProduct DEF FrameOf
<1> QED
  BY <1>7, <1>8, <1>9

\* A page that ends below the limit is a frame.
LEMMA PageIsFrame ==
    ASSUME NEW p \in Nat, (p + 1) * PageSize <= AddrLimit
    PROVE  p \in Frames
<1> DEFINE q == AddrLimit \div PageSize
           r == AddrLimit % PageSize
<1>1. PageSize \in Nat \ {0} /\ AddrLimit \in Nat \ {0} /\ r = 0
  BY PhysMemAssumption
<1>2. q \in Nat /\ r \in 0..(PageSize - 1) /\ AddrLimit = PageSize * q + r
  BY <1>1, Quotient
<1> HIDE DEF q, r
<1>3. PageSize * p < PageSize * (p + 1) /\ PageSize * (p + 1) <= PageSize * q
  BY <1>1, <1>2
<1>4. PageSize * p < PageSize * q
  BY <1>1, <1>2, <1>3
<1>5. p < q
  BY <1>1, <1>2, <1>4, FactorOrder
<1>6. p \in 0..(q - 1)
  BY <1>2, <1>5
<1> QED
  BY <1>6 DEF Frames, q

\* The page of an address: it does not end above the address's own end, and it
\* is not below a limit that is a whole number of pages.
LEMMA PageWithin ==
    ASSUME NEW d \in Nat \ {0}, NEW k \in Nat, NEW j \in Nat, NEW l \in Nat,
           NEW n \in Nat, j + 1 <= n, d * n <= l
    PROVE  d * (k \div d + j + 1) <= k + l
<1> DEFINE q == k \div d
           r == k % d
<1>1. q \in Nat /\ r \in 0..(d - 1) /\ k = d * q + r
  BY Quotient
<1> HIDE DEF q, r
<1>2. d * (j + 1) <= d * n
  BY FactorOrder
<1>3. d * (q + j + 1) = d * q + d * (j + 1)
  BY <1>1
<1>4. d * (q + j + 1) <= k + l
  BY <1>1, <1>2, <1>3
<1> QED
  BY <1>4 DEF q

LEMMA PageAbove ==
    ASSUME NEW d \in Nat \ {0}, NEW k \in Nat, NEW j \in Nat, NEW b \in Nat,
           b % d = 0, k + j * d >= b
    PROVE  (k \div d + j) * d >= b
<1> DEFINE q == k \div d
           r == k % d
           c == b \div d
           z == b % d
<1>1. q \in Nat /\ r \in 0..(d - 1) /\ k = d * q + r
  BY Quotient
<1>2. c \in Nat /\ b = d * c + z /\ z = 0
  BY Quotient
<1> HIDE DEF q, r, c, z
<1>3. d * c < d * (q + j + 1)
  <2>1. d * (q + j + 1) = d * q + j * d + d
    BY <1>1
  <2>2. d * c = b /\ k + j * d < d * q + j * d + d
    BY <1>1, <1>2
  <2> QED
    BY <1>1, <1>2, <2>1, <2>2
<1>4. c < q + j + 1
  BY <1>1, <1>2, <1>3, FactorOrder
<1>5. d * c <= d * (q + j)
  BY <1>1, <1>2, <1>4, FactorOrder
<1>6. (q + j) * d >= b
  BY <1>1, <1>2, <1>5
<1> QED
  BY <1>6 DEF q

-----------------------------------------------------------------------------
(* mm_init *)

\* What is left of an entry after the correction of its start.
LEMMA EntryRange ==
    ASSUME NEW m \in MemoryMaps, NEW i \in 1..Len(m), ~Dropped(m[i])
    PROVE  /\ Start(m[i]) \in Nat
           /\ Length(m[i]) \in Nat
           /\ Start(m[i]) + Length(m[i]) = m[i].addr + m[i].size
           /\ Start(m[i]) + Length(m[i]) <= PageSize * MaxPage
           /\ PageCount(m[i]) \in Nat
           /\ PageSize * PageCount(m[i]) <= Length(m[i])
<1> DEFINE e == m[i]
           d == PageSize
<1>1. m[i] \in [addr : Nat, size : Nat, type : Nat]
  <2>1. m \in Seq([addr : Nat, size : Nat, type : Nat])
    BY PhysMemAssumption
  <2> QED
    BY <2>1, ElementOfSeq
<1>2. d \in Nat \ {0} /\ MaxPage \in Nat
  BY PhysMemAssumption
<1>3. e.addr \in Nat /\ e.size \in Nat /\ e.addr + e.size <= d * MaxPage
  <2>1. e.addr + e.size <= MaxPage * d
    BY PhysMemAssumption
  <2> QED
    BY <1>1, <1>2, <2>1
<1> HIDE DEF e, d
<1>4. Start(e) \in Nat /\ Length(e) \in Nat /\ Start(e) + Length(e) = e.addr + e.size
  <2>1. CASE Aligned(e)
    BY <1>3, <2>1 DEF Start, Length
  <2>2. CASE ~Aligned(e)
    <3>1. e.addr % d \in 0..(d - 1)
      BY <1>2, <1>3, Quotient
    <3>2. NewAddr(e) \in Nat
      BY <1>2, <3>1 DEF NewAddr, d
    <3>3. ~(NewAddr(e) < e.addr) /\ ~(NewAddr(e) - e.addr >= e.size)
      BY <2>2 DEF Dropped, e
    <3> QED
      BY <1>3, <2>2, <3>2, <3>3 DEF Start, Length
  <2> QED
    BY <2>1, <2>2
<1>5. PageCount(e) = Length(e) \div d
  BY DEF PageCount, e, d
<1>6. PageCount(e) \in Nat /\ d * PageCount(e) <= Length(e)
  <2> DEFINE l == Length(e)
             q == l \div d
             r == l % d
  <2>1. q \in Nat /\ r \in 0..(d - 1) /\ l = d * q + r
    BY <1>2, <1>4, Quotient
  <2> HIDE DEF q, r
  <2>2. d * q <= l
    BY <1>2, <1>4, <2>1
  <2> QED
    BY <1>5, <2>1, <2>2 DEF q
<1> QED
  BY <1>3, <1>4, <1>6 DEF e, d

\* No page that an entry contributes ends behind it.
LEMMA UsableWithin ==
    ASSUME NEW m \in MemoryMaps, NEW i \in 1..Len(m), NEW p \in Usable(m[i])
    PROVE  p \in Nat /\ (p + 1) * PageSize <= m[i].addr + m[i].size
<1> DEFINE e == m[i]
           k == Start(e)
           n == PageCount(e)
<1>1. PICK j \in 0..(n - 1) : p = k \div PageSize + j
  <2>1. e.type = Ram
    BY DEF Usable
  <2> QED
    BY <2>1 DEF Usable
<1>2. ~Dropped(e)
  <2> SUFFICES ASSUME Dropped(e) PROVE FALSE
    OBVIOUS
  <2>1. n = 0
    BY DEF PageCount
  <2> QED
    BY <1>1, <2>1
<1>3. /\ k \in Nat /\ n \in Nat /\ Length(e) \in Nat
      /\ k + Length(e) = e.addr + e.size
      /\ PageSize * n <= Length(e)
  BY <1>2, EntryRange
<1>4. PageSize \in Nat \ {0}
  BY PhysMemAssumption
<1>5. j \in Nat /\ j + 1 <= n
  BY <1>1, <1>3
<1>6. k \div PageSize \in Nat
  BY <1>3, <1>4, Quotient
<1>7. PageSize * (k \div PageSize + j + 1) <= k + Length(e)
  BY <1>3, <1>4, <1>5, PageWithin
<1> HIDE DEF k, n
<1>8. p \in Nat /\ p + 1 = k \div PageSize + j + 1
  BY <1>1, <1>5, <1>6
<1>9. (p + 1) * PageSize = PageSize * (k \div PageSize + j + 1)
  BY <1>4, <1>5, <1>6, <1>8
<1> QED
  BY <1>3, <1>7, <1>8, <1>9

LEMMA UsableFrames ==
    ASSUME Below4G, NEW m \in MemoryMaps, NEW i \in 1..Len(m)
    PROVE  Usable(m[i]) \subseteq Frames
<1> SUFFICES ASSUME NEW p \in Usable(m[i]) PROVE p \in Frames
  OBVIOUS
<1>1. m[i].type = Ram
  BY DEF Usable
<1>2. m[i].addr + m[i].size <= AddrLimit
  BY <1>1 DEF Below4G
<1>3. m[i].addr \in Nat /\ m[i].size \in Nat
  <2>1. m \in Seq([addr : Nat, size : Nat, type : Nat])
    BY PhysMemAssumption
  <2>2. m[i] \in [addr : Nat, size : Nat, type : Nat]
    BY <2>1, ElementOfSeq
  <2> QED
    BY <2>2
<1>4. p \in Nat /\ (p + 1) * PageSize <= m[i].addr + m[i].size
  BY UsableWithin
<1>5. (p + 1) * PageSize <= AddrLimit
  <2>1. (p + 1) * PageSize \in Nat /\ AddrLimit \in Nat
    BY <1>4, PhysMemAssumption
  <2> QED
    BY <1>2, <1>3, <1>4, <2>1
<1> QED
  BY <1>4, <1>5, PageIsFrame

\* The pages an entry contributes lie below MaxPage, above the reserved limit,
\* and in the part of the bitmap that is in use afterwards.
LEMMA UsablePages ==
    ASSUME physMemBitmapSize \in Nat,
           NEW m \in MemoryMaps, NEW i \in 1..Len(m), NEW p \in Usable(m[i])
    PROVE  /\ p \in Pages
           /\ p * PageSize >= USABLE_PHY_ADDR_BASE
           /\ p \div WordBits < SizeAfter(m[i])
<1> DEFINE e == m[i]
           k == Start(e)
           n == PageCount(e)
<1>1. PICK j \in 0..(n - 1) :
         p = k \div PageSize + j /\ k + j * PageSize >= USABLE_PHY_ADDR_BASE
  <2>1. e.type = Ram
    BY DEF Usable
  <2> QED
    BY <2>1 DEF Usable
<1>2. ~Dropped(e)
  <2> SUFFICES ASSUME Dropped(e) PROVE FALSE
    OBVIOUS
  <2>1. n = 0
    BY DEF PageCount
  <2> QED
    BY <1>1, <2>1
<1>3. /\ k \in Nat /\ n \in Nat /\ Length(e) \in Nat
      /\ k + Length(e) <= PageSize * MaxPage
      /\ PageSize * n <= Length(e)
  BY <1>2, EntryRange
<1>4. /\ PageSize \in Nat \ {0} /\ MaxPage \in Nat /\ WordBits \in Nat \ {0}
      /\ USABLE_PHY_ADDR_BASE \in Nat /\ USABLE_PHY_ADDR_BASE % PageSize = 0
  BY PhysMemAssumption
<1>5. j \in Nat /\ j + 1 <= n /\ n >= 1
  BY <1>1, <1>3
<1>6. k \div PageSize \in Nat
  BY <1>3, <1>4, Quotient
<1> HIDE DEF k, n, e
<1>7. p \in Nat /\ p + 1 = k \div PageSize + j + 1
  BY <1>1, <1>5, <1>6
<1>8. p \in Pages
  <2>1. PageSize * (k \div PageSize + j + 1) <= k + Length(e)
    BY <1>3, <1>4, <1>5, PageWithin
  <2>2. PageSize * (p + 1) <= PageSize * MaxPage
    <3>1. PageSize * (p + 1) <= k + Length(e)
      BY <1>7, <2>1
    <3>2. PageSize * (p + 1) \in Nat /\ PageSize * MaxPage \in Nat
      BY <1>4, <1>7
    <3> HIDE DEF k
    <3> QED
      BY <1>3, <3>1, <3>2
  <2>3. p + 1 <= MaxPage
    BY <1>4, <1>7, <2>2, FactorOrder
  <2> QED
    BY <1>4, <1>7, <2>3 DEF Pages
<1>9. p * PageSize >= USABLE_PHY_ADDR_BASE
  BY <1>1, <1>3, <1>4, <1>5, PageAbove
<1>10. p \div WordBits < SizeAfter(e)
  <2> DEFINE last == (k \div PageSize + n - 1) \div WordBits
  <2>1. p \in PagesOf(e)
    BY <1>1 DEF PagesOf, k, n
  <2>2. SizeAfter(e) = IF last + 1 > physMemBitmapSize THEN last + 1 ELSE physMemBitmapSize
    BY <2>1 DEF SizeAfter, k, n
  <2>3. k \div PageSize + n - 1 \in Nat /\ p <= k \div PageSize + n - 1
    BY <1>1, <1>3, <1>5, <1>6
  <2>4. p \div WordBits <= last
    BY <1>4, <1>7, <2>3, QuotientOrder
  <2>5. p \div WordBits \in Nat /\ last \in Nat
    BY <1>4, <1>7, <2>3, Quotient
  <2> HIDE DEF last
  <2> QED
    BY <2>2, <2>4, <2>5
<1> QED
  BY <1>8, <1>9, <1>10 DEF e

-----------------------------------------------------------------------------
(* The type invariant *)

LEMMA TypeInit == Init => TypeOK
<1> SUFFICES ASSUME Init PROVE TypeOK
  OBVIOUS
<1>1. 1 \in 1..(Len(memInfo) + 1)
  <2>1. memInfo \in Seq([addr : Nat, size : Nat, type : Nat])
    BY PhysMemAssumption DEF Init
  <2>2. Len(memInfo) \in Nat
    BY <2>1
  <2> QED
    BY <2>2
<1>2. 0 \in 0..(AddrLimit - 1)
  BY PhysMemAssumption
<1> QED
  BY <1>1, <1>2 DEF Init, TypeOK, NULL

LEMMA TypeEntry ==
    ASSUME TypeOK, mm_init_entry
    PROVE  TypeOK'
<1> DEFINE e == memInfo[next]
<1>1. memInfo \in MemoryMaps /\ next \in 1..Len(memInfo) /\ physMemBitmapSize \in Nat
  <2>1. memInfo \in Seq([addr : Nat, size : Nat, type : Nat])
    BY PhysMemAssumption DEF TypeOK
  <2>2. Len(memInfo) \in Nat /\ next \in 1..(Len(memInfo) + 1) /\ next <= Len(memInfo)
    BY <2>1 DEF TypeOK, mm_init_entry
  <2>3. next \in 1..Len(memInfo)
    BY <2>2
  <2> QED
    BY <2>3 DEF TypeOK
<1>2. bitmap' \subseteq Pages
  <2>1. Usable(e) \subseteq Pages
    BY <1>1, UsablePages
  <2> QED
    BY <2>1 DEF TypeOK, mm_init_entry, BitmapAfter, FreePages
<1>3. physMemBitmapSize' \in Nat
  <2>1. CASE PagesOf(e) = {}
    BY <1>1, <2>1 DEF mm_init_entry, SizeAfter
  <2>2. CASE PagesOf(e) # {}
    <3> DEFINE n == PageCount(e)
               l == Start(e) \div PageSize + n - 1
    <3>1. ~Dropped(e) /\ n >= 1 /\ n \in Nat /\ Start(e) \in Nat
      <4>1. ~Dropped(e)
        <5> SUFFICES ASSUME Dropped(e) PROVE FALSE
          OBVIOUS
        <5>1. n = 0
          BY DEF PageCount
        <5>2. 0..(n - 1) = {}
          BY <5>1
        <5> QED
          BY <2>2, <5>2 DEF PagesOf
      <4>2. n \in Nat /\ Start(e) \in Nat
        BY <1>1, <4>1, EntryRange
      <4>3. n # 0
        <5> SUFFICES ASSUME n = 0 PROVE FALSE
          OBVIOUS
        <5>1. 0..(n - 1) = {}
          OBVIOUS
        <5> QED
          BY <2>2, <5>1 DEF PagesOf
      <4> QED
        BY <4>1, <4>2, <4>3
    <3>2. l \in Nat
      <4>1. Start(e) \div PageSize \in Nat
        BY <3>1, Quotient, PhysMemAssumption
      <4> HIDE DEF n
      <4> QED
        BY <3>1, <4>1
    <3>3. l \div WordBits \in Nat
      BY <3>2, Quotient, PhysMemAssumption
    <3>4. physMemBitmapSize' \in {physMemBitmapSize, l \div WordBits + 1}
      BY <2>2 DEF mm_init_entry, SizeAfter
    <3> QED
      BY <1>1, <3>3, <3>4
  <2> QED
    BY <2>1, <2>2
<1>4. next' \in 1..(Len(memInfo') + 1)
  <2>1. next' = next + 1 /\ memInfo' = memInfo
    BY DEF mm_init_entry
  <2> QED
    BY <1>1, <2>1
<1> QED
  BY <1>2, <1>3, <1>4 DEF TypeOK, mm_init_entry

LEMMA TypeDone ==
    ASSUME TypeOK, mm_init_done
    PROVE  TypeOK'
<1>1. IsFiniteSet(Pages)
  BY PhysMemAssumption, FS_Interval DEF Pages
<1>2. FreePages \subseteq Pages
  BY DEF TypeOK, FreePages
<1>3. get_free_page_num \in Nat
  BY <1>1, <1>2, FS_Subset, FS_CardinalityType DEF get_free_page_num
<1> QED
  BY <1>3 DEF TypeOK, mm_init_done

LEMMA TypeAlloc ==
    ASSUME TypeOK, alloc_4k_phys
    PROVE  TypeOK'
<1>1. CASE FreePages = {} /\ result' = NULL /\ UNCHANGED <<bitmap, users>>
  BY <1>1, PhysMemAssumption DEF TypeOK, alloc_4k_phys, NULL
<1>2. CASE \E p \in FreePages : Take(p)
  <2>1. PICK p \in FreePages : Take(p)
    BY <1>2
  <2>2. p \in Nat
    BY PhysMemAssumption DEF FreePages, TypeOK, Pages
  <2>3. Address(p) \in 0..(AddrLimit - 1)
    <3>1. p * PageSize \in Nat /\ AddrLimit \in Nat \ {0}
      BY <2>2, PhysMemAssumption
    <3> QED
      BY <3>1, Quotient DEF Address
  <2>4. users' \in [Frames -> Nat]
    <3> DEFINE f == FrameOf(Address(p))
    <3>1. users' = [users EXCEPT ![f] = @ + 1]
      BY <2>1 DEF Take
    <3>2. users \in [Frames -> Nat]
      BY DEF TypeOK
    <3> HIDE DEF f
    <3>3. users' = [g \in Frames |-> IF g = f THEN users[g] + 1 ELSE users[g]]
      BY <3>1, <3>2
    <3>4. \A g \in Frames : users[g] \in Nat
      BY <3>2
    <3>5. \A g \in Frames : (IF g = f THEN users[g] + 1 ELSE users[g]) \in Nat
      BY <3>4
    <3> QED
      BY <3>3, <3>5
  <2>5. bitmap' \subseteq Pages
    BY <2>1 DEF Take, TypeOK
  <2>6. result' \in 0..(AddrLimit - 1)
    BY <2>1, <2>3 DEF Take
  <2> QED
    BY <2>4, <2>5, <2>6 DEF TypeOK, alloc_4k_phys
<1> QED
  BY <1>1, <1>2 DEF alloc_4k_phys

LEMMA TypeFree ==
    ASSUME TypeOK, NEW f \in Frames, f \in Pages, free_4k_phys(f * PageSize)
    PROVE  TypeOK'
<1>1. FrameOf(f * PageSize) = f
  BY QuotientOfProduct, PhysMemAssumption DEF FrameOf, Frames
<1>2. users[f] > 0 /\ users' = [users EXCEPT ![f] = @ - 1] /\ bitmap' = bitmap \cup {f}
  BY <1>1 DEF free_4k_phys
<1>3. users' \in [Frames -> Nat]
  BY <1>2 DEF TypeOK
<1>4. bitmap' \subseteq Pages
  BY <1>2 DEF TypeOK
<1> QED
  BY <1>3, <1>4 DEF TypeOK, free_4k_phys

-----------------------------------------------------------------------------
(* The allocator's invariant *)

\* What alloc_4k_phys may take: pages of usable RAM, above the kernel and with a
\* 32-bit address, that nobody owns.  Before mm_init there are none, and while it runs none is owned.
AllocInv ==
    /\ TypeOK
    /\ next = 1 => physMemBitmapSize = 0
    /\ ~mmInitialed => HandedOut = {}
    /\ FreePages \subseteq Frames
    /\ \A p \in FreePages : p * PageSize >= USABLE_PHY_ADDR_BASE
    /\ \A f \in HandedOut :
          /\ users[f] = 1
          /\ f \in Pages
          /\ f \notin bitmap
          /\ f \div WordBits < physMemBitmapSize
          /\ f * PageSize >= USABLE_PHY_ADDR_BASE

LEMMA AllocInit == Init => AllocInv
<1> SUFFICES ASSUME Init PROVE AllocInv
  OBVIOUS
<1>1. TypeOK
  BY TypeInit
<1>2. FreePages = {}
  <2>1. \A p \in Pages : p \div WordBits \in Nat
    BY Quotient, PhysMemAssumption DEF Pages
  <2>2. bitmap \subseteq Pages /\ physMemBitmapSize = 0
    BY <1>1 DEF TypeOK, Init
  <2> QED
    BY <2>1, <2>2 DEF FreePages
<1>3. HandedOut = {}
  BY DEF Init, HandedOut
<1> QED
  BY <1>1, <1>2, <1>3 DEF AllocInv, Init

\* mm_init adds pages of the entry and loses none.
LEMMA EntryPages ==
    ASSUME TypeOK, mm_init_entry
    PROVE  /\ FreePages \subseteq FreePages'
           /\ FreePages' \subseteq FreePages \cup Usable(memInfo[next])
<1> DEFINE e == memInfo[next]
<1>1. /\ bitmap' = BitmapAfter(e) /\ physMemBitmapSize' = SizeAfter(e)
      /\ physMemBitmapSize \in Nat
  BY DEF mm_init_entry, TypeOK
<1>2. physMemBitmapSize' \in Nat
  BY TypeEntry DEF TypeOK
<1>3. SizeAfter(e) >= physMemBitmapSize
  <2> DEFINE last == (Start(e) \div PageSize + PageCount(e) - 1) \div WordBits + 1
  <2>1. SizeAfter(e) = physMemBitmapSize
           \/ SizeAfter(e) = (IF last > physMemBitmapSize THEN last ELSE physMemBitmapSize)
    BY DEF SizeAfter
  <2> HIDE DEF last
  <2>2. SizeAfter(e) \in Nat
    BY <1>1, <1>2
  <2> QED
    BY <1>1, <2>1, <2>2
<1>4. \A p \in Pages : p \div WordBits \in Nat
  BY Quotient, PhysMemAssumption DEF Pages
<1>5. FreePages' = {p \in bitmap' : p \div WordBits < SizeAfter(e)}
  BY <1>1 DEF FreePages
<1>6. bitmap \subseteq Pages
  BY DEF TypeOK
<1> HIDE DEF e
<1>7. FreePages' \subseteq FreePages \cup Usable(e)
  <2> SUFFICES ASSUME NEW p \in FreePages', p \notin FreePages \cup Usable(e)
               PROVE  FALSE
    OBVIOUS
  <2>1. p \in bitmap' /\ p \div WordBits < SizeAfter(e)
    BY <1>5
  <2>2. p \in bitmap /\ p \div WordBits >= SizeAfter(e)
    BY <1>1, <2>1 DEF BitmapAfter
  <2>3. p \div WordBits \in Nat /\ SizeAfter(e) \in Nat
    BY <1>1, <1>2, <1>4, <1>6, <2>2
  <2> QED
    BY <2>1, <2>2, <2>3
<1>8. FreePages \subseteq FreePages'
  <2> SUFFICES ASSUME NEW p \in FreePages PROVE p \in FreePages'
    OBVIOUS
  <2>1. p \in bitmap /\ p \div WordBits < physMemBitmapSize /\ p \div WordBits \in Nat
    BY <1>4, <1>6 DEF FreePages
  <2>2. p \div WordBits < SizeAfter(e)
    BY <1>1, <1>2, <1>3, <2>1
  <2>3. p \in bitmap'
    BY <1>1 DEF BitmapAfter
  <2> QED
    BY <1>5, <2>2, <2>3
<1> QED
  BY <1>7, <1>8 DEF e

LEMMA AllocEntry ==
    ASSUME AllocInv, Below4G, mm_init_entry
    PROVE  AllocInv'
<1>1. TypeOK'
  BY TypeEntry DEF AllocInv
<1>2. HandedOut' = {} /\ ~mmInitialed'
  BY DEF AllocInv, mm_init_entry, HandedOut
<1>3. next' # 1
  BY DEF AllocInv, TypeOK, mm_init_entry
<1>4. FreePages' \subseteq Frames /\ \A p \in FreePages' : p * PageSize >= USABLE_PHY_ADDR_BASE
  <2>1. memInfo \in MemoryMaps /\ next \in 1..Len(memInfo) /\ physMemBitmapSize \in Nat
    <3>1. memInfo \in Seq([addr : Nat, size : Nat, type : Nat])
      BY PhysMemAssumption DEF AllocInv, TypeOK
    <3>2. next \in 1..(Len(memInfo) + 1) /\ next <= Len(memInfo)
      BY DEF AllocInv, TypeOK, mm_init_entry
    <3>3. next \in 1..Len(memInfo)
      BY <3>1, <3>2
    <3> QED
      BY <3>3 DEF AllocInv, TypeOK
  <2>2. \A p \in Usable(memInfo[next]) : p * PageSize >= USABLE_PHY_ADDR_BASE
    BY <2>1, UsablePages
  <2>3. Usable(memInfo[next]) \subseteq Frames
    BY <2>1, UsableFrames
  <2> QED
    BY <2>2, <2>3, EntryPages DEF AllocInv
<1> QED
  BY <1>1, <1>2, <1>3, <1>4 DEF AllocInv

LEMMA AllocDone ==
    ASSUME AllocInv, mm_init_done
    PROVE  AllocInv'
<1>1. TypeOK'
  BY TypeDone DEF AllocInv
<1>2. FreePages' = FreePages /\ HandedOut' = HandedOut
  BY DEF mm_init_done, FreePages, HandedOut
<1> QED
  BY <1>1, <1>2 DEF AllocInv, mm_init_done

\* A page that is taken becomes the frame of the same number.
LEMMA TakeStep ==
    ASSUME AllocInv, alloc_4k_phys, NEW p \in FreePages, Take(p)
    PROVE  /\ p \in Frames /\ p \in Pages
           /\ FrameOf(result') = p
           /\ users[p] = 0
           /\ users' = [users EXCEPT ![p] = @ + 1]
           /\ FreePages' = FreePages \ {p}
           /\ HandedOut' = HandedOut \cup {p}
<1>1. p \in Pages /\ p \in bitmap
  BY DEF AllocInv, TypeOK, FreePages
<1>2. p \in Frames /\ FrameOf(Address(p)) = p
  BY AddressOfPage DEF AllocInv
<1>3. FrameOf(result') = p /\ users' = [users EXCEPT ![p] = @ + 1]
  BY <1>2 DEF Take
<1>4. users \in [Frames -> Nat]
  BY DEF AllocInv, TypeOK
<1>5. p \notin HandedOut
  BY <1>1 DEF AllocInv
<1>6. users[p] = 0
  BY <1>2, <1>4, <1>5 DEF HandedOut
<1>7. FreePages' = FreePages \ {p}
  BY DEF FreePages, Take, alloc_4k_phys
<1>8. HandedOut' = HandedOut \cup {p}
  <2>1. users'[p] = 1 /\ \A g \in Frames \ {p} : users'[g] = users[g]
    BY <1>2, <1>3, <1>4, <1>6
  <2> QED
    BY <1>2, <2>1 DEF HandedOut
<1> QED
  BY <1>1, <1>2, <1>3, <1>6, <1>7, <1>8

LEMMA AllocAlloc ==
    ASSUME AllocInv, alloc_4k_phys
    PROVE  AllocInv'
<1>1. TypeOK'
  BY TypeAlloc DEF AllocInv
<1>2. UNCHANGED <<next, physMemBitmapSize, mmInitialed>>
  BY DEF alloc_4k_phys
<1>3. CASE UNCHANGED <<bitmap, users>>
  <2>1. FreePages' = FreePages /\ HandedOut' = HandedOut
    BY <1>2, <1>3 DEF FreePages, HandedOut
  <2> QED
    BY <1>1, <1>2, <1>3, <2>1 DEF AllocInv
<1>4. CASE \E p \in FreePages : Take(p)
  <2>1. PICK p \in FreePages : Take(p)
    BY <1>4
  <2>2. /\ p \in Frames /\ p \in Pages
        /\ users[p] = 0 /\ users' = [users EXCEPT ![p] = @ + 1]
        /\ FreePages' = FreePages \ {p}
        /\ HandedOut' = HandedOut \cup {p}
    BY <2>1, TakeStep
  <2>3. bitmap' = bitmap \ {p}
    BY <2>1 DEF Take
  <2>4. mmInitialed
    <3> SUFFICES ASSUME ~mmInitialed PROVE FALSE
      OBVIOUS
    <3>1. physMemBitmapSize = 0
      BY DEF AllocInv, alloc_4k_phys
    <3>2. p \div WordBits < 0
      BY <3>1 DEF FreePages
    <3>3. p \in Nat
      BY <2>2, PhysMemAssumption DEF Pages
    <3>4. p \div WordBits \in Nat
      BY <3>3, Quotient, PhysMemAssumption
    <3> QED
      BY <3>2, <3>4
  <2>5. FreePages' \subseteq Frames /\ \A p_1 \in FreePages' : p_1 * PageSize >= USABLE_PHY_ADDR_BASE
    BY <2>2 DEF AllocInv
  <2>6. ASSUME NEW f \in HandedOut'
        PROVE  /\ users'[f] = 1
               /\ f \in Pages
               /\ f \notin bitmap'
               /\ f \div WordBits < physMemBitmapSize'
               /\ f * PageSize >= USABLE_PHY_ADDR_BASE
    <3>1. users \in [Frames -> Nat]
      BY DEF AllocInv, TypeOK
    <3>2. CASE f = p
      <4>1. users'[p] = 1
        BY <2>2, <3>1
      <4>2. p \div WordBits < physMemBitmapSize' /\ p * PageSize >= USABLE_PHY_ADDR_BASE
        BY <1>2 DEF FreePages, AllocInv
      <4> QED
        BY <2>2, <2>3, <3>2, <4>1, <4>2
    <3>3. CASE f # p
      <4>1. f \in HandedOut /\ f \in Frames
        BY <2>2, <3>3 DEF HandedOut
      <4>2. users'[f] = users[f]
        BY <2>2, <3>1, <3>3, <4>1
      <4> QED
        BY <1>2, <2>3, <4>1, <4>2 DEF AllocInv
    <3> QED
      BY <3>2, <3>3
  <2> QED
    BY <1>1, <1>2, <2>4, <2>5, <2>6 DEF AllocInv
<1> QED
  BY <1>3, <1>4 DEF alloc_4k_phys

\* A frame that is given back is free again.
LEMMA FreeStep ==
    ASSUME AllocInv, NEW f \in Frames, free_4k_phys(f * PageSize)
    PROVE  /\ f \in Pages /\ f \in HandedOut
           /\ FreePages' = FreePages \cup {f}
           /\ HandedOut' = HandedOut \ {f}
           /\ users' = [users EXCEPT ![f] = 0]
           /\ bitmap' = bitmap \cup {f}
<1>1. FrameOf(f * PageSize) = f
  BY QuotientOfProduct, PhysMemAssumption DEF FrameOf, Frames
<1>2. users[f] > 0 /\ users' = [users EXCEPT ![f] = @ - 1] /\ bitmap' = bitmap \cup {f}
  BY <1>1 DEF free_4k_phys
<1>3. f \in HandedOut
  BY <1>2 DEF HandedOut
<1>4. f \in Pages /\ users[f] = 1 /\ f \div WordBits < physMemBitmapSize
  BY <1>3 DEF AllocInv
<1>5. FreePages' = FreePages \cup {f}
  BY <1>2, <1>4 DEF FreePages, free_4k_phys
<1>6. users \in [Frames -> Nat]
  BY DEF AllocInv, TypeOK
<1>7. users' = [users EXCEPT ![f] = 0]
  BY <1>2, <1>4, <1>6
<1>8. HandedOut' = HandedOut \ {f}
  BY <1>6, <1>7 DEF HandedOut
<1> QED
  BY <1>2, <1>3, <1>4, <1>5, <1>7, <1>8

LEMMA AllocFree ==
    ASSUME AllocInv, NEW f \in Frames, free_4k_phys(f * PageSize)
    PROVE  AllocInv'
<1>1. /\ f \in Pages /\ f \in HandedOut
      /\ FreePages' = FreePages \cup {f}
      /\ HandedOut' = HandedOut \ {f}
      /\ users' = [users EXCEPT ![f] = 0]
      /\ bitmap' = bitmap \cup {f}
  BY FreeStep
<1>2. TypeOK'
  BY <1>1, TypeFree DEF AllocInv
<1>3. UNCHANGED <<next, physMemBitmapSize, mmInitialed>>
  BY DEF free_4k_phys
<1>4. ASSUME NEW g \in HandedOut' PROVE g \in HandedOut /\ g # f /\ users'[g] = users[g]
  <2>1. users \in [Frames -> Nat] /\ g \in Frames
    BY <1>1 DEF AllocInv, TypeOK, HandedOut
  <2> QED
    BY <1>1, <2>1
<1> QED
  BY <1>1, <1>2, <1>3, <1>4 DEF AllocInv

\* AllocInv is inductive where all RAM has a 32-bit address: the bitmap of mm_init,
\* alloc_4k_phys and free_4k_phys.
LEMMA AllocStep ==
    ASSUME AllocInv, Below4G, [Next]_vars
    PROVE  AllocInv'
<1>1. CASE mm_init_entry
  BY <1>1, AllocEntry
<1>2. CASE mm_init_done
  BY <1>2, AllocDone
<1>3. CASE alloc_4k_phys
  BY <1>3, AllocAlloc
<1>4. CASE \E f \in Frames : free_4k_phys(f * PageSize)
  BY <1>4, AllocFree
<1>5. CASE UNCHANGED vars
  BY <1>5 DEF vars, AllocInv, TypeOK, FreePages, HandedOut
<1> QED
  BY <1>1, <1>2, <1>3, <1>4, <1>5 DEF Next

\* The invariant of the memory manager (mm.c) holds of every behaviour in which the
\* memory map has no RAM beyond 32-bit addresses (Below4G).
THEOREM AllocatorInvariant ==
    ASSUME Below4G PROVE Spec => []AllocInv
<1>1. Init => AllocInv
  BY AllocInit
<1>2. AllocInv /\ [Next]_vars => AllocInv'
  BY AllocStep
<1> QED
  BY <1>1, <1>2, PTL DEF Spec

\* Under Below4G every variable keeps its type, so that no bit is set beyond the
\* last page.
THEOREM PhysMemTypes ==
    ASSUME Below4G PROVE Spec => []TypeOK
  BY AllocatorInvariant, PTL DEF AllocInv

\* Under Below4G alloc_4k_phys never hands out a frame a second time unless it was
\* freed.
THEOREM NeverTwice ==
    ASSUME Below4G PROVE Spec => []SoleOwner
<1>1. AllocInv => SoleOwner
  <2> SUFFICES ASSUME AllocInv, NEW f \in Frames PROVE users[f] <= 1
    BY DEF SoleOwner
  <2>1. users[f] \in Nat
    BY DEF AllocInv, TypeOK
  <2> QED
    BY <2>1 DEF AllocInv, HandedOut
<1> QED
  BY <1>1, AllocatorInvariant, PTL

\* Where all RAM has 32-bit addresses (Below4G) the memory below
\* USABLE_PHY_ADDR_BASE, the kernel's own, is never handed out.  The run
\* physmem_above_4g shows that this is false of a map that has RAM beyond them.
THEOREM KernelMemoryIsKept ==
    ASSUME Below4G PROVE Spec => []AboveReserved
<1>1. AllocInv => AboveReserved
  BY DEF AllocInv, AboveReserved
<1> QED
  BY <1>1, AllocatorInvariant, PTL

-----------------------------------------------------------------------------
(* PhysMem implements PageAllocator *)

\* The frame an allocation returned, NULL being frame 0.
LEMMA FrameOfNull == FrameOf(NULL) = 0
<1>1. (0 * PageSize) \div PageSize = 0
  BY QuotientOfProduct, PhysMemAssumption
<1> QED
  BY <1>1, PhysMemAssumption DEF FrameOf, NULL

\* Free frames have numbers other than 0, which stands for NULL.
LEMMA FreeFrames ==
    ASSUME AllocInv
    PROVE  FreePages \subseteq Frames \ {0}
<1> SUFFICES ASSUME NEW p \in FreePages PROVE p \in Frames \ {0}
  OBVIOUS
<1>1. p \in Pages /\ p * PageSize >= USABLE_PHY_ADDR_BASE
  BY DEF AllocInv, TypeOK, FreePages
<1>2. p \in Frames
  BY DEF AllocInv
<1>3. p # 0
  BY <1>1, PhysMemAssumption
<1> QED
  BY <1>2, <1>3

LEMMA RefineInit == Init => Allocator!Init
<1> SUFFICES ASSUME Init PROVE Allocator!Init
  OBVIOUS
<1>1. FreePages = {}
  <2>1. \A p \in Pages : p \div WordBits \in Nat
    BY Quotient, PhysMemAssumption DEF Pages
  <2>2. bitmap \subseteq Pages /\ physMemBitmapSize = 0
    BY DEF Init
  <2> QED
    BY <2>1, <2>2 DEF FreePages
<1>2. HandedOut = {}
  BY DEF Init, HandedOut
<1>3. FrameOf(result) = 0
  BY FrameOfNull DEF Init
<1> QED
  BY <1>1, <1>2, <1>3 DEF Allocator!Init

LEMMA RefineEntry ==
    ASSUME AllocInv, AllocInv', mm_init_entry
    PROVE  Allocator!Discover
<1>1. FreePages \subseteq FreePages'
  BY EntryPages DEF AllocInv
<1>2. HandedOut = {} /\ HandedOut' = {}
  BY DEF mm_init_entry, AllocInv, HandedOut
<1>3. FreePages' \subseteq Frames \ {0}
  <2>1. \A p \in FreePages' : p \in Pages /\ p * PageSize >= USABLE_PHY_ADDR_BASE
    BY DEF AllocInv, TypeOK, FreePages
  <2>2. FreePages' \subseteq Frames
    BY DEF AllocInv
  <2>3. \A p \in Pages : p * PageSize >= USABLE_PHY_ADDR_BASE => p # 0
    BY PhysMemAssumption
  <2> QED
    BY <2>1, <2>2, <2>3
<1>4. FrameOf(result)' = FrameOf(result)
  BY DEF mm_init_entry, FrameOf
<1> QED
  BY <1>1, <1>2, <1>3, <1>4 DEF Allocator!Discover

LEMMA RefineAlloc ==
    ASSUME AllocInv, alloc_4k_phys
    PROVE  Allocator!Allocate
<1>1. CASE FreePages = {} /\ result' = NULL /\ UNCHANGED <<bitmap, users>>
  <2>1. FreePages' = FreePages /\ HandedOut' = HandedOut
    BY <1>1 DEF FreePages, HandedOut, alloc_4k_phys
  <2>2. FrameOf(result)' = 0
    BY <1>1, FrameOfNull DEF FrameOf
  <2> QED
    BY <1>1, <2>1, <2>2 DEF Allocator!Allocate
<1>2. CASE \E p \in FreePages : Take(p)
  <2>1. PICK p \in FreePages : Take(p)
    BY <1>2
  <2>2. /\ FrameOf(result') = p
        /\ FreePages' = FreePages \ {p}
        /\ HandedOut' = HandedOut \cup {p}
    BY <2>1, TakeStep
  <2>3. FrameOf(result)' = p
    BY <2>2 DEF FrameOf
  <2>4. (FreePages \cup HandedOut)' = FreePages \cup HandedOut
    BY <2>1, <2>2
  <2> QED
    BY <2>1, <2>2, <2>3, <2>4 DEF Allocator!Allocate
<1> QED
  BY <1>1, <1>2 DEF alloc_4k_phys

LEMMA RefineFree ==
    ASSUME AllocInv, NEW f \in Frames, free_4k_phys(f * PageSize)
    PROVE  Allocator!Release
<1>1. /\ f \in HandedOut
      /\ FreePages' = FreePages \cup {f}
      /\ HandedOut' = HandedOut \ {f}
  BY FreeStep
<1>2. f \notin FreePages
  BY <1>1 DEF AllocInv, FreePages
<1>3. FrameOf(result)' = FrameOf(result)
  BY DEF free_4k_phys, FrameOf
<1>4. (FreePages \cup HandedOut)' = FreePages \cup HandedOut
  BY <1>1
<1> QED
  BY <1>1, <1>2, <1>3, <1>4 DEF Allocator!Release

\* Every step of mm.c is a step of the abstract allocator or changes nothing
\* that it sees.
LEMMA RefineStep ==
    ASSUME AllocInv, AllocInv', [Next]_vars
    PROVE  [Allocator!Next]_(Allocator!vars)
<1>1. CASE mm_init_entry
  BY <1>1, RefineEntry DEF Allocator!Next
<1>2. CASE mm_init_done \/ UNCHANGED vars
  <2>1. UNCHANGED <<bitmap, physMemBitmapSize, users, result>>
    BY <1>2 DEF mm_init_done, vars
  <2> QED
    BY <2>1 DEF Allocator!vars, FreePages, HandedOut, FrameOf
<1>3. CASE alloc_4k_phys
  BY <1>3, RefineAlloc DEF Allocator!Next
<1>4. CASE \E f \in Frames : free_4k_phys(f * PageSize)
  BY <1>4, RefineFree DEF Allocator!Next
<1> QED
  BY <1>1, <1>2, <1>3, <1>4 DEF Next

\* Under Below4G the bitmap of mm.c implements the allocator: a frame found to be RAM is free or
\* owned, allocation takes a free one, and fails only when there is none.
THEOREM ImplementsAllocator ==
    ASSUME Below4G PROVE Spec => Implements
<1>1. Init => Allocator!Init
  BY RefineInit
<1>2. AllocInv /\ AllocInv' /\ [Next]_vars => [Allocator!Next]_(Allocator!vars)
  BY RefineStep
<1> QED
  BY <1>1, <1>2, AllocatorInvariant, PTL DEF Spec, Implements, Allocator!Spec

-----------------------------------------------------------------------------
(* What is handed out is RAM *)

\* The two pages at the bottom, where the correction of an unaligned entry may
\* start below it, are the kernel's.
TwoPagesReserved == USABLE_PHY_ADDR_BASE >= 2 * PageSize

LEMMA EntryCoversItsPages ==
    ASSUME TwoPagesReserved,
           NEW m \in MemoryMaps, NEW i \in 1..Len(m), NEW p \in Usable(m[i])
    PROVE  m[i].type = Ram /\ Covers(m[i], p)
<1> DEFINE e == m[i]
           k == Start(e)
           n == PageCount(e)
<1>1. e.type = Ram
  BY DEF Usable
<1>2. PICK j \in 0..(n - 1) :
         p = k \div PageSize + j /\ k + j * PageSize >= USABLE_PHY_ADDR_BASE
  BY <1>1 DEF Usable
<1>3. ~Dropped(e)
  <2> SUFFICES ASSUME Dropped(e) PROVE FALSE
    OBVIOUS
  <2>1. n = 0
    BY DEF PageCount
  <2> QED
    BY <1>2, <2>1
<1>4. /\ k \in Nat /\ n \in Nat /\ Length(e) \in Nat
      /\ k + Length(e) = e.addr + e.size
      /\ PageSize * n <= Length(e)
  BY <1>3, EntryRange
<1>5. /\ PageSize \in Nat \ {0}
      /\ USABLE_PHY_ADDR_BASE \in Nat /\ USABLE_PHY_ADDR_BASE % PageSize = 0
  BY PhysMemAssumption
<1>6. e.addr \in Nat
  <2>1. m \in Seq([addr : Nat, size : Nat, type : Nat])
    BY PhysMemAssumption
  <2>2. m[i] \in [addr : Nat, size : Nat, type : Nat]
    BY <2>1, ElementOfSeq
  <2> QED
    BY <2>2
<1>7. j \in Nat /\ j + 1 <= n
  BY <1>2, <1>4
<1>8. k \div PageSize \in Nat /\ p \in Nat
  <2>1. k \div PageSize \in Nat
    BY <1>4, <1>5, Quotient
  <2> HIDE DEF k
  <2> QED
    BY <1>2, <1>7, <2>1
<1>9. (p + 1) * PageSize <= e.addr + e.size
  BY UsableWithin
<1>10. e.addr <= p * PageSize
  <2>1. CASE Aligned(e)
    <3>1. e.addr % PageSize = 0 /\ k = e.addr
      BY <2>1 DEF Aligned, Start
    <3>2. k + j * PageSize >= e.addr
      <4>1. j * PageSize \in Nat
        BY <1>5, <1>7
      <4> QED
        BY <1>6, <3>1, <4>1
    <3>3. (k \div PageSize + j) * PageSize >= e.addr
      BY <1>4, <1>5, <1>6, <1>7, <3>1, <3>2, PageAbove
    <3> QED
      BY <1>2, <3>3
  <2>2. CASE ~Aligned(e)
    <3>1. e.addr % PageSize \in 0..(PageSize - 1)
      BY <1>5, <1>6, Quotient
    <3>2. ~(NewAddr(e) < e.addr)
      BY <1>3, <2>2 DEF Dropped
    <3>3. e.addr < 2 * PageSize
      BY <1>5, <1>6, <3>1, <3>2 DEF NewAddr
    <3>4. p * PageSize >= USABLE_PHY_ADDR_BASE
      BY <1>2, <1>4, <1>5, <1>7, PageAbove
    <3>5. p * PageSize \in Nat
      BY <1>5, <1>8
    <3> HIDE DEF e
    <3> QED
      BY <1>5, <1>6, <3>3, <3>4, <3>5 DEF TwoPagesReserved
  <2> QED
    BY <2>1, <2>2
<1> QED
  BY <1>1, <1>9, <1>10 DEF Covers

\* Every page that is free or handed out is covered by an entry of usable RAM.
RamInv ==
    \A p \in FreePages \cup HandedOut :
        \E i \in 1..Len(memInfo) : memInfo[i].type = Ram /\ Covers(memInfo[i], p)

LEMMA RamStep ==
    ASSUME TwoPagesReserved, AllocInv, RamInv, [Next]_vars
    PROVE  RamInv'
<1>1. memInfo' = memInfo
  BY DEF Next, vars, mm_init_entry, mm_init_done, alloc_4k_phys, free_4k_phys
<1>2. CASE mm_init_entry
  <2>1. next \in 1..Len(memInfo) /\ memInfo \in MemoryMaps
    <3>1. memInfo \in Seq([addr : Nat, size : Nat, type : Nat])
      BY PhysMemAssumption DEF AllocInv, TypeOK
    <3>2. next \in 1..(Len(memInfo) + 1) /\ next <= Len(memInfo)
      BY <1>2 DEF AllocInv, TypeOK, mm_init_entry
    <3>3. next \in 1..Len(memInfo)
      BY <3>1, <3>2
    <3> QED
      BY <3>3 DEF AllocInv, TypeOK
  <2>2. \A p \in Usable(memInfo[next]) :
           memInfo[next].type = Ram /\ Covers(memInfo[next], p)
    BY <2>1, EntryCoversItsPages
  <2>3. FreePages' \cup HandedOut' \subseteq (FreePages \cup HandedOut) \cup Usable(memInfo[next])
    <3>1. FreePages' \subseteq FreePages \cup Usable(memInfo[next])
      BY <1>2, EntryPages DEF AllocInv
    <3>2. HandedOut' = HandedOut
      BY <1>2 DEF mm_init_entry, HandedOut
    <3> QED
      BY <3>1, <3>2
  <2>4. ASSUME NEW p \in FreePages' \cup HandedOut'
        PROVE  \E i \in 1..Len(memInfo) : memInfo[i].type = Ram /\ Covers(memInfo[i], p)
    <3>1. CASE p \in FreePages \cup HandedOut
      BY <3>1 DEF RamInv
    <3>2. CASE p \in Usable(memInfo[next])
      BY <2>1, <2>2, <3>2
    <3> QED
      BY <2>3, <2>4, <3>1, <3>2
  <2> QED
    BY <1>1, <2>4 DEF RamInv, Covers
<1>3. CASE ~mm_init_entry
  <2>1. FreePages' \cup HandedOut' \subseteq FreePages \cup HandedOut
    <3>1. CASE UNCHANGED <<bitmap, physMemBitmapSize, users>>
      BY <3>1 DEF FreePages, HandedOut
    <3>2. CASE \E p \in FreePages : Take(p) /\ alloc_4k_phys
      BY <3>2, TakeStep
    <3>3. CASE \E f \in Frames : free_4k_phys(f * PageSize)
      BY <3>3, FreeStep
    <3> QED
      BY <1>3, <3>1, <3>2, <3>3 DEF Next, vars, mm_init_done, alloc_4k_phys
  <2> QED
    BY <1>1, <2>1 DEF RamInv, Covers
<1> QED
  BY <1>2, <1>3

LEMMA RamInit == Init => RamInv
<1> SUFFICES ASSUME Init PROVE FreePages \cup HandedOut = {}
  BY DEF RamInv
<1>1. \A p \in Pages : p \div WordBits \in Nat
  BY Quotient, PhysMemAssumption DEF Pages
<1>2. bitmap \subseteq Pages /\ physMemBitmapSize = 0
  BY DEF Init
<1>3. FreePages = {}
  BY <1>1, <1>2 DEF FreePages
<1>4. HandedOut = {}
  BY DEF Init, HandedOut
<1> QED
  BY <1>3, <1>4

\* An entry that touches a covered page and is disjoint from the one that covers
\* it is that one.
LEMMA OnlyOneTouches ==
    ASSUME AllocInv, RamInv, NEW f \in HandedOut, Disjoint(memInfo),
           NEW j \in 1..Len(memInfo), Touches(memInfo[j], f)
    PROVE  memInfo[j].type = Ram
<1>1. PICK i \in 1..Len(memInfo) : memInfo[i].type = Ram /\ Covers(memInfo[i], f)
  BY DEF RamInv
<1>2. ASSUME NEW n \in 1..Len(memInfo)
      PROVE  memInfo[n].addr \in Nat /\ memInfo[n].size \in Nat
  <2>1. memInfo \in Seq([addr : Nat, size : Nat, type : Nat])
    BY PhysMemAssumption DEF AllocInv, TypeOK
  <2>2. memInfo[n] \in [addr : Nat, size : Nat, type : Nat]
    BY <2>1, ElementOfSeq
  <2> QED
    BY <2>2
<1>3. f * PageSize \in Nat /\ (f + 1) * PageSize \in Nat
  BY PhysMemAssumption DEF HandedOut, Frames
<1>4. CASE i # j
  <2>1. \/ memInfo[i].addr + memInfo[i].size <= memInfo[j].addr
        \/ memInfo[j].addr + memInfo[j].size <= memInfo[i].addr
    BY <1>4 DEF Disjoint
  <2>2. /\ memInfo[i].addr <= f * PageSize
        /\ (f + 1) * PageSize <= memInfo[i].addr + memInfo[i].size
        /\ memInfo[j].addr < (f + 1) * PageSize
        /\ f * PageSize < memInfo[j].addr + memInfo[j].size
    BY <1>1 DEF Covers, Touches
  <2>3. FALSE
    <3> DEFINE low == f * PageSize
               high == (f + 1) * PageSize
               a == memInfo[i].addr
               s == memInfo[i].size
               b == memInfo[j].addr
               t == memInfo[j].size
    <3>1. /\ low \in Nat /\ high \in Nat /\ a \in Nat /\ s \in Nat /\ b \in Nat /\ t \in Nat
          /\ a + s <= b \/ b + t <= a
          /\ a <= low /\ high <= a + s /\ b < high /\ low < b + t
      BY <1>2, <1>3, <2>1, <2>2
    <3> HIDE DEF low, high, a, s, b, t
    <3> QED
      BY ONLY <3>1
  <2> QED
    BY <2>3
<1> QED
  BY <1>1, <1>4

\* Under Below4G, and with the first two pages reserved (TwoPagesReserved; the
\* kernel reserves 2048), every frame handed out is covered by an entry of usable RAM and, where entries do
\* not overlap, touched by no other, although mm_init corrects unaligned entries
\* from the offset alone.
THEOREM OnlyRamIsHandedOut ==
    ASSUME Below4G, TwoPagesReserved PROVE Spec => []RealRam
<1>1. Init => RamInv
  BY RamInit
<1>2. AllocInv /\ RamInv /\ [Next]_vars => RamInv'
  BY RamStep
<1>3. AllocInv /\ RamInv => RealRam
  BY OnlyOneTouches DEF RealRam, RamInv
<1> QED
  BY <1>1, <1>2, <1>3, AllocatorInvariant, PTL DEF Spec

-----------------------------------------------------------------------------
(* No frame is lost *)

LEMMA Finite ==
    ASSUME TypeOK
    PROVE  IsFiniteSet(FreePages) /\ IsFiniteSet(HandedOut)
<1>1. IsFiniteSet(Pages)
  BY PhysMemAssumption, FS_Interval DEF Pages
<1>2. FreePages \subseteq Pages
  BY DEF TypeOK, FreePages
<1>3. IsFiniteSet(Frames)
  <2>1. AddrLimit \div PageSize \in Nat
    BY Quotient, PhysMemAssumption
  <2>2. AddrLimit \div PageSize - 1 \in Int /\ 0 \in Int
    BY <2>1
  <2> QED
    BY <2>2, FS_Interval DEF Frames
<1>4. HandedOut \subseteq Frames
  BY DEF HandedOut
<1> QED
  BY <1>1, <1>2, <1>3, <1>4, FS_Subset

LEMMA CountStep ==
    ASSUME AllocInv, NothingLost, [Next]_vars
    PROVE  NothingLost'
<1>1. IsFiniteSet(FreePages) /\ IsFiniteSet(HandedOut)
  BY Finite DEF AllocInv
<1>2. Cardinality(FreePages) \in Nat /\ Cardinality(HandedOut) \in Nat
  BY <1>1, FS_CardinalityType
<1>3. CASE mm_init_entry
  BY <1>3 DEF mm_init_entry, NothingLost
<1>4. CASE mm_init_done
  <2>1. HandedOut' = {} /\ FreePages' = FreePages
    BY <1>4 DEF mm_init_done, AllocInv, HandedOut, FreePages
  <2>2. reported' = Cardinality(FreePages) /\ Cardinality(HandedOut') = 0
    BY <1>4, <2>1, FS_EmptySet DEF mm_init_done, get_free_page_num
  <2>3. reported' = Cardinality(FreePages') + Cardinality(HandedOut')
    BY <1>2, <2>1, <2>2
  <2> QED
    BY <2>3 DEF NothingLost, get_free_page_num
<1>5. CASE UNCHANGED <<bitmap, physMemBitmapSize, users, mmInitialed, reported>>
  BY <1>5 DEF NothingLost, get_free_page_num, FreePages, HandedOut
<1>6. CASE \E p \in FreePages : Take(p) /\ alloc_4k_phys
  <2>1. PICK p \in FreePages : Take(p) /\ alloc_4k_phys
    BY <1>6
  <2>2. /\ FreePages' = FreePages \ {p}
        /\ HandedOut' = HandedOut \cup {p}
    BY <2>1, TakeStep
  <2>3. p \notin HandedOut
    BY DEF AllocInv, FreePages
  <2>4. /\ Cardinality(FreePages') = Cardinality(FreePages) - 1
        /\ Cardinality(HandedOut') = Cardinality(HandedOut) + 1
    BY <1>1, <2>2, <2>3, FS_AddElement, FS_RemoveElement
  <2>5. mmInitialed' = mmInitialed /\ reported' = reported
    BY <2>1 DEF alloc_4k_phys
  <2> QED
    BY <1>2, <2>4, <2>5 DEF NothingLost, get_free_page_num
<1>7. CASE \E f \in Frames : free_4k_phys(f * PageSize)
  <2>1. PICK f \in Frames : free_4k_phys(f * PageSize)
    BY <1>7
  <2>2. /\ f \in HandedOut
        /\ FreePages' = FreePages \cup {f}
        /\ HandedOut' = HandedOut \ {f}
    BY <2>1, FreeStep
  <2>3. f \notin FreePages
    BY <2>2 DEF AllocInv, FreePages
  <2>4. /\ Cardinality(FreePages') = Cardinality(FreePages) + 1
        /\ Cardinality(HandedOut') = Cardinality(HandedOut) - 1
    BY <1>1, <2>2, <2>3, FS_AddElement, FS_RemoveElement
  <2>5. mmInitialed' = mmInitialed /\ reported' = reported
    BY <2>1 DEF free_4k_phys
  <2> QED
    BY <1>2, <2>4, <2>5 DEF NothingLost, get_free_page_num
<1> QED
  BY <1>3, <1>4, <1>5, <1>6, <1>7 DEF Next, vars, alloc_4k_phys

\* Under Below4G the free RAM that mm_init reports stays the sum of what is free and what is
\* handed out: alloc_4k_phys and free_4k_phys neither lose nor make up a frame.
THEOREM NoFrameIsLost ==
    ASSUME Below4G PROVE Spec => []NothingLost
<1>1. Init => NothingLost
  BY DEF Init, NothingLost
<1>2. AllocInv /\ NothingLost /\ [Next]_vars => NothingLost'
  BY CountStep
<1> QED
  BY <1>1, <1>2, AllocatorInvariant, PTL DEF Spec
-----------------------------------------------------------------------------
(* All RAM is found *)

\* A page that an aligned entry of usable RAM covers is one of those mm_init sets.
LEMMA CoveredIsUsable ==
    ASSUME NEW m \in MemoryMaps, NEW i \in 1..Len(m), NEW p \in Pages,
           m[i].type = Ram, Aligned(m[i]), Covers(m[i], p),
           p * PageSize >= USABLE_PHY_ADDR_BASE
    PROVE  p \in Usable(m[i])
<1> DEFINE e == m[i]
           q == e.addr \div PageSize
<1>1. e.addr \in Nat /\ e.size \in Nat /\ PageSize \in Nat \ {0} /\ p \in Nat
  <2>1. m \in Seq([addr : Nat, size : Nat, type : Nat])
    BY PhysMemAssumption
  <2>2. m[i] \in [addr : Nat, size : Nat, type : Nat]
    BY ONLY <2>1, ElementOfSeq, i \in 1..Len(m)
  <2> QED
    BY <2>2, PhysMemAssumption DEF Pages
<1>2. ~Dropped(e) /\ Start(e) = e.addr /\ Length(e) = e.size
  BY <1>1 DEF Dropped, Start, Length
<1>3. e.addr % PageSize = 0 /\ e.addr <= p * PageSize
      /\ (p + 1) * PageSize <= e.addr + e.size
  BY DEF Aligned, Covers
<1>4. PICK a \in Nat, s \in Nat : a = e.addr /\ s = e.size
  BY <1>1
<1>5. q \in Nat /\ a = PageSize * q
  <2>1. /\ a \div PageSize \in Nat
        /\ a % PageSize \in 0..(PageSize - 1)
        /\ a = PageSize * (a \div PageSize) + (a % PageSize)
    BY <1>1, Quotient
  <2>2. a % PageSize = 0 /\ q = a \div PageSize
    BY <1>3, <1>4
  <2> HIDE DEF q
  <2>3. q \in Nat /\ a = PageSize * q + 0
    BY <2>1, <2>2
  <2> QED
    BY <1>1, <2>3
<1> HIDE DEF q
<1>6. q <= p
  <2>1. PageSize * q <= PageSize * p
    BY <1>1, <1>3, <1>4, <1>5
  <2> QED
    BY <1>1, <1>5, <2>1, FactorOrder
<1>7. PICK k \in Nat : p = q + k
  BY <1>1, <1>5, <1>6
<1>8. PageSize * (k + 1) <= s
  <2>1. (p + 1) * PageSize = PageSize * q + PageSize * (k + 1)
    BY <1>1, <1>5, <1>7
  <2>2. PageSize * (k + 1) \in Nat /\ PageSize * q \in Nat
    BY <1>1, <1>5, <1>7
  <2> QED
    BY <1>3, <1>4, <1>5, <2>1, <2>2
<1>9. k < s \div PageSize
  <2>0. /\ s \div PageSize \in Nat /\ s % PageSize \in 0..(PageSize - 1)
        /\ s = PageSize * (s \div PageSize) + (s % PageSize)
    <3>1. s \in Nat /\ PageSize \in Nat \ {0}
      BY <1>1
    <3> QED
      BY ONLY <3>1, Quotient
  <2>1. PICK n \in Nat, r \in 0..(PageSize - 1) : s \div PageSize = n /\ s = PageSize * n + r
    BY ONLY <2>0
  <2>2. PageSize * (k + 1) < PageSize * (n + 1)
    BY <1>1, <1>8, <2>1
  <2>3. k + 1 < n + 1
    BY <1>1, <2>2, FactorOrder
  <2> QED
    BY <2>1, <2>3
<1>10. k \in 0..(PageCount(e) - 1)
  <2>1. PageCount(e) = s \div PageSize
    BY <1>2, <1>4 DEF PageCount
  <2>2. s \div PageSize \in Nat
    BY <1>1, Quotient
  <2> QED
    BY <1>9, <2>1, <2>2
<1>11. Start(e) + k * PageSize >= USABLE_PHY_ADDR_BASE
  <2>1. a + k * PageSize = p * PageSize
    BY <1>1, <1>5, <1>7
  <2> QED
    BY <1>2, <1>4, <2>1
<1>12. p = Start(e) \div PageSize + k
  BY <1>2, <1>7 DEF q
<1> QED
  BY <1>10, <1>11, <1>12 DEF Usable

\* What the entries that were read hold of usable RAM is free or handed out.
FoundInv ==
    /\ mmInitialed => next > Len(memInfo)
    /\ \A i \in 1..Len(memInfo), p \in Pages :
          /\ i < next
          /\ memInfo[i].type = Ram
          /\ Aligned(memInfo[i])
          /\ Covers(memInfo[i], p)
          /\ p * PageSize >= USABLE_PHY_ADDR_BASE
          => p \in FreePages \cup HandedOut

LEMMA FoundStep ==
    ASSUME AllocInv, FoundInv, [Next]_vars
    PROVE  FoundInv'
<1>1. memInfo' = memInfo
  BY DEF Next, vars, mm_init_entry, mm_init_done, alloc_4k_phys, free_4k_phys
<1>2. memInfo \in MemoryMaps /\ next \in Nat /\ Len(memInfo) \in Nat
  <2>1. memInfo \in MemoryMaps
    BY DEF AllocInv, TypeOK
  <2>2. Len(memInfo) \in Nat
    BY <2>1, PhysMemAssumption
  <2> QED
    BY <2>1, <2>2 DEF AllocInv, TypeOK
<1>3. CASE mm_init_entry
  <2>1. /\ next' = next + 1 /\ ~mmInitialed' /\ next \in 1..Len(memInfo)
        /\ bitmap' = BitmapAfter(memInfo[next])
        /\ physMemBitmapSize' = SizeAfter(memInfo[next])
    BY <1>2, <1>3 DEF mm_init_entry, AllocInv, TypeOK
  <2>2. FreePages \subseteq FreePages' /\ HandedOut' = HandedOut
    BY <1>3, EntryPages DEF AllocInv, mm_init_entry, HandedOut
  <2>3. Usable(memInfo[next]) \subseteq FreePages'
    <3>1. physMemBitmapSize \in Nat
      BY DEF AllocInv, TypeOK
    <3>2. \A p \in Usable(memInfo[next]) : p \div WordBits < SizeAfter(memInfo[next])
      BY <1>2, <2>1, <3>1, UsablePages
    <3> QED
      BY <2>1, <3>2 DEF FreePages, BitmapAfter
  <2>4. ASSUME NEW i \in 1..Len(memInfo), NEW p \in Pages, i < next + 1,
               memInfo[i].type = Ram, Aligned(memInfo[i]), Covers(memInfo[i], p),
               p * PageSize >= USABLE_PHY_ADDR_BASE
        PROVE  p \in FreePages' \cup HandedOut'
    <3>1. CASE i = next
      <4>1. p \in Usable(memInfo[i])
        BY <1>2, <2>4, CoveredIsUsable
      <4> QED
        BY <2>3, <3>1, <4>1
    <3>2. CASE i # next
      <4>1. i < next
        BY <1>2, <2>4, <3>2
      <4> QED
        BY <2>2, <2>4, <4>1 DEF FoundInv
    <3> QED
      BY <3>1, <3>2
  <2> QED
    BY <1>1, <2>1, <2>4 DEF FoundInv
<1>4. CASE mm_init_done
  BY <1>1, <1>4 DEF mm_init_done, FoundInv, FreePages, HandedOut
<1>5. ASSUME alloc_4k_phys \/ UNCHANGED vars \/ \E f \in Frames : free_4k_phys(f * PageSize)
      PROVE  FoundInv'
  <2>1. UNCHANGED <<next, mmInitialed>>
    BY <1>5 DEF alloc_4k_phys, vars, free_4k_phys
  <2>2. FreePages' \cup HandedOut' = FreePages \cup HandedOut
    <3>1. CASE UNCHANGED <<bitmap, users, physMemBitmapSize>>
      BY <3>1 DEF FreePages, HandedOut
    <3>2. ASSUME alloc_4k_phys, NEW p \in FreePages, Take(p)
          PROVE  FreePages' \cup HandedOut' = FreePages \cup HandedOut
      BY <3>2, TakeStep
    <3>3. ASSUME NEW f \in Frames, free_4k_phys(f * PageSize)
          PROVE  FreePages' \cup HandedOut' = FreePages \cup HandedOut
      BY <3>3, FreeStep
    <3> QED
      BY <1>5, <3>1, <3>2, <3>3 DEF alloc_4k_phys, vars
  <2> QED
    BY <1>1, <2>1, <2>2 DEF FoundInv
<1> QED
  BY <1>3, <1>4, <1>5 DEF Next

\* Under Below4G mm_init finds every whole page of every aligned entry of usable RAM, whatever
\* the memory for the bitmap held and whichever entries follow.
THEOREM AllRamIsFound ==
    ASSUME Below4G PROVE Spec => []RamIsFound
<1>1. Init => FoundInv
  <2> SUFFICES ASSUME Init PROVE FoundInv
    OBVIOUS
  <2>1. mmInitialed = FALSE /\ next = 1
    BY DEF Init
  <2> QED
    BY <2>1 DEF FoundInv
<1>2. AllocInv /\ FoundInv /\ [Next]_vars => FoundInv'
  BY FoundStep
<1>3. AllocInv /\ FoundInv => RamIsFound
  <2> SUFFICES ASSUME AllocInv, FoundInv PROVE RamIsFound
    OBVIOUS
  <2>1. Len(memInfo) \in Nat /\ next \in Nat
    BY PhysMemAssumption DEF AllocInv, TypeOK
  <2>2. mmInitialed => \A i \in 1..Len(memInfo) : i < next
    BY <2>1 DEF FoundInv
  <2> QED
    BY <2>2 DEF FoundInv, RamIsFound
<1> QED
  BY <1>1, <1>2, <1>3, AllocatorInvariant, PTL DEF Spec

=============================================================================
