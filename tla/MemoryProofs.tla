---------------------------- MODULE MemoryProofs ----------------------------
(***************************************************************************)
(* What holds of a boot (Memory) for every size of the regions and for     *)
(* every memory map and bus that MemoryAssumption allows: the translation  *)
(* buffer, who shares a frame, the kernel's own mapping, the list of       *)
(* functions and the AHCI controllers.  Where frames are handed out the    *)
(* theorems assume Below4G (all RAM has 32-bit addresses) and              *)
(* TwoPagesReserved.                                                       *)
(***************************************************************************)
EXTENDS Memory, PhysMemProofs

-----------------------------------------------------------------------------
(* The bus: what pci_init leaves in its list, for every number of devices and *)
(* functions, and every pattern of gaps                                       *)

\* The entries of functions, the last one excepted.
Scanned == IF slot > Slots THEN Len(list) - 1 ELSE Len(list)

\* The function an entry is for.
FunctionOf(e) == <<e.bus, e.fun>>

\* The scan has been past a function, in the order of the bus.
Passed(c) == c[1] < slot \/ (c[1] = slot /\ fun # NoFun /\ c[2] < fun)

Before(d, e) == d.bus < e.bus \/ (d.bus = e.bus /\ d.fun < e.fun)

Entries == [bus : 0..Slots, fun : 0..Funs, ahci : BOOLEAN]

\* How far the scan has come, in reads.
Frontier == Funs * slot + (IF fun = NoFun THEN 0 ELSE fun)

ScanType ==
    /\ machine \in Machines
    /\ slot \in 0..(Slots + 1)
    /\ fun \in {NoFun} \cup 0..(Funs - 1)
    /\ fun # NoFun => slot < Slots /\ 0 \in machine.funs[slot] /\ fun < FuncCount(slot)
    /\ list \in Seq(Entries)
    /\ slot > Slots => Len(list) >= 1 /\ list[Len(list)] = End

\* So far the list has exactly the functions the scan has been past, in order.
ScanInv ==
    /\ \A i \in 1..Scanned :
          /\ FunctionOf(list[i]) \in Functions
          /\ Passed(FunctionOf(list[i]))
          /\ list[i].ahci <=> FunctionOf(list[i]) \in Controllers
    /\ \A i, j \in 1..Scanned : i < j => Before(list[i], list[j])
    /\ \A c \in Functions : Passed(c) => \E i \in 1..Scanned : FunctionOf(list[i]) = c

\* Every read adds one entry at most, so that the list has room for all.
PciInv ==
    /\ ScanType
    /\ ScanInv
    /\ Scanned <= Funs * Slots
    /\ slot <= Slots => Scanned <= Frontier

pci_init_step == pci_init_read \/ pci_init_write

-----------------------------------------------------------------------------
(* Sequences, products and the answers of the bus *)

LEMMA AppendOne ==
    ASSUME NEW S, NEW s \in Seq(S), NEW x \in S
    PROVE  /\ Append(s, x) \in Seq(S)
           /\ Len(s) \in Nat /\ Len(Append(s, x)) = Len(s) + 1
           /\ \A i \in 1..Len(s) : Append(s, x)[i] = s[i]
           /\ Append(s, x)[Len(s) + 1] = x
  OBVIOUS

\* Functions are numbered in the order of the bus.
LEMMA PlaceOrder ==
    ASSUME NEW n \in Nat \ {0}, NEW s \in Nat, NEW t \in Nat, s < t, NEW f \in 0..(n - 1)
    PROVE  n * s + f < n * t
<1>1. n * (s + 1) <= n * t
  OBVIOUS
<1>2. n * (s + 1) = n * s + n
  OBVIOUS
<1>3. n * s \in Nat /\ n * t \in Nat
  OBVIOUS
<1> QED
  BY <1>1, <1>2, <1>3

LEMMA NumberOrder ==
    ASSUME NEW n \in Nat \ {0}, NEW s \in Nat, NEW t \in Nat, NEW f \in 0..(n - 1),
           NEW g \in Nat, s < t \/ (s = t /\ f < g)
    PROVE  n * s + f < n * t + g
<1>1. n * s \in Nat /\ n * t \in Nat
  OBVIOUS
<1>2. CASE s < t
  <2>1. n * s + f < n * t
    BY <1>2, PlaceOrder
  <2> QED
    BY <1>1, <2>1
<1> QED
  BY <1>1, <1>2

LEMMA MachineType ==
    ASSUME machine \in Machines
    PROVE  /\ Slots \in Nat \ {0} /\ Funs \in Nat \ {0}
           /\ machine.multi \subseteq 0..(Slots - 1)
           /\ \A s \in 0..(Slots - 1) :
                 /\ machine.funs[s] \subseteq 0..(Funs - 1)
                 /\ machine.funs[s] # {} => 0 \in machine.funs[s]
                 /\ s \notin machine.multi => machine.funs[s] \subseteq {0}
                 /\ FuncCount(s) \in 1..Funs
           /\ Controllers \subseteq Functions
<1>1. /\ Slots \in Nat \ {0} /\ Funs \in Nat \ {0}
      /\ machine.funs \in [0..(Slots - 1) -> SUBSET (0..(Funs - 1))]
      /\ machine.multi \subseteq 0..(Slots - 1)
      /\ DOMAIN machine.bar \subseteq (0..(Slots - 1)) \X (0..(Funs - 1))
      /\ \A c \in DOMAIN machine.bar : c[2] \in machine.funs[c[1]]
      /\ \A s \in 0..(Slots - 1) :
            /\ machine.funs[s] # {} => 0 \in machine.funs[s]
            /\ s \notin machine.multi => machine.funs[s] \subseteq {0}
  BY PciAssumption
<1>2. Controllers \subseteq Functions
  BY <1>1 DEF Controllers, Functions, OnBus
<1>3. \A s \in 0..(Slots - 1) : machine.funs[s] \subseteq 0..(Funs - 1)
  BY <1>1
<1>4. \A s \in 0..(Slots - 1) : FuncCount(s) \in 1..Funs
  BY <1>1 DEF FuncCount
<1> QED
  BY <1>1, <1>2, <1>3, <1>4

\* A function that is asked for is one that exists or gives no answer: numbers
\* a device does not look at are never asked for.
LEMMA Answers ==
    ASSUME ScanType, fun # NoFun
    PROVE  /\ slot \in 0..(Slots - 1) /\ fun \in 0..(Funs - 1)
           /\ fun \in machine.funs[slot] => pci_read_config(slot, fun) = {<<slot, fun>>}
           /\ fun \notin machine.funs[slot] => pci_read_config(slot, fun) = {}
           /\ \A f \in machine.funs[slot] : f < FuncCount(slot)
<1>1. slot \in 0..(Slots - 1) /\ fun \in 0..(Funs - 1) /\ fun < FuncCount(slot)
  BY PciAssumption DEF ScanType, NoFun
<1>2. fun \notin machine.funs[slot] => slot \in machine.multi
  <2> SUFFICES ASSUME slot \notin machine.multi PROVE fun \in machine.funs[slot]
    OBVIOUS
  <2>1. fun = 0
    BY <1>1 DEF FuncCount
  <2> QED
    BY <2>1 DEF ScanType
<1>3. \A f \in machine.funs[slot] : f < FuncCount(slot)
  BY <1>1, MachineType DEF ScanType, FuncCount
<1> QED
  BY <1>1, <1>2, <1>3 DEF pci_read_config

LEMMA FrontierStep ==
    ASSUME ScanType, slot < Slots
    PROVE  /\ Frontier \in Nat /\ Frontier < Funs * (slot + 1)
           /\ Funs * (slot + 1) <= Funs * Slots
           /\ Funs * (slot + 1) \in Nat /\ Funs * Slots \in Nat
<1> DEFINE f == IF fun = NoFun THEN 0 ELSE fun
<1>1. Slots \in Nat \ {0} /\ Funs \in Nat \ {0} /\ slot \in Nat /\ slot + 1 <= Slots
  BY PciAssumption DEF ScanType
<1>2. f \in 0..(Funs - 1)
  <2>1. CASE fun = NoFun
    BY <1>1, <2>1
  <2>2. CASE fun # NoFun
    BY <2>2 DEF ScanType
  <2> QED
    BY <2>1, <2>2
<1>3. Frontier = Funs * slot + f
  BY DEF Frontier
<1> HIDE DEF f
<1>4. Funs * slot + f < Funs * (slot + 1)
  BY <1>1, <1>2, PlaceOrder
<1>5. Funs * slot \in Nat /\ Funs * (slot + 1) \in Nat /\ Funs * Slots \in Nat
  BY <1>1
<1>6. Funs * (slot + 1) <= Funs * Slots
  BY <1>1
<1> QED
  BY <1>1, <1>2, <1>3, <1>4, <1>5, <1>6

-----------------------------------------------------------------------------
(* The steps of pci_init *)

LEMMA ScanInit == PciInit => PciInv
<1> SUFFICES ASSUME PciInit PROVE PciInv
  OBVIOUS
<1>1. Slots \in Nat \ {0} /\ Funs \in Nat \ {0}
  BY PciAssumption
<1>2. ScanType /\ Scanned = 0
  BY <1>1 DEF PciInit, ScanType, Scanned, NoFun
<1>3. \A c \in Functions : ~Passed(c)
  BY <1>1 DEF PciInit, Functions, OnBus, Passed
<1>4. Funs * Slots \in Nat /\ Frontier = Funs * 0
  BY <1>1 DEF PciInit, Frontier
<1> QED
  BY <1>1, <1>2, <1>3, <1>4 DEF PciInv, ScanInv

\* A device without an answer, or a first look at one.
LEMMA ScanProbe ==
    ASSUME PciInv, ProbeDevice
    PROVE  PciInv'
<1>1. /\ UNCHANGED <<machine, list>>
      /\ ScanType /\ slot < Slots /\ fun = NoFun /\ slot \in 0..(Slots - 1)
      /\ Slots \in Nat \ {0} /\ Funs \in Nat \ {0}
  BY PciAssumption DEF PciInv, ScanType, ProbeDevice
<1>2. UNCHANGED Scanned /\ UNCHANGED Functions /\ UNCHANGED Controllers
  BY <1>1 DEF ProbeDevice, Scanned, Functions, OnBus, Controllers
<1>3. \A c \in Functions : Passed(c)' <=> Passed(c)
  <2>1. CASE pci_read_config(slot, 0) = {} /\ slot' = slot + 1 /\ UNCHANGED fun
    <3>1. machine.funs[slot] = {}
      <4>1. 0 \notin machine.funs[slot]
        BY <2>1 DEF pci_read_config
      <4> QED
        BY <1>1, <4>1, MachineType DEF ScanType
    <3>2. \A c \in Functions : c[1] \in 0..(Slots - 1) /\ c[1] # slot
      BY <3>1 DEF Functions, OnBus
    <3> QED
      BY <1>1, <2>1, <3>2 DEF Passed
  <2>2. CASE fun' = 0 /\ UNCHANGED slot
    <3>1. \A c \in Functions : c[2] \in Nat
      BY DEF Functions, OnBus
    <3> QED
      BY <1>1, <2>2, <3>1 DEF Passed, NoFun
  <2> QED
    BY <2>1, <2>2 DEF ProbeDevice
<1>4. ScanInv'
  BY <1>1, <1>2, <1>3 DEF PciInv, ScanInv, FunctionOf, Before
<1>5. ScanType'
  <2>1. CASE pci_read_config(slot, 0) = {} /\ slot' = slot + 1 /\ UNCHANGED fun
    BY <1>1, <2>1 DEF ScanType
  <2>2. CASE pci_read_config(slot, 0) # {} /\ fun' = 0 /\ UNCHANGED slot
    <3>1. 0 \in machine.funs[slot]
      BY <1>1, <2>2, MachineType DEF ScanType, pci_read_config
    <3>2. 0 < FuncCount(slot)
      BY <1>1, MachineType DEF ScanType
    <3> QED
      BY <1>1, <2>2, <3>1, <3>2 DEF ScanType, FuncCount
  <2> QED
    BY <2>1, <2>2 DEF ProbeDevice
<1>6. Frontier' >= Frontier /\ Frontier' \in Nat /\ Frontier \in Nat
  <2>1. Frontier = Funs * slot
    BY <1>1 DEF Frontier
  <2>2. Frontier' = Funs * slot \/ Frontier' = Funs * (slot + 1)
    BY <1>1 DEF Frontier, ProbeDevice, NoFun
  <2> QED
    BY <1>1, <2>1, <2>2, FrontierStep
<1>7. Scanned \in Nat /\ Scanned <= Frontier
  BY <1>1 DEF PciInv, Scanned
<1>8. Scanned' <= Frontier' /\ Scanned' <= Funs * Slots
  BY <1>2, <1>6, <1>7 DEF PciInv
<1>9. Funs' * Slots' = Funs * Slots
  OBVIOUS
<1> QED
  BY <1>4, <1>5, <1>8 DEF PciInv

\* The scan goes past the function it is at, and past nothing else.
LEMMA AdvanceStep ==
    ASSUME ScanType, fun # NoFun, Advance, UNCHANGED machine
    PROVE  /\ slot' \in 0..Slots
           /\ fun' \in {NoFun} \cup 0..(Funs - 1)
           /\ fun' # NoFun =>
                 slot' < Slots /\ 0 \in machine.funs[slot'] /\ fun' < FuncCount(slot')
           /\ Frontier \in Nat /\ Frontier' \in Nat /\ Frontier' >= Frontier + 1
           /\ Frontier + 1 <= Funs * Slots
           /\ \A c \in Functions : Passed(c)' <=> Passed(c) \/ c = <<slot, fun>>
<1>1. /\ Slots \in Nat \ {0} /\ Funs \in Nat \ {0}
      /\ slot \in 0..(Slots - 1) /\ fun \in 0..(Funs - 1) /\ slot < Slots
      /\ FuncCount(slot) \in 1..Funs
      /\ \A f \in machine.funs[slot] : f < FuncCount(slot)
  BY Answers, MachineType DEF ScanType
<1>2. Frontier = Funs * slot + fun
  BY DEF Frontier
<1>3. Frontier + 1 <= Funs * (slot + 1) /\ Funs * (slot + 1) <= Funs * Slots
      /\ Frontier \in Nat /\ Funs * (slot + 1) \in Nat /\ Funs * Slots \in Nat
  BY <1>1, FrontierStep
<1>4. \A c \in Functions : c[1] \in Nat /\ c[2] \in Nat /\ c = <<c[1], c[2]>>
                           /\ c[2] \in machine.funs[c[1]]
  BY <1>1 DEF Functions, OnBus
<1>5. CASE fun + 1 < FuncCount(slot) /\ fun' = fun + 1 /\ UNCHANGED slot
  <2>1. /\ fun' \in 0..(Funs - 1) /\ fun' # NoFun /\ slot' \in 0..Slots /\ slot' < Slots
        /\ 0 \in machine.funs[slot']
        /\ fun' < FuncCount(slot')
    BY <1>1, <1>5 DEF NoFun, ScanType
  <2>2. Frontier' = Funs * slot + (fun + 1)
    BY <1>5, <2>1 DEF Frontier
  <2>3. Frontier' = Frontier + 1
    <3>1. Funs * slot \in Nat
      BY <1>1
    <3> QED
      BY <1>1, <1>2, <2>2, <3>1
  <2>4. ASSUME NEW c \in Functions
        PROVE  Passed(c)' <=> Passed(c) \/ c = <<slot, fun>>
    <3>1. Passed(c)' <=> c[1] < slot \/ (c[1] = slot /\ c[2] < fun + 1)
      BY <1>5, <2>1 DEF Passed
    <3>2. c[2] < fun + 1 <=> c[2] < fun \/ c[2] = fun
      BY <1>1, <1>4
    <3>3. c = <<slot, fun>> <=> c[1] = slot /\ c[2] = fun
      BY <1>4
    <3> QED
      BY <3>1, <3>2, <3>3 DEF Passed
  <2> QED
    BY <1>3, <2>1, <2>3, <2>4
<1>6. CASE fun + 1 >= FuncCount(slot) /\ fun' = NoFun /\ slot' = slot + 1
  <2>1. slot' \in 0..Slots /\ fun' = NoFun
    BY <1>1, <1>6
  <2>2. Frontier' = Funs * (slot + 1) + 0
    BY <1>6 DEF Frontier
  <2>3. Frontier' \in Nat /\ Frontier' >= Frontier + 1
    BY <1>3, <2>2
  <2>4. ASSUME NEW c \in Functions
        PROVE  Passed(c)' <=> Passed(c) \/ c = <<slot, fun>>
    <3>1. Passed(c)' <=> c[1] < slot \/ c[1] = slot
      BY <1>1, <1>4, <1>6 DEF Passed
    <3>2. c[1] = slot => c[2] < fun \/ c[2] = fun
      <4>1. c[1] = slot => c[2] < FuncCount(slot)
        BY <1>1, <1>4
      <4> QED
        BY <1>1, <1>4, <1>6, <4>1
    <3>3. c = <<slot, fun>> <=> c[1] = slot /\ c[2] = fun
      BY <1>4
    <3> QED
      BY <3>1, <3>2, <3>3 DEF Passed
  <2> QED
    BY <1>3, <2>1, <2>3, <2>4
<1> QED
  BY <1>1, <1>5, <1>6 DEF Advance

LEMMA ScanSkip ==
    ASSUME PciInv, SkipFunction
    PROVE  PciInv'
<1>1. /\ UNCHANGED <<machine, list>> /\ Advance
      /\ ScanType /\ fun # NoFun /\ slot \in 0..(Slots - 1)
      /\ fun \notin machine.funs[slot]
  BY Answers DEF PciInv, SkipFunction
<1>2. slot' \in 0..Slots /\ Slots \in Nat
  BY <1>1, AdvanceStep, PciAssumption
<1>3. UNCHANGED Scanned /\ UNCHANGED Functions /\ UNCHANGED Controllers
      /\ Scanned = Len(list)
  BY <1>1, <1>2 DEF Scanned, Functions, OnBus, Controllers
<1>4. \A c \in Functions : Passed(c)' <=> Passed(c)
  <2>1. \A c \in Functions : c # <<slot, fun>>
    BY <1>1 DEF Functions, OnBus
  <2> QED
    BY <1>1, <2>1, AdvanceStep
<1>5. ScanInv'
  BY <1>1, <1>3, <1>4 DEF PciInv, ScanInv, FunctionOf, Before
<1>6. ScanType'
  BY <1>1, <1>2, AdvanceStep DEF ScanType, FuncCount
<1>7. Scanned <= Frontier /\ Scanned \in Nat
  BY <1>1, <1>2, <1>3 DEF PciInv, ScanType
<1>8. Scanned' <= Frontier'
  BY <1>1, <1>3, <1>7, AdvanceStep
<1>9. (Funs * Slots)' = Funs * Slots
  OBVIOUS
<1> QED
  BY <1>3, <1>5, <1>6, <1>8, <1>9 DEF PciInv

LEMMA ScanWrite ==
    ASSUME PciInv, WriteEntry
    PROVE  PciInv'
<1> DEFINE e == Entry(slot, fun)
           n == Len(list)
<1>1. /\ UNCHANGED machine /\ Advance /\ list' = Append(list, e)
      /\ ScanType /\ fun # NoFun
      /\ slot \in 0..(Slots - 1) /\ fun \in 0..(Funs - 1)
      /\ fun \in machine.funs[slot]
      /\ pci_read_config(slot, fun) = {<<slot, fun>>}
  BY Answers DEF PciInv, WriteEntry
<1>2. slot' \in 0..Slots /\ Slots \in Nat /\ Funs \in Nat
  BY <1>1, AdvanceStep, PciAssumption
<1>3. /\ e \in Entries
      /\ FunctionOf(e) = <<slot, fun>> /\ <<slot, fun>> \in Functions
      /\ e.bus = slot /\ e.fun = fun
      /\ e.ahci <=> <<slot, fun>> \in Controllers
  <2>1. e = [bus |-> slot, fun |-> fun, ahci |-> <<slot, fun>> \in Controllers]
    <3>1. {<<slot, fun>>} \cap Controllers # {} <=> <<slot, fun>> \in Controllers
      OBVIOUS
    <3> QED
      BY <1>1, <3>1 DEF Entry
  <2>2. slot \in 0..Slots /\ fun \in 0..Funs
    BY <1>1, <1>2
  <2>3. <<slot, fun>> \in Functions
    BY <1>1 DEF Functions, OnBus
  <2> HIDE DEF e
  <2>4. e.bus = slot /\ e.fun = fun /\ e.ahci = (<<slot, fun>> \in Controllers)
    BY <2>1
  <2>5. e \in Entries
    BY <2>1, <2>2 DEF Entries
  <2> QED
    BY <2>3, <2>4, <2>5 DEF FunctionOf
<1> HIDE DEF e
<1>4. /\ list \in Seq(Entries) /\ n \in Nat
      /\ list' \in Seq(Entries) /\ Len(list') = n + 1
      /\ \A i \in 1..n : list'[i] = list[i]
      /\ list'[n + 1] = e
  BY <1>1, <1>3, AppendOne DEF ScanType
<1>5. UNCHANGED Functions /\ UNCHANGED Controllers
      /\ Scanned = n /\ Scanned' = n + 1
  BY <1>1, <1>2, <1>4 DEF Scanned, Functions, OnBus, Controllers
<1> DEFINE Past(c) == c[1] < slot' \/ (c[1] = slot' /\ fun' # NoFun /\ c[2] < fun')
<1>6. \A c \in Functions : Past(c) <=> Passed(c) \/ c = <<slot, fun>>
  BY <1>1, AdvanceStep DEF Passed
<1> HIDE DEF n, Past
<1>7. ASSUME NEW i \in 1..(n + 1)
      PROVE  /\ FunctionOf(list'[i]) \in Functions
             /\ Past(FunctionOf(list'[i]))
             /\ list'[i].ahci <=> FunctionOf(list'[i]) \in Controllers
             /\ i \in 1..n => list'[i] = list[i] /\ Passed(FunctionOf(list[i]))
  <2>1. CASE i \in 1..n
    <3>1. /\ FunctionOf(list[i]) \in Functions
          /\ Passed(FunctionOf(list[i]))
          /\ list[i].ahci <=> FunctionOf(list[i]) \in Controllers
      BY <1>5, <2>1 DEF PciInv, ScanInv
    <3> QED
      BY <1>4, <1>6, <2>1, <3>1
  <2>2. CASE i = n + 1
    <3>1. i \notin 1..n /\ list'[i] = e
      BY <1>4, <2>2
    <3> QED
      BY <1>3, <1>6, <3>1
  <2> QED
    BY <1>4, <2>1, <2>2
<1>8. ASSUME NEW i \in 1..(n + 1), NEW j \in 1..(n + 1), i < j
      PROVE  Before(list'[i], list'[j])
  <2>1. i \in 1..n
    BY <1>4, <1>8
  <2>2. CASE j \in 1..n
    BY <1>4, <1>5, <1>8, <2>1, <2>2 DEF PciInv, ScanInv
  <2>3. CASE j = n + 1
    <3>1. Passed(FunctionOf(list[i])) /\ list'[i] = list[i] /\ list'[j] = e
      BY <1>4, <1>7, <2>1, <2>3
    <3> QED
      BY <1>3, <3>1 DEF Before, Passed, FunctionOf
  <2> QED
    BY <1>4, <2>2, <2>3
<1>9. ASSUME NEW c \in Functions, Past(c)
      PROVE  \E i \in 1..(n + 1) : FunctionOf(list'[i]) = c
  <2>1. CASE Passed(c)
    <3>1. PICK i \in 1..n : FunctionOf(list[i]) = c
      BY <1>5, <2>1 DEF PciInv, ScanInv
    <3>2. i \in 1..(n + 1) /\ list'[i] = list[i]
      BY <1>4, <3>1
    <3> QED
      BY <3>1, <3>2
  <2>2. CASE c = <<slot, fun>>
    <3>1. n + 1 \in 1..(n + 1)
      BY <1>4
    <3> QED
      BY <1>3, <1>4, <2>2, <3>1
  <2> QED
    BY <1>6, <1>9, <2>1, <2>2
<1>10. ScanInv'
  BY <1>5, <1>7, <1>8, <1>9 DEF ScanInv, FunctionOf, Before, Passed, Past
<1>11. ScanType'
  <2>1. /\ slot' \in 0..(Slots + 1) /\ slot' <= Slots
        /\ fun' \in {NoFun} \cup 0..(Funs - 1)
        /\ fun' # NoFun =>
              slot' < Slots /\ 0 \in machine.funs[slot'] /\ fun' < FuncCount(slot')
    <3>1. /\ slot' \in 0..Slots
          /\ fun' \in {NoFun} \cup 0..(Funs - 1)
          /\ fun' # NoFun =>
                slot' < Slots /\ 0 \in machine.funs[slot'] /\ fun' < FuncCount(slot')
      BY ONLY <1>1, AdvanceStep
    <3> QED
      BY ONLY <1>2, <3>1
  <2>2. fun' # NoFun => 0 \in machine'.funs[slot'] /\ fun' < FuncCount(slot)'
    BY ONLY <1>1, <2>1 DEF FuncCount
  <2>3. machine' \in Machines /\ list' \in Seq(Entries)
    BY <1>1, <1>4 DEF ScanType
  <2>4. ~(slot' > Slots)
    BY <1>2, <2>1
  <2> QED
    BY <2>1, <2>2, <2>3, <2>4 DEF ScanType
<1>12. Scanned' <= Frontier' /\ Scanned' <= Funs * Slots
  <2>1. n <= Frontier
    BY <1>1, <1>2, <1>5 DEF PciInv
  <2>2. Frontier \in Nat /\ Frontier' \in Nat /\ Frontier' >= Frontier + 1
        /\ Frontier + 1 <= Funs * Slots
    BY <1>1, AdvanceStep
  <2>3. Funs * Slots \in Nat
    BY <1>2
  <2> QED
    BY <1>4, <1>5, <2>1, <2>2, <2>3
<1>13. (Funs * Slots)' = Funs * Slots
  OBVIOUS
<1> QED
  BY <1>10, <1>11, <1>12, <1>13 DEF PciInv

LEMMA ScanEnd ==
    ASSUME PciInv, WriteEnd
    PROVE  PciInv'
<1> DEFINE n == Len(list)
<1>1. /\ UNCHANGED <<machine, fun>> /\ list' = Append(list, End)
      /\ slot = Slots /\ slot' = Slots + 1 /\ fun = NoFun
      /\ ScanType /\ Slots \in Nat \ {0} /\ Funs \in Nat \ {0}
  BY PciAssumption DEF PciInv, ScanType, WriteEnd
<1>2. End \in Entries
  BY <1>1 DEF End, Entries
<1>3. /\ list \in Seq(Entries) /\ n \in Nat
      /\ list' \in Seq(Entries) /\ Len(list') = n + 1
      /\ \A i \in 1..n : list'[i] = list[i]
      /\ list'[n + 1] = End
  BY <1>1, <1>2, AppendOne DEF ScanType
<1>4. UNCHANGED Functions /\ UNCHANGED Controllers
      /\ Scanned = n /\ Scanned' = n
  BY <1>1, <1>3 DEF Scanned, Functions, OnBus, Controllers
<1> HIDE DEF n
<1>5. \A c \in Functions : Passed(c) /\ Passed(c)'
  <2>1. \A c \in Functions : c[1] \in 0..(Slots - 1)
    BY DEF Functions, OnBus
  <2> QED
    BY <1>1, <2>1 DEF Passed
<1>6. ASSUME NEW i \in 1..n
      PROVE  /\ list'[i] = list[i]
             /\ FunctionOf(list[i]) \in Functions
             /\ list[i].ahci <=> FunctionOf(list[i]) \in Controllers
  BY <1>3, <1>4 DEF PciInv, ScanInv
<1>7. ScanInv'
  <2>1. \A i, j \in 1..n : i < j => Before(list[i], list[j])
    BY <1>4 DEF PciInv, ScanInv
  <2>2. \A c \in Functions : \E i \in 1..n : FunctionOf(list[i]) = c
    BY <1>4, <1>5 DEF PciInv, ScanInv
  <2>3. \A c \in Functions : c[1] < slot'
    BY <1>1 DEF Functions, OnBus
  <2> DEFINE Past(c) == c[1] < slot' \/ (c[1] = slot' /\ fun' # NoFun /\ c[2] < fun')
  <2>4. \A i \in 1..n :
           /\ FunctionOf(list'[i]) \in Functions
           /\ Past(FunctionOf(list'[i]))
           /\ list'[i].ahci <=> FunctionOf(list'[i]) \in Controllers
    BY <1>6, <2>3
  <2>5. \A i, j \in 1..n : i < j => Before(list'[i], list'[j])
    BY <1>6, <2>1
  <2>6. \A c \in Functions : \E i \in 1..n : FunctionOf(list'[i]) = c
    BY <1>6, <2>2
  <2> QED
    BY <1>4, <2>4, <2>5, <2>6 DEF ScanInv, Passed, FunctionOf, Before
<1>8. ScanType'
  BY <1>1, <1>3 DEF ScanType
<1>9. Scanned' <= Funs * Slots /\ ~(slot' <= Slots)
  BY <1>1, <1>4 DEF PciInv
<1>10. (Funs * Slots)' = Funs * Slots /\ Slots' = Slots
  OBVIOUS
<1> QED
  BY <1>7, <1>8, <1>9, <1>10 DEF PciInv

\* What the scan keeps true with every read and every entry.
LEMMA ScanStep ==
    ASSUME PciInv, pci_init_step \/ UNCHANGED pciVars
    PROVE  PciInv'
<1>1. CASE UNCHANGED pciVars
  <2>1. UNCHANGED <<machine, slot, fun, list>>
    BY <1>1 DEF pciVars
  <2>2. UNCHANGED Scanned /\ UNCHANGED Functions /\ UNCHANGED Controllers /\ UNCHANGED Frontier
    BY <2>1 DEF Scanned, Functions, OnBus, Controllers, Frontier
  <2>3. ScanInv'
    BY <2>1, <2>2 DEF PciInv, ScanInv, FunctionOf, Passed, Before
  <2>4. ScanType'
    BY <2>1 DEF PciInv, ScanType, FuncCount
  <2> QED
    BY <2>1, <2>2, <2>3, <2>4 DEF PciInv
<1> QED
  BY <1>1, ScanProbe, ScanSkip, ScanWrite, ScanEnd
     DEF pci_init_step, pci_init_read, pci_init_write

\* At the end of the scan the list is the bus.
LEMMA ScanIsComplete ==
    ASSUME PciInv
    PROVE  ListIsTheBus
<1> SUFFICES ASSUME slot > Slots PROVE ListIsTheBus
  BY DEF ListIsTheBus
<1> DEFINE n == Len(list) - 1
<1>1. /\ Scanned = n /\ n \in Nat
      /\ Slots \in Nat /\ Funs \in Nat \ {0}
      /\ list[n + 1] = End
  BY PciAssumption DEF PciInv, ScanType, Scanned
<1> HIDE DEF n
<1>2. \A i \in 1..n :
         /\ FunctionOf(list[i]) \in Functions
         /\ list[i].bus \in 0..(Slots - 1) /\ list[i].fun \in 0..(Funs - 1)
  BY <1>1 DEF PciInv, ScanInv, Functions, OnBus, FunctionOf
<1>3. {<<list[i].bus, list[i].fun>> : i \in 1..n} = Functions
  <2>1. \A c \in Functions : Passed(c)
    <3>1. \A c \in Functions : c[1] \in 0..(Slots - 1)
      BY DEF Functions, OnBus
    <3> QED
      BY <1>1, <3>1 DEF Passed, PciInv, ScanType
  <2>2. \A c \in Functions : \E i \in 1..n : FunctionOf(list[i]) = c
    BY <1>1, <2>1 DEF PciInv, ScanInv
  <2> QED
    BY <1>2, <2>2 DEF FunctionOf
<1>4. ASSUME NEW i \in 1..n, NEW j \in 1..n, i < j
      PROVE  Funs * list[i].bus + list[i].fun < Funs * list[j].bus + list[j].fun
  <2>1. /\ list[i].bus \in Nat /\ list[j].bus \in Nat
        /\ list[i].fun \in 0..(Funs - 1) /\ list[j].fun \in Nat
    BY <1>1, <1>2
  <2>2. \/ list[i].bus < list[j].bus
        \/ list[i].bus = list[j].bus /\ list[i].fun < list[j].fun
    BY <1>1, <1>4 DEF PciInv, ScanInv, Before
  <2> QED
    BY <1>1, <2>1, <2>2, NumberOrder
<1>5. ASSUME NEW i \in 1..Len(list)
      PROVE  list[i] = End <=> i = n + 1
  <2>1. i \in 1..n \/ i = n + 1
    BY <1>1 DEF n
  <2>2. i \in 1..n => list[i] # End /\ i # n + 1
    BY <1>1, <1>2 DEF End
  <2> QED
    BY <1>1, <2>1, <2>2
<1> QED
  BY <1>3, <1>4, <1>5 DEF ListIsTheBus, n

-----------------------------------------------------------------------------
(* The address space *)

BootPages == {\h8, \h10, \hc0000, \hc0010, \hc0011, \hc0012, \hc0600, \hffbf8, \hffbff}

\* The pages of the kernel's own that stay.
KernelPages == DOMAIN BootMap \ {\h8, \h10}

LEMMA BootDomain == DOMAIN BootMap = BootPages
<1>1. DOMAIN BootCalls = 1..9
  BY DEF BootCalls
<1>2. {BootCalls[i][3] : i \in 1..9} = BootPages
  BY DEF BootCalls, BootPages
<1> QED
  BY <1>1, <1>2 DEF BootMap

\* Regions do not overlap.
LEMMA Regions ==
    /\ DemandPages \subseteq (\hc0020..\hc009f) \cup (\hc00a4..\hc00e3) \cup {0}
    /\ AhciRegion \subseteq \hc00a0..\hc00a3
    /\ VramRegion \subseteq \hc1000..\hc17ff
    /\ VPages = BootPages \cup VramRegion \cup AhciRegion \cup DemandPages
<1>1. VramPages \in 1..2048 /\ PciPages \in 1..128 /\ AhciPages \in 1..4 /\ Ports \subseteq 0..31
  BY MemoryAssumption
<1>2. PciRegion \subseteq \hc0020..\hc009f
  BY <1>1 DEF PciRegion, PciList
<1>3. CommandRegion \subseteq \hc00a4..\hc00e3
  BY <1>1 DEF CommandRegion, Command
<1>4. AhciRegion \subseteq \hc00a0..\hc00a3
  BY <1>1 DEF AhciRegion, Ahci
<1>5. VramRegion \subseteq \hc1000..\hc17ff
  <2> SUFFICES ASSUME NEW v \in VramRegion
               PROVE  v \in \hc1000..\hc17ff
    OBVIOUS
  <2>1. PICK n \in 0..(VramPages - 1) : v = Vram(n)
    BY DEF VramRegion
  <2>2. n \in Nat /\ n < 2048
    BY <1>1
  <2> QED
    BY ONLY <2>1, <2>2 DEF Vram
<1> QED
  BY <1>2, <1>3, <1>4, <1>5, BootDomain DEF DemandPages, NullPage, VPages

\* The frames the loader's calls start at.
BootFrames == {\h8, \h10, \h20, \h7, \he, \h600, 0, \h1ff}

LEMMA BootFrameOrder ==
    ASSUME NEW f \in BootFrames, NEW g \in BootFrames, f < g
    PROVE  BootFrame(f) \in Nat /\ BootFrame(f) < BootFrame(g)
<1> DEFINE S == {BootCalls[i][1] : i \in DOMAIN BootCalls}
           A == S \cap 0..(f - 1)
           B == S \cap 0..(g - 1)
<1>1. S = BootFrames
  <2>1. DOMAIN BootCalls = 1..9
    BY DEF BootCalls
  <2> QED
    BY <2>1 DEF BootCalls, BootFrames
<1>2. f \in Nat /\ g \in Nat
  BY DEF BootFrames
<1>3. A \subseteq B /\ f \in B /\ f \notin A
  BY <1>1, <1>2
<1>4. IsFiniteSet(B)
  <2>1. IsFiniteSet(0..(g - 1))
    BY <1>2, FS_Interval
  <2> QED
    BY <2>1, FS_Subset
<1>5. BootFrame(f) = Cardinality(A) /\ BootFrame(g) = Cardinality(B)
  BY DEF BootFrame
<1> HIDE DEF S, A, B
<1>6. /\ IsFiniteSet(A) /\ Cardinality(A) <= Cardinality(B)
      /\ Cardinality(A) = Cardinality(B) => A = B
  BY <1>3, <1>4, FS_Subset
<1>7. Cardinality(A) \in Nat /\ Cardinality(B) \in Nat
  BY <1>4, <1>6, FS_CardinalityType
<1> QED
  BY <1>3, <1>5, <1>6, <1>7

\* Where the loader maps a page, and that no two pages of the kernel share a frame.
LEMMA BootMapping ==
    /\ BootMap[\hc0000] = BootFrame(\h20) /\ BootMap[\hc0010] = BootFrame(\h10)
    /\ BootMap[\hc0011] = BootFrame(\h7) /\ BootMap[\hc0012] = BootFrame(\he)
    /\ BootMap[\hc0600] = BootFrame(\h600) /\ BootMap[\hffbf8] = BootFrame(0)
    /\ BootMap[\hffbff] = BootFrame(\h1ff) /\ BootMap[\h8] = BootFrame(\h8)
    /\ BootMap[\h10] = BootFrame(\h10)
<1> DEFINE Calls == {BootCalls[i] : i \in DOMAIN BootCalls}
           Chosen(v) == CHOOSE c \in Calls : c[3] = v
<1>1. DOMAIN BootCalls = 1..9
  BY DEF BootCalls
<1>2. Calls = {BootCalls[1], BootCalls[2], BootCalls[3], BootCalls[4], BootCalls[5],
               BootCalls[6], BootCalls[7], BootCalls[8], BootCalls[9]}
  BY <1>1
<1>3. \A v \in DOMAIN BootMap : BootMap[v] = BootFrame(Chosen(v)[1])
  BY DEF BootMap
<1>4. \A v \in BootPages : \E c \in Calls : c[3] = v
  BY <1>2 DEF BootPages, BootCalls
<1>5. \A v \in BootPages : Chosen(v) \in Calls /\ Chosen(v)[3] = v
  BY <1>4
<1> HIDE DEF Chosen
<1>6. \A c \in Calls :
        /\ c[3] = \hc0000 => c[1] = \h20
        /\ c[3] = \hc0010 => c[1] = \h10
        /\ c[3] = \hc0011 => c[1] = \h7
        /\ c[3] = \hc0012 => c[1] = \he
        /\ c[3] = \hc0600 => c[1] = \h600
        /\ c[3] = \hffbf8 => c[1] = 0
        /\ c[3] = \hffbff => c[1] = \h1ff
        /\ c[3] = \h8 => c[1] = \h8
        /\ c[3] = \h10 => c[1] = \h10
  BY <1>2 DEF BootCalls
<1> HIDE DEF Calls
<1> QED
  BY <1>3, <1>5, <1>6, BootDomain DEF BootPages

LEMMA KernelFrames ==
    /\ \A v \in DOMAIN BootMap : BootMap[v] \in Nat
    /\ \A v, w \in KernelPages : v # w => BootMap[v] # BootMap[w]
<1>1. \A f \in BootFrames : BootFrame(f) \in Nat
  <2> SUFFICES ASSUME NEW f \in BootFrames PROVE BootFrame(f) \in Nat
    OBVIOUS
  <2>1. 0 \in Int /\ f - 1 \in Int
    BY DEF BootFrames
  <2>2. IsFiniteSet(0..(f - 1))
    BY <2>1, FS_Interval
  <2> QED
    BY <2>2, FS_Subset, FS_CardinalityType DEF BootFrame
<1>2. \A f, g \in BootFrames : f # g => BootFrame(f) # BootFrame(g)
  <2> SUFFICES ASSUME NEW f \in BootFrames, NEW g \in BootFrames, f # g
               PROVE  BootFrame(f) # BootFrame(g)
    OBVIOUS
  <2>1. f < g \/ g < f
    BY DEF BootFrames
  <2> QED
    BY <1>1, <2>1, BootFrameOrder
<1>3. KernelPages = BootPages \ {\h8, \h10}
  BY BootDomain DEF KernelPages
<1> QED
  BY <1>1, <1>2, <1>3, BootMapping, BootDomain DEF BootPages, BootFrames

-----------------------------------------------------------------------------
(* The invariant of the boot *)

Late == pc \notin {"display", "unmap", "mm_init", "pci"}
Sata == {"sata_map", "sata_enable", "sata_port"}

\* Where main is: what each stage may count on.
StageInv ==
    /\ pc \in Stages
    /\ step \in Nat
    /\ step <= (IF pc = "display" THEN VramPages ELSE IF pc = "unmap" THEN 2
                ELSE IF pc = "sata_map" THEN AhciPages ELSE 0)
    /\ mmInitialed <=> pc \notin {"display", "unmap", "mm_init"}
    /\ index \in Nat \ {0}
    /\ Late => slot > Slots /\ index <= Len(list)
    /\ ~Late => index = 1
    /\ pc \in Sata => list[index].ahci
    /\ pc = "loop" => index = 1 \/ list[index] = End
    /\ wanted \subseteq DemandPages \cup VramRegion
    /\ pc = "display" => wanted = {}
    /\ ~mmInitialed => wanted \subseteq VramRegion

\* The page table and the translation buffer.
TlbInv ==
    /\ pageTable \in [VPages -> Nat \cup {None}]
    /\ tlb \in [VPages -> Nat \cup {None}]
    /\ flush \subseteq VPages
    /\ \A v, w \in flush : v = w
    /\ TlbCoherent

KernelMapped == \A v \in KernelPages : pageTable[v] = BootMap[v]

\* The temporary mappings of the boot loader go one after the other.
TemporaryGone ==
    /\ pc = "unmap" /\ step > 0 => pageTable[\h8] = None
    /\ pc = "unmap" /\ step > 1 => pageTable[\h10] = None
    /\ pc \notin {"display", "unmap"} => pageTable[\h8] = None /\ pageTable[\h10] = None

PictureMapped ==
    \A n \in 0..(VramPages - 1) :
        pageTable[Vram(n)] = IF pc = "display" /\ n >= step THEN None ELSE VramFrame + n

\* The controller main is at.
Current == FunctionOf(list[index])

\* The window shows registers of controllers, and those of the current one as
\* far as they were mapped.
WindowMapped ==
    \A n \in 0..(AhciPages - 1) :
        /\ \/ pageTable[Ahci(n)] = None
           \/ \E c \in Controllers : pageTable[Ahci(n)] = machine.bar[c] + n
        /\ pc \in Sata /\ (pc = "sata_map" => n < step)
              => pageTable[Ahci(n)] = machine.bar[Current] + n

\* But for the time in which it is moved the window shows one controller.
OneWindow ==
    pc # "sata_map" =>
        \/ \A n \in 0..(AhciPages - 1) : pageTable[Ahci(n)] = None
        \/ \E c \in Controllers : \A n \in 0..(AhciPages - 1) :
               pageTable[Ahci(n)] = machine.bar[c] + n

\* Every frame handed out is mapped at one page, filled on demand.
DemandMapped ==
    /\ \A v \in DemandPages : pageTable[v] \in {None, 0} \cup HandedOut
    /\ \A f \in HandedOut : \E v \in DemandPages : pageTable[v] = f
    /\ \A v, w \in DemandPages :
          pageTable[v] \in HandedOut /\ pageTable[w] = pageTable[v] => v = w

\* Main has been at the controller.
Visited(c) == \E i \in 1..(index - 1) : FunctionOf(list[i]) = c

Idle    == [on |-> FALSE, ports |-> {}]
SetUp(c) == [on |-> TRUE, ports |-> machine.pi[c]]

\* Controllers main has been at are set up and the others are as they were, but
\* for the current one while its ports are programmed.
SetupInv ==
    /\ hba \in [Controllers -> [on : BOOLEAN, ports : SUBSET Ports]]
    /\ \A c \in Controllers : Visited(c) => hba[c] = SetUp(c)
    /\ \A c \in Controllers :
          ~Visited(c) /\ ~(pc = "sata_port" /\ c = Current) => hba[c] = Idle
    /\ pc = "sata_port" =>
          /\ ports \subseteq machine.pi[Current]
          /\ hba[Current] = [on |-> TRUE, ports |-> machine.pi[Current] \ ports]
    /\ pc # "sata_port" => ports = {}

PagesInv == TemporaryGone /\ PictureMapped /\ WindowMapped /\ OneWindow /\ DemandMapped
RamAll   == AllocInv /\ RamInv /\ NothingLost
BootInv  == RamAll /\ PciInv /\ TlbInv /\ KernelMapped /\ StageInv /\ PagesInv /\ SetupInv

-----------------------------------------------------------------------------
(* Steps of the boot, seen from its parts *)

\* A step of the boot is one of the memory manager's, or none.
LEMMA ManagerStep ==
    ASSUME [MemNext]_memVars PROVE [Next]_vars
  BY DEF MemNext, memVars, Next, CacheEntry, Kernel, Invlpg, Access, page_fault,
         display_init, mm_init_unmap, mm_init, pci_init, pci_init_done, FindController,
         sata_driver_init, sata_map, sata_enable, sata_port, sata_done, Loop

\* A step of the boot is one of the scan's, or none.
LEMMA BusStep ==
    ASSUME [MemNext]_memVars PROVE pci_init_step \/ UNCHANGED pciVars
  BY DEF MemNext, memVars, pci_init_step, CacheEntry, Kernel, Invlpg, Access, page_fault,
         display_init, mm_init_unmap, mm_init, pci_init, pci_init_done, FindController,
         sata_driver_init, sata_map, sata_enable, sata_port, sata_done, Loop

LEMMA RamAllStep ==
    ASSUME Below4G, TwoPagesReserved, RamAll, [MemNext]_memVars
    PROVE  RamAll'
  BY ManagerStep, AllocStep, RamStep, CountStep DEF RamAll

\* The functions of the bus are finitely many, and the list has room for one
\* entry more.
LEMMA FunctionsFit ==
    ASSUME machine \in Machines
    PROVE  /\ IsFiniteSet(Functions) /\ Cardinality(Functions) \in Nat
           /\ Cardinality(Functions) < PciPages * EntriesPerPage
<1>1. Slots \in Nat /\ Funs \in Nat
  BY PciAssumption
<1>2. IsFiniteSet(0..(Slots - 1)) /\ IsFiniteSet(0..(Funs - 1))
  BY <1>1, FS_Interval
<1>3. IsFiniteSet((0..(Slots - 1)) \X (0..(Funs - 1)))
  BY <1>2, FS_Product
<1>4. Functions \subseteq (0..(Slots - 1)) \X (0..(Funs - 1))
  BY DEF Functions, OnBus
<1>5. IsFiniteSet(Functions) /\ Cardinality(Functions) \in Nat
  BY <1>3, <1>4, FS_Subset, FS_CardinalityType
<1> QED
  BY <1>5, MemoryAssumption DEF Functions

\* The list never has more entries than the bus has functions: each has its own.
LEMMA ScannedFit ==
    ASSUME PciInv
    PROVE  Scanned \in Nat /\ Scanned <= Cardinality(Functions)
<1> DEFINE place == [i \in 1..Scanned |-> FunctionOf(list[i])]
<1>1. list \in Seq(Entries) /\ Len(list) \in Nat /\ machine \in Machines /\ Slots \in Nat
      /\ Funs \in Nat
  BY PciAssumption DEF PciInv, ScanType
<1>2. Scanned \in Nat /\ Scanned <= Len(list)
  BY <1>1 DEF Scanned, PciInv, ScanType
<1>3. ASSUME NEW i \in 1..Scanned, NEW j \in 1..Scanned, i < j
      PROVE  FunctionOf(list[i]) # FunctionOf(list[j])
  <2>1. i \in 1..Len(list) /\ j \in 1..Len(list)
    BY <1>1, <1>2
  <2>2. list[i] \in Entries /\ list[j] \in Entries
    BY <1>1, <2>1
  <2>3. Before(list[i], list[j])
    BY <1>3 DEF PciInv, ScanInv
  <2> QED
    BY <1>1, <2>2, <2>3 DEF Before, FunctionOf, Entries
<1>4. place \in Injection(1..Scanned, Functions)
  <2>1. place \in [1..Scanned -> Functions]
    BY DEF PciInv, ScanInv
  <2>2. ASSUME NEW i \in 1..Scanned, NEW j \in 1..Scanned, place[i] = place[j]
        PROVE  i = j
    <3>1. i < j \/ j < i \/ i = j
      BY <1>2
    <3> QED
      BY <1>3, <2>2, <3>1
  <2> QED
    BY <2>1, <2>2 DEF Injection, IsInjective
<1>5. Cardinality(1..Scanned) <= Cardinality(Functions)
  BY <1>1, <1>4, FunctionsFit, FS_Injection
<1>6. Cardinality(1..Scanned) = Scanned
  BY <1>2, FS_Interval
<1> QED
  BY <1>2, <1>5, <1>6

\* An entry of the list has a page of the region main fills on demand.
LEMMA EntryPageFits ==
    ASSUME machine \in Machines, NEW n \in 1..(Cardinality(Functions) + 1)
    PROVE  EntryPage(n) \in DemandPages
<1>1. /\ PciPages \in Nat \ {0} /\ EntriesPerPage \in Nat \ {0}
      /\ Cardinality(Functions) \in Nat /\ Cardinality(Functions) < PciPages * EntriesPerPage
  BY FunctionsFit, MemoryAssumption
<1> DEFINE a == n - 1
           q == a \div EntriesPerPage
           r == a % EntriesPerPage
<1>2. a \in Nat /\ a < PciPages * EntriesPerPage
  BY <1>1
<1> HIDE DEF a
<1>3. q \in Nat /\ r \in Nat /\ a = EntriesPerPage * q + r
  <2>1. a \in Nat /\ EntriesPerPage \in Nat \ {0}
    BY <1>1, <1>2
  <2>2. /\ a \div EntriesPerPage \in Nat /\ a % EntriesPerPage \in 0..(EntriesPerPage - 1)
        /\ a = EntriesPerPage * (a \div EntriesPerPage) + (a % EntriesPerPage)
    BY <2>1, Quotient
  <2> QED
    BY <2>1, <2>2
<1> HIDE DEF q, r
<1>4. EntriesPerPage * q < EntriesPerPage * PciPages
  BY <1>1, <1>2, <1>3
<1>5. q < PciPages
  BY <1>1, <1>3, <1>4, FactorOrder
<1>6. q \in 0..(PciPages - 1)
  BY <1>1, <1>3, <1>5
<1> QED
  BY <1>6 DEF q, a, EntryPage, DemandPages, PciRegion

\* The list main reads has the functions of the bus and its end, and main does not
\* read beyond that.
LEMMA ListBounds ==
    ASSUME PciInv
    PROVE  /\ Len(list) \in Nat /\ Len(list) <= Funs * Slots + 1
           /\ Funs * Slots \in Nat /\ Cardinality(Functions) \in Nat
           /\ Len(list) <= Cardinality(Functions) + 1
           /\ slot <= Slots => Len(list) <= Cardinality(Functions)
           /\ slot > Slots => \A i \in 1..Len(list) : list[i] = End <=> i = Len(list)
<1>1. /\ list \in Seq(Entries) /\ Slots \in Nat /\ Funs \in Nat /\ slot \in Nat
      /\ machine \in Machines
  BY PciAssumption DEF PciInv, ScanType
<1>2. Len(list) \in Nat /\ Funs * Slots \in Nat
  BY <1>1
<1>3. /\ Scanned \in {Len(list) - 1, Len(list)} /\ Scanned <= Funs * Slots
      /\ slot <= Slots => Scanned = Len(list)
  BY <1>1 DEF PciInv, Scanned
<1>4. slot > Slots => \A i \in 1..Len(list) : list[i] = End <=> i = Len(list)
  BY <1>2, ScanIsComplete DEF ListIsTheBus
<1>5. Scanned <= Cardinality(Functions) /\ Cardinality(Functions) \in Nat
  BY <1>1, ScannedFit, FunctionsFit
<1> QED
  BY <1>2, <1>3, <1>4, <1>5

\* An AHCI entry of the list is one of a controller; no two entries are equal.
LEMMA ListEntries ==
    ASSUME PciInv, slot > Slots, NEW i \in 1..Len(list), list[i] # End
    PROVE  /\ list[i].ahci <=> FunctionOf(list[i]) \in Controllers
           /\ \A j \in 1..(i - 1) : FunctionOf(list[j]) # FunctionOf(list[i])
           /\ i + 1 \in 1..Len(list)
<1>1. Len(list) \in Nat /\ i # Len(list)
  BY ListBounds
<1>2. i \in 1..Scanned /\ Scanned = Len(list) - 1
  BY <1>1 DEF Scanned
<1>3. list[i].ahci <=> FunctionOf(list[i]) \in Controllers
  BY <1>2 DEF PciInv, ScanInv
<1>4. ASSUME NEW j \in 1..(i - 1) PROVE FunctionOf(list[j]) # FunctionOf(list[i])
  <2>1. j \in 1..Scanned /\ j < i
    BY <1>1, <1>2
  <2>2. Before(list[j], list[i])
    BY <1>2, <2>1 DEF PciInv, ScanInv
  <2>3. list \in Seq(Entries) /\ j \in 1..Len(list)
    BY <1>1, <1>2, <2>1 DEF PciInv, ScanType
  <2>4. list[j] \in Entries /\ list[i] \in Entries
    BY <2>3
  <2>5. Slots \in Nat /\ Funs \in Nat
    BY PciAssumption
  <2> QED
    BY <2>2, <2>4, <2>5 DEF Before, FunctionOf, Entries
<1> QED
  BY <1>1, <1>3, <1>4

-----------------------------------------------------------------------------
(* The page table and the translation buffer *)

LEMMA Numbers ==
    /\ VramPages \in 1..2048 /\ AhciPages \in 1..4 /\ VramFrame \in Nat
    /\ None \notin Nat
    /\ \A n \in 0..(VramPages - 1) : Vram(n) \in VramRegion
    /\ \A n \in 0..(AhciPages - 1) : Ahci(n) \in AhciRegion
    /\ NullPage \in DemandPages /\ CommandRegion \subseteq DemandPages
  BY MemoryAssumption DEF None, VramRegion, AhciRegion, DemandPages

\* Regions have no page in common.
LEMMA Apart ==
    /\ KernelPages = BootPages \ {\h8, \h10} /\ KernelPages \subseteq VPages
    /\ \h8 \in VPages /\ \h10 \in VPages
    /\ VramRegion \subseteq VPages /\ AhciRegion \subseteq VPages /\ DemandPages \subseteq VPages
    /\ VramRegion \cap (BootPages \cup AhciRegion \cup DemandPages) = {}
    /\ AhciRegion \cap (BootPages \cup DemandPages) = {}
    /\ DemandPages \cap BootPages = {}
<1>1. /\ \A v \in VramRegion : v \in Int /\ v > \hc0fff /\ v < \hc1800
      /\ \A v \in AhciRegion : v \in Int /\ v > \hc009f /\ v < \hc00a4
      /\ \A v \in DemandPages :
            v \in Int /\ (v = 0 \/ (v > \hc001f /\ v < \hc00a0) \/ (v > \hc00a3 /\ v < \hc00e4))
  BY Regions
<1>2. \A v \in BootPages :
        v = \h8 \/ v = \h10 \/ (v > \hbffff /\ v < \hc0013) \/ v = \hc0600 \/ v > \hffbf7
  BY DEF BootPages
<1>3. /\ \A v \in VramRegion : v \notin BootPages /\ v \notin AhciRegion /\ v \notin DemandPages
      /\ \A v \in AhciRegion : v \notin BootPages /\ v \notin DemandPages
      /\ \A v \in DemandPages : v \notin BootPages
  BY <1>1, <1>2
<1> QED
  BY <1>3, Regions, BootDomain DEF KernelPages, BootPages

\* A frame of the picture or of a controller's window is a device's: no RAM that
\* is handed out and none of the kernel's own.
Devices == Picture \cup UNION {Window(machine, c) : c \in Controllers}

LEMMA DevicesOutside ==
    ASSUME machine \in Machines, NEW f \in Devices
    PROVE  OutsideRam(f)
  BY MemoryAssumption DEF Devices, Controllers

\* A place in the window shows another frame for every controller, and for none of
\* them one of the picture.
LEMMA BarsApart ==
    ASSUME machine \in Machines, NEW c \in Controllers, NEW i \in 0..(AhciPages - 1)
    PROVE  /\ machine.bar[c] + i \in Nat
           /\ machine.bar[c] + i \in Devices /\ machine.bar[c] + i \notin Picture
           /\ \A d \in Controllers : machine.bar[c] + i = machine.bar[d] + i => c = d
           /\ \A j \in 0..(AhciPages - 1) :
                 machine.bar[c] + i = machine.bar[c] + j => i = j
           /\ machine.pi[c] \subseteq Ports
<1>1. /\ machine.bar[c] \in Nat /\ machine.pi[c] \subseteq Ports
      /\ \A f \in Window(machine, c) : f \notin Picture
  BY MemoryAssumption DEF Controllers
<1>2. machine.bar[c] + i \in Window(machine, c) /\ machine.bar[c] + i \in Nat
  BY <1>1, Numbers DEF Window
<1>3. ASSUME NEW d \in Controllers, machine.bar[c] + i = machine.bar[d] + i PROVE c = d
  <2>1. machine.bar[d] \in Nat
    BY MemoryAssumption DEF Controllers
  <2>2. machine.bar[c] = machine.bar[d]
    BY <1>1, <1>3, <2>1
  <2>3. machine.bar[d] \in Registers(machine, c) \cap Registers(machine, d)
    BY <2>2 DEF Registers
  <2>4. c # d => Registers(machine, c) \cap Registers(machine, d) = {}
    BY MemoryAssumption DEF Controllers
  <2> QED
    BY <2>3, <2>4
<1> QED
  BY <1>1, <1>2, <1>3 DEF Devices

LEMMA EntryWritten ==
    ASSUME TlbInv, NEW v \in VPages, NEW f, SetEntry(v, f)
    PROVE  /\ pageTable'[v] = f
           /\ \A w \in VPages : w # v => pageTable'[w] = pageTable[w]
  BY DEF TlbInv, SetEntry

\* Where nothing is about to be invalidated the processor sees the page table.
LEMMA Seen ==
    ASSUME TlbInv, flush = {}, NEW v \in VPages
    PROVE  Translation(v) = pageTable[v]
  BY DEF TlbInv, TlbCoherent, Translation

\* What a step may do to them, the pages of the kernel excepted.
TableStep ==
    \/ \E v \in VPages : CacheEntry(v)
    \/ Invlpg
    \/ \E v \in VPages \ KernelPages, f \in Nat \cup {None} : SetEntry(v, f)
    \/ UNCHANGED mmuVars

LEMMA TlbStep ==
    ASSUME TlbInv, KernelMapped, TableStep
    PROVE  TlbInv' /\ KernelMapped'
<1>1. CASE \E v \in VPages : CacheEntry(v)
  <2> PICK v \in VPages : CacheEntry(v)
    BY <1>1
  <2> QED
    BY DEF CacheEntry, TlbInv, TlbCoherent, KernelMapped
<1>2. CASE Invlpg
  <2>1. /\ tlb' = [v \in VPages |-> IF v \in flush THEN None ELSE tlb[v]]
        /\ flush' = {} /\ pageTable' = pageTable
    BY <1>2 DEF Invlpg
  <2>2. TlbCoherent'
    BY <2>1 DEF TlbInv, TlbCoherent
  <2> QED
    BY <2>1, <2>2 DEF TlbInv, KernelMapped
<1>3. CASE \E v \in VPages \ KernelPages, f \in Nat \cup {None} : SetEntry(v, f)
  <2> PICK v \in VPages \ KernelPages, f \in Nat \cup {None} : SetEntry(v, f)
    BY <1>3
  <2>1. /\ pageTable' = [pageTable EXCEPT ![v] = f]
        /\ flush = {} /\ flush' = {v} /\ tlb' = tlb
    BY DEF SetEntry
  <2>2. pageTable' \in [VPages -> Nat \cup {None}]
    BY <2>1 DEF TlbInv
  <2>3. TlbCoherent'
    BY <2>1, EntryWritten DEF TlbInv, TlbCoherent
  <2>4. KernelMapped'
    BY EntryWritten, Apart DEF KernelMapped
  <2> QED
    BY <2>1, <2>2, <2>3, <2>4 DEF TlbInv
<1>4. CASE UNCHANGED mmuVars
  BY <1>4 DEF mmuVars, TlbInv, TlbCoherent, KernelMapped
<1> QED
  BY <1>1, <1>2, <1>3, <1>4 DEF TableStep

-----------------------------------------------------------------------------
(* What a step leaves alone *)

LEMMA DemandKept ==
    ASSUME DemandMapped, UNCHANGED users,
           \A v \in DemandPages : pageTable'[v] = pageTable[v]
    PROVE  DemandMapped'
  BY DEF DemandMapped, HandedOut

\* Pages stay where they are: only the stage moves on.
LEMMA PagesKept ==
    ASSUME PagesInv, step \in Nat, UNCHANGED <<pageTable, users, machine>>, TemporaryGone',
           pc = "display" => step >= VramPages,
           pc' # "display",
           pc # "sata_map" \/ OneWindow',
           pc' \in Sata => \A n \in 0..(AhciPages - 1) :
                (pc' = "sata_map" => n < step') => pageTable[Ahci(n)] = (machine.bar[Current])' + n
    PROVE  PagesInv'
<1>1. DemandMapped'
  BY DemandKept DEF PagesInv
<1>2. PictureMapped'
  <2>1. \A n \in 0..(VramPages - 1) : ~(pc = "display" /\ n >= step)
    BY Numbers
  <2> QED
    BY <2>1 DEF PagesInv, PictureMapped
<1>3. WindowMapped'
  BY DEF PagesInv, WindowMapped, Controllers
<1>4. OneWindow'
  BY DEF PagesInv, OneWindow, Controllers
<1> QED
  BY <1>1, <1>2, <1>3, <1>4 DEF PagesInv

LEMMA SetupKept ==
    ASSUME SetupInv, UNCHANGED <<machine, hba, ports, index>>,
           pc # "sata_port", pc' # "sata_port", index = 1 \/ UNCHANGED list
    PROVE  SetupInv'
<1>1. \A c : Visited(c)' <=> Visited(c)
  BY DEF Visited, FunctionOf
<1> QED
  BY <1>1 DEF SetupInv, Controllers, SetUp

LEMMA StillStep ==
    ASSUME BootInv, wanted' \subseteq wanted,
           UNCHANGED <<vars, pciVars, pageTable, pc, step, sataVars>>
    PROVE  (StageInv /\ PagesInv /\ SetupInv)'
<1>1. /\ UNCHANGED <<mmInitialed, users>> /\ UNCHANGED <<machine, slot, list>>
      /\ UNCHANGED <<index, ports, hba>> /\ UNCHANGED Current
  BY DEF vars, pciVars, sataVars, Current
<1>2. StageInv'
  BY <1>1 DEF BootInv, StageInv, Late
<1>3. PagesInv'
  <2>1. DemandMapped'
    BY <1>1, DemandKept DEF BootInv, PagesInv
  <2> QED
    BY <1>1, <2>1 DEF BootInv, PagesInv, TemporaryGone, PictureMapped, WindowMapped,
                        OneWindow, Controllers
<1>4. SetupInv'
  <2>1. \A c : Visited(c)' <=> Visited(c)
    BY <1>1 DEF Visited
  <2> QED
    BY <1>1, <2>1 DEF BootInv, SetupInv, Controllers, SetUp
<1> QED
  BY <1>2, <1>3, <1>4

-----------------------------------------------------------------------------
(* The processor and the page-fault handler *)

LEMMA ProcessorStep ==
    ASSUME BootInv,
           (\E v \in VPages : CacheEntry(v)) \/ Invlpg \/ (\E v \in VPages : Access(v)) \/ Loop
              \/ UNCHANGED memVars
    PROVE  TableStep /\ (StageInv /\ PagesInv /\ SetupInv)'
<1>1. TableStep
  BY DEF TableStep, CacheEntry, Invlpg, Access, Loop, memVars
<1>2. wanted' \subseteq wanted /\ UNCHANGED <<vars, pciVars, pageTable, pc, step, sataVars>>
  BY DEF CacheEntry, Invlpg, Access, Loop, memVars, mainVars, mmuVars
<1> QED
  BY <1>1, <1>2, StillStep

\* What alloc_4k_phys does to the frames handed out.
LEMMA Allocation ==
    ASSUME RamAll, Below4G, alloc_4k_phys
    PROVE  \/ /\ FrameOf(result') \in Nat \ {0}
              /\ FrameOf(result') \notin HandedOut
              /\ HandedOut' = HandedOut \cup {FrameOf(result')}
           \/ /\ FreePages = {}
              /\ FrameOf(result') = 0
              /\ HandedOut' = HandedOut
<1>1. CASE \E p \in FreePages : Take(p)
  <2> PICK p \in FreePages : Take(p)
    BY <1>1
  <2>1. /\ FrameOf(result') = p /\ HandedOut' = HandedOut \cup {p} /\ users[p] = 0
    BY TakeStep DEF RamAll
  <2>2. p \in Frames \ {0}
    BY FreeFrames DEF RamAll
  <2>3. p \in Nat
    BY <2>2, PhysMemAssumption DEF Frames
  <2> QED
    BY <2>1, <2>2, <2>3 DEF HandedOut
<1>2. CASE FreePages = {} /\ result' = NULL /\ UNCHANGED <<bitmap, users>>
  BY <1>2, FrameOfNull DEF HandedOut
<1> QED
  BY <1>1, <1>2 DEF alloc_4k_phys

\* A fault is on a page filled on demand that has no frame.
LEMMA FaultedPage ==
    ASSUME BootInv, NEW v \in VPages, Accessing(v), Translation(v) = None
    PROVE  v \in DemandPages /\ pageTable[v] = None /\ flush = {} /\ pc # "display" /\ mmInitialed
<1>1. v \in wanted /\ flush = {}
  BY DEF Accessing
<1>2. pageTable[v] = None
  BY <1>1, Seen DEF BootInv
<1>3. pc # "display"
  BY <1>1 DEF BootInv, StageInv
<1>4. \A n \in 0..(VramPages - 1) : pageTable[Vram(n)] # None
  BY <1>3, Numbers DEF BootInv, PagesInv, PictureMapped
<1>5. v \notin VramRegion
  BY <1>2, <1>4 DEF VramRegion
<1> QED
  BY <1>1, <1>2, <1>3, <1>5 DEF BootInv, StageInv

\* A fault maps a frame nobody has, or frame 0, at the page it was on.
LEMMA FaultStep ==
    ASSUME BootInv, Below4G, NEW v \in VPages, page_fault(v)
    PROVE  TableStep /\ (StageInv /\ PagesInv /\ SetupInv)'
<1> DEFINE f == FrameOf(result')
<1>1. /\ v \in DemandPages /\ pageTable[v] = None /\ pc # "display" /\ mmInitialed
      /\ alloc_4k_phys /\ SetEntry(v, f)
      /\ UNCHANGED <<pciVars, mainVars, sataVars>>
  BY FaultedPage DEF page_fault, kernel_page_mmap
<1>2. /\ UNCHANGED <<machine, slot, list>> /\ UNCHANGED <<pc, step, wanted>>
      /\ UNCHANGED <<index, ports, hba>> /\ UNCHANGED mmInitialed /\ UNCHANGED Current
  BY <1>1 DEF pciVars, mainVars, sataVars, alloc_4k_phys, Current
<1>3. \/ f \in Nat \ {0} /\ f \notin HandedOut /\ HandedOut' = HandedOut \cup {f}
      \/ f = 0 /\ HandedOut' = HandedOut
  BY <1>1, Allocation DEF BootInv
<1>4. pageTable'[v] = f /\ \A w \in VPages : w # v => pageTable'[w] = pageTable[w]
  BY <1>1, EntryWritten DEF BootInv
<1> HIDE DEF f
<1>5. v \notin BootPages /\ v \notin VramRegion /\ v \notin AhciRegion
  BY <1>1, Apart
<1>6. TableStep
  BY <1>1, <1>3, <1>5, Apart DEF TableStep
<1>7. StageInv'
  BY <1>2 DEF BootInv, StageInv, Late
<1>8. DemandMapped'
  <2>1. DemandMapped /\ 0 \notin HandedOut /\ None \notin HandedOut
    <3>1. \A g \in HandedOut : g \in Nat /\ g # 0
      BY PhysMemAssumption DEF BootInv, RamAll, AllocInv, Pages
    <3> QED
      BY <3>1, Numbers DEF BootInv, PagesInv
  <2>2. v \in DemandPages /\ DemandPages \subseteq VPages
    BY <1>1, Apart
  <2>3. f \notin HandedOut
    BY <1>3, <2>1
  <2>4. \A w \in DemandPages : w # v => (pageTable'[w] = pageTable[w] /\ pageTable[w] # f) \/ f = 0
    BY <1>3, <1>4, <2>1, <2>2, <2>3, Numbers DEF DemandMapped
  <2>5. \A w \in DemandPages : pageTable'[w] \in {None, 0} \cup HandedOut'
    BY <1>3, <1>4, <2>1, <2>2 DEF DemandMapped
  <2>6. \A g \in HandedOut' : \E w \in DemandPages : pageTable'[w] = g
    <3>1. \A g \in HandedOut : \E w \in DemandPages : w # v /\ pageTable[w] = g
      BY <1>1, <2>1 DEF DemandMapped
    <3> QED
      BY <1>3, <1>4, <2>2, <3>1
  <2>7. ASSUME NEW w \in DemandPages, NEW x \in DemandPages,
               pageTable'[w] \in HandedOut', pageTable'[x] = pageTable'[w]
        PROVE  w = x
    <3>1. CASE f = 0
      BY <1>3, <1>4, <2>1, <2>2, <2>7, <3>1 DEF DemandMapped
    <3>2. CASE f # 0
      BY <1>3, <1>4, <2>1, <2>2, <2>4, <2>7, <3>2 DEF DemandMapped
    <3> QED
      BY <3>1, <3>2
  <2> QED
    BY <2>5, <2>6, <2>7 DEF DemandMapped
<1>9. TemporaryGone' /\ PictureMapped' /\ WindowMapped' /\ OneWindow'
  <2>1. pageTable'[\h8] = pageTable[\h8] /\ pageTable'[\h10] = pageTable[\h10]
    BY <1>4, <1>5, Apart DEF BootPages
  <2>2. /\ \A n \in 0..(VramPages - 1) : pageTable'[Vram(n)] = pageTable[Vram(n)]
        /\ \A n \in 0..(AhciPages - 1) : pageTable'[Ahci(n)] = pageTable[Ahci(n)]
    BY <1>4, <1>5, Apart, Numbers
  <2> QED
    BY <1>2, <2>1, <2>2
       DEF BootInv, PagesInv, TemporaryGone, PictureMapped, WindowMapped, OneWindow, Controllers
<1>10. SetupInv'
  <2>1. \A c : Visited(c)' <=> Visited(c)
    BY <1>2 DEF Visited
  <2> QED
    BY <1>2, <2>1 DEF BootInv, SetupInv, Controllers, SetUp
<1> QED
  BY <1>6, <1>7, <1>8, <1>9, <1>10 DEF PagesInv

-----------------------------------------------------------------------------
(* display_init and mm_init *)

LEMMA DisplayStep ==
    ASSUME BootInv, display_init
    PROVE  TableStep /\ (StageInv /\ PagesInv /\ SetupInv)'
<1>1. /\ pc = "display" /\ step \in Nat /\ step <= VramPages /\ wanted = {}
      /\ ~mmInitialed /\ index = 1
      /\ UNCHANGED users /\ UNCHANGED mmInitialed
      /\ UNCHANGED <<machine, slot, list>> /\ UNCHANGED <<index, ports, hba>>
  BY DEF BootInv, StageInv, Late, display_init, vars, pciVars, sataVars
<1>3. CASE step < VramPages
  <2>1. /\ SetEntry(Vram(step), VramFrame + step) /\ step' = step + 1
        /\ UNCHANGED <<pc, wanted>>
    BY <1>3 DEF display_init, kernel_page_mmap
  <2>2. /\ step \in 0..(VramPages - 1) /\ Vram(step) \in VramRegion
        /\ VramFrame + step \in Nat /\ VramRegion \subseteq VPages
    BY <1>1, <1>3, Numbers, Apart
  <2>3. /\ pageTable'[Vram(step)] = VramFrame + step
        /\ \A w \in VPages : w # Vram(step) => pageTable'[w] = pageTable[w]
    BY <2>1, <2>2, EntryWritten DEF BootInv
  <2>4. TableStep
    BY <2>1, <2>2, Apart DEF TableStep
  <2>5. StageInv'
    BY <1>1, <2>1, <1>3, Numbers DEF BootInv, StageInv, Late, Sata
  <2>6. DemandMapped'
    BY <1>1, <2>2, <2>3, Apart, DemandKept DEF BootInv, PagesInv
  <2>7. PictureMapped'
    <3>1. \A n \in 0..(VramPages - 1) : n # step => Vram(n) # Vram(step)
      BY <1>1 DEF Vram
    <3>2. \A n \in 0..(VramPages - 1) : n # step => pageTable'[Vram(n)] = pageTable[Vram(n)]
      BY <2>2, <2>3, <3>1, Numbers
    <3> QED
      BY <1>1, <2>1, <2>2, <2>3, <3>2 DEF BootInv, PagesInv, PictureMapped
  <2>8. WindowMapped' /\ OneWindow' /\ TemporaryGone'
    <3>1. \A n \in 0..(AhciPages - 1) : pageTable'[Ahci(n)] = pageTable[Ahci(n)]
      BY <2>2, <2>3, Numbers, Apart
    <3> QED
      BY <1>1, <2>1, <3>1
         DEF BootInv, PagesInv, WindowMapped, OneWindow, TemporaryGone, Sata, Controllers
  <2>9. SetupInv'
    BY <1>1, <2>1, SetupKept DEF BootInv
  <2> QED
    BY <2>4, <2>5, <2>6, <2>7, <2>8, <2>9 DEF PagesInv
<1>4. CASE ~(step < VramPages)
  <2>1. wanted' = VramRegion /\ pc' = "unmap" /\ step' = 0 /\ UNCHANGED mmuVars
    BY <1>4 DEF display_init
  <2>2. UNCHANGED pageTable /\ step >= VramPages
    BY <1>1, <1>4, <2>1, Numbers DEF mmuVars
  <2>3. StageInv'
    BY <1>1, <2>1 DEF BootInv, StageInv, Late, Sata, Stages
  <2>4. PagesInv'
    BY <1>1, <2>1, <2>2, PagesKept DEF BootInv, TemporaryGone, Sata
  <2> QED
    BY <1>1, <2>1, <2>3, <2>4, SetupKept DEF TableStep, BootInv
<1> QED
  BY <1>3, <1>4

LEMMA UnmapStep ==
    ASSUME BootInv, mm_init_unmap
    PROVE  TableStep /\ (StageInv /\ PagesInv /\ SetupInv)'
<1>1. /\ pc = "unmap" /\ step \in Nat /\ wanted = {}
      /\ ~mmInitialed /\ index = 1
      /\ UNCHANGED users /\ UNCHANGED mmInitialed /\ UNCHANGED wanted
      /\ UNCHANGED <<machine, slot, list>> /\ UNCHANGED <<index, ports, hba>>
  BY DEF BootInv, StageInv, Late, mm_init_unmap, vars, pciVars, sataVars
<1>2. ASSUME NEW v \in {\h8, \h10}, SetEntry(v, None), UNCHANGED pc, step' \in {1, 2},
             v = \h10 => step = 1, step' = 2 => v = \h10
      PROVE  TableStep /\ (StageInv /\ PagesInv /\ SetupInv)'
  <2>1. v \in VPages /\ v \in BootPages /\ v \notin KernelPages
    BY Apart DEF BootPages
  <2>2. /\ pageTable'[v] = None
        /\ \A w \in VPages : w # v => pageTable'[w] = pageTable[w]
    BY <1>2, <2>1, EntryWritten DEF BootInv
  <2>3. TableStep
    BY <1>2, <2>1 DEF TableStep
  <2>4. StageInv'
    BY <1>1, <1>2 DEF BootInv, StageInv, Late, Sata
  <2>5. DemandMapped'
    BY <1>1, <2>1, <2>2, Apart, DemandKept DEF BootInv, PagesInv
  <2>6. PictureMapped' /\ WindowMapped' /\ OneWindow'
    <3>1. /\ \A n \in 0..(VramPages - 1) : pageTable'[Vram(n)] = pageTable[Vram(n)]
          /\ \A n \in 0..(AhciPages - 1) : pageTable'[Ahci(n)] = pageTable[Ahci(n)]
      <4>1. v \notin VramRegion /\ v \notin AhciRegion
        BY <2>1, Apart
      <4> QED
        BY <2>2, <4>1, Numbers, Apart
    <3> QED
      BY <1>1, <1>2, <3>1
         DEF BootInv, PagesInv, PictureMapped, WindowMapped, OneWindow, Sata, Controllers
  <2>7. TemporaryGone'
    BY <1>1, <1>2, <2>2, Apart DEF BootInv, PagesInv, TemporaryGone
  <2>8. SetupInv'
    BY <1>1, <1>2, SetupKept DEF BootInv
  <2> QED
    BY <2>3, <2>4, <2>5, <2>6, <2>7, <2>8 DEF PagesInv
<1>3. CASE step = 0 /\ SetEntry(\h8, None) /\ step' = 1 /\ UNCHANGED pc
  BY <1>2, <1>3
<1>4. CASE step = 1 /\ SetEntry(\h10, None) /\ step' = 2 /\ UNCHANGED pc
  BY <1>2, <1>4
<1>5. CASE step = 2 /\ pc' = "mm_init" /\ step' = 0 /\ UNCHANGED mmuVars
  <2>1. UNCHANGED pageTable
    BY <1>5 DEF mmuVars
  <2>2. StageInv'
    BY <1>1, <1>5 DEF BootInv, StageInv, Late, Sata, Stages
  <2>3. TemporaryGone'
    BY <1>1, <1>5, <2>1 DEF BootInv, PagesInv, TemporaryGone
  <2>4. PagesInv'
    BY <1>1, <1>5, <2>1, <2>3, PagesKept DEF BootInv, Sata
  <2> QED
    BY <1>1, <1>5, <2>2, <2>4, SetupKept DEF TableStep, BootInv
<1> QED
  BY <1>3, <1>4, <1>5 DEF mm_init_unmap, kernel_page_unmap

LEMMA ManagerInitStep ==
    ASSUME BootInv, mm_init
    PROVE  TableStep /\ (StageInv /\ PagesInv /\ SetupInv)'
<1>1. /\ pc = "mm_init" /\ step = 0 /\ step' = 0 /\ ~mmInitialed /\ index = 1
      /\ UNCHANGED <<pageTable, users, wanted>> /\ UNCHANGED mmuVars
      /\ UNCHANGED <<machine, slot, list>> /\ UNCHANGED <<index, ports, hba>>
      /\ \/ pc' = "mm_init" /\ UNCHANGED mmInitialed
         \/ pc' = "pci" /\ mmInitialed' = TRUE
  BY DEF BootInv, StageInv, Late, mm_init, mm_init_entry, mm_init_done, pciVars, sataVars, mmuVars
<1>2. StageInv'
  BY <1>1 DEF BootInv, StageInv, Late, Sata, Stages
<1>3. TemporaryGone'
  BY <1>1 DEF BootInv, PagesInv, TemporaryGone
<1>4. PagesInv'
  BY <1>1, <1>3, PagesKept DEF BootInv, Sata
<1> QED
  BY <1>1, <1>2, <1>4, SetupKept DEF TableStep, BootInv

-----------------------------------------------------------------------------
(* pci_init and main's loop over the list *)

LEMMA ScanningStep ==
    ASSUME BootInv, pci_init
    PROVE  TableStep /\ (StageInv /\ PagesInv /\ SetupInv)'
<1>1. /\ pc = "pci" /\ step = 0 /\ mmInitialed /\ index = 1 /\ wanted = {}
      /\ UNCHANGED <<users, mmInitialed>> /\ UNCHANGED mmuVars /\ UNCHANGED pageTable
      /\ UNCHANGED <<pc, step>> /\ UNCHANGED <<index, ports, hba>> /\ UNCHANGED machine
  BY DEF BootInv, StageInv, Late, pci_init, vars, mmuVars, sataVars, pci_init_read,
         pci_init_write, ProbeDevice, SkipFunction, WriteEntry, WriteEnd
<1>2. wanted' \subseteq DemandPages
  <2>1. CASE pci_init_write /\ wanted' = {EntryPage(Len(list'))}
    <3>1. list \in Seq(Entries) /\ slot <= Slots /\ machine \in Machines
      BY <2>1, PciAssumption
         DEF BootInv, PciInv, ScanType, NoFun, pci_init_write, WriteEntry, WriteEnd
    <3>2. \E e : list' = Append(list, e)
      BY <2>1 DEF pci_init_write, WriteEntry, WriteEnd
    <3>3. Len(list') = Len(list) + 1
      BY <3>1, <3>2
    <3>4. Len(list') \in 1..(Cardinality(Functions) + 1)
      BY <3>1, <3>3, ListBounds DEF BootInv
    <3> QED
      BY <2>1, <3>1, <3>4, EntryPageFits
  <2> QED
    BY <1>1, <2>1 DEF pci_init
<1>3. StageInv'
  BY <1>1, <1>2 DEF BootInv, StageInv, Late, Sata
<1>4. TemporaryGone'
  BY <1>1 DEF BootInv, PagesInv, TemporaryGone
<1>5. PagesInv'
  BY <1>1, <1>4, PagesKept DEF BootInv, Sata
<1> QED
  BY <1>1, <1>3, <1>5, SetupKept DEF TableStep, BootInv

LEMMA ScannedStep ==
    ASSUME BootInv, pci_init_done
    PROVE  TableStep /\ (StageInv /\ PagesInv /\ SetupInv)'
<1>1. /\ pc = "pci" /\ step = 0 /\ mmInitialed /\ index = 1 /\ wanted = {}
      /\ slot > Slots /\ pc' \in {"loop", "list"}
      /\ wanted' \subseteq {NullPage, EntryPage(1)}
      /\ UNCHANGED <<users, mmInitialed>> /\ UNCHANGED mmuVars /\ UNCHANGED pageTable
      /\ UNCHANGED step /\ UNCHANGED <<index, ports, hba>> /\ UNCHANGED <<machine, slot, list>>
  BY DEF BootInv, StageInv, Late, pci_init_done, vars, mmuVars, sataVars, pciVars
<1>2. Len(list) >= 1 /\ Len(list) \in Nat
  BY <1>1, ListBounds DEF BootInv, PciInv, ScanType
<1>3. wanted' \subseteq DemandPages
  <2>1. 1 \in 1..(Cardinality(Functions) + 1) /\ machine \in Machines
    BY ListBounds DEF BootInv, PciInv, ScanType
  <2> QED
    BY <1>1, <2>1, EntryPageFits, Numbers
<1>4. StageInv'
  BY <1>1, <1>2, <1>3 DEF BootInv, StageInv, Late, Sata, Stages
<1>5. TemporaryGone'
  BY <1>1 DEF BootInv, PagesInv, TemporaryGone
<1>6. PagesInv'
  BY <1>1, <1>5, PagesKept DEF BootInv, Sata
<1> QED
  BY <1>1, <1>4, <1>6, SetupKept DEF TableStep, BootInv

\* The next entry main reads is in the list.
LEMMA NextEntry ==
    ASSUME BootInv, pc \in {"list"} \cup Sata, list[index] # End
    PROVE  /\ index \in 1..Len(list) /\ index + 1 \in 1..Len(list)
           /\ EntryPage(index + 1) \in DemandPages
<1>1. index \in 1..Len(list) /\ slot > Slots
  BY ListBounds DEF BootInv, StageInv, Late, Sata
<1>2. index + 1 \in 1..Len(list)
  BY <1>1, ListEntries DEF BootInv
<1>3. index + 1 \in 1..(Cardinality(Functions) + 1) /\ machine \in Machines
  BY <1>2, ListBounds DEF BootInv, PciInv, ScanType
<1> QED
  BY <1>1, <1>2, <1>3, EntryPageFits

LEMMA FindStep ==
    ASSUME BootInv, FindController
    PROVE  TableStep /\ (StageInv /\ PagesInv /\ SetupInv)'
<1>1. /\ pc = "list" /\ step = 0 /\ mmInitialed /\ wanted = {} /\ slot > Slots
      /\ index \in 1..Len(list)
      /\ UNCHANGED <<users, mmInitialed>> /\ UNCHANGED mmuVars /\ UNCHANGED pageTable
      /\ UNCHANGED step /\ UNCHANGED <<ports, hba>> /\ UNCHANGED <<machine, slot, list>>
  BY ListBounds DEF BootInv, StageInv, Late, Sata, FindController, vars, mmuVars, sataVars, pciVars
<1>2. TableStep
  BY <1>1 DEF TableStep
<1>3. pc' # "sata_map" => PagesInv'
  <2>1. TemporaryGone'
    BY <1>1 DEF BootInv, PagesInv, TemporaryGone, FindController
  <2> QED
    BY <1>1, <2>1, PagesKept DEF BootInv, Sata, FindController
<1>4. CASE list[index] = End /\ pc' = "loop" /\ UNCHANGED <<wanted, index>>
  <2>1. StageInv'
    BY <1>1, <1>4 DEF BootInv, StageInv, Late, Sata, Stages
  <2> QED
    BY <1>1, <1>2, <1>3, <1>4, <2>1, SetupKept DEF BootInv
<1>5. CASE list[index].ahci /\ pc' = "sata_map" /\ UNCHANGED <<wanted, index>>
  <2>1. StageInv'
    BY <1>1, <1>5, Numbers DEF BootInv, StageInv, Late, Sata, Stages
  <2>2. TemporaryGone'
    BY <1>1, <1>5 DEF BootInv, PagesInv, TemporaryGone
  <2>3. PagesInv'
    BY <1>1, <1>5, <2>2, PagesKept DEF BootInv, Sata
  <2> QED
    BY <1>1, <1>2, <1>5, <2>1, <2>3, SetupKept DEF BootInv
<1>6. CASE /\ list[index] # End /\ ~list[index].ahci /\ index' = index + 1
           /\ wanted' = {EntryPage(index + 1)} /\ UNCHANGED pc
  <2>1. index + 1 \in 1..Len(list) /\ EntryPage(index + 1) \in DemandPages
    BY <1>1, <1>6, NextEntry
  <2>2. StageInv'
    BY <1>1, <1>6, <2>1 DEF BootInv, StageInv, Late, Sata, Stages
  <2>3. Current \notin Controllers
    BY <1>1, <1>6, ListEntries DEF BootInv, Current
  <2>4. ASSUME NEW c \in Controllers PROVE Visited(c)' <=> Visited(c)
    <3>1. Visited(c)' <=> \E i \in 1..index : FunctionOf(list[i]) = c
      BY <1>1, <1>6 DEF Visited
    <3>2. Visited(c) <=> \E i \in 1..(index - 1) : FunctionOf(list[i]) = c
      BY DEF Visited
    <3>3. FunctionOf(list[index]) # c
      BY <2>3 DEF Current
    <3> QED
      BY <1>1, <3>1, <3>2, <3>3
  <2>5. SetupInv'
    BY <1>1, <1>6, <2>4 DEF BootInv, SetupInv, Controllers, SetUp
  <2> QED
    BY <1>1, <1>2, <1>3, <1>6, <2>2, <2>5
<1> QED
  BY <1>4, <1>5, <1>6 DEF FindController

-----------------------------------------------------------------------------
(* sata_driver_init *)

\* Main is at a controller that it has not been at.
LEMMA AtController ==
    ASSUME BootInv, pc \in Sata
    PROVE  /\ index \in 1..Len(list) /\ slot > Slots /\ list[index] # End
           /\ Current \in Controllers /\ ~Visited(Current)
           /\ machine \in Machines
           /\ Bar = machine.bar[Current]
<1>1. index \in 1..Len(list) /\ slot > Slots /\ list[index].ahci
  BY ListBounds DEF BootInv, StageInv, Late, Sata
<1>2. list[index] # End
  BY <1>1 DEF End
<1>3. Current \in Controllers /\ ~Visited(Current)
  BY <1>1, <1>2, ListEntries DEF BootInv, Current, Visited
<1> QED
  BY <1>1, <1>2, <1>3 DEF Bar, Current, FunctionOf, BootInv, PciInv, ScanType

LEMMA MapWindowStep ==
    ASSUME BootInv, sata_map
    PROVE  TableStep /\ (StageInv /\ PagesInv /\ SetupInv)'
<1>1. /\ pc = "sata_map" /\ step \in 0..AhciPages /\ mmInitialed
      /\ UNCHANGED <<users, mmInitialed>>
      /\ UNCHANGED <<machine, slot, list>> /\ UNCHANGED <<index, ports, hba>>
      /\ UNCHANGED Current
  BY Numbers DEF BootInv, StageInv, Late, sata_map, vars, pciVars, sataVars, Current
<1>2. /\ Current \in Controllers /\ Bar = machine.bar[Current] /\ machine \in Machines
  BY <1>1, AtController DEF Sata
<1>3. CASE /\ step < AhciPages /\ SetEntry(Ahci(step), Bar + step) /\ step' = step + 1
           /\ UNCHANGED <<pc, wanted>>
  <2>1. /\ step \in 0..(AhciPages - 1) /\ Ahci(step) \in AhciRegion /\ AhciRegion \subseteq VPages
        /\ Bar + step \in Nat
    BY <1>1, <1>2, <1>3, Numbers, Apart, BarsApart
  <2>2. /\ pageTable'[Ahci(step)] = Bar + step
        /\ \A w \in VPages : w # Ahci(step) => pageTable'[w] = pageTable[w]
    BY <1>3, <2>1, EntryWritten DEF BootInv
  <2>3. TableStep
    BY <1>3, <2>1, Apart DEF TableStep
  <2>4. StageInv'
    BY <1>1, <1>3, Numbers DEF BootInv, StageInv, Late, Sata
  <2>5. DemandMapped'
    BY <1>1, <2>1, <2>2, Apart, DemandKept DEF BootInv, PagesInv
  <2>6. TemporaryGone' /\ PictureMapped'
    <3>1. pageTable'[\h8] = pageTable[\h8] /\ pageTable'[\h10] = pageTable[\h10]
      BY <2>1, <2>2, Apart DEF BootPages
    <3>2. \A n \in 0..(VramPages - 1) : pageTable'[Vram(n)] = pageTable[Vram(n)]
      BY <2>1, <2>2, Numbers, Apart
    <3> QED
      BY <1>1, <1>3, <3>1, <3>2 DEF BootInv, PagesInv, TemporaryGone, PictureMapped
  <2>7. WindowMapped' /\ OneWindow'
    <3>1. \A n \in 0..(AhciPages - 1) : n # step => Ahci(n) # Ahci(step)
      BY <2>1 DEF Ahci
    <3>2. \A n \in 0..(AhciPages - 1) : n # step => pageTable'[Ahci(n)] = pageTable[Ahci(n)]
      BY <2>1, <2>2, <3>1, Numbers
    <3>3. \A n \in 0..(AhciPages - 1) : n < step' => n = step \/ n < step
      BY <1>3, <2>1
    <3> QED
      BY <1>1, <1>2, <1>3, <2>2, <3>2, <3>3
         DEF BootInv, PagesInv, WindowMapped, OneWindow, Sata, Controllers
  <2>8. SetupInv'
    BY <1>1, <1>3, SetupKept DEF BootInv
  <2> QED
    BY <2>3, <2>4, <2>5, <2>6, <2>7, <2>8 DEF PagesInv
<1>4. CASE /\ step = AhciPages /\ wanted' = CommandRegion /\ pc' = "sata_enable" /\ step' = 0
           /\ UNCHANGED mmuVars
  <2>1. UNCHANGED pageTable /\ TableStep
    BY <1>4 DEF mmuVars, TableStep
  <2>2. StageInv'
    BY <1>1, <1>4, Numbers DEF BootInv, StageInv, Late, Sata, Stages
  <2>3. TemporaryGone'
    BY <1>1, <1>4, <2>1 DEF BootInv, PagesInv, TemporaryGone
  <2>4. \A n \in 0..(AhciPages - 1) : pageTable[Ahci(n)] = machine.bar[Current] + n
    BY <1>1, <1>4, Numbers DEF BootInv, PagesInv, WindowMapped, Sata
  <2>5. OneWindow'
    BY <1>1, <1>2, <1>4, <2>1, <2>4 DEF OneWindow, Controllers
  <2>6. PagesInv'
    BY <1>1, <1>4, <2>1, <2>3, <2>4, <2>5, PagesKept DEF BootInv, Sata
  <2> QED
    BY <1>1, <1>4, <2>1, <2>2, <2>6, SetupKept DEF BootInv
<1> QED
  BY <1>3, <1>4 DEF sata_map, kernel_page_mmap

\* The window reaches the current controller and no other one.
LEMMA OneReached ==
    ASSUME BootInv, pc \in Sata, pc # "sata_map", flush = {}, NEW n \in 0..(AhciPages - 1)
    PROVE  /\ Translation(Ahci(n)) # None
           /\ Reached(Ahci(n)) = {Current}
<1>1. /\ Current \in Controllers /\ machine \in Machines
  BY AtController
<1>2. Translation(Ahci(n)) = machine.bar[Current] + n
  <2>1. Ahci(n) \in VPages
    BY Numbers, Apart
  <2>2. pageTable[Ahci(n)] = machine.bar[Current] + n
    BY DEF BootInv, PagesInv, WindowMapped
  <2> QED
    BY <2>1, <2>2, Seen DEF BootInv
<1>3. machine.bar[Current] + n \in Nat
  BY <1>1, BarsApart
<1>4. Ahci(n) - Ahci(0) = n
  BY Numbers DEF Ahci
<1>5. \A c \in Controllers : machine.bar[Current] + n = machine.bar[c] + n => c = Current
  BY <1>1, BarsApart
<1> QED
  BY <1>1, <1>2, <1>3, <1>4, <1>5, Numbers DEF Reached

LEMMA EnableStep ==
    ASSUME BootInv, sata_enable
    PROVE  TableStep /\ (StageInv /\ PagesInv /\ SetupInv)'
<1>1. /\ pc = "sata_enable" /\ pc' = "sata_port" /\ step = 0 /\ flush = {}
      /\ UNCHANGED <<users, mmInitialed, wanted, step>> /\ UNCHANGED mmuVars
      /\ UNCHANGED pageTable
      /\ UNCHANGED <<machine, slot, list>> /\ UNCHANGED index
      /\ UNCHANGED Current
  BY DEF BootInv, StageInv, sata_enable, vars, pciVars, mmuVars, Current
<1>2. Reached(Ahci(0)) = {Current}
  BY <1>1, OneReached, Numbers DEF Sata
<1>3. /\ Current \in Controllers /\ ~Visited(Current) /\ machine \in Machines
  BY <1>1, AtController DEF Sata
<1>4. /\ hba' = [c \in Controllers |-> [hba[c] EXCEPT !.on = @ \/ c = Current]]
      /\ ports' = machine.pi[Current]
  BY <1>2 DEF sata_enable
<1>5. StageInv'
  BY <1>1 DEF BootInv, StageInv, Late, Sata, Stages
<1>6. PagesInv'
  <2>1. TemporaryGone'
    BY <1>1 DEF BootInv, PagesInv, TemporaryGone
  <2> QED
    BY <1>1, <2>1, PagesKept DEF BootInv, PagesInv, WindowMapped, Sata
<1>7. SetupInv'
  <2>1. \A c : Visited(c)' <=> Visited(c)
    BY <1>1 DEF Visited
  <2>2. hba[Current] = Idle /\ hba \in [Controllers -> [on : BOOLEAN, ports : SUBSET Ports]]
    BY <1>1, <1>3 DEF BootInv, SetupInv
  <2>3. /\ hba'[Current] = [on |-> TRUE, ports |-> {}]
        /\ \A c \in Controllers : c # Current => hba'[c] = hba[c]
    <3>1. hba'[Current] = [Idle EXCEPT !.on = @ \/ Current = Current]
      BY <1>3, <1>4, <2>2
    <3>2. hba'[Current] = [on |-> TRUE, ports |-> {}]
      BY <3>1 DEF Idle
    <3>3. ASSUME NEW c \in Controllers, c # Current PROVE hba'[c] = hba[c]
      <4>1. hba'[c] = [hba[c] EXCEPT !.on = hba[c].on \/ c = Current]
        BY <1>4
      <4>2. hba[c] \in [on : BOOLEAN, ports : SUBSET Ports]
        BY <2>2
      <4>3. (hba[c].on \/ c = Current) = hba[c].on
        BY <3>3, <4>2
      <4> QED
        BY <4>1, <4>2, <4>3
    <3> QED
      BY <3>2, <3>3
  <2>4. hba' \in [Controllers -> [on : BOOLEAN, ports : SUBSET Ports]]
    BY <1>4, <2>2
  <2>5. \A c \in Controllers : Visited(c) => hba[c] = SetUp(c) /\ c # Current
    BY <1>3 DEF BootInv, SetupInv
  <2>6. \A c \in Controllers : ~Visited(c) => hba[c] = Idle
    BY <1>1 DEF BootInv, SetupInv
  <2>7. machine.pi[Current] \ ports' = {}
    BY <1>4
  <2> QED
    BY <1>1, <1>3, <1>4, <2>1, <2>3, <2>4, <2>5, <2>6, <2>7 DEF SetupInv, Controllers, SetUp
<1> QED
  BY <1>1, <1>5, <1>6, <1>7 DEF TableStep

LEMMA PortStep ==
    ASSUME BootInv, sata_port
    PROVE  TableStep /\ (StageInv /\ PagesInv /\ SetupInv)'
<1>1. /\ pc = "sata_port" /\ pc' = "sata_port" /\ step = 0 /\ flush = {} /\ wanted = {}
      /\ UNCHANGED <<users, mmInitialed, step>> /\ UNCHANGED mmuVars
      /\ UNCHANGED pageTable
      /\ UNCHANGED <<machine, slot, list>> /\ UNCHANGED index
      /\ UNCHANGED Current
  BY DEF BootInv, StageInv, sata_port, vars, pciVars, mmuVars, Current
<1>2. /\ Current \in Controllers /\ ~Visited(Current) /\ machine \in Machines
      /\ machine.pi[Current] \subseteq Ports
  <2>1. Current \in Controllers /\ ~Visited(Current) /\ machine \in Machines
    BY <1>1, AtController DEF Sata
  <2> QED
    BY <2>1, BarsApart, Numbers
<1>3. ports \subseteq machine.pi[Current]
  BY <1>1 DEF BootInv, SetupInv
<1>4. PICK i \in ports :
          IF Translation(PortPage(i)) = None
          THEN wanted' = {PortPage(i)} /\ UNCHANGED <<ports, hba>>
          ELSE /\ ports' = ports \ {i}
               /\ hba' = [c \in Controllers |->
                             IF c \in Reached(PortPage(i))
                             THEN [hba[c] EXCEPT !.ports = @ \cup {i}] ELSE hba[c]]
               /\ UNCHANGED wanted
  BY DEF sata_port
<1>5. Translation(PortPage(i)) # None /\ Reached(PortPage(i)) = {Current}
  <2>1. PortPage(i) \in AhciRegion
    <3>1. \A j \in Ports : PortPage(j) \in AhciRegion
      BY MemoryAssumption
    <3> QED
      BY <1>2, <1>3, <3>1
  <2>2. PICK n \in 0..(AhciPages - 1) : PortPage(i) = Ahci(n)
    BY <2>1 DEF AhciRegion
  <2> QED
    BY <1>1, <2>2, OneReached DEF Sata
<1>6. /\ ports' = ports \ {i} /\ UNCHANGED wanted
      /\ hba' = [c \in Controllers |->
                    IF c = Current THEN [hba[c] EXCEPT !.ports = @ \cup {i}] ELSE hba[c]]
  BY <1>4, <1>5
<1>7. StageInv'
  BY <1>1, <1>6 DEF BootInv, StageInv, Late, Sata, Stages
<1>8. PagesInv'
  <2>1. TemporaryGone'
    BY <1>1 DEF BootInv, PagesInv, TemporaryGone
  <2> QED
    BY <1>1, <2>1, PagesKept DEF BootInv, PagesInv, WindowMapped, Sata
<1>9. SetupInv'
  <2>1. \A c : Visited(c)' <=> Visited(c)
    BY <1>1 DEF Visited
  <2>2. /\ hba[Current] = [on |-> TRUE, ports |-> machine.pi[Current] \ ports]
        /\ hba \in [Controllers -> [on : BOOLEAN, ports : SUBSET Ports]]
    BY <1>1 DEF BootInv, SetupInv
  <2>3. (machine.pi[Current] \ ports) \cup {i} = machine.pi[Current] \ (ports \ {i})
    BY <1>3
  <2>4. /\ hba'[Current] = [on |-> TRUE, ports |-> machine.pi[Current] \ (ports \ {i})]
        /\ \A c \in Controllers : c # Current => hba'[c] = hba[c]
    <3>1. hba'[Current] = [hba[Current] EXCEPT !.ports = hba[Current].ports \cup {i}]
      BY <1>2, <1>6
    <3>2. hba'[Current] = [on |-> TRUE, ports |-> (machine.pi[Current] \ ports) \cup {i}]
      <4>1. hba[Current] \in [on : BOOLEAN, ports : SUBSET Ports]
        BY <1>2, <2>2
      <4>2. hba[Current].on = TRUE /\ hba[Current].ports = machine.pi[Current] \ ports
        BY <2>2
      <4>3. /\ hba'[Current] \in [on : BOOLEAN, ports : SUBSET Ports]
            /\ hba'[Current].on = hba[Current].on
            /\ hba'[Current].ports = hba[Current].ports \cup {i}
        BY <1>2, <1>3, <3>1, <4>1
      <4>4. /\ hba'[Current] \in [on : BOOLEAN, ports : SUBSET Ports]
            /\ hba'[Current].on = TRUE
            /\ hba'[Current].ports = (machine.pi[Current] \ ports) \cup {i}
        BY <4>2, <4>3
      <4> QED
        BY <4>4
    <3>3. \A c \in Controllers : c # Current => hba'[c] = hba[c]
      BY <1>6
    <3> QED
      BY <2>3, <3>2, <3>3
  <2>5. hba' \in [Controllers -> [on : BOOLEAN, ports : SUBSET Ports]]
    BY <1>2, <1>3, <1>6, <2>2
  <2>6. \A c \in Controllers : Visited(c) => hba[c] = SetUp(c) /\ c # Current
    BY <1>2 DEF BootInv, SetupInv
  <2>7. \A c \in Controllers : ~Visited(c) /\ c # Current => hba[c] = Idle
    BY <1>1 DEF BootInv, SetupInv
  <2> QED
    BY <1>1, <1>2, <1>3, <1>6, <2>1, <2>4, <2>5, <2>6, <2>7 DEF SetupInv, Controllers, SetUp
<1> QED
  BY <1>1, <1>7, <1>8, <1>9 DEF TableStep

LEMMA ControllerDoneStep ==
    ASSUME BootInv, sata_done
    PROVE  TableStep /\ (StageInv /\ PagesInv /\ SetupInv)'
<1>1. /\ pc = "sata_port" /\ pc' = "list" /\ step = 0 /\ ports = {} /\ mmInitialed
      /\ index' = index + 1 /\ wanted' = {EntryPage(index + 1)}
      /\ UNCHANGED <<users, mmInitialed, step>> /\ UNCHANGED mmuVars
      /\ UNCHANGED pageTable
      /\ UNCHANGED <<machine, slot, list>> /\ UNCHANGED <<ports, hba>>
  BY DEF BootInv, StageInv, sata_done, vars, pciVars, mmuVars
<1>2. /\ Current \in Controllers /\ ~Visited(Current) /\ list[index] # End
      /\ index \in 1..Len(list) /\ slot > Slots
  BY <1>1, AtController DEF Sata
<1>3. index + 1 \in 1..Len(list) /\ EntryPage(index + 1) \in DemandPages
  BY <1>1, <1>2, NextEntry DEF Sata
<1>4. StageInv'
  BY <1>1, <1>2, <1>3 DEF BootInv, StageInv, Late, Sata, Stages
<1>5. PagesInv'
  <2>1. TemporaryGone'
    BY <1>1 DEF BootInv, PagesInv, TemporaryGone
  <2> QED
    BY <1>1, <2>1, PagesKept DEF BootInv, Sata
<1>6. SetupInv'
  <2>1. ASSUME NEW c PROVE Visited(c)' <=> Visited(c) \/ c = Current
    <3>1. Visited(c)' <=> \E i \in 1..index : FunctionOf(list[i]) = c
      BY <1>1, <1>2 DEF Visited
    <3>2. Visited(c) <=> \E i \in 1..(index - 1) : FunctionOf(list[i]) = c
      BY DEF Visited
    <3>3. FunctionOf(list[index]) = Current
      BY DEF Current
    <3> QED
      BY <1>2, <3>1, <3>2, <3>3
  <2>2. hba[Current] = SetUp(Current)
    <3>1. hba[Current] = [on |-> TRUE, ports |-> machine.pi[Current] \ {}]
      BY <1>1 DEF BootInv, SetupInv
    <3>2. machine.pi[Current] \ {} = machine.pi[Current]
      OBVIOUS
    <3> QED
      BY <3>1, <3>2 DEF SetUp
  <2> QED
    BY <1>1, <2>1, <2>2 DEF BootInv, SetupInv, Controllers, SetUp
<1> QED
  BY <1>1, <1>4, <1>5, <1>6 DEF TableStep

-----------------------------------------------------------------------------
(* The invariant holds of every boot *)

LEMMA BootInit == MemInit => BootInv
<1> SUFFICES ASSUME MemInit PROVE BootInv
  OBVIOUS
<1>1. RamAll
  BY AllocInit, RamInit DEF MemInit, RamAll, NothingLost, Init
<1>2. PciInv
  BY ScanInit DEF MemInit
<1>3. /\ pageTable = [v \in VPages |-> IF v \in DOMAIN BootMap THEN BootMap[v] ELSE None]
      /\ tlb = [v \in VPages |-> None] /\ flush = {} /\ pc = "display" /\ step = 0
      /\ wanted = {} /\ index = 1 /\ ports = {} /\ ~mmInitialed
      /\ hba = [c \in Controllers |-> Idle]
  BY DEF MemInit, Init, Idle
<1>4. TlbInv
  BY <1>3, KernelFrames DEF TlbInv, TlbCoherent
<1>5. KernelMapped
  BY <1>3, Apart DEF KernelMapped, KernelPages
<1>6. StageInv
  BY <1>3, Numbers DEF StageInv, Late, Sata, Stages
<1>7. \A v \in VramRegion \cup AhciRegion \cup DemandPages : pageTable[v] = None
  BY <1>3, Apart, BootDomain
<1>8. HandedOut = {}
  BY DEF MemInit, Init, HandedOut
<1>9. PagesInv
  BY <1>3, <1>7, <1>8, Numbers
     DEF PagesInv, TemporaryGone, PictureMapped, WindowMapped, OneWindow, DemandMapped, Sata
<1>10. SetupInv
  BY <1>3 DEF SetupInv, Visited, Idle
<1> QED
  BY <1>1, <1>2, <1>4, <1>5, <1>6, <1>9, <1>10 DEF BootInv

LEMMA BootStep ==
    ASSUME Below4G, TwoPagesReserved, BootInv, [MemNext]_memVars
    PROVE  BootInv'
<1>1. RamAll' /\ PciInv'
  BY RamAllStep, BusStep, ScanStep DEF BootInv
<1>2. TableStep /\ (StageInv /\ PagesInv /\ SetupInv)'
  <2>1. CASE (\E v \in VPages : Access(v)) \/ Invlpg \/ Loop \/ UNCHANGED memVars
    BY <2>1, ProcessorStep
  <2>2. CASE \E v \in CachedPages : CacheEntry(v)
    BY <2>2, ProcessorStep, MemoryAssumption
  <2>3. CASE \E v \in VPages : page_fault(v)
    BY <2>3, FaultStep
  <2>4. CASE display_init \/ mm_init_unmap \/ mm_init
    BY <2>4, DisplayStep, UnmapStep, ManagerInitStep
  <2>5. CASE pci_init \/ pci_init_done \/ FindController
    BY <2>5, ScanningStep, ScannedStep, FindStep
  <2>6. CASE sata_driver_init
    BY <2>6, MapWindowStep, EnableStep, PortStep, ControllerDoneStep DEF sata_driver_init
  <2> QED
    BY <2>1, <2>2, <2>3, <2>4, <2>5, <2>6 DEF MemNext, Kernel
<1>3. TlbInv' /\ KernelMapped'
  BY <1>2, TlbStep DEF BootInv
<1> QED
  BY <1>1, <1>2, <1>3 DEF BootInv

\* The invariant of the boot holds of every behaviour, whatever the translation
\* buffer does, where all RAM has 32-bit addresses (Below4G) and the limit is at
\* least two pages (TwoPagesReserved).  So do the theorems that follow from it.
THEOREM BootInvariant ==
    ASSUME Below4G, TwoPagesReserved PROVE MemSpec => []BootInv
<1>1. MemInit => BootInv
  BY BootInit
<1>2. BootInv /\ [MemNext]_memVars => BootInv'
  BY BootStep
<1> QED
  BY <1>1, <1>2, PTL DEF MemSpec

\* Every variable keeps its type and a cached translation is never one that the
\* page table no longer has, but between a store and its invlpg (mm.c).
THEOREM TranslationsAreCurrent ==
    ASSUME Below4G, TwoPagesReserved PROVE MemSpec => []MmuInv
<1>1. BootInv => MmuInv
  <2> SUFFICES ASSUME BootInv PROVE MmuInv
    OBVIOUS
  <2>1. Cardinality(flush) <= 1
    <3>1. CASE flush = {}
      BY <3>1, FS_EmptySet
    <3>2. CASE flush # {}
      <4>1. PICK v \in flush : flush = {v}
        BY <3>2 DEF BootInv, TlbInv
      <4>2. Cardinality(flush) = 1
        <5>1. Cardinality({v}) = 1
          BY FS_Singleton
        <5> QED
          BY <4>1, <5>1
      <4> QED
        BY <4>2
    <3> QED
      BY <3>1, <3>2
  <2>2. step \in 0..(VramPages + AhciPages + 2)
    BY Numbers DEF BootInv, StageInv
  <2>3. index \in 1..(Slots * Funs + 1)
    <3>1. Slots * Funs = Funs * Slots
      BY PciAssumption
    <3> QED
      BY <3>1, ListBounds DEF BootInv, StageInv, Late
  <2>4. wanted \subseteq VPages
    BY Apart DEF BootInv, StageInv
  <2>5. ports \subseteq Ports
    <3>1. CASE pc = "sata_port"
      <4>1. Current \in Controllers /\ machine \in Machines /\ 0 \in 0..(AhciPages - 1)
        BY <3>1, AtController, Numbers DEF Sata
      <4>2. machine.pi[Current] \subseteq Ports
        BY <4>1, BarsApart
      <4> QED
        BY <3>1, <4>2 DEF BootInv, SetupInv
    <3>2. CASE pc # "sata_port"
      BY <3>2 DEF BootInv, SetupInv
    <3> QED
      BY <3>1, <3>2
  <2> QED
    BY <2>1, <2>2, <2>3, <2>4, <2>5
       DEF BootInv, RamAll, AllocInv, StageInv, TlbInv, SetupInv, MmuInv, MemTypeOK
<1> QED
  BY <1>1, BootInvariant, PTL

\* The scan of main's boot ends with the functions of the bus in the list: for any
\* number of devices and functions that leave room for the end of the list
\* (MemoryAssumption), whatever the memory map, the page faults and the controllers.
THEOREM BusIsListed == MemSpec => []ListIsTheBus
<1>1. MemInit => PciInv
  BY ScanInit DEF MemInit
<1>2. PciInv /\ [MemNext]_memVars => PciInv'
  BY BusStep, ScanStep
<1>3. PciInv => ListIsTheBus
  BY ScanIsComplete
<1> QED
  BY <1>1, <1>2, <1>3, PTL DEF MemSpec

\* After a debug boot every AHCI controller is enabled and has its ports programmed.
THEOREM EveryControllerIsSetUp ==
    ASSUME Below4G, TwoPagesReserved PROVE MemSpec => []ControllersAreSetUp
<1>1. BootInv => ControllersAreSetUp
  <2> SUFFICES ASSUME BootInv, pc = "loop", index > 1, NEW c \in Controllers
               PROVE  hba[c] = [on |-> TRUE, ports |-> machine.pi[c]]
    BY DEF ControllersAreSetUp
  <2>1. slot > Slots /\ index \in 1..Len(list) /\ index = Len(list)
    BY ListBounds DEF BootInv, StageInv, Late
  <2>2. c \in Functions
    <3>1. machine \in Machines
      BY DEF BootInv, PciInv, ScanType
    <3> QED
      BY <3>1, PciAssumption DEF Functions, OnBus, Controllers
  <2>3. Passed(c)
    BY <2>1, <2>2, PciAssumption DEF Passed, Functions, OnBus, BootInv, PciInv, ScanType
  <2>4. PICK i \in 1..Scanned : FunctionOf(list[i]) = c
    BY <2>2, <2>3 DEF BootInv, PciInv, ScanInv
  <2>5. Visited(c)
    BY <2>1, <2>4 DEF Visited, Scanned
  <2> QED
    BY <2>5 DEF BootInv, SetupInv, SetUp
<1> QED
  BY <1>1, BootInvariant, PTL

\* No fault, no remapping of the window and no unmapping moves a page of the kernel.
THEOREM KernelPagesStay ==
    ASSUME Below4G, TwoPagesReserved PROVE MemSpec => KernelStaysMapped
<1>1. BootInv' => \A v \in DOMAIN BootMap \ {\h8, \h10} : pageTable'[v] = BootMap[v]
  BY DEF BootInv, KernelMapped, KernelPages
<1> QED
  BY <1>1, BootInvariant, PTL DEF MemSpec, KernelStaysMapped

-----------------------------------------------------------------------------
(* Who shares a frame *)

\* The frames of the kernel's pages are below the limit, those handed out above it,
\* and no device has one of either.
LEMMA FrameRanges ==
    ASSUME BootInv
    PROVE  /\ \A v \in KernelPages :
                 /\ pageTable[v] \in Nat /\ pageTable[v] * PageSize < USABLE_PHY_ADDR_BASE
                 /\ pageTable[v] \notin Devices
           /\ \A f \in HandedOut : /\ f \in Nat \ {0} /\ f * PageSize >= USABLE_PHY_ADDR_BASE
                                   /\ f \notin Devices
<1>1. PageSize \in Nat \ {0} /\ USABLE_PHY_ADDR_BASE \in Nat /\ machine \in Machines
  BY PhysMemAssumption DEF BootInv, PciInv, ScanType
<1>2. ASSUME NEW v \in KernelPages
      PROVE  /\ pageTable[v] \in Nat /\ pageTable[v] * PageSize < USABLE_PHY_ADDR_BASE
             /\ pageTable[v] \notin Devices
  <2>1. v \in DOMAIN BootMap /\ pageTable[v] = BootMap[v]
    BY DEF KernelPages, BootInv, KernelMapped
  <2>2. BootMap[v] * PageSize < USABLE_PHY_ADDR_BASE
    BY <2>1, MemoryAssumption
  <2>3. pageTable[v] \in Nat /\ pageTable[v] * PageSize < USABLE_PHY_ADDR_BASE
    BY <2>1, <2>2, KernelFrames
  <2>4. pageTable[v] \in Devices => pageTable[v] * PageSize >= USABLE_PHY_ADDR_BASE
    BY <1>1, DevicesOutside DEF OutsideRam
  <2> QED
    BY <1>1, <2>3, <2>4
<1>3. ASSUME NEW f \in HandedOut
      PROVE  /\ f \in Nat \ {0} /\ f * PageSize >= USABLE_PHY_ADDR_BASE
             /\ f \notin Devices
  <2>1. f \in Pages /\ f * PageSize >= USABLE_PHY_ADDR_BASE
    BY DEF BootInv, RamAll, AllocInv
  <2>2. f \in Nat /\ f # 0
    BY <1>1, <2>1, PhysMemAssumption DEF Pages
  <2>3. PICK i \in 1..Len(memInfo) : memInfo[i].type = Ram /\ Covers(memInfo[i], f)
    BY DEF BootInv, RamAll, RamInv
  <2>4. memInfo \in MemoryMaps
    BY DEF BootInv, RamAll, AllocInv, TypeOK
  <2>5. f \notin Devices
    BY <1>1, <2>3, <2>4, DevicesOutside DEF OutsideRam
  <2> QED
    BY <2>1, <2>2, <2>5
<1> QED
  BY <1>2, <1>3

\* The kind of a mapped page tells its frame.
LEMMA FrameKinds ==
    ASSUME BootInv, mmInitialed, NEW v \in VPages, pageTable[v] # None, pageTable[v] # 0
    PROVE  \/ v \in KernelPages /\ pageTable[v] = BootMap[v]
                /\ pageTable[v] \notin Devices /\ pageTable[v] \notin HandedOut
           \/ v \in DemandPages /\ pageTable[v] \in HandedOut /\ pageTable[v] \notin Devices
           \/ \E n \in 0..(VramPages - 1) : v = Vram(n) /\ pageTable[v] = VramFrame + n
           \/ \E n \in 0..(AhciPages - 1), c \in Controllers :
                 v = Ahci(n) /\ pageTable[v] = machine.bar[c] + n
<1>1. pc \notin {"display", "unmap"}
  BY DEF BootInv, StageInv
<1>2. v \notin {\h8, \h10}
  BY <1>1 DEF BootInv, PagesInv, TemporaryGone
<1>3. v \in KernelPages \cup VramRegion \cup AhciRegion \cup DemandPages
  BY <1>2, Regions, Apart
<1>4. CASE v \in KernelPages
  <2>1. /\ pageTable[v] \in Nat /\ pageTable[v] * PageSize < USABLE_PHY_ADDR_BASE
        /\ pageTable[v] \notin Devices
    BY <1>4, FrameRanges
  <2>2. pageTable[v] \notin HandedOut
    BY <2>1, FrameRanges, PhysMemAssumption
  <2> QED
    BY <1>4, <2>1, <2>2 DEF BootInv, KernelMapped
<1>5. CASE v \in DemandPages
  BY <1>5, FrameRanges DEF BootInv, PagesInv, DemandMapped
<1>6. CASE v \in VramRegion
  BY <1>1, <1>6 DEF BootInv, PagesInv, PictureMapped, VramRegion
<1>7. CASE v \in AhciRegion
  BY <1>7 DEF BootInv, PagesInv, WindowMapped, AhciRegion
<1> QED
  BY <1>3, <1>4, <1>5, <1>6, <1>7

\* Once mm_init is done no two pages share a frame, frame 0 excepted, which page_fault
\* maps where there is no memory left, and pages of the window while it is moved.
THEOREM NoFrameIsShared ==
    ASSUME Below4G, TwoPagesReserved PROVE MemSpec => []NothingShared
<1>1. BootInv => NothingShared
  <2> SUFFICES ASSUME BootInv, mmInitialed, NEW v \in VPages, NEW w \in VPages, v # w,
                      pageTable[v] # None, pageTable[v] # 0, pageTable[w] = pageTable[v]
               PROVE  pc = "sata_map" /\ v \in AhciRegion /\ w \in AhciRegion
    BY FrameOfNull DEF NothingShared
  <2> DEFINE f == pageTable[v]
             Kernels(x) == x \in KernelPages /\ f = BootMap[x]
             Demanded(x) == x \in DemandPages /\ f \in HandedOut
             Shown(x) == \E n \in 0..(VramPages - 1) : x = Vram(n) /\ f = VramFrame + n
             Seat(x) == \E n \in 0..(AhciPages - 1), c \in Controllers :
                              x = Ahci(n) /\ f = machine.bar[c] + n
  <2>1. machine \in Machines
    BY DEF BootInv, PciInv, ScanType
  <2>2. ASSUME NEW x \in {v, w}
        PROVE  \/ Kernels(x) /\ f \notin Devices /\ f \notin HandedOut
               \/ Demanded(x) /\ f \notin Devices
               \/ Shown(x)
               \/ Seat(x)
    BY FrameKinds
  <2>3. ASSUME NEW x \in {v, w}, Shown(x)
        PROVE  f \in Devices /\ f \in Picture
    BY <2>3, Numbers DEF Picture, Devices
  <2>4. ASSUME NEW x \in {v, w}, Seat(x)
        PROVE  f \in Devices /\ f \notin Picture /\ x \in AhciRegion
    BY <2>1, <2>4, BarsApart DEF AhciRegion
  <2>5. Kernels(v) /\ Kernels(w) => v = w
    BY KernelFrames
  <2>6. Demanded(v) /\ Demanded(w) => v = w
    BY DEF BootInv, PagesInv, DemandMapped
  <2>7. Shown(v) /\ Shown(w) => v = w
    BY Numbers DEF Vram
  <2>8. ASSUME Seat(v), Seat(w), pc # "sata_map" PROVE v = w
    <3>1. PICK n \in 0..(AhciPages - 1) : v = Ahci(n)
      BY <2>8
    <3>2. PICK k \in 0..(AhciPages - 1) : w = Ahci(k)
      BY <2>8
    <3>3. PICK c \in Controllers :
             \A i \in 0..(AhciPages - 1) : pageTable[Ahci(i)] = machine.bar[c] + i
      BY <2>8, <3>1 DEF BootInv, PagesInv, OneWindow
    <3>4. machine.bar[c] + n = machine.bar[c] + k
      BY <3>1, <3>2, <3>3
    <3> QED
      BY <2>1, <3>1, <3>2, <3>4, BarsApart
  <2> HIDE DEF f, Kernels, Demanded, Shown, Seat
  <2>9. (Demanded(v) \/ Demanded(w)) => f \in HandedOut
    BY DEF Demanded
  <2> QED
    BY <2>2, <2>3, <2>4, <2>5, <2>6, <2>7, <2>8, <2>9
<1> QED
  BY <1>1, BootInvariant, PTL

\* The page table and the memory manager agree on who has which frame.
THEOREM FramesHaveTheirPage ==
    ASSUME Below4G, TwoPagesReserved PROVE MemSpec => []OwnersAreMapped
<1>1. BootInv => OwnersAreMapped
  <2> SUFFICES ASSUME BootInv, NEW f \in Frames \ {0}
               PROVE  users[f] = Cardinality({v \in DemandPages : pageTable[v] = f})
    BY FrameOfNull DEF OwnersAreMapped
  <2> DEFINE Owners == {v \in DemandPages : pageTable[v] = f}
  <2>1. f # None
    BY Numbers, PhysMemAssumption DEF Frames
  <2>2. CASE f \in HandedOut
    <3>1. PICK v \in DemandPages : Owners = {v}
      BY <2>2 DEF BootInv, PagesInv, DemandMapped
    <3>2. Cardinality({v}) = 1
      BY FS_Singleton
    <3>3. Cardinality(Owners) = 1
      BY <3>1, <3>2
    <3>4. users[f] = 1
      BY <2>2 DEF BootInv, RamAll, AllocInv
    <3> QED
      BY <3>3, <3>4
  <2>3. CASE f \notin HandedOut
    <3>1. Owners = {}
      BY <2>1, <2>3 DEF BootInv, PagesInv, DemandMapped
    <3>2. Cardinality(Owners) = 0
      BY <3>1, FS_EmptySet
    <3>3. users[f] = 0
      BY <2>3 DEF BootInv, RamAll, AllocInv, TypeOK, HandedOut
    <3> QED
      BY <3>2, <3>3
  <2> QED
    BY <2>2, <2>3
<1> QED
  BY <1>1, BootInvariant, PTL

-----------------------------------------------------------------------------
(* Frame 0 is mapped only where RAM is short *)

\* The RAM that mm_init finds is enough for all pages the boot fills on demand.
EnoughRam == mmInitialed => reported >= Cardinality(DemandPages)

\* No page has the frame that stands for no memory.
OwnFrames == \A v \in DemandPages : pageTable[v] \in {None} \cup HandedOut

LEMMA DemandIsFinite == IsFiniteSet(DemandPages)
<1>1. \A v \in DemandPages :
        v \in Int /\ (v = 0 \/ (v > \hc001f /\ v < \hc00a0) \/ (v > \hc00a3 /\ v < \hc00e4))
  BY Regions
<1>2. PICK last \in Nat : last = \hc00e3
  OBVIOUS
<1>3. \A v \in DemandPages : v \in Int /\ 0 <= v /\ v <= last
  BY <1>1, <1>2
<1>4. DemandPages \subseteq 0..last
  BY <1>3
<1>5. IsFiniteSet(0..last)
  BY FS_Interval
<1> QED
  BY <1>4, <1>5, FS_Subset

\* With a page left that has no frame, fewer frames are handed out than there are
\* pages: alloc_4k_phys finds a free one.
LEMMA FrameForFault ==
    ASSUME BootInv, OwnFrames, EnoughRam, mmInitialed,
           NEW v \in DemandPages, pageTable[v] = None
    PROVE  FreePages # {}
<1> SUFFICES ASSUME FreePages = {} PROVE FALSE
  OBVIOUS
<1> DEFINE Others == DemandPages \ {v}
           page == [f \in HandedOut |-> CHOOSE w \in DemandPages : pageTable[w] = f]
<1>1. /\ IsFiniteSet(Others) /\ Cardinality(DemandPages) \in Nat
      /\ Cardinality(Others) = Cardinality(DemandPages) - 1
  BY DemandIsFinite, FS_RemoveElement, FS_CardinalityType
<1>2. \A f \in HandedOut : page[f] \in Others /\ pageTable[page[f]] = f
  <2>1. None \notin HandedOut
    BY FrameRanges, Numbers
  <2> QED
    BY <2>1 DEF BootInv, PagesInv, DemandMapped
<1>3. page \in Injection(HandedOut, Others)
  <2>1. page \in [HandedOut -> Others]
    BY <1>2
  <2>2. \A f, g \in HandedOut : page[f] = page[g] => f = g
    BY <1>2
  <2> QED
    BY <2>1, <2>2 DEF Injection, IsInjective
<1>4. /\ IsFiniteSet(HandedOut) /\ Cardinality(HandedOut) <= Cardinality(Others)
  BY <1>1, <1>3, FS_Injection
<1>5. Cardinality(HandedOut) = reported /\ Cardinality(HandedOut) \in Nat
  <2>1. reported = Cardinality(FreePages) + Cardinality(HandedOut)
    BY DEF BootInv, RamAll, NothingLost, get_free_page_num
  <2>2. Cardinality(FreePages) = 0 /\ Cardinality(HandedOut) \in Nat
    BY <1>4, FS_EmptySet, FS_CardinalityType
  <2> QED
    BY <2>1, <2>2
<1> QED
  BY <1>1, <1>4, <1>5 DEF EnoughRam

LEMMA OwnFramesStep ==
    ASSUME BootInv, Below4G, OwnFrames, EnoughRam, [MemNext]_memVars
    PROVE  OwnFrames'
<1>1. CASE \E v \in VPages : page_fault(v)
  <2>1. PICK v \in VPages : page_fault(v)
    BY <1>1
  <2>2. /\ v \in DemandPages /\ pageTable[v] = None /\ mmInitialed
        /\ alloc_4k_phys /\ SetEntry(v, FrameOf(result'))
    BY <2>1, FaultedPage DEF page_fault, kernel_page_mmap
  <2>3. HandedOut' = HandedOut \cup {FrameOf(result')}
    BY <2>2, FrameForFault, Allocation DEF BootInv
  <2>4. /\ pageTable'[v] = FrameOf(result')
        /\ \A w \in VPages : w # v => pageTable'[w] = pageTable[w]
    BY <2>2, EntryWritten DEF BootInv
  <2> QED
    BY <2>3, <2>4, Apart DEF OwnFrames
<1>2. CASE ~\E v \in VPages : page_fault(v)
  <2>1. UNCHANGED users
    BY <1>2 DEF MemNext, Kernel, memVars, vars, CacheEntry, Invlpg, Access, display_init,
                mm_init_unmap, mm_init, mm_init_entry, mm_init_done, pci_init, pci_init_done,
                FindController, sata_driver_init, sata_map, sata_enable, sata_port, sata_done,
                Loop
  <2>2. \A v \in DemandPages : pageTable'[v] = pageTable[v]
    <3>1. CASE UNCHANGED pageTable
      BY <3>1
    <3>2. CASE \E v \in VPages \ DemandPages, f \in Nat \cup {None} : SetEntry(v, f)
      BY <3>2, EntryWritten, Apart DEF BootInv
    <3>3. ASSUME display_init
          PROVE  \/ UNCHANGED pageTable
                 \/ \E v \in VPages \ DemandPages, f \in Nat \cup {None} : SetEntry(v, f)
      <4>1. step < VramPages => Vram(step) \in VPages \ DemandPages /\ VramFrame + step \in Nat
        BY Numbers, Apart DEF BootInv, StageInv
      <4> QED
        BY <3>3, <4>1 DEF display_init, kernel_page_mmap, mmuVars
    <3>4. ASSUME mm_init_unmap
          PROVE  \/ UNCHANGED pageTable
                 \/ \E v \in VPages \ DemandPages, f \in Nat \cup {None} : SetEntry(v, f)
      <4>1. \h8 \in VPages \ DemandPages /\ \h10 \in VPages \ DemandPages
        BY Apart DEF BootPages
      <4> QED
        BY <3>4, <4>1 DEF mm_init_unmap, kernel_page_unmap, mmuVars
    <3>5. ASSUME sata_map
          PROVE  \/ UNCHANGED pageTable
                 \/ \E v \in VPages \ DemandPages, f \in Nat \cup {None} : SetEntry(v, f)
      <4>1. step < AhciPages => Ahci(step) \in VPages \ DemandPages /\ Bar + step \in Nat
        <5>1. /\ Current \in Controllers /\ machine \in Machines /\ Bar = machine.bar[Current]
              /\ step \in Nat
          BY <3>5, AtController DEF sata_map, Sata, BootInv, StageInv
        <5>2. step < AhciPages => step \in 0..(AhciPages - 1)
          BY <5>1, Numbers
        <5> QED
          BY <5>1, <5>2, Numbers, Apart, BarsApart
      <4> QED
        BY <3>5, <4>1 DEF sata_map, kernel_page_mmap, mmuVars
    <3>6. \/ UNCHANGED pageTable \/ display_init \/ mm_init_unmap \/ sata_map
      BY <1>2 DEF MemNext, Kernel, memVars, mmuVars, CacheEntry, Invlpg, Access, mm_init,
                  pci_init, pci_init_done, FindController, sata_driver_init, sata_enable,
                  sata_port, sata_done, Loop
    <3> QED
      BY <3>1, <3>2, <3>3, <3>4, <3>5, <3>6
  <2> QED
    BY <2>1, <2>2 DEF OwnFrames, HandedOut
<1> QED
  BY <1>1, <1>2

\* Where the RAM that mm_init reports suffices for the pages the boot touches, none of
\* them gets a frame below the kernel's limit.  Without the hypothesis it does: page_fault
\* maps frame 0 (the run memory_exhausted).
THEOREM FaultsStayAboveReserved ==
    ASSUME Below4G, TwoPagesReserved
    PROVE  MemSpec /\ []EnoughRam => []DemandAboveReserved
<1>1. MemInit => OwnFrames
  <2> SUFFICES ASSUME MemInit, NEW v \in DemandPages PROVE pageTable[v] = None
    BY DEF OwnFrames
  <2> QED
    BY Apart, BootDomain DEF MemInit
<1>2. BootInv /\ OwnFrames /\ EnoughRam /\ [MemNext]_memVars => OwnFrames'
  BY OwnFramesStep
<1>3. BootInv /\ OwnFrames => DemandAboveReserved
  BY FrameRanges DEF OwnFrames, DemandAboveReserved
<1> QED
  BY <1>1, <1>2, <1>3, BootInvariant, PTL DEF MemSpec

-----------------------------------------------------------------------------
(* The boot and its memory manager *)

\* The boot does nothing to the memory manager but what PhysMem describes: what
\* is proved there of every order of allocations holds of page faults as well.
THEOREM BootRunsTheManager == MemSpec => Spec
<1>1. MemInit => Init
  BY DEF MemInit
<1>2. [MemNext]_memVars => [Next]_vars
  BY ManagerStep
<1> QED
  BY <1>1, <1>2, PTL DEF MemSpec, Spec

\* Under Below4G page faults get their frames from an allocator that keeps the
\* promise of PageAllocator.
THEOREM BootAllocatesFrames ==
    ASSUME Below4G PROVE MemSpec => Implements
  BY BootRunsTheManager, ImplementsAllocator, PTL

=============================================================================
