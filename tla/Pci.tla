-------------------------------- MODULE Pci --------------------------------
(***************************************************************************)
(* pci_init: the scan of the PCI bus that fills the list of functions main *)
(* reads.  Every step writes at most one entry of the list; Memory lets    *)
(* those writes fault.                                                     *)
(*                                                                         *)
(* The two outer loops of the scan are one, over slot = 32 * bus + dev.    *)
(* The bus is external: it is known from what the scan asks of it.         *)
(***************************************************************************)
EXTENDS Integers, Sequences, FiniteSets

CONSTANTS
    Slots,      \* bound: 32 devices on 256 buses in the code
    Funs,       \* bound: functions of a device, 8 in the code
    Machines    \* the buses a behaviour may find

\* A machine: the functions behind each slot, whether its header says there is
\* more than one, and for every AHCI controller the frame of its registers and
\* the ports it implements.  PCI asks for function 0 in every device.
ASSUME PciAssumption ==
    /\ Slots \in Nat \ {0} /\ Funs \in Nat \ {0}
    /\ \A m \in Machines :
          /\ m.funs \in [0..(Slots - 1) -> SUBSET (0..(Funs - 1))]
          /\ m.multi \subseteq 0..(Slots - 1)
          /\ \A s \in 0..(Slots - 1) :
                /\ m.funs[s] # {} => 0 \in m.funs[s]
                /\ s \notin m.multi => m.funs[s] \subseteq {0}
          /\ DOMAIN m.bar = DOMAIN m.pi
          /\ DOMAIN m.bar \subseteq (0..(Slots - 1)) \X (0..(Funs - 1))
          /\ \A c \in DOMAIN m.bar : c[2] \in m.funs[c[1]]

\* The functions on the bus of a machine.
OnBus(m) == {c \in (0..(Slots - 1)) \X (0..(Funs - 1)) : c[2] \in m.funs[c[1]]}

VARIABLES
    machine,  \* what is on the bus
    slot,     \* i and j of the scan
    fun,      \* k of the scan, NoFun before the device was asked at all
    list      \* pci_func_list, as far as it was written

pciVars == <<machine, slot, fun, list>>

NoFun    == -1
Functions   == OnBus(machine)
Controllers == DOMAIN machine.bar    \* class 1, subclass 6
End     == [bus |-> Slots, fun |-> Funs, ahci |-> FALSE]   \* 0xff in all bytes

PciInit ==
    /\ machine \in Machines
    /\ slot = 0
    /\ fun = NoFun
    /\ list = <<>>

\* The functions that answer a read of function f: a device with one function
\* need not look at the number, and an empty slot reads as 0xffff.
pci_read_config(s, f) ==
    IF f \in machine.funs[s] THEN {<<s, f>>}
    ELSE IF machine.funs[s] # {} /\ s \notin machine.multi THEN {<<s, 0>>}
    ELSE {}

\* An entry has the number that was asked for and the class of what answered.
Entry(s, f) ==
    [bus |-> s, fun |-> f, ahci |-> pci_read_config(s, f) \cap Controllers # {}]

\* Mutant: all functions of every device are asked.
FuncCountAll(s) == Funs

\* Bit 7 of the header type.
FuncCount(s) == IF s \in machine.multi THEN Funs ELSE 1

\* A device is asked for function 0; without an answer it is passed over.
ProbeDevice ==
    /\ slot < Slots /\ fun = NoFun
    /\ \/ /\ pci_read_config(slot, 0) = {}
          /\ slot' = slot + 1
          /\ UNCHANGED fun
       \/ /\ pci_read_config(slot, 0) # {}
          /\ fun' = 0
          /\ UNCHANGED slot
    /\ UNCHANGED <<machine, list>>

\* The step to the next function, or to the next device.
Advance ==
    IF fun + 1 < FuncCount(slot)
    THEN fun' = fun + 1 /\ UNCHANGED slot
    ELSE fun' = NoFun /\ slot' = slot + 1

\* A function that answers gets an entry.
WriteEntry ==
    /\ fun # NoFun
    /\ pci_read_config(slot, fun) # {}
    /\ list' = Append(list, Entry(slot, fun))
    /\ Advance
    /\ UNCHANGED machine

SkipFunction ==
    /\ fun # NoFun
    /\ pci_read_config(slot, fun) = {}
    /\ Advance
    /\ UNCHANGED <<machine, list>>

\* The entry after the last one.
WriteEnd ==
    /\ slot = Slots
    /\ list' = Append(list, End)
    /\ slot' = Slots + 1
    /\ UNCHANGED <<machine, fun>>

pci_init_write == WriteEntry \/ WriteEnd
pci_init_read  == ProbeDevice \/ SkipFunction

-----------------------------------------------------------------------------
(* Properties *)

\* When the scan is done the list holds every function of the bus once, in the
\* order of the bus, and ends with the one entry main stops at: a device with
\* one function is not listed again under the numbers it does not look at.
ListIsTheBus ==
    slot > Slots =>
        LET n == Len(list) - 1
        IN  /\ {<<list[i].bus, list[i].fun>> : i \in 1..n}
                 = Functions
            /\ \A i, j \in 1..n : i < j =>
                  Funs * list[i].bus + list[i].fun < Funs * list[j].bus + list[j].fun
            /\ \A i \in 1..Len(list) : list[i] = End <=> i = n + 1

=============================================================================
