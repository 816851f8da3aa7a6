------------------------------ MODULE MCMemory ------------------------------
(* Instances of Memory for TLC. *)
EXTENDS Memory, TLC

\* A device with one function answers under any number; one with more may
\* leave a number out.
Kinds == [none |-> {}, single |-> {0}, double |-> {0, 1}, gap |-> {0, 2}]

\* Registers below and above the picture; those of the two functions of one device
\* follow each other, closer than the size of the window.
Bars  == (<<0, 0>> :> 20) @@ (<<0, 1>> :> 24) @@ (<<1, 0>> :> 26)
         @@ (<<2, 0>> :> 28) @@ (<<2, 2>> :> 29)
PortsOf == (<<0, 0>> :> {29, 30}) @@ (<<0, 1>> :> {30}) @@ (<<1, 0>> :> {29, 30})
         @@ (<<2, 0>> :> {29}) @@ (<<2, 2>> :> {28, 30})

Machine(kinds, ahci) ==
    [funs  |-> [s \in 0..2 |-> Kinds[kinds[s + 1]]],
     multi |-> {s \in 0..2 : kinds[s + 1] \in {"double", "gap"}},
     bar   |-> [c \in ahci |-> Bars[c]],
     pi    |-> [c \in ahci |-> PortsOf[c]]]

Present(kinds) == {c \in (0..2) \X (0..2) : c[2] \in Kinds[kinds[c[1] + 1]]}

\* Up to two of the functions are AHCI controllers.
MCMachines ==
    UNION {{Machine(kinds, ahci) :
                ahci \in {a \in SUBSET Present(kinds) : Cardinality(a) <= 2}} :
           kinds \in {<<"single", "none", "gap">>, <<"double", "single", "none">>}}

\* The pages that are mapped or unmapped while the kernel boots, and the IDT.
MCCachedPages == {\h8, \h10, \hc0010, Ahci(0), Ahci(1), PciList(0), NullPage}

\* Nine usable frames, one for every page filled on demand, in two entries; the
\* first one ends inside a page.  A reserved entry ends above the 32-bit addresses.
EnoughMemory ==
    {<<[addr |-> 0, size |-> 54, type |-> 1], [addr |-> 56, size |-> 4, type |-> 2],
       [addr |-> 60, size |-> 16, type |-> 1], [addr |-> 124, size |-> 12, type |-> 2]>>}

\* One usable frame.
LittleMemory == {<<[addr |-> 0, size |-> 36, type |-> 1]>>}

=============================================================================
