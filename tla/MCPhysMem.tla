----------------------------- MODULE MCPhysMem ------------------------------
(* Instances of PhysMem for TLC: pages of 4, words of 4 bits, 32-bit addresses *)
(* scaled to 16 pages, of which the kernel keeps the lower 8.                  *)
EXTENDS PhysMem

Entry(addresses, sizes) ==
    {e \in [addr : addresses, size : sizes, type : {1, 2}] : e.addr + e.size <= AddrLimit}

\* Aligned and unaligned starts below, at and above the limit, sizes with and
\* without a rest; two entries that may overlap.  A reserved entry may also end
\* above the 32-bit addresses.
LowEntries == Entry({0, 6, 30, 32, 37, 52}, {3, 4, 12, 20, 34})
                \cup {[addr |-> 60, size |-> 20, type |-> 2]}
LowMaps    == {<<d, e>> : d, e \in LowEntries}

\* Memory below the limit of 32-bit addresses and above it.
HighMaps == {<<[addr |-> 32, size |-> 8, type |-> 1], [addr |-> 64, size |-> 16, type |-> 1]>>}

\* A reserved entry far up, beyond what the bitmap's region can describe.
FarMaps == {<<[addr |-> 32, size |-> 8, type |-> 1], [addr |-> 96, size |-> 4, type |-> 2]>>}

=============================================================================
