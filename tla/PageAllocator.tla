--------------------------- MODULE PageAllocator ---------------------------
(***************************************************************************)
(* What the physical memory manager promises: every frame of usable RAM is *)
(* either free or has one owner, an allocation hands out a free frame, and *)
(* it fails only when no frame is free.  PhysMem implements it.            *)
(***************************************************************************)
EXTENDS Naturals

CONSTANT Frames   \* frame numbers; 0 is not one of them, NULL being address 0

VARIABLES
    ram,      \* frames found to be usable RAM
    free,     \* those without an owner
    result    \* what the last allocation returned, 0 for NULL

vars == <<ram, free, result>>

Init ==
    /\ ram = {}
    /\ free = {}
    /\ result = 0

\* Booting finds usable RAM; nobody owns it yet.
Discover ==
    /\ ram \subseteq ram'
    /\ ram' \subseteq Frames
    /\ free' = free \cup (ram' \ ram)
    /\ UNCHANGED result

Allocate ==
    \/ \E f \in free :
          /\ result' = f
          /\ free' = free \ {f}
          /\ UNCHANGED ram
    \/ /\ free = {}
       /\ result' = 0
       /\ UNCHANGED <<ram, free>>

Release ==
    \E f \in ram \ free :
        /\ free' = free \cup {f}
        /\ UNCHANGED <<ram, result>>

Next == Discover \/ Allocate \/ Release

Spec == Init /\ [][Next]_vars

=============================================================================
