----------------------------- MODULE MCMainLoop -----------------------------
(* Instances of MainLoop for TLC. *)
EXTENDS MainLoop

\* A letter, and the left Shift, whose repeats are refused.
LoopCodes == {\h1e, \h2a}

=============================================================================
