----------------------------- MODULE MCKeyboard -----------------------------
(* Instances of Keyboard for TLC. *)
EXTENDS Keyboard

\* A letter, a symbol, a key outside the map and both modifiers.
EchoCodes     == {\h1e, \h02, \h01, \h2a, \haa, \h3a}
\* Both Shift keys with their releases.
TwoShiftCodes == {\h2a, \haa, \h36, \hb6}

=============================================================================
