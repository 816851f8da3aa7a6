------------------------------ MODULE Keyboard ------------------------------
(***************************************************************************)
(* The keyboard path of ListaOS: the interrupt handler irq_0x21, which     *)
(* stores scan codes in a ring, and keyboard_buffer_clear, which the main  *)
(* loop runs with interrupts ENABLED to take them out again.               *)
(*                                                                         *)
(* The handler runs behind an interrupt gate on the only CPU: it is one    *)
(* step.  The main context is interrupted between any two instructions, so *)
(* each of its accesses to a variable it shares with the handler is a step *)
(* of its own.  The kernel is built without optimisation, where the        *)
(* --bufferUsed of keyboard_buffer_out is a load, a subtraction in a       *)
(* register and a store: two steps, "load" and "store".                    *)
(***************************************************************************)
EXTENDS Integers, Sequences, FiniteSets

CONSTANTS
    bufferSize,   \* slots of the ring (256 in keyboard.h)
    Codes,        \* the scan codes the keyboard of this instance can send
    MaxStored     \* bound: how many codes are stored in a behaviour

ASSUME KeyboardAssumption ==
    /\ bufferSize \in Nat \ {0}
    /\ Codes \subseteq 0..255
    /\ MaxStored \in Nat

-----------------------------------------------------------------------------
(* Scan codes and the key map *)

Shifts    == {\h2a, \h36}
CapsLock  == \h3a
Break(c)  == c + \h80        \* the code a key sends when it is released
IsBreak(c) == c >= \h80

Letters == (\h10..\h19) \cup (\h1e..\h26) \cup (\h2c..\h32)
Symbols == (\h02..\h0d) \cup {\h1a, \h1b, \h2b} \cup (\h27..\h29) \cup (\h33..\h35)
Plain   == {\h0e, \h0f, \h1c, \h37, \h39, CapsLock} \cup Shifts \cup (\h47..\h53)

\* A character is a key with its level; NUL stands for the zero of the table.
NUL     == <<0, 0>>
Glyph(c, shifted) == <<c, IF shifted THEN 1 ELSE 0>>

\* The four rows of keymap as the flat array they are in memory.  Letters are
\* shifted by either modifier but not by both, symbols by Shift alone.  The
\* handler indexes row 0 with the whole byte, so that a break code reads row 1.
keymap(i) ==
    LET s == i \div \h80
        c == i % \h80
    IN  IF c \in Letters \cup Symbols \cup Plain
        THEN Glyph(c, \/ c \in Letters /\ s \in {1, 2}
                      \/ c \in Symbols /\ s \in {1, 3})
        ELSE NUL

-----------------------------------------------------------------------------
VARIABLES
    status,       \* bit 1 is capsLock, bit 0 is shiftPressing
    buffer,       \* the ring, [0..bufferSize-1 -> codes]
    bufferHead,   \* slot taken last
    bufferTail,   \* slot written last
    bufferUsed,   \* what both sides believe is unread
    pc,           \* where the main context is in keyboard_buffer_clear / _out
    reg,          \* the register of --bufferUsed, between load and store
    code,         \* the local of keyboard_buffer_clear
    held,         \* the keys that are physically down
    stored,       \* history: every code the handler has stored, in order
    taken,        \* history: how often bufferHead has been advanced
    shown         \* history: every character given to putc, in order

shared  == <<buffer, bufferTail, bufferUsed, stored>>
vars    == <<status, buffer, bufferHead, bufferTail, bufferUsed, pc, reg, code,
             held, stored, taken, shown>>

Slots     == 0..(bufferSize - 1)
Locations == {"idle", "while", "out", "load", "store", "ret", "switch"}

TypeOK ==
    /\ status \in 0..3
    /\ buffer \in [Slots -> 0..255]
    /\ bufferHead \in Slots
    /\ bufferTail \in Slots
    /\ bufferUsed \in 0..bufferSize
    /\ pc \in Locations
    /\ reg \in 0..bufferSize
    /\ code \in 0..255
    /\ held \subseteq 0..127
    /\ stored \in Seq(0..255)
    /\ taken \in Nat
    /\ shown \in Seq((0..127) \X {0, 1})

Init ==
    /\ status = 0
    /\ buffer = [i \in Slots |-> 0]
    /\ bufferHead = 0
    /\ bufferTail = 0
    /\ bufferUsed = 0
    /\ pc = "idle"
    /\ reg = 0
    /\ code = 0
    /\ held = {}
    /\ stored = <<>>
    /\ taken = 0
    /\ shown = <<>>

-----------------------------------------------------------------------------
(* The interrupt side *)

\* The keyboard sends a make code on a press and again while the key stays
\* down (typematic repeat), and a break code for a key that is down.
KeySent(c) ==
    \/ /\ ~IsBreak(c)
       /\ held' = held \cup {c}
    \/ /\ IsBreak(c)
       /\ c - \h80 \in held
       /\ held' = held \ {c - \h80}

\* Mutant: the repeat of a Shift is recognised by what the main loop knows of it.
RefusedPressed(c) ==
    \/ bufferUsed >= bufferSize
    \/ keymap(c) = NUL
    \/ c \in Shifts /\ status % 2 = 1

\* The early returns of keyboard_buffer_in: the ring is full, the key is not
\* in the map, or a Shift repeats the code that was stored last.
Refused(c) ==
    \/ bufferUsed >= bufferSize
    \/ keymap(c) = NUL
    \/ c \in Shifts /\ buffer[bufferTail] = c

\* Mutant: the count is not incremented.
keyboard_buffer_in_uncounted(c) ==
    \/ /\ Refused(c)
       /\ UNCHANGED shared
    \/ /\ ~Refused(c)
       /\ Len(stored) < MaxStored
       /\ bufferTail' = (bufferTail + 1) % bufferSize
       /\ buffer' = [buffer EXCEPT ![bufferTail'] = c]
       /\ stored' = Append(stored, c)
       /\ UNCHANGED bufferUsed

\* Mutant: the slot is written before bufferTail moves.
keyboard_buffer_in_early(c) ==
    \/ /\ Refused(c)
       /\ UNCHANGED shared
    \/ /\ ~Refused(c)
       /\ Len(stored) < MaxStored
       /\ bufferTail' = (bufferTail + 1) % bufferSize
       /\ buffer' = [buffer EXCEPT ![bufferTail] = c]
       /\ bufferUsed' = bufferUsed + 1
       /\ stored' = Append(stored, c)

keyboard_buffer_in(c) ==
    \/ /\ Refused(c)
       /\ UNCHANGED shared
    \/ /\ ~Refused(c)
       /\ Len(stored) < MaxStored
       /\ bufferTail' = (bufferTail + 1) % bufferSize
       /\ buffer' = [buffer EXCEPT ![bufferTail'] = c]
       /\ bufferUsed' = bufferUsed + 1
       /\ stored' = Append(stored, c)

irq_0x21(c) ==
    /\ KeySent(c)
    /\ keyboard_buffer_in(c)
    /\ UNCHANGED <<status, bufferHead, pc, reg, code, taken, shown>>

-----------------------------------------------------------------------------
(* The main context *)

\* The main loop calls keyboard_buffer_clear (every fifth tick: MainLoop.tla).
CallClear ==
    /\ pc = "idle"
    /\ pc' = "while"
    /\ UNCHANGED <<status, bufferHead, reg, code, held, taken, shown, shared>>

\* while (bufferUsed > 0)
WhileTest ==
    /\ pc = "while"
    /\ pc' = IF bufferUsed > 0 THEN "out" ELSE "idle"
    /\ UNCHANGED <<status, bufferHead, reg, code, held, taken, shown, shared>>

\* keyboard_buffer_out: the test for an empty ring and the new bufferHead,
\* which no other context touches.
OutAdvance ==
    /\ pc = "out"
    /\ IF bufferUsed = 0
       THEN /\ code' = 0
            /\ pc' = "switch"
            /\ UNCHANGED <<bufferHead, taken>>
       ELSE /\ bufferHead' = (bufferHead + 1) % bufferSize
            /\ taken' = taken + 1
            /\ pc' = "load"
            /\ UNCHANGED code
    /\ UNCHANGED <<status, reg, held, shown, shared>>

\* --bufferUsed, first half: bufferUsed is read into a register.
OutLoad ==
    /\ pc = "load"
    /\ reg' = bufferUsed
    /\ pc' = "store"
    /\ UNCHANGED <<status, bufferHead, code, held, taken, shown, shared>>

\* Mutant: the count is written back without the decrement.
OutStoreUndecremented ==
    /\ pc = "store"
    /\ bufferUsed' = reg
    /\ pc' = "ret"
    /\ UNCHANGED <<status, buffer, bufferHead, bufferTail, reg, code, held, stored,
                   taken, shown>>

\* --bufferUsed, second half: the decremented register is written back.
OutStore ==
    /\ pc = "store"
    /\ bufferUsed' = reg - 1
    /\ pc' = "ret"
    /\ UNCHANGED <<status, buffer, bufferHead, bufferTail, reg, code, held, stored,
                   taken, shown>>

\* Mutant: the slot behind bufferHead is returned.
OutReturnPrevious ==
    /\ pc = "ret"
    /\ code' = buffer[(bufferHead + bufferSize - 1) % bufferSize]
    /\ pc' = "switch"
    /\ UNCHANGED <<status, bufferHead, reg, held, taken, shown, shared>>

\* return buffer[bufferHead]: the slot is read after its count was given back.
OutReturn ==
    /\ pc = "ret"
    /\ code' = buffer[bufferHead]
    /\ pc' = "switch"
    /\ UNCHANGED <<status, bufferHead, reg, held, taken, shown, shared>>

\* The two bits of status after code.
ShiftAfter ==
    IF code \in Shifts THEN 1
    ELSE IF code \in {Break(k) : k \in Shifts} THEN 0 ELSE status % 2

CapsAfter == IF code = CapsLock THEN 1 - status \div 2 ELSE status \div 2

\* Mutant: Caps Lock is switched on and never off again.
NewStatusStickyCaps ==
    2 * (IF code = CapsLock THEN 1 ELSE status \div 2) + ShiftAfter

\* The body of keyboard_buffer_clear: modifiers change status, a mapped make
\* code is printed, a break code is ignored.
NewStatus == 2 * CapsAfter + ShiftAfter

Modifier == code \in Shifts \cup {CapsLock} \cup {Break(k) : k \in Shifts}

Process ==
    /\ pc = "switch"
    /\ status' = NewStatus
    /\ shown' = IF ~Modifier /\ ~IsBreak(code) /\ keymap(\h80 * status + code) # NUL
                THEN Append(shown, keymap(\h80 * status + code))
                ELSE shown
    /\ pc' = "while"
    /\ UNCHANGED <<bufferHead, reg, code, held, taken, shared>>

Main == WhileTest \/ OutAdvance \/ OutLoad \/ OutStore \/ OutReturn \/ Process

Next ==
    \/ \E c \in Codes : irq_0x21(c)
    \/ CallClear
    \/ Main

Spec == Init /\ [][Next]_vars

-----------------------------------------------------------------------------
(* Properties *)

\* What bufferUsed will be once a decrement under way is done.
SettledUsed ==
    IF pc = "load" THEN bufferUsed - 1
    ELSE IF pc = "store" THEN reg - 1 ELSE bufferUsed

\* How many stored codes bufferUsed does not count: they wait in the ring until
\* later keystrokes push them out.
Lag == Len(stored) - taken - SettledUsed

\* bufferUsed may undercount but never overcounts, wherever the main context is
\* interrupted (the inductive invariant behind NoPhantomRead).
UsedInv ==
    /\ Lag >= 0
    /\ pc \in {"out", "load"} => bufferUsed >= 1
    /\ pc = "store" => reg >= 1 /\ reg <= bufferUsed

\* The ring's variables keep their types and its count its meaning: the
\* inductive invariant of the proofs.
KeyboardInv == TypeOK /\ UsedInv

\* keyboard_buffer_out never runs past what the handler has stored: an
\* interrupt inside --bufferUsed cannot make the main loop echo a slot twice or
\* read one that was never written.
NoPhantomRead == taken <= Len(stored)

\* The one place where a count is lost is an interrupt between the load and the
\* store of --bufferUsed, and nothing ever repairs it: the echo stays behind
\* the typing by that many codes until the machine is restarted.
LagGrowsOnlyInDecrement ==
    [][Lag' # Lag => pc = "store" /\ Lag' = Lag + 1]_vars

\* The ring holds the last bufferSize codes that were stored, the j-th one in
\* slot j % bufferSize.
RingInv ==
    /\ bufferHead = taken % bufferSize
    /\ bufferTail = Len(stored) % bufferSize
    /\ \A j \in 1..Len(stored) :
          j > Len(stored) - bufferSize => buffer[j % bufferSize] = stored[j]

\* The number of the code in the slot of the code taken last: that code, or the
\* last one that the handler has stored over it.
Survivor == taken + bufferSize * ((Len(stored) - taken) \div bufferSize)

\* keyboard_buffer_out returns the oldest unread code while its slot has not been
\* written again; once it has, the code is lost and the last one stored in that
\* slot is returned in its place.  A slot is written again in two ways only: the
\* handler fills the ring between the decrement that gives the slot back and the
\* return that reads it, or counts lost earlier let the handler store over codes
\* that are still unread.
InOrder ==
    [][pc = "ret" /\ pc' = "switch"
         => /\ code' = stored[Survivor]
            /\ Survivor # taken => bufferUsed = bufferSize \/ Lag > 0]_vars

\* When a slot is read, fewer than bufferSize codes have been stored from the one
\* that is to be read on, so that it is still there.  This leaves out every way of
\* storing over an unread code: a ring filled while its slot is being read, and
\* unread codes that lost counts have hidden from the handler.
NotOverwritten == pc = "ret" => Len(stored) < taken + bufferSize

\* Reference for the echo of the codes s.  Code number i is printed with Shift
\* when a Shift make code came before it with no Shift break code in between,
\* and with Caps Lock when an odd number of Caps Lock codes came before it.
ShiftAt(s, i) ==
    \E j \in 1..(i - 1) :
        /\ s[j] \in Shifts
        /\ \A k \in j..(i - 1) : s[k] \notin {Break(x) : x \in Shifts}

CapsAt(s, i) == Cardinality({j \in 1..(i - 1) : s[j] = CapsLock}) % 2 = 1

Level(s, i) ==
    \/ s[i] \in Letters /\ ShiftAt(s, i) # CapsAt(s, i)
    \/ s[i] \in Symbols /\ ShiftAt(s, i)

Printed(s, n) == {i \in 1..n : ~IsBreak(s[i]) /\ s[i] \notin Shifts \cup {CapsLock}}

\* text holds a character for each printed one of the first n codes, in order.
IsEcho(text, s, n) ==
    /\ Len(text) = Cardinality(Printed(s, n))
    /\ \A i \in Printed(s, n) :
          text[Cardinality(Printed(s, i))] = Glyph(s[i], Level(s, i))

\* The text on the screen is the text of the codes taken so far, in the order
\* they were stored, whatever interrupts hit keyboard_buffer_clear (for a ring
\* that does not wrap).
EchoIsFaithful ==
    pc \in {"idle", "while"} /\ MaxStored < bufferSize => IsEcho(shown, stored, taken)

\* What the comment on status promises, once every stored code is processed:
\* bit 0 is set exactly while a Shift key is down, so that no press was taken for a
\* repeat of the one before.
ShiftPressing ==
    pc = "idle" /\ taken = Len(stored)
        => (status % 2 = 1 <=> held \cap Shifts # {})

=============================================================================
