------------------------------ MODULE MainLoop ------------------------------
(***************************************************************************)
(* The endless loop of main with the two interrupts that drive it: the     *)
(* timer, which counts ticks, and the keyboard (module Keyboard).  The     *)
(* loop looks at count twice, each time in memory, and then halts until    *)
(* any interrupt.  An interrupt that is taken just before hlt does not     *)
(* keep the processor from halting.                                        *)
(***************************************************************************)
EXTENDS Keyboard

CONSTANTS
    ClearPeriod,   \* 5 in main.c
    BlinkPeriod,   \* 50 in main.c
    CountMod,      \* 2^32, the range of count; no multiple of the periods
    MaxKeys,       \* bound: keyboard interrupts in a behaviour
    MaxRaces       \* bound: ticks that hit the few instructions between a
                   \* wake-up and hlt (the timer ticks every 10 ms)

ASSUME MainLoopAssumption ==
    /\ ClearPeriod \in Nat \ {0}
    /\ BlinkPeriod \in Nat \ {0}
    /\ CountMod \in Nat /\ CountMod > BlinkPeriod /\ CountMod > ClearPeriod
    /\ MaxKeys \in Nat
    /\ MaxRaces \in Nat

VARIABLES
    count,         \* ticks, an unsigned int
    mpc,           \* where main is in its loop
    cursorState,   \* of the console
    keys,          \* keyboard interrupts so far
    races          \* ticks so far that hit the window

loopVars == <<vars, count, mpc, cursorState, keys, races>>

LoopInit ==
    /\ Init
    /\ count = 0
    /\ mpc = "check5"
    /\ cursorState = 0
    /\ keys = 0
    /\ races = 0

-----------------------------------------------------------------------------
(* Interrupts: taken anywhere, and what wakes a halted processor *)

Woken == IF mpc = "halted" THEN "check5" ELSE mpc

\* The loop is a few instructions long but for the echo of a code.
InWindow ==
    \/ mpc \in {"check5", "check50", "hlt"}
    \/ mpc = "clear" /\ pc = "while"

\* The timer interrupt.
irq_0x20 ==
    /\ InWindow => races < MaxRaces
    /\ races' = IF InWindow THEN races + 1 ELSE races
    /\ count' = (count + 1) % CountMod
    /\ mpc' = Woken
    /\ UNCHANGED <<vars, cursorState, keys>>

KeyInterrupt ==
    /\ keys < MaxKeys
    /\ \E c \in Codes : irq_0x21(c)
    /\ keys' = keys + 1
    /\ mpc' = Woken
    /\ UNCHANGED <<count, cursorState, races>>

-----------------------------------------------------------------------------
(* The loop *)

\* Mutant: the test is for a tick that is not the fifth.
CheckClearNever ==
    /\ mpc = "check5"
    /\ IF count % ClearPeriod = ClearPeriod
       THEN CallClear /\ mpc' = "clear"
       ELSE mpc' = "check50" /\ UNCHANGED vars
    /\ UNCHANGED <<count, cursorState, keys, races>>

\* if (count % 5 == 0) keyboard_buffer_clear();
CheckClear ==
    /\ mpc = "check5"
    /\ IF count % ClearPeriod = 0
       THEN CallClear /\ mpc' = "clear"
       ELSE mpc' = "check50" /\ UNCHANGED vars
    /\ UNCHANGED <<count, cursorState, keys, races>>

Clear ==
    /\ mpc = "clear"
    /\ Main
    /\ mpc' = IF pc' = "idle" THEN "check50" ELSE "clear"
    /\ UNCHANGED <<count, cursorState, keys, races>>

\* Mutant: the cursor is drawn and never erased.
CheckBlinkSticky ==
    /\ mpc = "check50"
    /\ cursorState' = IF count % BlinkPeriod = 0 THEN 1 ELSE cursorState
    /\ mpc' = "hlt"
    /\ UNCHANGED <<vars, count, keys, races>>

\* if (count % 50 == 0) toggle_cursor();
CheckBlink ==
    /\ mpc = "check50"
    /\ cursorState' = IF count % BlinkPeriod = 0 THEN 1 - cursorState ELSE cursorState
    /\ mpc' = "hlt"
    /\ UNCHANGED <<vars, count, keys, races>>

\* hlt, with interrupts on.
Halt ==
    /\ mpc = "hlt"
    /\ mpc' = "halted"
    /\ UNCHANGED <<vars, count, cursorState, keys, races>>

Loop == CheckClear \/ Clear \/ CheckBlink \/ Halt

LoopNext == irq_0x20 \/ KeyInterrupt \/ Loop

\* The processor executes the loop and the timer keeps ticking; nothing obliges
\* anybody to press a key.
LoopSpec == LoopInit /\ [][LoopNext]_loopVars /\ WF_loopVars(Loop) /\ WF_loopVars(irq_0x20)

-----------------------------------------------------------------------------
(* Properties *)

\* keyboard_buffer_clear has been through every code that was stored.
Drained == pc = "idle" /\ taken = Len(stored)

\* After the last keystroke, through wrapped counts, wake-ups by keys and missed
\* periods, the loop gets through all the codes that were stored, unless
\* --bufferUsed has lost a count; and where no code was stored over an unread one,
\* the whole text is then on the screen.
KeysAreEchoed ==
    /\ taken < Len(stored) ~> Drained \/ Lag > 0
    /\ []NotOverwritten
         => (taken < Len(stored)
                ~> (Drained /\ IsEcho(shown, stored, taken)) \/ Lag > 0)

\* Once the keyboard is quiet the cursor keeps blinking, missed periods or not.
CursorBlinks == []<>(cursorState = 1) /\ []<>(cursorState = 0)

=============================================================================
