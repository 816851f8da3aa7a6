--------------------------- MODULE KeyboardProofs ---------------------------
(***************************************************************************)
(* What holds of the keyboard ring for every bufferSize, every set of scan *)
(* codes and every number of keystrokes, on its own and under the loop of  *)
(* main.                                                                   *)
(***************************************************************************)
EXTENDS MainLoop, Division, FiniteSetTheorems, TLAPS

\* Appending keeps a sequence typed and makes it one longer.
LEMMA AppendType ==
    ASSUME NEW S, NEW s \in Seq(S), NEW x \in S
    PROVE  Append(s, x) \in Seq(S) /\ Len(Append(s, x)) = Len(s) + 1
  OBVIOUS

\* What the key map holds: NUL, or a key below 0x80 with a level.
LEMMA KeymapType ==
    ASSUME NEW i \in Nat
    PROVE  keymap(i) \in (0..127) \X {0, 1}
<1>1. i % 128 \in 0..127
  OBVIOUS
<1> QED
  BY <1>1 DEF keymap, Glyph, NUL

\* The handler leaves the main context alone, stores at most one code and never
\* counts more codes than the ring has slots.
LEMMA HandlerStep ==
    ASSUME TypeOK, NEW c \in 0..255, keyboard_buffer_in(c)
    PROVE  /\ buffer' \in [Slots -> 0..255]
           /\ bufferTail' \in Slots
           /\ bufferUsed' \in 0..bufferSize
           /\ stored' \in Seq(0..255)
           /\ \/ UNCHANGED <<bufferUsed, stored>>
              \/ bufferUsed' = bufferUsed + 1 /\ Len(stored') = Len(stored) + 1
<1>1. CASE Refused(c)
  BY <1>1 DEF keyboard_buffer_in, TypeOK, shared
<1>2. CASE ~Refused(c)
  <2>1. bufferTail' \in Slots
    <3>1. \A i \in Nat : i % bufferSize \in 0..(bufferSize - 1)
      BY KeyboardAssumption
    <3> QED
      BY <1>2, <3>1 DEF keyboard_buffer_in, TypeOK, Slots
  <2>2. buffer' \in [Slots -> 0..255]
    <3>1. buffer' = [buffer EXCEPT ![bufferTail'] = c]
      BY <1>2 DEF keyboard_buffer_in
    <3>2. buffer \in [Slots -> 0..255]
      BY DEF TypeOK
    <3> QED
      BY <2>1, <3>1, <3>2
  <2>3. bufferUsed' = bufferUsed + 1 /\ bufferUsed' \in 0..bufferSize
    BY <1>2, KeyboardAssumption DEF keyboard_buffer_in, TypeOK, Refused
  <2>4. stored' \in Seq(0..255) /\ Len(stored') = Len(stored) + 1
    <3>1. stored' = Append(stored, c)
      BY <1>2 DEF keyboard_buffer_in
    <3>2. stored \in Seq(0..255)
      BY DEF TypeOK
    <3> QED
      BY <3>1, <3>2, AppendType
  <2> QED
    BY <2>1, <2>2, <2>3, <2>4
<1> QED
  BY <1>1, <1>2

\* The zeroed ring of a machine that has just booted satisfies the invariant.
LEMMA InvInit == Init => KeyboardInv
<1> SUFFICES ASSUME Init PROVE KeyboardInv
  OBVIOUS
<1>1. TypeOK
  BY KeyboardAssumption DEF Init, TypeOK, Slots, Locations
<1>2. UsedInv
  BY DEF Init, UsedInv, Lag, SettledUsed
<1> QED
  BY <1>1, <1>2 DEF KeyboardInv

\* Wherever the handler interrupts the main context, the invariant survives:
\* between the load and the store of --bufferUsed it can only widen the gap.
LEMMA InvHandler ==
    ASSUME KeyboardInv, NEW c \in Codes, irq_0x21(c)
    PROVE  KeyboardInv'
<1> USE DEF KeyboardInv
<1>1. c \in 0..255
  BY KeyboardAssumption
<1>2. keyboard_buffer_in(c)
  BY DEF irq_0x21
<1>3. UNCHANGED <<status, bufferHead, pc, reg, code, taken, shown>>
  BY DEF irq_0x21
<1>4. held' \subseteq 0..127
  <2>1. \/ held' = held \cup {c} /\ c < 128
        \/ held' \subseteq held
    BY <1>1 DEF irq_0x21, KeySent, IsBreak
  <2> QED
    <3>1. held \subseteq 0..127
      BY DEF TypeOK
    <3>2. c < 128 => c \in 0..127
      BY <1>1
    <3> QED
      BY <2>1, <3>1, <3>2
<1>5. TypeOK'
  <2>1. TypeOK
    OBVIOUS
  <2>2. /\ buffer' \in [Slots -> 0..255] /\ bufferTail' \in Slots
        /\ bufferUsed' \in 0..bufferSize /\ stored' \in Seq(0..255)
    BY <1>1, <1>2, <2>1, HandlerStep
  <2> QED
    BY <1>3, <1>4, <2>1, <2>2 DEF TypeOK, Slots
<1>6. \/ UNCHANGED <<bufferUsed, stored>>
      \/ bufferUsed' = bufferUsed + 1 /\ Len(stored') = Len(stored) + 1
  BY <1>1, <1>2, HandlerStep
<1>7. Len(stored) \in Nat /\ bufferUsed \in Nat /\ reg \in Nat /\ taken \in Nat
  BY DEF TypeOK
<1>8. UsedInv'
  BY <1>3, <1>6, <1>7 DEF UsedInv, Lag, SettledUsed
<1> QED
  BY <1>5, <1>8

\* Every step of the main context preserves the invariant.
LEMMA InvMain ==
    ASSUME KeyboardInv, CallClear \/ Main
    PROVE  KeyboardInv'
<1> USE DEF KeyboardInv
<1>0. Len(stored) \in Nat /\ bufferUsed \in Nat /\ reg \in Nat /\ taken \in Nat
  BY DEF TypeOK
<1>1. CASE CallClear
  BY <1>1, <1>0 DEF CallClear, shared, TypeOK, Slots, Locations, UsedInv, Lag, SettledUsed
<1>2. CASE WhileTest
  BY <1>2, <1>0 DEF WhileTest, shared, TypeOK, Slots, Locations, UsedInv, Lag, SettledUsed
<1>3. CASE OutAdvance
  <2>1. \A i \in Nat : i % bufferSize \in 0..(bufferSize - 1)
    BY KeyboardAssumption
  <2>2. TypeOK'
    <3>1. bufferHead' \in Slots /\ taken' \in Nat /\ code' \in 0..255
      <4>1. bufferHead \in Slots /\ bufferHead + 1 \in Nat /\ taken + 1 \in Nat
        BY DEF TypeOK, Slots
      <4>2. (bufferHead + 1) % bufferSize \in Slots
        BY <2>1, <4>1 DEF Slots
      <4>3. code \in 0..255 /\ taken \in Nat
        BY DEF TypeOK
      <4>4. \/ bufferHead' = bufferHead /\ taken' = taken /\ code' = 0
            \/ bufferHead' = (bufferHead + 1) % bufferSize /\ taken' = taken + 1 /\ code' = code
        BY <1>3 DEF OutAdvance
      <4> QED
        BY <4>1, <4>2, <4>3, <4>4
    <3>2. pc' \in Locations
      BY <1>3 DEF OutAdvance, Locations
    <3> QED
      BY <1>3, <3>1, <3>2 DEF OutAdvance, shared, TypeOK, Slots
  <2>3. UsedInv'
    BY <1>3, <1>0 DEF OutAdvance, shared, UsedInv, Lag, SettledUsed
  <2> QED
    BY <2>2, <2>3
<1>4. CASE OutLoad
  <2>1. TypeOK'
    BY <1>4 DEF OutLoad, shared, TypeOK, Slots, Locations
  <2>2. UsedInv'
    BY <1>4, <1>0 DEF OutLoad, shared, UsedInv, Lag, SettledUsed
  <2> QED
    BY <2>1, <2>2
<1>5. CASE OutStore
  <2>1. TypeOK'
    <3>1. reg \in 0..bufferSize /\ reg >= 1 /\ bufferUsed' = reg - 1
      BY <1>5 DEF OutStore, UsedInv, TypeOK
    <3>2. bufferUsed' \in 0..bufferSize
      BY <3>1, KeyboardAssumption
    <3> QED
      BY <1>5, <3>2 DEF OutStore, TypeOK, Slots, Locations
  <2>2. UsedInv'
    BY <1>5, <1>0 DEF OutStore, UsedInv, Lag, SettledUsed
  <2> QED
    BY <2>1, <2>2
<1>6. CASE OutReturn
  <2>1. buffer[bufferHead] \in 0..255
    BY DEF TypeOK
  <2>2. TypeOK'
    BY <1>6, <2>1 DEF OutReturn, shared, TypeOK, Slots, Locations
  <2>3. UsedInv'
    BY <1>6, <1>0 DEF OutReturn, shared, UsedInv, Lag, SettledUsed
  <2> QED
    BY <2>2, <2>3
<1>7. CASE Process
  <2>1. UsedInv'
    BY <1>7, <1>0 DEF Process, shared, UsedInv, Lag, SettledUsed
  <2>2. status' \in 0..3
    <3>1. status \div 2 \in {0, 1} /\ status % 2 \in {0, 1}
      BY DEF TypeOK
    <3>2. CapsAfter \in {0, 1} /\ ShiftAfter \in {0, 1}
      BY <3>1 DEF CapsAfter, ShiftAfter
    <3> QED
      BY <1>7, <3>2 DEF Process, NewStatus
  <2>3. shown' \in Seq((0..127) \X {0, 1})
    <3>1. 128 * status + code \in Nat
      BY DEF TypeOK
    <3>2. keymap(128 * status + code) \in (0..127) \X {0, 1}
      BY <3>1, KeymapType
    <3>3. shown' = shown \/ shown' = Append(shown, keymap(128 * status + code))
      BY <1>7 DEF Process
    <3>4. shown \in Seq((0..127) \X {0, 1})
      BY DEF TypeOK
    <3> QED
      BY <3>2, <3>3, <3>4, AppendType
  <2>4. TypeOK'
    BY <1>7, <2>2, <2>3 DEF Process, shared, TypeOK, Slots, Locations
  <2> QED
    BY <2>1, <2>4
<1> QED
  BY <1>1, <1>2, <1>3, <1>4, <1>5, <1>6, <1>7 DEF Main

LEMMA InvStutter ==
    ASSUME KeyboardInv, UNCHANGED vars
    PROVE  KeyboardInv'
  BY DEF KeyboardInv, vars, TypeOK, Slots, UsedInv, Lag, SettledUsed

\* The ring indices, the counter and the echoed text keep their types, and
\* bufferUsed never overcounts, for every size of the ring.
THEOREM KeyboardInvariant == Spec => []KeyboardInv
<1>1. KeyboardInv /\ [Next]_vars => KeyboardInv'
  BY InvHandler, InvMain, InvStutter DEF Next
<1> QED
  BY InvInit, <1>1, PTL DEF Spec

\* bufferUsed never counts a code that is not in the ring, even between the
\* load and the store of its own decrement.
THEOREM UsedNeverOvercounts == Spec => []UsedInv
<1>1. KeyboardInv => UsedInv
  BY DEF KeyboardInv
<1> QED
  BY KeyboardInvariant, <1>1, PTL

\* keyboard_buffer_out never takes a code that was not stored.
THEOREM NoPhantomReads == Spec => []NoPhantomRead
<1>1. KeyboardInv => NoPhantomRead
  <2> SUFFICES ASSUME KeyboardInv PROVE NoPhantomRead
    OBVIOUS
  <2>1. Len(stored) \in Nat /\ bufferUsed \in Nat /\ reg \in Nat /\ taken \in Nat
    BY DEF KeyboardInv, TypeOK
  <2> QED
    BY <2>1 DEF KeyboardInv, UsedInv, Lag, SettledUsed, NoPhantomRead
<1> QED
  BY KeyboardInvariant, <1>1, PTL

\* The echo falls further behind the typing in one place only: when the handler
\* stores a code between the load and the store of --bufferUsed.
THEOREM LagOnlyGrowsInDecrement == Spec => LagGrowsOnlyInDecrement
<1>1. ASSUME KeyboardInv, [Next]_vars
      PROVE  [Lag' # Lag => pc = "store" /\ Lag' = Lag + 1]_vars
  <2>1. Len(stored) \in Nat /\ bufferUsed \in Nat /\ reg \in Nat /\ taken \in Nat
    BY <1>1 DEF KeyboardInv, TypeOK
  <2>2. CASE UNCHANGED vars
    BY <2>2
  <2>3. ASSUME NEW c \in Codes, irq_0x21(c)
        PROVE  Lag' # Lag => pc = "store" /\ Lag' = Lag + 1
    <3>1. c \in 0..255 /\ keyboard_buffer_in(c)
      BY <2>3, KeyboardAssumption DEF irq_0x21
    <3>2. \/ UNCHANGED <<bufferUsed, stored>>
          \/ bufferUsed' = bufferUsed + 1 /\ Len(stored') = Len(stored) + 1
      BY <1>1, <3>1, HandlerStep DEF KeyboardInv
    <3> QED
      BY <2>1, <2>3, <3>2 DEF irq_0x21, Lag, SettledUsed
  <2>4. ASSUME CallClear \/ Main PROVE Lag' = Lag
    BY <1>1, <2>1, <2>4
       DEF KeyboardInv, UsedInv, Main, CallClear, WhileTest, OutAdvance, OutLoad,
           OutStore, OutReturn, Process, shared, Lag, SettledUsed
  <2> QED
    BY <1>1, <2>2, <2>3, <2>4 DEF Next
<1> QED
  BY KeyboardInvariant, <1>1, PTL DEF Spec, LagGrowsOnlyInDecrement

-----------------------------------------------------------------------------
(* The ring and the order of the codes *)

\* The ring as an inductive invariant: a slot that is being read was taken.
RingOrder ==
    /\ KeyboardInv
    /\ RingInv
    /\ pc \in {"load", "store", "ret"} => taken >= 1

\* The handler fills the next slot, which holds the oldest code of a full ring.
LEMMA RingStore ==
    ASSUME RingOrder, NEW c \in 0..255, ~Refused(c), keyboard_buffer_in(c)
    PROVE  /\ bufferTail' = Len(stored') % bufferSize
           /\ \A j \in 1..Len(stored') :
                 j > Len(stored') - bufferSize => buffer'[j % bufferSize] = stored'[j]
<1>1. /\ bufferTail' = (bufferTail + 1) % bufferSize
      /\ buffer' = [buffer EXCEPT ![bufferTail'] = c]
      /\ stored' = Append(stored, c)
  BY DEF keyboard_buffer_in
<1>2. stored \in Seq(0..255) /\ buffer \in [Slots -> 0..255]
  BY DEF RingOrder, KeyboardInv, TypeOK
<1>3. PICK n \in Nat : n = Len(stored)
  BY <1>2
<1>4. /\ bufferTail = n % bufferSize
      /\ \A j \in 1..n : j > n - bufferSize => buffer[j % bufferSize] = stored[j]
  BY <1>3 DEF RingOrder, RingInv
<1>5. PICK m \in Nat : m = n + 1
  OBVIOUS
<1>6. Len(stored') = m /\ stored'[m] = c /\ \A j \in 1..n : stored'[j] = stored[j]
  BY <1>1, <1>2, <1>3, <1>5
<1>7. bufferSize \in Nat \ {0}
  BY KeyboardAssumption
<1>8. bufferTail' = m % bufferSize
  BY <1>1, <1>4, <1>5, <1>7, NextRemainder
<1>9. \A j \in Nat : j % bufferSize \in Slots
  BY <1>7 DEF Slots
<1>10. ASSUME NEW j \in 1..m, j > m - bufferSize
       PROVE  buffer'[j % bufferSize] = stored'[j]
  <2>1. CASE j = m
    <3>1. bufferTail' \in Slots
      BY <1>5, <1>8, <1>9
    <3> QED
      BY <1>1, <1>2, <1>6, <1>8, <2>1, <3>1
  <2>2. CASE j # m
    <3>1. j \in Nat /\ j \in 1..n /\ j < m /\ m - j < bufferSize /\ j > n - bufferSize
      BY <1>5, <1>7, <1>10, <2>2
    <3>2. m \in Nat
      BY <1>5
    <3>3. j % bufferSize # m % bufferSize
      BY ONLY <1>7, <3>1, <3>2, RemaindersDiffer
    <3>4. buffer'[j % bufferSize] = buffer[j % bufferSize]
      BY <1>1, <1>2, <1>8, <1>9, <3>1, <3>3
    <3> QED
      BY <1>4, <1>6, <3>1, <3>4
  <2> QED
    BY <2>1, <2>2
<1>11. \A j \in 1..m : j > m - bufferSize => buffer'[j % bufferSize] = stored'[j]
  BY ONLY <1>10
<1> QED
  BY <1>6, <1>8, <1>11

LEMMA RingStep ==
    ASSUME RingOrder, [Next]_vars, KeyboardInv'
    PROVE  RingOrder'
<1>1. /\ taken \in Nat /\ stored \in Seq(0..255) /\ Len(stored) \in Nat
      /\ bufferSize \in Nat \ {0} /\ Codes \subseteq 0..255
  BY KeyboardAssumption DEF RingOrder, KeyboardInv, TypeOK
<1>2. ASSUME NEW c \in Codes, irq_0x21(c) PROVE RingOrder'
  <2>1. UNCHANGED <<bufferHead, taken, pc>> /\ keyboard_buffer_in(c)
    BY <1>2 DEF irq_0x21
  <2>2. CASE Refused(c)
    BY <2>1, <2>2 DEF keyboard_buffer_in, shared, RingOrder, RingInv
  <2>3. CASE ~Refused(c)
    <3>1. c \in 0..255
      BY <1>1
    <3> QED
      BY <2>1, <2>3, <3>1, RingStore DEF RingOrder, RingInv
  <2> QED
    BY <2>2, <2>3
<1>3. ASSUME OutAdvance PROVE RingOrder'
  <2>1. UNCHANGED shared
    BY <1>3 DEF OutAdvance
  <2>2. CASE bufferUsed = 0
    BY <1>3, <2>1, <2>2 DEF OutAdvance, shared, RingOrder, RingInv
  <2>3. CASE bufferUsed # 0
    <3>1. bufferHead' = (bufferHead + 1) % bufferSize /\ taken' = taken + 1
      BY <1>3, <2>3 DEF OutAdvance
    <3>2. bufferHead' = taken' % bufferSize
      BY <1>1, <3>1, NextRemainder DEF RingOrder, RingInv
    <3>3. pc' = "load" /\ taken' >= 1
      BY <1>1, <1>3, <2>3, <3>1 DEF OutAdvance
    <3>4. RingInv'
      BY <2>1, <3>2 DEF shared, RingOrder, RingInv
    <3> QED
      BY <3>3, <3>4 DEF RingOrder
  <2> QED
    BY <2>2, <2>3
<1>4. ASSUME CallClear \/ WhileTest \/ OutLoad \/ OutStore \/ OutReturn \/ Process
             \/ UNCHANGED vars
      PROVE  RingOrder'
  <2>1. UNCHANGED <<buffer, bufferTail, stored, bufferHead, taken>>
    BY <1>4 DEF CallClear, WhileTest, OutLoad, OutStore, OutReturn, Process, shared, vars
  <2>2. pc' \in {"load", "store", "ret"} => pc \in {"load", "store", "ret"}
    BY <1>4 DEF CallClear, WhileTest, OutLoad, OutStore, OutReturn, Process, vars
  <2> QED
    BY <2>1, <2>2 DEF RingOrder, RingInv
<1> QED
  BY <1>2, <1>3, <1>4 DEF Next, Main

LEMMA RingInitial == Init => RingOrder
<1> SUFFICES ASSUME Init PROVE RingOrder
  OBVIOUS
<1>1. 0 % bufferSize = 0 /\ Len(stored) = 0
  BY KeyboardAssumption DEF Init
<1> QED
  BY <1>1, InvInit DEF Init, RingOrder, RingInv

LEMMA RingAlways == Spec => []RingOrder
<1>1. RingOrder /\ [Next]_vars /\ KeyboardInv' => RingOrder'
  BY RingStep
<1> QED
  BY <1>1, RingInitial, KeyboardInvariant, PTL DEF Spec

\* The ring holds the codes that were stored last, each in its slot, however often
\* the indices have wrapped.
THEOREM RingHoldsTheLastCodes == Spec => []RingInv
<1>1. RingOrder => RingInv
  BY DEF RingOrder
<1> QED
  BY RingAlways, <1>1, PTL

\* The code in the slot taken last is one of those the ring still holds.
LEMMA SurvivorInRing ==
    ASSUME RingOrder, taken >= 1, taken <= Len(stored)
    PROVE  /\ Survivor \in taken..Len(stored)
           /\ buffer[taken % bufferSize] = stored[Survivor]
           /\ Len(stored) < taken + bufferSize <=> Survivor = taken
<1>1. taken \in Nat /\ Len(stored) \in Nat /\ bufferSize \in Nat \ {0}
  BY KeyboardAssumption DEF RingOrder, KeyboardInv, TypeOK
<1> DEFINE d == Len(stored) - taken
           q == d \div bufferSize
<1>2. d \in Nat
  BY <1>1
<1>3. q \in Nat /\ d % bufferSize \in 0..(bufferSize - 1) /\ d = bufferSize * q + (d % bufferSize)
  BY <1>1, <1>2, Quotient
<1>4. bufferSize * q \in Nat /\ (bufferSize * q = 0 \/ bufferSize * q >= bufferSize)
  BY <1>1, <1>3
<1>5. Survivor = taken + bufferSize * q
  BY DEF Survivor
<1>6. Survivor \in taken..Len(stored) /\ Survivor > Len(stored) - bufferSize
  BY <1>1, <1>3, <1>4, <1>5
<1>7. Survivor % bufferSize = taken % bufferSize
  <2>1. PICK p \in Nat, r \in 0..(bufferSize - 1) :
           taken = bufferSize * p + r /\ taken % bufferSize = r
    BY <1>1, Quotient
  <2>2. p + q \in Nat /\ Survivor = bufferSize * (p + q) + r
    BY <1>1, <1>3, <1>5, <2>1
  <2> QED
    BY <1>1, <2>1, <2>2, QuotientIs
<1>8. buffer[taken % bufferSize] = stored[Survivor]
  BY <1>1, <1>6, <1>7 DEF RingOrder, RingInv
<1>9. Len(stored) < taken + bufferSize <=> Survivor = taken
  BY <1>1, <1>3, <1>4, <1>5
<1> QED
  BY <1>6, <1>8, <1>9

\* keyboard_buffer_out returns the code that comes next or, where its slot has been
\* written again, the last code in that slot; and a slot is written again only
\* through a ring filled behind the decrement or through a count lost earlier.
THEOREM CodesInOrder == Spec => InOrder
<1>1. ASSUME RingOrder, [Next]_vars
      PROVE  [pc = "ret" /\ pc' = "switch"
                => /\ code' = stored[Survivor]
                   /\ Survivor # taken => bufferUsed = bufferSize \/ Lag > 0]_vars
  <2>1. /\ taken \in Nat /\ bufferUsed \in 0..bufferSize /\ Len(stored) \in Nat
        /\ bufferSize \in Nat \ {0} /\ reg \in Nat
    BY <1>1, KeyboardAssumption DEF RingOrder, KeyboardInv, TypeOK
  <2>2. ASSUME pc = "ret", pc' = "switch"
        PROVE  /\ code' = stored[Survivor]
               /\ Survivor # taken => bufferUsed = bufferSize \/ Lag > 0
    <3>1. OutReturn
      BY <1>1, <2>2
         DEF Next, irq_0x21, CallClear, Main, WhileTest, OutAdvance, OutLoad, OutStore,
             Process, vars
    <3>2. Lag = Len(stored) - taken - bufferUsed /\ Lag >= 0 /\ taken >= 1
      BY <1>1, <2>2 DEF RingOrder, KeyboardInv, UsedInv, Lag, SettledUsed
    <3>3. taken <= Len(stored)
      BY <2>1, <3>2
    <3>4. /\ buffer[taken % bufferSize] = stored[Survivor]
          /\ Len(stored) < taken + bufferSize <=> Survivor = taken
      BY <1>1, <3>2, <3>3, SurvivorInRing
    <3>5. bufferHead = taken % bufferSize
      BY <1>1 DEF RingOrder, RingInv
    <3>6. code' = stored[Survivor]
      BY <3>1, <3>4, <3>5 DEF OutReturn
    <3>7. Survivor # taken => bufferUsed = bufferSize \/ Lag > 0
      BY <2>1, <3>2, <3>4
    <3> QED
      BY <3>6, <3>7
  <2> QED
    BY <2>2
<1> QED
  BY <1>1, RingAlways, PTL DEF Spec, InOrder

-----------------------------------------------------------------------------
(* The echo *)

\* The printed codes among the first n are finitely many, and one code more
\* adds itself at most.
LEMMA PrintedNext ==
    ASSUME NEW s, NEW n \in Nat
    PROVE  /\ IsFiniteSet(Printed(s, n))
           /\ Printed(s, n + 1) =
                IF ~IsBreak(s[n + 1]) /\ s[n + 1] \notin Shifts \cup {CapsLock}
                THEN Printed(s, n) \cup {n + 1} ELSE Printed(s, n)
           /\ n + 1 \notin Printed(s, n)
           /\ Cardinality(Printed(s, n)) \in Nat
<1>1. IsFiniteSet(1..n) /\ Printed(s, n) \subseteq 1..n
  BY FS_Interval DEF Printed
<1>2. IsFiniteSet(Printed(s, n)) /\ Cardinality(Printed(s, n)) \in Nat
  BY <1>1, FS_Subset, FS_CardinalityType
<1>3. 1..(n + 1) = 1..n \cup {n + 1} /\ n + 1 \notin 1..n
  OBVIOUS
<1> QED
  BY <1>2, <1>3 DEF Printed

\* What the first n codes have been printed as depends on them alone.
LEMMA EchoOfPrefix ==
    ASSUME NEW s, NEW t, NEW n \in Nat, \A j \in 1..n : t[j] = s[j]
    PROVE  /\ ShiftAt(t, n + 1) = ShiftAt(s, n + 1)
           /\ CapsAt(t, n + 1) = CapsAt(s, n + 1)
           /\ \A text : IsEcho(text, s, n) => IsEcho(text, t, n)
<1>1. ASSUME NEW i \in 1..(n + 1)
      PROVE  ShiftAt(t, i) = ShiftAt(s, i) /\ CapsAt(t, i) = CapsAt(s, i)
  <2>1. \A j \in 1..(i - 1) : j \in 1..n /\ \A k \in j..(i - 1) : k \in 1..n
    OBVIOUS
  <2>2. {j \in 1..(i - 1) : t[j] = CapsLock} = {j \in 1..(i - 1) : s[j] = CapsLock}
    BY <2>1
  <2> QED
    BY <2>1, <2>2 DEF ShiftAt, CapsAt
<1>2. ASSUME NEW i \in 0..n PROVE Printed(t, i) = Printed(s, i)
  <2>1. \A j \in 1..i : j \in 1..n
    OBVIOUS
  <2> QED
    BY <2>1 DEF Printed
<1>3. ASSUME NEW i \in 1..n PROVE Glyph(t[i], Level(t, i)) = Glyph(s[i], Level(s, i))
  <2>1. i \in 1..(n + 1)
    OBVIOUS
  <2>2. Level(t, i) = Level(s, i)
    BY <1>1, <2>1 DEF Level
  <2> QED
    BY <2>2
<1>4. n + 1 \in 1..(n + 1) /\ n \in 0..n /\ \A i \in Printed(s, n) : i \in 1..n /\ i \in 0..n
  BY DEF Printed
<1>5. ASSUME NEW text, IsEcho(text, s, n) PROVE IsEcho(text, t, n)
  BY <1>2, <1>3, <1>4, <1>5 DEF IsEcho
<1> QED
  BY <1>1, <1>4, <1>5

\* The state of the modifiers after one code more.
LEMMA ModifiersNext ==
    ASSUME NEW s, NEW n \in Nat
    PROVE  /\ ShiftAt(s, n + 2) <=>
                \/ s[n + 1] \in Shifts
                \/ s[n + 1] \notin {Break(x) : x \in Shifts} /\ ShiftAt(s, n + 1)
           /\ CapsAt(s, n + 2) <=> (s[n + 1] = CapsLock <=> ~CapsAt(s, n + 1))
<1> DEFINE A == {j \in 1..n : s[j] = CapsLock}
           B == {j \in 1..(n + 1) : s[j] = CapsLock}
<1>1. (n + 2) - 1 = n + 1 /\ (n + 1) - 1 = n
  OBVIOUS
<1>2. /\ 1..(n + 1) = 1..n \cup {n + 1} /\ n + 1 \notin 1..n
      /\ (n + 1)..(n + 1) = {n + 1}
      /\ \A j \in 1..n : j..(n + 1) = j..n \cup {n + 1}
  OBVIOUS
<1>3. ShiftAt(s, n + 2) <=>
        \/ s[n + 1] \in Shifts
        \/ s[n + 1] \notin {Break(x) : x \in Shifts} /\ ShiftAt(s, n + 1)
  <2>1. \A x \in Shifts : x \notin {Break(y) : y \in Shifts}
    BY DEF Shifts, Break
  <2>2. ShiftAt(s, n + 2) <=>
          \E j \in 1..(n + 1) : /\ s[j] \in Shifts
                                /\ \A k \in j..(n + 1) : s[k] \notin {Break(x) : x \in Shifts}
    BY <1>1 DEF ShiftAt
  <2>3. ShiftAt(s, n + 1) <=>
          \E j \in 1..n : /\ s[j] \in Shifts
                          /\ \A k \in j..n : s[k] \notin {Break(x) : x \in Shifts}
    BY <1>1 DEF ShiftAt
  <2> QED
    BY <1>2, <2>1, <2>2, <2>3, Zenon
<1>4. IsFiniteSet(A) /\ Cardinality(A) \in Nat /\ n + 1 \notin A
  <2>1. IsFiniteSet(1..n) /\ A \subseteq 1..n
    BY FS_Interval
  <2> QED
    BY <1>2, <2>1, FS_Subset, FS_CardinalityType
<1>5. B = IF s[n + 1] = CapsLock THEN A \cup {n + 1} ELSE A
  BY <1>2
<1>6. Cardinality(B) = IF s[n + 1] = CapsLock THEN Cardinality(A) + 1 ELSE Cardinality(A)
  BY <1>4, <1>5, FS_AddElement
<1>7. /\ CapsAt(s, n + 2) <=> Cardinality(B) % 2 = 1
      /\ CapsAt(s, n + 1) <=> Cardinality(A) % 2 = 1
  BY <1>1 DEF CapsAt
<1> HIDE DEF A, B
<1>8. CapsAt(s, n + 2) <=> (s[n + 1] = CapsLock <=> ~CapsAt(s, n + 1))
  <2>1. \A m \in Nat : (m + 1) % 2 = 1 <=> ~(m % 2 = 1)
    OBVIOUS
  <2> QED
    BY <1>4, <1>6, <1>7, <2>1
<1> QED
  BY <1>3, <1>8

\* A printed code adds its character to the echo, any other code leaves it.
LEMMA EchoNext ==
    ASSUME NEW S, NEW text \in Seq(S), NEW s, NEW n \in Nat, IsEcho(text, s, n),
           ~IsBreak(s[n + 1]), s[n + 1] \notin Shifts \cup {CapsLock},
           NEW g \in S, g = Glyph(s[n + 1], Level(s, n + 1))
    PROVE  IsEcho(Append(text, g), s, n + 1)
<1> DEFINE out == Append(text, g)
           P == Printed(s, n)
           Q == Printed(s, n + 1)
<1>1. IsFiniteSet(P) /\ Q = P \cup {n + 1} /\ n + 1 \notin P /\ Cardinality(P) \in Nat
  BY PrintedNext
<1>2. Cardinality(Q) = Cardinality(P) + 1 /\ Len(text) = Cardinality(P)
  BY <1>1, FS_AddElement DEF IsEcho
<1>3. /\ Len(out) = Cardinality(Q)
      /\ out[Cardinality(Q)] = g
      /\ \A k \in 1..Cardinality(P) : out[k] = text[k]
  BY <1>1, <1>2
<1>4. ASSUME NEW i \in P
      PROVE  Cardinality(Printed(s, i)) \in 1..Cardinality(P)
  <2>1. i \in 1..n /\ i \in Printed(s, i) /\ Printed(s, i) \subseteq P
    BY DEF Printed
  <2>2. IsFiniteSet(Printed(s, i)) /\ Cardinality(Printed(s, i)) \in Nat
        /\ Cardinality(Printed(s, i)) <= Cardinality(P)
    BY <1>1, <2>1, FS_Subset, FS_CardinalityType
  <2>3. Cardinality(Printed(s, i)) # 0
    BY <2>1, <2>2, FS_EmptySet
  <2> QED
    BY <1>1, <2>2, <2>3
<1>5. ASSUME NEW i \in Q
      PROVE  out[Cardinality(Printed(s, i))] = Glyph(s[i], Level(s, i))
  <2>1. CASE i = n + 1
    BY <1>3, <2>1
  <2>2. CASE i # n + 1
    BY <1>1, <1>3, <1>4, <1>5, <2>2 DEF IsEcho
  <2> QED
    BY <2>1, <2>2
<1> QED
  BY <1>3, <1>5 DEF IsEcho

LEMMA EchoSame ==
    ASSUME NEW text, NEW s, NEW n \in Nat, IsEcho(text, s, n),
           IsBreak(s[n + 1]) \/ s[n + 1] \in Shifts \cup {CapsLock}
    PROVE  IsEcho(text, s, n + 1)
<1>1. Printed(s, n + 1) = Printed(s, n)
  BY PrintedNext
<1> QED
  BY <1>1 DEF IsEcho

\* The key map under the four states of the modifiers.
LEMMA KeymapIs ==
    ASSUME NEW st \in 0..3, NEW c \in 0..127, keymap(c) # NUL
    PROVE  /\ keymap(\h80 * st + c) =
                Glyph(c, \/ c \in Letters /\ (st % 2 = 1) # (st \div 2 = 1)
                         \/ c \in Symbols /\ st % 2 = 1)
           /\ keymap(\h80 * st + c) # NUL
<1>1. /\ (\h80 * st + c) \div \h80 = st /\ (\h80 * st + c) % \h80 = c
      /\ c \div \h80 = 0 /\ c % \h80 = c
  OBVIOUS
<1>2. c \in Letters \cup Symbols \cup Plain
  BY <1>1 DEF keymap
<1>3. c # 0
  BY <1>2 DEF Letters, Symbols, Plain, Shifts, CapsLock
<1>4. /\ st \in {1, 2} <=> (st % 2 = 1) # (st \div 2 = 1)
      /\ st \in {1, 3} <=> st % 2 = 1
  OBVIOUS
<1>5. keymap(\h80 * st + c) = Glyph(c, \/ c \in Letters /\ st \in {1, 2}
                                       \/ c \in Symbols /\ st \in {1, 3})
  <2> DEFINE i == \h80 * st + c
  <2>1. i % \h80 = c /\ i \div \h80 = st
    BY <1>1
  <2> HIDE DEF i
  <2>2. keymap(i) = Glyph(c, \/ c \in Letters /\ st \in {1, 2}
                             \/ c \in Symbols /\ st \in {1, 3})
    BY ONLY <2>1, <1>2, Zenon DEF keymap
  <2> QED
    BY <2>2 DEF i
<1> QED
  BY <1>3, <1>4, <1>5 DEF Glyph, NUL

\* How many codes have been through the body of keyboard_buffer_clear.
Done == IF pc \in {"load", "store", "ret", "switch"} THEN taken - 1 ELSE taken

\* The echo as an inductive invariant: text and status are those of the codes
\* done, and the code under way is the next one.
EchoInv ==
    /\ RingOrder
    /\ \A j \in 1..Len(stored) : keymap(stored[j]) # NUL
    /\ pc = "switch" => taken >= 1 /\ code = stored[taken]
    /\ taken <= Len(stored)
    /\ IsEcho(shown, stored, Done)
    /\ status % 2 = 1 <=> ShiftAt(stored, Done + 1)
    /\ status \div 2 = 1 <=> CapsAt(stored, Done + 1)

LEMMA EchoStore ==
    ASSUME EchoInv, NEW c \in Codes, irq_0x21(c), RingOrder'
    PROVE  EchoInv'
<1>1. /\ UNCHANGED <<pc, code, taken, shown, status>> /\ Done' = Done
      /\ keyboard_buffer_in(c)
  BY DEF irq_0x21, Done
<1>2. CASE Refused(c)
  BY <1>1, <1>2 DEF keyboard_buffer_in, shared, EchoInv
<1>3. CASE ~Refused(c)
  <2>1. stored' = Append(stored, c) /\ keymap(c) # NUL
    BY <1>1, <1>3 DEF keyboard_buffer_in, Refused
  <2>2. /\ stored \in Seq(0..255) /\ Len(stored) \in Nat /\ taken \in Nat
        /\ pc \in {"load", "store", "ret", "switch"} => taken >= 1
    BY DEF EchoInv, RingOrder, KeyboardInv, TypeOK
  <2>3. PICK n \in Nat : n = Done
    BY <2>2 DEF Done
  <2>4. n <= taken /\ taken <= Len(stored)
    BY <2>2, <2>3 DEF Done, EchoInv
  <2>5. /\ Len(stored') = Len(stored) + 1
        /\ stored'[Len(stored) + 1] = c
        /\ \A j \in 1..Len(stored) : stored'[j] = stored[j]
    BY <2>1, <2>2
  <2>6. \A j \in 1..n : stored'[j] = stored[j]
    BY <2>2, <2>4, <2>5
  <2>7. /\ ShiftAt(stored', n + 1) = ShiftAt(stored, n + 1)
        /\ CapsAt(stored', n + 1) = CapsAt(stored, n + 1)
        /\ IsEcho(shown, stored, n) => IsEcho(shown, stored', n)
    BY <2>6, EchoOfPrefix
  <2>8. \A j \in 1..Len(stored') : keymap(stored'[j]) # NUL
    BY <2>1, <2>2, <2>5 DEF EchoInv
  <2>9. pc' = "switch" => taken' >= 1 /\ code' = stored'[taken']
    BY <1>1, <2>2, <2>4, <2>5 DEF EchoInv
  <2>10. taken' <= Len(stored')
    BY <1>1, <2>2, <2>4, <2>5
  <2>11. /\ IsEcho(shown', stored', Done')
         /\ status' % 2 = 1 <=> ShiftAt(stored', Done' + 1)
         /\ status' \div 2 = 1 <=> CapsAt(stored', Done' + 1)
    <3>1. /\ IsEcho(shown, stored, n)
          /\ status % 2 = 1 <=> ShiftAt(stored, n + 1)
          /\ status \div 2 = 1 <=> CapsAt(stored, n + 1)
      BY <2>3 DEF EchoInv
    <3> QED
      BY <1>1, <2>3, <2>7, <3>1
  <2> QED
    BY <2>8, <2>9, <2>10, <2>11 DEF EchoInv
<1> QED
  BY <1>2, <1>3

\* The body of keyboard_buffer_clear does for one code what the reference says.
LEMMA EchoProcess ==
    ASSUME EchoInv, Process, RingOrder'
    PROVE  EchoInv'
<1>1. /\ status' = NewStatus /\ pc = "switch" /\ pc' = "while"
      /\ shown' = IF ~Modifier /\ ~IsBreak(code) /\ keymap(\h80 * status + code) # NUL
                  THEN Append(shown, keymap(\h80 * status + code)) ELSE shown
      /\ UNCHANGED <<taken, stored>>
  BY DEF Process, shared
<1>2. /\ stored \in Seq(0..255) /\ Len(stored) \in Nat /\ taken \in Nat
      /\ status \in 0..3 /\ code \in 0..255
      /\ shown \in Seq((0..127) \X {0, 1})
      /\ taken >= 1 /\ taken <= Len(stored) /\ code = stored[taken]
  BY <1>1 DEF EchoInv, RingOrder, KeyboardInv, TypeOK
<1>3. PICK n \in Nat : n = taken - 1
  BY <1>2
<1>4. Done = n /\ Done' = n + 1 /\ taken = n + 1 /\ code = stored[n + 1]
  BY <1>1, <1>2, <1>3 DEF Done
<1>5. /\ IsEcho(shown, stored, n)
      /\ status % 2 = 1 <=> ShiftAt(stored, n + 1)
      /\ status \div 2 = 1 <=> CapsAt(stored, n + 1)
      /\ keymap(code) # NUL
  BY <1>2, <1>4 DEF EchoInv
<1>6. /\ ShiftAfter \in {0, 1} /\ CapsAfter \in {0, 1}
      /\ status' % 2 = ShiftAfter /\ status' \div 2 = CapsAfter
  <2>1. status % 2 \in {0, 1} /\ status \div 2 \in {0, 1}
    BY <1>2
  <2>2. ShiftAfter \in {0, 1} /\ CapsAfter \in {0, 1}
    BY <2>1 DEF ShiftAfter, CapsAfter
  <2> QED
    BY <1>1, <2>2 DEF NewStatus
<1>7. /\ status' % 2 = 1 <=> ShiftAt(stored, n + 2)
      /\ status' \div 2 = 1 <=> CapsAt(stored, n + 2)
  <2>1. /\ ShiftAfter = 1 <=>
            \/ code \in Shifts
            \/ code \notin {Break(k) : k \in Shifts} /\ status % 2 = 1
        /\ CapsAfter = 1 <=> (code = CapsLock <=> ~(status \div 2 = 1))
    <3>1. status \div 2 \in {0, 1}
      BY <1>2
    <3> QED
      BY <3>1 DEF ShiftAfter, CapsAfter
  <2> QED
    BY <1>4, <1>5, <1>6, <2>1, ModifiersNext
<1>8. IsEcho(shown', stored, n + 1)
  <2>1. Modifier /\ ~IsBreak(code) <=> code \in Shifts \cup {CapsLock}
    <3>1. \A k \in Shifts : IsBreak(Break(k)) /\ ~IsBreak(k)
      BY DEF Shifts, Break, IsBreak
    <3>2. ~IsBreak(CapsLock)
      BY DEF CapsLock, IsBreak
    <3> QED
      BY <3>1, <3>2 DEF Modifier
  <2>2. CASE ~IsBreak(code) /\ code \notin Shifts \cup {CapsLock}
    <3>1. code \in 0..127
      <4>1. code \in 0..255
        BY <1>2
      <4> QED
        BY <2>2, <4>1 DEF IsBreak
    <3>2. /\ keymap(\h80 * status + code) # NUL
          /\ keymap(\h80 * status + code) = Glyph(code, Level(stored, n + 1))
      <4>1. /\ keymap(\h80 * status + code) =
                  Glyph(code, \/ code \in Letters /\ (status % 2 = 1) # (status \div 2 = 1)
                              \/ code \in Symbols /\ status % 2 = 1)
            /\ keymap(\h80 * status + code) # NUL
        <5>1. status \in 0..3 /\ keymap(code) # NUL
          BY <1>2, <1>5
        <5> QED
          BY ONLY <3>1, <5>1, KeymapIs
      <4>2. Level(stored, n + 1) <=>
               \/ code \in Letters /\ (status % 2 = 1) # (status \div 2 = 1)
               \/ code \in Symbols /\ status % 2 = 1
        <5>1. ShiftAt(stored, n + 1) \in BOOLEAN /\ CapsAt(stored, n + 1) \in BOOLEAN
          BY DEF ShiftAt, CapsAt
        <5>2. /\ (status % 2 = 1) = ShiftAt(stored, n + 1)
              /\ (status \div 2 = 1) = CapsAt(stored, n + 1)
          BY <1>5, <5>1
        <5> QED
          BY <1>4, <5>2 DEF Level
      <4> QED
        BY <4>1, <4>2 DEF Glyph
    <3>3. keymap(\h80 * status + code) \in (0..127) \X {0, 1}
      <4>1. code \in 0..255 /\ status \in 0..3
        BY <1>2
      <4>2. \h80 * status + code \in Nat
        BY <4>1
      <4> QED
        BY <4>2, KeymapType
    <3>4. shown' = Append(shown, keymap(\h80 * status + code))
      BY <1>1, <2>1, <2>2, <3>2
    <3> QED
      BY <1>2, <1>4, <1>5, <2>2, <3>2, <3>3, <3>4, EchoNext
  <2>3. CASE ~(~IsBreak(code) /\ code \notin Shifts \cup {CapsLock})
    <3>1. shown' = shown
      BY <1>1, <2>1, <2>3
    <3> QED
      BY <1>4, <1>5, <2>3, <3>1, EchoSame
  <2> QED
    BY <2>2, <2>3
<1>9. n + 2 = Done' + 1 /\ n + 1 = Done'
  BY <1>4
<1> QED
  BY <1>1, <1>2, <1>7, <1>8, <1>9 DEF EchoInv

LEMMA EchoStep ==
    ASSUME EchoInv, NotOverwritten, [Next]_vars, RingOrder'
    PROVE  EchoInv'
<1>1. /\ taken \in Nat /\ stored \in Seq(0..255) /\ Len(stored) \in Nat
      /\ bufferSize \in Nat \ {0} /\ taken <= Len(stored) /\ taken' <= Len(stored')
  <2>1. KeyboardInv' /\ bufferSize \in Nat \ {0}
    BY KeyboardAssumption DEF RingOrder
  <2>2. taken' <= Len(stored')
    <3>1. /\ taken' \in Nat /\ bufferUsed' \in Nat /\ reg' \in Nat /\ Len(stored') \in Nat
      BY <2>1 DEF KeyboardInv, TypeOK
    <3> QED
      BY <2>1, <3>1 DEF KeyboardInv, UsedInv, Lag, SettledUsed
  <2> QED
    BY <2>1, <2>2 DEF EchoInv, RingOrder, KeyboardInv, TypeOK
<1>2. ASSUME NEW c \in Codes, irq_0x21(c) PROVE EchoInv'
  BY <1>2, EchoStore
<1>3. ASSUME Process PROVE EchoInv'
  BY <1>3, EchoProcess
<1>4. ASSUME OutReturn PROVE EchoInv'
  <2>1. /\ pc = "ret" /\ pc' = "switch" /\ code' = buffer[bufferHead]
        /\ UNCHANGED <<taken, stored, shown, status>>
    BY <1>4 DEF OutReturn, shared
  <2>2. taken >= 1 /\ bufferHead = taken % bufferSize
    BY <2>1 DEF EchoInv, RingOrder, RingInv
  <2>3. taken \in 1..Len(stored) /\ taken > Len(stored) - bufferSize
    BY <1>1, <2>1, <2>2 DEF NotOverwritten
  <2>4. code' = stored[taken]
    BY <2>1, <2>2, <2>3 DEF EchoInv, RingOrder, RingInv
  <2>5. Done' = Done
    BY <2>1 DEF Done
  <2> QED
    BY <2>1, <2>2, <2>4, <2>5 DEF EchoInv
<1>5. ASSUME CallClear \/ WhileTest \/ OutAdvance \/ OutLoad \/ OutStore \/ UNCHANGED vars
      PROVE  EchoInv'
  <2>1. UNCHANGED <<stored, shown, status>>
    BY <1>5 DEF CallClear, WhileTest, OutAdvance, OutLoad, OutStore, shared, vars
  <2>2. Done' = Done
    <3>1. pc = "out" => bufferUsed # 0
      BY DEF EchoInv, RingOrder, KeyboardInv, UsedInv
    <3> QED
      BY <1>1, <1>5, <3>1
         DEF CallClear, WhileTest, OutAdvance, OutLoad, OutStore, vars, Done
  <2>3. pc' = "switch" => pc = "switch" /\ UNCHANGED <<taken, code>>
    <3>1. pc = "out" => bufferUsed # 0
      BY DEF EchoInv, RingOrder, KeyboardInv, UsedInv
    <3> QED
      BY <1>5, <3>1 DEF CallClear, WhileTest, OutAdvance, OutLoad, OutStore, vars
  <2> QED
    BY <1>1, <2>1, <2>2, <2>3 DEF EchoInv
<1> QED
  BY <1>2, <1>3, <1>4, <1>5 DEF Next, Main

LEMMA EchoInitial == Init => EchoInv
<1> SUFFICES ASSUME Init PROVE EchoInv
  OBVIOUS
<1>1. RingOrder
  BY RingInitial
<1>2. /\ Done = 0 /\ stored = <<>> /\ shown = <<>> /\ status = 0 /\ taken = 0
      /\ pc = "idle" /\ Len(stored) = 0
  BY DEF Init, Done
<1>3. Printed(stored, 0) = {} /\ Cardinality({}) = 0
  BY FS_EmptySet DEF Printed
<1>4. ~ShiftAt(stored, 1)
  BY DEF ShiftAt
<1>5. ~CapsAt(stored, 1)
  <2>1. {j \in 1..(1 - 1) : stored[j] = CapsLock} = {}
    OBVIOUS
  <2> QED
    BY <1>3, <2>1 DEF CapsAt
<1>6. IsEcho(shown, stored, 0)
  BY <1>2, <1>3 DEF IsEcho
<1> QED
  BY <1>1, <1>2, <1>4, <1>5, <1>6 DEF EchoInv

\* What stands on the screen, whenever keyboard_buffer_clear has dealt with a code.
EchoShown == pc \in {"idle", "while"} => IsEcho(shown, stored, taken)

\* However interrupts fall into keyboard_buffer_clear and however often the ring
\* wraps: as long as no code is stored over one that is still unread, through lost
\* counts or through a ring filled behind the decrement, the echo is the text of
\* the codes that were stored.
THEOREM EchoIsTheText == Spec /\ []NotOverwritten => []EchoShown
<1>1. EchoInv /\ NotOverwritten /\ [Next]_vars /\ RingOrder' => EchoInv'
  BY EchoStep
<1>2. EchoInv => EchoShown
  BY DEF EchoInv, EchoShown, Done
<1> QED
  BY <1>1, <1>2, EchoInitial, RingAlways, PTL DEF Spec

\* Where fewer codes are stored than the ring has slots nothing is overwritten, and the
\* echo is right without a condition.
THEOREM ShortTextsAreEchoed == Spec => []EchoIsFaithful
<1> DEFINE Short == Len(stored) <= MaxStored
<1>1. Init => Short
  BY KeyboardAssumption DEF Init
<1>2. RingOrder /\ Short /\ [Next]_vars => Short'
  <2> SUFFICES ASSUME RingOrder, Short, [Next]_vars PROVE Short'
    OBVIOUS
  <2>1. MaxStored \in Nat /\ Len(stored) \in Nat /\ stored \in Seq(0..255) /\ Codes \subseteq 0..255
    BY KeyboardAssumption DEF RingOrder, KeyboardInv, TypeOK
  <2>2. ASSUME NEW c \in Codes, irq_0x21(c) PROVE Short'
    <3>1. keyboard_buffer_in(c) /\ c \in 0..255
      BY <2>1, <2>2 DEF irq_0x21
    <3>2. \/ stored' = stored
          \/ Len(stored) < MaxStored /\ stored' = Append(stored, c)
      BY <3>1 DEF keyboard_buffer_in, shared
    <3>3. Len(Append(stored, c)) = Len(stored) + 1
      BY <2>1
    <3> QED
      BY <2>1, <3>2, <3>3
  <2>3. ASSUME CallClear \/ Main \/ UNCHANGED vars PROVE Short'
    BY <2>3 DEF CallClear, Main, WhileTest, OutAdvance, OutLoad, OutStore, OutReturn,
                Process, shared, vars
  <2> QED
    BY <2>2, <2>3 DEF Next
<1>3. RingOrder /\ Short /\ MaxStored < bufferSize => NotOverwritten
  <2>1. RingOrder => taken \in Nat /\ Len(stored) \in Nat
    BY DEF RingOrder, KeyboardInv, TypeOK
  <2> QED
    BY <2>1, KeyboardAssumption DEF NotOverwritten
<1>4. CASE MaxStored < bufferSize
  <2>1. EchoShown => EchoIsFaithful
    BY DEF EchoShown, EchoIsFaithful
  <2> QED
    BY <1>1, <1>2, <1>3, <1>4, <2>1, RingAlways, EchoIsTheText, PTL DEF Spec
<1>5. CASE ~(MaxStored < bufferSize)
  <2>1. EchoIsFaithful
    BY <1>5 DEF EchoIsFaithful
  <2> QED
    BY <2>1, PTL
<1> QED
  BY <1>4, <1>5

-----------------------------------------------------------------------------
(* The main loop *)

\* The loop of main, with its halts and its ticks, runs the keyboard path as the
\* module Keyboard describes it: what holds there holds in the loop.
THEOREM LoopRunsTheKeyboard == LoopSpec => Spec
<1>1. LoopInit => Init
  BY DEF LoopInit
<1>2. [LoopNext]_loopVars => [Next]_vars
  BY DEF LoopNext, irq_0x20, KeyInterrupt, Loop, CheckClear, Clear, CheckBlink, Halt,
         loopVars, Next
<1> QED
  BY <1>1, <1>2, PTL DEF LoopSpec, Spec

=============================================================================
