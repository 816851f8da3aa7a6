-------------------------- MODULE InterruptsProofs --------------------------
(***************************************************************************)
(* What holds of the interrupts of ListaOS for every set of devices, every *)
(* number of codes and ticks: the depth of the kernel's stack, the gates,  *)
(* and the lines in service.                                               *)
(***************************************************************************)
EXTENDS Interrupts, SequenceTheorems, TLAPS

-----------------------------------------------------------------------------
(* The invariant *)

Frame == [handler : DOMAIN Code, at : 1..5, if : BOOLEAN]

\* The iret of a handler.
Last(h) == IF h \in {"page_fault", "irq_0x27"} THEN 4 ELSE 5

\* A page fault before its cli is the one handler that may be interrupted.
Open(f) == f.handler = "page_fault" /\ f.at = 1

Values ==
    /\ write \in 1..(Len(PicWrites) + 1)
    /\ IF_ \in BOOLEAN /\ shadow \in BOOLEAN
    /\ irr \subseteq 0..15
    /\ obf \in BOOLEAN /\ waiting \in 0..MaxWaiting /\ deaf \in BOOLEAN
    /\ races \in 0..MaxRaces

\* What has been set up by the time main gets somewhere.
Stage ==
    /\ pc \in {"timer_init", "idt_init", "pic_init", "main"}
    /\ pc \in {"timer_init", "idt_init"} => write = 1 /\ idt = [v \in {} |-> TrapGate("page_fault")]
    /\ pc \in {"pic_init", "main"} => idt = Gates
    /\ pc = "main" => write = 13
    /\ pc # "main" => stack = <<>> /\ ~IF_ /\ ~shadow /\ isr = {}

\* The chips expect the words that pic_init writes next.
ChipInv ==
    /\ imr \in [{"M", "S"} -> SUBSET (0..7)]
    /\ base \in [{"M", "S"} -> 0..255]
    /\ word = [c \in {"M", "S"} |->
                 LET n == IF c = "M" THEN write ELSE write - 1
                 IN  IF n \in {4, 5} THEN 2 ELSE IF n \in {6, 7} THEN 3
                     ELSE IF n \in {8, 9} THEN 4 ELSE 0]
    /\ write >= 6 => base["M"] = \h20
    /\ write >= 12 => imr["M"] = {2, 3, 4, 5, 6}

\* The interrupt flag is off in a handler, but for a page fault before its cli
\* and the instruction after a sti.
StackShape ==
    /\ stack \in Seq(Frame)
    /\ Len(stack) <= 2
    /\ \A i \in 1..Len(stack) : stack[i].if = TRUE /\ stack[i].at <= Last(stack[i].handler)
    /\ pc = "main" /\ stack = <<>> => IF_
    /\ stack # <<>> =>
          /\ IF_ <=> Open(Top) \/ Top.at = Last(Top.handler)
          /\ shadow <=> Top.at = Last(Top.handler)
    /\ Len(stack) = 2 => Open(stack[1]) /\ stack[2].handler # "page_fault"

\* Only lines with a gate are ever in service, those of the timer and of the
\* keyboard until their handler has ended the interrupt.
ServiceInv ==
    /\ isr \subseteq {0, 1, 7}
    /\ 0 \in isr => stack # <<>> /\ Top.handler = "irq_0x20" /\ Top.at <= 2
    /\ 1 \in isr => stack # <<>> /\ Top.handler = "irq_0x21" /\ Top.at <= 2

IntInv == ~shutdown /\ Values /\ Stage /\ ChipInv /\ StackShape /\ ServiceInv

-----------------------------------------------------------------------------
(* The code of the handlers and the masks *)

LEMMA Handlers == DOMAIN Code = {"page_fault", "irq_0x20", "irq_0x21", "irq_0x27"}
  BY DEF Code

Words == {"cli", "eoi", "inb", "body", "sti", "iret"}

LEMMA Joined ==
    ASSUME NEW S, NEW s \in Seq(S), NEW t \in Seq(S)
    PROVE  /\ s \o t \in Seq(S) /\ Len(s \o t) = Len(s) + Len(t)
           /\ Len(s) \in Nat /\ Len(t) \in Nat
           /\ \A i \in 1..Len(s) : (s \o t)[i] = s[i]
           /\ \A i \in 1..Len(t) : (s \o t)[Len(s) + i] = t[i]
  OBVIOUS

LEMMA StubSteps ==
    ASSUME NEW body \in Seq(Words)
    PROVE  /\ Stub(body)[1] = "cli"
           /\ \A i \in 1..Len(body) : Stub(body)[i + 1] = body[i]
           /\ Stub(body)[Len(body) + 2] = "sti"
           /\ Stub(body)[Len(body) + 3] = "iret"
<1> DEFINE first == <<"cli">>
           end == <<"sti", "iret">>
           s == first \o body
<1>1. /\ first \in Seq(Words) /\ Len(first) = 1 /\ first[1] = "cli"
      /\ end \in Seq(Words) /\ Len(end) = 2 /\ end[1] = "sti" /\ end[2] = "iret"
  BY DEF Words
<1> HIDE DEF first, end
<1>2. /\ s \in Seq(Words) /\ Len(s) = Len(body) + 1 /\ Len(body) \in Nat
      /\ s[1] = "cli" /\ \A i \in 1..Len(body) : s[i + 1] = body[i]
  <2>1. /\ s \in Seq(Words) /\ Len(s) = Len(first) + Len(body) /\ Len(body) \in Nat
        /\ \A i \in 1..Len(first) : s[i] = first[i]
        /\ \A i \in 1..Len(body) : s[Len(first) + i] = body[i]
    <3>1. first \in Seq(Words) /\ body \in Seq(Words)
      BY <1>1
    <3>2. first \o body \in Seq(Words) /\ Len(first \o body) = Len(first) + Len(body)
      BY ONLY <3>1, Joined
    <3>3. Len(body) \in Nat
      BY ONLY <3>1, Joined
    <3>4. /\ \A i \in 1..Len(first) : (first \o body)[i] = first[i]
          /\ \A i \in 1..Len(body) : (first \o body)[Len(first) + i] = body[i]
      BY ONLY <3>1, Joined
    <3> QED
      BY <3>2, <3>3, <3>4
  <2> HIDE DEF s
  <2>2. 1 \in 1..Len(first) /\ s[1] = "cli" /\ Len(s) = Len(body) + 1
    BY <1>1, <2>1
  <2>3. \A i \in 1..Len(body) : s[i + 1] = body[i]
    BY <1>1, <2>1
  <2> QED
    BY <2>1, <2>2, <2>3
<1> HIDE DEF s
<1>3. Stub(body) = s \o end
  BY DEF Stub, s, first, end
<1>4. /\ \A i \in 1..(Len(body) + 1) : Stub(body)[i] = s[i]
      /\ \A i \in 1..2 : Stub(body)[Len(body) + 1 + i] = end[i]
  <2>1. /\ \A i \in 1..Len(s) : (s \o end)[i] = s[i]
        /\ \A i \in 1..Len(end) : (s \o end)[Len(s) + i] = end[i]
    <3>1. s \in Seq(Words) /\ end \in Seq(Words)
      BY <1>1, <1>2
    <3> QED
      BY ONLY <3>1, Joined
  <2> QED
    BY <1>1, <1>2, <1>3, <2>1
<1> QED
  BY <1>1, <1>2, <1>4

LEMMA CodeSteps ==
    ASSUME NEW h \in DOMAIN Code, NEW a \in 1..Last(h)
    PROVE  /\ Code[h][a] = "cli" <=> a = 1
           /\ Code[h][a] = "eoi" => a = 2 /\ h \in {"irq_0x20", "irq_0x21"}
           /\ Code[h][a] \in {"body", "inb"} =>
                 /\ a > 1 /\ a < Last(h) - 1
                 /\ h \in {"irq_0x20", "irq_0x21"} => a # 2
           /\ Code[h][a] = "sti" <=> a = Last(h) - 1
           /\ Code[h][a] = "iret" <=> a = Last(h)
<1>1. ASSUME NEW g \in {"page_fault", "irq_0x27"}
      PROVE  /\ Code[g][1] = "cli" /\ Code[g][2] = "body" /\ Code[g][3] = "sti"
             /\ Code[g][4] = "iret"
  <2> DEFINE b == <<"body">>
  <2>1. Code[g] = Stub(b)
    BY <1>1 DEF Code
  <2>2. b \in Seq(Words) /\ Len(b) = 1 /\ b[1] = "body"
    BY DEF Words
  <2> HIDE DEF b
  <2> QED
    BY <2>1, <2>2, StubSteps
<1>4. ASSUME NEW g \in {"irq_0x20", "irq_0x21"}
      PROVE  /\ Code[g][1] = "cli" /\ Code[g][2] = "eoi" /\ Code[g][3] \in {"body", "inb"}
             /\ Code[g][4] = "sti" /\ Code[g][5] = "iret"
  <2>1. PICK op \in {"body", "inb"} : Code[g] = Stub(<<"eoi", op>>)
    BY <1>4 DEF Code
  <2> DEFINE b == <<"eoi", op>>
  <2>2. Code[g] = Stub(b) /\ b \in Seq(Words) /\ Len(b) = 2 /\ b[1] = "eoi" /\ b[2] = op
    BY <2>1 DEF Words
  <2> HIDE DEF b
  <2>3. /\ Stub(b)[1] = "cli"
        /\ \A i \in 1..2 : Stub(b)[i + 1] = b[i]
        /\ Stub(b)[4] = "sti"
        /\ Stub(b)[5] = "iret"
    <3>1. b \in Seq(Words)
      BY <2>2
    <3>2. /\ Stub(b)[1] = "cli"
          /\ \A i \in 1..Len(b) : Stub(b)[i + 1] = b[i]
          /\ Stub(b)[Len(b) + 2] = "sti"
          /\ Stub(b)[Len(b) + 3] = "iret"
      BY ONLY <3>1, StubSteps
    <3> QED
      BY <2>2, <3>2
  <2> QED
    BY <2>1, <2>2, <2>3
<1>2. CASE h \in {"page_fault", "irq_0x27"}
  <2>1. a \in 1..4 /\ Last(h) = 4
    BY <1>2 DEF Last
  <2> QED
    BY <1>1, <1>2, <2>1
<1>3. CASE h \in {"irq_0x20", "irq_0x21"}
  <2>1. a \in 1..5 /\ Last(h) = 5
    BY <1>3 DEF Last
  <2> QED
    BY <1>4, <1>3, <2>1
<1> QED
  BY <1>2, <1>3, Handlers

LEMMA Masks == Bits(\h7c) = {2, 3, 4, 5, 6} /\ \A v : Bits(v) \subseteq 0..7
<1>1. Bit[1] = 1 /\ Bit[2] = 2 /\ Bit[3] = 4 /\ Bit[4] = 8 /\ Bit[5] = 16 /\ Bit[6] = 32
      /\ Bit[7] = 64 /\ Bit[8] = 128
  BY DEF Bit
<1>2. \A i \in 0..7 : (124 \div Bit[i + 1]) % 2 = 1 <=> i \in {2, 3, 4, 5, 6}
  BY <1>1
<1> QED
  BY <1>2 DEF Bits

-----------------------------------------------------------------------------
(* The kernel's stack *)

LEMMA GatesAre ==
    /\ DOMAIN Gates = {\h0e, \h20, \h21, \h27}
    /\ Gates[\h0e].handler = "page_fault" /\ Gates[\h20].handler = "irq_0x20"
    /\ Gates[\h21].handler = "irq_0x21" /\ Gates[\h27].handler = "irq_0x27"
    /\ Gates[\h0e].if = TRUE
    /\ \A v \in {\h20, \h21, \h27} : Gates[v].if = FALSE
  BY DEF Gates, TrapGate, IntrGate

LEMMA Push ==
    ASSUME NEW S, NEW s \in Seq(S), NEW x \in S
    PROVE  /\ Append(s, x) \in Seq(S) /\ Len(s) \in Nat /\ Len(Append(s, x)) = Len(s) + 1
           /\ \A i \in 1..Len(s) : Append(s, x)[i] = s[i]
           /\ Append(s, x)[Len(s) + 1] = x
  OBVIOUS

LEMMA Pop ==
    ASSUME NEW S, NEW s \in Seq(S), s # <<>>
    PROVE  LET t == SubSeq(s, 1, Len(s) - 1)
           IN  /\ t \in Seq(S) /\ Len(t) = Len(s) - 1 /\ Len(s) \in Nat \ {0}
               /\ \A i \in 1..Len(t) : t[i] = s[i]
<1>1. Len(s) \in Nat \ {0}
  OBVIOUS
<1>2. \A i \in 1..(Len(s) - 1) : s[i] \in S
  BY <1>1
<1> DEFINE n == Len(s) - 1
<1>3. n \in Int /\ 1 \in Int /\ \A i \in 1..n : s[i] \in S
  BY <1>1, <1>2
<1> HIDE DEF n
<1>4. /\ SubSeq(s, 1, n) \in Seq(S)
      /\ Len(SubSeq(s, 1, n)) = IF 1 <= n THEN n - 1 + 1 ELSE 0
      /\ \A i \in 1..(n - 1 + 1) : SubSeq(s, 1, n)[i] = s[1 + i - 1]
  BY <1>3, SubSeqProperties
<1>5. n \in Nat /\ n = Len(s) - 1
  BY <1>1 DEF n
<1>6. Len(SubSeq(s, 1, n)) = n /\ \A i \in 1..n : SubSeq(s, 1, n)[i] = s[i]
  BY <1>4, <1>5
<1> QED
  BY <1>1, <1>4, <1>5, <1>6

\* The handler on top, and the state of the interrupt flag while it runs.
LEMMA OnTop ==
    ASSUME IntInv, stack # <<>>
    PROVE  /\ Len(stack) \in {1, 2} /\ pc = "main"
           /\ Top = stack[Len(stack)] /\ Top \in Frame /\ Top.at \in 1..Last(Top.handler)
           /\ Top.if = TRUE
<1>1. stack \in Seq(Frame) /\ Len(stack) <= 2 /\ pc = "main"
  BY DEF IntInv, StackShape, Stage
<1>2. Len(stack) \in Nat /\ Len(stack) # 0
  BY <1>1
<1>3. Top \in Frame /\ Len(stack) \in 1..Len(stack)
  BY <1>1, <1>2 DEF Top
<1>4. Top.if = TRUE /\ Top.at <= Last(Top.handler)
  BY <1>3 DEF IntInv, StackShape, Top
<1>5. Top.at \in Nat /\ Top.at >= 1 /\ Last(Top.handler) \in Nat
  BY <1>3 DEF Frame, Last
<1>6. Top.at \in 1..Last(Top.handler)
  BY <1>4, <1>5
<1>7. Len(stack) \in {1, 2}
  <2> DEFINE n == Len(stack)
  <2>1. n \in Nat /\ n # 0 /\ n <= 2
    BY <1>1, <1>2
  <2> HIDE DEF n
  <2>2. n = 1 \/ n = 2
    BY <2>1
  <2> QED
    BY <2>2 DEF n
<1> QED
  BY <1>1, <1>3, <1>4, <1>6, <1>7 DEF Top

\* Where the processor takes an interrupt no line of the timer or of the keyboard
\* is in service.
LEMMA WhereOpen ==
    ASSUME IntInv, IF_, ~shadow
    PROVE  /\ pc = "main" /\ idt = Gates
           /\ 0 \notin isr /\ 1 \notin isr
           /\ stack = <<>> \/ (Len(stack) = 1 /\ Open(stack[1]))
<1>1. pc = "main" /\ idt = Gates
  BY DEF IntInv, Stage
<1>2. ASSUME stack # <<>>
      PROVE  Open(Top) /\ Top.handler = "page_fault"
  BY <1>2 DEF IntInv, StackShape, Open
<1>3. 0 \notin isr /\ 1 \notin isr
  BY <1>2 DEF IntInv, ServiceInv
<1>4. ASSUME stack # <<>> PROVE Len(stack) = 1 /\ Open(stack[1])
  <2>1. Len(stack) \in {1, 2} /\ Top = stack[Len(stack)]
    BY <1>4, OnTop
  <2>2. Len(stack) # 2
    BY <1>2, <1>4, <2>1 DEF IntInv, StackShape
  <2> QED
    BY <1>2, <1>4, <2>1, <2>2
<1> QED
  BY <1>1, <1>3, <1>4

\* An interrupt or a page fault puts a handler on the stack.
LEMMA EnterStep ==
    ASSUME IntInv, IF_, ~shadow, NEW v \in {\h0e, \h20, \h21, \h27}, Enter(v),
           v = \h0e => stack = <<>>
    PROVE  /\ ~shutdown' /\ UNCHANGED <<pc, write, shadow>>
           /\ IF_' \in BOOLEAN
           /\ StackShape'
           /\ stack' # <<>> /\ Top'.handler = Gates[v].handler /\ Top'.at = 1
<1> DEFINE f == [handler |-> Gates[v].handler, at |-> 1, if |-> TRUE]
<1>1. /\ pc = "main" /\ idt = Gates
      /\ stack = <<>> \/ (Len(stack) = 1 /\ Open(stack[1]))
      /\ stack \in Seq(Frame) /\ shadow = FALSE /\ IF_ = TRUE
  BY WhereOpen DEF IntInv, StackShape, Values
<1>2. /\ stack' = Append(stack, f) /\ IF_' = Gates[v].if /\ IF_' \in BOOLEAN
      /\ UNCHANGED <<pc, write, shadow, shutdown>>
  <2>1. v \in DOMAIN idt /\ Gates[v].if \in BOOLEAN
    <3>1. v \in DOMAIN Gates
      BY GatesAre
    <3>2. \A x \in {\h0e, \h20, \h21, \h27} : Gates[x].if \in BOOLEAN
      BY GatesAre
    <3> QED
      BY <1>1, <3>1, <3>2, GatesAre
  <2>2. (idt[v].if /\ IF_) = Gates[v].if
    BY <1>1, <2>1
  <2> QED
    BY <1>1, <2>1, <2>2 DEF Enter
<1>3. f \in Frame
  BY GatesAre, Handlers DEF Frame
<1>4. /\ f.handler = Gates[v].handler /\ f.at = 1 /\ f.if = TRUE
      /\ f.at < Last(f.handler)
      /\ Gates[v].if <=> v = \h0e
      /\ Gates[v].handler = "page_fault" <=> v = \h0e
  BY GatesAre DEF Last
<1> HIDE DEF f
<1>5. /\ stack' \in Seq(Frame) /\ Len(stack') = Len(stack) + 1 /\ Len(stack) \in {0, 1}
      /\ \A i \in 1..Len(stack) : stack'[i] = stack[i]
      /\ stack'[Len(stack) + 1] = f
  <2>1. Len(stack) \in {0, 1}
    BY <1>1
  <2> QED
    BY <1>1, <1>2, <1>3, <2>1, Push
<1>6. stack' # <<>> /\ Top' = f
  BY <1>5 DEF Top
<1>7. StackShape'
  <2>1. \A i \in 1..Len(stack') : i \in 1..Len(stack) \/ i = Len(stack) + 1
    BY <1>5
  <2>2. \A i \in 1..Len(stack') : stack'[i].if = TRUE /\ stack'[i].at <= Last(stack'[i].handler)
    BY <1>4, <1>5, <2>1 DEF IntInv, StackShape, Last
  <2>3. Open(f) <=> v = \h0e
    BY <1>4 DEF Open
  <2>4. /\ IF_' <=> Open(f) \/ f.at = Last(f.handler)
        /\ shadow' <=> f.at = Last(f.handler)
    BY <1>1, <1>2, <1>4, <2>3 DEF Last
  <2>5. ASSUME Len(stack') = 2 PROVE Open(stack'[1]) /\ stack'[2].handler # "page_fault"
    <3>1. Len(stack) = 1 /\ stack # <<>>
      <4> DEFINE n == Len(stack)
                 m == Len(stack')
      <4>1. m = n + 1 /\ n \in {0, 1} /\ m = 2
        BY <1>5, <2>5
      <4> HIDE DEF n, m
      <4>2. n = 1
        BY <4>1
      <4> QED
        BY <4>2 DEF n
    <3>2. Open(stack[1]) /\ stack'[1] = stack[1] /\ stack'[2] = f
      BY <1>1, <1>5, <3>1
    <3>3. v # \h0e
      BY <3>1
    <3> QED
      BY <1>4, <3>2, <3>3
  <2>6. stack' \in Seq(Frame) /\ Len(stack') <= 2 /\ ~(stack' = <<>>)
    BY <1>5, <1>6
  <2> QED
    BY <1>6, <2>2, <2>4, <2>5, <2>6 DEF StackShape
<1>8. ~shutdown'
  BY <1>2 DEF IntInv
<1> QED
  BY <1>2, <1>4, <1>6, <1>7, <1>8

-----------------------------------------------------------------------------
(* Interrupts and page faults *)

\* Once main runs only lines with a gate are asked for.
LEMMA PendingLines ==
    ASSUME IntInv, pc = "main", Pending # {}
    PROVE  /\ Highest(Pending) \in {0, 1, 7}
           /\ base["M"] = \h20
<1>1. imr["M"] = {2, 3, 4, 5, 6} /\ base["M"] = \h20
  BY DEF IntInv, ChipInv, Stage
<1>2. Pending \subseteq {0, 1, 7}
  <2> SUFFICES ASSUME NEW l \in Pending PROVE l \in {0, 1, 7}
    OBVIOUS
  <2>1. l \in {k \in irr : k < 8} \cup {2} /\ l - 0 \notin imr["M"]
    BY DEF Pending, Asking
  <2>2. l \in 0..7
    BY <2>1 DEF IntInv, Values
  <2>3. l \notin {2, 3, 4, 5, 6}
    BY <1>1, <2>1, <2>2
  <2> QED
    BY <2>2, <2>3
<1>3. \E l \in Pending : \A k \in Pending : l <= k
  <2>1. CASE 0 \in Pending
    BY <1>2, <2>1
  <2>2. CASE 0 \notin Pending /\ 1 \in Pending
    BY <1>2, <2>2
  <2>3. CASE 0 \notin Pending /\ 1 \notin Pending
    <3>1. PICK k : k \in Pending
      OBVIOUS
    <3>2. Pending = {7}
      BY <1>2, <2>3, <3>1
    <3> QED
      BY <3>2
  <2> QED
    BY <2>1, <2>2, <2>3
<1>4. Highest(Pending) \in Pending
  BY <1>3 DEF Highest
<1> QED
  BY <1>1, <1>2, <1>4

LEMMA DeliverStep ==
    ASSUME IntInv, Deliver
    PROVE  IntInv'
<1> DEFINE l == Highest(Pending)
<1>1. /\ IF_ /\ ~shadow /\ Pending # {}
      /\ Enter(Vector(l)) /\ irr' = irr \ Acked(l) /\ isr' = isr \cup Acked(l)
      /\ UNCHANGED <<idt, imr, base, word>> /\ UNCHANGED <<obf, waiting, deaf>> /\ UNCHANGED races
  BY DEF Deliver, Deliverable, keyVars
<1>2. pc = "main" /\ idt = Gates /\ 0 \notin isr /\ 1 \notin isr
  BY <1>1, WhereOpen
<1>3. l \in {0, 1, 7} /\ base["M"] = \h20
  BY <1>1, <1>2, PendingLines
<1> HIDE DEF l
<1>4. /\ Acked(l) = {l} /\ Vector(l) = \h20 + l
      /\ Vector(l) \in {\h20, \h21, \h27}
  BY <1>3 DEF Acked, Vector
<1>5. /\ ~shutdown' /\ UNCHANGED <<pc, write, shadow>> /\ StackShape' /\ IF_' \in BOOLEAN
      /\ stack' # <<>> /\ Top'.handler = Gates[\h20 + l].handler /\ Top'.at = 1
  BY <1>1, <1>4, EnterStep
<1>6. Values' /\ Stage' /\ ChipInv'
  BY <1>1, <1>2, <1>5 DEF IntInv, Values, Stage, ChipInv
<1>7. ServiceInv'
  <2>1. isr' \subseteq {0, 1, 7} /\ (0 \in isr' => l = 0) /\ (1 \in isr' => l = 1)
    BY <1>1, <1>2, <1>3, <1>4 DEF IntInv, ServiceInv
  <2> QED
    BY <1>5, <2>1, GatesAre DEF ServiceInv
<1> QED
  BY <1>5, <1>6, <1>7 DEF IntInv

\* Vector 7 of the first chip has a gate as well.
LEMMA SpuriousStep ==
    ASSUME IntInv, DeliverSpurious
    PROVE  IntInv'
<1>1. /\ IF_ /\ ~shadow /\ Pending # {} /\ Enter(base["M"] + 7) /\ irr' = irr \ {0}
      /\ UNCHANGED <<idt, imr, base, word, isr>> /\ UNCHANGED <<obf, waiting, deaf>>
      /\ UNCHANGED races
  BY DEF DeliverSpurious, Deliverable, keyVars
<1>2. pc = "main" /\ idt = Gates /\ 0 \notin isr /\ 1 \notin isr
  BY <1>1, WhereOpen
<1>3. base["M"] + 7 = \h27
  BY <1>1, <1>2, PendingLines
<1>4. ~shutdown' /\ UNCHANGED <<pc, write, shadow>> /\ StackShape' /\ IF_' \in BOOLEAN
      /\ stack' # <<>>
  BY <1>1, <1>3, EnterStep
<1>5. Values' /\ Stage' /\ ChipInv'
  BY <1>1, <1>2, <1>4 DEF IntInv, Values, Stage, ChipInv
<1>6. ServiceInv'
  BY <1>1, <1>2 DEF IntInv, ServiceInv
<1> QED
  BY <1>4, <1>5, <1>6 DEF IntInv

LEMMA PageFaultStep ==
    ASSUME IntInv, PageFault
    PROVE  IntInv'
<1>1. /\ pc = "main" /\ stack = <<>> /\ ~shadow /\ Enter(\h0e)
      /\ UNCHANGED <<idt, imr, base, word, isr, irr>> /\ UNCHANGED <<obf, waiting, deaf>>
      /\ UNCHANGED races
  BY DEF PageFault, keyVars, picVars
<1>2. IF_
  BY <1>1 DEF IntInv, StackShape
<1>3. 0 \notin isr /\ 1 \notin isr
  BY <1>1 DEF IntInv, ServiceInv
<1>4. ~shutdown' /\ UNCHANGED <<pc, write, shadow>> /\ StackShape' /\ IF_' \in BOOLEAN
      /\ stack' # <<>>
  BY <1>1, <1>2, EnterStep
<1>5. Values' /\ Stage' /\ ChipInv'
  BY <1>1, <1>4 DEF IntInv, Values, Stage, ChipInv
<1>6. ServiceInv'
  BY <1>1, <1>3 DEF IntInv, ServiceInv
<1> QED
  BY <1>4, <1>5, <1>6 DEF IntInv

-----------------------------------------------------------------------------
(* The steps of a handler *)

LEMMA NextStep ==
    ASSUME IntInv, stack # <<>>, Top.at < Last(Top.handler), stack' = Next1, UNCHANGED pc,
           IF_' <=> Top.at + 1 = Last(Top.handler),
           shadow' <=> Top.at + 1 = Last(Top.handler)
    PROVE  /\ StackShape' /\ stack' # <<>>
           /\ Top'.handler = Top.handler /\ Top'.at = Top.at + 1
<1> DEFINE n == Len(stack)
           f == [Top EXCEPT !.at = Top.at + 1]
<1>1. /\ n \in {1, 2} /\ pc = "main" /\ Top = stack[n] /\ Top \in Frame
      /\ Top.at \in 1..Last(Top.handler) /\ Top.if = TRUE
      /\ stack \in Seq(Frame)
  BY OnTop DEF IntInv, StackShape
<1>2. f \in Frame /\ f.handler = Top.handler /\ f.at = Top.at + 1 /\ f.if = TRUE
  <2>1. Top.at + 1 \in 1..5
    BY <1>1 DEF Last
  <2> QED
    BY <1>1, <2>1 DEF Frame
<1>3. stack' = [stack EXCEPT ![n] = f]
  BY <1>1 DEF Next1
<1> HIDE DEF f
<1>4. /\ stack' \in Seq(Frame) /\ Len(stack') = n /\ stack'[n] = f
      /\ \A i \in 1..n : i # n => stack'[i] = stack[i]
  BY <1>1, <1>2, <1>3
<1>5. stack' # <<>> /\ Top' = f
  BY <1>1, <1>4 DEF Top
<1>6. StackShape'
  <2>1. \A i \in 1..n : stack'[i].if = TRUE /\ stack'[i].at <= Last(stack'[i].handler)
    <3>1. f.at <= Last(f.handler)
      BY <1>1, <1>2 DEF Last
    <3> QED
      BY <1>2, <1>4, <3>1 DEF IntInv, StackShape
  <2>2. ~Open(f)
    BY <1>1, <1>2 DEF Open
  <2>3. n = 2 => Open(stack'[1]) /\ stack'[2].handler # "page_fault"
    BY <1>1, <1>2, <1>4 DEF IntInv, StackShape
  <2>4. n <= 2
    BY <1>1
  <2> QED
    BY <1>2, <1>4, <1>5, <2>1, <2>2, <2>3, <2>4 DEF StackShape
<1> QED
  BY <1>2, <1>5, <1>6

\* What the step of a handler leaves alone.
LEMMA HandlerStep ==
    ASSUME IntInv, NEW op, Executes(op), StackShape', ServiceInv', irr' = irr,
           IF_' \in BOOLEAN, shadow' \in BOOLEAN, stack # <<>>,
           obf' \in BOOLEAN, waiting' = waiting, deaf' = deaf
    PROVE  IntInv'
<1>1. pc = "main" /\ UNCHANGED <<pc, write, shutdown, idt, imr, base, word, races>>
  BY OnTop DEF Executes
<1> QED
  BY <1>1 DEF IntInv, Values, Stage, ChipInv

\* The step the handler on top is at.
LEMMA AtStep ==
    ASSUME IntInv, NEW op, Executes(op)
    PROVE  /\ stack # <<>> /\ UNCHANGED pc
           /\ Top.handler \in DOMAIN Code /\ Top.at \in 1..Last(Top.handler)
           /\ Top.if = TRUE
           /\ Last(Top.handler) \in {4, 5}
           /\ op = "cli" => Top.at = 1
           /\ op = "eoi" => Top.at = 2 /\ Top.handler \in {"irq_0x20", "irq_0x21"}
           /\ op \in {"body", "inb"} =>
                 /\ Top.at > 1 /\ Top.at < Last(Top.handler) - 1
                 /\ Top.handler \in {"irq_0x20", "irq_0x21"} => Top.at # 2
           /\ op = "sti" => Top.at = Last(Top.handler) - 1
           /\ op = "iret" => Top.at = Last(Top.handler)
           /\ op \in {"eoi", "body", "inb", "sti"} => ~IF_
           /\ 0 \in isr \/ 1 \in isr => Top.at <= 2
<1>1. stack # <<>> /\ UNCHANGED pc /\ op = Code[Top.handler][Top.at]
  BY DEF Executes
<1>2. /\ Top.handler \in DOMAIN Code /\ Top.at \in 1..Last(Top.handler)
      /\ Top.if = TRUE
  BY <1>1, OnTop DEF Frame
<1>3. Last(Top.handler) \in {4, 5}
  BY DEF Last
<1>4. IF_ => Top.at = 1 \/ Top.at = Last(Top.handler)
  BY <1>1 DEF IntInv, StackShape, Open
<1>5. 0 \in isr \/ 1 \in isr => Top.at <= 2
  BY DEF IntInv, ServiceInv
<1> DEFINE h == Top.handler
           a == Top.at
<1>6. h \in DOMAIN Code /\ a \in 1..Last(h) /\ op = Code[h][a]
  BY <1>1, <1>2
<1> HIDE DEF h, a
<1>7. /\ op = "cli" => a = 1
      /\ op = "eoi" => a = 2 /\ h \in {"irq_0x20", "irq_0x21"}
      /\ op \in {"body", "inb"} =>
            /\ a > 1 /\ a < Last(h) - 1
            /\ h \in {"irq_0x20", "irq_0x21"} => a # 2
      /\ op = "sti" => a = Last(h) - 1
      /\ op = "iret" => a = Last(h)
  BY ONLY <1>6, CodeSteps
<1> USE DEF h, a
<1>8. op \in {"eoi", "body", "inb", "sti"} => Top.at # 1 /\ Top.at # Last(Top.handler)
  BY <1>3, <1>7
<1> QED
  BY <1>1, <1>2, <1>3, <1>4, <1>5, <1>7, <1>8

LEMMA CliStep ==
    ASSUME IntInv, Cli
    PROVE  IntInv'
<1>1. /\ Executes("cli") /\ IF_' = FALSE /\ shadow' = FALSE /\ stack' = Next1
      /\ irr' = irr /\ isr' = isr /\ UNCHANGED <<obf, waiting, deaf>>
  BY DEF Cli, keyVars
<1>2. Top.at = 1 /\ Last(Top.handler) \in {4, 5} /\ stack # <<>> /\ UNCHANGED pc
  BY <1>1, AtStep
<1>3. StackShape' /\ stack' # <<>> /\ Top'.handler = Top.handler /\ Top'.at = 2
  BY <1>1, <1>2, NextStep
<1>4. ServiceInv'
  BY <1>1, <1>3 DEF IntInv, ServiceInv
<1> QED
  BY <1>1, <1>2, <1>3, <1>4, HandlerStep DEF IntInv, Values

LEMMA EndOfInterruptStep ==
    ASSUME IntInv, EndOfInterrupt
    PROVE  IntInv'
<1>1. /\ Executes("eoi") /\ IF_' = IF_ /\ shadow' = FALSE /\ stack' = Next1
      /\ irr' = irr /\ isr' = isr \ {Eoi(Top.handler) % 8} /\ UNCHANGED <<obf, waiting, deaf>>
  BY DEF EndOfInterrupt, keyVars
<1>2. /\ Top.at = 2 /\ Top.handler \in {"irq_0x20", "irq_0x21"}
      /\ Last(Top.handler) \in {4, 5} /\ stack # <<>> /\ UNCHANGED pc
  BY <1>1, AtStep
<1>3. ~IF_
  BY <1>1, AtStep
<1>4. StackShape' /\ stack' # <<>>
  BY <1>1, <1>2, <1>3, NextStep
<1>5. 0 \notin isr' /\ 1 \notin isr'
  <2>1. CASE Top.handler = "irq_0x20"
    <3>1. Eoi(Top.handler) % 8 = 0
      BY <2>1 DEF Eoi
    <3> QED
      BY <1>1, <2>1, <3>1 DEF IntInv, ServiceInv
  <2>2. CASE Top.handler = "irq_0x21"
    <3>1. Eoi(Top.handler) % 8 = 1
      BY <2>2 DEF Eoi
    <3> QED
      BY <1>1, <2>2, <3>1 DEF IntInv, ServiceInv
  <2> QED
    BY <1>2, <2>1, <2>2
<1>6. ServiceInv'
  BY <1>1, <1>5 DEF IntInv, ServiceInv
<1> QED
  BY <1>1, <1>2, <1>4, <1>6, HandlerStep DEF IntInv, Values

\* The body of a handler, and the in of the keyboard's.
LEMMA MiddleStep ==
    ASSUME IntInv, NEW op \in {"body", "inb"}, Executes(op),
           IF_' = IF_, shadow' = FALSE, stack' = Next1, irr' = irr, isr' = isr,
           obf' \in BOOLEAN, waiting' = waiting, deaf' = deaf
    PROVE  IntInv'
<1>1. /\ Last(Top.handler) \in {4, 5} /\ stack # <<>> /\ UNCHANGED pc
      /\ Top.at \in 1..Last(Top.handler)
      /\ Top.at > 1 /\ Top.at < Last(Top.handler) - 1
      /\ Top.handler \in {"irq_0x20", "irq_0x21"} => Top.at # 2
      /\ ~IF_
  BY AtStep
<1>2. StackShape'
  BY <1>1, NextStep
<1>3. 0 \notin isr /\ 1 \notin isr
  BY <1>1 DEF IntInv, ServiceInv
<1>4. ServiceInv'
  BY <1>3 DEF IntInv, ServiceInv
<1> QED
  BY <1>1, <1>2, <1>4, HandlerStep DEF IntInv, Values

LEMMA BodyStep ==
    ASSUME IntInv, Body
    PROVE  IntInv'
<1>1. obf' \in BOOLEAN /\ Executes("body")
  BY DEF Body, keyVars, IntInv, Values
<1> QED
  BY <1>1, MiddleStep DEF Body, keyVars

LEMMA ReadCodeStep ==
    ASSUME IntInv, ReadCode
    PROVE  IntInv'
<1>1. obf' \in BOOLEAN /\ Executes("inb")
  BY DEF ReadCode
<1> QED
  BY <1>1, MiddleStep DEF ReadCode

LEMMA StiStep ==
    ASSUME IntInv, Sti
    PROVE  IntInv'
<1>1. /\ Executes("sti") /\ IF_' = TRUE /\ shadow' = ~IF_ /\ stack' = Next1
      /\ irr' = irr /\ isr' = isr /\ UNCHANGED <<obf, waiting, deaf>>
  BY DEF Sti, keyVars
<1>2. Top.at = Last(Top.handler) - 1 /\ Last(Top.handler) \in {4, 5} /\ stack # <<>> /\ UNCHANGED pc
  BY <1>1, AtStep
<1>3. ~IF_ /\ shadow' = TRUE
  BY <1>1, AtStep
<1>4. StackShape'
  BY <1>1, <1>2, <1>3, NextStep
<1>5. ServiceInv'
  BY <1>1, <1>2 DEF IntInv, ServiceInv
<1> QED
  BY <1>1, <1>2, <1>3, <1>4, <1>5, HandlerStep DEF IntInv, Values

\* An iret goes back to main or to a page fault that has not begun.
LEMMA IretStep ==
    ASSUME IntInv, Iret
    PROVE  IntInv'
<1>1. /\ Executes("iret") /\ IF_' = Top.if /\ shadow' = FALSE
      /\ stack' = SubSeq(stack, 1, Len(stack) - 1)
      /\ irr' = irr /\ isr' = isr /\ UNCHANGED <<obf, waiting, deaf>>
  BY DEF Iret, keyVars
<1>2. /\ Top.at = Last(Top.handler) /\ Last(Top.handler) \in {4, 5} /\ stack # <<>>
      /\ UNCHANGED pc /\ Top.if = TRUE /\ (0 \in isr \/ 1 \in isr => Top.at <= 2)
  BY <1>1, AtStep
<1>3. 0 \notin isr /\ 1 \notin isr
  BY <1>2
<1>4. stack \in Seq(Frame) /\ Len(stack) \in {1, 2} /\ IF_' = TRUE
  BY <1>1, <1>2, OnTop DEF IntInv, StackShape
<1>5. /\ stack' \in Seq(Frame) /\ Len(stack') = Len(stack) - 1
      /\ \A i \in 1..Len(stack') : stack'[i] = stack[i]
  BY <1>1, <1>2, <1>4, Pop
<1> DEFINE n == Len(stack)
           m == Len(stack')
<1>6. n \in {1, 2} /\ m = n - 1
  BY <1>4, <1>5
<1> HIDE DEF n, m
<1>7. (n = 1 /\ m = 0) \/ (n = 2 /\ m = 1)
  BY <1>6
<1> USE DEF n, m
<1>8. StackShape'
  <2>1. CASE n = 1 /\ m = 0
    <3>1. stack' = <<>>
      BY <1>5, <2>1
    <3> QED
      BY <1>4, <1>5, <2>1, <3>1 DEF StackShape
  <2>2. CASE n = 2 /\ m = 1
    <3>1. stack'[1] = stack[1] /\ Open(stack[1]) /\ stack[1].if = TRUE
      BY <1>5, <2>2 DEF IntInv, StackShape
    <3>2. stack' # <<>> /\ Top' = stack[1]
      <4>1. Top' = stack'[m]
        BY DEF Top
      <4>2. stack' # <<>>
        BY <2>2
      <4> HIDE DEF m
      <4> QED
        BY <2>2, <3>1, <4>1, <4>2
    <3>3. /\ stack[1].at # Last(stack[1].handler) /\ stack[1].at <= Last(stack[1].handler)
      BY <3>1 DEF Open, Last
    <3>4. \A i \in 1..Len(stack') : i = 1
      BY <2>2
    <3>5. \A i \in 1..Len(stack') : stack'[i].if = TRUE /\ stack'[i].at <= Last(stack'[i].handler)
      BY <3>1, <3>3, <3>4
    <3>6. Len(stack') <= 2 /\ Len(stack') # 2
      BY <2>2
    <3> QED
      BY <1>1, <1>4, <1>5, <3>1, <3>2, <3>3, <3>5, <3>6 DEF StackShape
  <2> QED
    BY <1>7, <2>1, <2>2
<1>9. ServiceInv'
  BY <1>1, <1>3 DEF IntInv, ServiceInv
<1> QED
  BY <1>1, <1>2, <1>4, <1>8, <1>9, HandlerStep DEF IntInv, Values

-----------------------------------------------------------------------------
(* main *)

LEMMA TwelveWrites == Len(PicWrites) = 12
  BY DEF PicWrites

LEMMA PicWritesAre ==
    /\ \A w \in 1..12 :
          /\ PicWrites[w][1] = IF w \in {1, 3, 5, 7, 9, 11} THEN "M" ELSE "S"
          /\ PicWrites[w][2] = IF w \in {3, 4} THEN "PIC" ELSE "DAT"
          /\ PicWrites[w][3] \in 0..255
    /\ PicWrites[5][3] = \h20 /\ PicWrites[11][3] = \h7c
  BY DEF PicWrites

\* The word that a chip expects, from the number of the write.
Expects(n) ==
    IF n \in {4, 5} THEN 2 ELSE IF n \in {6, 7} THEN 3 ELSE IF n \in {8, 9} THEN 4 ELSE 0

LEMMA Chips ==
    ASSUME IntInv
    PROVE  /\ DOMAIN word = {"M", "S"}
           /\ word["M"] = Expects(write) /\ word["S"] = Expects(write - 1)
  BY DEF IntInv, ChipInv, Expects

LEMMA ExpectedWords ==
    ASSUME NEW k, NEW w \in [{"M", "S"} -> 0..4], w["M"] = Expects(k), w["S"] = Expects(k - 1)
    PROVE  w = [c \in {"M", "S"} |->
                  LET n == IF c = "M" THEN k ELSE k - 1
                  IN  IF n \in {4, 5} THEN 2 ELSE IF n \in {6, 7} THEN 3
                      ELSE IF n \in {8, 9} THEN 4 ELSE 0]
  BY DEF Expects

LEMMA SetUpStep ==
    ASSUME IntInv, pic_init
    PROVE  ChipInv' /\ irr' \subseteq irr /\ isr' \subseteq isr /\ deaf' \in BOOLEAN
<1> DEFINE c == PicWrites[write][1]
           v == PicWrites[write][3]
<1>1. /\ write \in 1..12 /\ write' = write + 1
      /\ c = IF write \in {1, 3, 5, 7, 9, 11} THEN "M" ELSE "S"
      /\ v \in 0..255
      /\ IF write \in {3, 4} THEN WriteICW1(c) ELSE WriteData(c, v)
      /\ write = 5 => v = \h20
      /\ write = 11 => v = \h7c
  <2>1. write \in 1..12 /\ write' = write + 1
    BY TwelveWrites DEF pic_init, IntInv, Values
  <2>2. /\ c = IF write \in {1, 3, 5, 7, 9, 11} THEN "M" ELSE "S"
        /\ PicWrites[write][2] = IF write \in {3, 4} THEN "PIC" ELSE "DAT"
        /\ v \in 0..255
    BY ONLY <2>1, PicWritesAre
  <2>3. (write = 5 => v = \h20) /\ (write = 11 => v = \h7c)
    BY ONLY PicWritesAre
  <2>4. IF PicWrites[write][2] = "DAT" THEN WriteData(c, v) ELSE WriteICW1(c)
    BY DEF pic_init
  <2>5. IF write \in {3, 4} THEN WriteICW1(c) ELSE WriteData(c, v)
    BY ONLY <2>2, <2>4
  <2> QED
    BY ONLY <2>1, <2>2, <2>3, <2>5
<1> HIDE DEF c, v
<1>2. /\ imr \in [{"M", "S"} -> SUBSET (0..7)] /\ base \in [{"M", "S"} -> 0..255]
      /\ word \in [{"M", "S"} -> 0..4]
      /\ word["M"] = Expects(write) /\ word["S"] = Expects(write - 1)
      /\ (write >= 6 => base["M"] = \h20)
      /\ deaf \in BOOLEAN /\ obf \in BOOLEAN
  BY Chips DEF IntInv, ChipInv, Values, Expects
<1>3. CASE write \in {3, 4}
  <2>1. /\ word' = [word EXCEPT ![c] = 2] /\ imr' = [imr EXCEPT ![c] = {}] /\ base' = base
        /\ irr' \subseteq irr /\ isr' \subseteq isr /\ deaf' \in BOOLEAN
    BY <1>1, <1>2, <1>3 DEF WriteICW1
  <2>2. /\ word' \in [{"M", "S"} -> 0..4] /\ imr' \in [{"M", "S"} -> SUBSET (0..7)]
        /\ word'["M"] = Expects(write') /\ word'["S"] = Expects(write' - 1)
    BY <1>1, <1>2, <1>3, <2>1 DEF Expects
  <2>3. (write' >= 6 => base'["M"] = \h20) /\ ~(write' >= 12)
    BY <1>1, <1>2, <1>3, <2>1
  <2> QED
    BY <1>2, <2>1, <2>2, <2>3, ExpectedWords DEF ChipInv
<1>4. CASE write \notin {3, 4}
  <2>1. /\ base' = [base EXCEPT ![c] = IF word[c] = 2 THEN v ELSE base[c]]
        /\ imr' = [imr EXCEPT ![c] = IF word[c] = 0 THEN Bits(v) ELSE imr[c]]
        /\ word' = [word EXCEPT ![c] = IF word[c] = 0 THEN 0 ELSE (word[c] + 1) % 5]
        /\ irr' = irr /\ isr' = isr /\ deaf' = deaf
    BY <1>1, <1>4 DEF WriteData
  <2>2. /\ base' \in [{"M", "S"} -> 0..255] /\ imr' \in [{"M", "S"} -> SUBSET (0..7)]
    <3>1. \A k \in {"M", "S"} : base'[k] \in 0..255 /\ imr'[k] \in SUBSET (0..7)
      BY ONLY <1>1, <1>2, <2>1, Masks
    <3>2. base' = [k \in {"M", "S"} |-> base'[k]] /\ imr' = [k \in {"M", "S"} |-> imr'[k]]
      BY ONLY <1>2, <2>1
    <3> QED
      BY ONLY <3>1, <3>2
  <2>3. /\ word' \in [{"M", "S"} -> 0..4]
        /\ word'["M"] = Expects(write') /\ word'["S"] = Expects(write' - 1)
    BY <1>1, <1>2, <1>4, <2>1 DEF Expects
  <2>4. write' >= 6 => base'["M"] = \h20
    BY <1>1, <1>2, <1>4, <2>1 DEF Expects
  <2>5. write' >= 12 => imr'["M"] = {2, 3, 4, 5, 6}
    <3>1. CASE write = 11
      <4>1. c = "M" /\ v = \h7c /\ word[c] = 0
        BY ONLY <1>1, <1>2, <3>1 DEF Expects
      <4> QED
        BY ONLY <1>2, <2>1, <4>1, Masks
    <3>2. CASE write = 12
      <4>1. imr["M"] = {2, 3, 4, 5, 6} /\ c = "S"
        BY <1>1, <3>2 DEF IntInv, ChipInv
      <4> QED
        BY ONLY <1>2, <2>1, <4>1
    <3>3. CASE write \notin {11, 12}
      BY ONLY <1>1, <3>3
    <3> QED
      BY <3>1, <3>2, <3>3
  <2>6. word' = [d \in {"M", "S"} |->
                   LET n == IF d = "M" THEN write' ELSE write' - 1
                   IN  IF n \in {4, 5} THEN 2 ELSE IF n \in {6, 7} THEN 3
                       ELSE IF n \in {8, 9} THEN 4 ELSE 0]
    BY ONLY <2>3, ExpectedWords
  <2> QED
    BY <2>1, <1>2, <2>2, <2>4, <2>5, <2>6 DEF ChipInv
<1> QED
  BY <1>3, <1>4
\* Up to the sti of pic_init no interrupt is taken: the flag is off.
LEMMA MainStep ==
    ASSUME IntInv, timer_init \/ idt_init \/ pic_init \/ pic_init_sti \/ MainRuns
    PROVE  IntInv'
<1>1. CASE timer_init
  BY <1>1 DEF timer_init, picVars, keyVars, IntInv, Values, Stage, ChipInv, StackShape,
              ServiceInv, Top
<1>2. CASE idt_init
  BY <1>2 DEF idt_init, picVars, keyVars, IntInv, Values, Stage, ChipInv, StackShape,
              ServiceInv, Top
<1>3. CASE pic_init
  <2>1. /\ pc = "pic_init" /\ write \in 1..12 /\ write' = write + 1
        /\ UNCHANGED <<pc, IF_, shadow, stack, shutdown, idt, obf, waiting, races>>
    BY <1>3, TwelveWrites DEF pic_init, IntInv, Values
  <2>2. ChipInv' /\ irr' \subseteq irr /\ isr' \subseteq isr /\ deaf' \in BOOLEAN
    BY <1>3, SetUpStep
  <2>3. stack = <<>> /\ ~IF_ /\ ~shadow /\ isr = {} /\ idt = Gates
    BY <2>1 DEF IntInv, Stage
  <2>4. Values' /\ Stage'
    BY <2>1, <2>2, <2>3, TwelveWrites DEF IntInv, Values, Stage
  <2>5. StackShape' /\ ServiceInv'
    BY <2>1, <2>2, <2>3 DEF IntInv, StackShape, ServiceInv, Top
  <2> QED
    BY <2>1, <2>2, <2>4, <2>5 DEF IntInv
<1>4. CASE pic_init_sti
  <2>1. /\ pc = "pic_init" /\ write = 13 /\ pc' = "main" /\ IF_' = TRUE /\ shadow' = TRUE
        /\ UNCHANGED <<write, stack, shutdown, idt, imr, base, word, irr, isr>>
        /\ UNCHANGED <<obf, waiting, deaf, races>>
    BY <1>4, TwelveWrites DEF pic_init_sti, picVars, keyVars
  <2>2. stack = <<>> /\ isr = {} /\ idt = Gates
    BY <2>1 DEF IntInv, Stage
  <2>3. Values' /\ Stage' /\ ChipInv'
    BY <2>1, <2>2 DEF IntInv, Values, Stage, ChipInv
  <2>4. StackShape' /\ ServiceInv'
    BY <2>1, <2>2 DEF IntInv, StackShape, ServiceInv
  <2> QED
    BY <2>1, <2>3, <2>4 DEF IntInv
<1>5. CASE MainRuns
  <2>1. /\ pc = "main" /\ stack = <<>> /\ shadow' = FALSE
        /\ UNCHANGED <<pc, write, IF_, stack, shutdown, idt, imr, base, word, irr, isr>>
        /\ UNCHANGED <<obf, waiting, deaf, races>>
    BY <1>5 DEF MainRuns, picVars, keyVars
  <2>2. Values' /\ Stage' /\ ChipInv'
    BY <2>1 DEF IntInv, Values, Stage, ChipInv
  <2>3. StackShape' /\ ServiceInv'
    BY <2>1 DEF IntInv, StackShape, ServiceInv, Top
  <2> QED
    BY <2>1, <2>2, <2>3 DEF IntInv
<1> QED
  BY <1>1, <1>2, <1>3, <1>4, <1>5

-----------------------------------------------------------------------------
(* Devices *)

LEMMA DeviceStep ==
    ASSUME IntInv, TimerTick \/ Key \/ CodeReady \/ \E l \in Devices : OtherDevice(l)
    PROVE  IntInv'
<1> USE InterruptsAssumption
<1>1. /\ UNCHANGED <<pc, write, IF_, shadow, stack, shutdown, idt, imr, base, word, isr>>
      /\ irr' \subseteq 0..15
      /\ obf' \in BOOLEAN /\ waiting' \in 0..MaxWaiting /\ deaf' \in BOOLEAN
      /\ races' \in 0..MaxRaces
  <2>1. CASE TimerTick
    BY <2>1 DEF TimerTick, cpuVars, keyVars, IntInv, Values
  <2>2. CASE Key
    BY <2>2 DEF Key, cpuVars, picVars, IntInv, Values
  <2>3. CASE CodeReady
    BY <2>3 DEF CodeReady, cpuVars, IntInv, Values
  <2>4. CASE \E l \in Devices : OtherDevice(l)
    BY <2>4 DEF OtherDevice, cpuVars, keyVars, IntInv, Values
  <2> QED
    BY <2>1, <2>2, <2>3, <2>4
<1> QED
  BY <1>1 DEF IntInv, Values, Stage, ChipInv, StackShape, ServiceInv, Top

-----------------------------------------------------------------------------
(* The invariant holds *)

LEMMA IntInit == Init => IntInv
<1> SUFFICES ASSUME Init PROVE IntInv
  OBVIOUS
<1>1. Values
  <2>1. /\ write = 1 /\ IF_ = FALSE /\ shadow = FALSE /\ irr = {} /\ obf = FALSE
        /\ waiting \in 0..MaxWaiting /\ deaf = FALSE /\ races = 0
    BY DEF Init
  <2>2. MaxRaces \in Nat /\ Len(PicWrites) = 12
    BY InterruptsAssumption, TwelveWrites
  <2>3. write \in 1..(Len(PicWrites) + 1) /\ races \in 0..MaxRaces /\ irr \subseteq 0..15
    BY <2>1, <2>2
  <2>4. IF_ \in BOOLEAN /\ shadow \in BOOLEAN /\ obf \in BOOLEAN /\ deaf \in BOOLEAN
    BY <2>1
  <2> QED
    BY ONLY <2>1, <2>3, <2>4 DEF Values
<1>2. Stage
  BY DEF Init, Stage
<1>3. ChipInv
  BY DEF Init, ChipInv
<1>4. StackShape /\ ServiceInv
  BY DEF Init, StackShape, ServiceInv
<1> QED
  BY <1>1, <1>2, <1>3, <1>4 DEF Init, IntInv

LEMMA IntStep == IntInv /\ [Next]_vars => IntInv'
<1> SUFFICES ASSUME IntInv, [Next]_vars PROVE IntInv'
  OBVIOUS
<1>1. CASE Cpu
  BY <1>1, DeliverStep, CliStep, EndOfInterruptStep, ReadCodeStep, BodyStep, StiStep, IretStep,
     MainStep DEF Cpu, Handler
<1>2. CASE DeliverSpurious \/ PageFault
  BY <1>2, SpuriousStep, PageFaultStep
<1>3. CASE TimerTick \/ Key \/ CodeReady \/ \E l \in Devices : OtherDevice(l)
  BY <1>3, DeviceStep
<1>4. CASE UNCHANGED vars
  BY <1>4 DEF vars, cpuVars, picVars, keyVars, IntInv, Values, Stage, ChipInv, StackShape,
              ServiceInv, Top
<1> QED
  BY <1>1, <1>2, <1>3, <1>4 DEF Next

\* Whatever the devices do: the set-up of the chips, the gates and the flag stay in
\* step, and a handler can only be interrupted before its cli.
THEOREM InterruptInvariant == Spec => []IntInv
  BY IntInit, IntStep, PTL DEF Spec

\* The kernel's stack never holds more than a page fault and one handler over it.
THEOREM HandlersStayShallow == Spec => []StackInv
<1>1. IntInv => StackInv
  <2> SUFFICES ASSUME IntInv PROVE StackInv
    OBVIOUS
  <2>1. word \in [{"M", "S"} -> {0, 2, 3, 4}]
    BY DEF IntInv, ChipInv
  <2>2. pc # "main" => isr \subseteq 0..15
    BY DEF IntInv, ServiceInv
  <2>3. isr \subseteq 0..15
    BY DEF IntInv, ServiceInv
  <2>4. idt = [v \in {} |-> TrapGate("page_fault")] \/ idt = Gates
    BY DEF IntInv, Stage
  <2>5. pc \in {"timer_init", "idt_init", "pic_init", "main"}
    BY DEF IntInv, Stage
  <2>7. stack \in Seq([handler : DOMAIN Code, at : 1..5, if : BOOLEAN])
    BY DEF IntInv, StackShape, Frame
  <2>8. imr \in [{"M", "S"} -> SUBSET (0..7)] /\ base \in [{"M", "S"} -> 0..255]
    BY DEF IntInv, ChipInv
  <2>9. /\ write \in 1..(Len(PicWrites) + 1) /\ IF_ \in BOOLEAN /\ shadow \in BOOLEAN
        /\ shutdown = FALSE /\ irr \subseteq 0..15
        /\ obf \in BOOLEAN /\ waiting \in 0..MaxWaiting /\ deaf \in BOOLEAN
        /\ races \in 0..MaxRaces
    BY DEF IntInv, Values
  <2>10. TypeOK
    BY ONLY <2>1, <2>3, <2>4, <2>5, <2>7, <2>8, <2>9 DEF TypeOK
  <2>6. HandlersDoNotNest
    BY DEF IntInv, StackShape, HandlersDoNotNest, Open
  <2> QED
    BY <2>6, <2>10 DEF StackInv
<1> QED
  BY <1>1, InterruptInvariant, PTL

\* idt_init fills four gates, and no other vector is ever raised: not while pic_init
\* has every line unmasked, and not by a line that never goes down.
THEOREM NoEmptyGate == Spec => []EveryVectorHasAGate
<1>1. IntInv => EveryVectorHasAGate
  BY DEF IntInv, EveryVectorHasAGate
<1> QED
  BY <1>1, InterruptInvariant, PTL

\* A line that blocks others belongs to a handler that is still to end it.
THEOREM ServiceEnds == Spec => []InServiceIsHandled
<1>1. IntInv => InServiceIsHandled
  <2> SUFFICES ASSUME IntInv, NEW l \in isr \ {7}
               PROVE  \E i \in 1..Len(stack) : stack[i].handler = idt[\h20 + l].handler
    BY DEF InServiceIsHandled
  <2>1. l \in {0, 1}
    BY DEF IntInv, ServiceInv
  <2>2. /\ stack # <<>>
        /\ Top.handler = IF l = 0 THEN "irq_0x20" ELSE "irq_0x21"
    BY <2>1 DEF IntInv, ServiceInv
  <2>3. Len(stack) \in {1, 2} /\ pc = "main" /\ Top = stack[Len(stack)]
    BY <2>2, OnTop
  <2>4. idt = Gates
    BY <2>3 DEF IntInv, Stage
  <2>5. Top.handler = idt[\h20 + l].handler
    BY <2>1, <2>2, <2>4, GatesAre
  <2>6. Len(stack) \in 1..Len(stack)
    BY <2>3
  <2> QED
    BY <2>3, <2>5, <2>6
<1> QED
  BY <1>1, InterruptInvariant, PTL

=============================================================================
