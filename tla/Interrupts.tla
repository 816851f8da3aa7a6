----------------------------- MODULE Interrupts -----------------------------
(***************************************************************************)
(* Interrupts of ListaOS, from the moment the boot loader jumps to main:   *)
(* idt_init and pic_init against the two 8259 controllers, the assembler   *)
(* stubs of the handlers with their cli and sti, and the page fault, whose *)
(* gate leaves interrupts on.                                              *)
(*                                                                         *)
(* The controllers, the timer chip and the keyboard controller are         *)
(* external: they are modelled from the words the kernel writes to them.   *)
(* What the handlers do with a tick or a code is in MainLoop and Keyboard, *)
(* what a page fault does in Memory.                                       *)
(***************************************************************************)
EXTENDS Integers, Sequences, FiniteSets

CONSTANTS
    Devices,    \* lines that other devices raise; 8 and up are the second chip's
    MaxWaiting, \* bound: codes that wait in the keyboard
    MaxRaces    \* bound: ticks that come before the last one is dealt with

ASSUME InterruptsAssumption ==
    /\ Devices \subseteq (3..15)
    /\ MaxWaiting \in Nat
    /\ MaxRaces \in Nat

VARIABLES
    pc,         \* where main is
    write,      \* the write of pic_init that comes next
    IF_,        \* the interrupt flag of the processor
    shadow,     \* the instruction before was a sti: no interrupt just now
    idt,        \* [vectors that have a gate -> gate]
    stack,      \* the handlers under way, the interrupted one first
    shutdown,   \* an interrupt met an empty gate: the processor has reset
    imr, base, word,  \* of each chip: mask, first vector, next word of its set-up
    irr, isr,   \* lines requested and lines in service, over both chips
    obf,        \* a code waits in the keyboard controller, its line is high
    waiting,    \* codes that wait in the keyboard
    deaf,       \* history: obf was on when the edge of its line was forgotten
    races       \* ticks so far that came too early

cpuVars == <<pc, write, IF_, shadow, stack, shutdown>>
picVars == <<imr, base, word, irr, isr>>
keyVars == <<obf, waiting, deaf>>
vars    == <<cpuVars, idt, picVars, keyVars, races>>

-----------------------------------------------------------------------------
(* Gates and handlers *)

IntrGate(h)    == [handler |-> h, if |-> FALSE]   \* 0x8e clears the flag
TrapGate(h)    == [handler |-> h, if |-> TRUE]    \* 0x8f leaves it

\* Mutant: interrupts are turned on before the handler has done its work.
StubEarlySti(body) == <<"cli", "sti">> \o body \o <<"iret">>

\* A stub around what the function of the handler does.
Stub(body) == <<"cli">> \o body \o <<"sti", "iret">>

\* The steps of the four handlers.
Code ==
    [page_fault |-> Stub(<<"body">>),
     irq_0x20   |-> Stub(<<"eoi", "body">>),
     irq_0x21   |-> Stub(<<"eoi", "inb">>),
     irq_0x27   |-> Stub(<<"body">>)]

\* Mutant: both handlers end the interrupt of line 0.
EoiSame(h) == \h60

\* Mutant: both handlers end the interrupt of line 1.
EoiOther(h) == \h61

\* The specific end-of-interrupt word of a handler.
Eoi(h) == IF h = "irq_0x20" THEN \h60 ELSE \h61

\* What idt_init writes: no gates but four.
Gates ==
    [v \in {\h0e, \h20, \h21, \h27} |->
        CASE v = \h0e -> TrapGate("page_fault")
          [] v = \h20 -> IntrGate("irq_0x20")
          [] v = \h21 -> IntrGate("irq_0x21")
          [] v = \h27 -> IntrGate("irq_0x27")]

-----------------------------------------------------------------------------
(* The two 8259 chips *)

Bit     == <<1, 2, 4, 8, 16, 32, 64, 128>>
Bits(v) == {i \in 0..7 : (v \div Bit[i + 1]) % 2 = 1}

\* A data word is a mask, or the next of the words that follow ICW1.
WriteData(c, v) ==
    /\ base' = [base EXCEPT ![c] = IF word[c] = 2 THEN v ELSE @]
    /\ imr'  = [imr EXCEPT ![c] = IF word[c] = 0 THEN Bits(v) ELSE @]
    /\ word' = [word EXCEPT ![c] = IF @ = 0 THEN 0 ELSE (@ + 1) % 5]
    /\ UNCHANGED <<irr, isr, deaf>>

\* ICW1 starts the set-up of a chip: it unmasks every line, ends all service
\* and forgets edges, that of a keyboard line which is already high included.
WriteICW1(c) ==
    LET lines == IF c = "M" THEN 0..7 ELSE 8..15
    IN  /\ word' = [word EXCEPT ![c] = 2]
        /\ imr' = [imr EXCEPT ![c] = {}]
        /\ irr' = irr \ lines
        /\ isr' = isr \ lines
        /\ deaf' = (deaf \/ (c = "M" /\ obf))
        /\ UNCHANGED base

\* Lines of a chip that are not masked and have priority over those in service;
\* the first chip sees the second one as line 2.
Asking(c, lines, first) ==
    {l \in lines : /\ l - first \notin imr[c]
                   /\ \A s \in isr : s \in first..(first + 7) => l < s}

Pending ==
    LET second == Asking("S", {l \in irr : l >= 8}, 8)
    IN  Asking("M", {l \in irr : l < 8} \cup (IF second = {} THEN {} ELSE {2}), 0)

Highest(lines) == CHOOSE l \in lines : \A k \in lines : l <= k

\* The lines that are acknowledged with line l of the first chip.
Acked(l) ==
    IF l = 2 THEN {2, Highest(Asking("S", {k \in irr : k >= 8}, 8))} ELSE {l}

Vector(l) ==
    IF l = 2 THEN base["S"] + (Highest(Acked(2) \ {2}) - 8) ELSE base["M"] + l

-----------------------------------------------------------------------------
(* The processor *)

\* An interrupt is taken between any two instructions when the flag is on, but
\* for the instruction right after a sti.
Deliverable == IF_ /\ ~shadow /\ Pending # {}

Enter(v) ==
    IF v \notin DOMAIN idt
    THEN /\ shutdown' = TRUE
         /\ UNCHANGED <<pc, write, IF_, shadow, stack>>
    ELSE /\ stack' = Append(stack, [handler |-> idt[v].handler, at |-> 1, if |-> IF_])
         /\ IF_' = (idt[v].if /\ IF_)
         /\ UNCHANGED <<pc, write, shadow, shutdown>>

Deliver ==
    /\ ~shutdown
    /\ Deliverable
    /\ LET l == Highest(Pending)
       IN  /\ Enter(Vector(l))
           /\ irr' = irr \ Acked(l)
           /\ isr' = isr \cup Acked(l)
    /\ UNCHANGED <<idt, imr, base, word, keyVars, races>>

\* The pulse of the timer ends as the processor answers it: the chip finds no
\* request and gives vector 7, with no line in service.
DeliverSpurious ==
    /\ ~shutdown
    /\ Deliverable
    /\ Pending = {0}
    /\ Enter(base["M"] + 7)
    /\ irr' = irr \ {0}
    /\ UNCHANGED <<idt, imr, base, word, isr, keyVars, races>>

Running == ~shutdown /\ ~Deliverable

Top  == stack[Len(stack)]
Next1 == [stack EXCEPT ![Len(stack)].at = @ + 1]

\* The next step of the handler on top of the stack is op.
Executes(op) ==
    /\ Running
    /\ stack # <<>>
    /\ Code[Top.handler][Top.at] = op
    /\ UNCHANGED <<pc, write, shutdown, idt, imr, base, word, races>>

Cli ==
    /\ Executes("cli")
    /\ IF_' = FALSE
    /\ shadow' = FALSE
    /\ stack' = Next1
    /\ UNCHANGED <<irr, isr, keyVars>>

\* outb(M_PIC, 0x60 + line)
EndOfInterrupt ==
    /\ Executes("eoi")
    /\ isr' = isr \ {Eoi(Top.handler) % 8}
    /\ shadow' = FALSE
    /\ stack' = Next1
    /\ UNCHANGED <<IF_, irr, keyVars>>

\* inb(0x60): the line goes down.
ReadCode ==
    /\ Executes("inb")
    /\ obf' = FALSE
    /\ shadow' = FALSE
    /\ stack' = Next1
    /\ UNCHANGED <<IF_, irr, isr, waiting, deaf>>

\* ++count, the body of page_fault, the empty body of irq_0x27.
Body ==
    /\ Executes("body")
    /\ shadow' = FALSE
    /\ stack' = Next1
    /\ UNCHANGED <<IF_, irr, isr, keyVars>>

Sti ==
    /\ Executes("sti")
    /\ IF_' = TRUE
    /\ shadow' = ~IF_
    /\ stack' = Next1
    /\ UNCHANGED <<irr, isr, keyVars>>

Iret ==
    /\ Executes("iret")
    /\ IF_' = Top.if
    /\ shadow' = FALSE
    /\ stack' = SubSeq(stack, 1, Len(stack) - 1)
    /\ UNCHANGED <<irr, isr, keyVars>>

Handler == Cli \/ EndOfInterrupt \/ ReadCode \/ Body \/ Sti \/ Iret

-----------------------------------------------------------------------------
(* main *)

\* timer_init sets the rate of the timer, which ticks before as well.
timer_init ==
    /\ Running /\ pc = "timer_init"
    /\ pc' = "idt_init"
    /\ UNCHANGED <<write, IF_, shadow, stack, shutdown, idt, picVars, keyVars, races>>

idt_init ==
    /\ Running /\ pc = "idt_init"
    /\ idt' = Gates
    /\ pc' = "pic_init"
    /\ UNCHANGED <<write, IF_, shadow, stack, shutdown, picVars, keyVars, races>>

\* Mutant: the masks are set before the set-up, whose first word clears them.
PicWritesMaskFirst ==
    << <<"M", "DAT", \h7c>>, <<"S", "DAT", \hff>>,
       <<"M", "PIC", \h11>>, <<"S", "PIC", \h11>>,
       <<"M", "DAT", \h20>>, <<"S", "DAT", \h28>>,
       <<"M", "DAT", \h04>>, <<"S", "DAT", \h02>>,
       <<"M", "DAT", \h01>>, <<"S", "DAT", \h01>> >>

\* Mutant: the keyboard is masked.
PicWritesNoKeyboard ==
    << <<"M", "DAT", \hff>>, <<"S", "DAT", \hff>>,
       <<"M", "PIC", \h11>>, <<"S", "PIC", \h11>>,
       <<"M", "DAT", \h20>>, <<"S", "DAT", \h28>>,
       <<"M", "DAT", \h04>>, <<"S", "DAT", \h02>>,
       <<"M", "DAT", \h01>>, <<"S", "DAT", \h01>>,
       <<"M", "DAT", \h7e>>, <<"S", "DAT", \hff>> >>

\* The words of pic_init in their order.
PicWrites ==
    << <<"M", "DAT", \hff>>, <<"S", "DAT", \hff>>,
       <<"M", "PIC", \h11>>, <<"S", "PIC", \h11>>,
       <<"M", "DAT", \h20>>, <<"S", "DAT", \h28>>,
       <<"M", "DAT", \h04>>, <<"S", "DAT", \h02>>,
       <<"M", "DAT", \h01>>, <<"S", "DAT", \h01>>,
       <<"M", "DAT", \h7c>>, <<"S", "DAT", \hff>> >>

pic_init ==
    /\ Running
    /\ pc = "pic_init" /\ write <= Len(PicWrites)
    /\ LET w == PicWrites[write]
       IN  IF w[2] = "DAT" THEN WriteData(w[1], w[3]) ELSE WriteICW1(w[1])
    /\ write' = write + 1
    /\ UNCHANGED <<pc, IF_, shadow, stack, shutdown, idt, obf, waiting, races>>

\* sti() at the end of pic_init.
pic_init_sti ==
    /\ Running
    /\ pc = "pic_init" /\ write = Len(PicWrites) + 1
    /\ pc' = "main"
    /\ IF_' = TRUE
    /\ shadow' = TRUE
    /\ UNCHANGED <<write, stack, shutdown, idt, picVars, keyVars, races>>

\* The rest of main, seen from here: it runs, and an access may fault.
MainRuns ==
    /\ Running
    /\ pc = "main" /\ stack = <<>>
    /\ shadow
    /\ shadow' = FALSE
    /\ UNCHANGED <<pc, write, IF_, stack, shutdown, idt, picVars, keyVars, races>>

PageFault ==
    /\ Running
    /\ pc = "main" /\ stack = <<>>
    /\ ~shadow
    /\ Enter(\h0e)
    /\ UNCHANGED <<idt, picVars, keyVars, races>>

Cpu ==
    \/ Deliver
    \/ Handler
    \/ timer_init \/ idt_init \/ pic_init \/ pic_init_sti \/ MainRuns

-----------------------------------------------------------------------------
(* Devices *)

\* Nothing is under way: the time between two ticks is far longer than what a
\* handler takes.
Quiet == pc = "main" /\ stack = <<>> /\ Pending = {}

\* A tick; while the one before is still requested it is lost.
TimerTick ==
    /\ 0 \notin irr
    /\ Quiet \/ races < MaxRaces
    /\ races' = IF Quiet THEN races ELSE races + 1
    /\ irr' = irr \cup {0}
    /\ UNCHANGED <<cpuVars, idt, imr, base, word, isr, keyVars>>

\* A key is pressed or released: its code waits in the keyboard.
Key ==
    /\ waiting < MaxWaiting
    /\ waiting' = waiting + 1
    /\ UNCHANGED <<cpuVars, idt, picVars, obf, deaf, races>>

\* The controller takes the next code when the last one was read, and its line
\* goes up.
CodeReady ==
    /\ ~obf /\ waiting > 0
    /\ obf' = TRUE
    /\ waiting' = waiting - 1
    /\ irr' = irr \cup {1}
    /\ UNCHANGED <<cpuVars, idt, imr, base, word, isr, deaf, races>>

OtherDevice(l) ==
    /\ l \notin irr
    /\ irr' = irr \cup {l}
    /\ UNCHANGED <<cpuVars, idt, imr, base, word, isr, keyVars, races>>

-----------------------------------------------------------------------------
\* The boot loader jumps to the kernel with interrupts off and the chips as the
\* BIOS left them; a code may be waiting already.
Init ==
    /\ pc = "timer_init"
    /\ write = 1
    /\ IF_ = FALSE
    /\ shadow = FALSE
    /\ idt = [v \in {} |-> TrapGate("page_fault")]
    /\ stack = <<>>
    /\ shutdown = FALSE
    /\ imr = [c \in {"M", "S"} |-> {}]
    /\ base = [c \in {"M", "S"} |-> IF c = "M" THEN \h08 ELSE \h70]
    /\ word = [c \in {"M", "S"} |-> 0]
    /\ irr = {}
    /\ isr = {}
    /\ obf = FALSE
    /\ waiting \in 0..MaxWaiting
    /\ deaf = FALSE
    /\ races = 0

Next ==
    \/ Cpu
    \/ DeliverSpurious
    \/ PageFault
    \/ TimerTick
    \/ Key
    \/ CodeReady
    \/ \E l \in Devices : OtherDevice(l)

\* The processor runs and takes interrupts; nothing obliges a device to act.
Spec == Init /\ [][Next]_vars /\ WF_vars(Cpu)

-----------------------------------------------------------------------------
(* Properties *)

TypeOK ==
    /\ pc \in {"timer_init", "idt_init", "pic_init", "main"}
    /\ write \in 1..(Len(PicWrites) + 1)
    /\ IF_ \in BOOLEAN
    /\ shadow \in BOOLEAN /\ shutdown \in BOOLEAN
    /\ idt = [v \in {} |-> TrapGate("page_fault")] \/ idt = Gates
    /\ stack \in Seq([handler : DOMAIN Code, at : 1..5, if : BOOLEAN])
    /\ imr \in [{"M", "S"} -> SUBSET (0..7)]
    /\ base \in [{"M", "S"} -> 0..255]
    /\ word \in [{"M", "S"} -> {0, 2, 3, 4}]
    /\ irr \subseteq 0..15 /\ isr \subseteq 0..15
    /\ obf \in BOOLEAN /\ waiting \in 0..MaxWaiting /\ deaf \in BOOLEAN
    /\ races \in 0..MaxRaces

\* No interrupt ever meets a gate that idt_init left empty, although the set-up
\* of the chips unmasks every line on the way and line 7 is never masked: the
\* processor would reset.
EveryVectorHasAGate == ~shutdown

\* Handlers do not pile up on the kernel's stack: the sti before iret takes
\* effect after it, and the one handler that is ever interrupted is that of a
\* page fault, before its cli.
HandlersDoNotNest ==
    /\ Len(stack) <= 2
    /\ Len(stack) = 2 => stack[1].handler = "page_fault" /\ stack[1].at = 1
                            /\ stack[2].handler # "page_fault"

\* The type invariant, with the depth of the kernel's stack.
StackInv == TypeOK /\ HandlersDoNotNest

\* A line in service has its handler under way; the exception is line 7, whose
\* handler ends no interrupt, and which has no line below it to block.
InServiceIsHandled ==
    \A l \in isr \ {7} :
        \E i \in 1..Len(stack) : stack[i].handler = idt[\h20 + l].handler

\* A tick that is requested once the kernel runs is answered.
TicksAreHandled == pc = "main" /\ 0 \in irr ~> 0 \notin irr

\* A code in the keyboard controller is read once the kernel runs, through ticks,
\* page faults and a line 7 that stays in service for ever; unless it was there
\* when pic_init made the chip forget the edge of its line.
KeysAreHandled == pc = "main" /\ obf /\ ~deaf ~> ~obf

=============================================================================
