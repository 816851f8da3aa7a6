# A TLA+ model of ListaOS

ListaOS is a small 32-bit x86 kernel with its own BIOS boot loader: a keyboard
ring fed by an interrupt handler, a text console over a linear frame buffer, a
timer-driven main loop, a bitmap of free page frames, demand paging, a PCI scan
and the beginning of an AHCI driver. This directory holds TLA+ modules
translated from that code, TLC configurations that check them on small
instances, and TLAPS proofs for every value of their constants. `PROJECT.json`
maps every definition to the lines it stands for (paths are relative to the root
of the repository).

    tlc -workers 2 -config mainloop.cfg MCMainLoop
    tlapm KeyboardProofs.tla

## 1. Inventory

| component | source | state | operations | what makes it correct |
| --- | --- | --- | --- | --- |
| Keyboard ring | `libkernel/keyboard.c`, `irq_0x21` in `interrupt.c` | `buffer`, `bufferHead`, `bufferTail`, `bufferUsed`, `status` | `keyboard_buffer_in` (interrupt), `keyboard_buffer_out`, `keyboard_buffer_clear` (main) | codes are returned in the order they came, but where the handler stores over unread ones; none that was never stored; the echo is the text that was typed |
| Main loop, timer | `main.c:68-81`, `irq_0x20`, `timer.c` | `count`, `cursorState` | tick, the two tests of `count`, `hlt` | every stored code is dealt with and echoed, the cursor blinks for ever |
| Console | `libkernel/console.c` | `row`, `col`, `cursorState`, the picture | `print_char`, `toggle_cursor`, `_draw_font` | stays on the screen and in the frame buffer, leaves no cursor behind, destroys no text |
| Display | `libkernel/display.c` | the mapping of the frame buffer | `display_init`, `draw_pixel`, `screen_clear` | every pixel written is inside the frame buffer |
| Physical memory | `libkernel/mm.c:10-125` | `physMemBitmap`, `physMemBitmapSize`, `mmInitialed` | `mm_init`, `alloc_4k_phys`, `free_4k_phys`, `get_free_page_num` | a frame has one owner, is usable RAM, is not the kernel's; none is lost |
| Paging | `mm.c:128-149`, `page_fault`, `init_protect_mode.s` | page table, translation buffer | `kernel_page_mmap`, `kernel_page_unmap`, fault handler | cached translations agree with the table, no two pages share a frame, the boot ends |
| Video mode | `bootloader/BIOS/init_display.s` | mode list, the buffer at 0x7e00, the best mode so far | query, judge, set, describe | the kernel is told about the mode that is set, and it is the best one |
| Boot loader | `bootloader/BIOS/init.s` | the buffer at 0x9000, the cluster under way, the memory map at 0xe000 | `find_file`, `load_file`, `start_probe` | the whole kernel and the whole memory map arrive; no loop is endless, but on a FAT chain that runs into itself |
| Interrupt set-up | `interrupt.c:27-79`, `intr_handler.s`, `timer.c` | IDT, interrupt flag, the two controllers | `idt_init`, `pic_init`, `timer_init`, the stubs | only gates that exist are used, handlers do not pile up, no line stays blocked |
| PCI scan | `libkernel/pci.c`, `main.c:42-65` | the function list | `pci_init`, `pci_read_config` | every function is listed once, the list ends |
| SATA driver | `libkernel/driver/sata.c` | AHCI registers | `sata_driver_init` | every port of every controller is programmed, through one window |
| Formatted output | `libkernel/stdio.c`, `string.c` | none | `printf`, `sprintf` and their conversions | the text is that of the C standard, and the same from both |
| Other | `boot.s`, `io.c`, `font.c`, `color.c`, UEFI stub, scripts | | | not modelled (section 7) |

How they interact. The boot loader hands over a kernel image, a memory map and
the description of the video mode. `main` initialises the display (which maps
the frame buffer), timer, IDT and PIC (interrupts are on from here), memory, PCI
and, in a debug build, AHCI controllers; then it loops. The interrupt handlers
run with interrupts disabled and share with `main` only `count` and the keyboard
ring. Page faults happen where `main` touches the PCI list, page 0 or the AHCI
command area; the handler calls `alloc_4k_phys` and `kernel_page_mmap`.

What is hard here: the ring is shared without a lock, with a counter that is
decremented in two instructions; the slot is given back before it is read; `hlt`
races the interrupts that should have woken it; the bitmap is built from any
memory map in memory that was not cleared; translations are cached by the
processor; the loader reuses one buffer for three purposes and ignores some
results of the BIOS; the first word of the interrupt controller's set-up unmasks
every line; line 7 is never ended; stubs turn interrupts on before they return;
all AHCI controllers are programmed through one window; `sprintf` converts its
arguments into formats of its own. `PROJECT.json` lists every hazard at its line.

## 2. Modules

| module | models | note |
| --- | --- | --- |
| `Keyboard` | the ring, one action per access to shared state, the handler between any two | `MCKeyboard` gives TLC its codes |
| `MainLoop` | the endless loop, EXTENDS `Keyboard` | `MCMainLoop` |
| `Console` | one step per `print_char` and `toggle_cursor` | a run of its own, no MC module |
| `PageAllocator` | abstract: what a frame allocator promises | implemented by `PhysMem` |
| `PhysMem` | `mm_init` entry by entry, allocation and release | `MCPhysMem` enumerates the memory maps |
| `Pci` | the scan of the bus and its list | composed into `Memory` |
| `Memory` | page table, TLB, faults and the stages of `main`, AHCI controllers included, EXTENDS `PhysMem` and `Pci` | `MCMemory` enumerates the machines |
| `Interrupts` | IDT, the two 8259 chips, the stubs, the devices | a run of its own, no MC module |
| `Format` | `vprintf` and `sprintf` character by character, the conversions | `MCFormat` |
| `VideoMode` | the choice of the video mode | |
| `Boot` | the second-stage loader, EXTENDS `VideoMode` | `MCBoot` |
| `KeyboardProofs`, `ConsoleProofs`, `PhysMemProofs`, `MemoryProofs`, `InterruptsProofs`, `BootProofs`, `FormatProofs` | theorems | section 5; `KeyboardProofs` EXTENDS `MainLoop`, `MemoryProofs` EXTENDS `PhysMemProofs` and proves what it needs of `Pci` |
| `Division` | lemmas about quotients and remainders | used by the proofs of the ring, of pages, of sectors, of cells and of digits |

Correspondence with the code.

* **Keyboard.** `keyboard_buffer_in` is one action (the handler runs with
  interrupts off). `keyboard_buffer_out` is four: `OutAdvance` (test, head),
  `OutLoad` and `OutStore` (the two halves of `--bufferUsed`, `reg` being the
  register), `OutReturn` (the read of the slot). `held` remembers the keys that
  are physically down, so that the codes are those a keyboard sends; `stored`,
  `taken` and `shown` are histories the properties compare. `keymap` is reduced
  to a letter, a symbol and an unmapped key in both cases of Shift.
* **MainLoop.** `count` is read twice, each time from memory: it is not
  volatile, but both builds of `CMakeLists.txt` compile without optimisation. A key
  or a tick wakes a halted processor; one that arrives before `hlt` does not.
* **Console.** A cell shows nothing, ink or the cursor bar. `fresh` records that
  neither a carriage return nor the last line (which is written over, there is no
  scrolling) sent the cursor back over text.
* **PhysMem.** The bitmap is the set of its set bits, garbage beyond the size
  included. The correction of an unaligned entry wraps around in 64 bits: such
  entries are dropped unless they start in the first two pages (`Dropped`).
  Addresses are taken modulo `AddrLimit` where the code computes in 32 bits.
* **Pci.** `slot` is the pair of loops over buses and devices. A step reads one
  function or writes one entry; in `Memory` the page of the entry is then accessed
  and may fault. `pci_read_config` says which function answers: one that stands
  alone on its device may answer under every number.
* **Memory.** Virtual pages have the numbers of `mm_internal.h`; of each region the
  loader maps the first page stands for all (`BootMap`, from the calls of
  `memory_page_map`), and of the others the instance has the first few. That the
  real regions do not overlap is `LayoutAssumption`. A write to a port's registers
  reaches the controllers the processor's translation of that page leads to
  (`Reached`), cached or not. `SetEntry` is the store
  into the page table and `Invlpg` what follows; between them any other present
  entry may be cached (`CacheEntry`). The access that faulted is retried after
  the handler.
* **Interrupts.** One action per instruction that touches the interrupt flag, a
  controller or the keyboard; between any two an interrupt may be taken
  (`Deliver`), if the flag is on and the instruction before was no `sti`. The chips
  (masks, priorities, the words of their set-up, edges that are forgotten, the
  cascade, spurious interrupts), the timer and the keyboard are external. `deaf`
  records that a code was waiting when `pic_init` made the chip forget its edge.
* **Format.** A format is a sequence of characters, derived from the items of a call
  so that directives and arguments fit. `frames` is the stack of `sprintf`: a
  converted argument is the format of another call. Conversions are recursive
  functions; in the run an `int` has two hexadecimal digits and a `long long` four,
  for eight and sixteen, and division truncates as in C. `LegalItem` says which items
  a caller may pass: numbers of the type the directive reads (`Values`), spellings the
  two switches know or pass over, and no string in which `sprintf`, taking it
  for a format, would find an incomplete directive or one that reads an argument
  (`Harmless`): that would be undefined.
* **Boot.** Sectors and clusters stand for their bytes. `info` (0x7e00) starts
  with whatever memory held, and a failing BIOS call leaves it as it is.

## 3. Runs

| run | question | instance |
| --- | --- | --- |
| `keyboard_echo` | what is printed against a reference over the codes stored, and the Shift bit against the one Shift key there is | 6 slots, 5 codes, Shift, Caps Lock, a letter, a symbol, an unmapped key |
| `keyboard_two_shifts` | (violation) the Shift bit against two Shift keys | 7 slots, 6 codes |
| `mainloop` | counter, indices and order of the ring when it wraps, fills and is written over; are keys echoed, does the cursor blink | 2 slots, 5 keys: it wraps twice and overflows; periods 2 and 4, count wraps at 9, 2 missed ticks |
| `console` | every text with every blinking | 9 x 2 cells, a rest of 3 pixels, 24 bits, no spare byte |
| `physmem` | the bitmap built from a map, then used; refinement of `PageAllocator` | every pair of entries, RAM below the 32-bit limit or a reserved one beyond it; 20 pages, words of 4 bits |
| `physmem_above_4g`, `physmem_bitmap` | (violations) RAM above 4 GB; an entry beyond the bitmap | 20 and 32 pages |
| `memory_boot` | translations, sharing and progress of a whole boot, and what the bus scan and the AHCI set-up leave | 9 usable frames (one for every page filled on demand), a reserved entry across the 32-bit limit, 3 slots of up to 3 functions with gaps, up to 2 AHCI controllers below and above the picture, closer to each other than the window is large, ports 28 to 30 on both pages of the window, 7 cached pages |
| `memory_exhausted` | (violation) the same with one usable frame | |
| `interrupts` | is every vector answered, do handlers nest, does a line stay blocked | devices on a masked line, on line 7 and behind the second chip, 2 codes waiting, 2 early ticks |
| `format` | `vprintf` against a positional reference, `sprintf` against `vprintf` | every call of two items over all directives, 8 and 16 bit integers at their edges |
| `boot` | what the loader hands over, and that it ends | 3 clusters in 2 FAT sectors, 2 modes, every FAT, those with cycles included, every set of failing calls |

Why the bounds are enough. Each is chosen just above the point where the last
case appears: a ring of two slots is full, empty, wrapped and half used; nine
columns give a tab stop with room and one without; words of four bits over
sixteen pages put the reserved limit, a word boundary and a page boundary at
different places; ports 29 and 30 lie on two pages of the window; two items show
that a directive takes its own argument; two FAT sectors let a chain leave one and come back. The
constants in the code (256 slots, periods 5 and 50, 2^32, 0x1000) enter only
through comparisons and remainders that the small ones exercise. In `mainloop`
neither period divides the range of `count`, as in the code.
Bounds that cut behaviour: `MaxStored` and `MaxKeys` (keys in a behaviour),
`MaxRaces` (next section), `MaxLoaded` (four clusters: one more than the longest
chain that ends, so that a cycle is gone round), `MaxPage`, `Slots`, `Funs`, `Ports`, `CachedPages`,
`MaxWaiting`, `MaxItems`.

Each property has a mutant in `PROJECT.json`: a plausible bug in a mapped
definition, written next to it in the module, which makes the run fail.

Behaviours met while modelling that the repository contradicts (`findings`):
releasing one of two Shift keys clears the bit while the other is held; RAM above
4 GB is handed out under a truncated address, so memory of the kernel may be
allocated; a memory-map entry above 64 GB makes the bitmap outgrow its 2 MB; a
page fault without a free frame maps frame 0, the kernel stack. Others that no
run states: a code counted between the two halves of `--bufferUsed` stays in the
ring until one more comes (the properties allow for this `Lag`);
an unread code is lost when the handler stores over it, which it does in two ways
(`InOrder` says that there is no third): it fills the ring between the decrement that
gives a slot back and the return that reads it, or earlier lost counts make a ring of
unread codes look half empty; a FAT chain that runs into itself is loaded without end;
`screen_clear` is said to reset the cursor (`display.c:66-69`) and does not, which
is harmless at its only call; the last line is written over; a key pressed before
`pic_init` leaves the keyboard deaf (`deaf`); `clb` and `fb` of an AHCI port are
given virtual addresses; `_itoa` cannot print the smallest `long long`, `%f` loses
zeros at the beginning of the fraction, `sprintf` takes `%llu` for signed and a
`%s` argument for a format, and `%l` passes over the character after it
(`Printable` and `Writable` name what the checks leave out).

## 4. Fairness and liveness

* `LoopSpec`: weak fairness of the loop (the processor executes it) and of the
  timer interrupt (it is unmasked and never stops). No fairness of the keyboard.
  A tick needs 10 ms and the instructions between a wake-up and `hlt` take
  microseconds; that ticks hit this window again and again for ever is excluded by
  the bound `MaxRaces` on such hits, not by a fairness assumption. Liveness under
  it is `KeysAreEchoed` and `CursorBlinks`.
* `MemSpec`: weak fairness of the kernel's own steps, so that the boot ends
  (`BootFinishes`). Caching by the processor is not fair.
* `Interrupts!Spec`: weak fairness of the processor: it executes handlers and takes
  interrupts. No device is fair, and `MaxRaces` again bounds ticks that come before
  the last one is dealt with, which 10 ms apart they do not. `TicksAreHandled` and
  `KeysAreHandled` hold under it.
* `BootSpec`: weak fairness of the loader. The
  loader does not check that a FAT chain ends: `LoaderEnds` allows for one that runs
  into itself (`Endless`), where it goes on reading, and for no other case.
* `Keyboard`, `Console`, `PhysMem` and `Format` have no liveness of their own.

## 5. Proofs

Every safety property of the passing runs is a theorem. Each
rests on an inductive invariant, named here, which is what the property needs to
be preserved by every step; the modules prove that `Init` establishes it, that
each action preserves it, and that it implies the property.

| theorem | property | inductive invariant |
| --- | --- | --- |
| `KeyboardInvariant` | `KeyboardInv` | itself |
| `UsedNeverOvercounts`, `NoPhantomReads`, `LagOnlyGrowsInDecrement` | `UsedInv`, `NoPhantomRead`, `LagGrowsOnlyInDecrement` | `KeyboardInv` |
| `RingHoldsTheLastCodes`, `CodesInOrder` | `RingInv`, `InOrder` | `RingOrder` |
| `EchoIsTheText`, `ShortTextsAreEchoed` | `EchoShown`, `EchoIsFaithful` | `EchoInv` |
| `LoopRunsTheKeyboard` | `LoopSpec => Spec` | |
| `CursorStaysOnScreen`, `AlwaysInBounds`, `DrawsInsideVram`, `StaysOnScreen`, `TabsMoveOn` | `CursorOnScreen`, `TabMovesOn` | `ConsoleInv` |
| `CursorLeavesNoTrail`, `TextStays` | `NoCursorTrail`, `TextSurvives` | `ConsoleInv` with the property, with `TextBehind` |
| `AllocatorInvariant`, `PhysMemTypes`, `NeverTwice`, `KernelMemoryIsKept`, `ImplementsAllocator` | `SoleOwner`, `AboveReserved`, `Implements` | `AllocInv` |
| `OnlyRamIsHandedOut`, `AllRamIsFound`, `NoFrameIsLost` | `RealRam`, `RamIsFound`, `NothingLost` | `AllocInv` with `RamInv`, `FoundInv`, `NothingLost` |
| `BootInvariant`, `TranslationsAreCurrent`, `NoFrameIsShared`, `FramesHaveTheirPage`, `KernelPagesStay`, `EveryControllerIsSetUp` | `MmuInv`, `NothingShared`, `OwnersAreMapped`, `KernelStaysMapped`, `ControllersAreSetUp` | `BootInv` |
| `BusIsListed` | `ListIsTheBus` | `PciInv` |
| `FaultsStayAboveReserved` | `DemandAboveReserved` | `BootInv` with `OwnFrames` |
| `BootRunsTheManager`, `BootAllocatesFrames` | `MemSpec => Spec`, `Implements` | |
| `InterruptInvariant`, `HandlersStayShallow`, `NoEmptyGate`, `ServiceEnds` | `StackInv`, `EveryVectorHasAGate`, `InServiceIsHandled` | `IntInv` |
| `VideoInvariant`, `KernelKnowsItsPicture`, `PictureIsLargest` | `PictureKnown`, `LargestPicture` | `VideoInv` |
| `KernelIsLoaded`, `MapIsWhole` | `KernelComplete`, `MapComplete` | `FileInv`, `MapInv` |
| `InOrderInvariant`, `Lengths`, `Agreement`, `PrintedRight` | `FormatInv`, `SprintfAgrees`, `PrintsReference` | `InOrder` (of `FormatProofs`) |

What the arguments are.

* **Keyboard**, for every ring size and every set of codes. `UsedInv` bounds
  `bufferUsed` by the codes stored and not taken, which depends on where `main`
  stands: in the two halves of the decrement the register must be within the same
  bound, and the code under way counts or not according to `pc`. `RingOrder` says
  that slot `j % bufferSize` holds code `j` for the last `bufferSize` codes; the slot
  the handler writes is that of none of the others, because numbers less than a
  ring apart have different remainders. `EchoInv` keeps text and modifiers equal to
  those of the codes done so far (`Done`), by one lemma for each: a code more changes
  the reference as `keyboard_buffer_clear` changes `status` (`ModifiersNext`), adds
  its character or none (`EchoNext`, `EchoSame`), and codes stored behind it change nothing
  (`EchoOfPrefix`). `EchoIsTheText` holds in a ring that wraps and fills, under
  `NotOverwritten`: when a slot is read, fewer than a ring of codes have been stored
  from the one it should have on. This excludes both ways of losing an unread code
  (section 3). `CodesInOrder` needs no such condition: it names the code that is
  returned in every case, the oldest unread one or, if that was written over, the last
  one in its slot (`Survivor`), and says that the second happens only in a full ring
  or after a lost count. `ShortTextsAreEchoed` needs no condition.
  `LoopRunsTheKeyboard` carries all of these over to the loop of `main`.
* **Console**, for every resolution of at least 64 x 16, every depth of at least 24
  bits and every frame buffer that holds the picture. `TypeOK` alone is not
  inductive: the test `row == consoleHeight` is enough only because no character
  moves the cursor down by two lines (`CellAfterIsNear`), which needs the cursor on
  the line (`WithinTwoLines`). `TextBehind` orders the cells: until the cursor is
  sent back, all ink is before it.
* **PhysMem**, for every page size, memory map, reserved limit and order of
  allocations and releases, under `Below4G` (no RAM of the map lies beyond
  32-bit addresses, reserved entries may; without it `AboveReserved` is false, as `physmem_above_4g` shows).
  The invariant adds to the properties that free pages are above the limit and
  that a frame that is handed out has a clear bit, inside the part of the bitmap in
  use. That `mm_init` only adds pages (`EntryPages`), where those of an entry lie
  (`UsablePages`, `CoveredIsUsable`) and that a page's address names it
  (`AddressOfPage`) are lemmas. `OnlyRamIsHandedOut` needs one more fact,
  `TwoPagesReserved` (in the code the limit is 8 MB): an unaligned entry that starts
  in the second page is corrected to its own start, and its first page would begin
  below the entry. `NoFrameIsLost` counts: an allocation moves one frame from the free ones
  to those handed out, a release moves it back. `ImplementsAllocator`: under
  the mapping of `PhysMem` (`Allocator`) every entry of the memory map is a
  `Discover`, and allocations and releases are those of `PageAllocator`.
* **Pci** (lemmas of `MemoryProofs`), for every bus whose functions leave room for the
  end of the list, at the code's sizes all but the one with 65536 functions. No
  hypothesis about the memory map is needed. The list has exactly the functions
  the scan has been past, in order and once each (`ScanInv`), so never more entries
  than the bus has functions (`ScannedFit`), and it fits the region.
* **Memory**, for every region size and set of cached pages, and every memory map and
  bus that `MemoryAssumption` allows, under `Below4G` and `TwoPagesReserved`. The
  assumption keeps the picture and the windows on the controllers out of RAM and of
  each other's way; reserved entries may lie anywhere, and registers below or above
  the picture. `BootInv` says of each stage of `main`
  what the next may count on. No page is cached that the table does not have, but
  the one whose `invlpg` is still to come; the temporary mappings go one after the
  other; the window shows the current controller as far as it has been mapped,
  which is what makes each controller get its own ports; each frame handed out has
  exactly one page filled on demand. `NothingShared` has two exceptions, each of which
  the code reaches: frame 0 after a failed allocation, and two pages of the window
  while it is moved from one controller to another whose registers follow closely. `FaultsStayAboveReserved` has a hypothesis about the
  behaviour, `EnoughRam`: `mm_init` reports as many frames as the boot touches
  pages. Without it the property is false (`memory_exhausted`).
  `BootRunsTheManager`: a step of the boot is a step of `PhysMem` or none.
* **Interrupts**, for every set of devices and any number of codes and ticks.
  `IntInv` ties the flag to the instruction the handler on top is at: it is off but
  for a page fault before its `cli` and the instruction after a `sti`, where no
  interrupt is taken; hence two frames at most. The chips are at the word that
  `pic_init` writes next (`ChipInv`): an unmasked line has its vector and the vector
  a gate before the flag can be on.
* **Boot**, for every mode list, BIOS, set of failing calls, directory and FAT,
  those with cycles included.
  `VideoInv` says that the chosen mode, if the BIOS describes it at all, fits and has
  the size kept in `best`, and that no mode judged before is larger: a mode that was
  chosen on a stale description cannot get past the last call, and a later one with
  the same stale description is not larger than it. `FileInv` follows the directory up to the
  entry and the chain up to the cluster under way, with the FAT sector that is in
  the buffer.

* **Format**, for integers and doubles of any width, every set of legal items and
  calls of any length. The properties speak of the end of a call; `InOrder` says where
  both functions are on the way: the call under way stands at the beginning of an item,
  with the arguments of exactly the items that are left (`Before`), and what has been
  printed is the text of the items before it. In `sprintf` a second call may be
  under way inside the text of one argument, which then is `Harmless`, and what is in
  memory with what is left of that text is the text of the items so far. That a
  format is divided into the directives it was made of, although `%l` looks at the
  character after the next and a spelling could run into the next item, is
  `ItemStep`, over `FirstRest`: what is left behind the first `k` items of a call.
  A text of an argument that is writable has no percent sign, so that nothing in it is
  taken for a directive (`TextWritable`); of the others only harmlessness is kept
  (`HarmlessStep`), which is what keeps the calls two deep.
  `PrintedRight` compares two ways to find digits: `_itoa` divides by ten until nothing
  is left, the reference takes each digit from its place. The quotient of a quotient
  is that of the product (`QuotientOfQuotient`), so that the digits are the same
  (`DecimalPlaces`), by induction on the number; `_itoh` writes all places and takes off the
  leading zeros, which leaves as many as the reference has (`HexReference`).
  The hypothesis is `Printable`: without it the property is false
  (section 3).
* **Induction over data**, which these conversions and the division of a format take.
  The library's induction theorems have operators as parameters, which the
  installed provers cannot instantiate. `FormatProofs` therefore starts from
  theorems without such a parameter (`WFMin`, `NatLessThanWellFounded`) and
  states for sets and functions that a set of numbers has a least one
  (`LeastNatural`), that one which has 0 and with each number the next has them all
  (`Induction`), and that a function whose value depends on the values at smaller
  numbers exists, satisfies its equation and has its type when its equation keeps
  the type (`Recursion`, `RecursionType`). `Pow`, `Decimal` and `Shrunk` are instances,
  and every induction is over a set that its proof defines.

Assumed are the `ASSUME`s of the modules (which TLC evaluates in every run), that
is the layout of `mm_internal.h`, a bus and a BIOS that answer consistently, devices outside
of RAM whose registers are disjoint, legal items of calls (`FormatAssumption`), and the hypotheses named above. Two of these need
a word. `IntDigits < LongDigits` (8 and 16 in the code) makes the negation of an `int`
exact although that of a `long long` may wrap. `FormatAssumption` wants in `Chars`
every character that a conversion writes, those that `_itoa` makes of negative
remainders included.

Left to TLC are the liveness properties (`KeysAreEchoed`, `CursorBlinks`,
`BootFinishes`, `LoaderEnds`, `TicksAreHandled`, `KeysAreHandled`), because fairness
and ENABLED are beyond the prover. The properties of the violation runs are false.

## 6. Plan

Done in this order: `Keyboard`, `Console`, `PhysMem` with `PageAllocator`,
`MainLoop`, `Memory`, `VideoMode` and `Boot`, `Interrupts`, `Pci` with the AHCI
stages of `Memory`, `Format`, with the proofs above. Left is
the pitch of the mode in `Console` and `VideoMode`.

## 7. Not modelled, and why

`boot.s` reads one run of sectors and jumps; `io.c` is one machine instruction per
function; `font.c` and `color.c` are tables; the UEFI program prints the memory map
of the firmware and loads no kernel; the scripts have no run-time behaviour.
Of the modelled parts these are left out: the
colours of pixels, the line pitch of the mode, what is printed while booting,
access rights in page-table entries, the status of an AHCI port (it is only
printed), rounding of doubles, formats that end inside a directive (undefined), the arithmetic on the BIOS parameter block,
and the segments and descriptor tables of protected mode.
