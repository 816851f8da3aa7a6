---------------------------- MODULE ConsoleProofs ---------------------------
(***************************************************************************)
(* What holds of the console for every resolution, every frame buffer that *)
(* fits it and every text.                                                 *)
(***************************************************************************)
EXTENDS Console, Division, TLAPS

ConsoleInv == TypeOK /\ InBounds

\* Division by the width of a line: a cell less than two lines away is on this
\* line or on the next one.
LEMMA WithinTwoLines ==
    ASSUME NEW w \in Nat \ {0}, NEW a \in Nat, a < 2 * w
    PROVE  a \div w \in {0, 1} /\ a % w \in 0..(w - 1)
<1>1. a = w * (a \div w) + (a % w) /\ a % w \in 0..(w - 1) /\ a \div w \in Nat
  OBVIOUS
<1>2. a \div w < 2
  <2>1. SUFFICES ASSUME a \div w >= 2 PROVE FALSE
    BY <1>1
  <2>2. w * (a \div w) >= w * 2
    BY <1>1, <2>1
  <2> QED
    BY <1>1, <2>2
<1> QED
  BY <1>1, <1>2

LEMMA Size ==
    /\ consoleWidth \in Nat /\ consoleWidth >= 8
    /\ consoleHeight \in Nat /\ consoleHeight >= 1
    /\ 8 * consoleWidth <= X_RES
    /\ 16 * consoleHeight <= Y_RES
  BY ConsoleAssumption DEF consoleWidth, consoleHeight

-----------------------------------------------------------------------------
(* The cursor stays on the screen *)

\* No character moves the cursor off the line or down by more than one line.
LEMMA CellAfterIsNear ==
    ASSUME ConsoleInv, NEW ch \in AllChars
    PROVE  /\ CellAfter(ch)[1] \in 0..(consoleWidth - 1)
           /\ CellAfter(ch)[2] \in {row, row + 1}
<1>1. /\ col \in Nat /\ col < consoleWidth /\ row \in Nat
      /\ col % 8 \in 0..7
  BY DEF ConsoleInv, TypeOK, InBounds
<1>2. \A a \in Nat : a < 2 * consoleWidth =>
        a \div consoleWidth \in {0, 1} /\ a % consoleWidth \in 0..(consoleWidth - 1)
  <2>1. consoleWidth \in Nat \ {0}
    BY Size
  <2> SUFFICES ASSUME NEW a \in Nat, a < 2 * consoleWidth
               PROVE  a \div consoleWidth \in {0, 1} /\ a % consoleWidth \in 0..(consoleWidth - 1)
    OBVIOUS
  <2> QED
    BY ONLY <2>1, WithinTwoLines, a \in Nat, a < 2 * consoleWidth
<1>3. TabCell[1] \in 0..(consoleWidth - 1) /\ TabCell[2] \in {row, row + 1}
  <2>1. /\ col + 8 \in Nat /\ col + 8 < 2 * consoleWidth
        /\ col + 8 - (col % 8) \in Nat /\ col + 8 - (col % 8) < 2 * consoleWidth
    BY <1>1, Size
  <2>2. /\ (col + 8) \div consoleWidth \in {0, 1}
        /\ (col + 8 - (col % 8)) % consoleWidth \in 0..(consoleWidth - 1)
    BY <1>2, <2>1
  <2> QED
    BY <1>1, <2>2 DEF TabCell
<1>4. /\ (col + 1) \div consoleWidth \in {0, 1}
      /\ (col + 1) % consoleWidth \in 0..(consoleWidth - 1)
  <2>1. col + 1 \in Nat /\ col + 1 < 2 * consoleWidth
    BY <1>1, Size
  <2> QED
    BY <1>2, <2>1
<1> QED
  BY <1>1, <1>3, <1>4, Size DEF CellAfter

\* Drawing a cell of the screen gives a screen.
LEMMA DrawnType ==
    ASSUME ConsoleInv, NEW ch
    PROVE  Drawn(ch) \in [Cells -> {"blank", "ink", "bar"}]
  BY DEF ConsoleInv, TypeOK, Drawn, draw_font

LEMMA InvInit == Init => ConsoleInv
  BY Size DEF Init, ConsoleInv, TypeOK, InBounds

LEMMA InvPrint ==
    ASSUME ConsoleInv, NEW ch \in AllChars, print_char(ch)
    PROVE  ConsoleInv'
<1>1. col' \in Nat /\ col' < consoleWidth
  BY CellAfterIsNear, Size DEF print_char
<1>2. row' \in Nat /\ row' < consoleHeight
  <2>1. row \in Nat /\ row < consoleHeight
    BY DEF ConsoleInv, TypeOK, InBounds
  <2>2. row' = LastRow(CellAfter(ch)[2]) /\ CellAfter(ch)[2] \in {row, row + 1}
    BY CellAfterIsNear DEF print_char
  <2> QED
    BY <2>1, <2>2, Size DEF LastRow
<1>3. /\ screen' \in [Cells -> {"blank", "ink", "bar"}]
      /\ cursorState' \in {0, 1}
      /\ fresh' \in BOOLEAN
  BY DrawnType DEF print_char, ConsoleInv, TypeOK
<1> QED
  BY <1>1, <1>2, <1>3 DEF ConsoleInv, TypeOK, InBounds

LEMMA InvToggle ==
    ASSUME ConsoleInv, toggle_cursor
    PROVE  ConsoleInv'
<1>1. screen' \in [Cells -> {"blank", "ink", "bar"}]
  BY DEF ConsoleInv, TypeOK, toggle_cursor, draw_font
<1>2. cursorState' \in {0, 1}
  BY DEF ConsoleInv, TypeOK, toggle_cursor
<1> QED
  BY <1>1, <1>2 DEF ConsoleInv, TypeOK, InBounds, toggle_cursor

\* The console's variables keep their types and the cursor stays on the screen,
\* for every resolution: the equality test of print_char is enough.
THEOREM CursorStaysOnScreen == Spec => []ConsoleInv
<1>1. ConsoleInv /\ [Next]_vars => ConsoleInv'
  <2> SUFFICES ASSUME ConsoleInv, [Next]_vars PROVE ConsoleInv'
    OBVIOUS
  <2>1. ASSUME NEW ch \in Chars, print_char(ch) PROVE ConsoleInv'
    BY <2>1, ConsoleAssumption, InvPrint
  <2>2. CASE toggle_cursor
    BY <2>2, InvToggle
  <2>3. CASE UNCHANGED vars
    BY <2>3 DEF vars, ConsoleInv, TypeOK, InBounds
  <2> QED
    BY <2>1, <2>2, <2>3 DEF Next
<1> QED
  BY InvInit, <1>1, PTL DEF Spec

\* The cursor is inside the character grid in every reachable state.
THEOREM AlwaysInBounds == Spec => []InBounds
<1>1. ConsoleInv => InBounds
  BY DEF ConsoleInv
<1> QED
  BY CursorStaysOnScreen, <1>1, PTL

-----------------------------------------------------------------------------
(* Every pixel drawn lies in the frame buffer *)

LEMMA Monotone ==
    ASSUME NEW a \in Nat, NEW b \in Nat, NEW c \in Nat, a <= b
    PROVE  c * a \in Nat /\ c * a <= c * b /\ a * c <= b * c
  OBVIOUS

\* A pixel of the picture is followed by two more bytes of the frame buffer.
LEMMA PixelFits ==
    ASSUME NEW x \in Nat, NEW y \in Nat, x < X_RES, y < Y_RES
    PROVE  PixelOffset(x, y) + 2 < VRAM_SIZE
<1> DEFINE last == X_RES * Y_RES - 1
<1>1. X_RES \in Nat /\ Y_RES \in Nat /\ BYTE_PER_PIXEL \in Nat /\ BYTE_PER_PIXEL >= 3
      /\ Y_RES - 1 \in Nat
  BY ConsoleAssumption
<1>2. X_RES * y <= X_RES * (Y_RES - 1) /\ X_RES * y \in Nat
  <2>1. y <= Y_RES - 1
    BY <1>1
  <2> QED
    BY <1>1, <2>1, Monotone
<1>3. X_RES * (Y_RES - 1) = X_RES * Y_RES - X_RES
  BY <1>1
<1>4. X_RES * y + x \in Nat /\ last \in Nat /\ X_RES * y + x <= last
  <2>1. X_RES * Y_RES \in Nat
    BY <1>1
  <2> QED
    BY <1>1, <1>2, <1>3, <2>1
<1>5. (X_RES * y + x) * BYTE_PER_PIXEL <= last * BYTE_PER_PIXEL
  <2> HIDE DEF last
  <2> QED
    BY <1>1, <1>4, Monotone
<1>6. last * BYTE_PER_PIXEL = X_RES * Y_RES * BYTE_PER_PIXEL - BYTE_PER_PIXEL
  <2> DEFINE area == X_RES * Y_RES
  <2>1. area \in Nat
    BY <1>1
  <2> HIDE DEF area
  <2>2. (area - 1) * BYTE_PER_PIXEL = area * BYTE_PER_PIXEL - BYTE_PER_PIXEL
    BY <1>1, <2>1
  <2> QED
    BY <2>2 DEF area
<1>7. X_RES * Y_RES * BYTE_PER_PIXEL <= VRAM_SIZE
  BY ConsoleAssumption
<1>8. /\ (X_RES * y + x) * BYTE_PER_PIXEL \in Nat
      /\ last * BYTE_PER_PIXEL \in Nat
      /\ X_RES * Y_RES * BYTE_PER_PIXEL \in Nat
      /\ VRAM_SIZE \in Nat
  <2>1. X_RES * Y_RES \in Nat
    BY <1>1
  <2> HIDE DEF last
  <2>2. \A a, b \in Nat : a * b \in Nat
    OBVIOUS
  <2> QED
    BY <1>1, <1>4, <2>1, <2>2, ConsoleAssumption
<1> HIDE DEF last
<1> QED
  BY <1>1, <1>5, <1>6, <1>7, <1>8 DEF PixelOffset

\* draw_pixel never writes outside the frame buffer display_init mapped.
THEOREM DrawsInsideVram == Spec => []PixelsInVram
<1>1. ConsoleInv => PixelsInVram
  <2> SUFFICES ASSUME ConsoleInv, NEW j \in {0, 7}, NEW i \in {0, 15}
               PROVE  PixelOffset(8 * col + j, 16 * row + i) + 2 < VRAM_SIZE
    BY DEF PixelsInVram
  <2>1. /\ 8 * col + j \in Nat /\ 8 * col + j < X_RES
        /\ 16 * row + i \in Nat /\ 16 * row + i < Y_RES
    BY Size, ConsoleAssumption DEF ConsoleInv, TypeOK, InBounds
  <2> QED
    BY <2>1, PixelFits
<1> QED
  BY CursorStaysOnScreen, <1>1, PTL

\* Cursor and drawing stay on the screen, for every resolution and every text.
THEOREM StaysOnScreen == Spec => []CursorOnScreen
<1>1. ConsoleInv /\ PixelsInVram => CursorOnScreen
  BY DEF ConsoleInv, CursorOnScreen
<1> QED
  BY CursorStaysOnScreen, DrawsInsideVram, <1>1, PTL

-----------------------------------------------------------------------------
(* The cursor bar *)

LEMMA TrailPrint ==
    ASSUME ConsoleInv, NoCursorTrail, NEW ch, print_char(ch)
    PROVE  NoCursorTrail'
<1>1. \A c \in Cells : screen'[c] # "bar"
  <2> SUFFICES ASSUME NEW c \in Cells PROVE screen'[c] # "bar"
    OBVIOUS
  <2>1. screen'[c] \in {"blank", "ink"} \/ (screen'[c] = screen[c] /\ c # <<col, row>>)
    <3>1. <<col, row>> \in Cells /\ screen \in [Cells -> {"blank", "ink", "bar"}]
      BY Size DEF ConsoleInv, TypeOK, InBounds, Cells
    <3> QED
      BY <3>1 DEF print_char, Drawn, draw_font
  <2> QED
    BY <2>1 DEF NoCursorTrail
<1> QED
  BY <1>1 DEF NoCursorTrail

LEMMA TrailToggle ==
    ASSUME ConsoleInv, NoCursorTrail, toggle_cursor
    PROVE  NoCursorTrail'
<1>1. screen \in [Cells -> {"blank", "ink", "bar"}] /\ cursorState \in {0, 1}
  BY DEF ConsoleInv, TypeOK
<1>2. <<col, row>> \in Cells
  BY Size DEF ConsoleInv, TypeOK, InBounds, Cells
<1>3. ASSUME NEW c \in Cells, screen'[c] = "bar"
      PROVE  c = <<col', row'>> /\ cursorState' = 1
  <2>1. CASE cursorState = 1
    BY <1>1, <1>2, <1>3, <2>1 DEF NoCursorTrail, toggle_cursor, draw_font
  <2>2. CASE cursorState = 0
    BY <1>1, <1>2, <1>3, <2>2 DEF NoCursorTrail, toggle_cursor, draw_font
  <2> QED
    BY <1>1, <2>1, <2>2
<1> QED
  BY <1>3 DEF NoCursorTrail

\* The blinking bar leaves nothing behind, whatever is printed between two
\* toggles.
THEOREM CursorLeavesNoTrail == Spec => []NoCursorTrail
<1>1. Init => NoCursorTrail
  BY DEF Init, NoCursorTrail
<1>2. ConsoleInv /\ NoCursorTrail /\ [Next]_vars => NoCursorTrail'
  <2> SUFFICES ASSUME ConsoleInv, NoCursorTrail, [Next]_vars PROVE NoCursorTrail'
    OBVIOUS
  <2>1. CASE UNCHANGED vars
    BY <2>1 DEF vars, NoCursorTrail
  <2> QED
    BY <2>1, TrailPrint, TrailToggle DEF Next
<1> QED
  BY CursorStaysOnScreen, <1>1, <1>2, PTL DEF Spec
-----------------------------------------------------------------------------
(* Tabs, and the order in which the cells are filled *)

\* A tab on a line of w columns, from column c: it goes forward, and to the next
\* tab stop when the line is a whole number of them.
LEMMA TabFrom ==
    ASSUME NEW w \in Nat, w >= 8, NEW c \in 0..(w - 1)
    PROVE  LET b     == c + 8 - (c % 8)
               moved == ((c + 8) \div w) * w + (b % w) - c
           IN  /\ moved \in Nat /\ moved >= 1
               /\ w % 8 = 0 => moved <= 8 /\ (b % w) % 8 = 0
<1> DEFINE b == c + 8 - (c % 8)
           q == c \div 8
           r == c % 8
<1>1. q \in Nat /\ r \in 0..7 /\ c = 8 * q + r
  OBVIOUS
<1>2. b = 8 * q + 8 /\ b = c + 8 - r
  BY <1>1
<1>3. w \in Nat \ {0} /\ 0 \in Nat /\ 1 \in Nat
  OBVIOUS
<1> HIDE DEF q, r, b
<1>4. CASE c + 8 < w
  <2>1. c + 8 \in 0..(w - 1) /\ b \in 0..(w - 1) /\ c + 8 = w * 0 + (c + 8) /\ b = w * 0 + b
    BY <1>1, <1>2, <1>4
  <2>2. (w * 0 + (c + 8)) \div w = 0 /\ (w * 0 + b) % w = b
    BY ONLY <1>3, <2>1, QuotientIs
  <2>3. (c + 8) \div w = 0 /\ b % w = b
    BY <2>1, <2>2
  <2>4. b % 8 = 0
    BY <1>1, <1>2
  <2> QED
    BY <1>1, <1>2, <2>3, <2>4 DEF b
<1>5. CASE c + 8 >= w
  <2>1. c + 8 - w \in 0..(w - 1) /\ c + 8 = w * 1 + (c + 8 - w)
    BY <1>5
  <2>2. (w * 1 + (c + 8 - w)) \div w = 1
    BY ONLY <1>3, <2>1, QuotientIs
  <2>3. (c + 8) \div w = 1
    BY <2>1, <2>2
  <2>4. CASE b < w
    <3>1. b \in 0..(w - 1) /\ b = w * 0 + b
      BY <1>1, <1>2, <2>4
    <3>2. (w * 0 + b) % w = b
      BY ONLY <1>3, <3>1, QuotientIs
    <3>3. b % w = b
      BY <3>1, <3>2
    <3>4. w % 8 # 0
      <4>1. PICK p \in Nat, s \in 0..7 : w = 8 * p + s /\ w % 8 = s
        OBVIOUS
      <4>2. ASSUME s = 0 PROVE FALSE
        <5>1. q + 1 < p
          BY <1>1, <1>2, <2>4, <4>1, <4>2
        <5>2. c + 8 < w
          BY <1>1, <4>1, <4>2, <5>1
        <5> QED
          BY <1>5, <5>2
      <4> QED
        BY <4>1, <4>2
    <3> QED
      BY <1>1, <1>2, <2>3, <3>1, <3>3, <3>4 DEF b
  <2>5. CASE b >= w
    <3>1. b - w \in 0..(w - 1) /\ b = w * 1 + (b - w)
      BY <1>1, <1>2, <2>5
    <3>2. (w * 1 + (b - w)) % w = b - w
      BY ONLY <1>3, <3>1, QuotientIs
    <3>3. b % w = b - w
      BY <3>1, <3>2
    <3>4. w % 8 = 0 => (b - w) % 8 = 0
      BY <1>1, <1>2, <3>1
    <3> QED
      BY <1>1, <1>2, <2>3, <3>1, <3>3, <3>4 DEF b
  <2> QED
    BY <1>1, <1>2, <2>4, <2>5
<1> QED
  BY <1>4, <1>5

\* Cells in reading order.
LEMMA PositionIs ==
    ASSUME NEW c \in Nat, NEW r \in Nat
    PROVE  Position(<<c, r>>) = consoleWidth * r + c /\ Position(<<c, r>>) \in Nat
<1>1. r * consoleWidth = consoleWidth * r /\ consoleWidth * r \in Nat
  BY Size
<1> QED
  BY <1>1 DEF Position

\* A character that does not send the cursor back moves it forward, and all but
\* tabs and line feeds by one cell.
LEMMA MovesOn ==
    ASSUME ConsoleInv, NEW ch \in AllChars \ {"BS", "CR"}
    PROVE  /\ Position(CellAfter(ch)) \in Nat
           /\ Position(CellAfter(ch)) >= Position(<<col, row>>) + 1
<1> DEFINE w == consoleWidth
           p == w * row
<1>1. /\ w \in Nat \ {0} /\ w >= 8 /\ col \in 0..(w - 1) /\ row \in Nat /\ p \in Nat
      /\ w * (row + 1) = p + w
  BY Size DEF ConsoleInv, TypeOK, InBounds
<1>2. Position(<<col, row>>) = p + col
  BY <1>1, PositionIs
<1>3. CASE ch = "LF"
  <2>1. CellAfter(ch) = <<0, row + 1>>
    BY <1>3 DEF CellAfter
  <2>2. Position(<<0, row + 1>>) = w * (row + 1) + 0
    BY <1>1, PositionIs
  <2> QED
    BY <1>1, <1>2, <2>1, <2>2
<1>4. CASE ch \notin {"LF", "TAB"}
  <2>1. CellAfter(ch) = <<(col + 1) % w, row + (col + 1) \div w>>
    BY <1>4 DEF CellAfter
  <2>2. CASE col + 1 < w
    <3>1. col + 1 \in 0..(w - 1) /\ col + 1 = w * 0 + (col + 1) /\ 0 \in Nat
      BY <1>1, <2>2
    <3>2. (w * 0 + (col + 1)) % w = col + 1 /\ (w * 0 + (col + 1)) \div w = 0
      BY ONLY <1>1, <3>1, QuotientIs
    <3>3. CellAfter(ch) = <<col + 1, row>>
      BY <1>1, <2>1, <3>1, <3>2
    <3>4. Position(<<col + 1, row>>) = p + (col + 1)
      BY <1>1, PositionIs
    <3> QED
      BY <1>1, <1>2, <3>3, <3>4
  <2>3. CASE col + 1 = w
    <3>1. 0 \in 0..(w - 1) /\ col + 1 = w * 1 + 0 /\ 1 \in Nat
      BY <1>1, <2>3
    <3>2. (w * 1 + 0) % w = 0 /\ (w * 1 + 0) \div w = 1
      BY ONLY <1>1, <3>1, QuotientIs
    <3>3. CellAfter(ch) = <<0, row + 1>>
      BY <1>1, <2>1, <3>1, <3>2
    <3>4. Position(<<0, row + 1>>) = w * (row + 1) + 0
      BY <1>1, PositionIs
    <3> QED
      BY <1>1, <1>2, <2>3, <3>3, <3>4
  <2> QED
    BY <1>1, <2>2, <2>3
<1>5. CASE ch = "TAB"
  <2> DEFINE b == col + 8 - (col % 8)
             d == (col + 8) \div w
             t == b % w
  <2>1. CellAfter(ch) = <<t, row + d>>
    BY <1>5 DEF CellAfter, TabCell
  <2>2. d * w + t - col >= 1
    BY <1>1, TabFrom
  <2>3. d \in Nat /\ t \in Nat
    <3>1. col + 8 \in Nat /\ b \in Nat
      BY <1>1
    <3> HIDE DEF b
    <3> QED
      BY <1>1, <3>1, Quotient
  <2> HIDE DEF d, t
  <2>4. Position(<<t, row + d>>) = w * (row + d) + t
    BY <1>1, <2>3, PositionIs
  <2>5. w * (row + d) = p + d * w /\ d * w \in Nat
    BY <1>1, <2>3
  <2> QED
    BY <1>1, <1>2, <2>1, <2>2, <2>3, <2>4, <2>5
<1> QED
  BY <1>3, <1>4, <1>5

\* A tab moves the cursor forward, to the next tab stop where lines are made of
\* them, for every width of the screen.
THEOREM TabsMoveOn == Spec => []TabMovesOn
<1>1. ConsoleInv => TabMovesOn
  <2> SUFFICES ASSUME ConsoleInv PROVE TabMovesOn
    OBVIOUS
  <2> DEFINE w == consoleWidth
             b == col + 8 - (col % 8)
             d == (col + 8) \div w
             t == b % w
             p == w * row
  <2>1. w \in Nat \ {0} /\ w >= 8 /\ col \in 0..(w - 1) /\ row \in Nat /\ p \in Nat
    BY Size DEF ConsoleInv, TypeOK, InBounds
  <2>2. /\ d * w + t - col >= 1
        /\ w % 8 = 0 => d * w + t - col <= 8 /\ t % 8 = 0
    BY <2>1, TabFrom
  <2>3. CellAfter("TAB") = <<t, row + d>>
    BY DEF CellAfter, TabCell
  <2>4. d \in Nat /\ t \in Nat
    <3>1. col + 8 \in Nat /\ b \in Nat
      BY <2>1
    <3> HIDE DEF b
    <3> QED
      BY <2>1, <3>1, Quotient
  <2> HIDE DEF d, t
  <2>5. Position(<<t, row + d>>) = w * (row + d) + t /\ Position(<<col, row>>) = p + col
    BY <2>1, <2>4, PositionIs
  <2>6. w * (row + d) = p + d * w /\ d * w \in Nat
    BY <2>1, <2>4
  <2>7. Position(CellAfter("TAB")) - Position(<<col, row>>) = d * w + t - col
    BY <2>1, <2>3, <2>4, <2>5, <2>6
  <2>8. CellAfter("TAB")[1] = t
    BY <2>3
  <2> QED
    BY <2>2, <2>7, <2>8 DEF TabMovesOn
<1> QED
  BY CursorStaysOnScreen, <1>1, PTL

-----------------------------------------------------------------------------
(* Text that is on the screen *)

\* While the cursor was never sent back over text, all text is before it.
TextBehind ==
    fresh => \A c \in Cells : screen[c] = "ink" => Position(c) < Position(<<col, row>>)

LEMMA CellType ==
    ASSUME NEW c \in Cells
    PROVE  /\ c = <<c[1], c[2]>> /\ c[1] \in 0..(consoleWidth - 1) /\ c[2] \in Nat
           /\ Position(c) = consoleWidth * c[2] + c[1] /\ Position(c) \in Nat
<1>1. c = <<c[1], c[2]>> /\ c[1] \in 0..(consoleWidth - 1) /\ c[2] \in 0..(consoleHeight - 1)
  BY DEF Cells
<1>2. c[1] \in Nat /\ c[2] \in Nat
  BY <1>1, Size
<1>3. Position(<<c[1], c[2]>>) = consoleWidth * c[2] + c[1] /\ Position(<<c[1], c[2]>>) \in Nat
  BY ONLY <1>2, PositionIs
<1> QED
  BY <1>1, <1>2, <1>3

\* The cells a character leaves with ink, and those where it removes it.
LEMMA InkAfter ==
    ASSUME ConsoleInv, NEW ch, print_char(ch), NEW c \in Cells
    PROVE  /\ screen'[c] = "ink" =>
                 \/ c = <<col, row>> /\ ch = "GRAPH"
                 \/ screen[c] = "ink" /\ ~(ch = "BS" /\ col > 0 /\ c = <<col - 1, row>>)
           /\ screen[c] = "ink" /\ screen'[c] # "ink" =>
                 c = <<col, row>> \/ (ch = "BS" /\ col > 0 /\ c = <<col - 1, row>>)
<1>1. screen \in [Cells -> {"blank", "ink", "bar"}] /\ screen' = Drawn(ch)
  BY DEF ConsoleInv, TypeOK, print_char
<1>2. CASE ch = "BS" /\ col > 0
  BY <1>1, <1>2 DEF Drawn, draw_font
<1>3. CASE ch = "GRAPH"
  BY <1>1, <1>3 DEF Drawn, draw_font
<1>4. CASE ~(ch = "BS" /\ col > 0) /\ ch # "GRAPH"
  BY <1>1, <1>4 DEF Drawn, draw_font
<1> QED
  BY <1>2, <1>3, <1>4

\* No two cells have the same place in reading order.
LEMMA OneCell ==
    ASSUME ConsoleInv, col > 0, NEW c \in Cells, Position(c) = Position(<<col, row>>) - 1
    PROVE  c = <<col - 1, row>>
<1> DEFINE w == consoleWidth
<1>1. w \in Nat \ {0} /\ col \in Nat /\ col < w /\ row \in Nat
  BY Size DEF ConsoleInv, TypeOK, InBounds
<1>2. /\ c = <<c[1], c[2]>> /\ c[1] \in 0..(w - 1) /\ c[2] \in Nat
      /\ Position(c) = w * c[2] + c[1]
  BY CellType
<1>3. Position(<<col, row>>) = w * row + col
  BY <1>1, PositionIs
<1>4. col - 1 \in 0..(w - 1) /\ w * row + (col - 1) = w * c[2] + c[1]
  <2>1. w * row \in Nat
    BY <1>1
  <2> QED
    BY <1>1, <1>2, <1>3, <2>1
<1>5. /\ (w * c[2] + c[1]) \div w = c[2] /\ (w * c[2] + c[1]) % w = c[1]
      /\ (w * row + (col - 1)) \div w = row /\ (w * row + (col - 1)) % w = col - 1
  <2>1. /\ w \in Nat \ {0} /\ c[1] \in 0..(w - 1) /\ c[2] \in Nat
        /\ col - 1 \in 0..(w - 1) /\ row \in Nat
    BY <1>1, <1>2, <1>4
  <2> HIDE DEF w
  <2> QED
    BY ONLY <2>1, QuotientIs
<1> QED
  BY <1>2, <1>4, <1>5

LEMMA BehindPrint ==
    ASSUME ConsoleInv, TextBehind, NEW ch \in AllChars, print_char(ch)
    PROVE  TextBehind'
<1> SUFFICES ASSUME fresh', NEW c \in Cells, screen'[c] = "ink"
             PROVE  Position(c) < Position(<<col', row'>>)
  BY DEF TextBehind, Position
<1>1. /\ fresh /\ ch # "CR" /\ CellAfter(ch)[2] # consoleHeight
      /\ col' = CellAfter(ch)[1] /\ row' = CellAfter(ch)[2]
  BY DEF print_char, LastRow
<1>2. /\ col \in Nat /\ row \in Nat /\ Position(<<col, row>>) \in Nat
      /\ Position(c) \in Nat
  BY CellType, PositionIs DEF ConsoleInv, TypeOK
<1>3. \/ c = <<col, row>> /\ ch = "GRAPH"
      \/ /\ Position(c) < Position(<<col, row>>)
         /\ ~(ch = "BS" /\ col > 0 /\ c = <<col - 1, row>>)
  BY <1>1, InkAfter DEF TextBehind
<1>4. CASE ch = "BS"
  <2>1. CASE col = 0
    <3>1. <<col', row'>> = <<col, row>>
      BY <1>1, <1>4, <2>1 DEF CellAfter
    <3> QED
      BY <1>3, <1>4, <3>1
  <2>2. CASE col > 0
    <3>1. <<col', row'>> = <<col - 1, row>>
      BY <1>1, <1>4, <2>2 DEF CellAfter
    <3>2. Position(<<col - 1, row>>) = Position(<<col, row>>) - 1
      <4>1. col - 1 \in Nat
        BY <1>2, <2>2
      <4>2. /\ Position(<<col - 1, row>>) = consoleWidth * row + (col - 1)
            /\ Position(<<col, row>>) = consoleWidth * row + col
        BY <1>2, <4>1, PositionIs
      <4>3. consoleWidth * row \in Nat
        BY <1>2, Size
      <4> QED
        BY <1>2, <4>2, <4>3
    <3>3. Position(c) # Position(<<col, row>>) - 1
      BY <1>3, <1>4, <2>2, OneCell
    <3> QED
      BY <1>2, <1>3, <1>4, <3>1, <3>2, <3>3
  <2> QED
    BY <1>2, <2>1, <2>2
<1>5. CASE ch # "BS"
  <2>1. /\ Position(CellAfter(ch)) \in Nat
        /\ Position(CellAfter(ch)) >= Position(<<col, row>>) + 1
    BY <1>1, <1>5, MovesOn
  <2>2. Position(<<col', row'>>) = Position(CellAfter(ch))
    BY <1>1 DEF Position
  <2> QED
    BY <1>2, <1>3, <2>1, <2>2
<1> QED
  BY <1>4, <1>5

LEMMA BehindToggle ==
    ASSUME ConsoleInv, TextBehind, toggle_cursor
    PROVE  TextBehind' /\ \A c \in Cells : screen[c] = "ink" /\ fresh => screen'[c] = "ink"
<1>1. /\ UNCHANGED <<row, col, fresh>> /\ screen \in [Cells -> {"blank", "ink", "bar"}]
      /\ col \in Nat /\ row \in Nat
  BY DEF toggle_cursor, ConsoleInv, TypeOK
<1>2. \A c \in Cells : screen'[c] = "ink" => screen[c] = "ink"
  BY <1>1 DEF toggle_cursor, draw_font
<1>3. \A c \in Cells : screen[c] = "ink" => screen'[c] = "ink" \/ c = <<col, row>>
  BY <1>1 DEF toggle_cursor, draw_font
<1>4. TextBehind'
  BY <1>1, <1>2 DEF TextBehind, Position
<1>5. Position(<<col, row>>) \in Nat
  BY <1>1, PositionIs
<1> QED
  BY <1>3, <1>4, <1>5 DEF TextBehind

\* Text stays on the screen, whatever is printed and however the cursor blinks,
\* until the cursor is sent back over it.
THEOREM TextStays == Spec => TextSurvives
<1>1. Init => TextBehind
  BY DEF Init, TextBehind
<1>2. ConsoleInv /\ TextBehind /\ [Next]_vars => TextBehind'
  <2> SUFFICES ASSUME ConsoleInv, TextBehind, [Next]_vars PROVE TextBehind'
    OBVIOUS
  <2>1. CASE UNCHANGED vars
    BY <2>1 DEF vars, TextBehind, Position
  <2>2. ASSUME NEW ch \in Chars, print_char(ch) PROVE TextBehind'
    BY <2>2, ConsoleAssumption, BehindPrint
  <2> QED
    BY <2>1, <2>2, BehindToggle DEF Next
<1>3. ASSUME ConsoleInv, TextBehind, [Next]_vars
      PROVE  [fresh' => \A c \in Cells : screen[c] = "ink" /\ screen'[c] # "ink"
                => c = <<col - 1, row>> /\ <<col', row'>> = c]_vars
  <2>1. CASE toggle_cursor
    BY <1>3, <2>1, BehindToggle DEF toggle_cursor
  <2>2. ASSUME NEW ch \in Chars, print_char(ch), fresh',
               NEW c \in Cells, screen[c] = "ink", screen'[c] # "ink"
        PROVE  c = <<col - 1, row>> /\ <<col', row'>> = c
    <3>1. col \in Nat /\ row \in Nat /\ row < consoleHeight /\ fresh
      BY <1>3, <2>2 DEF ConsoleInv, TypeOK, InBounds, print_char
    <3>2. c # <<col, row>>
      <4>1. Position(<<col, row>>) \in Nat
        BY <3>1, PositionIs
      <4> QED
        BY <1>3, <2>2, <3>1, <4>1 DEF TextBehind
    <3>3. ch = "BS" /\ col > 0 /\ c = <<col - 1, row>>
      BY <1>3, <2>2, <3>2, InkAfter
    <3>4. col' = col - 1 /\ row' = row
      BY <2>2, <3>1, <3>3, Size DEF print_char, CellAfter, LastRow
    <3> QED
      BY <3>3, <3>4
  <2> QED
    BY <1>3, <2>1, <2>2 DEF Next
<1> QED
  BY <1>1, <1>2, <1>3, CursorStaysOnScreen, PTL DEF Spec, TextSurvives

=============================================================================
