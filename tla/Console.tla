------------------------------ MODULE Console -------------------------------
(***************************************************************************)
(* The text console of ListaOS: print_char and toggle_cursor over a        *)
(* linear frame buffer.  Both run in the main context only (the interrupt  *)
(* handlers never print), so each call is one step.                        *)
(*                                                                         *)
(* The screen is kept by character cells.  What a cell shows is abstracted *)
(* to what the properties tell apart: nothing, ink in the text colour, or  *)
(* the grey cursor bar.                                                    *)
(***************************************************************************)
EXTENDS Integers

CONSTANTS
    X_RES, Y_RES,    \* resolution of the mode the boot loader selected
    BYTE_PER_PIXEL,  \* its bitsPerPixel / 8
    VRAM_SIZE,       \* bytes of the frame buffer display_init maps
    Chars            \* the characters printed in this instance

AllChars == {"NUL", "BS", "LF", "CR", "TAB", "SPACE", "GRAPH"}

consoleWidth  == X_RES \div 8
consoleHeight == Y_RES \div 16

\* What the selection of the video mode establishes (VideoMode): at least 24
\* bits per pixel, and a picture that fits the mapped frame buffer.  No VBE
\* mode is narrower than a tab stop.
ASSUME ConsoleAssumption ==
    /\ X_RES \in Nat /\ X_RES >= 64
    /\ Y_RES \in Nat /\ Y_RES >= 16
    /\ BYTE_PER_PIXEL \in Nat /\ BYTE_PER_PIXEL >= 3
    /\ VRAM_SIZE \in Nat
    /\ X_RES * Y_RES * BYTE_PER_PIXEL <= VRAM_SIZE
    /\ Chars \subseteq AllChars

VARIABLES
    row, col,      \* the cell the next character goes to
    cursorState,   \* whether the last toggle drew the bar
    screen,        \* what each cell shows
    fresh          \* history: the cursor was never sent back over text

vars == <<row, col, cursorState, screen, fresh>>

Cells == (0..(consoleWidth - 1)) \X (0..(consoleHeight - 1))

TypeOK ==
    /\ row \in Nat
    /\ col \in Nat
    /\ cursorState \in {0, 1}
    /\ screen \in [Cells -> {"blank", "ink", "bar"}]
    /\ fresh \in BOOLEAN

\* display_init has cleared the picture (screen_clear leaves row and col).
Init ==
    /\ row = 0
    /\ col = 0
    /\ cursorState = 0
    /\ screen = [c \in Cells |-> "blank"]
    /\ fresh = TRUE

-----------------------------------------------------------------------------
\* _draw_font: the sixteen by eight pixels of one cell.
draw_font(scr, glyph, c, r) == [scr EXCEPT ![<<c, r>>] = glyph]

\* Mutant: the line is counted from the next tab stop, the column from here.
TabCellMixed == <<(col + 8) % consoleWidth, row + (col + 8 - (col % 8)) \div consoleWidth>>

\* A tab goes to the next tab stop, but to the next line as soon as eight more
\* columns do not fit.
TabCell == <<(col + 8 - (col % 8)) % consoleWidth, row + (col + 8) \div consoleWidth>>

\* Where print_char puts the cursor, as <<col, row>>, before the last line is
\* looked at.
CellAfter(ch) ==
    IF ch = "BS" THEN <<IF col > 0 THEN col - 1 ELSE 0, row>>
    ELSE IF ch = "LF" THEN <<0, row + 1>>
    ELSE IF ch = "CR" THEN <<0, row>>
    ELSE IF ch = "TAB" THEN TabCell
    ELSE <<(col + 1) % consoleWidth, row + (col + 1) \div consoleWidth>>

\* Mutant: the last line is one too far.
LastRowLate(r) == IF r > consoleHeight THEN r - 1 ELSE r

\* if (row == consoleHeight) row--: the last line is written over, the screen
\* does not scroll.
LastRow(r) == IF r = consoleHeight THEN r - 1 ELSE r

\* Mutant: the cell under the cursor is not erased first.
DrawnOver(ch) ==
    IF ch = "BS" /\ col > 0 THEN draw_font(screen, "blank", col - 1, row)
    ELSE IF ch = "GRAPH" THEN draw_font(screen, "ink", col, row)
    ELSE screen

\* Mutant: the cell to the left is erased for every character.
DrawnErasingLeft(ch) ==
    LET erased == draw_font(screen, "blank", IF col > 0 THEN col - 1 ELSE col, row)
    IN  IF ch = "GRAPH" THEN draw_font(erased, "ink", col, row) ELSE erased

\* What print_char draws: it first erases the cell under the cursor, then a
\* backspace erases the cell it moves to and a character is drawn in place.
Drawn(ch) ==
    LET erased == draw_font(screen, "blank", col, row)
    IN  IF ch = "BS" /\ col > 0 THEN draw_font(erased, "blank", col - 1, row)
        ELSE IF ch = "GRAPH" THEN draw_font(erased, "ink", col, row)
        ELSE erased

print_char(ch) ==
    /\ ch # "NUL"
    /\ col' = CellAfter(ch)[1]
    /\ row' = LastRow(CellAfter(ch)[2])
    /\ screen' = Drawn(ch)
    /\ fresh' = (fresh /\ ch # "CR" /\ CellAfter(ch)[2] # consoleHeight)
    /\ UNCHANGED cursorState

toggle_cursor ==
    /\ screen' = draw_font(screen, IF cursorState = 1 THEN "blank" ELSE "bar", col, row)
    /\ cursorState' = 1 - cursorState
    /\ UNCHANGED <<row, col, fresh>>

Next ==
    \/ \E ch \in Chars : print_char(ch)
    \/ toggle_cursor

Spec == Init /\ [][Next]_vars

-----------------------------------------------------------------------------
(* Properties *)

\* The cursor stays on the screen: the test row == consoleHeight is enough,
\* because no character moves the cursor down by two lines.
InBounds == row < consoleHeight /\ col < consoleWidth

\* draw_pixel stays inside the mapped frame buffer at every corner of the cell
\* under the cursor, the only cell (with its left neighbour) that is drawn.
PixelOffset(x, y) == (X_RES * y + x) * BYTE_PER_PIXEL

PixelsInVram ==
    \A j \in {0, 7}, i \in {0, 15} :
        PixelOffset(8 * col + j, 16 * row + i) + 2 < VRAM_SIZE

\* Whatever is printed, the cursor and what is drawn at it stay on the screen.
CursorOnScreen == TypeOK /\ InBounds /\ PixelsInVram

\* Printing and blinking share no flag beyond cursorState, yet the bar is never
\* left behind: a cell shows it only under the cursor, after a toggle that drew.
NoCursorTrail ==
    \A c \in Cells : screen[c] = "bar" => c = <<col, row>> /\ cursorState = 1

\* As long as the cursor was not sent back over text, the cells from the cursor
\* on are free of it: neither the blinking bar nor the erasing in print_char
\* removes any, and a backspace removes the cell to the left of the cursor only.
TextSurvives ==
    [][fresh' =>
         \A c \in Cells : screen[c] = "ink" /\ screen'[c] # "ink"
            => c = <<col - 1, row>> /\ <<col', row'>> = c]_vars

\* The place of a cell in reading order.
Position(c) == c[2] * consoleWidth + c[1]

\* A tab moves the cursor forward, and where the line is a whole number of tab
\* stops it moves to the next one.
TabMovesOn ==
    row < consoleHeight - 1 =>
        LET moved == Position(CellAfter("TAB")) - Position(<<col, row>>)
        IN  /\ moved >= 1
            /\ consoleWidth % 8 = 0 => moved <= 8 /\ CellAfter("TAB")[1] % 8 = 0

=============================================================================
