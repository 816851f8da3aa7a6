\* Two lines of nine columns and a rest, 24 bits per pixel, a frame buffer
\* without a byte to spare.
SPECIFICATION Spec
CONSTANTS
    X_RES = 75
    Y_RES = 32
    BYTE_PER_PIXEL = 3
    VRAM_SIZE = 7200
    Chars = {"NUL", "BS", "LF", "CR", "TAB", "GRAPH"}
INVARIANTS CursorOnScreen NoCursorTrail TabMovesOn
PROPERTIES TextSurvives
