\* Both Shift keys, in a ring that does not fill.
SPECIFICATION Spec
CONSTANTS
    bufferSize = 7
    MaxStored = 6
    Codes <- TwoShiftCodes
INVARIANTS ShiftPressing
