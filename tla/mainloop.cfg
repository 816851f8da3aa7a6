\* A ring of two slots that wraps, fills and is interrupted in every step.
\* Periods 2 and 4 for 5 and 50; count wraps at 9, which neither divides.
SPECIFICATION LoopSpec
CONSTANTS
    bufferSize = 2
    MaxStored = 5
    Codes <- LoopCodes
    ClearPeriod = 2
    BlinkPeriod = 4
    CountMod = 9
    MaxKeys = 5
    MaxRaces = 2
INVARIANTS KeyboardInv RingInv
PROPERTIES LagGrowsOnlyInDecrement InOrder KeysAreEchoed CursorBlinks
