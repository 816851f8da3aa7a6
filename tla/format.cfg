\* Every call of up to two items; int has 8 bits, long long 16.
SPECIFICATION Spec
CONSTANTS
    IntDigits = 2
    LongDigits = 4
    FloatDigits = 2
    Chars <- MCChars
    Items <- MCItems
    MaxItems = 2
INVARIANTS FormatInv PrintsReference SprintfAgrees
CHECK_DEADLOCK FALSE
