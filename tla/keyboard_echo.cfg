\* A ring that does not fill, one Shift key: the echo against its reference.
SPECIFICATION Spec
CONSTANTS
    bufferSize = 6
    MaxStored = 5
    Codes <- EchoCodes
INVARIANTS EchoIsFaithful ShiftPressing
