\* Three other devices: a masked line, line 7 and one behind the second chip.
SPECIFICATION Spec
CONSTANTS
    Devices = {3, 7, 12}
    MaxWaiting = 2
    MaxRaces = 2
INVARIANTS StackInv EveryVectorHasAGate InServiceIsHandled
PROPERTIES TicksAreHandled KeysAreHandled
