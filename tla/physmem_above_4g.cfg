\* Usable RAM above the limit of 32-bit addresses.
SPECIFICATION Spec
CONSTANTS
    PageSize = 4
    WordBits = 4
    AddrLimit = 64
    USABLE_PHY_ADDR_BASE = 32
    BitmapCapacity = 4
    MaxPage = 20
    MemoryMaps <- HighMaps
INVARIANTS AboveReserved
