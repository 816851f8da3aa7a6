\* An entry beyond the memory the bitmap can describe.
SPECIFICATION Spec
CONSTANTS
    PageSize = 4
    WordBits = 4
    AddrLimit = 64
    USABLE_PHY_ADDR_BASE = 32
    BitmapCapacity = 4
    MaxPage = 32
    MemoryMaps <- FarMaps
INVARIANTS BitmapFits
