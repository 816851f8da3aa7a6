\* A boot that runs out of memory: page faults map frame 0.
SPECIFICATION MemSpec
CONSTANTS
    PageSize = 4
    WordBits = 4
    AddrLimit = 128
    USABLE_PHY_ADDR_BASE = 32
    BitmapCapacity = 6
    MaxPage = 22
    MemoryMaps <- LittleMemory
    VramPages = 2
    VramFrame = 22
    Slots = 3
    Funs = 3
    Machines <- MCMachines
    PciPages = 2
    EntriesPerPage = 2
    AhciPages = 2
    Ports = {28, 29, 30}
    CachedPages <- MCCachedPages
INVARIANTS DemandAboveReserved
