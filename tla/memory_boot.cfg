\* A boot with enough memory, up to two AHCI controllers, debug or release.
SPECIFICATION MemSpec
CONSTANTS
    PageSize = 4
    WordBits = 4
    AddrLimit = 128
    USABLE_PHY_ADDR_BASE = 32
    BitmapCapacity = 9
    MaxPage = 34
    MemoryMaps <- EnoughMemory
    VramPages = 2
    VramFrame = 22
    Slots = 3
    Funs = 3
    Machines <- MCMachines
    PciPages = 3
    EntriesPerPage = 2
    AhciPages = 2
    Ports = {28, 29, 30}
    CachedPages <- MCCachedPages
INVARIANTS MmuInv NothingShared DemandAboveReserved OwnersAreMapped ListIsTheBus
    ControllersAreSetUp
PROPERTIES BootFinishes KernelStaysMapped
