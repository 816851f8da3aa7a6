\* Two modes, three clusters in two FAT sectors, up to two memory-map entries;
\* the longest chain has three clusters, four go round a cycle.
SPECIFICATION BootSpec
CONSTANTS
    Modes = {1, 2}
    Infos <- MCInfos
    ModeLists <- MCModeLists
    MAX_VRAM = 128
    Clusters = {2, 3, 4}
    EntriesPerSector = 2
    FatPerSector = 2
    Directories <- MCDirectories
    MapSizes = {0, 2}
    MaxLoaded = 4
INVARIANTS PictureKnown LargestPicture KernelComplete MapComplete
PROPERTIES LoaderEnds
