-------------------------------- MODULE Boot --------------------------------
(***************************************************************************)
(* The second stage of the boot loader (init.s): it looks kernel.sys up in *)
(* the root directory of a FAT16 file system, loads it cluster by cluster, *)
(* has a video mode set (VideoMode), collects the memory map of int 15h    *)
(* and enters protected mode.  Directory and FAT sectors share one buffer. *)
(***************************************************************************)
EXTENDS VideoMode

CONSTANTS
    Clusters,          \* numbers of the data clusters
    EntriesPerSector,  \* directory entries in a sector
    FatPerSector,      \* FAT entries in a sector
    Directories,       \* root directories: sequences of first clusters, each the
                       \* kernel's (a member of Clusters) or NoFile
    MapSizes,          \* how many memory-map entries the BIOS may have
    MaxLoaded          \* bound: how many clusters are loaded in a behaviour

NoFile == 0
EndOfChain == -1       \* 0xfff8 and above

ASSUME BootAssumption ==
    /\ Clusters \subseteq Nat \ {0}
    /\ EntriesPerSector \in Nat \ {0}
    /\ FatPerSector \in Nat \ {0}
    /\ \A d \in Directories : d \in Seq(Clusters \cup {NoFile})
    /\ \A d \in Directories : Len(d) >= 1 /\ Len(d) % EntriesPerSector = 0
    /\ MapSizes \subseteq Nat
    /\ MaxLoaded \in Nat

VARIABLES
    directory, fat,   \* the file system
    bpc,              \* where the loader is
    sector,           \* the directory sector in the buffer, or the FAT sector
    cluster,          \* the cluster under way
    loaded,           \* the clusters copied to 0x20000, in order
    mapSize,          \* entries the BIOS has
    memMap            \* entries stored at 0xe000, by number

loaderVars == <<directory, fat, sector, cluster, loaded>>
probeVars  == <<mapSize, memMap>>
bootVars   == <<videoVars, loaderVars, probeVars, bpc>>

\* Any FAT at all: chains go over the disk in whatever order, share their ends or
\* run into themselves, which the loader does not check.
Chains == [Clusters -> Clusters \cup {EndOfChain}]

BootInit ==
    /\ VideoInit
    /\ directory \in Directories
    /\ fat \in Chains
    /\ bpc = "find"
    /\ sector = 0
    /\ cluster = NoFile
    /\ loaded = <<>>
    /\ mapSize \in MapSizes
    /\ memMap = <<>>

-----------------------------------------------------------------------------
(* find_file and load_file; every read_sector may fail, which ends the boot *)

ReadError ==
    /\ bpc \in {"find", "fat", "data"}
    /\ bpc' = "fin"
    /\ UNCHANGED <<videoVars, loaderVars, probeVars>>

\* The entries of a directory sector, in order.
SectorOf(s) == {i \in 1..Len(directory) : (i - 1) \div EntriesPerSector = s}
KernelIn(s) == {i \in SectorOf(s) : directory[i] # NoFile}

Take(i) ==
    /\ i \in KernelIn(sector)
    /\ \A j \in KernelIn(sector) : i <= j
    /\ cluster' = directory[i]
    /\ bpc' = "fat"
    /\ UNCHANGED sector

\* Mutant: the next sector of the directory is not asked for.
find_file_stuck ==
    /\ bpc = "find"
    /\ \E i \in 1..Len(directory) : Take(i)
    /\ UNCHANGED <<videoVars, probeVars, directory, fat, loaded>>

\* One sector of the root directory at a time, to the first entry with the
\* kernel's name; load_file takes the first cluster from that entry before the
\* buffer is used again.
find_file ==
    /\ bpc = "find"
    /\ \/ \E i \in 1..Len(directory) : Take(i)
       \/ /\ KernelIn(sector) = {}
          /\ IF (sector + 1) * EntriesPerSector < Len(directory)
             THEN sector' = sector + 1 /\ UNCHANGED bpc
             ELSE bpc' = "fin" /\ UNCHANGED sector
          /\ UNCHANGED cluster
    /\ UNCHANGED <<videoVars, probeVars, directory, fat, loaded>>

\* Mutant: a FAT sector is read again only when the chain goes back on the disk.
read_fat_back ==
    /\ bpc = "fat"
    /\ sector' = IF loaded = <<>> \/ cluster \div FatPerSector < sector
                 THEN cluster \div FatPerSector ELSE sector
    /\ bpc' = "data"
    /\ UNCHANGED <<videoVars, probeVars, directory, fat, cluster, loaded>>

\* The FAT sector with the entry of the cluster is read ...
read_fat ==
    /\ bpc = "fat"
    /\ sector' = cluster \div FatPerSector
    /\ bpc' = "data"
    /\ UNCHANGED <<videoVars, probeVars, directory, fat, cluster, loaded>>

\* ... and, with the data in memory, indexed with the entry's place in the sector.
NextCluster == fat[(sector * FatPerSector) + (cluster % FatPerSector)]

load_cluster ==
    /\ bpc = "data"
    /\ Len(loaded) < MaxLoaded
    /\ loaded' = Append(loaded, cluster)
    /\ IF NextCluster = EndOfChain
       THEN bpc' = "video" /\ UNCHANGED cluster
       ELSE bpc' = "fat" /\ cluster' = NextCluster
    /\ UNCHANGED <<videoVars, probeVars, directory, fat, sector>>

-----------------------------------------------------------------------------
(* The video mode and the memory map *)

SetVideo ==
    /\ bpc = "video"
    /\ set_suitable_video_mode
    /\ bpc' = IF vpc' = "ready" THEN "probe" ELSE IF vpc' = "error" THEN "fin" ELSE "video"
    /\ UNCHANGED <<loaderVars, probeVars>>

\* Mutant: the entry that comes with the end of the list is not counted.
start_probe_uncounted ==
    /\ bpc = "probe"
    /\ IF Len(memMap) + 1 >= mapSize
       THEN bpc' = "protected" /\ UNCHANGED memMap
       ELSE memMap' = Append(memMap, Len(memMap) + 1) /\ UNCHANGED bpc
    /\ UNCHANGED <<videoVars, loaderVars, mapSize>>

\* Each call of int 15h returns an entry.  The BIOS ends the list with a zero in
\* ebx, together with the last entry, or with the carry flag on the call after it.
start_probe ==
    /\ bpc = "probe"
    /\ \/ /\ Len(memMap) = mapSize
          /\ bpc' = "protected"
          /\ UNCHANGED memMap
       \/ /\ Len(memMap) < mapSize
          /\ memMap' = Append(memMap, Len(memMap) + 1)
          /\ \/ UNCHANGED bpc
             \/ Len(memMap') = mapSize /\ bpc' = "protected"
    /\ UNCHANGED <<videoVars, loaderVars, mapSize>>

\* protect_mode_start and the kernel, or the loop at fin.
Ended ==
    /\ bpc \in {"protected", "fin"}
    /\ UNCHANGED bootVars

Loader == find_file \/ read_fat \/ load_cluster \/ SetVideo \/ start_probe

BootNext == Loader \/ ReadError \/ Ended

\* The processor executes the loader.
BootSpec == BootInit /\ [][BootNext]_bootVars /\ WF_bootVars(Loader)

-----------------------------------------------------------------------------
(* Properties *)

\* The kernel is in memory as it is in the file: the first cluster is that of
\* the first entry with its name, each following one is its successor in the
\* FAT, and the last one ends the chain.
KernelComplete ==
    bpc \in {"video", "probe", "protected"} =>
        /\ \E i \in 1..Len(directory) :
              /\ directory[i] = loaded[1]
              /\ \A j \in 1..(i - 1) : directory[j] = NoFile
        /\ \A n \in 1..(Len(loaded) - 1) : loaded[n + 1] = fat[loaded[n]]
        /\ fat[loaded[Len(loaded)]] = EndOfChain

\* The chain from cluster c on never comes to its end.
Endless(c) == \E S \in SUBSET Clusters : c \in S /\ \A d \in S : fat[d] \in S

\* Whatever the directory, the modes and the memory map hold, the loader enters
\* protected mode or stops with a message: none of its loops (sectors of the
\* directory, clusters of a chain, modes of the list, calls of int 15h) goes on for
\* ever, but for one case: a chain that runs into itself, which it follows until
\* the copies have left the memory they may go to.
LoaderEnds ==
    <>(\/ bpc \in {"protected", "fin"}
       \/ bpc = "data" /\ Endless(cluster))

\* The kernel gets every entry of the memory map once, in the order of the
\* BIOS, whichever of the two ways the BIOS ends the list.
MapComplete ==
    bpc = "protected" => memMap = [n \in 1..mapSize |-> n]

=============================================================================
