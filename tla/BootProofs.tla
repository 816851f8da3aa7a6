----------------------------- MODULE BootProofs -----------------------------
(***************************************************************************)
(* What holds of the choice of the video mode, of the kernel's file and of *)
(* the memory map for every mode list, directory and undamaged FAT, every  *)
(* BIOS and every set of calls that fail.                                  *)
(***************************************************************************)
EXTENDS Boot, Division, SequenceTheorems, TLAPS

\* The modes of the list that have been judged.
Judged ==
    IF vpc \in {"query", "check"} THEN 1..(pos - 1) ELSE 1..Len(modeList)

\* A mode that was chosen although its call failed is still described by
\* something else, but it cannot be handed over: DescribeMode fails for it.
VideoInv ==
    /\ bios \in [Modes -> Infos]
    /\ answers \subseteq Modes
    /\ modeList \in ModeLists
    /\ pos \in 1..Len(modeList)
    /\ info \in Infos
    /\ best \in Nat
    /\ vpc \in {"query", "check", "set", "describe", "ready", "error"}
    /\ videoMode \in Modes \cup {NoMode}
    /\ videoMode \in answers =>
          Fits(bios[videoMode]) /\ best = PictureSize(bios[videoMode])
    /\ vpc = "check" /\ modeList[pos] \in answers => info = bios[modeList[pos]]
    /\ \A i \in Judged :
          modeList[i] \in answers /\ Fits(bios[modeList[i]])
             => PictureSize(bios[modeList[i]]) <= best
    /\ vpc \in {"describe", "ready"} => hwMode = videoMode /\ videoMode \in Modes
    /\ vpc = "ready" => videoMode \in answers /\ info = bios[videoMode]

\* The list has a mode, and each of its modes is one of Modes.
LEMMA ListType ==
    ASSUME NEW l \in ModeLists
    PROVE  /\ Len(l) \in Nat /\ Len(l) >= 1
           /\ \A i \in 1..Len(l) : l[i] \in Modes
<1>1. l \in Seq(Modes) /\ l # <<>>
  BY VideoAssumption
<1>2. \A i \in 1..Len(l) : l[i] \in Modes
  BY <1>1, ElementOfSeq
<1> QED
  BY <1>1, <1>2

LEMMA SizeType ==
    ASSUME NEW i \in Infos
    PROVE  PictureSize(i) \in Nat
<1>1. i.bpp \in Nat /\ i.x \in Nat /\ i.y \in Nat
  BY VideoAssumption
<1>2. i.bpp * i.x * i.y \in Nat
  BY <1>1
<1> QED
  BY <1>2 DEF PictureSize

LEMMA VideoInitial == VideoInit => VideoInv
<1> SUFFICES ASSUME VideoInit PROVE VideoInv
  OBVIOUS
<1>1. Len(modeList) \in Nat /\ Len(modeList) >= 1
  BY ListType DEF VideoInit
<1>2. pos \in 1..Len(modeList) /\ Judged = {}
  BY <1>1 DEF VideoInit, Judged
<1>3. videoMode \notin answers
  BY VideoAssumption DEF VideoInit, NoMode
<1> QED
  BY <1>2, <1>3 DEF VideoInit, VideoInv

LEMMA QueryStep ==
    ASSUME VideoInv, QueryMode
    PROVE  VideoInv'
<1>1. modeList[pos] \in Modes
  BY ListType DEF VideoInv
<1>2. info' \in Infos /\ (modeList[pos] \in answers => info' = bios[modeList[pos]])
  BY <1>1 DEF VideoInv, QueryMode, get_vesa_vbe_mode_info
<1>3. Judged' = Judged
  BY DEF QueryMode, Judged
<1> QED
  BY <1>2, <1>3 DEF VideoInv, QueryMode, Fits, PictureSize

LEMMA CheckStep ==
    ASSUME VideoInv, CheckMode
    PROVE  VideoInv'
<1>1. UNCHANGED <<bios, answers, modeList, info, hwMode>>
  BY DEF CheckMode
<1>2. /\ Len(modeList) \in Nat /\ pos \in 1..Len(modeList)
      /\ \A i \in 1..Len(modeList) : modeList[i] \in Modes
  BY ListType DEF VideoInv
<1>3. /\ pos' \in 1..Len(modeList)
      /\ vpc' \in {"query", "set"}
      /\ Judged = 1..(pos - 1) /\ Judged' = 1..pos
  BY <1>1, <1>2 DEF CheckMode, Judged
<1>4. PictureSize(info) \in Nat /\ best \in Nat
  BY SizeType DEF VideoInv
<1>5. best' \in Nat /\ best' >= best
  BY <1>4 DEF CheckMode, is_suitable_video_mode
<1>6. videoMode' \in Modes \cup {NoMode}
  BY <1>2 DEF CheckMode, VideoInv
<1>7. videoMode' \in answers =>
         Fits(bios[videoMode']) /\ best' = PictureSize(bios[videoMode'])
  <2>1. CASE is_suitable_video_mode(info)
    <3>1. videoMode' = modeList[pos] /\ best' = PictureSize(info) /\ Fits(info)
      BY <2>1 DEF CheckMode, is_suitable_video_mode
    <3>2. modeList[pos] \in answers => info = bios[modeList[pos]]
      BY DEF VideoInv, CheckMode
    <3> QED
      BY <3>1, <3>2
  <2>2. CASE ~is_suitable_video_mode(info)
    BY <2>2 DEF CheckMode, VideoInv
  <2> QED
    BY <2>1, <2>2
<1>8. ASSUME NEW i \in 1..pos, modeList[i] \in answers, Fits(bios[modeList[i]])
      PROVE  PictureSize(bios[modeList[i]]) <= best'
  <2>1. i \in 1..Len(modeList) /\ PictureSize(bios[modeList[i]]) \in Nat
    <3>1. i \in 1..Len(modeList)
      BY <1>2
    <3>2. bios[modeList[i]] \in Infos
      BY <1>2, <3>1 DEF VideoInv
    <3> QED
      BY <3>1, <3>2, SizeType
  <2>2. CASE i # pos
    <3>1. i \in Judged
      BY <1>2, <1>3, <2>2
    <3>2. PictureSize(bios[modeList[i]]) <= best
      BY <1>8, <3>1 DEF VideoInv
    <3> QED
      BY <1>4, <1>5, <2>1, <3>2
  <2>3. CASE i = pos
    <3>1. info = bios[modeList[pos]] /\ Fits(info)
      BY <1>8, <2>3 DEF VideoInv, CheckMode
    <3>2. CASE is_suitable_video_mode(info)
      BY <1>4, <2>3, <3>1, <3>2 DEF CheckMode
    <3>3. CASE ~is_suitable_video_mode(info)
      <4>1. ~(PictureSize(info) > best) /\ best' = best
        BY <3>1, <3>3 DEF is_suitable_video_mode, CheckMode
      <4> QED
        BY <1>4, <2>3, <3>1, <4>1
    <3> QED
      BY <3>2, <3>3
  <2> QED
    BY <2>2, <2>3
<1> QED
  BY <1>1, <1>3, <1>5, <1>6, <1>7, <1>8 DEF VideoInv, Fits, PictureSize

LEMMA VideoStep ==
    ASSUME VideoInv, [set_suitable_video_mode]_videoVars
    PROVE  VideoInv'
<1>1. CASE QueryMode
  BY <1>1, QueryStep
<1>2. CASE CheckMode
  BY <1>2, CheckStep
<1>3. CASE ModeError
  <2>1. Judged' = Judged
    BY <1>3 DEF ModeError, Judged
  <2> QED
    BY <1>3, <2>1 DEF ModeError, VideoInv, Fits, PictureSize
<1>4. CASE set_vesa_video_mode
  <2>1. Judged' = Judged
    BY <1>4 DEF set_vesa_video_mode, Judged
  <2>2. videoMode \in Modes
    BY <1>4 DEF set_vesa_video_mode, VideoInv
  <2> QED
    BY <1>4, <2>1, <2>2 DEF set_vesa_video_mode, VideoInv, Fits, PictureSize
<1>5. CASE DescribeMode
  <2>1. Judged' = Judged
    BY <1>5 DEF DescribeMode, Judged
  <2>2. /\ vpc' \in {"ready", "error"}
        /\ vpc' = "ready" => videoMode \in answers /\ info' = bios[videoMode]
        /\ info' \in Infos
    BY <1>5 DEF DescribeMode, get_vesa_vbe_mode_info, VideoInv
  <2> QED
    BY <1>5, <2>1, <2>2 DEF DescribeMode, VideoInv, Fits, PictureSize
<1>6. CASE UNCHANGED videoVars
  BY <1>6 DEF videoVars, VideoInv, Judged, Fits, PictureSize
<1> QED
  BY <1>1, <1>2, <1>3, <1>4, <1>5, <1>6 DEF set_suitable_video_mode

\* Every step of the loader is one of the video code or leaves it alone.
LEMMA VideoSteps ==
    [BootNext]_bootVars => [set_suitable_video_mode]_videoVars
  BY DEF BootNext, Loader, bootVars, ReadError, Ended, find_file, read_fat,
         load_cluster, SetVideo, start_probe

\* The invariant of init_display.s, whichever calls of the BIOS fail.
THEOREM VideoInvariant == BootSpec => []VideoInv
<1>1. BootInit => VideoInv
  BY VideoInitial DEF BootInit
<1>2. VideoInv /\ [BootNext]_bootVars => VideoInv'
  BY VideoSteps, VideoStep
<1> QED
  BY <1>1, <1>2, PTL DEF BootSpec

\* The description the kernel gets is that of the mode the hardware is in, and its
\* picture fits the frame buffer display_init maps.
THEOREM KernelKnowsItsPicture == BootSpec => []PictureKnown
<1>1. VideoInv => PictureKnown
  BY DEF VideoInv, PictureKnown
<1> QED
  BY <1>1, VideoInvariant, PTL

\* No suitable mode of the list that the BIOS describes is larger than the one that
\* is set, whatever stale descriptions the loader judged on the way.
THEOREM PictureIsLargest == BootSpec => []LargestPicture
<1>1. VideoInv => LargestPicture
  BY DEF VideoInv, LargestPicture, Judged
<1> QED
  BY <1>1, VideoInvariant, PTL
-----------------------------------------------------------------------------
(* The kernel's file and the memory map *)

\* The cluster is that of the first entry with the kernel's name.
FirstEntry(c) ==
    \E i \in 1..Len(directory) :
        /\ directory[i] = c
        /\ \A j \in 1..(i - 1) : directory[j] = NoFile

\* How far the loader has come with the file: the entries it has passed over, the
\* chain it has followed and the cluster it goes on with.
FileInv ==
    /\ directory \in Directories
    /\ fat \in [Clusters -> Clusters \cup {EndOfChain}]
    /\ sector \in Nat
    /\ loaded \in Seq(Clusters)
    /\ bpc = "find" =>
          /\ loaded = <<>>
          /\ \A i \in 1..Len(directory) :
                (i - 1) \div EntriesPerSector < sector => directory[i] = NoFile
    /\ bpc \in {"fat", "data"} =>
          /\ cluster \in Clusters
          /\ IF loaded = <<>> THEN FirstEntry(cluster)
             ELSE fat[loaded[Len(loaded)]] = cluster
    /\ bpc = "data" => sector = cluster \div FatPerSector
    /\ loaded # <<>> => FirstEntry(loaded[1])
    /\ \A n \in 1..(Len(loaded) - 1) : loaded[n + 1] = fat[loaded[n]]
    /\ bpc \in {"video", "probe", "protected"} =>
          loaded # <<>> /\ fat[loaded[Len(loaded)]] = EndOfChain

\* The entries that int 15h has returned, and whether they are all there are.
MapInv ==
    /\ mapSize \in Nat
    /\ \E k \in 0..mapSize :
          /\ memMap = [n \in 1..k |-> n]
          /\ bpc = "protected" => k = mapSize

\* The entries of the directory.
LEMMA EntryType ==
    ASSUME FileInv
    PROVE  /\ Len(directory) \in Nat
           /\ \A i \in 1..Len(directory) : directory[i] \in Clusters \cup {NoFile}
<1>1. directory \in Seq(Clusters \cup {NoFile})
  BY BootAssumption DEF FileInv
<1> QED
  BY <1>1, ElementOfSeq

LEMMA FileInitial == BootInit => FileInv /\ MapInv
<1> SUFFICES ASSUME BootInit PROVE FileInv /\ MapInv
  OBVIOUS
<1>1. fat \in [Clusters -> Clusters \cup {EndOfChain}]
  BY DEF BootInit, Chains
<1>2. loaded = <<>> /\ sector = 0 /\ bpc = "find" /\ directory \in Directories
  BY DEF BootInit
<1>3. ASSUME NEW i \in 1..Len(directory) PROVE ~((i - 1) \div EntriesPerSector < 0)
  <2>1. i - 1 \in Nat
    OBVIOUS
  <2>2. (i - 1) \div EntriesPerSector \in Nat
    BY <2>1, BootAssumption, Quotient
  <2> QED
    BY <2>2
<1>4. FileInv
  BY <1>1, <1>2, <1>3 DEF FileInv
<1>5. memMap = [n \in 1..0 |-> n] /\ mapSize \in Nat /\ 0 \in 0..mapSize
  BY BootAssumption DEF BootInit
<1>6. MapInv
  BY <1>2, <1>5 DEF MapInv
<1> QED
  BY <1>4, <1>6

\* A sector is passed over when it does not have the name; the entry that is taken
\* is the first one of the whole directory.
LEMMA FindStep ==
    ASSUME FileInv, find_file
    PROVE  FileInv'
<1>1. /\ bpc = "find" /\ loaded = <<>> /\ sector \in Nat
      /\ UNCHANGED <<directory, fat, loaded>>
      /\ \A i \in 1..Len(directory) :
            (i - 1) \div EntriesPerSector < sector => directory[i] = NoFile
  BY DEF find_file, FileInv
<1>2. /\ Len(directory) \in Nat
      /\ \A i \in 1..Len(directory) : directory[i] \in Clusters \cup {NoFile}
      /\ EntriesPerSector \in Nat \ {0}
  BY EntryType, BootAssumption
<1>3. ASSUME NEW i \in 1..Len(directory), Take(i) PROVE FileInv'
  <2>1. /\ (i - 1) \div EntriesPerSector = sector /\ directory[i] # NoFile
        /\ \A j \in KernelIn(sector) : i <= j
        /\ cluster' = directory[i] /\ bpc' = "fat" /\ sector' = sector
    BY <1>3 DEF Take, KernelIn, SectorOf
  <2>2. ASSUME NEW j \in 1..(i - 1) PROVE directory[j] = NoFile
    <3>1. j - 1 \in Nat /\ i - 1 \in Nat /\ j - 1 <= i - 1 /\ j \in 1..Len(directory) /\ ~(i <= j)
      BY <1>2
    <3>2. (j - 1) \div EntriesPerSector \in Nat
      BY <1>2, <3>1, Quotient
    <3>3. (j - 1) \div EntriesPerSector <= (i - 1) \div EntriesPerSector
      BY <1>2, <3>1, QuotientOrder
    <3>4. CASE (j - 1) \div EntriesPerSector = sector
      <4>1. j \notin KernelIn(sector)
        BY <2>1, <3>1
      <4> QED
        BY <3>1, <3>4, <4>1 DEF KernelIn, SectorOf
    <3>5. CASE (j - 1) \div EntriesPerSector # sector
      BY <1>1, <2>1, <3>1, <3>2, <3>3, <3>5
    <3> QED
      BY <3>4, <3>5
  <2>3. cluster' \in Clusters
    BY <1>2, <2>1
  <2>4. FirstEntry(cluster)'
    BY <1>1, <2>1, <2>2 DEF FirstEntry
  <2> QED
    BY <1>1, <2>1, <2>3, <2>4 DEF FileInv
<1>4. ASSUME KernelIn(sector) = {}, bpc' \in {"find", "fin"}, sector' \in {sector, sector + 1}
      PROVE  FileInv'
  <2>1. ASSUME NEW i \in 1..Len(directory), (i - 1) \div EntriesPerSector < sector + 1
        PROVE  directory[i] = NoFile
    <3>1. i - 1 \in Nat
      BY <1>2
    <3>2. (i - 1) \div EntriesPerSector \in Nat
      BY <1>2, <3>1, Quotient
    <3>3. CASE (i - 1) \div EntriesPerSector = sector
      BY <1>4, <3>3 DEF KernelIn, SectorOf
    <3>4. CASE (i - 1) \div EntriesPerSector # sector
      <4>1. (i - 1) \div EntriesPerSector < sector
        BY <1>1, <2>1, <3>2, <3>4
      <4> QED
        BY <1>1, <4>1
    <3> QED
      BY <3>3, <3>4
  <2>2. \A i \in 1..Len(directory) :
           (i - 1) \div EntriesPerSector < sector' => directory[i] = NoFile
    BY <1>1, <1>4, <2>1
  <2>3. sector' \in Nat
    BY <1>1, <1>4
  <2> QED
    BY <1>1, <1>4, <2>2, <2>3 DEF FileInv
<1>5. \/ \E i \in 1..Len(directory) : Take(i)
      \/ KernelIn(sector) = {} /\ bpc' \in {"find", "fin"} /\ sector' \in {sector, sector + 1}
  BY DEF find_file
<1> QED
  BY <1>3, <1>4, <1>5

\* The FAT sector in the buffer is the one that has the cluster's entry.
LEMMA FollowsTheFat ==
    ASSUME FileInv, bpc = "data"
    PROVE  NextCluster = fat[cluster]
<1>1. cluster \in Nat /\ sector = cluster \div FatPerSector /\ FatPerSector \in Nat \ {0}
  BY BootAssumption DEF FileInv
<1>2. (sector * FatPerSector) + (cluster % FatPerSector) = cluster
  BY <1>1, Quotient
<1> QED
  BY <1>2 DEF NextCluster

LEMMA LoadStep ==
    ASSUME FileInv, load_cluster
    PROVE  FileInv'
<1>1. /\ bpc = "data" /\ loaded' = Append(loaded, cluster)
      /\ UNCHANGED <<directory, fat, sector>>
      /\ IF fat[cluster] = EndOfChain THEN bpc' = "video" /\ cluster' = cluster
         ELSE bpc' = "fat" /\ cluster' = fat[cluster]
  BY FollowsTheFat DEF load_cluster
<1>2. /\ loaded \in Seq(Clusters) /\ cluster \in Clusters
      /\ fat[cluster] \in Clusters \cup {EndOfChain}
      /\ fat \in [Clusters -> Clusters \cup {EndOfChain}]
  BY <1>1 DEF FileInv
<1>3. PICK m \in Nat : m = Len(loaded)
  BY <1>2
<1>4. PICK k \in Nat : k = m + 1
  OBVIOUS
<1>5. /\ loaded' \in Seq(Clusters) /\ Len(loaded') = k /\ loaded'[k] = cluster
      /\ \A i \in 1..m : loaded'[i] = loaded[i]
  BY <1>1, <1>2, <1>3, <1>4
<1>6. loaded' # <<>>
  BY <1>4, <1>5
<1>7. ASSUME NEW n \in 1..(k - 1) PROVE loaded'[n + 1] = fat[loaded'[n]]
  <2>1. CASE n = m
    <3>1. loaded # <<>> /\ fat[loaded[m]] = cluster
      BY <1>1, <1>3, <1>4, <2>1 DEF FileInv
    <3> QED
      BY <1>4, <1>5, <2>1, <3>1
  <2>2. CASE n # m
    <3>1. n \in 1..(m - 1) /\ n \in 1..m /\ n + 1 \in 1..m
      BY <1>4, <2>2
    <3>2. loaded[n + 1] = fat[loaded[n]]
      BY <1>3, <3>1 DEF FileInv
    <3> QED
      BY <1>5, <3>1, <3>2
  <2> QED
    BY <2>1, <2>2
<1>8. FirstEntry(loaded'[1])
  <2>1. CASE m = 0
    <3>1. loaded = <<>>
      <4>1. loaded \in Seq(Clusters) /\ Len(loaded) = 0
        BY <1>2, <1>3, <2>1
      <4> QED
        BY ONLY <4>1, EmptySeq
    <3>2. k = 1 /\ loaded'[1] = cluster
      BY <1>4, <1>5, <2>1
    <3> QED
      BY <1>1, <3>1, <3>2 DEF FileInv
  <2>2. CASE m # 0
    <3>1. loaded # <<>> /\ 1 \in 1..m
      BY <1>3, <2>2
    <3> QED
      BY <1>5, <3>1 DEF FileInv
  <2> QED
    BY <2>1, <2>2
<1>9. FirstEntry(loaded[1])'
  BY <1>1, <1>8 DEF FirstEntry
<1>10. fat'[loaded'[Len(loaded')]] = fat[cluster]
  BY <1>1, <1>5
<1>11. /\ bpc' \in {"fat", "data"} => cluster' \in Clusters /\ fat[cluster] = cluster'
       /\ bpc' \in {"video", "probe", "protected"} => fat[cluster] = EndOfChain
       /\ bpc' \in {"fat", "video"}
  BY <1>1, <1>2
<1>12. \A n \in 1..(Len(loaded') - 1) : loaded'[n + 1] = fat'[loaded'[n]]
  BY <1>1, <1>5, <1>7
<1> QED
  BY <1>1, <1>2, <1>5, <1>6, <1>9, <1>10, <1>11, <1>12 DEF FileInv

LEMMA FileStep ==
    ASSUME FileInv, [BootNext]_bootVars
    PROVE  FileInv'
<1>1. CASE find_file
  BY <1>1, FindStep
<1>2. CASE load_cluster
  BY <1>2, LoadStep
<1>3. CASE read_fat
  <2>1. /\ bpc = "fat" /\ sector' = cluster \div FatPerSector /\ bpc' = "data"
        /\ UNCHANGED <<directory, fat, cluster, loaded>>
    BY <1>3 DEF read_fat
  <2>2. cluster \in Nat /\ FatPerSector \in Nat \ {0}
    BY <2>1, BootAssumption DEF FileInv
  <2>3. sector' \in Nat
    BY <2>1, <2>2, Quotient
  <2> QED
    BY <2>1, <2>3 DEF FileInv, FirstEntry
<1>4. CASE ReadError \/ SetVideo \/ start_probe \/ Ended \/ UNCHANGED bootVars
  <2>1. UNCHANGED <<directory, fat, sector, cluster, loaded>>
    BY <1>4 DEF ReadError, SetVideo, start_probe, Ended, bootVars, loaderVars
  <2>2. \/ bpc' = bpc \/ bpc' = "fin"
        \/ bpc \in {"video", "probe", "protected"} /\ bpc' \in {"video", "probe", "protected"}
    BY <1>4 DEF ReadError, SetVideo, start_probe, Ended, bootVars
  <2> QED
    BY <2>1, <2>2 DEF FileInv, FirstEntry
<1> QED
  BY <1>1, <1>2, <1>3, <1>4 DEF BootNext, Loader

LEMMA MapStep ==
    ASSUME MapInv, [BootNext]_bootVars
    PROVE  MapInv'
<1>1. CASE start_probe
  <2>1. PICK k \in 0..mapSize : memMap = [n \in 1..k |-> n] /\ mapSize \in Nat
    BY DEF MapInv
  <2>2. mapSize' = mapSize /\ Len(memMap) = k /\ memMap \in Seq(Nat)
    BY <1>1, <2>1 DEF start_probe
  <2>3. CASE k = mapSize /\ memMap' = memMap
    BY <2>1, <2>2, <2>3 DEF MapInv
  <2>4. CASE k < mapSize /\ memMap' = Append(memMap, k + 1)
    <3>1. k + 1 \in 0..mapSize
      BY <2>1, <2>4
    <3>2. memMap' = [n \in 1..(k + 1) |-> n]
      BY <2>1, <2>2, <2>4
    <3>3. bpc' = "protected" => k + 1 = mapSize
      BY <1>1, <2>1, <2>2, <2>4, <3>2 DEF start_probe
    <3> QED
      BY <2>1, <2>2, <3>1, <3>2, <3>3 DEF MapInv
  <2> QED
    BY <1>1, <2>1, <2>2, <2>3, <2>4 DEF start_probe
<1>2. CASE ~start_probe
  <2>1. UNCHANGED <<mapSize, memMap>> /\ (bpc' = "protected" => bpc = "protected")
    BY <1>2 DEF BootNext, Loader, find_file, Take, read_fat, load_cluster, SetVideo, ReadError,
                Ended, bootVars, probeVars
  <2> QED
    BY <2>1 DEF MapInv
<1> QED
  BY <1>1, <1>2

\* When the kernel is entered it is in memory as it is in the file, whatever the
\* directory holds before its name and however its chain goes over the FAT.
THEOREM KernelIsLoaded == BootSpec => []KernelComplete
<1>1. FileInv => KernelComplete
  BY DEF FileInv, FirstEntry, KernelComplete
<1> QED
  BY <1>1, FileInitial, FileStep, PTL DEF BootSpec

\* The kernel gets the whole memory map, whichever way the BIOS ends it.
THEOREM MapIsWhole == BootSpec => []MapComplete
<1>1. MapInv => MapComplete
  BY DEF MapInv, MapComplete
<1> QED
  BY <1>1, FileInitial, MapStep, PTL DEF BootSpec

=============================================================================
