----------------------------- MODULE VideoMode ------------------------------
(***************************************************************************)
(* The choice of the video mode (init_display.s): the loader asks the VESA *)
(* BIOS about every mode of its list, keeps the suitable one with the      *)
(* largest picture, sets it and leaves its description for the kernel.     *)
(*                                                                         *)
(* All descriptions go through one buffer.  A call that fails leaves what  *)
(* was there, at first whatever the memory held, and the loader does not   *)
(* look at the result of the calls it makes while it goes over the list.   *)
(***************************************************************************)
EXTENDS Integers, Sequences

CONSTANTS
    Modes,       \* mode numbers
    Infos,       \* descriptions: [attributes, direct, bpp, x, y]
    ModeLists,   \* the lists the BIOS may return, without the 0xffff at the end
    MAX_VRAM     \* 8 MB

NoMode == -1     \* 0xffff

ASSUME VideoAssumption ==
    /\ Modes \subseteq Nat
    /\ Infos \subseteq [attributes : BOOLEAN, direct : BOOLEAN, bpp : Nat, x : Nat, y : Nat]
    /\ ModeLists \subseteq Seq(Modes) \ {<<>>}
    /\ MAX_VRAM \in Nat

VARIABLES
    bios,        \* the description of each mode
    answers,     \* the modes whose description the BIOS gives
    modeList,
    pos,         \* the mode of the list under way
    info,        \* the buffer at 0x7e00
    videoMode,   \* the choice so far
    best,        \* SuitableModeVRAM, the bytes of its picture
    hwMode,      \* the mode the hardware is in
    vpc

videoVars == <<bios, answers, modeList, pos, info, videoMode, best, hwMode, vpc>>

VideoInit ==
    /\ bios \in [Modes -> Infos]
    /\ answers \in SUBSET Modes
    /\ modeList \in ModeLists
    /\ pos = 1
    /\ info \in Infos
    /\ videoMode = NoMode
    /\ best = 0
    /\ hwMode = NoMode
    /\ vpc = "query"

PictureSize(i) == (i.bpp * i.x * i.y) \div 8

\* The attributes are those of a graphics mode in colour with a linear frame
\* buffer, the memory model is direct colour.
Fits(i) == i.attributes /\ i.direct /\ i.bpp >= 24 /\ PictureSize(i) <= MAX_VRAM

is_suitable_video_mode(i) == Fits(i) /\ PictureSize(i) > best

get_vesa_vbe_mode_info(m) == info' = IF m \in answers THEN bios[m] ELSE info

QueryMode ==
    /\ vpc = "query"
    /\ get_vesa_vbe_mode_info(modeList[pos])
    /\ vpc' = "check"
    /\ UNCHANGED <<bios, answers, modeList, pos, videoMode, best, hwMode>>

\* Mutant: the size of the best picture is not saved.
CheckModeUnsaved ==
    /\ vpc = "check"
    /\ videoMode' = IF is_suitable_video_mode(info) THEN modeList[pos] ELSE videoMode
    /\ IF pos = Len(modeList)
       THEN vpc' = "set" /\ UNCHANGED pos
       ELSE vpc' = "query" /\ pos' = pos + 1
    /\ UNCHANGED <<bios, answers, modeList, info, best, hwMode>>

CheckMode ==
    /\ vpc = "check"
    /\ IF is_suitable_video_mode(info)
       THEN videoMode' = modeList[pos] /\ best' = PictureSize(info)
       ELSE UNCHANGED <<videoMode, best>>
    /\ IF pos = Len(modeList)
       THEN vpc' = "set" /\ UNCHANGED pos
       ELSE vpc' = "query" /\ pos' = pos + 1
    /\ UNCHANGED <<bios, answers, modeList, info, hwMode>>

\* No suitable mode, or the BIOS refuses to set it.
ModeError ==
    /\ vpc = "set"
    /\ vpc' = "error"
    /\ UNCHANGED <<bios, answers, modeList, pos, info, videoMode, best, hwMode>>

set_vesa_video_mode ==
    /\ vpc = "set"
    /\ videoMode # NoMode
    /\ hwMode' = videoMode
    /\ vpc' = "describe"
    /\ UNCHANGED <<bios, answers, modeList, pos, info, videoMode, best>>

\* Mutant: the description is left as it is in the buffer.
DescribeModeNot ==
    /\ vpc = "describe"
    /\ vpc' = "ready"
    /\ UNCHANGED <<bios, answers, modeList, pos, info, videoMode, best, hwMode>>

\* The buffer holds the last mode of the list by now: the description of the
\* mode that was set is fetched again.
DescribeMode ==
    /\ vpc = "describe"
    /\ get_vesa_vbe_mode_info(videoMode)
    /\ vpc' = IF videoMode \in answers THEN "ready" ELSE "error"
    /\ UNCHANGED <<bios, answers, modeList, pos, videoMode, best, hwMode>>

set_suitable_video_mode ==
    QueryMode \/ CheckMode \/ ModeError \/ set_vesa_video_mode \/ DescribeMode

-----------------------------------------------------------------------------
(* Properties *)

\* What the kernel finds in the buffer describes the mode the hardware is in,
\* and its picture fits the frame buffer the kernel is going to map (what
\* Console relies on), although failed calls leave stale descriptions behind.
PictureKnown ==
    vpc = "ready" => info = bios[hwMode] /\ Fits(info)

\* No mode of the list that the BIOS describes has a larger picture that fits.
LargestPicture ==
    vpc = "ready" =>
        \A i \in 1..Len(modeList) :
            modeList[i] \in answers /\ Fits(bios[modeList[i]])
                => PictureSize(bios[modeList[i]]) <= PictureSize(info)

=============================================================================
