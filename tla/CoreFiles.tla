----------------------------- MODULE CoreFiles -----------------------------
(***************************************************************************)
(* The core files of both widths.  A build has one of the two writers, so  *)
(* they share no state, and a behaviour is of one of them, `part`.  What   *)
(* has the same size in both is one constant.                              *)
(***************************************************************************)
EXTENDS CoreFile

CONSTANTS
    \* of the 32-bit writer
    Ehdr32, Phdr32, PrStatus32, Auxv32, File32,
    OffsetWord,     \* 2^32, of p_offset
    OffsetMax,      \* 2^31 - 1, of ftell
    Maps32, Pages32, Name32, Threads32  \* bounds

VARIABLES
    part,
    \* of CoreFile32
    pc32, maps32, threads32, auxvnum32, note32, phdr32, pos32, index32, page32,
    start32, content32, failed32, lost, short32

Narrow == INSTANCE CoreFile32 WITH
    EhdrSize <- Ehdr32, PhdrSize <- Phdr32, PrStatusSize <- PrStatus32,
    AuxvSize <- Auxv32, FileSize <- File32, Word <- OffsetWord, LongMax <- OffsetMax,
    MaxMaps <- Maps32, MaxPages <- Pages32, MaxName <- Name32, MaxThreads <- Threads32,
    pc <- pc32, maps <- maps32, threads <- threads32, auxvnum <- auxvnum32,
    note <- note32, phdr <- phdr32, pos <- pos32, index <- index32, page <- page32,
    start <- start32, content <- content32, failed <- failed32, short <- short32

ASSUME NarrowAssumption == Narrow!WidthAssumption

narrow == <<pc32, maps32, threads32, auxvnum32, note32, phdr32, pos32, index32,
            page32, start32, content32, failed32, lost, short32>>
all    == <<part, vars, narrow>>

PartInit == part \in {"64", "32"} /\ Init /\ Narrow!Init

PartNext ==
    \/ part = "64" /\ Next /\ UNCHANGED <<part, narrow>>
    \/ part = "32" /\ Narrow!Next /\ UNCHANGED <<part, vars>>

PartSpec == PartInit /\ [][PartNext]_all

\* 32-bit segments are where announced as far as the offsets go.
SegmentsInPlace == Narrow!SegmentsInPlace
============================================================================
