------------------------------ MODULE CoreFile ------------------------------
(***************************************************************************)
(* DoCoredump in the forked child: the core file from fopen to fclose.     *)
(*                                                                         *)
(* Every header is computed, and written, before the data it announces:    *)
(* p_filesz of the note segment is a sum of sizes, p_offset of a load      *)
(* segment a sum of the sizes before it, and the data is then appended     *)
(* with fwrite.  Nothing seeks to an announced offset, so the two sums     *)
(* have to agree byte for byte; that is what is checked.                   *)
(*                                                                         *)
(* Sizes are in bytes.  The lp32 and lp64 writers are this module with     *)
(* different constants; what the notes contain does not matter here.       *)
(***************************************************************************)
EXTENDS Integers, Sequences

CONSTANTS
    EhdrSize, PhdrSize,     \* sizeof(Elf_Ehdr), sizeof(Elf_Phdr)
    NoteHead,               \* sizeof(Elf_Nhdr) and the 8 bytes of the name
    PrStatusSize,           \* sizeof(Elf_prstatus)
    SigInfoSize,            \* sizeof(siginfo_t)
    Regsets,                \* arm64: four more notes for each thread
    FpRegsSize, TlsSize, PacMaskSize, KeysSize, TaggedSize,     \* their sizes
    AuxvSize, FileSize,     \* sizeof(Auxv), sizeof(File)
    CountSize,              \* the two numbers at the head of NT_FILE
    AlignSize,              \* align_size
    Half,                   \* e_phnum is a number modulo this, 2^16
    Word,                   \* i * align_size is a number modulo this, 2^32
    MaxMaps, MaxPages, MaxName, MaxThreads, MaxAuxv     \* bounds

ASSUME CoreFileAssumption ==
    /\ EhdrSize \in Nat /\ PhdrSize \in Nat /\ NoteHead \in Nat
    /\ PrStatusSize \in Nat /\ SigInfoSize \in Nat /\ Regsets \in BOOLEAN
    /\ FpRegsSize \in Nat /\ TlsSize \in Nat /\ PacMaskSize \in Nat
    /\ KeysSize \in Nat /\ TaggedSize \in Nat
    /\ AuxvSize \in Nat /\ FileSize \in Nat /\ CountSize \in Nat
    /\ AlignSize \in Nat \ {0}
    /\ MaxMaps \in Nat /\ MaxPages \in Nat /\ MaxName \in Nat
    /\ MaxThreads \in Nat /\ MaxAuxv \in Nat
    /\ Half \in Nat /\ MaxMaps + 1 < Half
    /\ Word \in Nat \ {0}

\* What the layout needs of the sizes: the file names of NT_FILE are counted up
\* to a multiple of 4, and that must not move the end of the notes past a
\* multiple of align_size.
ASSUME AlignmentAssumption ==
    /\ \A s \in {EhdrSize, PhdrSize, NoteHead, PrStatusSize, SigInfoSize,
                 FpRegsSize, TlsSize, PacMaskSize, KeysSize, TaggedSize,
                 AuxvSize, FileSize, CountSize, AlignSize} : s % 4 = 0

VARIABLES
    pc,
    index,      \* of the running loop
    maps,       \* the VMAs
    phdr,       \* their program headers
    fileslen,   \* bytes of file names in NT_FILE
    note,       \* header of the note segment
    extra,      \* extra_note_filesz
    threads,    \* threads.size()
    prnum,      \* prstatus.size()
    auxvnum,
    pos,        \* ftell(fp)
    page,       \* i of WriteCoreLoadSegment
    start,      \* current_pos of WriteCoreLoadSegment
    content,    \* the load part of the file: the source of each page, by position
    failed,     \* segments replaced by zeroes
    short       \* a page of zeroes could not be written either

input  == <<maps, threads, auxvnum>>
layout == <<phdr, fileslen, note, extra, prnum>>
output == <<page, start, content, failed, short>>
vars   == <<pc, index, input, layout, pos, output>>

RoundDown(x, n) == (x \div n) * n
RoundUp(x, n)   == RoundDown(x + n - 1, n)

\* A VMA as the writer sees it: its length in pages, the length of its file
\* name, and what IsFilterSegment | IsSpecialFilterSegment says of it.  Its
\* length in bytes may be more than Word.  The number of its pages is that of
\* an int, which is exact up to 8 TiB, longer than any core could get.
Vma == [pages : 1..MaxPages, name : 0..MaxName,
        flag : SUBSET {"VMA_NULL", "VMA_INCLUDE"}]

Phnum    == Len(maps)
Memsz(i) == maps[i].pages * AlignSize

Zeroes == <<0, 0>>      \* a page of content that comes from no segment

Init ==
    /\ pc = "fopen" /\ index = 1
    /\ maps = <<>> /\ threads = 0 /\ auxvnum = 0
    /\ phdr = <<>> /\ fileslen = 0 /\ note = [offset |-> 0, filesz |-> 0]
    /\ extra = 0 /\ prnum = 0
    /\ pos = 0 /\ page = 0 /\ start = 0
    /\ content = [p \in {} |-> Zeroes] /\ failed = {} /\ short = FALSE

Goto(l) == pc' = l /\ index' = 1
Again   == pc' = pc /\ index' = index + 1

---------------------------------------------------------------------------
(* What is computed before the first byte is written. *)

\* Without a file the world is not stopped.
Fopen ==
    /\ pc = "fopen"
    /\ Goto("world") \/ Goto("end")
    /\ UNCHANGED <<input, layout, pos, output>>

StopTheWorld ==
    /\ pc = "world"
    /\ threads' \in 0..MaxThreads
    /\ Goto("maps")
    /\ UNCHANGED <<maps, auxvnum, layout, pos, output>>

ParseMaps ==
    /\ pc = "maps"
    /\ \E n \in 0..MaxMaps : maps' \in [1..n -> Vma]
    /\ phdr' = [i \in 1..Len(maps') |-> [offset |-> 0, filesz |-> 0]]
    /\ Goto("vma")
    /\ UNCHANGED <<threads, auxvnum, fileslen, note, extra, prnum, pos, output>>

\* ParserPhdr and ParserNtFile of one VMA.
ParserVma ==
    /\ pc = "vma" /\ index <= Phnum
    /\ phdr' = [phdr EXCEPT ![index].filesz = Memsz(index)]
    /\ fileslen' = fileslen + maps[index].name + 1
    /\ Again
    /\ UNCHANGED <<input, note, extra, prnum, pos, output>>

Ephnum == (Phnum + 1) % Half

CreateCoreNoteHeader ==
    /\ pc = "vma" /\ index > Phnum
    /\ note' = [note EXCEPT !.offset = EhdrSize + Ephnum * PhdrSize]
    /\ Goto("create")
    /\ UNCHANGED <<input, phdr, fileslen, extra, prnum, pos, output>>

\* Faulty: NT_SIGINFO counted once per thread.
FaultyThreadNotes(n) ==
    (PrStatusSize + NoteHead) * n + (SigInfoSize + NoteHead) * n
ThreadNotes(n) ==
    (PrStatusSize + NoteHead) * n + (SigInfoSize + NoteHead)

RegsetNotes(n) ==
    (FpRegsSize + NoteHead) * n + (TlsSize + NoteHead) * n
        + ((PacMaskSize + NoteHead) + (KeysSize + NoteHead)) * n
        + (TaggedSize + NoteHead) * n

CreateCorePrStatus ==
    /\ pc = "create"
    /\ prnum' = threads
    /\ extra' = IF threads = 0 THEN extra
              ELSE extra + ThreadNotes(threads)
                         + (IF Regsets THEN RegsetNotes(threads) ELSE 0)
    /\ Goto("auxv")
    /\ UNCHANGED <<input, phdr, fileslen, note, pos, output>>

CreateCoreAUXV ==
    /\ pc = "auxv"
    /\ auxvnum' \in 0..MaxAuxv
    /\ Goto("filter")
    /\ UNCHANGED <<maps, threads, layout, pos, output>>

\* What a segment holds in the file: INCLUDE wins over NULL.
Filtered(i) ==
    IF "VMA_INCLUDE" \in maps[i].flag THEN Memsz(i)
    ELSE IF "VMA_NULL" \in maps[i].flag THEN 0 ELSE phdr[i].filesz

SpecialCoreFilter ==
    /\ pc = "filter"
    /\ phdr' = [i \in 1..Phnum |-> [phdr[i] EXCEPT !.filesz = Filtered(i)]]
    /\ Goto("ehdr")
    /\ UNCHANGED <<input, fileslen, note, extra, prnum, pos, output>>

---------------------------------------------------------------------------
(* The headers. *)

WriteCoreHeader ==
    /\ pc = "ehdr"
    /\ pos' = pos + EhdrSize
    /\ Goto("notehdr")
    /\ UNCHANGED <<input, layout, output>>

NtFileSize(names) == FileSize * Phnum + NoteHead + CountSize + names

WriteCoreNoteHeader ==
    /\ pc = "notehdr"
    /\ note' = [note EXCEPT !.filesz =
                   @ + (AuxvSize * auxvnum + NoteHead) + extra
                     + NtFileSize(RoundUp(fileslen, 4))]
    /\ pos' = pos + PhdrSize
    /\ Goto("phdrs")
    /\ UNCHANGED <<input, phdr, fileslen, extra, prnum, output>>

NextOffset(i) == phdr[i].offset + phdr[i].filesz

WriteCoreProgramHeader ==
    /\ pc = "phdrs" /\ index <= Phnum
    /\ phdr' = [phdr EXCEPT ![index].offset =
                   IF index = 1 THEN RoundUp(note.offset + note.filesz, AlignSize)
                   ELSE NextOffset(index - 1)]
    /\ pos' = pos + PhdrSize
    /\ Again
    /\ UNCHANGED <<input, fileslen, note, extra, prnum, output>>

ProgramHeadersWritten ==
    /\ pc = "phdrs" /\ index > Phnum
    /\ Goto("prstatus")
    /\ UNCHANGED <<input, layout, pos, output>>

---------------------------------------------------------------------------
(* The note segment. *)

WriteCoreSignalInfo == NoteHead + SigInfoSize

WriteCoreFpRegs == NoteHead + FpRegsSize
WriteCoreTLS    == NoteHead + TlsSize
WriteCorePAC    == (NoteHead + PacMaskSize) + (NoteHead + KeysSize)
WriteCoreMTE    == NoteHead + TaggedSize
WriteRegsets    == WriteCoreFpRegs + WriteCoreTLS + WriteCorePAC + WriteCoreMTE

WriteCorePrStatus ==
    /\ pc = "prstatus" /\ index <= prnum
    /\ pos' = pos + (NoteHead + PrStatusSize)
                  + (IF index = 1 THEN WriteCoreSignalInfo ELSE 0)
                  + (IF Regsets THEN WriteRegsets ELSE 0)
    /\ Again
    /\ UNCHANGED <<input, layout, output>>

WriteCoreAUXV ==
    /\ pc = "prstatus" /\ index > prnum
    /\ pos' = pos + NoteHead + AuxvSize * auxvnum
    /\ Goto("ntfile")
    /\ UNCHANGED <<input, layout, output>>

WriteNtFile ==
    /\ pc = "ntfile"
    /\ pos' = pos + NtFileSize(0)
    /\ Goto("names")
    /\ UNCHANGED <<input, layout, output>>

WriteFileName ==
    /\ pc = "names" /\ index <= Phnum
    /\ pos' = pos + maps[index].name + 1
    /\ Again
    /\ UNCHANGED <<input, layout, output>>

\* Faulty: the names are taken to be padded in the file, too.
FaultyNoteEnd == note.offset + note.filesz
NoteEnd == note.offset + (note.filesz - RoundUp(fileslen, 4) + fileslen)

AlignNoteSegment ==
    /\ pc = "names" /\ index > Phnum
    /\ pos' = pos + (RoundUp(NoteEnd, AlignSize) - NoteEnd)
    /\ Goto("mem")
    /\ UNCHANGED <<input, layout, output>>

---------------------------------------------------------------------------
(* WriteCoreLoadSegment. *)

OpenMem ==
    /\ pc = "mem"
    /\ Goto("segment") \/ Goto("nomem")
    /\ UNCHANGED <<input, layout, pos, output>>

SkipSegment ==
    /\ pc = "segment" /\ index <= Phnum
    /\ phdr[index].filesz = 0
    /\ Again
    /\ UNCHANGED <<input, layout, pos, output>>

BeginSegment ==
    /\ pc = "segment" /\ index <= Phnum
    /\ phdr[index].filesz > 0
    /\ start' = pos /\ page' = 0
    /\ pc' = "page" /\ UNCHANGED index
    /\ UNCHANGED <<input, layout, pos, content, failed, short>>

Count(i) == Memsz(i) \div AlignSize
\* Faulty: one page too many.
FaultyMorePages == page <= Count(index)
MorePages == page < Count(index)

FWrite(source) ==
    /\ content' = [p \in DOMAIN content \cup {pos} |->
                      IF p = pos THEN source ELSE content[p]]
    /\ pos' = pos + AlignSize

\* pread64 at p_vaddr + i * align_size, a product of 32 bits: 4 GiB into the
\* segment it starts again from 0.
WritePage ==
    /\ pc = "page" /\ MorePages
    /\ FWrite(<<index, (page * AlignSize) % Word>>)
    /\ page' = page + 1
    /\ UNCHANGED <<pc, index, input, layout, start, failed, short>>

\* Faulty: no fseek.
FaultyRewound == pos
Rewound == start

\* fwrite fails, but not for want of space: back to the start of the segment.
WriteFails ==
    /\ pc = "page" /\ MorePages
    /\ pos' = Rewound /\ page' = 0
    /\ failed' = failed \cup {index}
    /\ pc' = "pad" /\ UNCHANGED index
    /\ UNCHANGED <<input, layout, start, content, short>>

NoSpace ==
    /\ pc = "page" /\ MorePages
    /\ Goto("nospace")
    /\ UNCHANGED <<input, layout, pos, output>>

\* These writes are not checked.
PadPage ==
    /\ pc = "pad" /\ MorePages
    /\ \/ FWrite(Zeroes) /\ UNCHANGED short
       \/ short' = TRUE /\ UNCHANGED <<pos, content>>
    /\ page' = page + 1
    /\ UNCHANGED <<pc, index, input, layout, start, failed>>

EndSegment ==
    /\ pc \in {"page", "pad"} /\ ~MorePages
    /\ pc' = "segment" /\ index' = index + 1
    /\ UNCHANGED <<input, layout, pos, output>>

\* What fflush and fclose have still to write they do write: a disk that fills
\* up in that moment would leave the last page short.
Fclose ==
    /\ \/ pc = "segment" /\ index > Phnum /\ Goto("closed")
       \/ pc \in {"nomem", "nospace"} /\ Goto("end")
    /\ UNCHANGED <<input, layout, pos, output>>

Next ==
    \/ Fopen \/ StopTheWorld \/ ParseMaps \/ ParserVma \/ CreateCoreNoteHeader
    \/ CreateCorePrStatus \/ CreateCoreAUXV \/ SpecialCoreFilter
    \/ WriteCoreHeader \/ WriteCoreNoteHeader
    \/ WriteCoreProgramHeader \/ ProgramHeadersWritten
    \/ WriteCorePrStatus \/ WriteCoreAUXV \/ WriteNtFile \/ WriteFileName
    \/ AlignNoteSegment
    \/ OpenMem \/ SkipSegment \/ BeginSegment \/ WritePage \/ WriteFails
    \/ NoSpace \/ PadPage \/ EndSegment \/ Fclose

Spec == Init /\ [][Next]_vars

---------------------------------------------------------------------------
Labels == {"fopen", "world", "maps", "vma", "create", "auxv", "filter", "ehdr",
           "notehdr", "phdrs", "prstatus", "ntfile", "names", "mem", "nomem",
           "segment", "page", "pad", "nospace", "closed", "end"}

TypeOK ==
    /\ pc \in Labels /\ index \in Nat \ {0}
    /\ maps \in Seq(Vma) /\ Len(maps) <= MaxMaps
    /\ threads \in 0..MaxThreads /\ auxvnum \in 0..MaxAuxv
    /\ phdr \in [1..Len(maps) -> [offset : Nat, filesz : Nat]]
    /\ fileslen \in Nat /\ note \in [offset : Nat, filesz : Nat]
    /\ extra \in Nat /\ prnum \in 0..MaxThreads
    /\ pos \in Nat /\ page \in 0..MaxPages /\ start \in Nat
    /\ DOMAIN content \subseteq Nat
    /\ failed \subseteq 1..MaxMaps /\ short \in BOOLEAN

\* The program headers end where the note header says the notes begin.
NotesFollowHeaders ==
    pc = "prstatus" /\ index = 1 => pos = note.offset

\* What is written as notes is as long as p_filesz says, but for the padding
\* of the file names that AlignNoteSegment supplies.
NotesAddUp ==
    pc = "names" /\ index > Phnum =>
        pos + (RoundUp(fileslen, 4) - fileslen) = note.offset + note.filesz

\* The notes are where the headers announce them, from the first byte to the last.
NotesInPlace == NotesFollowHeaders /\ NotesAddUp

PageAt(i, k) == phdr[i].offset + k * AlignSize
Pages(i)     == {k \in 0..MaxPages - 1 : k * AlignSize < phdr[i].filesz}

\* The memory that page k of segment i shows: the one its address stands for,
\* or, from 4 GiB into the segment on, that of a page before it, the segment
\* being repeated from its beginning.
Shown(i, k) ==
    IF k * AlignSize < Word THEN <<i, k * AlignSize>> ELSE <<i, (k * AlignSize) % Word>>

\* Every page of memory in the file is where the program header of its
\* segment says, where alone a reader finds it, and is the page of memory that
\* address stands for, unless it is 4 GiB into its segment, or the segment was
\* replaced by zeroes.  Only after padding that fails is nothing sure.
PagesInPlace ==
    short \/ \A p \in DOMAIN content :
        \E i \in 1..Phnum : \E k \in Pages(i) :
            /\ p = PageAt(i, k)
            /\ \/ content[p] = Shown(i, k)
               \/ i \in failed /\ content[p] = Zeroes

\* A file written to its end has every page of every segment it announces: the
\* memory of the process, repeated after 4 GiB of one segment, unless the write
\* of that segment has failed, and then zeroes.
Complete ==
    pc = "closed" /\ ~short =>
        \A i \in 1..Phnum : \A k \in Pages(i) :
            /\ PageAt(i, k) \in DOMAIN content
            /\ content[PageAt(i, k)] = IF i \in failed THEN Zeroes ELSE Shown(i, k)
=============================================================================
