----------------------------- MODULE CoreFile32 -----------------------------
(***************************************************************************)
(* The core writer of 32-bit processes (lp32, with the notes of arm and    *)
(* x86).  CoreFile has the order of every write; here headers and notes    *)
(* are one step each, and what matters is where 32 bits are too few: the   *)
(* offsets in the program headers, which are sums modulo 2^32, and ftell,  *)
(* whose long ends at 2^31 - 1 although the file goes on.                  *)
(***************************************************************************)
EXTENDS Integers, Sequences

CONSTANTS
    EhdrSize, PhdrSize,     \* sizeof(Elf32_Ehdr), sizeof(Elf32_Phdr)
    NoteHead,               \* sizeof(Elf32_Nhdr) and the 8 bytes of the name
    PrStatusSize,           \* sizeof(Elf32_prstatus)
    SigInfoSize,            \* sizeof(siginfo_t)
    AuxvSize, FileSize,     \* sizeof(Auxv), sizeof(File)
    AlignSize,              \* align_size
    Half,                   \* e_phnum is a number modulo this, 2^16
    Word,                   \* bound: 2^32
    LongMax,                \* bound: 2^31 - 1
    MaxMaps, MaxPages, MaxName, MaxThreads  \* bounds

\* What the layout needs: the names of NT_FILE are counted up to a multiple of 4,
\* as all else is, a file with headers is not empty, so that start > 0 is a
\* test of ftell alone, and max_map_count keeps e_phnum within its width.
WidthAssumption ==
    /\ {EhdrSize, PhdrSize, NoteHead, PrStatusSize, SigInfoSize, AuxvSize, FileSize,
        AlignSize, Half, Word, LongMax, MaxMaps, MaxPages, MaxName, MaxThreads} \subseteq Nat
    /\ \A s \in {EhdrSize, PhdrSize, NoteHead, PrStatusSize, SigInfoSize, AuxvSize,
                 FileSize, AlignSize} : s % 4 = 0
    /\ EhdrSize > 0 /\ AlignSize > 0 /\ Word > 0 /\ MaxMaps + 1 < Half

VARIABLES
    pc,
    maps, threads, auxvnum,     \* what is to be written
    note, phdr,                 \* program headers
    pos,                        \* where the next write goes
    index, page,                \* of WriteCoreLoadSegment
    start,                      \* its current_pos
    content,                    \* the load part of the file, page by page
    failed,                     \* segments replaced by zeroes
    lost,                       \* the first whose failure could not be made good
    short                       \* a page of zeroes could not be written either

input  == <<maps, threads, auxvnum>>
header == <<note, phdr>>
loop   == <<index, page, start>>
output == <<pos, content>>
vars   == <<pc, input, header, loop, output, failed, lost, short>>

RoundUp(x, n) == ((x + n - 1) \div n) * n

Vma == [pages : 1..MaxPages, name : 0..MaxName,
        flag : {{}, {"VMA_NULL"}, {"VMA_NULL", "VMA_INCLUDE"}}]

Count(i)  == maps[i].pages
Memsz(i)  == maps[i].pages * AlignSize
Filesz(i) == IF maps[i].flag = {"VMA_NULL"} THEN 0 ELSE Memsz(i)

Names == LET upTo[n \in 0..Len(maps)] ==
                 IF n = 0 THEN 0 ELSE upTo[n - 1] + maps[n].name + 1
         IN upTo[Len(maps)]

Init ==
    /\ pc = "fopen"
    /\ maps = <<>> /\ threads = 0 /\ auxvnum = 0
    /\ note = [offset |-> 0, filesz |-> 0] /\ phdr = <<>>
    /\ pos = 0 /\ index = 1 /\ page = 0 /\ start = 0
    /\ content = [p \in {} |-> 0]
    /\ failed = {} /\ lost = 0 /\ short = FALSE

---------------------------------------------------------------------------
\* extra_note_filesz of arm and x86.
Extra ==
    IF threads = 0 THEN 0
    ELSE (PrStatusSize + NoteHead) * threads + SigInfoSize + NoteHead

NtFile(names) == FileSize * Len(maps) + NoteHead + 2 * 4 + names

\* p_offset of the first segment, and of the others, in 32 bits.
FirstOffset(n) == RoundUp(n.offset + n.filesz, AlignSize) % Word
\* Faulty: a filtered segment still takes its room.
FaultyTaken(i) == Memsz(i)
Taken(i) == Filesz(i)
Offsets(n) ==
    LET of[i \in 1..Len(maps)] ==
            IF i = 1 THEN FirstOffset(n) ELSE (of[i - 1] + Taken(i - 1)) % Word
    IN of

\* What there is: the threads stopped, /proc/<pid>/maps, and the verdicts.
Parse ==
    /\ pc = "fopen"
    /\ \E n \in 0..MaxMaps : maps' \in [1..n -> Vma]
    /\ threads' \in 0..MaxThreads /\ auxvnum' \in {0, 1}
    /\ pc' = "create"
    /\ UNCHANGED <<header, loop, output, failed, lost, short>>

Ephnum == (Len(maps) + 1) % Half

\* Everything that is computed before the first write.
Create ==
    /\ pc = "create"
    /\ note' = [offset |-> EhdrSize + Ephnum * PhdrSize,
                filesz |-> AuxvSize * auxvnum + NoteHead + Extra
                               + NtFile(RoundUp(Names, 4))]
    /\ phdr' = [i \in 1..Len(maps) |->
                   [offset |-> Offsets(note')[i], filesz |-> Filesz(i)]]
    /\ pc' = "headers"
    /\ UNCHANGED <<input, loop, output, failed, lost, short>>

WriteHeaders ==
    /\ pc = "headers"
    /\ pos' = pos + EhdrSize + PhdrSize + PhdrSize * Len(phdr)
    /\ pc' = "notes"
    /\ UNCHANGED <<input, header, loop, content, failed, lost, short>>

NoteEnd == note.offset + note.filesz - RoundUp(Names, 4) + Names

\* NT_PRSTATUS of each thread, NT_SIGINFO after the first, NT_AUXV, NT_FILE
\* with its names as they are, and the padding.
WriteNotes ==
    /\ pc = "notes"
    /\ pos' = pos + (NoteHead + PrStatusSize) * threads
                  + (IF threads > 0 THEN NoteHead + SigInfoSize ELSE 0)
                  + NoteHead + AuxvSize * auxvnum + NtFile(Names)
                  + (RoundUp(NoteEnd, AlignSize) - NoteEnd)
    /\ pc' = "segment"
    /\ UNCHANGED <<input, header, loop, content, failed, lost, short>>

---------------------------------------------------------------------------
(* WriteCoreLoadSegment. *)

SkipSegment ==
    /\ pc = "segment" /\ index <= Len(phdr)
    /\ phdr[index].filesz = 0
    /\ index' = index + 1
    /\ UNCHANGED <<pc, input, header, page, start, output, failed, lost, short>>

\* -1 stands for EOVERFLOW.
Ftell == IF pos > LongMax THEN -1 ELSE pos

BeginSegment ==
    /\ pc = "segment" /\ index <= Len(phdr)
    /\ phdr[index].filesz > 0
    /\ start' = Ftell /\ page' = 0
    /\ pc' = "page"
    /\ UNCHANGED <<input, header, index, output, failed, lost, short>>

FWrite(what) ==
    /\ content' = [p \in DOMAIN content \cup {pos} |->
                      IF p = pos THEN what ELSE content[p]]
    /\ pos' = pos + AlignSize

More == page < Count(index)

WritePage ==
    /\ pc = "page" /\ More
    /\ FWrite(<<index, page>>)
    /\ page' = page + 1
    /\ UNCHANGED <<pc, input, header, index, start, failed, lost, short>>

\* fwrite fails, but not for want of space.
WriteFails ==
    /\ pc = "page" /\ More
    /\ IF start > 0
       THEN /\ pos' = start /\ page' = 0 /\ pc' = "pad"
            /\ failed' = failed \cup {index} /\ UNCHANGED <<index, lost>>
       ELSE /\ index' = index + 1 /\ pc' = "segment"
            /\ lost' = IF lost = 0 THEN index ELSE lost
            /\ UNCHANGED <<pos, page, failed>>
    /\ UNCHANGED <<input, header, start, content, short>>

PadPage ==
    /\ pc = "pad" /\ More
    /\ \/ FWrite(<<0, 0>>) /\ UNCHANGED short
       \/ short' = TRUE /\ UNCHANGED output
    /\ page' = page + 1
    /\ UNCHANGED <<pc, input, header, index, start, failed, lost>>

EndSegment ==
    /\ pc \in {"page", "pad"} /\ ~More
    /\ pc' = "segment" /\ index' = index + 1
    /\ UNCHANGED <<input, header, page, start, output, failed, lost, short>>

\* All is written, there is no memory file to read, or no space is left.
Fclose ==
    /\ \/ pc = "segment" /\ index \in {1, Len(phdr) + 1}
       \/ pc = "page" /\ More
    /\ pc' = "closed"
    /\ UNCHANGED <<input, header, loop, output, failed, lost, short>>

Next ==
    \/ Parse \/ Create \/ WriteHeaders \/ WriteNotes
    \/ SkipSegment \/ BeginSegment \/ WritePage \/ WriteFails \/ PadPage
    \/ EndSegment \/ Fclose

Spec == Init /\ [][Next]_vars

---------------------------------------------------------------------------
\* Where segment i starts in the file, counted without a limit.
Place(i) ==
    LET at[n \in 1..i] ==
            IF n = 1 THEN RoundUp(note.offset + note.filesz, AlignSize)
            ELSE at[n - 1] + Filesz(n - 1)
    IN at[i]

\* A segment that starts within 4 GiB is where its program header says, whole,
\* and zeroes if its write has failed.  So are all those before the first
\* failure beyond 2 GiB, which ftell cannot report and nothing pads; the ones
\* after it are moved, and a reader has no way to tell.
SegmentsInPlace ==
    /\ lost # 0 => Place(lost) > LongMax
    /\ \A i \in 1..Len(phdr) :
           i < index /\ Place(i) < Word /\ (lost = 0 \/ i < lost) /\ ~short =>
               \A k \in 0..Count(i) - 1 :
                   phdr[i].filesz > 0 =>
                       LET p == phdr[i].offset + k * AlignSize IN
                       /\ p \in DOMAIN content
                       /\ content[p] = IF i \in failed THEN <<0, 0>> ELSE <<i, k>>
=============================================================================
