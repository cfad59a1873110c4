--------------------------- MODULE CoreFileProofs ---------------------------
(***************************************************************************)
(* The layout of the core file, for any sizes that are multiples of 4:     *)
(* first its headers and notes, then its pages.                            *)
(***************************************************************************)
EXTENDS CoreFile, TLAPS

---------------------------------------------------------------------------
(* Arithmetic. *)

LEMMA Distributes ==
  ASSUME NEW a \in Nat, NEW k \in Nat
  PROVE  a * (k + 1) = a * k + a /\ a * k \in Nat
  OBVIOUS

LEMMA MonotoneTimes ==
  ASSUME NEW a \in Nat \ {0}, NEW j \in Nat, NEW k \in Nat, j < k
  PROVE  j * a < k * a
<1>1. PICK d \in Nat \ {0} : k = j + d
  <2>1. k - j \in Nat \ {0} /\ k = j + (k - j) OBVIOUS
  <2> QED BY <2>1
<1>2. k * a = j * a + d * a BY <1>1
<1>3. d * a > 0 BY <1>1
<1> QED BY <1>2, <1>3

LEMMA TimesDiv ==
  ASSUME NEW a \in Nat \ {0}, NEW k \in Nat
  PROVE  (k * a) \div a = k
  OBVIOUS

\* Multiples of 4, written as such.
Four(x) == x \in Nat /\ \E q \in Nat : x = 4 * q

LEMMA FourMod == ASSUME NEW x \in Nat, x % 4 = 0 PROVE Four(x)
<1>1. x = 4 * (x \div 4) /\ x \div 4 \in Nat OBVIOUS
<1> QED BY <1>1 DEF Four

LEMMA FourPlus == ASSUME NEW x, NEW y, Four(x), Four(y) PROVE Four(x + y)
<1>1. PICK p \in Nat : x = 4 * p BY DEF Four
<1>2. PICK q \in Nat : y = 4 * q BY DEF Four
<1>3. x + y = 4 * (p + q) /\ p + q \in Nat /\ x + y \in Nat BY <1>1, <1>2
<1> QED BY <1>3 DEF Four

LEMMA FourTimes == ASSUME NEW x, NEW k \in Nat, Four(x) PROVE Four(x * k) /\ Four(k * x)
<1>1. PICK p \in Nat : x = 4 * p BY DEF Four
<1>2. x * k = 4 * (p * k) /\ p * k \in Nat /\ x * k \in Nat BY <1>1
<1>3. k * x = 4 * (p * k) /\ k * x \in Nat BY <1>1, <1>2
<1> QED BY <1>2, <1>3 DEF Four

\* RoundUp is the multiple of n in [x, x + n).
LEMMA RoundUpFacts ==
  ASSUME NEW x \in Nat, NEW n \in Nat \ {0}
  PROVE  /\ RoundUp(x, n) \in Nat /\ x <= RoundUp(x, n) /\ RoundUp(x, n) < x + n
         /\ \E z \in Nat : RoundUp(x, n) = z * n
<1> DEFINE z == (x + n - 1) \div n
<1>1. z \in Nat /\ z * n <= x + n - 1 /\ x + n - 1 < z * n + n
  OBVIOUS
<1>2. RoundUp(x, n) = z * n
  BY DEF RoundUp, RoundDown
<1> HIDE DEF z
<1>3. z * n \in Nat BY <1>1
<1> QED BY <1>1, <1>2, <1>3

LEMMA RoundUpGap ==
  ASSUME NEW x \in Int, NEW n \in Nat \ {0}
  PROVE  RoundUp(x, n) - x \in Nat
<1> DEFINE z == (x + n - 1) \div n
<1>1. z \in Int /\ x + n - 1 < z * n + n
  OBVIOUS
<1>2. RoundUp(x, n) = z * n
  BY DEF RoundUp, RoundDown
<1> HIDE DEF z
<1>3. z * n \in Int BY <1>1
<1> QED BY <1>1, <1>2, <1>3

LEMMA RoundUpUnique ==
  ASSUME NEW x \in Nat, NEW n \in Nat \ {0}, NEW z \in Nat, x <= z * n, z * n < x + n
  PROVE  RoundUp(x, n) = z * n
<1>1. PICK y \in Nat : RoundUp(x, n) = y * n /\ x <= y * n /\ y * n < x + n
  BY RoundUpFacts
<1>2. ~(y < z)
  <2> SUFFICES ASSUME y < z PROVE FALSE OBVIOUS
  <2>1. y + 1 \in Nat /\ (y + 1 = z \/ y + 1 < z) OBVIOUS
  <2>2. (y + 1) * n <= z * n BY <2>1, MonotoneTimes
  <2>3. (y + 1) * n = y * n + n OBVIOUS
  <2>4. y * n \in Nat /\ z * n \in Nat OBVIOUS
  <2> QED BY <1>1, <2>2, <2>3, <2>4
<1>3. ~(z < y)
  <2> SUFFICES ASSUME z < y PROVE FALSE OBVIOUS
  <2>1. z + 1 \in Nat /\ (z + 1 = y \/ z + 1 < y) OBVIOUS
  <2>2. (z + 1) * n <= y * n BY <2>1, MonotoneTimes
  <2>3. (z + 1) * n = z * n + n OBVIOUS
  <2>4. y * n \in Nat /\ z * n \in Nat OBVIOUS
  <2> QED BY <1>1, <2>2, <2>3, <2>4
<1>4. y = z BY <1>2, <1>3
<1> QED BY <1>1, <1>4

(* Padding of less than 4 bytes does not move the end of the notes past a
   multiple of align_size (WriteCoreProgramHeaders, AlignNoteSegment). *)
LEMMA RoundUpPadded ==
  ASSUME NEW x \in Nat, NEW p \in 0..3, p <= x, NEW n \in Nat \ {0}, Four(x), Four(n)
  PROVE  RoundUp(x - p, n) = RoundUp(x, n)
<1>1. PICK z \in Nat : RoundUp(x, n) = z * n /\ x <= z * n /\ z * n < x + n
  BY RoundUpFacts
<1>2. PICK q \in Nat : x = 4 * q BY DEF Four
<1>3. PICK m \in Nat : n = 4 * m BY DEF Four
<1>4. PICK y \in Nat : z * n = 4 * y BY <1>3, FourTimes DEF Four
<1>5. 4 * y < 4 * q + 4 * m BY <1>1, <1>2, <1>3, <1>4
<1>6. 4 * y + 4 <= 4 * q + 4 * m BY <1>5
<1>7. z * n <= x + n - 4 /\ z * n \in Nat
  BY <1>2, <1>3, <1>4, <1>6
<1>8. x - p \in Nat /\ x - p <= z * n /\ z * n < (x - p) + n
  BY <1>1, <1>7
<1>9. RoundUp(x - p, n) = z * n
  BY <1>8, RoundUpUnique
<1> QED BY <1>1, <1>9

---------------------------------------------------------------------------
(* Types. *)

\* In the middle of a segment index and page are those of a segment.
TypeInv ==
    /\ TypeOK
    /\ pc \in {"page", "pad"} => index \in 1..Phnum /\ page <= maps[index].pages

LEMMA Sizes ==
    /\ EhdrSize \in Nat /\ PhdrSize \in Nat /\ NoteHead \in Nat
    /\ PrStatusSize \in Nat /\ SigInfoSize \in Nat
    /\ FpRegsSize \in Nat /\ TlsSize \in Nat /\ PacMaskSize \in Nat
    /\ KeysSize \in Nat /\ TaggedSize \in Nat
    /\ AuxvSize \in Nat /\ FileSize \in Nat /\ CountSize \in Nat
    /\ AlignSize \in Nat \ {0}
  BY CoreFileAssumption

LEMMA TimesNat == ASSUME NEW a \in Nat, NEW k \in Nat PROVE a * k \in Nat
  OBVIOUS

LEMMA NtFileSizeNat == ASSUME NEW k \in Nat, Phnum \in Nat PROVE NtFileSize(k) \in Nat
<1>1. FileSize * Phnum \in Nat
  BY Sizes, TimesNat
<1>2. NoteHead \in Nat /\ CountSize \in Nat
  BY Sizes
<1> QED BY <1>1, <1>2 DEF NtFileSize

LEMMA RoundUp4 == ASSUME NEW x \in Nat PROVE RoundUp(x, 4) \in Nat
<1>1. 4 \in Nat \ {0} OBVIOUS
<1> QED BY <1>1, RoundUpFacts

LEMMA Bounds == /\ MaxMaps \in Nat /\ MaxPages \in Nat /\ MaxName \in Nat
                /\ MaxThreads \in Nat /\ MaxAuxv \in Nat
  BY CoreFileAssumption

LEMMA Scalars ==
  ASSUME TypeInv
  PROVE  /\ Len(maps) \in 0..MaxMaps /\ Phnum = Len(maps) /\ index \in Nat \ {0}
         /\ threads \in Nat /\ auxvnum \in Nat /\ fileslen \in Nat
         /\ note.offset \in Nat /\ note.filesz \in Nat
         /\ extra \in Nat /\ prnum \in Nat /\ pos \in Nat /\ page \in Nat /\ start \in Nat
<1>1. Len(maps) \in 0..MaxMaps /\ Phnum = Len(maps)
  BY Bounds DEF TypeInv, TypeOK, Phnum
<1>2. note.offset \in Nat /\ note.filesz \in Nat
  BY DEF TypeInv, TypeOK
<1> QED BY <1>1, <1>2, Bounds DEF TypeInv, TypeOK

LEMMA ThreadNotesNat ==
  ASSUME TypeInv
  PROVE  ThreadNotes(threads) \in Nat /\ RegsetNotes(threads) \in Nat
<1>1. \A a \in Nat : (a + NoteHead) * threads \in Nat
  BY Scalars, Sizes, TimesNat
<1>2. /\ (PrStatusSize + NoteHead) * threads \in Nat
      /\ (FpRegsSize + NoteHead) * threads \in Nat
      /\ (TlsSize + NoteHead) * threads \in Nat
      /\ (TaggedSize + NoteHead) * threads \in Nat
  BY <1>1, Sizes
<1>3. ((PacMaskSize + NoteHead) + (KeysSize + NoteHead)) * threads \in Nat
  <2>1. (PacMaskSize + NoteHead) + (KeysSize + NoteHead) \in Nat BY Sizes
  <2> QED BY <2>1, Scalars, TimesNat
<1>4. SigInfoSize + NoteHead \in Nat
  BY Sizes
<1> QED BY <1>2, <1>3, <1>4 DEF ThreadNotes, RegsetNotes

LEMMA MapsFacts ==
  ASSUME TypeInv, NEW i \in 1..Len(maps)
  PROVE  /\ maps[i].pages \in 1..MaxPages /\ maps[i].name \in Nat
         /\ Memsz(i) \in Nat /\ Memsz(i) = maps[i].pages * AlignSize
         /\ phdr[i].offset \in Nat /\ phdr[i].filesz \in Nat
         /\ phdr[i] \in [offset : Nat, filesz : Nat]
         /\ Count(i) = maps[i].pages
<1>1. maps[i] \in Vma
  BY DEF TypeInv, TypeOK
<1>2. maps[i].pages \in 1..MaxPages /\ maps[i].name \in Nat
  BY <1>1, Bounds DEF Vma
<1>3. Memsz(i) \in Nat /\ Memsz(i) = maps[i].pages * AlignSize
  BY <1>2, Bounds, Sizes DEF Memsz
<1>4. Count(i) = maps[i].pages
  BY <1>2, <1>3, TimesDiv, Bounds, Sizes DEF Count
<1>5. phdr[i] \in [offset : Nat, filesz : Nat]
  BY DEF TypeInv, TypeOK
<1> QED BY <1>2, <1>3, <1>4, <1>5

LEMMA TypeInit == Init => TypeInv
<1> SUFFICES ASSUME Init PROVE TypeInv
  OBVIOUS
<1>1. maps = <<>> /\ maps \in Seq(Vma) /\ Len(maps) = 0
  BY DEF Init
<1>2. phdr \in [1..Len(maps) -> [offset : Nat, filesz : Nat]]
  BY <1>1 DEF Init
<1>3. index \in Nat \ {0} /\ threads \in 0..MaxThreads /\ auxvnum \in 0..MaxAuxv
      /\ prnum \in 0..MaxThreads /\ page \in 0..MaxPages
  BY Bounds DEF Init
<1>4. note \in [offset : Nat, filesz : Nat] /\ DOMAIN content \subseteq Nat
  BY DEF Init
<1>5. fileslen \in Nat /\ extra \in Nat /\ pos \in Nat /\ start \in Nat
      /\ failed \subseteq 1..MaxMaps /\ short \in BOOLEAN
  BY DEF Init
<1>6. Len(maps) <= MaxMaps
  BY <1>1, Bounds
<1>7. pc \in Labels /\ ~(pc \in {"page", "pad"})
  BY DEF Init, Labels
<1> QED BY <1>1, <1>2, <1>3, <1>4, <1>5, <1>6, <1>7 DEF TypeInv, TypeOK

LEMMA TypeNext == TypeInv /\ [Next]_vars => TypeInv'
<1> SUFFICES ASSUME TypeInv, [Next]_vars PROVE TypeInv'
  OBVIOUS
<1>1. ASSUME Fopen PROVE TypeInv'
  BY <1>1 DEF TypeInv, TypeOK, Fopen, Goto, Again, input, layout, output, Labels
<1>2. ASSUME StopTheWorld PROVE TypeInv'
  BY <1>2 DEF TypeInv, TypeOK, StopTheWorld, Goto, Again, input, layout, output, Labels
<1>3. ASSUME ParseMaps PROVE TypeInv'
  <2>1. PICK n \in 0..MaxMaps : maps' \in [1..n -> Vma]
    BY <1>3 DEF ParseMaps
  <2>2. maps' \in Seq(Vma) /\ Len(maps') = n /\ Len(maps') <= MaxMaps
    BY <2>1, Bounds
  <2>3. phdr' \in [1..Len(maps') -> [offset : Nat, filesz : Nat]]
    BY <1>3 DEF ParseMaps
  <2> QED BY <1>3, <2>2, <2>3 DEF TypeInv, TypeOK, ParseMaps, Goto, output, Labels
<1>4. ASSUME ParserVma PROVE TypeInv'
  <2>1. index \in 1..Len(maps) /\ index + 1 \in Nat \ {0}
    <3>1. index \in Nat \ {0} /\ Phnum = Len(maps) /\ Len(maps) \in Nat
      BY Scalars
    <3>2. index <= Phnum
      BY <1>4 DEF ParserVma
    <3> QED BY <3>1, <3>2
  <2>2. Memsz(index) \in Nat /\ fileslen + maps[index].name + 1 \in Nat
    <3>1. Memsz(index) \in Nat /\ maps[index].name \in Nat
      BY <2>1, MapsFacts
    <3>2. fileslen \in Nat
      BY Scalars
    <3> QED BY <3>1, <3>2
  <2>3. phdr' \in [1..Len(maps) -> [offset : Nat, filesz : Nat]]
    BY <1>4, <2>1, <2>2 DEF ParserVma, TypeInv, TypeOK
  <2> QED BY <1>4, <2>1, <2>2, <2>3 DEF TypeInv, TypeOK, ParserVma, Again, input, output, Labels
<1>5. ASSUME CreateCoreNoteHeader PROVE TypeInv'
  <2>1. Ephnum \in Nat
    <3>1. Phnum + 1 \in Nat
      BY Scalars
    <3>2. Half \in Nat \ {0}
      BY CoreFileAssumption
    <3> QED BY <3>1, <3>2 DEF Ephnum
  <2>2. EhdrSize + Ephnum * PhdrSize \in Nat
    BY <2>1, Sizes
  <2>3. note' \in [offset : Nat, filesz : Nat]
    BY <1>5, <2>2 DEF CreateCoreNoteHeader, TypeInv, TypeOK
  <2> QED BY <1>5, <2>3 DEF TypeInv, TypeOK, CreateCoreNoteHeader, Goto, input, output, Labels
<1>6. ASSUME CreateCorePrStatus PROVE TypeInv'
  <2>1. ThreadNotes(threads) \in Nat /\ RegsetNotes(threads) \in Nat
    BY ThreadNotesNat
  <2>2. extra' \in Nat
    <3>1. extra \in Nat
      BY Scalars
    <3> QED BY <1>6, <2>1, <3>1 DEF CreateCorePrStatus
  <2> QED BY <1>6, <2>2 DEF TypeInv, TypeOK, CreateCorePrStatus, Goto, input, output, Labels
<1>7. ASSUME CreateCoreAUXV PROVE TypeInv'
  BY <1>7 DEF TypeInv, TypeOK, CreateCoreAUXV, Goto, Again, input, layout, output, Labels
<1>8. ASSUME SpecialCoreFilter PROVE TypeInv'
  <2>1. \A i \in 1..Len(maps) : Filtered(i) \in Nat /\ phdr[i] \in [offset : Nat, filesz : Nat]
    BY MapsFacts DEF Filtered
  <2>2. phdr' \in [1..Len(maps) -> [offset : Nat, filesz : Nat]]
    BY <1>8, <2>1 DEF SpecialCoreFilter, Phnum
  <2>3. /\ pc' = "ehdr" /\ index' = 1
        /\ UNCHANGED <<maps, threads, auxvnum, fileslen, note, extra, prnum, pos, page, start,
                       content, failed, short>>
    BY <1>8 DEF SpecialCoreFilter, Goto, input, output
  <2> QED BY <2>2, <2>3 DEF TypeInv, TypeOK, Labels
<1>9. ASSUME WriteCoreHeader PROVE TypeInv'
  <2>1. pos' \in Nat
    <3>1. pos \in Nat /\ EhdrSize \in Nat
      BY Scalars, Sizes
    <3> QED BY <1>9, <3>1 DEF WriteCoreHeader
  <2> QED BY <1>9, <2>1 DEF TypeInv, TypeOK, WriteCoreHeader, Goto, input, layout, output, Labels
<1>10. ASSUME WriteCoreNoteHeader PROVE TypeInv'
  <2>1. RoundUp(fileslen, 4) \in Nat
    BY RoundUp4, Scalars
  <2>2. NtFileSize(RoundUp(fileslen, 4)) \in Nat
    <3>1. Phnum \in Nat
      BY Scalars
    <3> QED BY <2>1, <3>1, NtFileSizeNat
  <2>3. AuxvSize * auxvnum \in Nat
    BY Scalars, Sizes
  <2> DEFINE size == note.filesz + (AuxvSize * auxvnum + NoteHead) + extra
                       + NtFileSize(RoundUp(fileslen, 4))
  <2>4. size \in Nat
    <3>1. note.filesz \in Nat /\ extra \in Nat /\ NoteHead \in Nat
      BY Scalars, Sizes
    <3> QED BY <2>2, <2>3, <3>1
  <2>5. note' = [note EXCEPT !.filesz = size]
    BY <1>10 DEF WriteCoreNoteHeader
  <2> HIDE DEF size
  <2>6. note' \in [offset : Nat, filesz : Nat]
    BY <2>4, <2>5 DEF TypeInv, TypeOK
  <2>7. pos' \in Nat
    <3>1. pos \in Nat /\ PhdrSize \in Nat BY Scalars, Sizes
    <3> QED BY <1>10, <3>1 DEF WriteCoreNoteHeader
  <2>8. /\ pc' = "phdrs" /\ index' = 1
        /\ UNCHANGED <<maps, threads, auxvnum, phdr, fileslen, extra, prnum, page, start, content,
                       failed, short>>
    BY <1>10 DEF WriteCoreNoteHeader, Goto, input, output
  <2> QED BY <2>6, <2>7, <2>8 DEF TypeInv, TypeOK, Labels
<1>11. ASSUME WriteCoreProgramHeader PROVE TypeInv'
  <2>1. index \in 1..Len(maps) /\ index + 1 \in Nat \ {0}
    <3>1. index \in Nat \ {0} /\ Phnum = Len(maps) /\ Len(maps) \in Nat
      BY Scalars
    <3>2. index <= Phnum
      BY <1>11 DEF WriteCoreProgramHeader
    <3> QED BY <3>1, <3>2
  <2>2. note.offset + note.filesz \in Nat
    <3>1. note.offset \in Nat /\ note.filesz \in Nat
      BY Scalars
    <3> QED BY <3>1
  <2>3. RoundUp(note.offset + note.filesz, AlignSize) \in Nat
    BY <2>2, RoundUpFacts, Sizes
  <2>4. index # 1 => NextOffset(index - 1) \in Nat
    <3>1. index # 1 => index - 1 \in 1..Len(maps)
      BY <2>1, Scalars
    <3> QED BY <3>1, MapsFacts DEF NextOffset
  <2>5. phdr' \in [1..Len(maps) -> [offset : Nat, filesz : Nat]]
    BY <1>11, <2>1, <2>3, <2>4 DEF WriteCoreProgramHeader, TypeInv, TypeOK
  <2>6. pos' \in Nat
    <3>1. pos \in Nat /\ PhdrSize \in Nat BY Scalars, Sizes
    <3> QED BY <1>11, <3>1 DEF WriteCoreProgramHeader
  <2> QED BY <1>11, <2>1, <2>5, <2>6 DEF TypeInv, TypeOK, WriteCoreProgramHeader, Again, input, output, Labels
<1>12. ASSUME ProgramHeadersWritten PROVE TypeInv'
  BY <1>12 DEF TypeInv, TypeOK, ProgramHeadersWritten, Goto, Again, input, layout, output, Labels
<1>13. ASSUME WriteCorePrStatus PROVE TypeInv'
  <2>1. WriteCoreSignalInfo \in Nat /\ WriteRegsets \in Nat
    BY Sizes DEF WriteCoreSignalInfo, WriteRegsets, WriteCoreFpRegs, WriteCoreTLS,
       WriteCorePAC, WriteCoreMTE
  <2>2. pos' \in Nat /\ index + 1 \in Nat \ {0}
    <3>1. pos \in Nat /\ index \in Nat /\ NoteHead \in Nat /\ PrStatusSize \in Nat
      BY Scalars, Sizes
    <3> QED BY <1>13, <2>1, <3>1 DEF WriteCorePrStatus
  <2> QED BY <1>13, <2>2 DEF TypeInv, TypeOK, WriteCorePrStatus, Again, input, layout, output, Labels
<1>14. ASSUME WriteCoreAUXV PROVE TypeInv'
  <2>1. pos' \in Nat
    <3>1. AuxvSize * auxvnum \in Nat
      BY Scalars, Sizes, TimesNat
    <3>2. pos \in Nat /\ NoteHead \in Nat
      BY Scalars, Sizes
    <3> QED BY <1>14, <3>1, <3>2 DEF WriteCoreAUXV
  <2> QED BY <1>14, <2>1 DEF TypeInv, TypeOK, WriteCoreAUXV, Goto, input, layout, output, Labels
<1>15. ASSUME WriteNtFile PROVE TypeInv'
  <2>1. pos' \in Nat
    <3>1. pos \in Nat /\ NtFileSize(0) \in Nat BY Scalars, NtFileSizeNat
    <3> QED BY <1>15, <3>1 DEF WriteNtFile
  <2> QED BY <1>15, <2>1 DEF TypeInv, TypeOK, WriteNtFile, Goto, input, layout, output, Labels
<1>16. ASSUME WriteFileName PROVE TypeInv'
  <2>1. index \in 1..Len(maps) /\ index + 1 \in Nat \ {0}
    <3>1. index \in Nat \ {0} /\ Phnum = Len(maps) /\ Len(maps) \in Nat
      BY Scalars
    <3>2. index <= Phnum
      BY <1>16 DEF WriteFileName
    <3> QED BY <3>1, <3>2
  <2>2. pos' \in Nat
    <3>1. maps[index].name \in Nat
      BY <2>1, MapsFacts
    <3>2. pos \in Nat
      BY Scalars
    <3> QED BY <1>16, <3>1, <3>2 DEF WriteFileName
  <2> QED BY <1>16, <2>1, <2>2 DEF TypeInv, TypeOK, WriteFileName, Again, input, layout, output, Labels
<1>17. ASSUME AlignNoteSegment PROVE TypeInv'
  <2>1. RoundUp(fileslen, 4) \in Nat
    BY RoundUp4, Scalars
  <2>2. NoteEnd \in Int
    <3>1. note.offset \in Nat /\ note.filesz \in Nat /\ fileslen \in Nat
      BY Scalars
    <3> QED BY <2>1, <3>1 DEF NoteEnd
  <2>3. RoundUp(NoteEnd, AlignSize) - NoteEnd \in Nat
    BY <2>2, RoundUpGap, Sizes
  <2>4. pos' \in Nat
    <3>1. pos \in Nat
      BY Scalars
    <3> QED BY <1>17, <2>3, <3>1 DEF AlignNoteSegment
  <2>5. pc' = "mem" /\ index' = 1 /\ UNCHANGED <<input, layout, output>>
    BY <1>17 DEF AlignNoteSegment, Goto
  <2> QED BY <2>4, <2>5 DEF TypeInv, TypeOK, input, layout, output, Labels
<1>18. ASSUME OpenMem PROVE TypeInv'
  BY <1>18 DEF TypeInv, TypeOK, OpenMem, Goto, Again, input, layout, output, Labels
<1>19. ASSUME SkipSegment PROVE TypeInv'
  BY <1>19 DEF TypeInv, TypeOK, SkipSegment, Goto, Again, input, layout, output, Labels
<1>20. ASSUME BeginSegment PROVE TypeInv'
  <2>1. index \in 1..Len(maps)
    BY <1>20, Scalars DEF BeginSegment
  <2>2. 0 <= maps[index].pages /\ page' = 0 /\ start' = pos
    BY <1>20, <2>1, MapsFacts, Bounds DEF BeginSegment
  <2> QED BY <1>20, <2>1, <2>2, Bounds DEF TypeInv, TypeOK, BeginSegment, Phnum, input, layout, Labels
<1>21. ASSUME WritePage PROVE TypeInv'
  <2>1. index \in 1..Len(maps) /\ page \in Nat /\ page <= maps[index].pages /\ page < Count(index)
    BY <1>21, Scalars DEF WritePage, MorePages, TypeInv
  <2>2. page + 1 <= maps[index].pages /\ page + 1 \in 0..MaxPages
    <3>1. Count(index) = maps[index].pages /\ maps[index].pages \in 1..MaxPages
      BY <2>1, MapsFacts
    <3> QED BY <2>1, <3>1, Bounds
  <2>3. DOMAIN content' = DOMAIN content \cup {pos} /\ pos' \in Nat
    <3>1. pos \in Nat /\ AlignSize \in Nat
      BY Scalars, Sizes
    <3>2. FWrite(<<index, (page * AlignSize) % Word>>)
      BY <1>21 DEF WritePage
    <3> QED BY <3>1, <3>2 DEF FWrite
  <2> QED BY <1>21, <2>1, <2>2, <2>3 DEF TypeInv, TypeOK, WritePage, Phnum, input, layout, Labels
<1>22. ASSUME WriteFails PROVE TypeInv'
  <2>1. index \in 1..Len(maps) /\ index \in 1..MaxMaps
    BY <1>22, Scalars, Bounds DEF WriteFails, TypeInv
  <2>2. 0 <= maps[index].pages /\ page' = 0 /\ pos' = start /\ start \in Nat
    <3>1. 0 <= maps[index].pages
      BY <2>1, MapsFacts, Bounds
    <3>2. start \in Nat
      BY Scalars
    <3> QED BY <1>22, <3>1, <3>2 DEF WriteFails, Rewound
  <2>3. failed' \subseteq 1..MaxMaps
    BY <1>22, <2>1 DEF WriteFails, TypeInv, TypeOK
  <2> QED BY <1>22, <2>1, <2>2, <2>3, Bounds DEF TypeInv, TypeOK, WriteFails, Phnum, input, layout, Labels
<1>23. ASSUME NoSpace PROVE TypeInv'
  BY <1>23 DEF TypeInv, TypeOK, NoSpace, Goto, Again, input, layout, output, Labels
<1>24. ASSUME PadPage PROVE TypeInv'
  <2>1. index \in 1..Len(maps) /\ page \in Nat /\ page <= maps[index].pages /\ page < Count(index)
    BY <1>24, Scalars DEF PadPage, MorePages, TypeInv
  <2>2. page + 1 <= maps[index].pages /\ page + 1 \in 0..MaxPages
    <3>1. Count(index) = maps[index].pages /\ maps[index].pages \in 1..MaxPages
      BY <2>1, MapsFacts
    <3> QED BY <2>1, <3>1, Bounds
  <2>3. DOMAIN content' \subseteq DOMAIN content \cup {pos} /\ pos' \in Nat
    <3>1. pos \in Nat /\ AlignSize \in Nat BY Scalars, Sizes
    <3>2. CASE FWrite(Zeroes) BY <3>1, <3>2 DEF FWrite
    <3>3. CASE UNCHANGED <<pos, content>> BY <3>1, <3>3
    <3> QED BY <1>24, <3>2, <3>3 DEF PadPage
  <2> QED BY <1>24, <2>1, <2>2, <2>3 DEF TypeInv, TypeOK, PadPage, Phnum, input, layout, Labels
<1>25. ASSUME EndSegment PROVE TypeInv'
  <2>1. index + 1 \in Nat \ {0}
    BY Scalars
  <2> QED BY <1>25, <2>1 DEF TypeInv, TypeOK, EndSegment, input, layout, output, Labels
<1>26. ASSUME Fclose PROVE TypeInv'
  <2>1. pc' \in {"closed", "end"} /\ index' = 1 /\ UNCHANGED <<input, layout, pos, output>>
    BY <1>26 DEF Fclose, Goto
  <2> QED BY <2>1 DEF TypeInv, TypeOK, input, layout, output, Labels
<1>27. CASE UNCHANGED vars
  BY <1>27 DEF TypeInv, TypeOK, vars, input, layout, output, Phnum
<1> QED
  BY <1>1, <1>2, <1>3, <1>4, <1>5, <1>6, <1>7, <1>8, <1>9, <1>10, <1>11, <1>12, <1>13, <1>14, <1>15, <1>16, <1>17, <1>18, <1>19, <1>20, <1>21, <1>22, <1>23, <1>24, <1>25, <1>26, <1>27 DEF Next

LEMMA TypeAlways == Spec => []TypeInv
  BY TypeInit, TypeNext, PTL DEF Spec

(* The state of DoCoredump keeps its types: in particular no size or position
   it computes becomes negative. *)
THEOREM TypeCorrect == Spec => []TypeOK
<1>1. TypeInv => TypeOK
  BY DEF TypeInv
<1> QED BY <1>1, TypeAlways, PTL

---------------------------------------------------------------------------
(* The notes: what is announced and what has been written. *)

\* What the loop of WriteCorePrStatus has written after k threads.
ThreadSize == NoteHead + PrStatusSize + (IF Regsets THEN WriteRegsets ELSE 0)
PrWritten(k) == IF k = 0 THEN 0 ELSE k * ThreadSize + WriteCoreSignalInfo

Announced(n) == IF n = 0 THEN 0
                ELSE ThreadNotes(n) + (IF Regsets THEN RegsetNotes(n) ELSE 0)

\* s[n] is the length of the first n file names.
Sums(m, s, n) ==
    /\ s \in [0..n -> Nat] /\ s[0] = 0
    /\ \A k \in 1..n : s[k] = s[k - 1] + m[k].name + 1

NoteSize == (AuxvSize * auxvnum + NoteHead) + Announced(threads)
              + NtFileSize(RoundUp(fileslen, 4))
NoteOffset == EhdrSize + (Phnum + 1) * PhdrSize
NamesStart == note.offset + PrWritten(prnum) + NoteHead + AuxvSize * auxvnum
                + NtFileSize(0)
DataStart  == RoundUp(note.offset + note.filesz, AlignSize)

Parsing == {"fopen", "world", "maps"}
Sizing  == {"auxv", "filter", "ehdr", "notehdr"}
Writing == {"phdrs", "prstatus", "ntfile", "names"}

HeaderInv ==
    /\ pc \in Parsing \cup {"vma", "create"} => extra = 0 /\ note.filesz = 0 /\ pos = 0
    /\ pc \in {"create"} \cup Sizing \cup Writing => note.offset = NoteOffset
    /\ pc \in Sizing \cup Writing => prnum = threads /\ extra = Announced(threads)
    /\ pc \in Sizing => note.filesz = 0 /\ pos = IF pc = "notehdr" THEN EhdrSize ELSE 0
    /\ pc \in Writing => note.filesz = NoteSize
    /\ pc = "phdrs" => index <= Phnum + 1 /\ pos = EhdrSize + index * PhdrSize

NotesInv ==
    /\ pc = "prstatus" => index <= prnum + 1 /\ pos = note.offset + PrWritten(index - 1)
    /\ pc = "ntfile" => pos + NtFileSize(0) = NamesStart
    /\ pc = "mem" => pos = DataStart

NamesInv ==
    /\ pc \in Parsing => fileslen = 0
    /\ pc = "vma" => /\ index <= Phnum + 1
                     /\ \E s : Sums(maps, s, index - 1) /\ fileslen = s[index - 1]
    /\ pc \in {"create"} \cup Sizing \cup Writing =>
           \E s : /\ Sums(maps, s, Phnum) /\ fileslen = s[Phnum]
                  /\ pc = "names" => index <= Phnum + 1 /\ pos = NamesStart + s[index - 1]

LayoutInv == HeaderInv /\ NotesInv /\ NamesInv

LEMMA RegsetTimes ==
  ASSUME NEW n \in Nat
  PROVE  RegsetNotes(n) = n * WriteRegsets /\ WriteRegsets \in Nat
<1>1. \A a, b, c, d \in Nat : a * n + b * n + c * n + d * n = n * (a + b + c + d)
  OBVIOUS
<1> DEFINE a == FpRegsSize + NoteHead
           b == TlsSize + NoteHead
           c == (PacMaskSize + NoteHead) + (KeysSize + NoteHead)
           d == TaggedSize + NoteHead
<1>2. a \in Nat /\ b \in Nat /\ c \in Nat /\ d \in Nat
  BY Sizes
<1>3. RegsetNotes(n) = a * n + b * n + c * n + d * n
  BY DEF RegsetNotes
<1>4. WriteRegsets = a + b + c + d
  BY Sizes DEF WriteRegsets, WriteCoreFpRegs, WriteCoreTLS, WriteCorePAC, WriteCoreMTE
<1> HIDE DEF a, b, c, d
<1> QED BY <1>1, <1>2, <1>3, <1>4

LEMMA PrWrittenFacts ==
  ASSUME NEW k \in Nat
  PROVE  /\ PrWritten(k) \in Nat /\ PrWritten(k) = Announced(k)
         /\ PrWritten(k + 1) = PrWritten(k) + (NoteHead + PrStatusSize)
                + (IF k + 1 = 1 THEN WriteCoreSignalInfo ELSE 0)
                + (IF Regsets THEN WriteRegsets ELSE 0)
<1> DEFINE p == NoteHead + PrStatusSize
           r == IF Regsets THEN WriteRegsets ELSE 0
           g == WriteCoreSignalInfo
<1>1. p \in Nat /\ g \in Nat
  BY Sizes DEF WriteCoreSignalInfo
<1>2. r \in Nat
  BY RegsetTimes
<1>3. ThreadSize = p + r
  BY DEF ThreadSize
<1>4. Announced(k) = IF k = 0 THEN 0 ELSE p * k + g + r * k
  <2>1. (IF Regsets THEN RegsetNotes(k) ELSE 0) = r * k
    BY RegsetTimes
  <2>2. ThreadNotes(k) = p * k + g
    BY Sizes DEF ThreadNotes, WriteCoreSignalInfo
  <2> HIDE DEF p, r, g
  <2> QED BY <1>1, <1>2, <2>1, <2>2, TimesNat DEF Announced
<1>5. /\ PrWritten(k) = IF k = 0 THEN 0 ELSE k * (p + r) + g
      /\ PrWritten(k + 1) = (k + 1) * (p + r) + g
  BY <1>3 DEF PrWritten
<1> HIDE DEF p, r, g
<1>6. k * (p + r) = p * k + r * k /\ (k + 1) * (p + r) = k * (p + r) + (p + r)
      /\ k * (p + r) \in Nat /\ p * k \in Nat /\ r * k \in Nat
  BY <1>1, <1>2
<1>7. PrWritten(k) \in Nat /\ PrWritten(k) = Announced(k)
  BY <1>1, <1>2, <1>4, <1>5, <1>6
<1>8. PrWritten(k + 1) = PrWritten(k) + p + (IF k + 1 = 1 THEN g ELSE 0) + r
  BY <1>1, <1>2, <1>5, <1>6
<1> QED BY <1>7, <1>8 DEF p, r, g

LEMMA SumsExtend ==
  ASSUME NEW m, NEW s, NEW n \in Nat, Sums(m, s, n), m[n + 1].name \in Nat
  PROVE  \E t : Sums(m, t, n + 1) /\ t[n + 1] = s[n] + m[n + 1].name + 1
<1> DEFINE t == [k \in 0..n + 1 |-> IF k = n + 1 THEN s[n] + m[n + 1].name + 1 ELSE s[k]]
<1>1. s \in [0..n -> Nat] /\ s[0] = 0 /\ \A k \in 1..n : s[k] = s[k - 1] + m[k].name + 1
  BY DEF Sums
<1>2. s[n] \in Nat
  BY <1>1
<1>3. t \in [0..n + 1 -> Nat]
  BY <1>1, <1>2
<1>4. t[0] = 0 /\ t[n + 1] = s[n] + m[n + 1].name + 1
  BY <1>1
<1>5. ASSUME NEW k \in 1..n + 1 PROVE t[k] = t[k - 1] + m[k].name + 1
  <2>1. CASE k = n + 1
    BY <2>1, <1>2
  <2>2. CASE k # n + 1
    <3>1. k \in 1..n /\ k - 1 \in 0..n /\ k \in 0..n /\ k # n + 1 /\ k - 1 # n + 1
      BY <2>2
    <3>2. t[k] = s[k] /\ t[k - 1] = s[k - 1]
      BY <3>1
    <3> QED BY <1>1, <3>1, <3>2
  <2> QED BY <2>1, <2>2
<1> QED BY <1>3, <1>4, <1>5 DEF Sums

Loading == {"mem", "nomem", "segment", "page", "pad", "nospace", "closed", "end"}

\* The steps of the last loop do not concern the headers and the notes.
LoadNext == OpenMem \/ SkipSegment \/ BeginSegment \/ WritePage \/ WriteFails
            \/ NoSpace \/ PadPage \/ EndSegment \/ Fclose

LEMMA LoadNextLoads ==
  ASSUME LoadNext
  PROVE  pc' \in Loading \ {"mem"} /\ UNCHANGED <<input, layout>>
<1>1. CASE OpenMem \/ SkipSegment \/ BeginSegment
  BY <1>1 DEF OpenMem, SkipSegment, BeginSegment, Loading, Goto, Again, input, layout
<1>2. CASE WritePage \/ WriteFails \/ NoSpace \/ PadPage
  BY <1>2 DEF WritePage, WriteFails, NoSpace, PadPage, Loading, Goto, input, layout
<1>3. CASE EndSegment \/ Fclose
  BY <1>3 DEF EndSegment, Fclose, Loading, Goto, input, layout
<1> QED BY <1>1, <1>2, <1>3 DEF LoadNext

LEMMA HeaderInit == Init => HeaderInv
  BY DEF Init, HeaderInv, Parsing, Sizing, Writing

LEMMA HeaderNext == TypeInv /\ HeaderInv /\ [Next]_vars => HeaderInv'
<1> SUFFICES ASSUME TypeInv, HeaderInv, [Next]_vars PROVE HeaderInv'
  OBVIOUS
<1> USE DEF Parsing, Sizing, Writing
<1>1. ASSUME pc' \in Loading PROVE HeaderInv'
  BY <1>1 DEF HeaderInv, Loading
<1>2. CASE Fopen \/ StopTheWorld \/ ParseMaps
  BY <1>2 DEF HeaderInv, Fopen, StopTheWorld, ParseMaps, Goto, layout
<1>3. CASE ParserVma
  BY <1>3 DEF HeaderInv, ParserVma, Again
<1>4. CASE CreateCoreNoteHeader
  <2>1. Ephnum = Phnum + 1
    <3>1. Phnum + 1 \in Nat /\ Half \in Nat /\ Phnum + 1 < Half
      <4>1. Phnum \in 0..MaxMaps
        BY Scalars
      <4>2. MaxMaps \in Nat /\ Half \in Nat /\ MaxMaps + 1 < Half
        BY CoreFileAssumption
      <4> QED BY <4>1, <4>2
    <3>2. \A x, y \in Nat : x < y => x % y = x
      OBVIOUS
    <3> QED BY <3>1, <3>2 DEF Ephnum
  <2>2. pc = "vma" /\ pc' = "create" /\ extra' = extra /\ pos' = pos /\ maps' = maps
    BY <1>4 DEF CreateCoreNoteHeader, Goto, input
  <2>3. note' = [note EXCEPT !.offset = NoteOffset]
    BY <1>4, <2>1 DEF CreateCoreNoteHeader, NoteOffset
  <2>4. note'.offset = NoteOffset /\ note'.filesz = note.filesz
    BY <2>3 DEF TypeInv, TypeOK
  <2>5. NoteOffset' = NoteOffset
    BY <2>2 DEF NoteOffset, Phnum
  <2> QED BY <2>2, <2>4, <2>5 DEF HeaderInv
<1>5. CASE CreateCorePrStatus
  <2>1. extra' = Announced(threads)
    <3>1. extra = 0
      BY <1>5 DEF CreateCorePrStatus, HeaderInv
    <3>2. ThreadNotes(threads) \in Nat /\ RegsetNotes(threads) \in Nat
      BY ThreadNotesNat
    <3> QED BY <1>5, <3>1, <3>2 DEF CreateCorePrStatus, Announced
  <2>2. /\ pc = "create" /\ pc' = "auxv" /\ prnum' = threads /\ threads' = threads
        /\ note' = note /\ pos' = pos /\ maps' = maps
    BY <1>5 DEF CreateCorePrStatus, Goto, input
  <2>3. NoteOffset' = NoteOffset /\ Announced(threads)' = Announced(threads)
    BY <2>2 DEF NoteOffset, Phnum, Announced, ThreadNotes, RegsetNotes
  <2> QED BY <2>1, <2>2, <2>3 DEF HeaderInv
<1>6. CASE CreateCoreAUXV \/ SpecialCoreFilter \/ WriteCoreHeader
  <2>1. /\ threads' = threads /\ prnum' = prnum /\ extra' = extra /\ note' = note /\ maps' = maps
        /\ pc \in {"auxv", "filter", "ehdr"}
        /\ \/ pc' \in {"filter", "ehdr"} /\ pos' = pos
           \/ pc' = "notehdr" /\ pos' = pos + EhdrSize
    BY <1>6 DEF CreateCoreAUXV, SpecialCoreFilter, WriteCoreHeader, Goto, input, layout
  <2>2. NoteOffset' = NoteOffset /\ Announced(threads)' = Announced(threads)
    BY <2>1 DEF NoteOffset, Phnum, Announced, ThreadNotes, RegsetNotes
  <2>3. 0 + EhdrSize = EhdrSize
    BY Sizes
  <2> QED BY <2>1, <2>2, <2>3 DEF HeaderInv
<1>7. CASE WriteCoreNoteHeader
  <2>1. /\ pc = "notehdr" /\ pc' = "phdrs" /\ index' = 1 /\ pos' = pos + PhdrSize
        /\ maps' = maps /\ threads' = threads /\ auxvnum' = auxvnum /\ fileslen' = fileslen
        /\ extra' = extra /\ prnum' = prnum
    BY <1>7 DEF WriteCoreNoteHeader, Goto, input
  <2>2. note.filesz = 0 /\ extra = Announced(threads) /\ pos = EhdrSize
    BY <2>1 DEF HeaderInv
  <2>3. /\ AuxvSize * auxvnum \in Nat /\ NoteHead \in Nat /\ extra \in Nat
        /\ NtFileSize(RoundUp(fileslen, 4)) \in Nat
    <3>1. AuxvSize * auxvnum \in Nat
      BY Scalars, Sizes, TimesNat
    <3>2. NtFileSize(RoundUp(fileslen, 4)) \in Nat
      <4>1. RoundUp(fileslen, 4) \in Nat /\ Phnum \in Nat
        BY Scalars, RoundUp4
      <4> QED BY <4>1, NtFileSizeNat
    <3> QED BY <3>1, <3>2, Scalars, Sizes
  <2>4. note.filesz + (AuxvSize * auxvnum + NoteHead) + extra
          + NtFileSize(RoundUp(fileslen, 4)) = NoteSize
    BY <2>2, <2>3 DEF NoteSize
  <2>5. note' = [note EXCEPT !.filesz = NoteSize]
    BY <1>7, <2>4 DEF WriteCoreNoteHeader
  <2>6. note'.filesz = NoteSize /\ note'.offset = note.offset
    BY <2>5 DEF TypeInv, TypeOK
  <2>7. NoteOffset' = NoteOffset /\ Announced(threads)' = Announced(threads)
        /\ NoteSize' = NoteSize /\ Phnum' = Phnum
    BY <2>1 DEF NoteOffset, Phnum, Announced, ThreadNotes, RegsetNotes, NoteSize, NtFileSize
  <2>8. 1 <= Phnum + 1 /\ EhdrSize + PhdrSize = EhdrSize + 1 * PhdrSize
    BY Scalars, Sizes
  <2> QED BY <2>1, <2>2, <2>6, <2>7, <2>8 DEF HeaderInv
<1>8. ASSUME pc' \in Writing, UNCHANGED <<maps, threads, auxvnum, fileslen, extra, prnum, note>>,
             pc \in Writing
      PROVE  /\ note'.offset = NoteOffset' /\ note'.filesz = NoteSize'
             /\ prnum' = threads' /\ extra' = Announced(threads)'
  <2>1. NoteOffset' = NoteOffset /\ Announced(threads)' = Announced(threads) /\ NoteSize' = NoteSize
    BY <1>8 DEF NoteOffset, Phnum, Announced, ThreadNotes, RegsetNotes, NoteSize, NtFileSize
  <2> QED BY <1>8, <2>1 DEF HeaderInv
<1>9. CASE WriteCoreProgramHeader
  <2>1. /\ pc = "phdrs" /\ pc' = "phdrs" /\ index <= Phnum /\ index' = index + 1
        /\ pos' = pos + PhdrSize
        /\ UNCHANGED <<maps, threads, auxvnum, fileslen, extra, prnum, note>>
    BY <1>9 DEF WriteCoreProgramHeader, Again, input
  <2>2. pos = EhdrSize + index * PhdrSize
    BY <2>1 DEF HeaderInv
  <2>3. (index + 1) * PhdrSize = index * PhdrSize + PhdrSize /\ index * PhdrSize \in Nat
    <3>1. index \in Nat /\ PhdrSize \in Nat
      BY Scalars, Sizes
    <3> QED BY <3>1
  <2>4. pos + PhdrSize = EhdrSize + (index + 1) * PhdrSize
    <3>1. EhdrSize \in Nat /\ PhdrSize \in Nat BY Sizes
    <3> QED BY <2>2, <2>3, <3>1
  <2>5. index + 1 <= Phnum' + 1
    BY <2>1, Scalars DEF Phnum
  <2> QED BY <1>8, <2>1, <2>4, <2>5 DEF HeaderInv
<1>10. CASE ProgramHeadersWritten \/ WriteCorePrStatus \/ WriteCoreAUXV \/ WriteNtFile \/ WriteFileName
  <2>1. /\ pc \in Writing /\ pc' \in Writing \ {"phdrs"}
        /\ UNCHANGED <<maps, threads, auxvnum, fileslen, extra, prnum, note>>
    BY <1>10 DEF ProgramHeadersWritten, WriteCorePrStatus, WriteCoreAUXV, WriteNtFile,
       WriteFileName, Goto, Again, input, layout
  <2> QED BY <1>8, <2>1 DEF HeaderInv
<1>11. CASE AlignNoteSegment
  BY <1>1, <1>11 DEF AlignNoteSegment, Goto, Loading
<1>12. CASE LoadNext
  BY <1>1, <1>12, LoadNextLoads
<1>13. CASE UNCHANGED vars
  BY <1>13 DEF HeaderInv, vars, input, layout, NoteOffset, NoteSize, Announced, ThreadNotes,
     RegsetNotes, NtFileSize, Phnum
<1> QED
  BY <1>2, <1>3, <1>4, <1>5, <1>6, <1>7, <1>9, <1>10, <1>11, <1>12, <1>13 DEF Next, LoadNext

LEMMA NamesStartNat ==
  ASSUME TypeInv
  PROVE  NamesStart \in Nat
<1>1. note.offset \in Nat /\ PrWritten(prnum) \in Nat /\ NoteHead \in Nat
  BY Scalars, PrWrittenFacts, Sizes
<1>2. AuxvSize * auxvnum \in Nat /\ NtFileSize(0) \in Nat
  <2>1. AuxvSize * auxvnum \in Nat
    BY Scalars, Sizes, TimesNat
  <2> QED BY <2>1, Scalars, NtFileSizeNat
<1> QED BY <1>1, <1>2 DEF NamesStart

LEMMA NotesInit == Init => NotesInv /\ NamesInv
  BY DEF Init, NotesInv, NamesInv, Parsing, Sizing, Writing

LEMMA NamesNext == TypeInv /\ LayoutInv /\ [Next]_vars => NamesInv'
<1> SUFFICES ASSUME TypeInv, LayoutInv, [Next]_vars PROVE NamesInv'
  OBVIOUS
<1> USE DEF Parsing, Sizing, Writing
<1>1. ASSUME pc' \in Loading PROVE NamesInv'
  BY <1>1 DEF NamesInv, Loading
<1>2. CASE Fopen \/ StopTheWorld
  BY <1>2 DEF LayoutInv, NamesInv, Fopen, StopTheWorld, Goto, layout
<1>3. CASE ParseMaps
  <2>1. pc' = "vma" /\ index' = 1 /\ fileslen' = 0
    BY <1>3 DEF ParseMaps, Goto, LayoutInv, NamesInv
  <2>2. 1 <= Phnum' + 1
    BY TypeNext, Scalars DEF Phnum, TypeInv, TypeOK
  <2>3. Sums(maps', [k \in 0..0 |-> 0], 0)
    BY DEF Sums
  <2>4. \E s : Sums(maps', s, 0) /\ 0 = s[0]
    BY <2>3 DEF Sums
  <2>5. index' - 1 = 0
    BY <2>1
  <2> QED BY <2>1, <2>2, <2>4, <2>5 DEF NamesInv
<1>4. CASE ParserVma
  <2>1. /\ pc = "vma" /\ pc' = "vma" /\ index \in 1..Len(maps) /\ index' = index + 1
        /\ maps' = maps /\ fileslen' = fileslen + maps[index].name + 1
    BY <1>4, Scalars DEF ParserVma, Again, input
  <2>2. PICK s : Sums(maps, s, index - 1) /\ fileslen = s[index - 1]
    BY <2>1 DEF LayoutInv, NamesInv
  <2>3. index - 1 \in Nat /\ (index - 1) + 1 = index /\ maps[index].name \in Nat
    BY <2>1, MapsFacts
  <2>4. \E t : Sums(maps, t, index) /\ t[index] = s[index - 1] + maps[index].name + 1
    BY <2>2, <2>3, SumsExtend
  <2>5. index' - 1 = index /\ index' <= Phnum' + 1
    BY <2>1, Scalars DEF Phnum
  <2> QED BY <2>1, <2>2, <2>4, <2>5 DEF NamesInv
<1>5. CASE CreateCoreNoteHeader
  <2>1. /\ pc = "vma" /\ pc' = "create" /\ maps' = maps /\ fileslen' = fileslen
        /\ index > Phnum
    BY <1>5 DEF CreateCoreNoteHeader, Goto, input
  <2>2. PICK s : Sums(maps, s, index - 1) /\ fileslen = s[index - 1] /\ index <= Phnum + 1
    BY <2>1 DEF LayoutInv, NamesInv
  <2>3. index - 1 = Phnum
    BY <2>1, <2>2, Scalars
  <2> QED BY <2>1, <2>2, <2>3 DEF NamesInv, Phnum
<1>6. ASSUME pc \in {"create"} \cup Sizing \cup Writing, UNCHANGED <<maps, fileslen>>,
             pc' \in ({"create"} \cup Sizing \cup Writing) \ {"names"}
      PROVE  NamesInv'
  <2>1. PICK s : Sums(maps, s, Phnum) /\ fileslen = s[Phnum]
    BY <1>6 DEF LayoutInv, NamesInv
  <2> QED BY <1>6, <2>1 DEF NamesInv, Phnum
<1>7. CASE CreateCorePrStatus \/ CreateCoreAUXV \/ SpecialCoreFilter \/ WriteCoreHeader
           \/ WriteCoreNoteHeader
  BY <1>6, <1>7 DEF CreateCorePrStatus, CreateCoreAUXV, SpecialCoreFilter, WriteCoreHeader,
     WriteCoreNoteHeader, Goto, input, layout
<1>8. CASE WriteCoreProgramHeader \/ ProgramHeadersWritten \/ WriteCorePrStatus \/ WriteCoreAUXV
  BY <1>6, <1>8 DEF WriteCoreProgramHeader, ProgramHeadersWritten, WriteCorePrStatus,
     WriteCoreAUXV, Goto, Again, input, layout
<1>9. CASE WriteNtFile
  <2>1. /\ pc = "ntfile" /\ pc' = "names" /\ index' = 1 /\ pos' = pos + NtFileSize(0)
        /\ UNCHANGED <<maps, fileslen, auxvnum, note, prnum>>
    BY <1>9 DEF WriteNtFile, Goto, input, layout
  <2>2. PICK s : Sums(maps, s, Phnum) /\ fileslen = s[Phnum]
    BY <2>1 DEF LayoutInv, NamesInv
  <2>3. NamesStart' = NamesStart /\ Phnum' = Phnum
    BY <2>1 DEF NamesStart, NtFileSize, Phnum, PrWritten
  <2>4. pos' = NamesStart /\ pos' \in Nat
    BY <2>1, TypeNext DEF LayoutInv, NotesInv, TypeInv, TypeOK
  <2>5. index' - 1 = 0 /\ s[0] = 0 /\ index' <= Phnum + 1
    BY <2>1, <2>2, Scalars DEF Sums
  <2>6. pos' = NamesStart + s[index' - 1]
    BY <2>4, <2>5
  <2> QED BY <2>1, <2>2, <2>3, <2>5, <2>6 DEF NamesInv
<1>10. CASE WriteFileName
  <2>1. /\ pc = "names" /\ pc' = "names" /\ index \in 1..Len(maps) /\ index' = index + 1
        /\ pos' = pos + maps[index].name + 1
        /\ UNCHANGED <<maps, fileslen, auxvnum, note, prnum>>
    BY <1>10, Scalars DEF WriteFileName, Again, input, layout
  <2>2. PICK s : Sums(maps, s, Phnum) /\ fileslen = s[Phnum] /\ pos = NamesStart + s[index - 1]
    BY <2>1 DEF LayoutInv, NamesInv
  <2>3. NamesStart' = NamesStart /\ Phnum' = Phnum
    BY <2>1 DEF NamesStart, NtFileSize, Phnum, PrWritten
  <2>4. index' - 1 = index /\ index' <= Phnum + 1
    BY <2>1, Scalars
  <2>5. s[index] = s[index - 1] + maps[index].name + 1 /\ s[index - 1] \in Nat
        /\ maps[index].name \in Nat
    <3>1. index \in 1..Phnum /\ index - 1 \in 0..Phnum
      BY <2>1, Scalars
    <3>2. maps[index].name \in Nat
      BY <2>1, MapsFacts
    <3> QED BY <2>2, <3>1, <3>2 DEF Sums
  <2>6. pos' = NamesStart + s[index' - 1]
    <3>1. NamesStart \in Nat
      BY NamesStartNat
    <3>2. s[index' - 1] = s[index]
      BY <2>4
    <3> HIDE DEF Parsing, Sizing, Writing
    <3>3. pos' = (NamesStart + s[index - 1]) + maps[index].name + 1
      BY <2>1, <2>2
    <3> QED BY <2>5, <3>1, <3>2, <3>3
  <2> QED BY <2>1, <2>2, <2>3, <2>4, <2>6 DEF NamesInv
<1>11. CASE AlignNoteSegment
  BY <1>1, <1>11 DEF AlignNoteSegment, Goto, Loading
<1>12. CASE LoadNext
  BY <1>1, <1>12, LoadNextLoads
<1>13. CASE UNCHANGED vars
  <2>1. UNCHANGED <<pc, index, maps, fileslen, pos, auxvnum, note, prnum>>
    BY <1>13 DEF vars, input, layout
  <2>2. NamesStart' = NamesStart /\ Phnum' = Phnum
    BY <2>1 DEF NamesStart, NtFileSize, Phnum, PrWritten
  <2> QED BY <2>1, <2>2 DEF LayoutInv, NamesInv
<1> QED
  BY <1>2, <1>3, <1>4, <1>5, <1>7, <1>8, <1>9, <1>10, <1>11, <1>12, <1>13 DEF Next, LoadNext

\* At the end of the names, what has been written is what NoteEnd subtracts
\* from: the announced end of the notes without the padding of the names.
LEMMA NotesEnd ==
  ASSUME TypeInv, LayoutInv, pc = "names", index > Phnum
  PROVE  pos + (RoundUp(fileslen, 4) - fileslen) = note.offset + note.filesz
<1>1. PICK s : /\ Sums(maps, s, Phnum) /\ fileslen = s[Phnum]
               /\ index <= Phnum + 1 /\ pos = NamesStart + s[index - 1]
  BY DEF LayoutInv, NamesInv, Writing
<1>2. index - 1 = Phnum
  BY <1>1, Scalars
<1>3. pos = NamesStart + fileslen
  BY <1>1, <1>2
<1>4. note.filesz = NoteSize /\ prnum = threads
  BY DEF LayoutInv, HeaderInv, Writing
<1> DEFINE r == RoundUp(fileslen, 4)
           a == AuxvSize * auxvnum
           f == FileSize * Phnum
           w == PrWritten(threads)
<1>5. r \in Nat /\ fileslen \in Nat
  BY RoundUp4, Scalars
<1>6. a \in Nat /\ f \in Nat
  <2>1. Phnum \in Nat /\ auxvnum \in Nat
    BY Scalars
  <2>2. FileSize \in Nat /\ AuxvSize \in Nat
    BY Sizes
  <2> QED BY <2>1, <2>2, TimesNat
<1>7. w \in Nat /\ w = Announced(threads)
  BY Scalars, PrWrittenFacts
<1>8. NamesStart = note.offset + w + NoteHead + a + (f + NoteHead + CountSize + 0)
  BY <1>4 DEF NamesStart, NtFileSize
<1>9. NoteSize = (a + NoteHead) + w + (f + NoteHead + CountSize + r)
  BY <1>7 DEF NoteSize, NtFileSize
<1>10. NoteHead \in Nat /\ CountSize \in Nat /\ note.offset \in Nat
  BY Sizes, Scalars
<1> HIDE DEF r, a, f, w
<1>11. (NamesStart + fileslen) + (r - fileslen) = note.offset + NoteSize
  BY <1>5, <1>6, <1>7, <1>8, <1>9, <1>10
<1> QED BY <1>3, <1>4, <1>11 DEF r

LEMMA FourSizes ==
    /\ Four(EhdrSize) /\ Four(PhdrSize) /\ Four(NoteHead) /\ Four(PrStatusSize)
    /\ Four(SigInfoSize) /\ Four(FpRegsSize) /\ Four(TlsSize) /\ Four(PacMaskSize)
    /\ Four(KeysSize) /\ Four(TaggedSize) /\ Four(AuxvSize) /\ Four(FileSize)
    /\ Four(CountSize) /\ Four(AlignSize)
  BY FourMod, Sizes, AlignmentAssumption

LEMMA FourPrWritten == ASSUME NEW k \in Nat PROVE Four(PrWritten(k))
<1>1. Four(0)
  BY DEF Four
<1>2. Four(WriteRegsets)
  BY FourSizes, FourPlus DEF WriteRegsets, WriteCoreFpRegs, WriteCoreTLS, WriteCorePAC, WriteCoreMTE
<1>3. Four(IF Regsets THEN WriteRegsets ELSE 0)
  BY <1>1, <1>2
<1>4. Four(NoteHead + PrStatusSize)
  BY FourSizes, FourPlus
<1>5. Four(ThreadSize)
  BY <1>3, <1>4, FourPlus DEF ThreadSize
<1>6. Four(k * ThreadSize)
  BY <1>5, FourTimes
<1>7. Four(WriteCoreSignalInfo)
  BY FourSizes, FourPlus DEF WriteCoreSignalInfo
<1>8. Four(k * ThreadSize + WriteCoreSignalInfo)
  BY <1>6, <1>7, FourPlus
<1> QED BY <1>1, <1>8 DEF PrWritten

\* The announced end of the notes is a multiple of 4.
LEMMA FourNotes ==
  ASSUME TypeInv, LayoutInv, pc = "names"
  PROVE  Four(note.offset + note.filesz)
<1>1. note.filesz = NoteSize /\ note.offset = NoteOffset
  BY DEF LayoutInv, HeaderInv, Writing
<1>2. Four((Phnum + 1) * PhdrSize)
  <2>1. Phnum + 1 \in Nat
    BY Scalars
  <2> QED BY <2>1, FourTimes, FourSizes
<1>3. Four(NoteOffset)
  BY <1>2, FourPlus, FourSizes DEF NoteOffset
<1>4. Four(AuxvSize * auxvnum) /\ Four(FileSize * Phnum)
  BY Scalars, FourTimes, FourSizes
<1>5. Four(AuxvSize * auxvnum + NoteHead)
  BY <1>4, FourPlus, FourSizes
<1>6. Four(Announced(threads))
  BY Scalars, PrWrittenFacts, FourPrWritten
<1>7. Four(RoundUp(fileslen, 4))
  <2>1. 4 \in Nat \ {0}
    OBVIOUS
  <2>2. PICK z \in Nat : RoundUp(fileslen, 4) = z * 4
    BY <2>1, Scalars, RoundUpFacts
  <2>3. Four(4)
    BY DEF Four
  <2> QED BY <2>2, <2>3, FourTimes
<1>8. Four(FileSize * Phnum + NoteHead)
  BY <1>4, FourPlus, FourSizes
<1>9. Four(FileSize * Phnum + NoteHead + CountSize)
  BY <1>8, FourPlus, FourSizes
<1>10. Four(NtFileSize(RoundUp(fileslen, 4)))
  BY <1>7, <1>9, FourPlus DEF NtFileSize
<1>11. Four((AuxvSize * auxvnum + NoteHead) + Announced(threads))
  BY <1>5, <1>6, FourPlus
<1>12. Four(NoteSize)
  BY <1>10, <1>11, FourPlus DEF NoteSize
<1> QED BY <1>1, <1>3, <1>12, FourPlus

\* AlignNoteSegment reaches the place WriteCoreProgramHeader has announced.
LEMMA Aligned ==
  ASSUME TypeInv, LayoutInv, AlignNoteSegment
  PROVE  pos' = DataStart
<1>1. /\ pc = "names" /\ index > Phnum
      /\ pos' = pos + (RoundUp(NoteEnd, AlignSize) - NoteEnd)
  BY DEF AlignNoteSegment
<1> DEFINE r == RoundUp(fileslen, 4)
           x == note.offset + note.filesz
           p == r - fileslen
<1>2. r \in Nat /\ fileslen <= r /\ r < fileslen + 4
  <2>1. 4 \in Nat \ {0} OBVIOUS
  <2> QED BY <2>1, RoundUpFacts, Scalars
<1>3. p \in 0..3
  <2>1. fileslen \in Nat
    BY Scalars
  <2> HIDE DEF r
  <2> QED BY <1>2, <2>1
<1>4. pos + p = x
  BY <1>1, NotesEnd
<1>5. x \in Nat /\ pos \in Nat /\ Four(x)
  <2>1. note.offset \in Nat /\ note.filesz \in Nat /\ pos \in Nat
    BY Scalars
  <2>2. Four(x)
    BY <1>1, FourNotes
  <2> QED BY <2>1, <2>2
<1>6. NoteEnd = x - p
  <2>1. fileslen \in Nat /\ note.offset \in Nat /\ note.filesz \in Nat
    BY Scalars
  <2>2. NoteEnd = note.offset + (note.filesz - r + fileslen)
    BY DEF NoteEnd
  <2> HIDE DEF r
  <2> QED BY <1>2, <2>1, <2>2
<1> HIDE DEF r, x, p
<1>7. p <= x /\ x - p = pos
  BY <1>3, <1>4, <1>5
<1>8. RoundUp(x - p, AlignSize) = RoundUp(x, AlignSize)
  BY <1>3, <1>5, <1>7, RoundUpPadded, FourSizes, Sizes
<1>9. RoundUp(x, AlignSize) \in Nat
  BY <1>5, RoundUpFacts, Sizes
<1>10. pos' = RoundUp(x, AlignSize)
  BY <1>1, <1>5, <1>6, <1>7, <1>8, <1>9
<1> QED BY <1>10 DEF DataStart, x

LEMMA NotesNext == TypeInv /\ LayoutInv /\ [Next]_vars => NotesInv'
<1> SUFFICES ASSUME TypeInv, LayoutInv, [Next]_vars PROVE NotesInv'
  OBVIOUS
<1>1. ASSUME pc' \notin {"prstatus", "ntfile", "mem"} PROVE NotesInv'
  BY <1>1 DEF NotesInv
<1>2. CASE Fopen \/ StopTheWorld \/ ParseMaps \/ ParserVma \/ CreateCoreNoteHeader
           \/ CreateCorePrStatus \/ CreateCoreAUXV \/ SpecialCoreFilter \/ WriteCoreHeader
           \/ WriteCoreNoteHeader \/ WriteCoreProgramHeader
  BY <1>1, <1>2 DEF Fopen, StopTheWorld, ParseMaps, ParserVma, CreateCoreNoteHeader,
     CreateCorePrStatus, CreateCoreAUXV, SpecialCoreFilter, WriteCoreHeader,
     WriteCoreNoteHeader, WriteCoreProgramHeader, Goto, Again
<1>3. CASE WriteNtFile \/ WriteFileName
  BY <1>1, <1>3 DEF WriteNtFile, WriteFileName, Goto, Again
<1>4. CASE ProgramHeadersWritten
  <2>1. /\ pc = "phdrs" /\ index > Phnum /\ pc' = "prstatus" /\ index' = 1
        /\ UNCHANGED <<pos, note, prnum>>
    BY <1>4 DEF ProgramHeadersWritten, Goto, layout
  <2>2. index <= Phnum + 1 /\ pos = EhdrSize + index * PhdrSize /\ note.offset = NoteOffset
    BY <2>1 DEF LayoutInv, HeaderInv, Writing
  <2>3. index = Phnum + 1
    BY <2>1, <2>2, Scalars
  <2>4. pos = note.offset
    BY <2>2, <2>3 DEF NoteOffset
  <2>5. index' - 1 = 0 /\ PrWritten(0) = 0 /\ PrWritten(0)' = 0 /\ index' <= prnum + 1
    BY <2>1, Scalars DEF PrWritten
  <2>6. pos = note.offset + 0
    BY <2>4, Scalars
  <2> QED BY <2>1, <2>5, <2>6 DEF NotesInv
<1>5. CASE WriteCorePrStatus
  <2>1. /\ pc = "prstatus" /\ index <= prnum /\ pc' = "prstatus" /\ index' = index + 1
        /\ pos' = pos + (NoteHead + PrStatusSize)
                      + (IF index = 1 THEN WriteCoreSignalInfo ELSE 0)
                      + (IF Regsets THEN WriteRegsets ELSE 0)
        /\ UNCHANGED <<note, prnum>>
    BY <1>5 DEF WriteCorePrStatus, Again, layout
  <2>2. pos = note.offset + PrWritten(index - 1)
    BY <2>1 DEF LayoutInv, NotesInv
  <2>3. index - 1 \in Nat /\ (index - 1) + 1 = index
    BY Scalars
  <2>4. /\ PrWritten(index - 1) \in Nat
        /\ PrWritten(index) = PrWritten(index - 1) + (NoteHead + PrStatusSize)
              + (IF index = 1 THEN WriteCoreSignalInfo ELSE 0)
              + (IF Regsets THEN WriteRegsets ELSE 0)
    BY <2>3, PrWrittenFacts
  <2>5. NoteHead + PrStatusSize \in Nat /\ WriteCoreSignalInfo \in Nat /\ WriteRegsets \in Nat
    <3>1. 0 \in Nat OBVIOUS
    <3> QED BY <3>1, Sizes, RegsetTimes DEF WriteCoreSignalInfo
  <2>6. pos' = note.offset + PrWritten(index)
    <3> DEFINE g == IF index = 1 THEN WriteCoreSignalInfo ELSE 0
               r == IF Regsets THEN WriteRegsets ELSE 0
               h == NoteHead + PrStatusSize
    <3>1. g \in Nat /\ r \in Nat /\ h \in Nat
      BY <2>5
    <3>2. pos' = pos + h + g + r /\ PrWritten(index) = PrWritten(index - 1) + h + g + r
      BY <2>1, <2>4
    <3> HIDE DEF g, r, h
    <3>3. note.offset \in Nat BY Scalars
    <3> QED BY <2>2, <2>4, <3>1, <3>2, <3>3
  <2>7. index' - 1 = index /\ index' <= prnum + 1
    <3>1. index \in Nat /\ prnum \in Nat
      BY Scalars
    <3> QED BY <2>1, <3>1
  <2> QED BY <2>1, <2>6, <2>7 DEF NotesInv
<1>6. CASE WriteCoreAUXV
  <2>1. /\ pc = "prstatus" /\ index > prnum /\ pc' = "ntfile"
        /\ pos' = pos + NoteHead + AuxvSize * auxvnum
        /\ UNCHANGED <<note, prnum, auxvnum, maps>>
    BY <1>6 DEF WriteCoreAUXV, Goto, layout, input
  <2>2. index <= prnum + 1 /\ pos = note.offset + PrWritten(index - 1)
    BY <2>1 DEF LayoutInv, NotesInv
  <2>3. index - 1 = prnum
    <3>1. index \in Nat /\ prnum \in Nat
      BY Scalars
    <3> QED BY <2>1, <2>2, <3>1
  <2>4. pos' = note.offset + PrWritten(prnum) + NoteHead + AuxvSize * auxvnum
    BY <2>1, <2>2, <2>3
  <2>5. NamesStart' = NamesStart
    BY <2>1 DEF NamesStart, NtFileSize, Phnum, PrWritten
  <2>6. NtFileSize(0)' = NtFileSize(0)
    BY <2>1 DEF NtFileSize, Phnum
  <2>7. pos' + NtFileSize(0) = NamesStart
    BY <2>4 DEF NamesStart
  <2> QED BY <2>1, <2>5, <2>6, <2>7 DEF NotesInv
<1>7. CASE AlignNoteSegment
  <2>1. pc' = "mem" /\ note' = note
    BY <1>7 DEF AlignNoteSegment, Goto, layout
  <2>2. DataStart' = DataStart
    BY <2>1 DEF DataStart
  <2> QED BY <1>7, <2>1, <2>2, Aligned DEF NotesInv
<1>8. CASE LoadNext
  BY <1>1, <1>8, LoadNextLoads DEF Loading
<1>9. CASE UNCHANGED vars
  <2>1. UNCHANGED <<pc, index, maps, pos, auxvnum, note, prnum>>
    BY <1>9 DEF vars, input, layout
  <2> QED BY <2>1 DEF LayoutInv, NotesInv, NamesStart, NtFileSize, Phnum, PrWritten, DataStart
<1> QED
  BY <1>2, <1>3, <1>4, <1>5, <1>6, <1>7, <1>8, <1>9 DEF Next, LoadNext

LEMMA LayoutAlways == Spec => [](TypeInv /\ LayoutInv)
<1>1. Init => TypeInv /\ LayoutInv
  BY TypeInit, HeaderInit, NotesInit DEF LayoutInv
<1>2. TypeInv /\ LayoutInv /\ [Next]_vars => TypeInv' /\ LayoutInv'
  BY TypeNext, HeaderNext, NotesNext, NamesNext DEF LayoutInv
<1> QED BY <1>1, <1>2, PTL DEF Spec

(* The program headers end where p_offset of the note segment says. *)
THEOREM HeadersThenNotes == Spec => []NotesFollowHeaders
<1>1. TypeInv /\ LayoutInv => NotesFollowHeaders
  <2> SUFFICES ASSUME TypeInv, LayoutInv, pc = "prstatus", index = 1 PROVE pos = note.offset
    BY DEF NotesFollowHeaders
  <2>1. pos = note.offset + PrWritten(index - 1)
    BY DEF LayoutInv, NotesInv
  <2>2. PrWritten(index - 1) = 0
    BY DEF PrWritten
  <2> QED BY <2>1, <2>2, Scalars
<1> QED BY <1>1, LayoutAlways, PTL

(* The notes written are as many bytes as p_filesz of their segment announces,
   for any number of threads, VMAs and auxiliary vectors: every count of
   Create... agrees with what Write... writes. *)
THEOREM NotesAsAnnounced == Spec => []NotesAddUp
<1>1. TypeInv /\ LayoutInv => NotesAddUp
  BY NotesEnd DEF NotesAddUp
<1> QED BY <1>1, LayoutAlways, PTL

(* The note segment is where its program header says, at both ends. *)
THEOREM NotesWhereAnnounced == Spec => []NotesInPlace
BY HeadersThenNotes, NotesAsAnnounced, PTL DEF NotesInPlace

---------------------------------------------------------------------------
(***************************************************************************)
(* The load part of the core file: every page where its program header says,*)
(* and in a file written to its end every page of every segment.           *)
(***************************************************************************)

---------------------------------------------------------------------------
(* The offsets of the program headers. *)

SegStart(i) == IF i = 1 THEN DataStart ELSE NextOffset(i - 1)
Chained(n)  == \A i \in 1..n : phdr[i].offset = SegStart(i)

Sized == \A i \in 1..Phnum : phdr[i].filesz = 0 \/ phdr[i].filesz = Memsz(i)

Before == Parsing \cup {"vma", "create"} \cup Sizing \cup Writing \cup {"mem"}
Laid   == {"prstatus", "ntfile", "names"} \cup (Loading \ {"end"})

OffsetInv ==
    /\ Sized
    /\ pc = "phdrs" => Chained(index - 1)
    /\ pc \in Laid => Chained(Phnum)
    /\ pc \in Before => content = [p \in {} |-> Zeroes] /\ failed = {}

LEMMA OffsetInit == Init => OffsetInv
  BY DEF Init, OffsetInv, Sized, Phnum, Laid, Loading

LEMMA OffsetNext == TypeInv /\ LayoutInv /\ OffsetInv /\ [Next]_vars => OffsetInv'
<1> SUFFICES ASSUME TypeInv, LayoutInv, OffsetInv, [Next]_vars PROVE OffsetInv'
  OBVIOUS
<1> USE DEF Parsing, Sizing, Writing, Before, Laid
<1>1. ASSUME UNCHANGED <<phdr, maps>> PROVE Sized'
  BY <1>1 DEF OffsetInv, Sized, Memsz, Phnum
<1>2. ASSUME UNCHANGED <<phdr, maps, note>>, NEW n \in Nat, Chained(n) PROVE Chained(n)'
  BY <1>2 DEF Chained, SegStart, DataStart, NextOffset
<1>3. CASE Fopen \/ StopTheWorld \/ CreateCoreNoteHeader \/ CreateCorePrStatus \/ CreateCoreAUXV
           \/ WriteCoreHeader
  <2>1. /\ pc \in Before /\ pc' \in (Before \cup {"end"}) \ ({"phdrs", "mem"} \cup Laid)
        /\ UNCHANGED <<phdr, maps, content, failed>>
    BY <1>3 DEF Fopen, StopTheWorld, CreateCoreNoteHeader, CreateCorePrStatus, CreateCoreAUXV,
       WriteCoreHeader, Goto, input, layout, output, Loading
  <2> QED BY <1>1, <2>1 DEF OffsetInv
<1>4. CASE ParseMaps
  <2>1. /\ pc = "maps" /\ pc' = "vma" /\ UNCHANGED <<content, failed>>
        /\ phdr' = [i \in 1..Len(maps') |-> [offset |-> 0, filesz |-> 0]]
    BY <1>4 DEF ParseMaps, Goto, output
  <2>2. Sized'
    BY <2>1 DEF Sized, Phnum
  <2> QED BY <2>1, <2>2 DEF OffsetInv, Loading
<1>5. CASE ParserVma
  <2>1. /\ pc = "vma" /\ pc' = "vma" /\ UNCHANGED <<maps, content, failed>>
        /\ phdr' = [phdr EXCEPT ![index].filesz = Memsz(index)] /\ index \in 1..Len(maps)
    BY <1>5, Scalars DEF ParserVma, Again, output, input
  <2>2. Sized'
    BY <2>1 DEF Sized, Phnum, OffsetInv, Memsz, TypeInv, TypeOK
  <2> QED BY <2>1, <2>2 DEF OffsetInv, Loading
<1>6. CASE SpecialCoreFilter
  <2>1. /\ pc = "filter" /\ pc' = "ehdr" /\ UNCHANGED <<maps, content, failed>>
        /\ phdr' = [i \in 1..Phnum |-> [phdr[i] EXCEPT !.filesz = Filtered(i)]]
    BY <1>6 DEF SpecialCoreFilter, Goto, output, input
  <2>2. ASSUME NEW i \in 1..Phnum PROVE phdr'[i].filesz = 0 \/ phdr'[i].filesz = Memsz(i)
    <3>1. phdr'[i].filesz = Filtered(i)
      BY <2>1, Scalars DEF TypeInv, TypeOK
    <3> QED BY <3>1 DEF OffsetInv, Sized, Filtered
  <2>3. Sized'
    BY <2>1, <2>2 DEF Sized, Phnum, Memsz
  <2> QED BY <2>1, <2>3 DEF OffsetInv, Loading
<1>7. CASE WriteCoreNoteHeader
  <2>1. /\ pc = "notehdr" /\ pc' = "phdrs" /\ index' = 1 /\ UNCHANGED <<phdr, maps, content, failed>>
    BY <1>7 DEF WriteCoreNoteHeader, Goto, output, input
  <2>2. Chained(index - 1)'
    BY <2>1 DEF Chained
  <2> QED BY <1>1, <2>1, <2>2 DEF OffsetInv, Loading
<1>8. CASE WriteCoreProgramHeader
  <2> DEFINE o == IF index = 1 THEN DataStart ELSE NextOffset(index - 1)
  <2>1. /\ pc = "phdrs" /\ pc' = "phdrs" /\ index' = index + 1 /\ UNCHANGED <<maps, note, content, failed>>
        /\ index \in 1..Len(maps) /\ index' - 1 = index
        /\ phdr' = [phdr EXCEPT ![index].offset = o]
    <3>1. phdr' = [phdr EXCEPT ![index].offset = o]
      BY <1>8 DEF WriteCoreProgramHeader, DataStart
    <3>2. index \in 1..Len(maps) /\ index + 1 - 1 = index
      BY <1>8, Scalars DEF WriteCoreProgramHeader
    <3>3. /\ pc = "phdrs" /\ pc' = "phdrs" /\ index' = index + 1
          /\ UNCHANGED <<maps, note, content, failed>>
      BY <1>8 DEF WriteCoreProgramHeader, Again, output, input
    <3> HIDE DEF o
    <3> QED BY <3>1, <3>2, <3>3
  <2>2. o = SegStart(index)
    BY DEF SegStart
  <2> HIDE DEF o
  <2>3. /\ \A i \in 1..Len(maps) : phdr'[i].filesz = phdr[i].filesz
        /\ \A i \in 1..Len(maps) : i # index => phdr'[i] = phdr[i]
        /\ phdr'[index].offset = SegStart(index)
    BY <2>1, <2>2 DEF TypeInv, TypeOK
  <2>4. Sized'
    BY <2>1, <2>3 DEF Sized, Phnum, OffsetInv, Memsz
  <2>5. ASSUME NEW i \in 1..index PROVE SegStart(i)' = SegStart(i)
    <3>1. CASE i = 1
      BY <3>1, <2>1 DEF SegStart, DataStart
    <3>2. CASE i # 1
      <4>1. i - 1 \in 1..Len(maps) /\ i - 1 # index
        <5>1. Len(maps) \in Nat /\ index \in 1..Len(maps)
          BY <2>1, Scalars
        <5> QED BY <3>2, <5>1
      <4> QED BY <3>2, <4>1, <2>3 DEF SegStart, NextOffset
    <3> QED BY <3>1, <3>2
  <2>6. ASSUME NEW i \in 1..index PROVE phdr'[i].offset = SegStart(i)'
    <3>1. CASE i = index
      BY <3>1, <2>3, <2>5
    <3>2. CASE i # index
      <4>1. i \in 1..index - 1 /\ i \in 1..Len(maps)
        BY <3>2, <2>1
      <4>2. phdr[i].offset = SegStart(i)
        BY <4>1, <2>1 DEF OffsetInv, Chained
      <4> QED BY <3>2, <4>1, <4>2, <2>3, <2>5
    <3> QED BY <3>1, <3>2
  <2>7. Chained(index - 1)'
    BY <2>1, <2>6 DEF Chained
  <2> QED BY <2>1, <2>4, <2>7 DEF OffsetInv, Loading
<1>9. CASE ProgramHeadersWritten
  <2>1. /\ pc = "phdrs" /\ pc' = "prstatus" /\ index > Phnum
        /\ UNCHANGED <<phdr, maps, note, content, failed>>
    BY <1>9 DEF ProgramHeadersWritten, Goto, output, layout, input
  <2>2. index - 1 = Phnum /\ Phnum \in Nat /\ Phnum' = Phnum
    BY <2>1, Scalars DEF LayoutInv, HeaderInv, Phnum
  <2>3. Chained(Phnum)'
    BY <1>2, <2>1, <2>2 DEF OffsetInv
  <2> QED BY <1>1, <2>1, <2>3 DEF OffsetInv
<1>10. ASSUME pc \in Laid, pc' \in Laid \cup {"end"}, UNCHANGED <<phdr, maps, note>>,
              pc' \in Before => pc \in Before /\ UNCHANGED <<content, failed>>
       PROVE  OffsetInv'
  <2>1. Chained(Phnum) /\ Phnum \in Nat /\ Phnum' = Phnum
    BY <1>10, Scalars DEF OffsetInv, Phnum
  <2>2. Chained(Phnum)'
    BY <1>2, <1>10, <2>1
  <2> QED BY <1>1, <1>10, <2>2 DEF OffsetInv, Loading
<1>11. CASE WriteCorePrStatus \/ WriteCoreAUXV \/ WriteNtFile \/ WriteFileName \/ AlignNoteSegment
  <2>1. /\ pc \in Laid \cap Before /\ pc' \in Laid
        /\ UNCHANGED <<phdr, maps, note, content, failed>>
    BY <1>11 DEF WriteCorePrStatus, WriteCoreAUXV, WriteNtFile, WriteFileName, AlignNoteSegment,
       Goto, Again, output, layout, input, Loading
  <2> QED BY <1>10, <2>1
<1>12. CASE LoadNext
  <2>1. pc' \in Loading \ {"mem"} /\ UNCHANGED <<phdr, maps, note>>
    BY <1>12, LoadNextLoads DEF input, layout
  <2>2. pc \in Laid
    BY <1>12 DEF LoadNext, OpenMem, SkipSegment, BeginSegment, WritePage, WriteFails, NoSpace,
       PadPage, EndSegment, Fclose, Loading
  <2>3. pc' \in Laid \cup {"end"} /\ pc' \notin Before
    BY <2>1 DEF Loading
  <2> QED BY <1>10, <2>1, <2>2, <2>3
<1>13. CASE UNCHANGED vars
  <2>1. UNCHANGED <<pc, index, phdr, maps, note, content, failed>>
    BY <1>13 DEF vars, input, layout, output
  <2>2. Sized'
    BY <1>1, <2>1
  <2>3. Phnum' = Phnum /\ Phnum \in Nat /\ index - 1 \in Nat
    BY <2>1, Scalars DEF Phnum
  <2>4. /\ Chained(Phnum) => Chained(Phnum)'
        /\ Chained(index - 1) => Chained(index - 1)'
    BY <1>2, <2>1, <2>3
  <2> QED BY <2>1, <2>2, <2>4 DEF OffsetInv
<1> QED
  BY <1>3, <1>4, <1>5, <1>6, <1>7, <1>8, <1>9, <1>11, <1>12, <1>13 DEF Next, LoadNext

---------------------------------------------------------------------------
(* The load segments: pos is where the header of the current segment says. *)

PlaceInv ==
    /\ pc = "segment" => index <= Phnum + 1 /\ pos = SegStart(index)
    /\ pc \in {"page", "pad"} =>
           /\ start = SegStart(index) /\ pos = start + page * AlignSize
           /\ phdr[index].filesz = Memsz(index)

PadInv == pc = "pad" => index \in failed

PlacedInv == PadInv /\ PagesInPlace /\ (short \/ PlaceInv)

\* Offset and size of the segment that is being written.
LEMMA Current ==
  ASSUME TypeInv, OffsetInv, pc \in {"segment", "page", "pad"}, index \in 1..Phnum
  PROVE  /\ phdr[index].offset = SegStart(index)
         /\ phdr[index].filesz = 0 \/ phdr[index].filesz = Memsz(index)
         /\ SegStart(index + 1) = SegStart(index) + phdr[index].filesz
         /\ SegStart(index) \in Nat /\ Memsz(index) \in Nat
<1>1. phdr[index].offset = SegStart(index)
  BY DEF OffsetInv, Laid, Loading, Chained
<1>2. phdr[index].filesz = 0 \/ phdr[index].filesz = Memsz(index)
  BY DEF OffsetInv, Sized
<1>3. index + 1 # 1 /\ (index + 1) - 1 = index /\ index \in 1..Len(maps)
  BY Scalars
<1>4. SegStart(index + 1) = NextOffset(index)
  BY <1>3 DEF SegStart
<1>5. phdr[index].offset \in Nat /\ Memsz(index) \in Nat
  BY <1>3, MapsFacts
<1> QED BY <1>1, <1>2, <1>4, <1>5 DEF NextOffset

\* A page that is being written is one of the segment, and shows the memory it
\* should, or repeats it past Word.
LEMMA PageFacts ==
  ASSUME TypeInv, pc \in {"page", "pad"}, MorePages, phdr[index].filesz = Memsz(index)
  PROVE  /\ index \in 1..Phnum /\ page \in Pages(index)
         /\ <<index, (page * AlignSize) % Word>> = Shown(index, page)
         /\ page * AlignSize \in Nat /\ (page + 1) * AlignSize = page * AlignSize + AlignSize
         /\ page + 1 <= maps[index].pages
<1>1. index \in 1..Len(maps) /\ index \in 1..Phnum
  BY Scalars DEF TypeInv
<1>2. page < maps[index].pages /\ page \in Nat /\ maps[index].pages \in 1..MaxPages
      /\ Memsz(index) = maps[index].pages * AlignSize
  BY <1>1, MapsFacts, Scalars DEF MorePages
<1>3. page * AlignSize < Memsz(index) /\ page * AlignSize \in Nat
  BY <1>2, MonotoneTimes, TimesNat, Sizes, Bounds
<1>4. page \in 0..MaxPages - 1 /\ page < MaxPages
  BY <1>2, Bounds
<1>6. <<index, (page * AlignSize) % Word>> = Shown(index, page)
  <2>1. \A x \in Nat, y \in Nat \ {0} : x < y => x % y = x
    OBVIOUS
  <2>2. page * AlignSize < Word => (page * AlignSize) % Word = page * AlignSize
    BY <1>3, <2>1, CoreFileAssumption
  <2> QED BY <2>2 DEF Shown
<1>7. (page + 1) * AlignSize = page * AlignSize + AlignSize
  BY <1>2, Sizes
<1>8. page + 1 <= maps[index].pages
  BY <1>2
<1>9. page \in Pages(index)
  BY <1>3, <1>4 DEF Pages
<1> QED BY <1>1, <1>3, <1>6, <1>7, <1>8, <1>9

LEMMA LastPage ==
  ASSUME TypeInv, pc \in {"page", "pad"}, ~MorePages
  PROVE  /\ index \in 1..Phnum /\ index + 1 <= Phnum + 1
         /\ page = maps[index].pages /\ page * AlignSize = Memsz(index)
<1>1. index \in 1..Len(maps) /\ index \in 1..Phnum /\ index + 1 <= Phnum + 1
  BY Scalars DEF TypeInv
<1>2. page <= maps[index].pages
  BY DEF TypeInv
<1>3. /\ maps[index].pages \in Nat /\ Count(index) = maps[index].pages
      /\ Memsz(index) = maps[index].pages * AlignSize
  BY <1>1, MapsFacts, Bounds
<1>4. page = maps[index].pages
  BY <1>2, <1>3, Scalars DEF MorePages
<1> QED BY <1>1, <1>3, <1>4

LEMMA PlacedInit == Init => PlacedInv
  BY DEF Init, PlacedInv, PadInv, PagesInPlace, PlaceInv

InPlace(p) ==
    \E i \in 1..Phnum : \E k \in Pages(i) :
        /\ p = PageAt(i, k)
        /\ \/ content[p] = Shown(i, k)
           \/ i \in failed /\ content[p] = Zeroes

LEMMA AllInPlace == PagesInPlace <=> (short \/ \A p \in DOMAIN content : InPlace(p))
  BY Zenon DEF PagesInPlace, InPlace

\* While nothing is written the pages stay in place.
LEMMA StillInPlace ==
  ASSUME PagesInPlace, UNCHANGED <<maps, phdr, content, short>>, failed \subseteq failed'
  PROVE  PagesInPlace'
<1>1. CASE short
  BY <1>1 DEF PagesInPlace
<1>2. CASE ~short
  <2>1. Phnum' = Phnum /\ \A i, k : Pages(i)' = Pages(i) /\ PageAt(i, k)' = PageAt(i, k)
    BY DEF Phnum, Pages, PageAt
  <2>2. ASSUME NEW p \in DOMAIN content PROVE InPlace(p)'
    <3>1. InPlace(p)
      BY <1>2, AllInPlace, Zenon
    <3> QED BY <2>1, <3>1 DEF InPlace
  <2>3. \A p \in DOMAIN content' : InPlace(p)'
    BY <2>2
  <2> QED BY <2>3, Zenon DEF PagesInPlace, InPlace
<1> QED BY <1>1, <1>2

\* Writing a page of the current segment at pos keeps the pages in place.
LEMMA WrittenInPlace ==
  ASSUME TypeInv, OffsetInv, PagesInPlace, PlaceInv, pc \in {"page", "pad"}, MorePages,
         UNCHANGED <<maps, phdr, failed>>, ~short,
         NEW source, FWrite(source),
         source = Shown(index, page) \/ (index \in failed /\ source = Zeroes)
  PROVE  PagesInPlace'
<1>1. phdr[index].filesz = Memsz(index) /\ pos = SegStart(index) + page * AlignSize
  BY DEF PlaceInv
<1>2. index \in 1..Phnum /\ page \in Pages(index)
  BY <1>1, PageFacts
<1>3. pos = PageAt(index, page)
  BY <1>1, <1>2, Current DEF PageAt
<1>4. /\ DOMAIN content' = DOMAIN content \cup {pos} /\ content'[pos] = source
      /\ \A p \in DOMAIN content : p # pos => content'[p] = content[p]
  BY DEF FWrite
<1>5. Phnum' = Phnum /\ \A i, k : Pages(i)' = Pages(i) /\ PageAt(i, k)' = PageAt(i, k)
  BY DEF Phnum, Pages, PageAt
<1>6. ASSUME NEW p \in DOMAIN content' PROVE InPlace(p)'
  <2>1. CASE p = pos
    BY <2>1, <1>2, <1>3, <1>4, <1>5 DEF InPlace
  <2>2. CASE p # pos
    <3>1. p \in DOMAIN content /\ content'[p] = content[p]
      BY <2>2, <1>4
    <3>2. InPlace(p)
      BY <3>1, AllInPlace, Zenon
    <3> QED BY <1>5, <3>1, <3>2 DEF InPlace
  <2> QED BY <2>1, <2>2
<1>7. \A p \in DOMAIN content' : InPlace(p)'
  BY <1>6
<1> QED BY <1>7, Zenon DEF PagesInPlace, InPlace

LEMMA PlacedNext ==
  TypeInv /\ LayoutInv /\ OffsetInv /\ PlacedInv /\ [Next]_vars => PlacedInv'
<1> SUFFICES ASSUME TypeInv, LayoutInv, OffsetInv, PlacedInv, [Next]_vars PROVE PlacedInv'
  OBVIOUS
<1>1. ASSUME pc \in Before, pc' \notin {"segment", "page", "pad"},
             UNCHANGED <<content, failed, short>>
      PROVE  PlacedInv'
  <2>1. PagesInPlace'
    BY <1>1 DEF OffsetInv, PagesInPlace
  <2> QED BY <1>1, <2>1 DEF PlacedInv, PadInv, PlaceInv
<1>2. CASE Fopen \/ StopTheWorld \/ ParseMaps \/ ParserVma \/ CreateCoreNoteHeader
           \/ CreateCorePrStatus \/ CreateCoreAUXV \/ SpecialCoreFilter \/ WriteCoreHeader
  BY <1>1, <1>2 DEF Fopen, StopTheWorld, ParseMaps, ParserVma, CreateCoreNoteHeader,
     CreateCorePrStatus, CreateCoreAUXV, SpecialCoreFilter, WriteCoreHeader, Goto, Again,
     output, Before, Parsing, Sizing, Writing
<1>3. CASE WriteCoreNoteHeader \/ WriteCoreProgramHeader \/ ProgramHeadersWritten
           \/ WriteCorePrStatus \/ WriteCoreAUXV \/ WriteNtFile \/ WriteFileName
           \/ AlignNoteSegment
  BY <1>1, <1>3 DEF WriteCoreNoteHeader, WriteCoreProgramHeader, ProgramHeadersWritten,
     WriteCorePrStatus, WriteCoreAUXV, WriteNtFile, WriteFileName, AlignNoteSegment, Goto, Again,
     output, Before, Parsing, Sizing, Writing
<1>4. ASSUME LoadNext
      PROVE  UNCHANGED <<phdr, maps, note>> /\ Phnum' = Phnum
             /\ \A i : /\ SegStart(i)' = SegStart(i) /\ Memsz(i)' = Memsz(i)
                       /\ Pages(i)' = Pages(i)
  BY <1>4, LoadNextLoads DEF input, layout, SegStart, DataStart, NextOffset, Memsz, Phnum, Pages
<1>5. CASE OpenMem
  <2>1. /\ pc = "mem" /\ pc' \in {"segment", "nomem"} /\ index' = 1
        /\ UNCHANGED <<phdr, maps, note, pos, content, failed, short>>
    BY <1>5 DEF OpenMem, Goto, input, layout, output
  <2>2. pos = SegStart(1)
    BY <2>1 DEF LayoutInv, NotesInv, SegStart
  <2>3. PagesInPlace'
    BY <2>1, StillInPlace DEF PlacedInv
  <2>4. PlaceInv'
    BY <1>4, <1>5, <2>1, <2>2, Scalars DEF PlaceInv, LoadNext
  <2> QED BY <2>1, <2>3, <2>4 DEF PlacedInv, PadInv
<1>6. CASE SkipSegment
  <2>1. /\ pc = "segment" /\ pc' = "segment" /\ index' = index + 1 /\ index <= Phnum
        /\ phdr[index].filesz = 0
        /\ UNCHANGED <<phdr, maps, note, pos, content, failed, short>>
    BY <1>6 DEF SkipSegment, Again, input, layout, output
  <2>2. PagesInPlace'
    BY <2>1, StillInPlace DEF PlacedInv
  <2>3. index \in 1..Phnum /\ index + 1 <= Phnum + 1
    <3>1. index \in Nat \ {0} /\ Phnum \in Nat
      BY Scalars
    <3> QED BY <2>1, <3>1
  <2>4. SegStart(index + 1) = SegStart(index)
    <3>1. SegStart(index + 1) = SegStart(index) + 0 /\ SegStart(index) \in Nat
      BY <2>1, <2>3, Current
    <3> QED BY <3>1
  <2>5. ~short => PlaceInv'
    BY <1>4, <1>6, <2>1, <2>3, <2>4 DEF PlacedInv, PlaceInv, LoadNext
  <2> QED BY <2>1, <2>2, <2>5 DEF PlacedInv, PadInv
<1>7. CASE BeginSegment
  <2>1. /\ pc = "segment" /\ pc' = "page" /\ index' = index /\ index <= Phnum
        /\ phdr[index].filesz > 0 /\ start' = pos /\ page' = 0
        /\ UNCHANGED <<phdr, maps, note, pos, content, failed, short>>
    BY <1>7 DEF BeginSegment, input, layout
  <2>2. PagesInPlace'
    BY <2>1, StillInPlace DEF PlacedInv
  <2>3. phdr[index].filesz = Memsz(index)
    <3>1. index \in 1..Phnum
      BY <2>1, Scalars
    <3>2. phdr[index].filesz # 0
      BY <2>1
    <3> QED BY <2>1, <3>1, <3>2, Current
  <2>4. pos = pos + 0 * AlignSize
    BY Scalars, Sizes
  <2>5. ~short => PlaceInv'
    BY <1>4, <1>7, <2>1, <2>3, <2>4 DEF PlacedInv, PlaceInv, LoadNext
  <2> QED BY <2>1, <2>2, <2>5 DEF PlacedInv, PadInv
<1>8. CASE WritePage
  <2>1. /\ pc = "page" /\ pc' = "page" /\ MorePages /\ page' = page + 1
        /\ FWrite(<<index, (page * AlignSize) % Word>>)
        /\ UNCHANGED <<index, phdr, maps, note, start, failed, short>>
    BY <1>8 DEF WritePage, input, layout
  <2>2. CASE short
    BY <2>1, <2>2 DEF PlacedInv, PadInv, PagesInPlace
  <2>3. CASE ~short
    <3>1. PlaceInv /\ phdr[index].filesz = Memsz(index) /\ pos = start + page * AlignSize
      BY <2>1, <2>3 DEF PlacedInv, PlaceInv
    <3>2. /\ <<index, (page * AlignSize) % Word>> = Shown(index, page)
          /\ page * AlignSize \in Nat
          /\ (page + 1) * AlignSize = page * AlignSize + AlignSize
      BY <2>1, <3>1, PageFacts
    <3>3. FWrite(Shown(index, page))
      BY <2>1, <3>2
    <3>4. PagesInPlace'
      <4>1. PagesInPlace /\ UNCHANGED <<maps, phdr, failed>>
        BY <2>1 DEF PlacedInv
      <4>2. pc \in {"page", "pad"} /\ MorePages
        BY <2>1
      <4>3. PlaceInv /\ ~short
        BY <2>3, <3>1
      <4> QED BY <3>3, <4>1, <4>2, <4>3, WrittenInPlace
    <3>5. pos' = start + page' * AlignSize
      <4>1. start \in Nat /\ AlignSize \in Nat
        BY Scalars, Sizes
      <4>2. pos' = pos + AlignSize
        BY <2>1 DEF FWrite
      <4> QED BY <2>1, <3>1, <3>2, <4>1, <4>2
    <3>6. PlaceInv'
      BY <1>4, <1>8, <2>1, <3>1, <3>5 DEF PlaceInv, LoadNext
    <3> QED BY <2>1, <3>4, <3>6 DEF PlacedInv, PadInv
  <2> QED BY <2>2, <2>3
<1>9. CASE WriteFails
  <2>1. /\ pc = "page" /\ pc' = "pad" /\ page' = 0 /\ pos' = start /\ failed' = failed \cup {index}
        /\ UNCHANGED <<index, phdr, maps, note, start, content, short>>
    BY <1>9 DEF WriteFails, Rewound, input, layout
  <2>2. PagesInPlace'
    BY <2>1, StillInPlace DEF PlacedInv
  <2>3. start = start + 0 * AlignSize
    BY Scalars, Sizes
  <2>4. ~short => PlaceInv'
    BY <1>4, <1>9, <2>1, <2>3 DEF PlacedInv, PlaceInv, LoadNext
  <2> QED BY <2>1, <2>2, <2>4 DEF PlacedInv, PadInv
<1>10. CASE NoSpace \/ Fclose
  <2>1. /\ pc' \in {"nospace", "closed", "end"}
        /\ UNCHANGED <<phdr, maps, note, content, failed, short>>
    BY <1>10 DEF NoSpace, Fclose, Goto, input, layout, output
  <2>2. PagesInPlace'
    BY <2>1, StillInPlace DEF PlacedInv
  <2> QED BY <2>1, <2>2 DEF PlacedInv, PadInv, PlaceInv
<1>11. CASE PadPage
  <2>1. /\ pc = "pad" /\ pc' = "pad" /\ MorePages /\ page' = page + 1
        /\ UNCHANGED <<index, phdr, maps, note, start, failed>>
        /\ (FWrite(Zeroes) /\ short' = short) \/ short'
    BY <1>11 DEF PadPage, input, layout
  <2>2. CASE short'
    BY <2>1, <2>2 DEF PlacedInv, PadInv, PagesInPlace
  <2>3. CASE ~short'
    <3>1. FWrite(Zeroes) /\ short' = short /\ ~short /\ index \in failed
      BY <2>1, <2>3 DEF PlacedInv, PadInv
    <3>2. PlaceInv /\ phdr[index].filesz = Memsz(index) /\ pos = start + page * AlignSize
      BY <2>1, <3>1 DEF PlacedInv, PlaceInv
    <3>3. page * AlignSize \in Nat /\ (page + 1) * AlignSize = page * AlignSize + AlignSize
      BY <2>1, <3>2, PageFacts
    <3>4. PagesInPlace'
      BY <2>1, <3>1, <3>2, WrittenInPlace DEF PlacedInv
    <3>5. pos' = start + page' * AlignSize
      <4>1. start \in Nat /\ AlignSize \in Nat
        BY Scalars, Sizes
      <4>2. pos' = pos + AlignSize
        BY <3>1 DEF FWrite
      <4> QED BY <2>1, <3>2, <3>3, <4>1, <4>2
    <3>6. PlaceInv'
      BY <1>4, <1>11, <2>1, <3>2, <3>5 DEF PlaceInv, LoadNext
    <3> QED BY <2>1, <3>1, <3>4, <3>6 DEF PlacedInv, PadInv
  <2> QED BY <2>2, <2>3
<1>12. CASE EndSegment
  <2>1. /\ pc \in {"page", "pad"} /\ ~MorePages /\ pc' = "segment" /\ index' = index + 1
        /\ UNCHANGED <<phdr, maps, note, pos, content, failed, short>>
    BY <1>12 DEF EndSegment, input, layout, output
  <2>2. PagesInPlace'
    BY <2>1, StillInPlace DEF PlacedInv
  <2>3. index \in 1..Phnum /\ index + 1 <= Phnum + 1 /\ page * AlignSize = Memsz(index)
    BY <2>1, LastPage
  <2>4. ASSUME ~short PROVE pos = SegStart(index + 1)
    <3>1. pos = SegStart(index) + page * AlignSize /\ phdr[index].filesz = Memsz(index)
      BY <2>1, <2>4 DEF PlacedInv, PlaceInv
    <3> QED BY <2>1, <2>3, <3>1, Current
  <2>5. ~short => PlaceInv'
    BY <1>4, <1>12, <2>1, <2>3, <2>4 DEF PlaceInv, LoadNext
  <2> QED BY <2>1, <2>2, <2>5 DEF PlacedInv, PadInv
<1>13. CASE UNCHANGED vars
  <2>1. UNCHANGED <<pc, index, phdr, maps, note, pos, page, start, content, failed, short>>
    BY <1>13 DEF vars, input, layout, output
  <2>2. PagesInPlace'
    BY <2>1, StillInPlace DEF PlacedInv
  <2>3. Phnum' = Phnum /\ SegStart(index)' = SegStart(index) /\ Memsz(index)' = Memsz(index)
    BY <2>1 DEF SegStart, DataStart, NextOffset, Memsz, Phnum
  <2> QED BY <2>1, <2>2, <2>3 DEF PlacedInv, PadInv, PlaceInv
<1> QED
  BY <1>2, <1>3, <1>5, <1>6, <1>7, <1>8, <1>9, <1>10, <1>11, <1>12, <1>13 DEF Next

LEMMA PlacedAlways == Spec => [](TypeInv /\ LayoutInv /\ OffsetInv /\ PlacedInv)
<1>1. Init => OffsetInv /\ PlacedInv
  BY OffsetInit, PlacedInit
<1>2. TypeInv /\ LayoutInv /\ OffsetInv /\ PlacedInv /\ [Next]_vars => OffsetInv' /\ PlacedInv'
  BY OffsetNext, PlacedNext
<1> QED BY <1>1, <1>2, LayoutAlways, PTL DEF Spec

(* Every page in the file is where the program header of its segment says,
   for segments of any length, and shows its memory up to 4 GiB into the
   segment, which it repeats from there on:
   nothing in WriteCoreLoadSegment seeks there, the sums of WriteCoreProgramHeader
   and of the writes before it agree. *)
THEOREM PagesWhereAnnounced == Spec => []PagesInPlace
<1>1. PlacedInv => PagesInPlace
  BY DEF PlacedInv
<1> QED BY <1>1, PlacedAlways, PTL

---------------------------------------------------------------------------
(* A file that is written to its end is complete. *)

Written(i, k) == /\ PageAt(i, k) \in DOMAIN content
                 /\ content[PageAt(i, k)] =
                       IF i \in failed THEN Zeroes ELSE Shown(i, k)
Done(i) == \A k \in Pages(i) : Written(i, k)

FailedInv ==
    /\ pc \in {"segment", "page"} => failed \subseteq 1..index - 1
    /\ pc = "pad" => failed \subseteq 1..index

\* The segments before the current one are done and end where it begins, or
\* before; of the current one the first pages are written.
DoneInv ==
    /\ pc \in {"segment", "page", "pad"} =>
           \A i \in 1..index - 1 : Done(i) /\ NextOffset(i) <= SegStart(index)
    /\ pc \in {"page", "pad"} => \A k \in 0..page - 1 : Written(index, k)
    /\ pc = "closed" => \A i \in 1..Phnum : Done(i)

DoneSafe == FailedInv /\ (short \/ DoneInv)

\* A page lies before the end of its segment.
LEMMA PageBounds ==
  ASSUME TypeInv, NEW i \in 1..Phnum, NEW k \in Pages(i)
  PROVE  /\ k \in Nat /\ PageAt(i, k) \in Nat /\ PageAt(i, k) < NextOffset(i)
         /\ k * AlignSize \in Nat /\ k * AlignSize < phdr[i].filesz
<1>1. k \in Nat /\ k * AlignSize < phdr[i].filesz
  BY Bounds DEF Pages
<1>2. k * AlignSize \in Nat
  BY <1>1, Sizes, TimesNat
<1>3. phdr[i].offset \in Nat /\ phdr[i].filesz \in Nat
  BY MapsFacts, Scalars
<1> QED BY <1>1, <1>2, <1>3 DEF PageAt, NextOffset

LEMMA FewerPages ==
  ASSUME NEW a \in Nat \ {0}, NEW k \in Nat, NEW n \in Nat, k * a < n * a
  PROVE  k < n
<1>1. CASE n < k
  BY <1>1, MonotoneTimes
<1>2. CASE n = k
  BY <1>2
<1> QED BY <1>1, <1>2

LEMMA WrittenKept ==
  ASSUME UNCHANGED <<phdr, failed>>, NEW source, FWrite(source),
         NEW i, NEW k, Written(i, k), PageAt(i, k) # pos
  PROVE  Written(i, k)'
<1>1. PageAt(i, k)' = PageAt(i, k)
  BY DEF PageAt
<1> QED BY <1>1 DEF Written, FWrite

LEMMA DoneInit == Init => DoneSafe
  BY DEF Init, DoneSafe, FailedInv, DoneInv

\* Writing the page of a segment keeps what is done and adds that page.
LEMMA DoneWrite ==
  ASSUME TypeInv, OffsetInv, PlaceInv, DoneInv, pc \in {"page", "pad"}, MorePages,
         UNCHANGED <<pc, index, maps, phdr, note, failed>>, page' = page + 1,
         NEW source, FWrite(source),
         source = IF index \in failed THEN Zeroes ELSE Shown(index, page)
  PROVE  DoneInv'
<1>1. /\ phdr[index].filesz = Memsz(index) /\ start = SegStart(index)
      /\ pos = SegStart(index) + page * AlignSize
  BY DEF PlaceInv
<1>2. index \in 1..Phnum /\ page * AlignSize \in Nat /\ page \in Nat
  BY <1>1, PageFacts, Scalars
<1>3. SegStart(index) \in Nat /\ phdr[index].offset = SegStart(index)
  BY <1>2, Current
<1>4. pos = PageAt(index, page) /\ SegStart(index) <= pos /\ pos \in Nat
  BY <1>1, <1>2, <1>3 DEF PageAt
<1>5. /\ Phnum' = Phnum
      /\ \A i, k : /\ Pages(i)' = Pages(i) /\ PageAt(i, k)' = PageAt(i, k)
                   /\ NextOffset(i)' = NextOffset(i) /\ SegStart(i)' = SegStart(i)
  BY DEF Phnum, Pages, PageAt, NextOffset, SegStart, DataStart
<1>6. ASSUME NEW i \in 1..index - 1
      PROVE  Done(i)' /\ NextOffset(i)' <= SegStart(index)'
  <2>1. i \in 1..Phnum /\ Done(i) /\ NextOffset(i) <= SegStart(index)
    <3>1. Phnum \in Nat
      BY Scalars
    <3>2. i \in 1..Phnum
      BY <1>2, <3>1
    <3> QED BY <3>2 DEF DoneInv
  <2>2. ASSUME NEW k \in Pages(i) PROVE Written(i, k)'
    <3>1. PageAt(i, k) \in Nat /\ PageAt(i, k) < NextOffset(i)
      BY <2>1, PageBounds
    <3>2. NextOffset(i) \in Nat
      <4>1. i \in 1..Len(maps)
        BY <2>1, Scalars
      <4> QED BY <4>1, MapsFacts DEF NextOffset
    <3>3. PageAt(i, k) # pos
      BY <1>3, <1>4, <2>1, <3>1, <3>2
    <3>4. Written(i, k)
      BY <2>1 DEF Done
    <3> QED BY <3>3, <3>4, WrittenKept
  <2>3. Done(i)'
    BY <1>5, <2>2 DEF Done
  <2> QED BY <1>5, <2>1, <2>3
<1>7. ASSUME NEW k \in 0..page PROVE Written(index, k)'
  <2>1. CASE k = page
    <3>1. /\ DOMAIN content' = DOMAIN content \cup {pos} /\ content'[pos] = source
      BY DEF FWrite
    <3>2. PageAt(index, k)' = pos
      BY <2>1, <1>4, <1>5
    <3> QED BY <2>1, <3>1, <3>2 DEF Written
  <2>2. CASE k # page
    <3>1. k \in 0..page - 1 /\ k \in Nat /\ k < page
      BY <2>2, <1>2
    <3>2. Written(index, k)
      BY <3>1 DEF DoneInv
    <3>3. k * AlignSize < page * AlignSize /\ k * AlignSize \in Nat
      BY <1>2, <3>1, MonotoneTimes, TimesNat, Sizes
    <3>4. PageAt(index, k) # pos
      <4>1. PageAt(index, k) = SegStart(index) + k * AlignSize
        BY <1>3 DEF PageAt
      <4> QED BY <1>1, <1>2, <1>3, <3>3, <4>1
    <3> QED BY <3>2, <3>4, WrittenKept
  <2> QED BY <2>1, <2>2
<1>8. page' - 1 = page
  BY <1>2
<1>9. \A k \in 0..page' - 1 : Written(index, k)'
  BY <1>7, <1>8
<1> QED BY <1>6, <1>9 DEF DoneInv

\* Steps that write nothing.
LEMMA DoneKept ==
  ASSUME UNCHANGED <<phdr, maps, note, content>>, NEW i,
         i \in failed' <=> i \in failed
  PROVE  /\ Done(i)' <=> Done(i)
         /\ NextOffset(i)' = NextOffset(i) /\ SegStart(i)' = SegStart(i)
         /\ \A k : Written(i, k)' <=> Written(i, k)
<1>1. /\ Pages(i)' = Pages(i) /\ \A k : PageAt(i, k)' = PageAt(i, k)
      /\ NextOffset(i)' = NextOffset(i) /\ SegStart(i)' = SegStart(i)
  BY DEF Pages, PageAt, NextOffset, SegStart, DataStart
<1>2. \A k : Written(i, k)' <=> Written(i, k)
  BY <1>1 DEF Written
<1> QED BY <1>1, <1>2 DEF Done

LEMMA DoneNext ==
  TypeInv /\ LayoutInv /\ OffsetInv /\ PlacedInv /\ DoneSafe /\ [Next]_vars => DoneSafe'
<1> SUFFICES ASSUME TypeInv, LayoutInv, OffsetInv, PlacedInv, DoneSafe, [Next]_vars
             PROVE  DoneSafe'
  OBVIOUS
<1>1. ASSUME pc' \notin {"segment", "page", "pad", "closed"} PROVE DoneSafe'
  BY <1>1 DEF DoneSafe, FailedInv, DoneInv
<1>2. CASE Fopen \/ StopTheWorld \/ ParseMaps \/ ParserVma \/ CreateCoreNoteHeader
           \/ CreateCorePrStatus \/ CreateCoreAUXV \/ SpecialCoreFilter \/ WriteCoreHeader
           \/ NoSpace
  BY <1>1, <1>2 DEF Fopen, StopTheWorld, ParseMaps, ParserVma, CreateCoreNoteHeader,
     CreateCorePrStatus, CreateCoreAUXV, SpecialCoreFilter, WriteCoreHeader, NoSpace, Goto, Again
<1>3. CASE WriteCoreNoteHeader \/ WriteCoreProgramHeader \/ ProgramHeadersWritten
           \/ WriteCorePrStatus \/ WriteCoreAUXV \/ WriteNtFile \/ WriteFileName
           \/ AlignNoteSegment
  BY <1>1, <1>3 DEF WriteCoreNoteHeader, WriteCoreProgramHeader, ProgramHeadersWritten,
     WriteCorePrStatus, WriteCoreAUXV, WriteNtFile, WriteFileName, AlignNoteSegment, Goto, Again
<1>4. CASE OpenMem
  <2>1. pc = "mem" /\ pc' \in {"segment", "nomem"} /\ index' = 1 /\ UNCHANGED failed
    BY <1>4 DEF OpenMem, Goto, output
  <2>2. failed = {}
    BY <2>1 DEF OffsetInv, Before
  <2> QED BY <2>1, <2>2 DEF DoneSafe, FailedInv, DoneInv
<1>5. CASE SkipSegment
  <2>1. /\ pc = "segment" /\ pc' = "segment" /\ index' = index + 1 /\ index \in 1..Phnum
        /\ phdr[index].filesz = 0
        /\ UNCHANGED <<phdr, maps, note, content, failed, short>>
    BY <1>5, Scalars DEF SkipSegment, Again, input, layout, output
  <2>2. SegStart(index + 1) = SegStart(index) /\ NextOffset(index) <= SegStart(index + 1)
    <3>1. SegStart(index + 1) = SegStart(index) + 0 /\ SegStart(index) \in Nat
          /\ phdr[index].offset = SegStart(index)
      BY <2>1, Current
    <3> QED BY <2>1, <3>1 DEF NextOffset
  <2>3. Done(index)
    <3>1. ASSUME NEW k \in Pages(index) PROVE FALSE
      BY <2>1, PageBounds
    <3> QED BY <3>1 DEF Done
  <2>4. ASSUME ~short, NEW i \in 1..index' - 1
        PROVE  Done(i)' /\ NextOffset(i)' <= SegStart(index)'
    <3>1. i = index \/ i \in 1..index - 1
      BY <2>1
    <3>2. Done(i) /\ NextOffset(i) <= SegStart(index + 1)
      BY <2>1, <2>2, <2>3, <2>4, <3>1 DEF DoneSafe, DoneInv
    <3>3. Done(i)' /\ NextOffset(i)' = NextOffset(i)
      BY <2>1, <3>2, DoneKept
    <3>4. SegStart(index)' = SegStart(index + 1)
      BY <2>1 DEF SegStart, DataStart, NextOffset
    <3> QED BY <3>2, <3>3, <3>4
  <2>5. ~short => DoneInv'
    BY <2>1, <2>4 DEF DoneInv
  <2>6. FailedInv'
    BY <2>1 DEF DoneSafe, FailedInv
  <2> QED BY <2>1, <2>5, <2>6 DEF DoneSafe
<1>6. CASE BeginSegment
  <2>1. /\ pc = "segment" /\ pc' = "page" /\ page' = 0
        /\ UNCHANGED <<index, phdr, maps, note, content, failed, short>>
    BY <1>6 DEF BeginSegment, input, layout
  <2>2. ASSUME ~short, NEW i \in 1..index - 1
        PROVE  Done(i)' /\ NextOffset(i)' <= SegStart(index)'
    <3>1. Done(i) /\ NextOffset(i) <= SegStart(index)
      BY <2>1, <2>2 DEF DoneSafe, DoneInv
    <3> QED BY <2>1, <3>1, DoneKept
  <2>3. ~short => DoneInv'
    BY <2>1, <2>2 DEF DoneInv
  <2>4. FailedInv'
    BY <2>1 DEF DoneSafe, FailedInv
  <2> QED BY <2>1, <2>3, <2>4 DEF DoneSafe
<1>7. CASE WritePage
  <2>1. /\ pc = "page" /\ MorePages /\ page' = page + 1
        /\ FWrite(<<index, (page * AlignSize) % Word>>)
        /\ UNCHANGED <<pc, index, phdr, maps, note, failed, short>>
    BY <1>7 DEF WritePage, input, layout
  <2>2. FailedInv' /\ index \notin failed
    <3>1. failed \subseteq 1..index - 1 /\ index \in Nat
      BY <2>1, Scalars DEF DoneSafe, FailedInv
    <3>2. FailedInv'
      BY <2>1, <3>1 DEF FailedInv
    <3> QED BY <3>1, <3>2
  <2>3. ASSUME ~short PROVE DoneInv'
    <3>1. PlaceInv /\ DoneInv /\ phdr[index].filesz = Memsz(index)
      BY <2>1, <2>3 DEF PlacedInv, PlaceInv, DoneSafe
    <3>2. FWrite(Shown(index, page))
      BY <2>1, <3>1, PageFacts
    <3>3. Shown(index, page) = IF index \in failed THEN Zeroes ELSE Shown(index, page)
      BY <2>2
    <3> QED BY <2>1, <3>1, <3>2, <3>3, DoneWrite
  <2> QED BY <2>1, <2>2, <2>3 DEF DoneSafe
<1>8. CASE WriteFails
  <2>1. /\ pc = "page" /\ pc' = "pad" /\ page' = 0 /\ failed' = failed \cup {index}
        /\ UNCHANGED <<index, phdr, maps, note, content, short>>
    BY <1>8 DEF WriteFails, input, layout
  <2>2. FailedInv'
    BY <2>1, Scalars DEF DoneSafe, FailedInv
  <2>3. ASSUME ~short, NEW i \in 1..index - 1
        PROVE  Done(i)' /\ NextOffset(i)' <= SegStart(index)'
    <3>1. Done(i) /\ NextOffset(i) <= SegStart(index)
      BY <2>1, <2>3 DEF DoneSafe, DoneInv
    <3>2. i \in failed' <=> i \in failed
      BY <2>1, Scalars
    <3>3. Done(i)' /\ NextOffset(i)' = NextOffset(i)
      BY <2>1, <3>1, <3>2, DoneKept
    <3>4. SegStart(index)' = SegStart(index)
      BY <2>1 DEF SegStart, DataStart, NextOffset
    <3> QED BY <3>1, <3>3, <3>4
  <2>4. ~short => DoneInv'
    BY <2>1, <2>3 DEF DoneInv
  <2> QED BY <2>1, <2>2, <2>4 DEF DoneSafe
<1>9. CASE PadPage
  <2>1. /\ pc = "pad" /\ MorePages /\ page' = page + 1
        /\ UNCHANGED <<pc, index, phdr, maps, note, failed>>
        /\ (FWrite(Zeroes) /\ short' = short) \/ short'
    BY <1>9 DEF PadPage, input, layout
  <2>2. FailedInv' /\ index \in failed
    BY <2>1 DEF DoneSafe, FailedInv, PlacedInv, PadInv
  <2>3. ASSUME ~short' PROVE DoneInv'
    <3>1. FWrite(Zeroes) /\ ~short
      BY <2>1, <2>3
    <3>2. PlaceInv /\ DoneInv
      BY <3>1 DEF PlacedInv, DoneSafe
    <3>3. Zeroes = IF index \in failed THEN Zeroes ELSE Shown(index, page)
      BY <2>2
    <3> QED BY <2>1, <3>1, <3>2, <3>3, DoneWrite
  <2> QED BY <2>2, <2>3 DEF DoneSafe
<1>10. CASE EndSegment
  <2>1. /\ pc \in {"page", "pad"} /\ ~MorePages /\ pc' = "segment" /\ index' = index + 1
        /\ UNCHANGED <<phdr, maps, note, content, failed, short>>
    BY <1>10 DEF EndSegment, input, layout, output
  <2>2. index \in 1..Phnum /\ page = maps[index].pages /\ page * AlignSize = Memsz(index)
    BY <2>1, LastPage
  <2>3. SegStart(index + 1) = SegStart(index) + phdr[index].filesz
        /\ SegStart(index) \in Nat /\ phdr[index].offset = SegStart(index)
        /\ phdr[index].filesz \in Nat /\ Memsz(index) \in Nat
    <3>1. index \in 1..Len(maps)
      BY <2>2, Scalars
    <3> QED BY <2>1, <2>2, <3>1, Current, MapsFacts
  <2>4. ASSUME ~short PROVE Done(index)
    <3>1. phdr[index].filesz = page * AlignSize
      BY <2>1, <2>2, <2>4 DEF PlacedInv, PlaceInv
    <3>2. ASSUME NEW k \in Pages(index) PROVE Written(index, k)
      <4>1. k \in Nat /\ k * AlignSize < page * AlignSize
        BY <2>2, <3>1, PageBounds
      <4>2. k < page /\ page \in Nat
        BY <4>1, FewerPages, Sizes, Scalars
      <4>3. k \in 0..page - 1
        BY <4>1, <4>2
      <4> QED BY <2>1, <2>4, <4>3 DEF DoneSafe, DoneInv
    <3> QED BY <3>2 DEF Done
  <2>5. ASSUME ~short, NEW i \in 1..index' - 1
        PROVE  Done(i)' /\ NextOffset(i)' <= SegStart(index)'
    <3>1. SegStart(index)' = SegStart(index + 1)
      BY <2>1 DEF SegStart, DataStart, NextOffset
    <3>2. CASE i = index
      <4>1. NextOffset(i) <= SegStart(index + 1)
        BY <2>3, <3>2 DEF NextOffset
      <4>2. Done(i)
        BY <2>4, <2>5, <3>2
      <4>3. Done(i)' /\ NextOffset(i)' = NextOffset(i)
        BY <2>1, <4>2, DoneKept
      <4> QED BY <3>1, <4>1, <4>3
    <3>3. CASE i # index
      <4>1. i \in 1..index - 1 /\ i \in 1..Len(maps)
        BY <2>1, <2>2, <3>3, Scalars
      <4>2. Done(i) /\ NextOffset(i) <= SegStart(index)
        BY <2>1, <2>5, <4>1 DEF DoneSafe, DoneInv
      <4>3. NextOffset(i) \in Nat
        BY <4>1, MapsFacts DEF NextOffset
      <4>4. NextOffset(i) <= SegStart(index + 1)
        BY <2>3, <4>2, <4>3
      <4>5. Done(i)' /\ NextOffset(i)' = NextOffset(i)
        BY <2>1, <4>2, DoneKept
      <4> QED BY <3>1, <4>4, <4>5
    <3> QED BY <3>2, <3>3
  <2>6. ~short => DoneInv'
    BY <2>1, <2>5 DEF DoneInv
  <2>7. FailedInv'
    BY <2>1, <2>2 DEF DoneSafe, FailedInv
  <2> QED BY <2>1, <2>6, <2>7 DEF DoneSafe
<1>11. CASE Fclose
  <2>1. /\ (pc = "segment" /\ index > Phnum /\ pc' = "closed") \/ pc' = "end"
        /\ UNCHANGED <<phdr, maps, note, content, failed, short>>
    BY <1>11 DEF Fclose, Goto, input, layout, output
  <2>2. ASSUME ~short, pc' = "closed", NEW i \in 1..Phnum PROVE Done(i)'
    <3>1. pc = "segment" /\ index > Phnum /\ index <= Phnum + 1
      BY <2>1, <2>2 DEF PlacedInv, PlaceInv
    <3>2. i \in 1..index - 1
      <4>1. Phnum \in Nat /\ index \in Nat
        BY Scalars
      <4> QED BY <3>1, <4>1
    <3>3. Done(i)
      BY <2>2, <3>1, <3>2 DEF DoneSafe, DoneInv
    <3> QED BY <2>1, <3>3, DoneKept
  <2>3. Phnum' = Phnum /\ pc' \in {"closed", "end"}
    BY <2>1 DEF Phnum
  <2>4. ~short => DoneInv'
    BY <2>2, <2>3 DEF DoneInv
  <2> QED BY <2>1, <2>3, <2>4 DEF DoneSafe, FailedInv
<1>12. CASE UNCHANGED vars
  <2>1. UNCHANGED <<pc, index, phdr, maps, note, page, content, failed, short>>
    BY <1>12 DEF vars, input, layout, output
  <2>2. FailedInv'
    BY <2>1 DEF DoneSafe, FailedInv
  <2>3. ASSUME NEW i PROVE /\ Done(i)' <=> Done(i)
                           /\ NextOffset(i)' = NextOffset(i) /\ SegStart(i)' = SegStart(i)
                           /\ \A k : Written(i, k)' <=> Written(i, k)
    BY <2>1, DoneKept
  <2>4. Phnum' = Phnum
    BY <2>1 DEF Phnum
  <2>5. ~short => DoneInv'
    BY <2>1, <2>3, <2>4 DEF DoneSafe, DoneInv
  <2> QED BY <2>1, <2>2, <2>5 DEF DoneSafe
<1> QED
  BY <1>2, <1>3, <1>4, <1>5, <1>6, <1>7, <1>8, <1>9, <1>10, <1>11, <1>12 DEF Next

LEMMA DoneAlways == Spec => []DoneSafe
<1>1. Init => DoneSafe
  BY DoneInit
<1>2. TypeInv /\ LayoutInv /\ OffsetInv /\ PlacedInv /\ DoneSafe /\ [Next]_vars => DoneSafe'
  BY DoneNext
<1> QED BY <1>1, <1>2, PlacedAlways, PTL DEF Spec

(* A file written to its end has every page its program headers announce: no
   segment overwrites another, zeroes stand only for a segment whose write has
   failed, and what is not the memory announced is 4 GiB into its segment. *)
THEOREM FileIsComplete == Spec => []Complete
<1>1. DoneSafe => Complete
  BY DEF DoneSafe, DoneInv, Complete, Done, Written
<1> QED BY <1>1, DoneAlways, PTL
=============================================================================
