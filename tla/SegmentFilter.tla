---------------------------- MODULE SegmentFilter ----------------------------
(***************************************************************************)
(* Which segments of the process go into the core file: SpecialCoreFilter  *)
(* with IsFilterSegment, NeedFilterFile and IsSpecialFilterSegment, in the *)
(* dumping child, which has its own copy of the filter.  CoreFile takes    *)
(* the verdicts from here as an input of its own.                          *)
(*                                                                         *)
(* A VMA has a file (inode > 0) or not.  mapped is the segments of that    *)
(* file when it was mapped, file those of what is found under its name     *)
(* now: none if open, fstat or mmap fails, or if that is not an ELF file   *)
(* of this machine.                                                        *)
(***************************************************************************)
EXTENDS Integers, Sequences

CONSTANTS
    Load,           \* PT_LOAD segments of files: offset, memsz, write
    Vmas,           \* the VMAs that are considered
    Reg,            \* the registers of the top thread
    Probed,         \* those IsSpecialFilterSegment looks at
    PageSize,       \* page_size
    Word,           \* file offsets are kept modulo this, 2^32
    MaxMaps         \* bound

Bits == {"SPECIAL_VMA", "FILE_VMA", "SHARED_VMA", "SANITIZER_SHADOW_VMA",
         "NON_READ_VMA", "MINIDUMP", "JAVAHEAP_VMA", "JIT_CACHE_VMA"}

\* What the tests tell apart in a name: a device or [vvar], [anon:*shadow],
\* [anon:dalvik*], /memfd:jit*, or none of these.
Name == {"special", "shadow", "dalvik", "jit", "plain"}

Vma == [perms : SUBSET {"r", "w", "x"}, shared : BOOLEAN, name : Name,
        inode : BOOLEAN, offset : Nat,
        mapped : SUBSET Load, file : SUBSET Load]

ASSUME FilterAssumption ==
    /\ Load \subseteq [offset : Nat, memsz : Nat, write : BOOLEAN]
    /\ \A v \in Vmas : v \in Vma
    /\ Probed \subseteq Reg
    /\ PageSize \in Nat \ {0} /\ Word \in Nat \ {0}
    /\ MaxMaps \in Nat

VARIABLES
    filter,         \* the bits that are set
    maps,
    regs,           \* the VMA each register of prstatus[0] points into, 0 for
                    \* none: for all of them when prstatus is empty
    dumped,         \* p_filesz # 0, for each VMA
    index

vars == <<filter, maps, regs, dumped, index>>

Init ==
    /\ filter \in SUBSET Bits
    /\ \E n \in 0..MaxMaps : maps \in [1..n -> Vmas]
    /\ regs \in [Reg -> 0..Len(maps)]
    /\ dumped = [i \in 1..Len(maps) |-> TRUE]
    /\ index = 1

RoundDown(x, n) == (x \div n) * n

\* Faulty: the segment is taken to begin where its first byte is.
FaultyPos(l) == l.offset % Word
Pos(l) == RoundDown(l.offset, PageSize) % Word
End(l) == (Pos(l) + l.memsz) % Word

\* The segment of the file that the VMA maps, by what is in the file now.
Covers(l, v) == Pos(l) <= v.offset % Word /\ v.offset % Word < End(l)

NeedFilterFile(v) ==
    IF \E l \in v.file : l.write /\ Covers(l, v) THEN {} ELSE {"VMA_NULL"}

FileDecides(v) == v.inode /\ "w" \notin v.perms

Unwanted(v) ==
    \/ "SHARED_VMA" \in filter /\ v.shared
    \/ "SANITIZER_SHADOW_VMA" \in filter /\ v.name = "shadow"
    \/ "NON_READ_VMA" \in filter /\ v.perms = {}
    \/ "JAVAHEAP_VMA" \in filter /\ v.name = "dalvik"
    \/ "JIT_CACHE_VMA" \in filter /\ v.name = "jit"

\* VMA_NORMAL is the empty set.
IsFilterSegment(v) ==
    IF "SPECIAL_VMA" \in filter /\ v.name = "special" THEN {"VMA_NULL"}
    ELSE IF "FILE_VMA" \in filter /\ FileDecides(v) THEN NeedFilterFile(v)
    ELSE IF Unwanted(v) THEN {"VMA_NULL"} ELSE {}

\* Faulty: a segment no register points into is left as it is.
FaultyIsSpecialFilterSegment(i) ==
    IF "MINIDUMP" \in filter /\ \E r \in Probed : regs[r] = i
    THEN {"VMA_INCLUDE"} ELSE {}
IsSpecialFilterSegment(i) ==
    IF "MINIDUMP" \notin filter THEN {}
    ELSE IF \E r \in Probed : regs[r] = i THEN {"VMA_INCLUDE"}
    ELSE {"VMA_NULL"}

\* Faulty: VMA_NULL is looked at last.
FaultyFiltered(flag, full) ==
    IF "VMA_NULL" \in flag THEN FALSE
    ELSE IF "VMA_INCLUDE" \in flag THEN TRUE ELSE full
Filtered(flag, full) ==
    IF "VMA_INCLUDE" \in flag THEN TRUE
    ELSE IF "VMA_NULL" \in flag THEN FALSE ELSE full

SpecialCoreFilter ==
    /\ index <= Len(maps)
    /\ dumped' = [dumped EXCEPT ![index] =
          Filtered(IsFilterSegment(maps[index]) \cup IsSpecialFilterSegment(index), @)]
    /\ index' = index + 1
    /\ UNCHANGED <<filter, maps, regs>>

Next == SpecialCoreFilter

Spec == Init /\ [][Next]_vars

---------------------------------------------------------------------------
TypeOK ==
    /\ filter \subseteq Bits
    /\ maps \in Seq(Vmas) /\ Len(maps) <= MaxMaps
    /\ regs \in [Reg -> 0..Len(maps)]
    /\ dumped \in [1..Len(maps) -> BOOLEAN]
    /\ index \in 1..Len(maps) + 1

Judged == {i \in 1..Len(maps) : i < index}

\* The VMA holds bytes of a segment of its file that was once writable: they
\* may have been changed, by relocation, before it was made read-only.
Written(l, v)   == /\ l \in v.mapped /\ l.write
                   /\ RoundDown(l.offset, PageSize) <= v.offset
                   /\ v.offset < l.offset + l.memsz
Relocated(v)    == \E l \in Load : Written(l, v)

\* When NeedFilterFile does not see it: the file is no longer what is mapped, a
\* segment ends past what 32 bits count, or begins within a page and the VMA
\* holds only what spills over into its last one.
Stale(v)        == v.file # v.mapped
Wraps(l)        == l.offset + l.memsz >= Word
SpillsOver(l, v) == v.offset >= RoundDown(l.offset, PageSize) + l.memsz
Missed(v) ==
    \/ Stale(v)
    \/ \E l \in Load : Written(l, v) /\ (Wraps(l) \/ SpillsOver(l, v))

\* The meaning of each filter bit.
Reason(b, i) ==
    CASE b = "SPECIAL_VMA"  -> maps[i].name = "special"
      [] b = "FILE_VMA"     -> /\ maps[i].inode /\ "w" \notin maps[i].perms
                               /\ ~Relocated(maps[i]) \/ Missed(maps[i])
      [] b = "SHARED_VMA"   -> maps[i].shared
      [] b = "SANITIZER_SHADOW_VMA" -> maps[i].name = "shadow"
      [] b = "NON_READ_VMA" -> maps[i].perms = {}
      [] b = "MINIDUMP"     -> \A r \in Probed : regs[r] # i
      [] b = "JAVAHEAP_VMA" -> maps[i].name = "dalvik"
      [] b = "JIT_CACHE_VMA" -> maps[i].name = "jit"

\* A segment is missing from the core only because a filter bit asks for that.
\* In particular a read-only page of a file that was relocated stays, save
\* where Missed says.
OmittedForAReason ==
    \A i \in Judged :
        ~dumped[i] => \E b \in filter : Reason(b, i)

\* Every set bit is obeyed, but for read-only mappings of files, on which
\* FILE_VMA alone decides, and segments a minidump includes.
AskedIsOmitted ==
    \A i \in Judged : \A b \in filter \ {"FILE_VMA"} :
        /\ Reason(b, i)
        /\ \/ b \in {"SPECIAL_VMA", "MINIDUMP"}
           \/ "FILE_VMA" \notin filter \/ ~maps[i].inode \/ "w" \in maps[i].perms
        /\ "MINIDUMP" \in filter => Reason("MINIDUMP", i)
        => ~dumped[i]

\* A minidump is the segments the probed registers point into, whatever else
\* is filtered.
MinidumpExact ==
    "MINIDUMP" \in filter =>
        \A i \in Judged : dumped[i] <=> \E r \in Probed : regs[r] = i
=============================================================================
