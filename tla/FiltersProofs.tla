------------------------- MODULE FiltersProofs -------------------------
(***************************************************************************)
(* What the filters leave out, for any segments, files and registers; the  *)
(* registers of a crash, for any threads on every architecture; and how    *)
(* the options print.                                                      *)
(***************************************************************************)
EXTENDS Filters, FiniteSetTheorems, TLAPS

Verdict(i) ==
    Filtered(IsFilterSegment(maps[i]) \cup IsSpecialFilterSegment(i), TRUE)

\* Before the loop's index each segment has its verdict, after it its data.
Inv ==
    /\ TypeOK
    /\ \A i \in 1..Len(maps) : i < index => dumped[i] = Verdict(i)
    /\ \A i \in 1..Len(maps) : ~(i < index) => dumped[i] = TRUE

LEMMA VerdictType == \A i : Verdict(i) \in BOOLEAN
  BY DEF Verdict, Filtered

LEMMA VerdictStays ==
  ASSUME UNCHANGED <<filter, maps, regs>>
  PROVE  \A i : Verdict(i)' = Verdict(i)
  BY DEF Verdict, Filtered, IsFilterSegment, Unwanted, IsSpecialFilterSegment

LEMMA InvInit == Init => Inv
<1> SUFFICES ASSUME Init PROVE Inv
  OBVIOUS
<1>1. PICK n \in 0..MaxMaps : maps \in [1..n -> Vmas]
  BY DEF Init
<1>2. maps \in Seq(Vmas) /\ Len(maps) = n /\ n <= MaxMaps /\ n \in Nat
  BY <1>1, FilterAssumption
<1>3. TypeOK
  BY <1>2 DEF Init, TypeOK
<1>4. \A i \in 1..Len(maps) : dumped[i] = TRUE /\ ~(i < index)
  BY <1>2 DEF Init
<1> QED BY <1>3, <1>4 DEF Inv

LEMMA InvNext == Inv /\ [Next]_vars => Inv'
<1> SUFFICES ASSUME Inv, [Next]_vars PROVE Inv'
  OBVIOUS
<1>1. CASE UNCHANGED vars
  <2>1. UNCHANGED <<filter, maps, regs, dumped, index>>
    BY <1>1 DEF vars
  <2>2. \A i : Verdict(i)' = Verdict(i)
    BY <2>1, VerdictStays
  <2>3. TypeOK'
    BY <2>1 DEF Inv, TypeOK
  <2> QED BY <2>1, <2>2, <2>3 DEF Inv
<1>2. CASE SpecialCoreFilter
  <2>1. /\ index \in 1..Len(maps) /\ index' = index + 1 /\ Len(maps) \in Nat
        /\ UNCHANGED <<filter, maps, regs>>
    BY <1>2 DEF SpecialCoreFilter, Inv, TypeOK
  <2>2. \A i : Verdict(i)' = Verdict(i)
    BY <2>1, VerdictStays
  <2>3. dumped[index] = TRUE
    BY <2>1 DEF Inv
  <2>4. dumped' = [dumped EXCEPT ![index] = Verdict(index)]
    BY <1>2, <2>3 DEF SpecialCoreFilter, Verdict
  <2>5. TypeOK'
    <3>1. dumped' \in [1..Len(maps) -> BOOLEAN]
      BY <2>4, VerdictType DEF Inv, TypeOK
    <3>2. index' \in 1..Len(maps) + 1
      BY <2>1
    <3> QED BY <2>1, <3>1, <3>2 DEF Inv, TypeOK
  <2>6. DOMAIN dumped = 1..Len(maps)
    BY DEF Inv, TypeOK
  <2>7. dumped'[index] = Verdict(index)
        /\ \A i \in 1..Len(maps) : i # index => dumped'[i] = dumped[i]
    BY <2>1, <2>4, <2>6
  <2>8. \A i \in 1..Len(maps) : i < index' <=> i < index \/ i = index
    BY <2>1
  <2>9. \A i \in 1..Len(maps) : i < index' => dumped'[i] = Verdict(i)
    BY <2>7, <2>8 DEF Inv
  <2>10. \A i \in 1..Len(maps) : ~(i < index') => dumped'[i] = TRUE
    BY <2>7, <2>8 DEF Inv
  <2> QED BY <2>1, <2>2, <2>5, <2>9, <2>10 DEF Inv
<1> QED BY <1>1, <1>2 DEF Next

LEMMA Invariant == Spec => []Inv
  BY InvInit, InvNext, PTL DEF Spec

(* The loop of SpecialCoreFilter stays within maps and phdr. *)
THEOREM TypeCorrect == Spec => []TypeOK
  BY Invariant, PTL DEF Inv

LEMMA JudgedVerdict == Inv => \A i \in Judged : dumped[i] = Verdict(i)
  BY DEF Inv, Judged

---------------------------------------------------------------------------
(* A minidump is the probed segments, whatever else is filtered
   (SpecialCoreFilter, arm64 IsSpecialFilterSegment). *)
THEOREM MinidumpIsExact == Spec => []MinidumpExact
<1>1. Inv => MinidumpExact
  <2> SUFFICES ASSUME Inv, "MINIDUMP" \in filter, NEW i \in Judged
               PROVE  dumped[i] <=> \E r \in Probed : regs[r] = i
    BY DEF MinidumpExact
  <2>1. dumped[i] = Verdict(i)
    BY JudgedVerdict
  <2>2. CASE \E r \in Probed : regs[r] = i
    BY <2>1, <2>2 DEF Verdict, Filtered, IsSpecialFilterSegment
  <2>3. CASE ~\E r \in Probed : regs[r] = i
    <3>1. IsSpecialFilterSegment(i) = {"VMA_NULL"}
      BY <2>3 DEF IsSpecialFilterSegment
    <3>2. "VMA_INCLUDE" \notin IsFilterSegment(maps[i])
      BY DEF IsFilterSegment, NeedFilterFile
    <3> QED BY <2>1, <2>3, <3>1, <3>2 DEF Verdict, Filtered
  <2> QED BY <2>2, <2>3
<1> QED BY <1>1, Invariant, PTL

---------------------------------------------------------------------------
(* File offsets modulo Word. *)

LEMMA RoundDownFacts ==
  ASSUME NEW x \in Nat
  PROVE  RoundDown(x, PageSize) \in Nat /\ RoundDown(x, PageSize) <= x
  BY FilterAssumption DEF RoundDown

LEMMA SmallMod ==
  ASSUME NEW x \in Nat, x < Word
  PROVE  x % Word = x
  BY FilterAssumption

(* Where Missed does not apply, NeedFilterFile sees a relocated page
   (lp64 NeedFilterFile). *)
LEMMA RelocatedIsNeeded ==
  ASSUME NEW v \in Vmas, Relocated(v), ~Missed(v)
  PROVE  NeedFilterFile(v) = {}
<1>1. PICK l \in Load : Written(l, v)
  BY DEF Relocated
<1>2. l \in v.file /\ l.write /\ ~Wraps(l) /\ ~SpillsOver(l, v)
  BY <1>1 DEF Missed, Written, Stale
<1>3. l.offset \in Nat /\ l.memsz \in Nat /\ v.offset \in Nat
  BY FilterAssumption DEF Vma
<1> DEFINE p == RoundDown(l.offset, PageSize)
<1>4. p \in Nat /\ p <= l.offset
  BY <1>3, RoundDownFacts
<1> HIDE DEF p
<1>5. /\ l.offset + l.memsz < Word
      /\ p <= v.offset /\ v.offset < p + l.memsz
  BY <1>1, <1>2, <1>3, <1>4, FilterAssumption DEF Wraps, SpillsOver, Written, p
<1>6. p < Word /\ p + l.memsz < Word /\ v.offset < Word /\ p + l.memsz \in Nat
  BY <1>3, <1>4, <1>5, FilterAssumption
<1>7. p % Word = p /\ (p + l.memsz) % Word = p + l.memsz /\ v.offset % Word = v.offset
  BY <1>3, <1>4, <1>6, SmallMod
<1>8. Covers(l, v)
  BY <1>5, <1>7 DEF Covers, Pos, End, p
<1> QED BY <1>2, <1>8 DEF NeedFilterFile

(* A segment is missing from the core only because a filter bit asks for that:
   no combination of bits drops anything else (SpecialCoreFilter). *)
THEOREM OmissionHasReason == Spec => []OmittedForAReason
<1>1. Inv => OmittedForAReason
  <2> SUFFICES ASSUME Inv, NEW i \in Judged, ~dumped[i]
               PROVE  \E b \in filter : Reason(b, i)
    BY DEF OmittedForAReason
  <2>1. ~Verdict(i) /\ maps[i] \in Vmas
    BY JudgedVerdict DEF Inv, TypeOK, Judged
  <2>2. "VMA_NULL" \in IsFilterSegment(maps[i]) \/ "VMA_NULL" \in IsSpecialFilterSegment(i)
    BY <2>1 DEF Verdict, Filtered
  <2>3. CASE "VMA_NULL" \in IsSpecialFilterSegment(i)
    <3>1. "MINIDUMP" \in filter /\ \A r \in Probed : regs[r] # i
      BY <2>3 DEF IsSpecialFilterSegment
    <3> QED BY <3>1 DEF Reason
  <2>4. CASE "VMA_NULL" \in IsFilterSegment(maps[i])
    <3>1. CASE "SPECIAL_VMA" \in filter /\ maps[i].name = "special"
      BY <3>1 DEF Reason
    <3>2. CASE "FILE_VMA" \in filter /\ FileDecides(maps[i])
               /\ "VMA_NULL" \in NeedFilterFile(maps[i])
      <4>1. ~Relocated(maps[i]) \/ Missed(maps[i])
        BY <2>1, <3>2, RelocatedIsNeeded
      <4>2. Reason("FILE_VMA", i)
        BY <3>2, <4>1 DEF Reason, FileDecides
      <4> QED BY <3>2, <4>2
    <3>3. CASE Unwanted(maps[i])
      BY <3>3 DEF Unwanted, Reason
    <3> QED BY <2>4, <3>1, <3>2, <3>3 DEF IsFilterSegment
  <2> QED BY <2>2, <2>3, <2>4
<1> QED BY <1>1, Invariant, PTL

(* Every set bit is obeyed, but for what FILE_VMA decides and a minidump
   includes (the early return in IsFilterSegment, VMA_INCLUDE). *)
THEOREM AskingOmits == Spec => []AskedIsOmitted
<1>1. Inv => AskedIsOmitted
  <2> SUFFICES ASSUME Inv, NEW i \in Judged, NEW b \in filter \ {"FILE_VMA"},
                      Reason(b, i),
                      \/ b \in {"SPECIAL_VMA", "MINIDUMP"}
                      \/ "FILE_VMA" \notin filter
                      \/ ~maps[i].inode \/ "w" \in maps[i].perms,
                      "MINIDUMP" \in filter => Reason("MINIDUMP", i)
               PROVE  ~dumped[i]
    BY DEF AskedIsOmitted
  <2>1. dumped[i] = Verdict(i) /\ filter \subseteq Bits
    BY JudgedVerdict DEF Inv, TypeOK
  <2>2. "VMA_INCLUDE" \notin IsFilterSegment(maps[i])
    BY DEF IsFilterSegment, NeedFilterFile
  <2>3. "MINIDUMP" \in filter => \A r \in Probed : regs[r] # i
    BY DEF Reason
  <2>4. "VMA_INCLUDE" \notin IsSpecialFilterSegment(i)
    BY <2>3 DEF IsSpecialFilterSegment
  <2>5. "VMA_NULL" \in IsFilterSegment(maps[i]) \cup IsSpecialFilterSegment(i)
    <3>1. CASE b = "MINIDUMP"
      BY <2>3, <3>1 DEF IsSpecialFilterSegment
    <3>2. CASE b = "SPECIAL_VMA"
      BY <3>2 DEF Reason, IsFilterSegment
    <3>3. CASE b \notin {"MINIDUMP", "SPECIAL_VMA"}
      <4>1. b \in {"SHARED_VMA", "SANITIZER_SHADOW_VMA", "NON_READ_VMA",
                   "JAVAHEAP_VMA", "JIT_CACHE_VMA"}
        BY <2>1, <3>3 DEF Bits
      <4>2. Unwanted(maps[i])
        <5>1. CASE b = "SHARED_VMA" BY <5>1 DEF Reason, Unwanted
        <5>2. CASE b = "SANITIZER_SHADOW_VMA" BY <5>2 DEF Reason, Unwanted
        <5>3. CASE b = "NON_READ_VMA" BY <5>3 DEF Reason, Unwanted
        <5>4. CASE b = "JAVAHEAP_VMA" BY <5>4 DEF Reason, Unwanted
        <5>5. CASE b = "JIT_CACHE_VMA" BY <5>5 DEF Reason, Unwanted
        <5> QED BY <4>1, <5>1, <5>2, <5>3, <5>4, <5>5
      <4>3. ~("FILE_VMA" \in filter /\ FileDecides(maps[i]))
        BY <3>3 DEF FileDecides
      <4> QED BY <4>2, <4>3 DEF IsFilterSegment
    <3> QED BY <3>1, <3>2, <3>3
  <2> QED BY <2>1, <2>2, <2>4, <2>5 DEF Verdict, Filtered
<1> QED BY <1>1, Invariant, PTL


---------------------------------------------------------------------------
(* The tables of registers, one architecture at a time. *)

Architectures == {"arm", "arm64", "riscv64", "x86", "x86_64"}

\* What a minidump does not follow.
NotFollowed == Registers!Misread \cup Registers!Unprobed \cup Registers!Flags
                   \cup {"ds", "es", "fs", "gs"}

\* Each field takes the register it is named after unless it is Misread, and is
\* looked at unless it is among those that are not followed.
RightField(n) ==
    LET f == Registers!Fields(arch)[n] IN
    /\ Registers!FromContext[n] = <<"crash", f>> <=> f \notin Registers!Misread
    /\ f \in Registers!LookedAt <=> f \notin NotFollowed

\* Names that are not numbers.
Words == {"sp", "lr", "pc", "cpsr", "pstate", "eflags", "flags", "ds", "es", "fs", "gs"}

LEMMA NumberedFacts ==
    ASSUME NEW m \in 0..31
    PROVE  LET N == Registers!Numbered(m)
               S == Registers!ToSet(N) IN
           /\ N \in Seq(S) /\ Len(N) = m
           /\ \A i \in 1..m : N[i] \in S
           /\ S \cap Words = {}
<1> DEFINE N == Registers!Numbered(m)
           S == Registers!ToSet(N)
<1>1. S = {N[i] : i \in 1..m} /\ N = [i \in 1..m |-> N[i]]
  BY DEF Registers!ToSet, Registers!Numbered
<1>2. ASSUME NEW i \in 1..m PROVE N[i] \notin Words
  <2>1. i \in 1..31 /\ N[i] = Registers!Numbers[i]
    BY DEF Registers!Numbered
  <2>2. Registers!Numbers[i] \notin Words
    BY <2>1 DEF Registers!Numbers, Words
  <2> QED BY <2>1, <2>2
<1>3. N \in [1..m -> S]
  <2> HIDE DEF N, S
  <2> QED BY <1>1
<1>4. N \in Seq(S) /\ Len(N) = m
  <2> HIDE DEF N, S
  <2> QED BY <1>3
<1>5. (\A i \in 1..m : N[i] \in S) /\ S \cap Words = {}
  <2> HIDE DEF N, S
  <2> QED BY <1>1, <1>2
<1> QED BY <1>4, <1>5

LEMMA X86Right ==
    ASSUME arch = "x86" PROVE \A n \in DOMAIN Registers!Fields(arch) : RightField(n)
<1>1. Registers!Fields(arch) = Registers!X86Fields
  BY DEF Registers!Fields
<1> QED
  BY <1>1 DEF RightField, NotFollowed, Registers!X86Fields, Registers!FromContext,
       Registers!Index, Registers!X86Index, Registers!Context, Registers!Zero,
       Registers!Misread, Registers!LookedAt, Registers!Unprobed, Registers!Flags

LEMMA X86_64Right ==
    ASSUME arch = "x86_64" PROVE \A n \in DOMAIN Registers!Fields(arch) : RightField(n)
<1>1. Registers!Fields(arch) = Registers!X86_64Fields
  BY DEF Registers!Fields
<1> QED
  BY <1>1 DEF RightField, NotFollowed, Registers!X86_64Fields, Registers!FromContext,
       Registers!Index, Registers!X86_64Index, Registers!Context, Registers!Zero,
       Registers!Misread, Registers!LookedAt, Registers!Unprobed, Registers!Flags

\* The other three copy the registers as they are.
LEMMA CopiedRight ==
    ASSUME arch \in {"arm", "arm64", "riscv64"}
    PROVE  /\ Registers!Context(arch) = Registers!Fields(arch)
           /\ Registers!Misread = {} /\ Registers!Unprobed = {}
           /\ \A n \in DOMAIN Registers!Fields(arch) :
                 n \in Nat \ {0} =>
                     Registers!FromContext[n] = <<"crash", Registers!Fields(arch)[n]>>
<1>1. Registers!Context(arch) = Registers!Fields(arch)
  BY DEF Registers!Context, Registers!Fields
<1>2. Registers!Misread = {} /\ Registers!Unprobed = {}
  BY DEF Registers!Misread, Registers!Unprobed
<1>3. ASSUME NEW n \in DOMAIN Registers!Fields(arch), n \in Nat \ {0}
      PROVE  Registers!FromContext[n] = <<"crash", Registers!Fields(arch)[n]>>
  BY <1>1, <1>3 DEF Registers!FromContext, Registers!Index
<1> QED BY <1>1, <1>2, <1>3

LEMMA RiscvRight ==
    ASSUME arch = "riscv64" PROVE \A n \in DOMAIN Registers!Fields(arch) : RightField(n)
<1>1. Registers!Fields(arch) = Registers!RiscvFields /\ DOMAIN Registers!Fields(arch) = 1..32
  BY DEF Registers!Fields, Registers!RiscvFields
<1> SUFFICES ASSUME NEW n \in 1..32 PROVE RightField(n)
  BY <1>1
<1>2. Registers!LookedAt = Registers!ToSet(Registers!RiscvFields)
  BY DEF Registers!LookedAt
<1>3. Registers!RiscvFields[n] \in Registers!LookedAt
  BY <1>1, <1>2 DEF Registers!ToSet
<1>4. Registers!RiscvFields[n] \notin Registers!Flags \cup {"ds", "es", "fs", "gs"}
  BY DEF Registers!RiscvFields, Registers!Flags
<1> QED BY <1>1, <1>3, <1>4, CopiedRight DEF RightField, NotFollowed

\* A sequence and what is appended to it.
LEMMA Appended ==
    ASSUME NEW S, NEW f \in Seq(S), NEW T, NEW t \in Seq(T)
    PROVE  /\ DOMAIN (f \o t) = 1..Len(f) + Len(t)
           /\ \A i \in 1..Len(f) : (f \o t)[i] = f[i]
           /\ \A i \in 1..Len(t) : (f \o t)[Len(f) + i] = t[i]
OBVIOUS

\* What arm and arm64 have in common: general registers, all of them looked at,
\* and a few that have names.
LEMMA NumberedRight ==
    ASSUME arch \in {"arm", "arm64"}, NEW m \in 0..31, NEW T \in Seq(Words), NEW L \in SUBSET Words,
           Registers!Fields(arch) = Registers!Numbered(m) \o T,
           Registers!LookedAt = Registers!ToSet(Registers!Numbered(m)) \cup L,
           \A i \in 1..Len(T) :
               T[i] \in L <=> T[i] \notin Registers!Flags \cup {"ds", "es", "fs", "gs"}
    PROVE  \A n \in DOMAIN Registers!Fields(arch) : RightField(n)
<1> DEFINE F == Registers!Fields(arch)
           N == Registers!Numbered(m)
           S == Registers!ToSet(N)
<1>1. N \in Seq(S) /\ Len(N) = m /\ (\A i \in 1..m : N[i] \in S) /\ S \cap Words = {}
  BY NumberedFacts
<1>2. NotFollowed = Registers!Flags \cup {"ds", "es", "fs", "gs"}
  BY CopiedRight DEF NotFollowed
<1>3. NotFollowed \subseteq Words
  BY <1>2 DEF Registers!Flags, Words
<1>4. /\ DOMAIN (N \o T) = 1..Len(N) + Len(T)
      /\ \A i \in 1..Len(N) : (N \o T)[i] = N[i]
      /\ \A i \in 1..Len(T) : (N \o T)[Len(N) + i] = T[i]
  <2> HIDE DEF N, S
  <2> QED BY <1>1, Appended
<1>5. ASSUME NEW n \in DOMAIN F
      PROVE  n \in Nat \ {0} /\ (F[n] \in Registers!LookedAt <=> F[n] \notin NotFollowed)
  <2>0. n \in 1..m + Len(T) /\ Len(T) \in Nat
    BY <1>1, <1>4, <1>5
  <2>1. CASE n \in 1..m
    BY <2>1, <1>1, <1>3, <1>4
  <2>2. CASE n > m
    <3>1. n - m \in 1..Len(T) /\ n = m + (n - m)
      BY <2>0, <2>2
    <3>2. F[n] = T[n - m] /\ T[n - m] \in Words
      BY <3>1, <1>1, <1>4
    <3> QED BY <2>0, <3>1, <3>2, <1>1, <1>2
  <2> QED BY <2>0, <2>1, <2>2
<1> QED BY <1>5, CopiedRight DEF RightField

LEMMA ArmRight ==
    ASSUME arch = "arm" PROVE \A n \in DOMAIN Registers!Fields(arch) : RightField(n)
<1> DEFINE T == <<"sp", "lr", "pc", "cpsr">>
           L == {"pc", "sp", "lr"}
<1>0. PICK m \in 0..31 : m = 13
  OBVIOUS
<1>1. /\ Registers!Fields(arch) = Registers!Numbered(m) \o T
      /\ Registers!LookedAt = Registers!ToSet(Registers!Numbered(m)) \cup L
  BY <1>0 DEF Registers!Fields, Registers!LookedAt
<1>2. T \in Seq(Words) /\ L \in SUBSET Words
  BY DEF Words
<1>3. \A i \in 1..Len(T) :
          T[i] \in L <=> T[i] \notin Registers!Flags \cup {"ds", "es", "fs", "gs"}
  BY DEF Registers!Flags
<1> HIDE DEF T, L
<1> QED BY <1>1, <1>2, <1>3, NumberedRight

LEMMA Arm64Right ==
    ASSUME arch = "arm64" PROVE \A n \in DOMAIN Registers!Fields(arch) : RightField(n)
<1> DEFINE T == <<"sp", "pc", "pstate">>
           L == {"pc", "sp"}
<1>0. PICK m \in 0..31 : m = 31
  OBVIOUS
<1>1. /\ Registers!Fields(arch) = Registers!Numbered(m) \o T
      /\ Registers!LookedAt = Registers!ToSet(Registers!Numbered(m)) \cup L
  BY <1>0 DEF Registers!Fields, Registers!LookedAt
<1>2. T \in Seq(Words) /\ L \in SUBSET Words
  BY DEF Words
<1>3. \A i \in 1..Len(T) :
          T[i] \in L <=> T[i] \notin Registers!Flags \cup {"ds", "es", "fs", "gs"}
  BY DEF Registers!Flags
<1> HIDE DEF T, L
<1> QED BY <1>1, <1>2, <1>3, NumberedRight

LEMMA AllRight ==
    ASSUME arch \in Arch PROVE \A n \in DOMAIN Registers!Fields(arch) : RightField(n)
BY X86Right, X86_64Right, RiscvRight, ArmRight, Arm64Right, RegistersAssumption
   DEF Registers!RegisterAssumption

\* So a slot with the registers of the crash has all that are not Misread, and a
\* minidump that begins with it follows those it should.
LEMMA CrashFields ==
    ASSUME arch \in Arch
    PROVE  /\ \A n \in DOMAIN Registers!Fields(arch) :
                 Registers!FromContext[n] = <<"crash", Registers!Fields(arch)[n]>>
                     <=> Registers!Fields(arch)[n] \notin Registers!Misread
           /\ LET P == {n \in DOMAIN Registers!Fields(arch) :
                            Registers!Fields(arch)[n] \in Registers!LookedAt} IN
              {Registers!FromContext[n] : n \in P} \ {Registers!Zero} =
                  {<<"crash", f>> : f \in Registers!ToSet(Registers!Fields(arch)) \ NotFollowed}
<1> DEFINE F == Registers!Fields(arch)
           P == {n \in DOMAIN F : F[n] \in Registers!LookedAt}
<1>1. \A n \in DOMAIN F : RightField(n)
  BY AllRight
<1>2. \A n \in DOMAIN F : Registers!FromContext[n] = <<"crash", F[n]>> <=> F[n] \notin Registers!Misread
  BY <1>1 DEF RightField
<1>3. \A n \in DOMAIN F : F[n] \in Registers!LookedAt <=> F[n] \notin NotFollowed
  BY <1>1 DEF RightField
<1>4. Registers!Misread \subseteq NotFollowed
  BY DEF NotFollowed
<1>5. \A n \in P : Registers!FromContext[n] = <<"crash", F[n]>>
  BY <1>2, <1>3, <1>4
<1>6. P = {n \in DOMAIN F : F[n] \notin NotFollowed}
  BY <1>3
<1>7. {<<"crash", f>> : f \in Registers!ToSet(F) \ NotFollowed} = {<<"crash", F[n]>> : n \in P}
  <2> HIDE DEF F
  <2> QED BY <1>6 DEF Registers!ToSet
<1>8. {Registers!FromContext[n] : n \in P} \ {Registers!Zero} = {<<"crash", F[n]>> : n \in P}
  <2>1. {Registers!FromContext[n] : n \in P} = {<<"crash", F[n]>> : n \in P}
    BY <1>5
  <2>2. \A n \in P : <<"crash", F[n]>> # Registers!Zero
    BY DEF Registers!Zero
  <2> QED BY <2>1, <2>2
<1> QED BY <1>2, <1>7, <1>8

---------------------------------------------------------------------------
(* The slots.  Each is filled once, and the first is for the top thread. *)

RegisterTypes ==
    /\ arch \in Arch /\ context \in BOOLEAN
    /\ threads \in Seq(Thread)
    /\ \A i, j \in 1..Len(threads) : threads[i] = threads[j] => i = j
    /\ turn \in 1..Len(threads) + 1
    /\ DOMAIN prstatus = Registers!Slots

\* The top thread has been met.
Met == \E i \in 1..turn - 1 : threads[i] = Top

\* The counter is the next slot to be filled, and the first slot is left free
\* for the top thread until it has been met.
SlotInv ==
    /\ cur = IF Met THEN turn - 1 ELSE turn
    /\ \A i \in Registers!Slots :
          i >= cur \/ (i = 0 /\ ~Met /\ turn <= Len(threads)) => prstatus[i] = Registers!Blank

\* A slot has the registers of the thread in it, and the first, once it is met,
\* those of the top thread.
OwnInv ==
    \A i \in Registers!Slots :
        LET p == prstatus[i] IN
        \/ p.pr_reg = Registers!Blank.pr_reg \/ p.pr_reg = Registers!FromThread(p.pr_pid)
        \/ p.pr_pid = Top /\ context /\ p.pr_reg = Registers!FromContext

TopInv ==
    Met => /\ prstatus[0].pr_pid = Top
           /\ context => prstatus[0].pr_reg = Registers!FromContext

RegisterInv == RegisterTypes /\ SlotInv /\ OwnInv /\ TopInv

LEMMA RegisterInit == Registers!Init => RegisterInv
<1> SUFFICES ASSUME Registers!Init PROVE RegisterInv
  OBVIOUS
<1>1. PICK s \in SUBSET Thread : threads \in Registers!SetToSeqs(s)
  BY DEF Registers!Init
<1>2. Registers!Cardinality(s) \in Nat
  <2>1. IsFiniteSet(Thread)
    BY RegistersAssumption DEF Registers!RegisterAssumption, Registers!IsFiniteSet, IsFiniteSet
  <2>2. Cardinality(s) \in Nat
    BY <2>1, FS_Subset, FS_CardinalityType
  <2>3. Registers!Cardinality(s) = Cardinality(s)
    BY DEF Registers!Cardinality, Cardinality
  <2> QED BY <2>2, <2>3
<1>3. PICK n \in Nat : /\ threads \in [1..n -> s]
                       /\ \A i, j \in 1..n : i # j => threads[i] # threads[j]
  BY <1>1, <1>2 DEF Registers!SetToSeqs
<1>4. threads \in Seq(Thread) /\ Len(threads) = n
  BY <1>3
<1>5. turn = 1 /\ cur = 1 /\ ~Met
  BY DEF Registers!Init, Registers!First, Met
<1>6. RegisterTypes
  BY <1>3, <1>4, <1>5 DEF Registers!Init, RegisterTypes
<1>7. \A i \in Registers!Slots : prstatus[i] = Registers!Blank
  BY DEF Registers!Init
<1> QED BY <1>5, <1>6, <1>7 DEF RegisterInv, SlotInv, OwnInv, TopInv

LEMMA RegisterStep == RegisterInv /\ [Registers!Next]_(Registers!vars) => RegisterInv'
<1> SUFFICES ASSUME RegisterInv, [Registers!Next]_(Registers!vars) PROVE RegisterInv'
  OBVIOUS
<1>1. CASE UNCHANGED Registers!vars
  <2>1. UNCHANGED <<arch, threads, context, prstatus, turn, cur>>
    BY <1>1 DEF Registers!vars
  <2>2. UNCHANGED <<Registers!Slots, Registers!Blank, Registers!FromContext, Met>>
    BY <2>1 DEF Registers!Slots, Registers!Blank, Registers!FromContext, Met
  <2>3. \A t : Registers!FromThread(t)' = Registers!FromThread(t)
    BY <2>1 DEF Registers!FromThread
  <2> QED BY <2>1, <2>2, <2>3 DEF RegisterInv, RegisterTypes, SlotInv, OwnInv, TopInv
<1>2. CASE Registers!Next
  <2> DEFINE Slot == Registers!Slot
  <2>1. /\ UNCHANGED <<arch, threads, context>>
        /\ turn \in 1..Len(threads) /\ turn' = turn + 1 /\ Len(threads) \in Nat
        /\ cur' = IF threads[turn] = Top THEN cur ELSE cur + 1
    BY <1>2 DEF Registers!Next, Registers!CreateCorePrStatus, Registers!IsTop, RegisterInv, RegisterTypes
  <2>2. /\ UNCHANGED <<Registers!Slots, Registers!Blank, Registers!FromContext>>
        /\ \A t : Registers!FromThread(t)' = Registers!FromThread(t)
    BY <2>1 DEF Registers!Slots, Registers!Blank, Registers!FromContext, Registers!FromThread
  <2>3. PICK reg \in IF threads[turn] = Top /\ context THEN {Registers!FromContext}
                     ELSE {Registers!FromThread(threads[turn]), prstatus[Slot].pr_reg} :
          prstatus' = [prstatus EXCEPT ![Slot] = [pr_pid |-> threads[turn], pr_reg |-> reg]]
    BY <1>2 DEF Registers!Next, Registers!CreateCorePrStatus, Registers!TakesContext, Registers!IsTop
  <2>4. Met' <=> Met \/ threads[turn] = Top
    BY <2>1 DEF Met
  <2>5. threads[turn] = Top => ~Met
    BY <2>1 DEF RegisterInv, RegisterTypes, Met
  <2>6. Met => turn > 1
    BY <2>1 DEF Met
  <2>7. cur = IF Met THEN turn - 1 ELSE turn
    BY DEF RegisterInv, SlotInv
  <2>8. /\ Slot \in Registers!Slots
        /\ prstatus[Slot] = Registers!Blank
        /\ threads[turn] = Top => Slot = 0
        /\ threads[turn] # Top => Slot = cur \/ (Slot = 0 /\ ~Met /\ turn = Len(threads))
    <3>1. Slot = IF threads[turn] = Top \/ cur >= Len(threads) THEN 0 ELSE cur
      BY DEF Registers!Slot, Registers!IsTop
    <3>2. \A i \in Registers!Slots :
             i >= cur \/ (i = 0 /\ ~Met) => prstatus[i] = Registers!Blank
      BY <2>1 DEF RegisterInv, SlotInv
    <3>3. Registers!Slots = 0..Len(threads) - 1
      BY DEF Registers!Slots
    <3>4. CASE threads[turn] = Top
      BY <3>1, <3>2, <3>3, <3>4, <2>1, <2>5
    <3>5. CASE threads[turn] # Top /\ cur >= Len(threads)
      BY <3>1, <3>2, <3>3, <3>5, <2>1, <2>7
    <3>6. CASE threads[turn] # Top /\ ~(cur >= Len(threads))
      <4>1. Slot = cur
        BY <3>1, <3>6
      <4>2. cur \in 0..Len(threads) - 1
        BY <3>6, <2>1, <2>6, <2>7
      <4>3. cur \in Registers!Slots /\ prstatus[cur] = Registers!Blank
        BY <3>2, <3>3, <4>2
      <4> QED BY <4>1, <4>3, <3>6
    <3> QED BY <3>4, <3>5, <3>6
  <2>9. /\ DOMAIN prstatus = Registers!Slots /\ DOMAIN prstatus' = Registers!Slots
        /\ prstatus'[Slot] = [pr_pid |-> threads[turn], pr_reg |-> reg]
        /\ \A i \in Registers!Slots : i # Slot => prstatus'[i] = prstatus[i]
    BY <2>3, <2>8 DEF RegisterInv, RegisterTypes
  <2>10. RegisterTypes'
    BY <2>1, <2>2, <2>9 DEF RegisterInv, RegisterTypes
  <2>11. SlotInv'
    <3>1. cur' = IF Met' THEN turn' - 1 ELSE turn'
      BY <2>1, <2>4, <2>5, <2>7
    <3>2. ASSUME NEW i \in Registers!Slots,
                 i >= cur' \/ (i = 0 /\ ~Met' /\ turn' <= Len(threads))
          PROVE  i # Slot /\ prstatus[i] = Registers!Blank
      <4>1. i \in 0..Len(threads) - 1
        BY DEF Registers!Slots
      <4>2. i >= cur \/ (i = 0 /\ ~Met /\ turn <= Len(threads))
        BY <3>2, <4>1, <2>1, <2>4, <2>7
      <4>3. prstatus[i] = Registers!Blank
        BY <4>2 DEF RegisterInv, SlotInv
      <4>4. i # Slot
        BY <3>2, <4>1, <2>1, <2>4, <2>5, <2>6, <2>7, <2>8
      <4> QED BY <4>3, <4>4
    <3> QED BY <3>1, <3>2, <2>1, <2>2, <2>9 DEF SlotInv
  <2>12. OwnInv'
    <3>1. ASSUME NEW i \in Registers!Slots
          PROVE  LET p == prstatus'[i] IN
                 \/ p.pr_reg = Registers!Blank.pr_reg \/ p.pr_reg = Registers!FromThread(p.pr_pid)
                 \/ p.pr_pid = Top /\ context /\ p.pr_reg = Registers!FromContext
      <4>1. CASE i = Slot
        BY <4>1, <2>3, <2>8, <2>9
      <4>2. CASE i # Slot
        BY <4>2, <2>9 DEF RegisterInv, OwnInv
      <4> QED BY <4>1, <4>2
    <3> QED BY <3>1, <2>1, <2>2 DEF OwnInv
  <2>13. TopInv'
    <3>1. CASE threads[turn] = Top
      BY <3>1, <2>1, <2>2, <2>3, <2>8, <2>9 DEF TopInv
    <3>2. CASE threads[turn] # Top /\ Met
      <4>1. Slot # 0 /\ 0 \in Registers!Slots
        BY <3>2, <2>1, <2>6, <2>7, <2>8 DEF Registers!Slots
      <4> QED BY <3>2, <4>1, <2>1, <2>2, <2>9 DEF TopInv, RegisterInv
    <3>3. CASE threads[turn] # Top /\ ~Met
      BY <3>3, <2>4 DEF TopInv
    <3> QED BY <3>1, <3>2, <3>3
  <2> QED BY <2>10, <2>11, <2>12, <2>13 DEF RegisterInv
<1> QED BY <1>1, <1>2

LEMMA RegisterInvariant == Registers!Spec => []RegisterInv
BY RegisterInit, RegisterStep, PTL DEF Registers!Spec

\* On every architecture and for any threads in any order, a dump has the
\* registers of its threads, and a crash and its minidump those of the crash.
THEOREM RegistersAreOfCrash == Registers!Spec => []RegistersOfCrash
<1>1. RegisterInv => RegistersOfCrash
  <2> SUFFICES ASSUME RegisterInv PROVE RegistersOfCrash
    OBVIOUS
  <2>1. Registers!OwnRegisters
    BY DEF RegisterInv, OwnInv, Registers!OwnRegisters
  <2>2. ASSUME Registers!Done, context, Top \in Registers!ToSet(threads)
        PROVE  /\ prstatus[0].pr_pid = Top /\ prstatus[0].pr_reg = Registers!FromContext
               /\ threads # <<>>
    <3>1. /\ threads \in Seq(Thread) /\ Len(threads) \in Nat
          /\ turn = Len(threads) + 1
      BY <2>2 DEF RegisterInv, RegisterTypes, Registers!Done
    <3>2. PICK i \in 1..Len(threads) : threads[i] = Top
      BY <2>2, <3>1 DEF Registers!ToSet
    <3>3. Met
      BY <3>1, <3>2 DEF Met
    <3>4. threads # <<>>
      BY <3>1, <3>2
    <3> QED BY <2>2, <3>3, <3>4 DEF RegisterInv, TopInv
  <2>3. arch \in Arch
    BY DEF RegisterInv, RegisterTypes
  <2>4. Registers!TopIsCrash
    BY <2>2, <2>3, CrashFields DEF Registers!TopIsCrash
  <2>5. Registers!MinidumpFollows
    <3> SUFFICES ASSUME Registers!Done, context, Top \in Registers!ToSet(threads)
                 PROVE  Registers!Followed \ {Registers!Zero} =
                            {<<"crash", f>> : f \in Registers!ToSet(Registers!Fields(arch)) \ NotFollowed}
      BY DEF Registers!MinidumpFollows, NotFollowed
    <3>1. Registers!Followed =
             {Registers!FromContext[n] : n \in {m \in DOMAIN Registers!Fields(arch) :
                  Registers!Fields(arch)[m] \in Registers!LookedAt}}
      BY <2>2 DEF Registers!Followed
    <3> QED BY <3>1, <2>3, CrashFields
  <2> QED BY <2>1, <2>4, <2>5 DEF RegistersOfCrash, Registers!RegistersOfCrash
<1> QED BY <1>1, RegisterInvariant, PTL

---------------------------------------------------------------------------
(* The strings. *)

Known == Strings!Bits(kind)

StringTypes ==
    /\ kind \in {"flag", "filter"}
    /\ option \subseteq Nat
    /\ bit \in 1..Len(Strings!Constant[kind]) + 1
    /\ need_seq \in BOOLEAN

Below == {c \in option \cap Known : c < bit}
Spelled(B) == {Strings!Text[kind][b] : b \in B}

Said == {Strings!Bar, Strings!Nothing[kind]} \cup Spelled(Known)

\* Words with bars between them, those of the set bits below the current one.
AppendedInv ==
    /\ sb \in Seq(Said)
    /\ \A i \in 1..Len(sb) : sb[i] = Strings!Bar <=> i % 2 = 0
    /\ Len(sb) % 2 = 1 \/ sb = <<>>
    /\ option # {} => (need_seq <=> sb # <<>>) /\ Strings!Words = Spelled(Below)
    /\ option = {} =>
          \/ bit = 1 /\ sb = <<>>
          \/ sb = <<Strings!Nothing[kind]>> /\ bit # 1

StringInv == StringTypes /\ AppendedInv

\* The words are told apart, by each other and from the bar and the word for none.
LEMMA WordFacts ==
    ASSUME kind \in {"flag", "filter"}
    PROVE  /\ Len(Strings!Constant[kind]) \in Nat \ {0}
           /\ Known = 1..Len(Strings!Constant[kind])
           /\ Strings!Nothing[kind] # Strings!Bar
           /\ \A b \in Known :
                 /\ Strings!Text[kind][b] \notin {Strings!Bar, Strings!Nothing[kind]}
                 /\ \A c \in Known : Strings!Text[kind][b] = Strings!Text[kind][c] => b = c
<1>1. CASE kind = "flag"
  <2>1. /\ Strings!Constant[kind] = <<"FLAG_CORE", "FLAG_PROCESS_COMM", "FLAG_PID",
                                      "FLAG_THREAD_COMM", "FLAG_TID", "FLAG_TIMESTAMP">>
        /\ Strings!Text[kind] = Strings!Constant[kind]
    BY <1>1 DEF Strings!Constant, Strings!Text
  <2>2. Known = 1..6 /\ Len(Strings!Constant[kind]) = 6
    BY <2>1 DEF Known, Strings!Bits
  <2>3. /\ Strings!Nothing[kind] = "FLAG_NONE"
        /\ Strings!Bar = "|"
    BY <1>1 DEF Strings!Nothing, Strings!Bar
  <2>4. ASSUME NEW b \in 1..6
        PROVE  /\ Strings!Text[kind][b] \notin {"|", "FLAG_NONE"}
               /\ \A c \in 1..6 : Strings!Text[kind][b] = Strings!Text[kind][c] => b = c
    BY <2>1
  <2> QED BY <2>2, <2>3, <2>4
<1>2. CASE kind = "filter"
  <2>1. /\ Strings!Constant[kind] =
              <<"FILTER_SPECIAL_VMA", "FILTER_FILE_VMA", "FILTER_SHARED_VMA",
                "FILTER_SANITIZER_SHADOW_VMA", "FILTER_NON_READ_VMA", "FILTER_SIGNAL_CONTEXT",
                "FILTER_MINIDUMP", "FILTER_JAVAHEAP_VMA", "FILTER_JIT_CACHE_VMA">>
        /\ Strings!Text[kind] =
              <<"FILTER_SPECIAL_VMA", "FILTER_FILE_VMA", "FILTER_SHARED_VMA",
                "FILTER_SANITIZER_SHADOW_VMA", "FLAG_TID", "FILTER_SIGNAL_CONTEXT",
                "FILTER_MINIDUMP", "FILTER_JAVAHEAP_VMA", "FILTER_JIT_CACHE_VMA">>
    BY <1>2 DEF Strings!Constant, Strings!Text
  <2>2. Known = 1..9 /\ Len(Strings!Constant[kind]) = 9
    BY <2>1 DEF Known, Strings!Bits
  <2>3. /\ Strings!Nothing[kind] = "FILTER_NONE"
        /\ Strings!Bar = "|"
    BY <1>2 DEF Strings!Nothing, Strings!Bar
  <2>4. ASSUME NEW b \in 1..9
        PROVE  /\ Strings!Text[kind][b] \notin {"|", "FILTER_NONE"}
               /\ \A c \in 1..9 : Strings!Text[kind][b] = Strings!Text[kind][c] => b = c
    BY <2>1
  <2> QED BY <2>2, <2>3, <2>4
<1> QED BY <1>1, <1>2

LEMMA OneMore ==
    ASSUME NEW S, NEW f \in Seq(S), NEW e \in S
    PROVE  /\ f \o <<e>> \in Seq(S) /\ Len(f \o <<e>>) = Len(f) + 1
           /\ (f \o <<e>>)[Len(f) + 1] = e
           /\ \A i \in 1..Len(f) : (f \o <<e>>)[i] = f[i]
OBVIOUS

LEMMA StringInit == Strings!Init => StringInv
<1> SUFFICES ASSUME Strings!Init PROVE StringInv
  OBVIOUS
<1>1. kind \in {"flag", "filter"} /\ bit = 1 /\ sb = <<>> /\ need_seq = FALSE
  BY DEF Strings!Init, Strings!Constant
<1>2. Len(Strings!Constant[kind]) \in Nat
  BY <1>1, WordFacts
<1>3. option \subseteq Nat
  BY <1>2 DEF Strings!Init
<1>4. Strings!Words = {} /\ Below = {}
  BY <1>1, WordFacts DEF Strings!Words, Below
<1>5. StringTypes
  <2>1. bit \in 1..Len(Strings!Constant[kind]) + 1
    BY <1>1, <1>2
  <2>2. need_seq \in BOOLEAN
    BY <1>1
  <2> QED BY <1>1, <1>3, <2>1, <2>2 DEF StringTypes
<1>6. AppendedInv
  BY <1>1, <1>4 DEF AppendedInv, Spelled
<1> QED BY <1>5, <1>6 DEF StringInv

LEMMA StringStep == StringInv /\ [Strings!Next]_(Strings!vars) => StringInv'
<1> SUFFICES ASSUME StringInv, [Strings!Next]_(Strings!vars) PROVE StringInv'
  OBVIOUS
<1> DEFINE n == Len(Strings!Constant[kind])
           T == Strings!Text[kind]
<1>0. /\ kind \in {"flag", "filter"} /\ n \in Nat \ {0} /\ Known = 1..n
      /\ bit \in 1..n + 1 /\ option \subseteq Nat
  BY WordFacts DEF StringInv, StringTypes
<1>1. CASE UNCHANGED Strings!vars
  <2>1. UNCHANGED <<kind, option, bit, need_seq, sb>>
    BY <1>1 DEF Strings!vars
  <2>2. UNCHANGED <<Known, Strings!Words>>
    BY <2>1 DEF Known, Strings!Bits, Strings!Words
  <2>3. Below' = Below /\ Said' = Said /\ \A B : Spelled(B)' = Spelled(B)
    BY <2>1, <2>2 DEF Below, Spelled, Said
  <2>4. StringTypes'
    BY <2>1 DEF StringInv, StringTypes
  <2>5. AppendedInv'
    BY <2>1, <2>2, <2>3 DEF StringInv, AppendedInv
  <2> QED BY <2>4, <2>5 DEF StringInv
<1>2. CASE Strings!None
  <2>1. /\ option = {} /\ bit = 1 /\ sb' = <<Strings!Nothing[kind]>> /\ bit' = n + 1
        /\ UNCHANGED <<kind, option, need_seq>>
    BY <1>2 DEF Strings!None
  <2>2. Strings!Nothing[kind] \in Said /\ Strings!Nothing[kind] # Strings!Bar
    BY <1>0, WordFacts DEF Said
  <2>3. StringTypes'
    BY <1>0, <2>1 DEF StringInv, StringTypes
  <2>4. /\ sb' \in Seq(Said) /\ Len(sb') = 1 /\ sb'[1] = Strings!Nothing[kind]
    BY <2>1, <2>2
  <2>5. Said' = Said
    BY <2>1 DEF Said, Spelled, Known, Strings!Bits
  <2>6. AppendedInv'
    BY <1>0, <2>1, <2>2, <2>4, <2>5 DEF AppendedInv
  <2> QED BY <2>3, <2>6 DEF StringInv
<1>3. CASE Strings!Skip
  <2>1. /\ option # {} /\ bit \in Known \ option /\ bit' = bit + 1
        /\ UNCHANGED <<kind, option, need_seq, sb>>
    BY <1>3 DEF Strings!Skip, Known
  <2>2. Strings!Words' = Strings!Words /\ Known' = Known
    BY <2>1 DEF Strings!Words, Known, Strings!Bits
  <2>3. Below' = Below /\ Said' = Said /\ \A B : Spelled(B)' = Spelled(B)
    BY <1>0, <2>1, <2>2 DEF Below, Spelled, Said
  <2>4. StringTypes'
    BY <1>0, <2>1 DEF StringInv, StringTypes
  <2>5. AppendedInv'
    BY <2>1, <2>2, <2>3 DEF StringInv, AppendedInv
  <2> QED BY <2>4, <2>5 DEF StringInv
<1>4. CASE Strings!AppendWord
  <2>1. /\ bit \in option \cap Known /\ bit' = bit + 1 /\ need_seq' = TRUE
        /\ sb' = sb \o (IF need_seq THEN <<Strings!Bar>> ELSE <<>>) \o <<T[bit]>>
        /\ UNCHANGED <<kind, option>>
    BY <1>4 DEF Strings!AppendWord, Strings!NeedSeq, Known
  <2>2. T[bit] \in Said /\ T[bit] # Strings!Bar /\ Strings!Bar \in Said
    BY <1>0, <2>1, WordFacts DEF Said, Spelled
  <2>3. /\ sb \in Seq(Said) /\ Len(sb) \in Nat
        /\ need_seq \in BOOLEAN /\ (need_seq <=> sb # <<>>)
    BY <2>1 DEF StringInv, StringTypes, AppendedInv
  <2>4. StringTypes'
    BY <1>0, <2>1 DEF StringInv, StringTypes
  <2>5. Said' = Said /\ Below' = Below \cup {bit} /\ \A B : Spelled(B)' = Spelled(B)
    <3>1. Known' = Known
      BY <2>1 DEF Known, Strings!Bits
    <3> QED BY <1>0, <2>1, <3>1 DEF Below, Spelled, Said
  <2>6. /\ sb' \in Seq(Said) /\ sb' # <<>>
        /\ \A i \in 1..Len(sb') : sb'[i] = Strings!Bar <=> i % 2 = 0
        /\ Len(sb') % 2 = 1
        /\ {sb'[i] : i \in 1..Len(sb')} \ {Strings!Bar} =
              ({sb[i] : i \in 1..Len(sb)} \ {Strings!Bar}) \cup {T[bit]}
    <3> DEFINE m == Len(sb)
               w == T[bit]
    <3>1. CASE need_seq
      <4> DEFINE u == sb \o <<Strings!Bar>>
      <4>1. /\ u \in Seq(Said) /\ Len(u) = m + 1 /\ u[m + 1] = Strings!Bar
            /\ \A i \in 1..m : u[i] = sb[i]
        BY <2>2, <2>3, OneMore
      <4>0. sb' = u \o <<w>>
        BY <2>1, <3>1
      <4> HIDE DEF u
      <4>2. /\ sb' \in Seq(Said) /\ Len(sb') = m + 2
            /\ sb'[m + 1] = Strings!Bar /\ sb'[m + 2] = w
            /\ \A i \in 1..m : sb'[i] = sb[i]
        BY <2>2, <2>3, <4>0, <4>1, OneMore
      <4>3. m % 2 = 1 /\ \A i \in 1..m : sb[i] = Strings!Bar <=> i % 2 = 0
        BY <2>3, <3>1 DEF StringInv, AppendedInv
      <4>4. (m + 1) % 2 = 0 /\ (m + 2) % 2 = 1
        BY <2>3, <4>3
      <4>5. 1..Len(sb') = (1..m) \cup {m + 1, m + 2}
        BY <2>3, <4>2
      <4>6. \A i \in 1..Len(sb') : sb'[i] = Strings!Bar <=> i % 2 = 0
        BY <2>2, <4>2, <4>3, <4>4, <4>5
      <4>7. sb' # <<>> /\ Len(sb') % 2 = 1
        BY <2>3, <4>2, <4>4
      <4>8. {sb'[i] : i \in 1..Len(sb')} = {sb[i] : i \in 1..m} \cup {Strings!Bar, w}
        BY <4>2, <4>5
      <4> QED BY <2>2, <4>2, <4>6, <4>7, <4>8
    <3>2. CASE ~need_seq
      <4>1. m = 0 /\ sb' = sb \o <<>> \o <<w>>
        BY <2>1, <2>3, <3>2
      <4>2. sb \o <<>> = sb
        BY <2>3
      <4>3. sb' \in Seq(Said) /\ Len(sb') = 1 /\ sb'[1] = w
        BY <2>2, <2>3, <4>1, <4>2, OneMore
      <4> QED BY <2>2, <4>1, <4>3
    <3> QED BY <3>1, <3>2, <2>3
  <2>7. Strings!Words' = Strings!Words \cup {T[bit]}
    <3>1. DOMAIN sb = 1..Len(sb) /\ DOMAIN sb' = 1..Len(sb')
      BY <2>3, <2>6
    <3>2. /\ Strings!Words = {sb[i] : i \in DOMAIN sb} \ {Strings!Bar}
          /\ Strings!Words' = {sb'[i] : i \in DOMAIN sb'} \ {Strings!Bar}
      BY DEF Strings!Words, Strings!Bar
    <3> QED BY <2>6, <3>1, <3>2
  <2>8. Strings!Words = Spelled(Below)
    BY <2>1 DEF StringInv, AppendedInv
  <2>9. Spelled(Below \cup {bit}) = Spelled(Below) \cup {T[bit]}
    BY DEF Spelled
  <2>10. AppendedInv'
    BY <2>1, <2>5, <2>6, <2>7, <2>8, <2>9 DEF AppendedInv
  <2> QED BY <2>4, <2>10 DEF StringInv
<1> QED BY <1>1, <1>2, <1>3, <1>4 DEF Strings!Next

LEMMA StringInvariant == Strings!Spec => []StringInv
BY StringInit, StringStep, PTL DEF Strings!Spec

\* From what coreFlagToString and coreFilterToString append, the bits can be told.
THEOREM StringsReadBack == Strings!Spec => []ReadsBack
<1>1. StringInv => ReadsBack
  <2> SUFFICES ASSUME StringInv, Strings!Returned PROVE ReadsBack
    BY DEF ReadsBack, Strings!ReadsBack
  <2> DEFINE T == Strings!Text[kind]
  <2>1. /\ kind \in {"flag", "filter"} /\ bit = Len(Strings!Constant[kind]) + 1
        /\ Len(Strings!Constant[kind]) \in Nat \ {0}
        /\ Known = 1..Len(Strings!Constant[kind]) /\ option \subseteq Nat
    BY WordFacts DEF StringInv, StringTypes, Strings!Returned
  <2>2. sb \in Seq(Said) /\ DOMAIN sb = 1..Len(sb)
    BY DEF StringInv, AppendedInv
  <2>3. (\A i \in DOMAIN sb : sb[i] = Strings!Bar <=> i % 2 = 0) /\ (Len(sb) % 2 = 1 \/ sb = <<>>)
    BY <2>2 DEF StringInv, AppendedInv
  <2>4. Strings!Words = IF option = {} THEN {Strings!Nothing[kind]}
                        ELSE {T[b] : b \in option \cap Known}
    <3>1. CASE option = {}
      <4>1. sb = <<Strings!Nothing[kind]>> /\ Strings!Nothing[kind] # Strings!Bar
        BY <2>1, <3>1, WordFacts DEF StringInv, AppendedInv
      <4> QED BY <3>1, <4>1 DEF Strings!Words
    <3>2. CASE option # {}
      <4>1. Below = option \cap Known
        BY <2>1 DEF Below
      <4> QED BY <3>2, <4>1 DEF StringInv, AppendedInv, Spelled
    <3> QED BY <3>1, <3>2
  <2>5. \A b \in Known : T[b] \in Strings!Words <=> b \in option
    BY <2>1, <2>4, WordFacts
  <2> QED BY <2>3, <2>4, <2>5 DEF ReadsBack, Strings!ReadsBack, Known
<1> QED BY <1>1, StringInvariant, PTL
=============================================================================
