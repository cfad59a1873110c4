-------------------------- MODULE CoreFilesProofs --------------------------
(***************************************************************************)
(* Where the segments of a 32-bit core file are, for any sizes and VMAs    *)
(* and any width of p_offset and of ftell.  The file position follows the  *)
(* ends of the segments, counted without a limit, until a write fails      *)
(* beyond what ftell can report.                                           *)
(***************************************************************************)
EXTENDS CoreFiles, CoreFileProofs, SequenceTheorems, WellFoundedInduction

---------------------------------------------------------------------------
(* The invariant. *)

Base32 == RoundUp(note32.offset + note32.filesz, AlignSize)

\* Where segment i ends, and segment i + 1 begins.
Ends == LET at[i \in 0..Len(maps32)] ==
                IF i = 0 THEN Base32 ELSE at[i - 1] + Narrow!Filesz(i)
        IN at

Fileszs == [i \in 1..Len(maps32) |-> Narrow!Filesz(i)]

Before32 == {"fopen", "create", "headers", "notes"}

NarrowTypes ==
    /\ pc32 \in Before32 \cup {"segment", "page", "pad", "closed"}
    /\ maps32 \in Seq(Narrow!Vma) /\ Len(maps32) <= Maps32
    /\ threads32 \in Nat /\ auxvnum32 \in {0, 1}
    /\ note32 \in [offset : Nat, filesz : Nat]
    /\ pos32 \in Nat /\ index32 \in 1..Len(maps32) + 1 /\ page32 \in Nat /\ start32 \in Int
    /\ lost \in 0..index32 - 1 /\ short32 \in BOOLEAN
    /\ pc32 \in Before32 => index32 = 1
    /\ pc32 \in {"page", "pad"} =>
           /\ index32 <= Len(maps32) /\ page32 <= Narrow!Count(index32)
           /\ Narrow!Filesz(index32) > 0

\* The program headers, and pos until the first segment.
HeaderInv32 ==
    /\ pc32 \in {"fopen", "create"} => phdr32 = <<>>
    /\ pc32 \notin {"fopen", "create"} =>
           phdr32 = [i \in 1..Len(maps32) |-> [offset |-> Ends[i - 1] % OffsetWord,
                                               filesz |-> Narrow!Filesz(i)]]
    /\ pc32 \in {"headers", "notes"} =>
           note32 = [offset |-> Ehdr32 + (Len(maps32) + 1) * Phdr32,
                     filesz |-> Auxv32 * auxvnum32 + NoteHead + Narrow!Extra
                                    + Narrow!NtFile(RoundUp(Narrow!Names, 4))]
    /\ pc32 \in {"fopen", "create", "headers"} => pos32 = 0
    /\ pc32 = "notes" => pos32 = note32.offset

\* Where pos is between pages: the place of the current one, or behind it if a
\* page of zeroes could not be written.
Here32 == Ends[index32 - 1] + (IF pc32 = "segment" THEN 0 ELSE page32 * AlignSize)

PosInv ==
    pc32 \in {"segment", "page", "pad"} =>
        /\ pos32 > 0
        /\ lost = 0 => pos32 <= Here32 /\ (~short32 => pos32 = Here32)
        /\ lost # 0 /\ ~short32 => pos32 >= Ends[lost - 1]

\* What ftell said at the beginning of the segment.
StartInv ==
    pc32 \in {"page", "pad"} =>
        /\ start32 = -1 \/ start32 > 0
        /\ pc32 = "pad" => start32 # -1
        /\ lost = 0 /\ start32 = -1 => Ends[index32 - 1] > OffsetMax
        /\ lost = 0 /\ start32 # -1 =>
               start32 <= Ends[index32 - 1] /\ (~short32 => start32 = Ends[index32 - 1])
        /\ lost # 0 /\ ~short32 => start32 = -1

LostInv == lost # 0 => Ends[lost - 1] > OffsetMax

FailedInv32 ==
    /\ failed32 \subseteq 1..index32
    /\ pc32 \in Before32 \cup {"segment", "page"} => index32 \notin failed32
    /\ pc32 = "pad" => index32 \in failed32

\* Page k of segment i is written, or replaced by zeroes.
Holds32(i, k) ==
    LET p == Ends[i - 1] + k * AlignSize IN
    /\ p \in DOMAIN content32
    /\ content32[p] = IF i \in failed32 THEN <<0, 0>> ELSE <<i, k>>

DoneInv32 ==
    ~short32 =>
        /\ \A i \in 1..Len(maps32) :
               i < index32 /\ (lost = 0 \/ i < lost) /\ Narrow!Filesz(i) > 0 =>
                   \A k \in 0..Narrow!Count(i) - 1 : Holds32(i, k)
        /\ lost = 0 /\ pc32 \in {"page", "pad"} =>
               \A k \in 0..page32 - 1 : Holds32(index32, k)

NarrowInv == NarrowTypes /\ HeaderInv32 /\ PosInv /\ StartInv /\ LostInv /\ FailedInv32 /\ DoneInv32

---------------------------------------------------------------------------
(* Arithmetic and sums. *)

\* Induction up to n, over a set in the place of a formula.
LEMMA UpTo ==
    ASSUME NEW n \in Nat, NEW G, 0 \in G, \A m \in 1..n : m - 1 \in G => m \in G
    PROVE  0..n \subseteq G
<1> DEFINE T == (0..n) \ G
<1> SUFFICES ASSUME T # {} PROVE FALSE OBVIOUS
<1>1. T \subseteq Nat /\ T # {} OBVIOUS
<1>2. PICK m \in T : \A y \in T : ~(<<y, m>> \in OpToRel(<, Nat))
  <2> HIDE DEF T
  <2> QED BY <1>1, NatLessThanWellFounded, WFMin
<1>3. \A y \in T : ~(y < m)
  BY <1>1, <1>2 DEF OpToRel
<1>4. m \in 1..n /\ m - 1 \in 0..n /\ m - 1 < m OBVIOUS
<1>5. m - 1 \in G BY <1>3, <1>4
<1> QED BY <1>4, <1>5

\* The sums of f from a on.
Sums32(n, a, f, g) == g[0] = a /\ \A i \in 1..n : g[i] = g[i - 1] + f[i]

LEMMA SumsExist ==
    ASSUME NEW n \in Nat, NEW a \in Nat, NEW f \in [1..n -> Nat]
    PROVE  \E g \in [0..n -> Nat] : Sums32(n, a, f, g)
<1> DEFINE G == {m \in 0..n : \E g \in [0..m -> Nat] : Sums32(m, a, f, g)}
<1>1. 0 \in G
  <2>1. [i \in 0..0 |-> a] \in [0..0 -> Nat] /\ Sums32(0, a, f, [i \in 0..0 |-> a])
    BY DEF Sums32
  <2> QED BY <2>1
<1>2. ASSUME NEW m \in 1..n, m - 1 \in G PROVE m \in G
  <2>1. PICK g \in [0..(m - 1) -> Nat] : Sums32(m - 1, a, f, g) BY <1>2
  <2> DEFINE h == [i \in 0..m |-> IF i = m THEN g[m - 1] + f[m] ELSE g[i]]
  <2>2. h \in [0..m -> Nat] OBVIOUS
  <2>3. Sums32(m, a, f, h) BY <2>1 DEF Sums32
  <2> HIDE DEF h
  <2>4. \E k \in [0..m -> Nat] : Sums32(m, a, f, k) BY <2>2, <2>3
  <2>5. m \in 0..n OBVIOUS
  <2> QED BY <2>4, <2>5, Zenon
<1>3. 0..n \subseteq G
  <2> HIDE DEF G
  <2> QED BY <1>1, <1>2, UpTo
<1>4. n \in G
  <2> HIDE DEF G
  <2> QED BY <1>3
<1> QED BY <1>4

\* Two functions that begin alike and go on alike are the same.
Alike(n, g, h) == g[0] = h[0] /\ \A m \in 1..n : g[m - 1] = h[m - 1] => g[m] = h[m]

LEMMA GoOnAlike ==
    ASSUME NEW n \in Nat, NEW g, NEW h, Alike(n, g, h)
    PROVE  \A i \in 0..n : g[i] = h[i]
<1> DEFINE G == {i \in 0..n : g[i] = h[i]}
<1>1. 0 \in G BY DEF Alike
<1>2. ASSUME NEW m \in 1..n, m - 1 \in G PROVE m \in G
  BY <1>2 DEF Alike
<1>3. 0..n \subseteq G
  <2> HIDE DEF G
  <2> QED BY <1>1, <1>2, UpTo
<1> QED BY <1>3

LEMMA SumsMonotone ==
    ASSUME NEW n \in Nat, NEW a \in Nat, NEW f \in [1..n -> Nat],
           NEW g \in [0..n -> Nat], Sums32(n, a, f, g)
    PROVE  \A i, j \in 0..n : i <= j => g[i] <= g[j]
<1> TAKE i \in 0..n
<1> DEFINE G == {j \in 0..n : i <= j => g[i] <= g[j]}
<1>1. 0 \in G OBVIOUS
<1>2. ASSUME NEW m \in 1..n, m - 1 \in G PROVE m \in G
  <2>1. g[m] = g[m - 1] + f[m] /\ m - 1 \in 0..n /\ m \in 0..n BY DEF Sums32
  <2>2. CASE i <= m - 1 BY <1>2, <2>1, <2>2
  <2>3. CASE ~(i <= m - 1) BY <2>1, <2>3
  <2> QED BY <2>2, <2>3
<1>3. 0..n \subseteq G
  <2> HIDE DEF G
  <2> QED BY <1>1, <1>2, UpTo
<1> QED BY <1>3

\* A sum modulo w may be taken modulo w on the way.
LEMMA ModSmall ==
    ASSUME NEW a \in Nat, NEW w \in Nat, a < w
    PROVE  a % w = a
OBVIOUS

LEMMA ModPlus ==
    ASSUME NEW a \in Nat, NEW b \in Nat, NEW w \in Nat \ {0}
    PROVE  ((a % w) + b) % w = (a + b) % w
<1> DEFINE q == a \div w
           r == a % w
           s == (r + b) \div w
           t == (r + b) % w
           u == (a + b) \div w
           v == (a + b) % w
<1>1. a = q * w + r /\ q \in Nat /\ r \in Nat OBVIOUS
<1>2. r + b = s * w + t /\ s \in Nat /\ t \in Nat /\ t < w BY <1>1
<1>3. a + b = u * w + v /\ u \in Nat /\ v \in Nat /\ v < w OBVIOUS
<1> HIDE DEF q, r, s, t, u, v
<1>4. (q + s) * w + t = u * w + v
  BY <1>1, <1>2, <1>3
<1>5. q + s = u
  <2>1. ASSUME q + s < u PROVE FALSE
    <3>1. q + s + 1 = u \/ q + s + 1 < u BY <1>1, <1>2, <1>3, <2>1
    <3>2. (q + s + 1) * w <= u * w
      BY <1>1, <1>2, <1>3, <3>1, MonotoneTimes
    <3>3. (q + s + 1) * w = (q + s) * w + w /\ (q + s) * w \in Nat /\ u * w \in Nat
      BY <1>1, <1>2, <1>3
    <3> QED BY <1>2, <1>3, <1>4, <3>2, <3>3
  <2>2. ASSUME u < q + s PROVE FALSE
    <3>1. u + 1 = q + s \/ u + 1 < q + s BY <1>1, <1>2, <1>3, <2>2
    <3>2. (u + 1) * w <= (q + s) * w
      BY <1>1, <1>2, <1>3, <3>1, MonotoneTimes
    <3>3. (u + 1) * w = u * w + w /\ (q + s) * w \in Nat /\ u * w \in Nat
      BY <1>1, <1>2, <1>3
    <3> QED BY <1>2, <1>3, <1>4, <3>2, <3>3
  <2> QED BY <1>1, <1>2, <1>3, <2>1, <2>2
<1>6. t = v
  <2>1. (q + s) * w \in Nat BY <1>1, <1>2
  <2> QED BY <1>2, <1>3, <1>4, <1>5, <2>1
<1> QED BY <1>6 DEF t, v, r

---------------------------------------------------------------------------
(* Types. *)

LEMMA Sizes32 ==
    /\ Four(Ehdr32) /\ Ehdr32 > 0 /\ Four(Phdr32) /\ Four(NoteHead)
    /\ Four(PrStatus32) /\ Four(SigInfoSize) /\ Four(Auxv32) /\ Four(File32)
    /\ Four(AlignSize) /\ AlignSize \in Nat \ {0}
    /\ OffsetWord \in Nat \ {0} /\ OffsetMax \in Nat
    /\ Maps32 \in Nat /\ Pages32 \in Nat /\ Name32 \in Nat /\ Threads32 \in Nat
    /\ Half \in Nat /\ Maps32 + 1 < Half
  BY NarrowAssumption, FourMod DEF Narrow!WidthAssumption

LEMMA MapTypes ==
    ASSUME maps32 \in Seq(Narrow!Vma)
    PROVE  /\ Len(maps32) \in Nat
           /\ \A i \in 1..Len(maps32) :
                  /\ maps32[i].name \in Nat /\ Narrow!Count(i) \in Nat \ {0}
                  /\ Narrow!Filesz(i) \in {0, Narrow!Count(i) * AlignSize}
                  /\ Narrow!Filesz(i) \in Nat
           /\ Fileszs \in [1..Len(maps32) -> Nat]
<1>1. Len(maps32) \in Nat OBVIOUS
<1>2. ASSUME NEW i \in 1..Len(maps32)
      PROVE  /\ maps32[i].name \in Nat /\ Narrow!Count(i) \in Nat \ {0}
             /\ Narrow!Filesz(i) \in {0, Narrow!Count(i) * AlignSize}
             /\ Narrow!Filesz(i) \in Nat
  <2>1. maps32[i] \in Narrow!Vma OBVIOUS
  <2>2. maps32[i].name \in Nat /\ Narrow!Count(i) \in Nat \ {0}
    BY <2>1, Sizes32 DEF Narrow!Vma, Narrow!Count
  <2>3. Narrow!Count(i) * AlignSize \in Nat BY <2>2, Sizes32
  <2>4. Narrow!Filesz(i) \in {0, Narrow!Count(i) * AlignSize}
    BY DEF Narrow!Filesz, Narrow!Memsz, Narrow!Count
  <2> QED BY <2>2, <2>3, <2>4
<1>3. Fileszs \in [1..Len(maps32) -> Nat] BY <1>2 DEF Fileszs
<1> QED BY <1>1, <1>2, <1>3

LEMMA NamesType == maps32 \in Seq(Narrow!Vma) => Narrow!Names \in Nat
<1> SUFFICES ASSUME maps32 \in Seq(Narrow!Vma) PROVE Narrow!Names \in Nat OBVIOUS
<1> DEFINE n == Len(maps32)
           f == [i \in 1..n |-> maps32[i].name + 1]
           u == CHOOSE u : u = [i \in 0..n |-> IF i = 0 THEN 0 ELSE u[i - 1] + maps32[i].name + 1]
<1>1. n \in Nat /\ f \in [1..n -> Nat] BY MapTypes
<1>2. PICK g \in [0..n -> Nat] : Sums32(n, 0, f, g)
  <2>1. 0 \in Nat OBVIOUS
  <2> HIDE DEF f, n
  <2> QED BY <1>1, <2>1, SumsExist, Zenon
<1>3. g[0] = 0 /\ \A i \in 1..n : g[i] = g[i - 1] + maps32[i].name + 1
  <2>1. g[0] = 0 /\ \A i \in 1..n : g[i] = g[i - 1] + f[i]
    <3> HIDE DEF f
    <3> QED BY <1>2 DEF Sums32
  <2>2. \A i \in 1..n : f[i] = maps32[i].name + 1 /\ maps32[i].name \in Nat /\ g[i - 1] \in Nat
    <3>1. \A i \in 1..n : maps32[i].name \in Nat BY MapTypes
    <3>2. \A i \in 1..n : g[i - 1] \in Nat
      <4> HIDE DEF n
      <4> QED BY <1>1
    <3> QED BY <3>1, <3>2
  <2> HIDE DEF f
  <2> QED BY <2>1, <2>2
<1>4. g = [i \in 0..n |-> IF i = 0 THEN 0 ELSE g[i - 1] + maps32[i].name + 1]
  BY <1>3
<1>5. u = [i \in 0..n |-> IF i = 0 THEN 0 ELSE u[i - 1] + maps32[i].name + 1]
  BY <1>4, Zenon
<1>6. u[n] \in Nat
  <2>1. u[0] = 0 /\ \A i \in 1..n : u[i] = u[i - 1] + maps32[i].name + 1
    <3>1. \A i \in 0..n : u[i] = IF i = 0 THEN 0 ELSE u[i - 1] + maps32[i].name + 1
      <4> HIDE DEF u
      <4> QED BY <1>5
    <3> HIDE DEF u
    <3> QED BY <1>1, <3>1
  <2> HIDE DEF u
  <2>2. u[0] = g[0] BY <1>3, <2>1
  <2>3. \A m \in 1..n : u[m - 1] = g[m - 1] => u[m] = g[m]
    BY <1>3, <2>1
  <2>5. n \in Nat BY <1>1
  <2>6. \A m \in 0..n : u[m] = g[m]
    <3> HIDE DEF n
    <3>1. Alike(n, u, g) BY <2>2, <2>3 DEF Alike
    <3> QED BY <3>1, <2>5, GoOnAlike, Zenon
  <2>4. u[n] = g[n] BY <1>1, <2>6
  <2> QED BY <1>1, <2>4
<1> QED BY <1>6 DEF Narrow!Names

---------------------------------------------------------------------------
(* Places. *)

\* The ends are sums, and so in order.
LEMMA EndsAreSums ==
    maps32 \in Seq(Narrow!Vma) /\ note32 \in [offset : Nat, filesz : Nat] =>
        /\ Base32 \in Nat
        /\ Ends \in [0..Len(maps32) -> Nat] /\ Sums32(Len(maps32), Base32, Fileszs, Ends)
<1> SUFFICES ASSUME maps32 \in Seq(Narrow!Vma), note32 \in [offset : Nat, filesz : Nat]
             PROVE  /\ Base32 \in Nat
                    /\ Ends \in [0..Len(maps32) -> Nat]
                    /\ Sums32(Len(maps32), Base32, Fileszs, Ends)
  OBVIOUS
<1> DEFINE n == Len(maps32)
<1>1. n \in Nat /\ Fileszs \in [1..n -> Nat] BY MapTypes
<1>2. Base32 \in Nat
  <2>1. note32.offset + note32.filesz \in Nat OBVIOUS
  <2> QED BY <2>1, Sizes32, RoundUpFacts DEF Base32
<1>3. PICK g \in [0..n -> Nat] : Sums32(n, Base32, Fileszs, g)
  <2> HIDE DEF n
  <2> QED BY <1>1, <1>2, SumsExist, Zenon
<1>4. g[0] = Base32 /\ \A i \in 1..n : g[i] = g[i - 1] + Narrow!Filesz(i)
  BY <1>3 DEF Sums32, Fileszs
<1>5. g = [i \in 0..n |-> IF i = 0 THEN Base32 ELSE g[i - 1] + Narrow!Filesz(i)]
  BY <1>4
<1>6. Ends = [i \in 0..n |-> IF i = 0 THEN Base32 ELSE Ends[i - 1] + Narrow!Filesz(i)]
  BY <1>5, Zenon DEF Ends
<1>7. Ends[0] = Base32 /\ \A i \in 1..n : Ends[i] = Ends[i - 1] + Narrow!Filesz(i)
  <2>1. \A i \in 0..n : Ends[i] = IF i = 0 THEN Base32 ELSE Ends[i - 1] + Narrow!Filesz(i)
    BY <1>6
  <2> QED BY <1>1, <2>1
<1>8. \A i \in 0..n : g[i] = Ends[i]
  <2>1. g[0] = Ends[0] BY <1>4, <1>7
  <2>2. \A m \in 1..n : g[m - 1] = Ends[m - 1] => g[m] = Ends[m]
    BY <1>4, <1>7
  <2>3. Alike(n, g, Ends) BY <2>1, <2>2 DEF Alike
  <2>4. n \in Nat BY <1>1
  <2> HIDE DEF n
  <2> QED BY <2>3, <2>4, GoOnAlike, Zenon
<1>9. Ends = g
  <2>1. Ends = [i \in 0..n |-> Ends[i]] BY <1>6
  <2> QED BY <1>8, <2>1
<1> QED BY <1>2, <1>3, <1>9

LEMMA EndsFacts ==
    ASSUME NarrowTypes
    PROVE  /\ Len(maps32) \in Nat
           /\ Ends \in [0..Len(maps32) -> Nat] /\ Ends[0] = Base32 /\ Base32 \in Nat
           /\ \A i \in 1..Len(maps32) : Ends[i] = Ends[i - 1] + Narrow!Filesz(i)
           /\ \A i, j \in 0..Len(maps32) : i <= j => Ends[i] <= Ends[j]
<1>1. /\ Base32 \in Nat /\ Ends \in [0..Len(maps32) -> Nat]
      /\ Sums32(Len(maps32), Base32, Fileszs, Ends)
  BY EndsAreSums DEF NarrowTypes
<1>2. Len(maps32) \in Nat /\ Fileszs \in [1..Len(maps32) -> Nat]
  BY MapTypes DEF NarrowTypes
<1>3. \A i, j \in 0..Len(maps32) : i <= j => Ends[i] <= Ends[j]
  BY <1>1, <1>2, SumsMonotone
<1> QED BY <1>1, <1>2, <1>3 DEF Sums32, Fileszs

\* The place the property speaks of is where the segment before ends.
LEMMA PlaceIsEnd ==
    ASSUME NarrowTypes, NEW i \in 1..Len(maps32)
    PROVE  Narrow!Place(i) = Ends[i - 1]
<1> DEFINE g == [m \in 1..i |-> Ends[m - 1]]
           u == CHOOSE u : u = [m \in 1..i |->
                    IF m = 1 THEN Narrow!RoundUp(note32.offset + note32.filesz, AlignSize)
                    ELSE u[m - 1] + Narrow!Filesz(m - 1)]
<1>1. Narrow!RoundUp(note32.offset + note32.filesz, AlignSize) = Base32
  BY DEF Narrow!RoundUp, Base32, RoundUp, RoundDown
<1>2. Ends[0] = Base32 /\ \A m \in 1..i : Ends[m] = Ends[m - 1] + Narrow!Filesz(m)
  BY EndsFacts
<1>3. g = [m \in 1..i |->
              IF m = 1 THEN Narrow!RoundUp(note32.offset + note32.filesz, AlignSize)
              ELSE g[m - 1] + Narrow!Filesz(m - 1)]
  <2> SUFFICES ASSUME NEW m \in 1..i
               PROVE  Ends[m - 1] = IF m = 1 THEN Base32 ELSE g[m - 1] + Narrow!Filesz(m - 1)
    BY <1>1
  <2>1. CASE m = 1 BY <1>2, <2>1
  <2>2. CASE m # 1
    <3>1. m - 1 \in 1..i /\ (m - 1) - 1 = m - 2 BY <2>2
    <3> QED BY <1>2, <2>2, <3>1
  <2> QED BY <2>1, <2>2
<1>4. u = [m \in 1..i |->
              IF m = 1 THEN Narrow!RoundUp(note32.offset + note32.filesz, AlignSize)
              ELSE u[m - 1] + Narrow!Filesz(m - 1)]
  <2> HIDE DEF g
  <2> QED BY <1>3, Zenon
<1>5. Narrow!Place(i) = u[i]
  BY Zenon DEF Narrow!Place
<1> DEFINE h == [m \in 0..i - 1 |-> u[m + 1]]
<1>6. \A m \in 0..i - 1 : Ends[m] = h[m]
  <2>1. \A m \in 1..i :
            u[m] = IF m = 1 THEN Base32 ELSE u[m - 1] + Narrow!Filesz(m - 1)
    <3> HIDE DEF u
    <3> QED BY <1>1, <1>4
  <2> HIDE DEF u
  <2>2. Ends[0] = h[0] BY <1>2, <2>1
  <2>3. \A m \in 1..(i - 1) : Ends[m - 1] = h[m - 1] => Ends[m] = h[m]
    <3> TAKE m \in 1..(i - 1)
    <3>1. m + 1 \in 1..i /\ m + 1 # 1 /\ (m + 1) - 1 = m /\ m \in 0..i - 1 /\ m - 1 \in 0..i - 1
          /\ m \in 1..i
      OBVIOUS
    <3>2. u[m + 1] = u[m] + Narrow!Filesz(m) BY <2>1, <3>1
    <3>3. h[m] = u[m + 1] /\ h[m - 1] = u[m] BY <3>1
    <3> QED BY <1>2, <3>1, <3>2, <3>3
  <2>4. i - 1 \in Nat OBVIOUS
  <2> HIDE DEF h
  <2>5. Alike(i - 1, Ends, h) BY <2>2, <2>3 DEF Alike
  <2> QED BY <2>4, <2>5, GoOnAlike, Zenon
<1>7. h[i - 1] = u[i]
  <2> HIDE DEF u
  <2> QED OBVIOUS
<1> HIDE DEF u, h
<1> QED BY <1>5, <1>6, <1>7

\* The offsets in the program headers are these places, modulo 2^32.
LEMMA OffsetsAreEnds ==
    ASSUME maps32 \in Seq(Narrow!Vma), NEW nt \in [offset : Nat, filesz : Nat],
           NEW g \in [0..Len(maps32) -> Nat],
           Sums32(Len(maps32), RoundUp(nt.offset + nt.filesz, AlignSize), Fileszs, g)
    PROVE  \A i \in 1..Len(maps32) : Narrow!Offsets(nt)[i] = g[i - 1] % OffsetWord
<1> DEFINE n == Len(maps32)
           h == [i \in 1..n |-> g[i - 1] % OffsetWord]
           u == Narrow!Offsets(nt)
<1>1. n \in Nat /\ \A i \in 1..n : Narrow!Filesz(i) \in Nat BY MapTypes
<1>2. Narrow!FirstOffset(nt) = g[0] % OffsetWord
  BY DEF Sums32, Narrow!FirstOffset, Narrow!RoundUp, RoundUp, RoundDown
<1>3. \A i \in 1..n : i # 1 =>
          g[i - 1] % OffsetWord = ((g[i - 2] % OffsetWord) + Narrow!Filesz(i - 1)) % OffsetWord
  <2> SUFFICES ASSUME NEW i \in 1..n, i # 1
               PROVE  g[i - 1] % OffsetWord
                          = ((g[i - 2] % OffsetWord) + Narrow!Filesz(i - 1)) % OffsetWord
    OBVIOUS
  <2>1. i - 1 \in 1..n /\ (i - 1) - 1 = i - 2 /\ i - 2 \in 0..n BY <1>1
  <2>2. g[i - 1] = g[i - 2] + Narrow!Filesz(i - 1) BY <2>1 DEF Sums32, Fileszs
  <2>3. g[i - 2] \in Nat /\ Narrow!Filesz(i - 1) \in Nat BY <1>1, <2>1
  <2> QED BY <2>2, <2>3, ModPlus, Sizes32
<1>4. h = [i \in 1..n |-> IF i = 1 THEN Narrow!FirstOffset(nt)
                          ELSE (h[i - 1] + Narrow!Taken(i - 1)) % OffsetWord]
  <2> SUFFICES ASSUME NEW i \in 1..n
               PROVE  g[i - 1] % OffsetWord
                          = IF i = 1 THEN Narrow!FirstOffset(nt)
                            ELSE (h[i - 1] + Narrow!Taken(i - 1)) % OffsetWord
    OBVIOUS
  <2>1. CASE i = 1 BY <1>2, <2>1
  <2>2. CASE i # 1
    <3>1. i - 1 \in 1..n /\ (i - 1) - 1 = i - 2 BY <1>1, <2>2
    <3>2. h[i - 1] = g[i - 2] % OffsetWord BY <3>1
    <3> QED BY <1>3, <2>2, <3>2 DEF Narrow!Taken
  <2> QED BY <2>1, <2>2
<1>5. u = [i \in 1..n |-> IF i = 1 THEN Narrow!FirstOffset(nt)
                          ELSE (u[i - 1] + Narrow!Taken(i - 1)) % OffsetWord]
  <2> HIDE DEF h
  <2> QED BY <1>4, Zenon DEF Narrow!Offsets
<1> HIDE DEF u
<1>6. \A i \in 1..n : u[i] = IF i = 1 THEN Narrow!FirstOffset(nt)
                             ELSE (u[i - 1] + Narrow!Taken(i - 1)) % OffsetWord
  BY <1>5
<1> DEFINE k == [m \in 0..n - 1 |-> u[m + 1]]
           l == [m \in 0..n - 1 |-> g[m] % OffsetWord]
<1>7. CASE n # 0
  <2>1. n - 1 \in Nat BY <1>1, <1>7
  <2>2. k[0] = l[0] BY <1>2, <1>6, <2>1
  <2>3. \A m \in 1..(n - 1) : k[m - 1] = l[m - 1] => k[m] = l[m]
    <3> TAKE m \in 1..(n - 1)
    <3>1. m + 1 \in 1..n /\ m + 1 # 1 /\ (m + 1) - 1 = m /\ (m + 1) - 2 = m - 1
          /\ m \in 0..n - 1 /\ m - 1 \in 0..n - 1
      BY <1>1
    <3>2. u[m + 1] = (u[m] + Narrow!Filesz(m)) % OffsetWord
      BY <1>6, <3>1 DEF Narrow!Taken
    <3>3. g[m] % OffsetWord = ((g[m - 1] % OffsetWord) + Narrow!Filesz(m)) % OffsetWord
      BY <1>3, <3>1
    <3>4. k[m] = u[m + 1] /\ k[m - 1] = u[m] /\ l[m] = g[m] % OffsetWord
          /\ l[m - 1] = g[m - 1] % OffsetWord
      BY <3>1
    <3> QED BY <3>2, <3>3, <3>4
  <2> HIDE DEF k, l
  <2>4. Alike(n - 1, k, l) BY <2>2, <2>3 DEF Alike
  <2>5. \A m \in 0..n - 1 : k[m] = l[m] BY <2>1, <2>4, GoOnAlike, Zenon
  <2>6. \A i \in 1..n : i - 1 \in 0..n - 1 /\ (i - 1) + 1 = i BY <1>1
  <2>7. \A i \in 1..n : k[i - 1] = u[i] /\ l[i - 1] = g[i - 1] % OffsetWord
    BY <2>6 DEF k, l
  <2>8. \A i \in 1..n : u[i] = g[i - 1] % OffsetWord BY <2>5, <2>6, <2>7
  <2> QED BY <2>8 DEF u
<1>8. CASE n = 0 BY <1>8
<1> QED BY <1>7, <1>8

\* While the VMAs and the notes stay so do the places.
LEMMA EndsStay ==
    ASSUME UNCHANGED <<maps32, note32>>
    PROVE  /\ Ends' = Ends /\ Base32' = Base32
           /\ \A i : Narrow!Filesz(i)' = Narrow!Filesz(i) /\ Narrow!Count(i)' = Narrow!Count(i)
  BY DEF Ends, Base32, Narrow!Filesz, Narrow!Memsz, Narrow!Count

LEMMA EndsAfter ==
    (maps32 \in Seq(Narrow!Vma) /\ note32 \in [offset : Nat, filesz : Nat])' =>
        /\ (Base32 \in Nat)'
        /\ (Ends \in [0..Len(maps32) -> Nat])'
        /\ Sums32(Len(maps32), Base32, Fileszs, Ends)'
  BY EndsAreSums, PTL

---------------------------------------------------------------------------
(* Headers and notes. *)

\* What is announced for the notes is a multiple of 4, so the padding of the
\* names does not move the first segment (RoundUpPadded).
LEMMA NotesAreFour ==
    ASSUME maps32 \in Seq(Narrow!Vma), threads32 \in Nat, auxvnum32 \in {0, 1}
    PROVE  LET R == RoundUp(Narrow!Names, 4) IN
           /\ Narrow!Names \in Nat /\ R \in Nat /\ Narrow!Names <= R /\ R <= Narrow!Names + 3
           /\ Narrow!RoundUp(Narrow!Names, 4) = R
           /\ Four(Ehdr32 + (Len(maps32) + 1) * Phdr32)
           /\ Four(Narrow!Extra) /\ Four(Auxv32 * auxvnum32)
           /\ Four(File32 * Len(maps32) + NoteHead + 2 * 4) /\ Four(Narrow!NtFile(R))
           /\ Narrow!NtFile(R) = File32 * Len(maps32) + NoteHead + 2 * 4 + R
<1> DEFINE R == RoundUp(Narrow!Names, 4)
           n == Len(maps32)
<1>1. Narrow!Names \in Nat /\ n \in Nat BY NamesType
<1>2. R \in Nat /\ Narrow!Names <= R /\ R < Narrow!Names + 4 /\ \E z \in Nat : R = z * 4
  <2> HIDE DEF n
  <2>1. 4 \in Nat \ {0} /\ Narrow!Names \in Nat BY <1>1
  <2> QED BY <2>1, RoundUpFacts
<1>3. Four(R)
  <2> HIDE DEF R
  <2>1. PICK z \in Nat : R = z * 4 BY <1>2
  <2> QED BY <1>2, <2>1 DEF Four
<1>4. Four((n + 1) * Phdr32) BY <1>1, Sizes32, FourTimes
<1>5. Four(Ehdr32 + (n + 1) * Phdr32) BY <1>4, Sizes32, FourPlus
<1>6. Four(Narrow!Extra)
  <2>1. Four(PrStatus32 + NoteHead) BY Sizes32, FourPlus
  <2>2. Four((PrStatus32 + NoteHead) * threads32) BY <2>1, FourTimes
  <2>3. Four((PrStatus32 + NoteHead) * threads32 + SigInfoSize) BY <2>2, Sizes32, FourPlus
  <2>4. Four((PrStatus32 + NoteHead) * threads32 + SigInfoSize + NoteHead)
    BY <2>3, Sizes32, FourPlus
  <2>5. Four(0) BY DEF Four
  <2> QED BY <2>4, <2>5 DEF Narrow!Extra
<1>7. Four(Auxv32 * auxvnum32)
  <2>1. auxvnum32 \in Nat OBVIOUS
  <2> QED BY <2>1, Sizes32, FourTimes
<1>8. Four(File32 * n + NoteHead + 2 * 4)
  <2>1. Four(File32 * n) BY <1>1, Sizes32, FourTimes
  <2>2. Four(File32 * n + NoteHead) BY <2>1, Sizes32, FourPlus
  <2>3. Four(2 * 4) BY DEF Four
  <2> HIDE DEF n
  <2> QED BY <2>2, <2>3, FourPlus
<1>9. Narrow!NtFile(R) = File32 * n + NoteHead + 2 * 4 + R
  BY DEF Narrow!NtFile
<1>10. Four(Narrow!NtFile(R))
  <2> HIDE DEF R, n
  <2> QED BY <1>3, <1>8, <1>9, FourPlus
<1>11. Narrow!RoundUp(Narrow!Names, 4) = R BY DEF Narrow!RoundUp, RoundUp, RoundDown
<1>12. R <= Narrow!Names + 3
  <2> HIDE DEF R
  <2> QED BY <1>1, <1>2
<1> QED BY <1>1, <1>2, <1>5, <1>6, <1>7, <1>8, <1>9, <1>10, <1>11, <1>12

\* Behind the notes, where the first segment begins.
LEMMA NarrowNotesEnd == NarrowTypes /\ HeaderInv32 /\ Narrow!WriteNotes => pos32' = Base32
<1> SUFFICES ASSUME NarrowTypes, HeaderInv32, Narrow!WriteNotes
             PROVE  pos32' = Base32
  OBVIOUS
<1> DEFINE R == RoundUp(Narrow!Names, 4)
           N == Narrow!Names
           x == note32.offset + note32.filesz
           H == Ehdr32 + (Len(maps32) + 1) * Phdr32
           U == Auxv32 * auxvnum32
           X == Narrow!Extra
           B == File32 * Len(maps32) + NoteHead + 2 * 4
<1>1. /\ N \in Nat /\ R \in Nat /\ N <= R /\ R <= N + 3
      /\ Narrow!RoundUp(Narrow!Names, 4) = R
      /\ Four(H) /\ Four(U) /\ Four(X) /\ Four(B) /\ Four(NoteHead)
      /\ Narrow!NtFile(R) = B + R /\ Narrow!NtFile(N) = B + N /\ Four(B + R)
  BY NotesAreFour, Sizes32 DEF NarrowTypes, Narrow!NtFile
<1>2. pos32 = H /\ note32.offset = H /\ note32.filesz = U + NoteHead + X + (B + R)
  BY <1>1 DEF Narrow!WriteNotes, HeaderInv32
<1>3. X = (NoteHead + PrStatus32) * threads32
           + (IF threads32 > 0 THEN NoteHead + SigInfoSize ELSE 0)
  <2>1. NoteHead \in Nat /\ PrStatus32 \in Nat /\ SigInfoSize \in Nat /\ threads32 \in Nat
    BY Sizes32 DEF NarrowTypes, Four
  <2>2. CASE threads32 = 0 BY <2>1, <2>2 DEF Narrow!Extra
  <2>3. CASE threads32 # 0
    <3>1. threads32 > 0 BY <2>1, <2>3
    <3>2. (PrStatus32 + NoteHead) * threads32 = (NoteHead + PrStatus32) * threads32
          /\ (NoteHead + PrStatus32) * threads32 \in Nat
      BY <2>1
    <3> QED BY <2>1, <2>3, <3>1, <3>2 DEF Narrow!Extra
  <2> QED BY <2>2, <2>3
<1>4. pos32' = pos32 + (NoteHead + PrStatus32) * threads32
                  + (IF threads32 > 0 THEN NoteHead + SigInfoSize ELSE 0)
                  + NoteHead + U + (B + N)
                  + (RoundUp(Narrow!NoteEnd, AlignSize) - Narrow!NoteEnd)
  BY <1>1 DEF Narrow!WriteNotes, Narrow!RoundUp, RoundUp, RoundDown
<1>5. Narrow!NoteEnd = x - R + N
  <2>1. Narrow!NoteEnd = note32.offset + note32.filesz - Narrow!RoundUp(Narrow!Names, 4)
                             + Narrow!Names
    BY Zenon DEF Narrow!NoteEnd
  <2>2. Narrow!RoundUp(Narrow!Names, 4) = R BY <1>1
  <2>3. Narrow!NoteEnd = note32.offset + (note32.filesz - R) + N
    BY <2>1, <2>2, Zenon
  <2>4. R \in Nat /\ N \in Nat /\ note32.offset \in Nat /\ note32.filesz \in Nat
    BY <1>1 DEF NarrowTypes
  <2> HIDE DEF R, N
  <2> QED BY <2>3, <2>4
<1>6. H \in Nat /\ U \in Nat /\ X \in Nat /\ B \in Nat /\ NoteHead \in Nat
  BY <1>1 DEF Four
<1>7. Four(x)
  <2>1. Four(U + NoteHead) BY <1>1, FourPlus
  <2> HIDE DEF H, U, X, B, R
  <2>2. Four(U + NoteHead + X) BY <1>1, <2>1, FourPlus
  <2>3. Four(U + NoteHead + X + (B + R)) BY <1>1, <2>2, FourPlus
  <2>4. Four(H + (U + NoteHead + X + (B + R))) BY <1>1, <2>3, FourPlus
  <2> QED BY <1>2, <2>4
<1>8. x = H + (U + NoteHead + X + (B + R)) BY <1>2
<1> DEFINE T == (NoteHead + PrStatus32) * threads32
           S == IF threads32 > 0 THEN NoteHead + SigInfoSize ELSE 0
<1>9. T \in Nat /\ S \in Nat
  <2>1. NoteHead \in Nat /\ PrStatus32 \in Nat /\ SigInfoSize \in Nat /\ threads32 \in Nat
    BY Sizes32 DEF NarrowTypes, Four
  <2> QED BY <2>1
<1>10. X = T + S BY <1>3
<1>11. pos32' = H + T + S + NoteHead + U + (B + N)
                  + (RoundUp(x - R + N, AlignSize) - (x - R + N))
  BY <1>2, <1>4, <1>5
<1> HIDE DEF H, U, X, B, R, N, T, S, x
<1>12. x \in Nat /\ x - R + N = x - (R - N) /\ R - N \in 0..3 /\ R - N <= x
  BY <1>1, <1>6, <1>8
<1>13. RoundUp(x - (R - N), AlignSize) = RoundUp(x, AlignSize)
  BY <1>7, <1>12, Sizes32, RoundUpPadded
<1>14. RoundUp(x, AlignSize) \in Nat BY <1>12, Sizes32, RoundUpFacts
<1>15. pos32' = RoundUp(x, AlignSize)
  BY <1>1, <1>6, <1>8, <1>9, <1>10, <1>11, <1>12, <1>13, <1>14
<1>16. Base32 = RoundUp(x, AlignSize) BY DEF Base32, x
<1> QED BY <1>15, <1>16

---------------------------------------------------------------------------
(* Types and headers are invariant. *)

LEMMA NarrowInit == Narrow!Init => NarrowInv
<1> SUFFICES ASSUME Narrow!Init PROVE NarrowInv OBVIOUS
<1> USE DEF Narrow!Init, Before32
<1>1. maps32 = <<>> /\ Len(maps32) = 0 /\ maps32 \in Seq(Narrow!Vma) OBVIOUS
<1>2. NarrowTypes
  <2>1. /\ index32 \in 1..Len(maps32) + 1 /\ lost \in 0..index32 - 1 /\ index32 = 1
        /\ Len(maps32) <= Maps32
    BY <1>1, Sizes32
  <2>2. note32 \in [offset : Nat, filesz : Nat] OBVIOUS
  <2>3. /\ pc32 = "fopen" /\ threads32 \in Nat /\ auxvnum32 \in {0, 1} /\ pos32 \in Nat
        /\ page32 \in Nat /\ start32 \in Int
    OBVIOUS
  <2>4. pc32 \in Before32 /\ pc32 \notin {"page", "pad"} BY <2>3
  <2>5. short32 \in BOOLEAN BY Zenon
  <2> USE DEF NarrowTypes
  <2> HIDE DEF Narrow!Init, Before32
  <2> QED BY <1>1, <2>1, <2>2, <2>3, <2>4, <2>5
<1>3. HeaderInv32 BY DEF HeaderInv32
<1>4. PosInv /\ StartInv /\ LostInv /\ FailedInv32 BY DEF PosInv, StartInv, LostInv, FailedInv32
<1>5. DoneInv32 BY <1>1 DEF DoneInv32
<1> QED BY <1>2, <1>3, <1>4, <1>5 DEF NarrowInv

LEMMA PhdrFacts ==
    ASSUME NarrowTypes, HeaderInv32, pc32 \notin {"fopen", "create"}
    PROVE  /\ Len(phdr32) = Len(maps32)
           /\ \A i \in 1..Len(maps32) : /\ phdr32[i].filesz = Narrow!Filesz(i)
                                        /\ phdr32[i].offset = Ends[i - 1] % OffsetWord
<1>1. Len(maps32) \in Nat BY DEF NarrowTypes
<1>2. phdr32 = [i \in 1..Len(maps32) |-> [offset |-> Ends[i - 1] % OffsetWord,
                                          filesz |-> Narrow!Filesz(i)]]
  BY DEF HeaderInv32
<1> QED BY <1>1, <1>2

\* e_phnum is the number of program headers.
LEMMA Ephnum32 == ASSUME NarrowTypes PROVE Narrow!Ephnum = Len(maps32) + 1
<1>1. Len(maps32) + 1 \in Nat /\ Len(maps32) + 1 < Half /\ Half \in Nat
  <2>1. Len(maps32) \in Nat /\ Len(maps32) <= Maps32 BY DEF NarrowTypes
  <2> QED BY <2>1, Sizes32
<1>2. \A x, y \in Nat : x < y => x % y = x OBVIOUS
<1> QED BY <1>1, <1>2 DEF Narrow!Ephnum

LEMMA NarrowTypesStep ==
    NarrowTypes /\ HeaderInv32 /\ [Narrow!Next]_(Narrow!vars) => NarrowTypes'
<1> SUFFICES ASSUME NarrowTypes, HeaderInv32, [Narrow!Next]_(Narrow!vars) PROVE NarrowTypes'
  OBVIOUS
<1> USE DEF Narrow!input, Narrow!header, Narrow!loop, Narrow!output
<1>0. Len(maps32) \in Nat /\ NoteHead \in Nat /\ AlignSize \in Nat
  BY Sizes32 DEF NarrowTypes, Four
<1>1. CASE Narrow!Parse
  <2>1. PICK n \in 0..Maps32 : maps32' \in [1..n -> Narrow!Vma] BY <1>1 DEF Narrow!Parse
  <2>2. n \in Nat BY Sizes32
  <2>3. maps32' \in Seq(Narrow!Vma) /\ Len(maps32') = n BY <2>1, <2>2
  <2>4. threads32' \in Nat /\ auxvnum32' \in {0, 1} BY <1>1, Sizes32 DEF Narrow!Parse
  <2>5. Len(maps32') <= Maps32 BY <2>3
  <2> QED BY <1>1, <2>2, <2>3, <2>4, <2>5 DEF Narrow!Parse, NarrowTypes, Before32
<1>2. CASE Narrow!Create
  <2>1. /\ Narrow!RoundUp(Narrow!Names, 4) = RoundUp(Narrow!Names, 4)
        /\ Four(Ehdr32 + (Len(maps32) + 1) * Phdr32)
        /\ Four(Narrow!Extra) /\ Four(Auxv32 * auxvnum32)
        /\ Four(Narrow!NtFile(RoundUp(Narrow!Names, 4)))
    BY NotesAreFour DEF NarrowTypes
  <2>2. note32' \in [offset : Nat, filesz : Nat]
    <3> DEFINE H == Ehdr32 + (Len(maps32) + 1) * Phdr32
               U == Auxv32 * auxvnum32
               F == Narrow!NtFile(RoundUp(Narrow!Names, 4))
    <3>1. note32' = [offset |-> H, filesz |-> U + NoteHead + Narrow!Extra + F]
      BY <1>2, <2>1, Ephnum32 DEF Narrow!Create
    <3>2. H \in Nat /\ U \in Nat /\ Narrow!Extra \in Nat /\ F \in Nat BY <2>1 DEF Four
    <3> HIDE DEF H, U, F
    <3> QED BY <1>0, <3>1, <3>2
  <2> QED BY <1>2, <2>2 DEF Narrow!Create, NarrowTypes, Before32
<1>3. CASE Narrow!WriteHeaders
  <2>1. Len(phdr32) = Len(maps32) BY <1>3, PhdrFacts DEF Narrow!WriteHeaders
  <2>2. Ehdr32 \in Nat /\ Phdr32 \in Nat BY Sizes32 DEF Four
  <2>3. Phdr32 * Len(phdr32) \in Nat BY <1>0, <2>1, <2>2
  <2>4. pos32' \in Nat BY <1>3, <2>2, <2>3 DEF Narrow!WriteHeaders, NarrowTypes
  <2> QED BY <1>3, <2>4 DEF Narrow!WriteHeaders, NarrowTypes, Before32
<1>4. CASE Narrow!WriteNotes
  <2>1. pos32' \in Nat BY <1>4, NarrowNotesEnd, EndsFacts
  <2> QED BY <1>4, <2>1 DEF Narrow!WriteNotes, NarrowTypes, Before32
<1>5. CASE Narrow!SkipSegment
  <2>1. Len(phdr32) = Len(maps32) BY <1>5, PhdrFacts DEF Narrow!SkipSegment
  <2>2. index32 + 1 \in 1..Len(maps32) + 1 /\ lost \in 0..(index32 + 1) - 1
    BY <1>0, <1>5, <2>1 DEF Narrow!SkipSegment, NarrowTypes
  <2> QED BY <1>5, <2>2 DEF Narrow!SkipSegment, NarrowTypes, Before32
<1>6. CASE Narrow!BeginSegment
  <2>1. index32 \in 1..Len(maps32)
    BY <1>6, PhdrFacts DEF Narrow!BeginSegment, NarrowTypes
  <2>2. Narrow!Filesz(index32) > 0 BY <1>6, <2>1, PhdrFacts DEF Narrow!BeginSegment
  <2>3. Narrow!Count(index32) \in Nat BY <2>1, MapTypes DEF NarrowTypes
  <2>4. start32' \in Int BY <1>6 DEF Narrow!BeginSegment, Narrow!Ftell, NarrowTypes
  <2>5. Narrow!Filesz(index32)' > 0 /\ Narrow!Count(index32)' = Narrow!Count(index32)
    BY <1>6, <2>2, EndsStay DEF Narrow!BeginSegment
  <2> QED BY <1>6, <2>1, <2>3, <2>4, <2>5 DEF Narrow!BeginSegment, NarrowTypes, Before32
<1>7. CASE Narrow!WritePage \/ Narrow!PadPage
  <2>1. index32 \in 1..Len(maps32) BY <1>7 DEF Narrow!WritePage, Narrow!PadPage, NarrowTypes
  <2>2. Narrow!Count(index32) \in Nat BY <2>1, MapTypes DEF NarrowTypes
  <2>3. page32 + 1 <= Narrow!Count(index32) /\ page32 + 1 \in Nat
    BY <1>7, <2>2 DEF Narrow!WritePage, Narrow!PadPage, Narrow!More, NarrowTypes
  <2>4. pos32' \in Nat
    BY <1>0, <1>7 DEF Narrow!WritePage, Narrow!PadPage, Narrow!FWrite, NarrowTypes
  <2>5. Narrow!Filesz(index32)' = Narrow!Filesz(index32)
        /\ Narrow!Count(index32)' = Narrow!Count(index32)
    BY <1>7, EndsStay DEF Narrow!WritePage, Narrow!PadPage
  <2>6. short32' \in BOOLEAN BY <1>7 DEF Narrow!WritePage, Narrow!PadPage, NarrowTypes
  <2> QED BY <1>7, <2>3, <2>4, <2>5, <2>6 DEF Narrow!WritePage, Narrow!PadPage, NarrowTypes, Before32
<1>8. CASE Narrow!WriteFails
  <2>1. index32 \in 1..Len(maps32) /\ Narrow!Count(index32) \in Nat
        /\ Narrow!Filesz(index32) > 0
    <3>1. index32 \in 1..Len(maps32) BY <1>8 DEF Narrow!WriteFails, NarrowTypes
    <3> QED BY <1>8, <3>1, MapTypes DEF Narrow!WriteFails, NarrowTypes
  <2>2. \A i : Narrow!Filesz(i)' = Narrow!Filesz(i) /\ Narrow!Count(i)' = Narrow!Count(i)
    <3>1. UNCHANGED <<maps32, note32>> BY <1>8 DEF Narrow!WriteFails
    <3> QED BY <3>1, EndsStay
  <2>3. CASE start32 > 0
    BY <1>8, <2>1, <2>2, <2>3 DEF Narrow!WriteFails, NarrowTypes, Before32
  <2>4. CASE ~(start32 > 0)
    <3>1. index32' = index32 + 1 /\ lost' \in {lost, index32} /\ pc32' = "segment"
          /\ UNCHANGED <<maps32, threads32, auxvnum32, note32, pos32, page32, start32, short32>>
      BY <1>8, <2>4 DEF Narrow!WriteFails
    <3>2. index32 + 1 \in 1..Len(maps32) + 1 /\ lost' \in 0..(index32 + 1) - 1
      BY <1>0, <2>1, <3>1 DEF NarrowTypes
    <3> QED BY <3>1, <3>2 DEF NarrowTypes, Before32
  <2> QED BY <2>3, <2>4
<1>9. CASE Narrow!EndSegment
  <2>1. index32 \in 1..Len(maps32) BY <1>9 DEF Narrow!EndSegment, NarrowTypes
  <2>2. index32 + 1 \in 1..Len(maps32) + 1 /\ lost \in 0..(index32 + 1) - 1
    BY <1>0, <2>1 DEF NarrowTypes
  <2> QED BY <1>9, <2>2 DEF Narrow!EndSegment, NarrowTypes, Before32
<1>10. CASE Narrow!Fclose
  BY <1>10 DEF Narrow!Fclose, NarrowTypes, Before32
<1>11. CASE UNCHANGED Narrow!vars
  <2>1. Narrow!Filesz(index32)' = Narrow!Filesz(index32)
        /\ Narrow!Count(index32)' = Narrow!Count(index32)
    BY <1>11 DEF Narrow!vars, Narrow!Filesz, Narrow!Memsz, Narrow!Count
  <2> QED BY <1>11, <2>1 DEF Narrow!vars, NarrowTypes, Before32
<1> QED BY <1>1, <1>2, <1>3, <1>4, <1>5, <1>6, <1>7, <1>8, <1>9, <1>10, <1>11 DEF Narrow!Next

LEMMA HeaderStep32 ==
    NarrowTypes /\ NarrowTypes' /\ HeaderInv32 /\ [Narrow!Next]_(Narrow!vars) => HeaderInv32'
<1> SUFFICES ASSUME NarrowTypes, NarrowTypes', HeaderInv32, [Narrow!Next]_(Narrow!vars)
             PROVE HeaderInv32'
  OBVIOUS
<1> USE DEF Narrow!input, Narrow!header, Narrow!loop, Narrow!output
<1>1. CASE Narrow!Parse
  BY <1>1 DEF Narrow!Parse, HeaderInv32
<1>2. CASE Narrow!Create
  <2>1. maps32' = maps32 /\ threads32' = threads32 /\ auxvnum32' = auxvnum32 /\ pos32' = pos32
        /\ pc32' = "headers" /\ pc32 = "create"
    BY <1>2 DEF Narrow!Create
  <2>2. Narrow!Extra' = Narrow!Extra /\ Narrow!Names' = Narrow!Names
        /\ Fileszs' = Fileszs /\ \A i : Narrow!Filesz(i)' = Narrow!Filesz(i)
    BY <2>1 DEF Narrow!Extra, Narrow!Names, Fileszs, Narrow!Filesz, Narrow!Memsz
  <2>3. Narrow!NtFile(RoundUp(Narrow!Names, 4))' = Narrow!NtFile(RoundUp(Narrow!Names, 4))
    BY <2>1, <2>2 DEF Narrow!NtFile, RoundUp, RoundDown
  <2>4. Narrow!RoundUp(Narrow!Names, 4) = RoundUp(Narrow!Names, 4)
    BY NotesAreFour DEF NarrowTypes
  <2>5. note32' = [offset |-> Ehdr32 + (Len(maps32') + 1) * Phdr32,
                   filesz |-> Auxv32 * auxvnum32' + NoteHead + Narrow!Extra'
                                  + Narrow!NtFile(RoundUp(Narrow!Names, 4))']
    BY <1>2, <2>1, <2>2, <2>3, <2>4, Ephnum32 DEF Narrow!Create
  <2>6. /\ Ends' \in [0..Len(maps32) -> Nat]
        /\ Sums32(Len(maps32), RoundUp(note32'.offset + note32'.filesz, AlignSize),
                  Fileszs, Ends')
        /\ note32' \in [offset : Nat, filesz : Nat]
    BY <2>1, <2>2, EndsAfter DEF NarrowTypes, Base32, Sums32
  <2>7. \A i \in 1..Len(maps32) : Narrow!Offsets(note32')[i] = Ends'[i - 1] % OffsetWord
    BY <2>6, OffsetsAreEnds DEF NarrowTypes
  <2>8. phdr32' = [i \in 1..Len(maps32) |-> [offset |-> Narrow!Offsets(note32')[i],
                                             filesz |-> Narrow!Filesz(i)]]
    BY <1>2 DEF Narrow!Create
  <2>9. phdr32' = [i \in 1..Len(maps32') |-> [offset |-> Ends'[i - 1] % OffsetWord,
                                              filesz |-> Narrow!Filesz(i)']]
    BY <2>1, <2>2, <2>7, <2>8
  <2> QED BY <2>1, <2>5, <2>9 DEF HeaderInv32
<1>3. CASE Narrow!WriteHeaders
  <2>1. UNCHANGED <<maps32, note32, phdr32, threads32, auxvnum32>> /\ pc32' = "notes"
        /\ pc32 = "headers"
    BY <1>3 DEF Narrow!WriteHeaders
  <2>2. Ends' = Ends /\ \A i : Narrow!Filesz(i)' = Narrow!Filesz(i) BY <2>1, EndsStay
  <2>3. Narrow!Extra' = Narrow!Extra /\ Narrow!Names' = Narrow!Names
    BY <2>1 DEF Narrow!Extra, Narrow!Names
  <2>4. Narrow!NtFile(RoundUp(Narrow!Names, 4))' = Narrow!NtFile(RoundUp(Narrow!Names, 4))
    BY <2>1, <2>3 DEF Narrow!NtFile, RoundUp, RoundDown
  <2>5. pos32' = Ehdr32 + Phdr32 + Phdr32 * Len(maps32)
    <3>1. Len(phdr32) = Len(maps32) BY <2>1, PhdrFacts
    <3>2. Ehdr32 \in Nat BY Sizes32 DEF Four
    <3> QED BY <1>3, <2>1, <3>1, <3>2 DEF Narrow!WriteHeaders, HeaderInv32
  <2>6. Ehdr32 + Phdr32 + Phdr32 * Len(maps32) = Ehdr32 + (Len(maps32) + 1) * Phdr32
    <3>1. Ehdr32 \in Nat /\ Phdr32 \in Nat /\ Len(maps32) \in Nat
      BY Sizes32 DEF Four, NarrowTypes
    <3> QED BY <3>1
  <2>7. note32.offset = Ehdr32 + (Len(maps32) + 1) * Phdr32 BY <2>1 DEF HeaderInv32
  <2>8. pos32' = note32'.offset BY <2>1, <2>5, <2>6, <2>7
  <2>9. phdr32' = [i \in 1..Len(maps32') |-> [offset |-> Ends'[i - 1] % OffsetWord,
                                              filesz |-> Narrow!Filesz(i)']]
    BY <2>1, <2>2 DEF HeaderInv32
  <2>10. note32' = [offset |-> Ehdr32 + (Len(maps32') + 1) * Phdr32,
                    filesz |-> Auxv32 * auxvnum32' + NoteHead + Narrow!Extra'
                                   + Narrow!NtFile(RoundUp(Narrow!Names, 4))']
    BY <2>1, <2>3, <2>4 DEF HeaderInv32
  <2> QED BY <2>1, <2>8, <2>9, <2>10 DEF HeaderInv32
<1>4. CASE /\ pc32 \notin {"fopen", "create", "headers"}
           /\ pc32' \notin Before32
           /\ UNCHANGED <<maps32, note32, phdr32>>
  <2>1. Ends' = Ends /\ \A i : Narrow!Filesz(i)' = Narrow!Filesz(i) BY <1>4, EndsStay
  <2>2. phdr32' = [i \in 1..Len(maps32') |-> [offset |-> Ends'[i - 1] % OffsetWord,
                                              filesz |-> Narrow!Filesz(i)']]
    BY <1>4, <2>1 DEF HeaderInv32
  <2> QED BY <1>4, <2>2 DEF HeaderInv32, Before32
<1>5. CASE \/ Narrow!WriteNotes \/ Narrow!SkipSegment \/ Narrow!BeginSegment
           \/ Narrow!WritePage \/ Narrow!WriteFails \/ Narrow!PadPage
           \/ Narrow!EndSegment \/ Narrow!Fclose
  BY <1>4, <1>5 DEF Narrow!WriteNotes, Narrow!SkipSegment, Narrow!BeginSegment,
       Narrow!WritePage, Narrow!WriteFails, Narrow!PadPage, Narrow!EndSegment, Narrow!Fclose, Before32
<1>6. CASE UNCHANGED Narrow!vars
  <2>1. UNCHANGED <<pc32, maps32, threads32, auxvnum32, note32, phdr32, pos32>>
    BY <1>6 DEF Narrow!vars
  <2>2. Ends' = Ends /\ \A i : Narrow!Filesz(i)' = Narrow!Filesz(i) BY <2>1, EndsStay
  <2>3. Narrow!Extra' = Narrow!Extra /\ Narrow!Names' = Narrow!Names
    BY <2>1 DEF Narrow!Extra, Narrow!Names
  <2>4. Narrow!NtFile(RoundUp(Narrow!Names, 4))' = Narrow!NtFile(RoundUp(Narrow!Names, 4))
    BY <2>1, <2>3 DEF Narrow!NtFile, RoundUp, RoundDown
  <2> QED BY <2>1, <2>2, <2>3, <2>4 DEF HeaderInv32
<1> QED BY <1>1, <1>2, <1>3, <1>5, <1>6 DEF Narrow!Next

---------------------------------------------------------------------------
(* The file position. *)

\* Until the first segment nothing is claimed.
LEMMA BeforeSegments ==
    NarrowTypes' /\ pc32' \in Before32 => (PosInv /\ StartInv /\ LostInv /\ DoneInv32)'
<1> SUFFICES ASSUME NarrowTypes', pc32' \in Before32
             PROVE  (PosInv /\ StartInv /\ LostInv /\ DoneInv32)'
  OBVIOUS
<1>1. index32' = 1 /\ lost' = 0 /\ pc32' \notin {"segment", "page", "pad"}
  <2>1. index32' = 1 /\ pc32' \notin {"segment", "page", "pad"} BY DEF NarrowTypes, Before32
  <2>2. lost' \in 0..index32' - 1 BY DEF NarrowTypes
  <2> QED BY <2>1, <2>2
<1> QED BY <1>1 DEF PosInv, StartInv, LostInv, DoneInv32

\* What all steps of the segments rely on.
LEMMA SegmentFacts ==
    ASSUME NarrowTypes, HeaderInv32, index32 <= Len(maps32)
    PROVE  /\ index32 \in 1..Len(maps32) /\ index32 - 1 \in 0..Len(maps32)
           /\ Ends[index32 - 1] \in Nat /\ Ends[index32] \in Nat
           /\ Ends[index32] = Ends[index32 - 1] + Narrow!Filesz(index32)
           /\ Narrow!Filesz(index32) \in {0, Narrow!Count(index32) * AlignSize}
           /\ Narrow!Filesz(index32) \in Nat
           /\ Narrow!Count(index32) \in Nat \ {0}
           /\ page32 * AlignSize \in Nat
           /\ (page32 + 1) * AlignSize = page32 * AlignSize + AlignSize
<1>1. index32 \in 1..Len(maps32) /\ index32 - 1 \in 0..Len(maps32) /\ index32 \in 0..Len(maps32)
  BY EndsFacts DEF NarrowTypes
<1>2. Ends[index32 - 1] \in Nat /\ Ends[index32] \in Nat
      /\ Ends[index32] = Ends[index32 - 1] + Narrow!Filesz(index32)
  BY <1>1, EndsFacts
<1>3. page32 \in Nat /\ AlignSize \in Nat BY Sizes32 DEF NarrowTypes
<1>4. page32 * AlignSize \in Nat /\ (page32 + 1) * AlignSize = page32 * AlignSize + AlignSize
  BY <1>3
<1> QED BY <1>1, <1>2, <1>4, MapTypes DEF NarrowTypes

LEMMA PosStep ==
    /\ NarrowTypes /\ NarrowTypes' /\ HeaderInv32
    /\ PosInv /\ StartInv /\ LostInv /\ [Narrow!Next]_(Narrow!vars)
    => (PosInv /\ StartInv /\ LostInv)'
<1> SUFFICES ASSUME NarrowTypes, NarrowTypes', HeaderInv32, PosInv, StartInv, LostInv,
                    [Narrow!Next]_(Narrow!vars)
             PROVE  (PosInv /\ StartInv /\ LostInv)'
  OBVIOUS
<1> USE DEF Narrow!input, Narrow!header, Narrow!loop, Narrow!output
<1>1. CASE Narrow!Parse \/ Narrow!Create \/ Narrow!WriteHeaders
  BY <1>1, BeforeSegments DEF Narrow!Parse, Narrow!Create, Narrow!WriteHeaders, Before32
<1>2. CASE UNCHANGED Narrow!vars
  <2>1. UNCHANGED <<pc32, maps32, note32, pos32, index32, page32, start32, lost, short32>>
    BY <1>2 DEF Narrow!vars
  <2>2. Ends' = Ends BY <2>1, EndsStay
  <2> QED BY <2>1, <2>2 DEF PosInv, StartInv, LostInv, Here32
<1>3. CASE Narrow!WriteNotes
  <2>1. UNCHANGED <<maps32, note32, index32, page32, start32, lost, short32>>
        /\ pc32' = "segment" /\ pc32 = "notes"
    BY <1>3 DEF Narrow!WriteNotes
  <2>2. Ends' = Ends BY <2>1, EndsStay
  <2>3. index32 = 1 /\ lost = 0 BY <2>1 DEF NarrowTypes, Before32
  <2>4. pos32' = Ends[0] /\ Ends[0] = Base32 /\ Base32 \in Nat
    BY <1>3, NarrowNotesEnd, EndsFacts
  <2>5. Base32 > 0
    <3>1. note32.offset \in Nat /\ note32.filesz \in Nat
      BY DEF NarrowTypes
    <3>2. note32.offset = Ehdr32 + (Len(maps32) + 1) * Phdr32 BY <2>1 DEF HeaderInv32
    <3>3. Ehdr32 \in Nat /\ Ehdr32 > 0 /\ Phdr32 \in Nat /\ Len(maps32) \in Nat
      BY Sizes32, EndsFacts DEF Four
    <3>4. (Len(maps32) + 1) * Phdr32 \in Nat BY <3>3
    <3>5. note32.offset > 0 BY <3>2, <3>3, <3>4
    <3>6. note32.offset + note32.filesz \in Nat /\ note32.offset + note32.filesz > 0
      BY <3>1, <3>5
    <3>7. note32.offset + note32.filesz <= Base32
      BY <3>6, Sizes32, RoundUpFacts DEF Base32
    <3> QED BY <2>4, <3>6, <3>7
  <2>6. Here32' = Ends[0] BY <2>1, <2>2, <2>3, <2>4 DEF Here32
  <2> QED BY <2>1, <2>3, <2>4, <2>5, <2>6 DEF PosInv, StartInv, LostInv
<1>4. CASE Narrow!SkipSegment
  <2>1. UNCHANGED <<pc32, maps32, note32, pos32, page32, start32, lost, short32>>
        /\ pc32 = "segment" /\ index32' = index32 + 1
    BY <1>4 DEF Narrow!SkipSegment
  <2>2. index32 <= Len(maps32) /\ Narrow!Filesz(index32) = 0
    <3>1. Len(phdr32) = Len(maps32) BY <2>1, PhdrFacts
    <3>2. index32 <= Len(maps32) BY <1>4, <3>1 DEF Narrow!SkipSegment
    <3>3. index32 \in 1..Len(maps32) BY <3>2, SegmentFacts
    <3> QED BY <1>4, <2>1, <3>2, <3>3, PhdrFacts DEF Narrow!SkipSegment
  <2>3. Ends' = Ends BY <2>1, EndsStay
  <2>4. Here32 = Ends[index32 - 1] /\ Here32' = Ends[index32]
    <3>1. index32' - 1 = index32 BY <2>1, <2>2, SegmentFacts
    <3>2. Ends[index32] \in Nat /\ Ends[index32 - 1] \in Nat BY <2>2, SegmentFacts
    <3> QED BY <2>1, <2>3, <3>1, <3>2 DEF Here32
  <2>5. Ends[index32] = Ends[index32 - 1] BY <2>2, SegmentFacts
  <2> QED BY <2>1, <2>3, <2>4, <2>5 DEF PosInv, StartInv, LostInv
<1>5. CASE Narrow!BeginSegment
  <2>1. UNCHANGED <<maps32, note32, pos32, index32, lost, short32>>
        /\ pc32 = "segment" /\ pc32' = "page" /\ page32' = 0
        /\ start32' = IF pos32 > OffsetMax THEN -1 ELSE pos32
    BY <1>5 DEF Narrow!BeginSegment, Narrow!Ftell
  <2>2. index32 <= Len(maps32)
    <3>1. Len(phdr32) = Len(maps32) BY <2>1, PhdrFacts
    <3> QED BY <1>5, <3>1 DEF Narrow!BeginSegment
  <2>3. Ends' = Ends BY <2>1, EndsStay
  <2>4. Ends[index32 - 1] \in Nat BY <2>2, SegmentFacts
  <2>5. Here32 = Ends[index32 - 1] /\ Here32' = Ends[index32 - 1]
    <3>1. 0 * AlignSize = 0 BY Sizes32
    <3> QED BY <2>1, <2>3, <2>4, <3>1 DEF Here32
  <2>6. pos32 \in Nat /\ OffsetMax \in Nat BY Sizes32 DEF NarrowTypes
  <2>7. lost # 0 => Ends[lost - 1] \in Nat /\ Ends[lost - 1] > OffsetMax
    <3> SUFFICES ASSUME lost # 0 PROVE Ends[lost - 1] \in Nat BY DEF LostInv
    <3>1. lost - 1 \in 0..Len(maps32) BY <2>2, EndsFacts DEF NarrowTypes
    <3> QED BY <3>1, EndsFacts
  <2>8. PosInv' BY <2>1, <2>3, <2>5 DEF PosInv
  <2>9. StartInv'
    <3>1. pos32 > 0 /\ (lost = 0 => pos32 <= Ends[index32 - 1]
                         /\ (~short32 => pos32 = Ends[index32 - 1]))
          /\ (lost # 0 /\ ~short32 => pos32 >= Ends[lost - 1])
      BY <2>1, <2>5 DEF PosInv
    <3> QED BY <2>1, <2>3, <2>4, <2>6, <2>7, <3>1 DEF StartInv
  <2>10. LostInv' BY <2>1, <2>3 DEF LostInv
  <2> QED BY <2>8, <2>9, <2>10
<1>6. CASE Narrow!WritePage \/ Narrow!PadPage
  <2>1. UNCHANGED <<pc32, maps32, note32, index32, start32, lost>>
        /\ pc32 \in {"page", "pad"} /\ page32' = page32 + 1
        /\ (short32' => (short32 \/ pos32' = pos32))
        /\ (~short32' => ~short32 /\ pos32' = pos32 + AlignSize)
        /\ pos32' \in {pos32, pos32 + AlignSize}
    BY <1>6 DEF Narrow!WritePage, Narrow!PadPage, Narrow!FWrite, NarrowTypes
  <2>2. index32 <= Len(maps32) BY <2>1 DEF NarrowTypes
  <2>3. Ends' = Ends BY <2>1, EndsStay
  <2>4. Here32' = Here32 + AlignSize /\ Here32 \in Nat
    <3>1. Here32 = Ends[index32 - 1] + page32 * AlignSize BY <2>1 DEF Here32
    <3>2. Here32' = Ends[index32 - 1] + (page32 + 1) * AlignSize BY <2>1, <2>3 DEF Here32
    <3> HIDE DEF Here32
    <3>3. AlignSize \in Nat BY Sizes32
    <3>4. Ends[index32 - 1] \in Nat /\ page32 * AlignSize \in Nat
          /\ (page32 + 1) * AlignSize = page32 * AlignSize + AlignSize
      BY <2>2, SegmentFacts
    <3> QED BY <3>1, <3>2, <3>3, <3>4
  <2>5. pos32 \in Nat /\ AlignSize \in Nat \ {0} BY Sizes32 DEF NarrowTypes
  <2>6. lost # 0 => Ends[lost - 1] \in Nat
    <3> SUFFICES ASSUME lost # 0 PROVE Ends[lost - 1] \in Nat OBVIOUS
    <3>1. lost - 1 \in 0..Len(maps32) BY <2>2, EndsFacts DEF NarrowTypes
    <3> QED BY <3>1, EndsFacts
  <2>7. PosInv'
    <3> HIDE DEF Here32
    <3>1. pos32 > 0 /\ (lost = 0 => pos32 <= Here32 /\ (~short32 => pos32 = Here32))
          /\ (lost # 0 /\ ~short32 => pos32 >= Ends[lost - 1])
      BY <2>1 DEF PosInv
    <3> QED BY <2>1, <2>3, <2>4, <2>5, <2>6, <3>1 DEF PosInv
  <2>8. StartInv' BY <2>1, <2>3 DEF StartInv
  <2>9. LostInv' BY <2>1, <2>3 DEF LostInv
  <2> QED BY <2>7, <2>8, <2>9
<1>7. CASE Narrow!WriteFails /\ start32 > 0
  <2>1. UNCHANGED <<maps32, note32, index32, start32, lost, short32>>
        /\ pc32 = "page" /\ pc32' = "pad" /\ page32' = 0 /\ pos32' = start32
    BY <1>7 DEF Narrow!WriteFails
  <2>2. index32 <= Len(maps32) BY <2>1 DEF NarrowTypes
  <2>3. Ends' = Ends BY <2>1, EndsStay
  <2>4. Ends[index32 - 1] \in Nat /\ start32 \in Int BY <2>2, SegmentFacts DEF NarrowTypes
  <2>5. Here32' = Ends[index32 - 1]
    <3>1. 0 * AlignSize = 0 BY Sizes32
    <3> QED BY <2>1, <2>3, <2>4, <3>1 DEF Here32
  <2>6. start32 # -1 BY <1>7, <2>4
  <2>7. PosInv'
    <3>1. (lost = 0 => start32 <= Ends[index32 - 1]
                       /\ (~short32 => start32 = Ends[index32 - 1]))
          /\ ~(lost # 0 /\ ~short32)
      BY <2>1, <2>6 DEF StartInv
    <3> QED BY <1>7, <2>1, <2>3, <2>5, <3>1 DEF PosInv
  <2>8. StartInv' BY <1>7, <2>1, <2>3, <2>6 DEF StartInv
  <2>9. LostInv' BY <2>1, <2>3 DEF LostInv
  <2> QED BY <2>7, <2>8, <2>9
<1>8. CASE Narrow!WriteFails /\ ~(start32 > 0)
  <2>1. UNCHANGED <<maps32, note32, pos32, page32, short32>>
        /\ pc32 = "page" /\ pc32' = "segment" /\ index32' = index32 + 1
        /\ lost' = IF lost = 0 THEN index32 ELSE lost
    BY <1>8 DEF Narrow!WriteFails
  <2>2. index32 <= Len(maps32) BY <2>1 DEF NarrowTypes
  <2>3. Ends' = Ends BY <2>1, EndsStay
  <2>4. start32 = -1 BY <1>8, <2>1 DEF StartInv
  <2>5. lost' # 0 BY <2>1, <2>2, SegmentFacts
  <2>6. Ends[index32 - 1] \in Nat /\ page32 * AlignSize \in Nat BY <2>2, SegmentFacts
  <2>7. PosInv'
    <3>1. pos32 > 0 BY <2>1 DEF PosInv
    <3>2. ASSUME ~short32 PROVE pos32 >= Ends[lost' - 1]
      <4>1. CASE lost = 0
        <5>1. pos32 = Ends[index32 - 1] + page32 * AlignSize BY <2>1, <3>2, <4>1 DEF PosInv, Here32
        <5> QED BY <2>1, <2>6, <4>1, <5>1
      <4>2. CASE lost # 0 BY <2>1, <3>2, <4>2 DEF PosInv
      <4> QED BY <4>1, <4>2
    <3> QED BY <2>1, <2>3, <2>5, <3>1, <3>2 DEF PosInv
  <2>8. StartInv' BY <2>1 DEF StartInv
  <2>9. LostInv'
    <3>1. CASE lost = 0
      <4>1. Ends[index32 - 1] > OffsetMax BY <2>1, <2>4, <3>1 DEF StartInv
      <4> QED BY <2>1, <2>3, <3>1, <4>1 DEF LostInv
    <3>2. CASE lost # 0 BY <2>1, <2>3, <3>2 DEF LostInv
    <3> QED BY <3>1, <3>2
  <2> QED BY <2>7, <2>8, <2>9
<1>9. CASE Narrow!EndSegment
  <2>1. UNCHANGED <<maps32, note32, pos32, page32, start32, lost, short32>>
        /\ pc32 \in {"page", "pad"} /\ pc32' = "segment" /\ index32' = index32 + 1
        /\ ~(page32 < Narrow!Count(index32))
    BY <1>9 DEF Narrow!EndSegment, Narrow!More
  <2>2. index32 <= Len(maps32) /\ page32 <= Narrow!Count(index32) /\ Narrow!Filesz(index32) > 0
    BY <2>1 DEF NarrowTypes
  <2>3. Ends' = Ends BY <2>1, EndsStay
  <2>4. page32 = Narrow!Count(index32)
    <3>1. page32 \in Nat /\ Narrow!Count(index32) \in Nat BY <2>2, SegmentFacts DEF NarrowTypes
    <3> QED BY <2>1, <2>2, <3>1
  <2>5. Ends[index32] = Ends[index32 - 1] + page32 * AlignSize
    BY <2>2, <2>4, SegmentFacts
  <2>6. Here32 = Ends[index32 - 1] + page32 * AlignSize BY <2>1 DEF Here32
  <2>7. Here32' = Ends[index32]
    <3>1. index32' - 1 = index32 /\ Ends[index32] \in Nat BY <2>1, <2>2, SegmentFacts
    <3> QED BY <2>1, <2>3, <3>1 DEF Here32
  <2>8. PosInv'
    <3> HIDE DEF Here32
    <3> QED BY <2>1, <2>3, <2>5, <2>6, <2>7 DEF PosInv
  <2> QED BY <2>1, <2>3, <2>8 DEF StartInv, LostInv
<1>10. CASE Narrow!Fclose
  <2>1. UNCHANGED <<maps32, note32, lost>> /\ pc32' = "closed" BY <1>10 DEF Narrow!Fclose
  <2>2. Ends' = Ends BY <2>1, EndsStay
  <2> QED BY <2>1, <2>2 DEF PosInv, StartInv, LostInv
<1> QED BY <1>1, <1>2, <1>3, <1>4, <1>5, <1>6, <1>7, <1>8, <1>9, <1>10 DEF Narrow!Next

---------------------------------------------------------------------------
(* The pages. *)

LEMMA FailedStep32 ==
    NarrowTypes /\ HeaderInv32 /\ FailedInv32 /\ [Narrow!Next]_(Narrow!vars) => FailedInv32'
<1> SUFFICES ASSUME NarrowTypes, HeaderInv32, FailedInv32, [Narrow!Next]_(Narrow!vars)
             PROVE  FailedInv32'
  OBVIOUS
<1> USE DEF Narrow!input, Narrow!header, Narrow!loop, Narrow!output, FailedInv32, Before32
<1>1. index32 \in Nat /\ index32 + 1 \notin 1..index32 /\ 1..index32 \subseteq 1..(index32 + 1)
  BY DEF NarrowTypes
<1>2. CASE \/ Narrow!Parse \/ Narrow!Create \/ Narrow!WriteHeaders \/ Narrow!WriteNotes
           \/ Narrow!BeginSegment \/ Narrow!WritePage \/ Narrow!PadPage \/ Narrow!Fclose
  BY <1>2 DEF Narrow!Parse, Narrow!Create, Narrow!WriteHeaders, Narrow!WriteNotes,
       Narrow!BeginSegment, Narrow!WritePage, Narrow!PadPage, Narrow!Fclose
<1>3. CASE Narrow!SkipSegment \/ Narrow!EndSegment
  <2>1. index32' = index32 + 1 /\ failed32' = failed32 /\ pc32' = "segment"
    BY <1>3 DEF Narrow!SkipSegment, Narrow!EndSegment
  <2> QED BY <1>1, <2>1
<1>4. CASE Narrow!WriteFails
  <2>1. CASE start32 > 0
    <3>1. index32' = index32 /\ failed32' = failed32 \cup {index32} /\ pc32' = "pad"
      BY <1>4, <2>1 DEF Narrow!WriteFails
    <3>2. index32 \in 1..index32 BY DEF NarrowTypes
    <3> QED BY <3>1, <3>2
  <2>2. CASE ~(start32 > 0)
    <3>1. index32' = index32 + 1 /\ failed32' = failed32 /\ pc32' = "segment"
      BY <1>4, <2>2 DEF Narrow!WriteFails
    <3> QED BY <1>1, <3>1
  <2> QED BY <2>1, <2>2
<1>5. CASE UNCHANGED Narrow!vars BY <1>5 DEF Narrow!vars
<1> QED BY <1>2, <1>3, <1>4, <1>5 DEF Narrow!Next

\* A write elsewhere leaves a page as it is.
LEMMA ApartKept32 ==
    ASSUME NEW i, NEW k, NEW what, Holds32(i, k), Narrow!FWrite(what),
           pos32 # Ends[i - 1] + k * AlignSize,
           Ends' = Ends, i \in failed32' <=> i \in failed32
    PROVE  Holds32(i, k)'
<1>1. content32' = [p \in DOMAIN content32 \cup {pos32} |->
                       IF p = pos32 THEN what ELSE content32[p]]
  BY DEF Narrow!FWrite
<1> QED BY <1>1 DEF Holds32

LEMMA HoldsStay ==
    ASSUME NEW i, NEW k, Holds32(i, k), content32' = content32,
           Ends' = Ends, i \in failed32' <=> i \in failed32
    PROVE  Holds32(i, k)'
  BY DEF Holds32

\* Page k of a segment ends before or where the segment does.
LEMMA PageWithin ==
    ASSUME NarrowTypes, NEW i \in 1..Len(maps32), Narrow!Filesz(i) > 0,
           NEW k \in 0..Narrow!Count(i) - 1
    PROVE  /\ Ends[i - 1] + k * AlignSize \in Nat
           /\ Ends[i - 1] + k * AlignSize < Ends[i]
<1>1. Narrow!Filesz(i) = Narrow!Count(i) * AlignSize /\ Narrow!Count(i) \in Nat
  BY MapTypes DEF NarrowTypes
<1>2. k \in Nat /\ k < Narrow!Count(i) /\ AlignSize \in Nat \ {0} BY <1>1, Sizes32
<1>3. k * AlignSize < Narrow!Count(i) * AlignSize BY <1>1, <1>2, MonotoneTimes
<1>4. Ends[i] = Ends[i - 1] + Narrow!Filesz(i) /\ Ends[i - 1] \in Nat
  BY EndsFacts
<1>5. k * AlignSize \in Nat /\ Narrow!Count(i) * AlignSize \in Nat BY <1>1, <1>2
<1> QED BY <1>1, <1>3, <1>4, <1>5

\* So what is written in the middle of a segment is behind every page of the
\* earlier ones, and behind the pages of this one.
LEMMA WritesBehind ==
    ASSUME NarrowTypes, PosInv, ~short32, pc32 \in {"page", "pad"}
    PROVE  /\ \A i \in 1..Len(maps32) :
                  i < index32 /\ (lost = 0 \/ i < lost) /\ Narrow!Filesz(i) > 0 =>
                      \A k \in 0..Narrow!Count(i) - 1 : pos32 # Ends[i - 1] + k * AlignSize
           /\ lost = 0 =>
                  /\ pos32 = Ends[index32 - 1] + page32 * AlignSize
                  /\ \A k \in 0..page32 - 1 : pos32 # Ends[index32 - 1] + k * AlignSize
<1>1. index32 \in 1..Len(maps32) /\ Len(maps32) \in Nat /\ page32 \in Nat /\ pos32 \in Nat
      /\ lost \in 0..index32 - 1
  BY EndsFacts DEF NarrowTypes
<1>2. Ends[index32 - 1] \in Nat /\ page32 * AlignSize \in Nat
  BY <1>1, EndsFacts, Sizes32
<1>3. lost = 0 => pos32 = Ends[index32 - 1] + page32 * AlignSize
  BY DEF PosInv, Here32
<1>4. lost # 0 => pos32 >= Ends[lost - 1] BY DEF PosInv
<1>5. ASSUME NEW i \in 1..Len(maps32), i < index32, lost = 0 \/ i < lost, Narrow!Filesz(i) > 0,
             NEW k \in 0..Narrow!Count(i) - 1
      PROVE  pos32 # Ends[i - 1] + k * AlignSize
  <2>1. Ends[i - 1] + k * AlignSize \in Nat /\ Ends[i - 1] + k * AlignSize < Ends[i]
    BY <1>5, PageWithin
  <2>2. Ends[i] \in Nat /\ i \in 0..Len(maps32) BY <1>1, EndsFacts
  <2>3. Ends[i] <= pos32
    <3>1. CASE lost = 0
      <4>1. i <= index32 - 1 /\ index32 - 1 \in 0..Len(maps32) BY <1>1, <1>5
      <4>2. Ends[i] <= Ends[index32 - 1] BY <2>2, <4>1, EndsFacts
      <4> QED BY <1>2, <1>3, <2>2, <3>1, <4>2
    <3>2. CASE lost # 0
      <4>1. i <= lost - 1 /\ lost - 1 \in 0..Len(maps32) BY <1>1, <1>5, <3>2
      <4>2. Ends[i] <= Ends[lost - 1] /\ Ends[lost - 1] \in Nat BY <2>2, <4>1, EndsFacts
      <4> QED BY <1>1, <1>4, <2>2, <3>2, <4>2
    <3> QED BY <3>1, <3>2
  <2> QED BY <1>1, <2>1, <2>2, <2>3
<1>6. ASSUME lost = 0, NEW k \in 0..page32 - 1
      PROVE  pos32 # Ends[index32 - 1] + k * AlignSize
  <2>1. k \in Nat /\ k < page32 /\ AlignSize \in Nat \ {0} BY <1>1, Sizes32
  <2>2. k * AlignSize < page32 * AlignSize BY <1>1, <2>1, MonotoneTimes
  <2>3. k * AlignSize \in Nat BY <2>1
  <2> QED BY <1>2, <1>3, <1>6, <2>2, <2>3
<1> QED BY <1>3, <1>5, <1>6

LEMMA DoneStep32 ==
    /\ NarrowTypes /\ NarrowTypes' /\ HeaderInv32 /\ PosInv /\ StartInv
    /\ FailedInv32 /\ FailedInv32' /\ DoneInv32 /\ [Narrow!Next]_(Narrow!vars)
    => DoneInv32'
<1> SUFFICES ASSUME NarrowTypes, NarrowTypes', HeaderInv32, PosInv, StartInv, FailedInv32,
                    FailedInv32', DoneInv32, [Narrow!Next]_(Narrow!vars)
             PROVE  DoneInv32'
  OBVIOUS
<1> USE DEF Narrow!input, Narrow!header, Narrow!loop, Narrow!output
<1> DEFINE Old(i) == i < index32 /\ (lost = 0 \/ i < lost) /\ Narrow!Filesz(i) > 0
<1>1. CASE Narrow!Parse \/ Narrow!Create \/ Narrow!WriteHeaders
  BY <1>1, BeforeSegments DEF Narrow!Parse, Narrow!Create, Narrow!WriteHeaders, Before32
\* Steps of no page, which end no segment either.
<1>2. ASSUME UNCHANGED <<maps32, note32, content32, failed32, lost, short32>>,
             \/ UNCHANGED <<pc32, page32, index32>>
             \/ pc32' \notin {"page", "pad"} /\ index32' = index32
             \/ pc32' = "page" /\ page32' = 0 /\ index32' = index32
      PROVE  DoneInv32'
  <2>1. Ends' = Ends /\ \A i : Narrow!Filesz(i)' = Narrow!Filesz(i)
                              /\ Narrow!Count(i)' = Narrow!Count(i)
    BY <1>2, EndsStay
  <2>2. \A i, k : Holds32(i, k) => Holds32(i, k)' BY <1>2, <2>1, HoldsStay
  <2>3. \A k : k \notin 0..0 - 1 OBVIOUS
  <2> QED BY <1>2, <2>1, <2>2, <2>3 DEF DoneInv32
<1>3. CASE Narrow!WriteNotes \/ Narrow!BeginSegment \/ Narrow!Fclose \/ UNCHANGED Narrow!vars
  BY <1>2, <1>3 DEF Narrow!WriteNotes, Narrow!BeginSegment, Narrow!Fclose, Narrow!vars
\* The segment is over, and all its pages are done.
<1>4. CASE Narrow!SkipSegment \/ Narrow!EndSegment
  <2>1. UNCHANGED <<maps32, note32, content32, failed32, lost, short32>>
        /\ pc32' = "segment" /\ index32' = index32 + 1
    BY <1>4 DEF Narrow!SkipSegment, Narrow!EndSegment
  <2>2. Ends' = Ends /\ \A i : Narrow!Filesz(i)' = Narrow!Filesz(i)
                              /\ Narrow!Count(i)' = Narrow!Count(i)
    BY <2>1, EndsStay
  <2>3. \A i, k : Holds32(i, k) => Holds32(i, k)' BY <2>1, <2>2, HoldsStay
  <2>4. ASSUME ~short32, NEW i \in 1..Len(maps32), i < index32 + 1, lost = 0 \/ i < lost,
               Narrow!Filesz(i) > 0, NEW k \in 0..Narrow!Count(i) - 1
        PROVE  Holds32(i, k)
    <3>1. CASE i < index32 BY <2>4, <3>1 DEF DoneInv32
    <3>2. CASE ~(i < index32)
      <4>1. i = index32 /\ lost = 0
        <5>1. index32 \in Nat /\ lost \in 0..index32 - 1 BY DEF NarrowTypes
        <5> QED BY <2>4, <3>2, <5>1
      <4>2. CASE Narrow!EndSegment
        <5>1. pc32 \in {"page", "pad"} /\ ~(page32 < Narrow!Count(index32))
          BY <4>2 DEF Narrow!EndSegment, Narrow!More
        <5>2. page32 = Narrow!Count(index32)
          <6>1. index32 <= Len(maps32) /\ page32 <= Narrow!Count(index32) /\ page32 \in Nat
            BY <5>1 DEF NarrowTypes
          <6>2. Narrow!Count(index32) \in Nat BY <6>1, SegmentFacts
          <6> QED BY <5>1, <6>1, <6>2
        <5> QED BY <2>4, <4>1, <5>1, <5>2 DEF DoneInv32
      <4>3. CASE Narrow!SkipSegment
        <5>1. phdr32[index32].filesz = 0 /\ pc32 = "segment" BY <4>3 DEF Narrow!SkipSegment
        <5>2. Narrow!Filesz(index32) = 0 BY <4>1, <5>1, PhdrFacts
        <5> QED BY <2>4, <4>1, <5>2
      <4> QED BY <1>4, <4>2, <4>3
    <3> QED BY <3>1, <3>2
  <2> QED BY <2>1, <2>2, <2>3, <2>4 DEF DoneInv32
\* The write has failed: what is done stays done, and this segment begins anew,
\* or is the first of those that are lost.
<1>5. CASE Narrow!WriteFails
  <2>1. UNCHANGED <<maps32, note32, content32, short32>> /\ pc32 = "page"
        /\ failed32' \in {failed32, failed32 \cup {index32}}
    BY <1>5 DEF Narrow!WriteFails
  <2>2. Ends' = Ends /\ \A i : Narrow!Filesz(i)' = Narrow!Filesz(i)
                              /\ Narrow!Count(i)' = Narrow!Count(i)
    BY <2>1, EndsStay
  <2>3. \A i, k : Holds32(i, k) /\ i # index32 => Holds32(i, k)'
    BY <2>1, <2>2, HoldsStay
  <2>4. \A i \in 1..Len(maps32) : i < index32' /\ (lost' = 0 \/ i < lost') => 
                                   i < index32 /\ (lost = 0 \/ i < lost)
    <3>1. CASE start32 > 0 BY <1>5, <3>1 DEF Narrow!WriteFails
    <3>2. CASE ~(start32 > 0)
      <4>1. index32' = index32 + 1 /\ lost' = IF lost = 0 THEN index32 ELSE lost
        BY <1>5, <3>2 DEF Narrow!WriteFails
      <4>2. index32 \in Nat \ {0} /\ lost \in 0..index32 - 1 BY DEF NarrowTypes
      <4> QED BY <4>1, <4>2
    <3> QED BY <3>1, <3>2
  <2>5. lost' = 0 => page32' = 0 \/ pc32' \notin {"page", "pad"}
    BY <1>5 DEF Narrow!WriteFails
  <2>6. \A i \in 1..Len(maps32) : i < index32 => i # index32 BY DEF NarrowTypes
  <2>7. \A k : k \notin 0..0 - 1 OBVIOUS
  <2> QED BY <2>1, <2>2, <2>3, <2>4, <2>5, <2>6, <2>7 DEF DoneInv32
<1>6. CASE Narrow!WritePage \/ Narrow!PadPage
  <2>1. UNCHANGED <<pc32, maps32, note32, index32, failed32, lost>>
        /\ pc32 \in {"page", "pad"} /\ page32' = page32 + 1
        /\ (short32 => short32')
    BY <1>6 DEF Narrow!WritePage, Narrow!PadPage
  <2>2. Ends' = Ends /\ \A i : Narrow!Filesz(i)' = Narrow!Filesz(i)
                              /\ Narrow!Count(i)' = Narrow!Count(i)
    BY <2>1, EndsStay
  <2> SUFFICES ASSUME ~short32'
               PROVE  /\ \A i \in 1..Len(maps32) : Old(i) =>
                             \A k \in 0..Narrow!Count(i) - 1 : Holds32(i, k)'
                      /\ lost = 0 => \A k \in 0..page32 : Holds32(index32, k)'
    <3>1. page32 \in Nat BY DEF NarrowTypes
    <3>2. page32' - 1 = page32 BY <2>1, <3>1
    <3> QED BY <2>1, <2>2, <3>2 DEF DoneInv32
  <2> DEFINE what == IF pc32 = "page" THEN <<index32, page32>> ELSE <<0, 0>>
  <2>3. Narrow!FWrite(what) /\ ~short32
    BY <1>6, <2>1 DEF Narrow!WritePage, Narrow!PadPage
  <2> HIDE DEF what
  <2>4. ASSUME NEW i \in 1..Len(maps32), Old(i), NEW k \in 0..Narrow!Count(i) - 1
        PROVE  Holds32(i, k)'
    <3>1. Holds32(i, k) BY <2>3, <2>4 DEF DoneInv32
    <3>2. pos32 # Ends[i - 1] + k * AlignSize BY <2>1, <2>3, <2>4, WritesBehind
    <3> QED BY <2>1, <2>2, <2>3, <3>1, <3>2, ApartKept32
  <2>5. ASSUME lost = 0, NEW k \in 0..page32 - 1 PROVE Holds32(index32, k)'
    <3>1. Holds32(index32, k) BY <2>1, <2>3, <2>5 DEF DoneInv32
    <3>2. pos32 # Ends[index32 - 1] + k * AlignSize BY <2>1, <2>3, <2>5, WritesBehind
    <3>3. Holds32(index32, k) => (Ends[index32 - 1] + k * AlignSize) \in DOMAIN content32'
                              /\ content32'[Ends[index32 - 1] + k * AlignSize]
                                     = content32[Ends[index32 - 1] + k * AlignSize]
      BY <2>3, <3>2 DEF Holds32, Narrow!FWrite
    <3> QED BY <2>1, <2>2, <3>1, <3>3 DEF Holds32
  <2>6. ASSUME lost = 0, NEW k, k = page32 PROVE Holds32(index32, k)'
    <3>1. pos32 = Ends[index32 - 1] + page32 * AlignSize BY <2>1, <2>3, <2>6, WritesBehind
    <3>2. pos32 \in DOMAIN content32' /\ content32'[pos32] = what
      BY <2>3 DEF Narrow!FWrite
    <3>3. what = IF index32 \in failed32 THEN <<0, 0>> ELSE <<index32, page32>>
      BY <2>1 DEF FailedInv32, what
    <3>4. (Ends[index32 - 1] + k * AlignSize)' = Ends[index32 - 1] + k * AlignSize
      BY <2>1, <2>2
    <3>5. Ends[index32 - 1] + k * AlignSize = pos32 BY <2>6, <3>1
    <3> QED BY <2>1, <2>6, <3>2, <3>3, <3>4, <3>5 DEF Holds32
  <2>7. ASSUME lost = 0, NEW k \in 0..page32
        PROVE  Holds32(index32, k)'
    <3>1. k = page32 \/ k \in 0..page32 - 1 BY DEF NarrowTypes
    <3> QED BY <2>5, <2>6, <2>7, <3>1
  <2> QED BY <2>4, <2>7
<1> QED BY <1>1, <1>3, <1>4, <1>5, <1>6 DEF Narrow!Next

---------------------------------------------------------------------------
LEMMA NarrowInvariant == Narrow!Spec => []NarrowInv
<1>1. NarrowInv /\ [Narrow!Next]_(Narrow!vars) => NarrowInv'
  <2> SUFFICES ASSUME NarrowInv, [Narrow!Next]_(Narrow!vars) PROVE NarrowInv' OBVIOUS
  <2> USE DEF NarrowInv
  <2>1. NarrowTypes' BY NarrowTypesStep
  <2>2. HeaderInv32' BY <2>1, HeaderStep32
  <2>3. (PosInv /\ StartInv /\ LostInv)' BY <2>1, PosStep
  <2>4. FailedInv32' BY FailedStep32
  <2>5. DoneInv32' BY <2>1, <2>4, DoneStep32
  <2> QED BY <2>1, <2>2, <2>3, <2>4, <2>5
<1> QED BY NarrowInit, <1>1, PTL DEF Narrow!Spec

(* In a 32-bit core file every segment that starts within 4 GiB is where its
   program header says, whole or replaced by zeroes, up to the first write
   that fails beyond what ftell can report; for any VMAs, threads, sizes and
   widths (lp32, WriteCoreLoadSegment and p_offset of WriteCoreLoadHeader). *)
THEOREM NarrowSegmentsInPlace == Narrow!Spec => []SegmentsInPlace
<1>1. NarrowInv => SegmentsInPlace
  <2> SUFFICES ASSUME NarrowInv PROVE SegmentsInPlace OBVIOUS
  <2>0. NarrowTypes /\ HeaderInv32 /\ LostInv /\ DoneInv32 BY DEF NarrowInv
  <2>1. ASSUME lost # 0 PROVE Narrow!Place(lost) > OffsetMax
    <3>1. lost \in 1..Len(maps32) BY <2>0, <2>1, EndsFacts DEF NarrowTypes
    <3>2. Narrow!Place(lost) = Ends[lost - 1] BY <2>0, <3>1, PlaceIsEnd
    <3> QED BY <2>0, <2>1, <3>2 DEF LostInv
  <2>2. ASSUME NEW i \in 1..Len(phdr32), i < index32, Narrow!Place(i) < OffsetWord,
               lost = 0 \/ i < lost, ~short32, NEW k \in 0..Narrow!Count(i) - 1,
               phdr32[i].filesz > 0
        PROVE  LET p == phdr32[i].offset + k * AlignSize IN
               /\ p \in DOMAIN content32
               /\ content32[p] = IF i \in failed32 THEN <<0, 0>> ELSE <<i, k>>
    <3>1. pc32 \notin {"fopen", "create"} BY <2>0, <2>2 DEF HeaderInv32
    <3>2. i \in 1..Len(maps32) /\ phdr32[i].filesz = Narrow!Filesz(i)
          /\ phdr32[i].offset = Ends[i - 1] % OffsetWord
      BY <2>0, <2>2, <3>1, PhdrFacts
    <3>3. Ends[i - 1] \in Nat /\ Ends[i - 1] < OffsetWord
      BY <2>0, <2>2, <3>2, PlaceIsEnd, EndsFacts
    <3>4. phdr32[i].offset = Ends[i - 1]
      <4>1. OffsetWord \in Nat BY Sizes32
      <4>2. Ends[i - 1] % OffsetWord = Ends[i - 1] BY <3>3, <4>1, ModSmall
      <4> QED BY <3>2, <4>2
    <3>5. Holds32(i, k) BY <2>0, <2>2, <3>2 DEF DoneInv32
    <3> QED BY <3>4, <3>5 DEF Holds32
  <2> QED BY <2>1, <2>2 DEF SegmentsInPlace, Narrow!SegmentsInPlace
<1> QED BY <1>1, NarrowInvariant, PTL
============================================================================
