--------------------------- MODULE OptionStrings ---------------------------
(***************************************************************************)
(* How Coredump prints its options: coreFlagToString and                   *)
(* coreFilterToString, which walk the bits they know from the lowest up.   *)
(* A string is the sequence of what was appended to the StringBuilder.     *)
(***************************************************************************)
EXTENDS Integers, Sequences

\* The public constants, bit 0 first.
Constant == [
    flag |-> <<"FLAG_CORE", "FLAG_PROCESS_COMM", "FLAG_PID", "FLAG_THREAD_COMM",
               "FLAG_TID", "FLAG_TIMESTAMP">>,
    filter |-> <<"FILTER_SPECIAL_VMA", "FILTER_FILE_VMA", "FILTER_SHARED_VMA",
                 "FILTER_SANITIZER_SHADOW_VMA", "FILTER_NON_READ_VMA",
                 "FILTER_SIGNAL_CONTEXT", "FILTER_MINIDUMP", "FILTER_JAVAHEAP_VMA",
                 "FILTER_JIT_CACHE_VMA">>]

\* What is appended for each of them, which for FILTER_NON_READ_VMA is the name
\* of a flag.
Text == [Constant EXCEPT !.filter[5] = "FLAG_TID"]
Nothing == [flag |-> "FLAG_NONE", filter |-> "FILTER_NONE"]
Bar == "|"

Bits(k) == DOMAIN Constant[k]

VARIABLES
    kind,       \* which of the two functions runs
    option,     \* its argument, a set of bits; the last may be one it does not know
    bit,        \* the bit that is tested next
    need_seq, sb

vars == <<kind, option, bit, need_seq, sb>>

Init ==
    /\ kind \in DOMAIN Constant
    /\ option \in SUBSET (1 .. Len(Constant[kind]) + 1)
    /\ bit = 1 /\ need_seq = FALSE /\ sb = <<>>

\* The early return.
None ==
    /\ option = {} /\ bit = 1
    /\ sb' = <<Nothing[kind]>> /\ bit' = Len(Constant[kind]) + 1
    /\ UNCHANGED <<kind, option, need_seq>>

\* Faulty: the separator is asked for by the first word only.
FaultyNeedSeq == need_seq = FALSE
\* need_seq after a word
NeedSeq == TRUE

AppendWord ==
    /\ bit \in option \cap Bits(kind)
    /\ sb' = sb \o (IF need_seq THEN <<Bar>> ELSE <<>>) \o <<Text[kind][bit]>>
    /\ need_seq' = NeedSeq
    /\ bit' = bit + 1
    /\ UNCHANGED <<kind, option>>

Skip ==
    /\ option # {} /\ bit \in Bits(kind) \ option
    /\ bit' = bit + 1
    /\ UNCHANGED <<kind, option, need_seq, sb>>

Next == None \/ AppendWord \/ Skip

Spec == Init /\ [][Next]_vars

---------------------------------------------------------------------------
Returned == bit = Len(Constant[kind]) + 1
Words == {sb[i] : i \in DOMAIN sb} \ {Bar}

\* The string can be read back: split at the bars it is the words of the bits
\* that are set, each once, so options that differ in a known bit never print
\* alike.  Bits it does not know leave no trace, and if all are such, the string
\* is empty, which is not what zero prints.
ReadsBack ==
    Returned =>
        /\ \A i \in DOMAIN sb : sb[i] = Bar <=> i % 2 = 0
        /\ Len(sb) % 2 = 1 \/ sb = <<>>
        /\ Words = IF option = {} THEN {Nothing[kind]}
                   ELSE {Text[kind][b] : b \in option \cap Bits(kind)}
        /\ \A b \in Bits(kind) : Text[kind][b] \in Words <=> b \in option
=============================================================================
