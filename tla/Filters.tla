------------------------------ MODULE Filters ------------------------------
(***************************************************************************)
(* What the user asks to leave out: the verdict on each segment, the       *)
(* registers that a minidump's verdicts are made of, on every architecture, *)
(* and how the bits print.  The three share no state, and a behaviour is   *)
(* of one of them, `part`.                                                 *)
(***************************************************************************)
EXTENDS SegmentFilter

CONSTANTS Thread, Top, Arch     \* of ThreadRegisters

VARIABLES
    part,
    arch, threads, context, prstatus, turn, cur,        \* of ThreadRegisters
    kind, option, bit, need_seq, sb                     \* of OptionStrings

Registers == INSTANCE ThreadRegisters WITH index <- turn

Strings == INSTANCE OptionStrings

ASSUME RegistersAssumption == Registers!RegisterAssumption

registers == <<arch, threads, context, prstatus, turn, cur>>
strings   == <<kind, option, bit, need_seq, sb>>
all       == <<part, vars, registers, strings>>

\* Those that stand still, in one state each.
NoVerdict   == filter = {} /\ maps = <<>>
NoRegisters == arch = (CHOOSE a \in Arch : TRUE) /\ threads = <<>> /\ context = FALSE
NoStrings   == kind = "flag" /\ option = {}

PartInit ==
    /\ \/ part = "verdicts" /\ NoRegisters /\ NoStrings
       \/ part = "registers" /\ NoVerdict /\ NoStrings
       \/ part = "strings" /\ NoVerdict /\ NoRegisters
    /\ Init /\ Registers!Init /\ Strings!Init

PartNext ==
    \/ part = "verdicts" /\ Next /\ UNCHANGED <<part, registers, strings>>
    \/ part = "registers" /\ Registers!Next /\ UNCHANGED <<part, vars, strings>>
    \/ part = "strings" /\ Strings!Next /\ UNCHANGED <<part, vars, registers>>

PartSpec == PartInit /\ [][PartNext]_all

\* The notes have the registers of the threads and of the crash.
RegistersOfCrash == Registers!RegistersOfCrash
\* A printed filter can be read back.
ReadsBack == Strings!ReadsBack
============================================================================
