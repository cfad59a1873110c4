--------------------------- MODULE ThreadRegisters ---------------------------
(***************************************************************************)
(* CreateCorePrStatus of every architecture: the registers each NT_PRSTATUS *)
(* gets, from the crash's ucontext or from PTRACE_GETREGSET, and which of  *)
(* them IsSpecialFilterSegment follows to the segments of a minidump.      *)
(*                                                                         *)
(* A register's value is known by where it comes from: it is what that     *)
(* register of the crash was, or of a stopped thread, or zero.             *)
(***************************************************************************)
EXTENDS Integers, Sequences, SequencesExt

CONSTANTS
    Thread,
    Top,            \* getTid(): the thread the dump is of
    Arch            \* the architectures looked at

Numbers ==
    <<"0", "1", "2", "3", "4", "5", "6", "7", "8", "9", "10", "11", "12", "13", "14",
      "15", "16", "17", "18", "19", "20", "21", "22", "23", "24", "25", "26", "27",
      "28", "29", "30">>
Numbered(n) == [i \in 1..n |-> Numbers[i]]

\* The fields of pt_regs, in their order.
RiscvFields ==
    <<"pc", "ra", "sp", "gp", "tp", "t0", "t1", "t2", "s0", "s1",
      "a0", "a1", "a2", "a3", "a4", "a5", "a6", "a7", "s2", "s3", "s4", "s5",
      "s6", "s7", "s8", "s9", "s10", "s11", "t3", "t4", "t5", "t6">>
X86Fields ==
    <<"ebx", "ecx", "edx", "esi", "edi", "ebp", "eax", "ds", "es", "fs", "gs",
      "orig_eax", "eip", "cs", "eflags", "esp", "ss">>
X86_64Fields ==
    <<"r15", "r14", "r13", "r12", "rbp", "rbx", "r11", "r10", "r9", "r8", "rax",
      "rcx", "rdx", "rsi", "rdi", "orig_rax", "rip", "cs", "flags", "rsp", "ss",
      "fs_base", "gs_base", "ds", "es", "fs", "gs">>
Fields(a) ==
    CASE a = "arm"     -> Numbered(13) \o <<"sp", "lr", "pc", "cpsr">>
      [] a = "arm64"   -> Numbered(31) \o <<"sp", "pc", "pstate">>
      [] a = "riscv64" -> RiscvFields
      [] a = "x86"     -> X86Fields
      [] a = "x86_64"  -> X86_64Fields

\* mcontext_t: gregs[] of x86, and the registers from arm_r0, regs or sc_regs on.
Context(a) ==
    CASE a = "arm"     -> Numbered(13) \o <<"sp", "lr", "pc", "cpsr">>
      [] a = "arm64"   -> Numbered(31) \o <<"sp", "pc", "pstate">>
      [] a = "riscv64" -> RiscvFields
      [] a = "x86"     -> <<"gs", "fs", "es", "ds", "edi", "esi", "ebp", "esp", "ebx",
                            "edx", "ecx", "eax", "trapno", "err", "eip", "cs",
                            "eflags", "uesp", "ss">>
      [] a = "x86_64"  -> <<"r8", "r9", "r10", "r11", "r12", "r13", "r14", "r15",
                            "rdi", "rsi", "rbp", "rbx", "rdx", "rax", "rcx", "rsp",
                            "rip", "flags", "csgsfs", "err", "trapno", "oldmask",
                            "cr2">>

\* The index in gregs[] each field is assigned from, -1 for none.
X86Index    == <<8, 10, 9, 5, 4, 6, 11, 3, 2, 1, 0, 11, 14, -1, 16, 7, 15>>
X86_64Index == <<7, 6, 5, 4, 10, 11, 3, 2, 1, 0, 13, 14, 12, 9, 8, -1, 16, 18, 17,
                 15, 21, -1, -1, -1, -1, 20, 19>>
\* memcpy for the others.
Index(a, n) ==
    IF a = "x86" THEN X86Index[n] ELSE IF a = "x86_64" THEN X86_64Index[n] ELSE n - 1

---------------------------------------------------------------------------
VARIABLES
    arch,
    threads,        \* as StopTheWorld has left them, with Top or without
    context,        \* there is a ucontext: a crash, and FILTER_SIGNAL_CONTEXT
    prstatus,       \* by slot, from 0
    index, cur

vars == <<arch, threads, context, prstatus, index, cur>>

RegisterAssumption ==
    /\ Arch \subseteq {"arm", "arm64", "riscv64", "x86", "x86_64"}
    /\ IsFiniteSet(Thread)

Zero == <<"zero", "none">>
Blank == [pr_pid |-> "none", pr_reg |-> [n \in DOMAIN Fields(arch) |-> Zero]]
Slots == 0..Len(threads) - 1

\* Faulty: the slot of the top thread is not kept free.
FaultyFirst == 0
First == 1

Init ==
    /\ arch \in Arch /\ context \in BOOLEAN
    /\ threads \in UNION {SetToSeqs(s) : s \in SUBSET Thread}
    /\ prstatus = [i \in Slots |-> Blank]
    /\ index = 1 /\ cur = First

IsTop == threads[index] = Top
Slot  == IF IsTop \/ cur >= Len(threads) THEN 0 ELSE cur

\* What the ucontext says, field by field.
FromContext ==
    [n \in DOMAIN Fields(arch) |->
        IF Index(arch, n) = -1 THEN Zero
        ELSE <<"crash", Context(arch)[Index(arch, n) + 1]>>]

\* PTRACE_GETREGSET: pt_regs is laid out as the kernel has it.
FromThread(t) == [n \in DOMAIN Fields(arch) |-> <<t, Fields(arch)[n]>>]

TakesContext == IsTop /\ context

\* A thread that has exited has no registers to get: the slot keeps its own.
CreateCorePrStatus ==
    /\ index <= Len(threads)
    /\ \E reg \in IF TakesContext THEN {FromContext}
                  ELSE {FromThread(threads[index]), prstatus[Slot].pr_reg} :
          prstatus' = [prstatus EXCEPT ![Slot] =
                          [pr_pid |-> threads[index], pr_reg |-> reg]]
    /\ cur' = IF IsTop THEN cur ELSE cur + 1
    /\ index' = index + 1
    /\ UNCHANGED <<arch, threads, context>>

Next == CreateCorePrStatus
Spec == Init /\ [][Next]_vars

\* The registers IsSpecialFilterSegment compares with each segment.
LookedAt ==
    CASE arch = "arm"    -> ToSet(Numbered(13)) \cup {"pc", "sp", "lr"}
      [] arch = "arm64"  -> ToSet(Numbered(31)) \cup {"pc", "sp"}
      [] arch = "x86"    -> {"ebx", "edx", "esi", "edi", "ebp", "eax", "eip", "esp"}
      [] arch = "x86_64" -> {"r15", "r14", "r13", "r12", "rbp", "rbx", "r11", "r10",
                             "r9", "r8", "rax", "rcx", "rdx", "rsi", "rdi", "rip"}
      [] arch = "riscv64" -> ToSet(RiscvFields)

\* The values a minidump follows; without a prstatus it has no segment.
Followed ==
    IF threads = <<>> THEN {}
    ELSE {prstatus[0].pr_reg[n] :
             n \in {m \in DOMAIN Fields(arch) : Fields(arch)[m] \in LookedAt}}

---------------------------------------------------------------------------
Done == index > Len(threads)

\* Each slot has the registers of the thread whose pid it has: its own, those of
\* the crash if it is the one that crashed, or none if it would not give them.
OwnRegisters ==
    Done => \A i \in Slots :
        LET p == prstatus[i] IN
        \/ p.pr_reg = Blank.pr_reg \/ p.pr_reg = FromThread(p.pr_pid)
        \/ p.pr_pid = Top /\ context /\ p.pr_reg = FromContext

\* The fields that do not hold the register they are named after: x86_64 takes
\* ss, fs and gs from oldmask, trapno and err, cs from a word it shares, and x86
\* takes ss from cs; the others are left out.
Misread ==
    CASE arch = "x86"    -> {"ss", "cs", "orig_eax"}
      [] arch = "x86_64" -> {"cs", "ss", "ds", "es", "fs", "gs", "fs_base", "gs_base",
                             "orig_rax"}
      [] OTHER           -> {}

\* The first NT_PRSTATUS of a crash is the crashed thread as it was when it
\* crashed, not as it waits in the handler, in every register that is not Misread.
TopIsCrash ==
    Done /\ context /\ Top \in ToSet(threads) =>
        /\ prstatus[0].pr_pid = Top
        /\ \A n \in DOMAIN Fields(arch) :
              prstatus[0].pr_reg[n] = <<"crash", Fields(arch)[n]>>
                  <=> Fields(arch)[n] \notin Misread

\* Registers that may point into memory and are not looked at.
Unprobed == CASE arch = "x86" -> {"ecx"} [] arch = "x86_64" -> {"rsp"} [] OTHER -> {}
Flags    == {"cpsr", "pstate", "eflags", "flags"}

\* A minidump of a crash follows every pointer of the crashed thread, but for the
\* Unprobed ones: on x86_64 it is without the stack unless another register
\* points there.
MinidumpFollows ==
    Done /\ context /\ Top \in ToSet(threads) =>
        Followed \ {Zero} =
            {<<"crash", f>> : f \in ToSet(Fields(arch)) \ (Misread \cup Unprobed \cup Flags
                                        \cup {"ds", "es", "fs", "gs"})}

\* A dump has the registers of its threads, and a crash and its minidump those of
\* the crash, on every architecture.
RegistersOfCrash == OwnRegisters /\ TopIsCrash /\ MinidumpFollows
=============================================================================
