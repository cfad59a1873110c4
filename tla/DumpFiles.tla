----------------------------- MODULE DumpFiles -----------------------------
(***************************************************************************)
(* A dump in the dumped process, step by step, and the files that dumps    *)
(* leave.  DumpSession has the object the dumps share and DumpOutput what  *)
(* they make of its options; what one leaves out the other has, so they    *)
(* share no state, and a behaviour is of one of them, `part`.              *)
(***************************************************************************)
EXTENDS DumpSession

CONSTANTS
    FileCrasher, FileDirect,        \* the dumpers of DumpOutput
    Asked, Flags, Dirs, Writable, Comm, Slashed,
    CorePages, MaxSeconds, MaxSets  \* bounds

VARIABLES
    part,
    \* of DumpOutput
    tid, dir, flag, busy, outputLock, second, outputPc, path, forked, started,
    forkCount, out, child, stage, at, before, file, sets

Output == INSTANCE DumpOutput WITH
    Crasher <- FileCrasher, Direct <- FileDirect,
    lock <- outputLock, pc <- outputPc, mine <- forked, forks <- forkCount, kid <- child

ASSUME FilesAssumption == Output!OutputAssumption

output == <<tid, dir, flag, busy, outputLock, second, outputPc, path, forked, started,
            forkCount, out, child, stage, at, before, file, sets>>
all    == <<part, vars, output>>

PartInit ==
    /\ part \in {"session", "files"}
    /\ Init /\ Output!Init
    /\ part = "session" => flag = CHOOSE f \in Flags : TRUE

PartNext ==
    \/ part = "session" /\ Next /\ UNCHANGED <<part, output>>
    \/ part = "files" /\ Output!Next /\ UNCHANGED <<part, vars>>

PartSpec == PartInit /\ [][PartNext]_all

\* The callback gets the path of a whole core, but for the cases named.
PathHoldsCore == Output!PathHoldsCore
============================================================================
