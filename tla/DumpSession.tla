---------------------------- MODULE DumpSession ----------------------------
(***************************************************************************)
(* Opencore::Dump and Coredump in the dumped process: options are stored   *)
(* in the one Opencore object, the process is made dumpable, a child is    *)
(* forked that works on a copy of the object, and the parent waits.        *)
(*                                                                         *)
(* Crashing threads come here under g_handle_lock; a dump asked for by     *)
(* doCoredump or Opencore::Dump() holds nothing.  The child is one step    *)
(* here: StopTheWorld shows that it ends.                                  *)
(***************************************************************************)
EXTENDS Integers, FiniteSets

CONSTANTS
    Crasher,        \* threads that dump from HandleSignal
    Direct,         \* threads that dump without a lock
    None,
    AppKids,        \* child processes the application has forked itself
    MaxDumps,       \* bound: dumps, all threads together
    MaxToggles,     \* bound: changes of FILTER_SIGNAL_CONTEXT by SetFilter
    MaxInterrupts   \* bound: waits that a signal of the application ends

ASSUME SessionAssumption ==
    /\ Crasher \cap Direct = {} /\ None \notin Crasher \cup Direct
    /\ AppKids \in Nat /\ MaxDumps \in Nat
    /\ MaxToggles \in Nat /\ MaxInterrupts \in Nat

Dumper == Crasher \cup Direct
Kid    == 1..(AppKids + MaxDumps)

VARIABLES
    impl,       \* the Opencore object: tid, siginfo, context
    filter,     \* FILTER_SIGNAL_CONTEXT is set
    dumpable,   \* PR_GET_DUMPABLE of the process; FALSE in a release build
    ptracer,    \* PR_SET_PTRACER_ANY is in force (Yama)
    lock,       \* g_handle_lock
    pc,
    name,       \* the tid in each dumper's file name
    wanted,     \* the filter as each dumper found it
    ori,        \* ori_dumpable of each dumper
    mine,       \* the child each dumper forked last, 0 for none
    kid,        \* state of every child process
    snap,       \* the copy of impl each child was forked with
    interrupts, \* history: waits that a signal has ended
    forks, dumps, toggles

access == <<dumpable, ptracer>>
object == <<impl, filter, access>>
locals == <<name, wanted, ori, mine>>
kids   == <<kid, snap, forks, interrupts>>
vars   == <<object, lock, pc, locals, kids, dumps, toggles>>

Blank == [tid |-> None, siginfo |-> None, context |-> None]

Init ==
    /\ impl = Blank /\ filter = TRUE /\ dumpable = FALSE /\ ptracer = FALSE
    /\ lock = None
    /\ pc = [d \in Dumper |-> "idle"]
    /\ name = [d \in Dumper |-> None] /\ wanted = [d \in Dumper |-> FALSE]
    /\ ori = [d \in Dumper |-> FALSE] /\ mine = [d \in Dumper |-> 0]
    /\ kid = [k \in Kid |-> IF k <= AppKids THEN "running" ELSE "none"]
    /\ snap = [k \in Kid |-> Blank] /\ forks = 0 /\ interrupts = 0
    /\ dumps = 0 /\ toggles = 0

Goto(d, l) == pc' = [pc EXCEPT ![d] = l]

\* option->siginfo and option->context come with a signal only.
\* Faulty: an asked-for dump brings them too.
FaultyFromSignal(d) == d
FromSignal(d) == IF d \in Crasher THEN d ELSE None

---------------------------------------------------------------------------
Begin(d) ==
    /\ pc[d] = "idle" /\ dumps < MaxDumps
    /\ dumps' = dumps + 1
    /\ Goto(d, IF d \in Crasher THEN "lock" ELSE "tid")
    /\ UNCHANGED <<object, lock, locals, kids, toggles>>

\* Faulty: two handlers dump together.
FaultyLockFree == TRUE
LockFree == lock = None

HandleLock(d) ==
    /\ pc[d] = "lock" /\ LockFree
    /\ lock' = d
    /\ Goto(d, "tid")
    /\ UNCHANGED <<object, locals, kids, dumps, toggles>>

SetTid(d) ==
    /\ pc[d] = "tid"
    /\ impl' = [impl EXCEPT !.tid = d]
    /\ Goto(d, "siginfo")
    /\ UNCHANGED <<filter, access, lock, locals, kids, dumps, toggles>>

SetSignalInfo(d) ==
    /\ pc[d] = "siginfo"
    /\ impl' = [impl EXCEPT !.siginfo = FromSignal(d)]
    /\ Goto(d, "context")
    /\ UNCHANGED <<filter, access, lock, locals, kids, dumps, toggles>>

\* Without the filter the context of an earlier dump stays where it is.
SetContext(d) ==
    /\ pc[d] = "context"
    /\ impl' = IF filter THEN [impl EXCEPT !.context = FromSignal(d)] ELSE impl
    /\ wanted' = [wanted EXCEPT ![d] = filter]
    /\ Goto(d, "name")
    /\ UNCHANGED <<filter, access, lock, name, ori, mine, kids, dumps, toggles>>

\* tid = impl->getTid(), for the file name.
MakeName(d) ==
    /\ pc[d] = "name"
    /\ name' = [name EXCEPT ![d] = impl.tid]
    /\ Goto(d, "getdumpable")
    /\ UNCHANGED <<object, lock, wanted, ori, mine, kids, dumps, toggles>>

GetDumpable(d) ==
    /\ pc[d] = "getdumpable"
    /\ ori' = [ori EXCEPT ![d] = dumpable]
    /\ Goto(d, "setdumpable")
    /\ UNCHANGED <<object, lock, name, wanted, mine, kids, dumps, toggles>>

SetDumpable(d) ==
    /\ pc[d] = "setdumpable"
    /\ dumpable' = TRUE
    /\ Goto(d, "setptracer")
    /\ UNCHANGED <<impl, filter, ptracer, lock, locals, kids, dumps, toggles>>

\* Where Yama is absent the call fails, and any tracer is accepted anyway.
SetPtracer(d) ==
    /\ pc[d] = "setptracer"
    /\ ptracer' = TRUE
    /\ Goto(d, "fork")
    /\ UNCHANGED <<impl, filter, dumpable, lock, locals, kids, dumps, toggles>>

\* fork() copies the object; when it fails the parent waits all the same.
Fork(d) ==
    /\ pc[d] = "fork"
    /\ \/ LET k == AppKids + forks + 1 IN
             /\ forks' = forks + 1
             /\ kid' = [kid EXCEPT ![k] = "running"]
             /\ snap' = [snap EXCEPT ![k] = impl]
             /\ mine' = [mine EXCEPT ![d] = k]
             /\ UNCHANGED interrupts
       \/ /\ mine' = [mine EXCEPT ![d] = 0]
          /\ UNCHANGED kids
    /\ Goto(d, "wait")
    /\ UNCHANGED <<object, lock, name, wanted, ori, dumps, toggles>>

KidExit(k) ==
    /\ kid[k] = "running"
    /\ kid' = [kid EXCEPT ![k] = "zombie"]
    /\ UNCHANGED <<object, lock, pc, locals, snap, forks, interrupts, dumps, toggles>>

\* wait(&status): the exit of any child will do, or ECHILD.  What it returns is
\* not looked at, so that EINTR, from a handler of the application that was set
\* without SA_RESTART, ends it too.
Zombies   == {k \in Kid : kid[k] = "zombie"}
\* Faulty: WNOHANG.
FaultyChildless == Zombies = {}
Childless == \A k \in Kid : kid[k] \notin {"running", "zombie"}

Wait(d) ==
    /\ pc[d] = "wait"
    /\ \/ (\E k \in Zombies : kid' = [kid EXCEPT ![k] = "reaped"]) /\ UNCHANGED interrupts
       \/ Childless /\ UNCHANGED <<kid, interrupts>>
       \/ interrupts < MaxInterrupts /\ interrupts' = interrupts + 1 /\ UNCHANGED kid
    /\ Goto(d, "restore")
    /\ UNCHANGED <<object, lock, locals, snap, forks, dumps, toggles>>

\* Faulty: the value to restore is that of PR_SET_DUMPABLE.
FaultyOriginal(d) == TRUE
Original(d) == ori[d]

RestoreDumpable(d) ==
    /\ pc[d] = "restore"
    /\ dumpable' = Original(d)
    /\ Goto(d, "resetptracer")
    /\ UNCHANGED <<impl, filter, ptracer, lock, locals, kids, dumps, toggles>>

ResetPtracer(d) ==
    /\ pc[d] = "resetptracer"
    /\ ptracer' = FALSE
    /\ Goto(d, "callback")
    /\ UNCHANGED <<impl, filter, dumpable, lock, locals, kids, dumps, toggles>>

\* Faulty: the lock guard outlives the dump.
FaultyReleased(d) == lock
Released(d) == IF d \in Crasher THEN None ELSE lock

\* The callback, whatever became of the dump, then back to the caller.
AfterDump(d) ==
    /\ pc[d] = "callback"
    /\ lock' = Released(d)
    /\ Goto(d, "idle")
    /\ UNCHANGED <<object, locals, kids, dumps, toggles>>

SetFilter ==
    /\ toggles < MaxToggles
    /\ toggles' = toggles + 1 /\ filter' = ~filter
    /\ UNCHANGED <<impl, access, lock, pc, locals, kids, dumps>>

DumpStep(d) ==
    \/ HandleLock(d) \/ SetTid(d) \/ SetSignalInfo(d) \/ SetContext(d)
    \/ MakeName(d) \/ GetDumpable(d) \/ SetDumpable(d) \/ SetPtracer(d)
    \/ Fork(d) \/ Wait(d)
    \/ RestoreDumpable(d) \/ ResetPtracer(d) \/ AfterDump(d)

Next ==
    \/ \E d \in Dumper : Begin(d) \/ DumpStep(d)
    \/ \E k \in Kid : KidExit(k)
    \/ SetFilter

\* Threads are scheduled, and a dumping child ends; the application's own
\* children need not.
Fairness ==
    /\ \A d \in Dumper : WF_vars(DumpStep(d))
    /\ \A k \in Kid : k > AppKids => WF_vars(KidExit(k))

Spec == Init /\ [][Next]_vars /\ Fairness

---------------------------------------------------------------------------
Labels == {"idle", "lock", "tid", "siginfo", "context", "name", "getdumpable",
           "setdumpable", "setptracer", "fork", "wait", "restore",
           "resetptracer", "callback"}

TypeOK ==
    /\ impl \in [tid : Dumper \cup {None}, siginfo : Crasher \cup {None},
                 context : Crasher \cup {None}]
    /\ filter \in BOOLEAN /\ dumpable \in BOOLEAN /\ ptracer \in BOOLEAN
    /\ lock \in Crasher \cup {None}
    /\ pc \in [Dumper -> Labels]
    /\ name \in [Dumper -> Dumper \cup {None}]
    /\ wanted \in [Dumper -> BOOLEAN] /\ ori \in [Dumper -> BOOLEAN]
    /\ mine \in [Dumper -> Kid \cup {0}]
    /\ kid \in [Kid -> {"none", "running", "zombie", "reaped"}]
    /\ snap \in [Kid -> [tid : Dumper \cup {None}, siginfo : Crasher \cup {None},
                         context : Crasher \cup {None}]]
    /\ interrupts \in 0..MaxInterrupts
    /\ forks \in 0..dumps /\ dumps \in 0..MaxDumps /\ toggles \in 0..MaxToggles

\* Crashes that take turns under g_handle_lock each get a child that works for
\* them: its copy of the object has the thread, the siginfo and, with the
\* filter on, the registers of this crash, and the file is named after it.
OwnSnapshot ==
    \A d \in Dumper :
        pc[d] \in {"wait", "restore", "resetptracer", "callback"} /\ mine[d] # 0 =>
            /\ snap[mine[d]].tid = d /\ name[d] = d
            /\ snap[mine[d]].siginfo = FromSignal(d)
            /\ wanted[d] => snap[mine[d]].context = FromSignal(d)

\* Between dumps the process is as undumpable as it was before the first.
DumpableRestored ==
    (\A d \in Dumper : pc[d] \in {"idle", "lock", "callback"}) => ~dumpable

\* Every wait() so far has ended with a dump's child, or for want of any child.
Undisturbed == interrupts = 0 /\ \A k \in 1..AppKids : kid[k] # "reaped"

\* The child of a crash can attach: from its fork until it has exited the
\* process is dumpable and accepts any tracer, as long as no wait() has taken a
\* child of the application in its place, or was interrupted.
Attachable ==
    \A d \in Dumper :
        mine[d] # 0 /\ kid[mine[d]] = "running" /\ Undisturbed => dumpable /\ ptracer

\* "Wait (child) coredump": the child this dump has forked, and has announced
\* it is waiting for, is over when the dump calls back.
WaitsOwnChild ==
    \A d \in Dumper :
        pc[d] \in {"restore", "resetptracer", "callback"} /\ mine[d] # 0 =>
            kid[mine[d]] \in {"zombie", "reaped"}

\* Crashes that take turns do wait for their own child, and have reaped it when
\* they call back, until a child of the application or a signal ends a wait().
OwnChildReaped ==
    Undisturbed =>
        \A d \in Dumper :
            pc[d] \in {"restore", "resetptracer", "callback"} /\ mine[d] # 0 =>
                kid[mine[d]] = "reaped"

\* Dumps may take each other's child, but every wait() accounts for one: of the
\* children they have forked no more are left, running or a zombie, than there
\* are threads in wait(), children of the application that a wait() has taken
\* instead, and interrupted waits.
ChildrenAccounted ==
    Cardinality({k \in Kid : k > AppKids /\ kid[k] \in {"running", "zombie"}}) <=
        Cardinality({d \in Dumper : pc[d] = "wait"})
            + Cardinality({k \in 1..AppKids : kid[k] = "reaped"}) + interrupts

\* Some wait() has nothing left to wait for but a child of the application,
\* since fork failed or its own child was reaped by another dump.
HeldByApplication ==
    /\ \E d \in Dumper : pc[d] = "wait"
    /\ \E k \in 1..AppKids : kid[k] = "running"
    /\ \A k \in Kid : k > AppKids => kid[k] \notin {"running", "zombie"}

\* Every dump comes back, to the handler's raise or to the caller, however the
\* exits are distributed and even when fork fails; only a child of the
\* application that does not end can hold it.
DumpReturns ==
    \A d \in Dumper : pc[d] # "idle" ~> pc[d] = "idle" \/ HeldByApplication
===========================================================================
