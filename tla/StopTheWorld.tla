--------------------------- MODULE StopTheWorld ---------------------------
(***************************************************************************)
(* The dumping child of Opencore::Coredump against the process it dumps:   *)
(* StopTheWorld walks /proc/<pid>/task and PTRACE_ATTACHes every entry,    *)
(* the core is written, Continue detaches, and SIGALRM may cut the whole   *)
(* thing short at any instruction (TimeoutHandle).                         *)
(*                                                                         *)
(* The target's threads go on running, spawning and exiting until they     *)
(* are stopped.  What the kernel does (readdir, ptrace, signal delivery)   *)
(* is modelled from how the code uses it.                                  *)
(***************************************************************************)
EXTENDS Integers, FiniteSets, Sequences

CONSTANTS
    Tid,        \* every thread the dumped process may ever have
    First,      \* the threads alive when the child is forked
    Dumper,     \* the thread that called Coredump: it sits in wait()
    Top,        \* getTid(), the thread asked to come first in the core
    Signalled,  \* threads that some other signal may hit during the attach
    NoTid

ASSUME ThreadAssumption ==
    /\ IsFiniteSet(Tid)
    /\ First \subseteq Tid
    /\ Dumper \in First
    /\ Signalled \subseteq Tid
    /\ NoTid \notin Tid

VARIABLES
    \* the dumped process, as the kernel keeps it
    task,       \* life of each thread; "stopped" is a ptrace stop
    traced,     \* threads the child is attached to
    sigstop,    \* threads whose SIGSTOP from PTRACE_ATTACH is not discarded yet
    held,       \* threads whose attach stop was reported for another signal
    frozen,     \* a SIGSTOP took effect: the whole process is group-stopped
    waiting,    \* Coredump is still in wait(&status)
    \* the child
    pc, cur, dirents, listed, opened,
    threads,    \* std::vector<ThreadRecord>
    idx,        \* the loop index of Continue, from 1
    alarm       \* "armed", or the label at which SIGALRM arrived

target == <<task, traced, sigstop, held, frozen, waiting>>
child  == <<pc, cur, dirents, listed, opened, threads, idx, alarm>>
vars   == <<target, child>>

ScanLabels == {"opendir", "readdir", "attach", "record", "wait"}
Labels     == ScanLabels \cup {"open", "dump", "detach", "exit", "exited", "stuck"}
Record     == [pid : Tid, attached : BOOLEAN]

Live  == {t \in Tid : task[t] \in {"running", "stopped"}}
Runs(t) == task[t] = "running" /\ ~frozen

Init ==
    /\ task = [t \in Tid |-> IF t \in First THEN "running" ELSE "unborn"]
    /\ traced = {} /\ sigstop = {} /\ held = {}
    /\ frozen = FALSE /\ waiting = TRUE
    /\ pc = "open" /\ cur = NoTid /\ dirents = {} /\ listed = {}
    /\ opened = FALSE /\ threads = <<>> /\ idx = 1 /\ alarm = "armed"

---------------------------------------------------------------------------
(* The threads of the dumped process, and the kernel.                      *)

Spawn(p, t) ==
    /\ Runs(p) /\ p # Dumper
    /\ task[t] = "unborn"
    /\ task' = [task EXCEPT ![t] = "running"]
    /\ UNCHANGED <<traced, sigstop, held, frozen, waiting, child>>

\* A traced thread that dies stays traced (a zombie) until it is waited for.
Exit(t) ==
    /\ Runs(t) /\ t # Dumper
    /\ task' = [task EXCEPT ![t] = "exited"]
    /\ sigstop' = sigstop \ {t}
    /\ UNCHANGED <<traced, held, frozen, waiting, child>>

\* The attach SIGSTOP reaches a tracee, which stops and reports it.
StopReport(t) ==
    /\ t \in traced /\ t \in sigstop /\ task[t] = "running"
    /\ task' = [task EXCEPT ![t] = "stopped"]
    /\ UNCHANGED <<traced, sigstop, held, frozen, waiting, child>>

\* A signal that was pending first is dequeued first: the tracee stops and
\* reports that one, its SIGSTOP still pending behind it.
OtherStop(t) ==
    /\ t \in Signalled \cap traced /\ task[t] = "running"
    /\ task' = [task EXCEPT ![t] = "stopped"]
    /\ held' = held \cup {t}
    /\ UNCHANGED <<traced, sigstop, frozen, waiting, child>>

\* A SIGSTOP left over on a thread nobody traces stops the thread group.
FreezeGroup(t) ==
    /\ t \in sigstop \ traced /\ task[t] = "running"
    /\ frozen' = TRUE
    /\ sigstop' = sigstop \ {t}
    /\ UNCHANGED <<task, traced, held, waiting, child>>

---------------------------------------------------------------------------
(* DoCoredump in the child.                                                *)

\* fopen(filename): without a file DoCoredump returns, the world untouched.
OpenFile ==
    /\ pc = "open"
    /\ pc' \in {"opendir", "detach"}
    /\ UNCHANGED <<target, cur, dirents, listed, opened, threads, idx, alarm>>

\* opendir("/proc/<pid>/task"): if it fails the core is written all the same.
OpenDir ==
    /\ pc = "opendir"
    /\ \/ opened' = TRUE /\ pc' = "readdir"
       \/ opened' = FALSE /\ pc' = "dump"
    /\ UNCHANGED <<target, cur, dirents, listed, threads, idx, alarm>>

\* The kernel fills readdir's buffer with some entries not returned before.
GetDents ==
    /\ pc = "readdir" /\ dirents = {}
    /\ \E batch \in SUBSET (Live \ listed) :
          batch # {} /\ dirents' = batch /\ listed' = listed \cup batch
    /\ UNCHANGED <<target, pc, cur, opened, threads, idx, alarm>>

\* The position in the task directory is a count: the kernel reports its end
\* as soon as that count reaches the number of threads alive.
EndOfDir(pos) == Cardinality(Live) <= pos

EndDir ==
    /\ pc = "readdir" /\ dirents = {}
    /\ EndOfDir(Cardinality(listed))
    /\ pc' = "dump"
    /\ UNCHANGED <<target, cur, dirents, listed, opened, threads, idx, alarm>>

ReadDir ==
    /\ pc = "readdir"
    /\ \E t \in dirents : cur' = t /\ dirents' = dirents \ {t}
    /\ pc' = "attach"
    /\ UNCHANGED <<target, listed, opened, threads, idx, alarm>>

\* PTRACE_ATTACH: done at once, its SIGSTOP is only sent.
Attach ==
    /\ pc = "attach" /\ task[cur] # "exited"
    /\ traced' = traced \cup {cur} /\ sigstop' = sigstop \cup {cur}
    /\ pc' = "record"
    /\ UNCHANGED <<task, held, frozen, waiting,
                   cur, dirents, listed, opened, threads, idx, alarm>>

\* ATTACH fails: the thread is gone, or the kernel refuses this one.
AttachRefused ==
    /\ pc = "attach"
    /\ threads' = Append(threads, [pid |-> cur, attached |-> FALSE])
    /\ pc' = "readdir"
    /\ UNCHANGED <<target, cur, dirents, listed, opened, idx, alarm>>

RecordThread ==
    /\ pc = "record"
    /\ threads' = Append(threads, [pid |-> cur, attached |-> TRUE])
    /\ pc' = "wait"
    /\ UNCHANGED <<target, cur, dirents, listed, opened, idx, alarm>>

\* waitpid(tid, WUNTRACED | __WALL) returns for a stop or for an exit.
\* Faulty: nobody waits.
FaultyReported(t) == TRUE
Reported(t) == task[t] # "running"

WaitPid ==
    /\ pc = "wait" /\ Reported(cur)
    /\ traced' = IF task[cur] = "exited" THEN traced \ {cur} ELSE traced
    /\ pc' = "readdir"
    /\ UNCHANGED <<task, sigstop, held, frozen, waiting,
                   cur, dirents, listed, opened, threads, idx, alarm>>

\* Everything from ParseProcessMapsVma to fclose, with the world as it is.
WriteCore ==
    /\ pc = "dump"
    /\ pc' = "detach"
    /\ UNCHANGED <<target, cur, dirents, listed, opened, threads, idx, alarm>>

---------------------------------------------------------------------------
(* Finish, which is Continue, then _exit.                                  *)

\* PTRACE_DETACH with signal 0 discards the signal the stop was reported for:
\* the SIGSTOP, unless another signal was held back in its place.
\* Faulty: the detach passes received_signal on.
FaultyStillPending(t) == sigstop
StillPending(t) == IF t \in held THEN sigstop ELSE sigstop \ {t}

Detachable(rec) ==
    rec.attached /\ rec.pid \in traced /\ task[rec.pid] = "stopped"

ContinueOne ==
    /\ pc = "detach" /\ idx <= Len(threads)
    /\ LET rec == threads[idx] IN
          IF Detachable(rec)
          THEN /\ task' = [task EXCEPT ![rec.pid] = "running"]
               /\ traced' = traced \ {rec.pid}
               /\ sigstop' = StillPending(rec.pid)
          ELSE UNCHANGED <<task, traced, sigstop>>
    /\ idx' = idx + 1
    /\ UNCHANGED <<held, frozen, waiting,
                   pc, cur, dirents, listed, opened, threads, alarm>>

\* Faulty: the index outlives the vector.
FaultyLoopStart(i) == i
LoopStart(i) == 1

\* maps.clear() frees the file names.  In TimeoutHandle, on top of code that
\* was allocating or freeing itself, the heap's lock may be taken for ever.
HeapInterrupted == alarm \in {"dump", "detach"}

ContinueClear ==
    /\ pc = "detach" /\ idx > Len(threads)
    /\ threads' = <<>> /\ idx' = LoopStart(idx)
    /\ pc' = "exit" \/ (HeapInterrupted /\ pc' = "stuck")
    /\ UNCHANGED <<target, cur, dirents, listed, opened, alarm>>

\* _exit: the kernel detaches what is left, and the signal each of those
\* threads was stopped for, or still has pending, is delivered.
ChildExit ==
    /\ pc = "exit"
    /\ pc' = "exited"
    /\ traced' = {}
    /\ task' = [t \in Tid |-> IF t \in traced /\ task[t] = "stopped"
                              THEN "running" ELSE task[t]]
    /\ UNCHANGED <<sigstop, held, frozen, waiting,
                   cur, dirents, listed, opened, threads, idx, alarm>>

\* SIGALRM, once, wherever the child is: TimeoutHandle runs Finish anew and
\* exits; what it interrupted is never resumed.
\* Faulty: SIGALRM is masked during waitpid.
FaultyUnalarmed == {"wait", "exited"}
Unalarmed == {"exited"}

TimeoutHandle ==
    /\ alarm = "armed" /\ pc \notin Unalarmed
    /\ alarm' = pc
    /\ pc' = "detach" /\ idx' = 1
    /\ UNCHANGED <<target, cur, dirents, listed, opened, threads>>

\* The parent's wait(&status), which only a running thread can return from.
CoredumpWait ==
    /\ waiting /\ pc = "exited" /\ Runs(Dumper)
    /\ waiting' = FALSE
    /\ UNCHANGED <<task, traced, sigstop, held, frozen, child>>

---------------------------------------------------------------------------
ChildStep ==
    \/ OpenFile \/ OpenDir \/ GetDents \/ EndDir \/ ReadDir
    \/ Attach \/ AttachRefused \/ RecordThread \/ WaitPid \/ WriteCore
    \/ ContinueOne \/ ContinueClear \/ ChildExit

ThreadStep ==
    \/ \E p, t \in Tid : Spawn(p, t)
    \/ \E t \in Tid : Exit(t) \/ StopReport(t) \/ OtherStop(t) \/ FreezeGroup(t)

Next == ChildStep \/ TimeoutHandle \/ CoredumpWait \/ ThreadStep

\* The scheduler runs the child and the waiting parent, and the timer expires.
\* Nothing obliges a tracee to stop: it may sit in an uninterruptible wait.
Fairness == WF_vars(ChildStep) /\ WF_vars(TimeoutHandle) /\ WF_vars(CoredumpWait)

Spec == Init /\ [][Next]_vars /\ Fairness

---------------------------------------------------------------------------
(* CreateCorePrStatus: which slot of the prstatus array each record takes. *)

\* `cur` counts the threads other than the top one seen so far, from 1.
\* Faulty: from 0.
FaultyCounter(recs, i) ==
    Cardinality({j \in 1..(i - 1) : recs[j].pid # Top})
Counter(recs, i) ==
    1 + Cardinality({j \in 1..(i - 1) : recs[j].pid # Top})

Slot(recs, i) ==
    IF recs[i].pid = Top \/ Counter(recs, i) >= Len(recs)
    THEN 0 ELSE Counter(recs, i)

---------------------------------------------------------------------------
TypeOK ==
    /\ task \in [Tid -> {"unborn", "running", "stopped", "exited"}]
    /\ traced \subseteq Tid /\ sigstop \subseteq Tid /\ held \subseteq Tid
    /\ frozen \in BOOLEAN /\ waiting \in BOOLEAN /\ opened \in BOOLEAN
    /\ pc \in Labels /\ cur \in Tid \cup {NoTid}
    /\ pc \in {"attach", "record", "wait"} => cur \in Tid
    /\ dirents \subseteq Tid /\ listed \subseteq Tid
    /\ threads \in Seq(Record)
    /\ idx \in 1..(Len(threads) + 1)
    /\ alarm \in Labels \cup {"armed"}

AllAttached == \A i \in 1..Len(threads) : threads[i].attached

\* While the core is written every thread that was attached is in a ptrace
\* stop, and a live thread without a record exists only if some attach was
\* refused or one that readdir had already returned exited before it could be
\* stopped: the scan catches up with threads spawned behind it, and is cheated
\* only by exits, which move the end of the directory below the position
\* readdir has reached.
WorldStopped ==
    pc = "dump" /\ opened =>
        /\ \A i \in 1..Len(threads) :
              threads[i].attached /\ threads[i].pid \in Live =>
                  threads[i].pid \in traced /\ task[threads[i].pid] = "stopped"
        /\ listed \subseteq Live /\ AllAttached =>
              \A t \in Live : \E i \in 1..Len(threads) : threads[i].pid = t

\* The dumped process is left in a group stop only if SIGALRM arrived between
\* PTRACE_ATTACH and the end of its waitpid, or another signal was reported in
\* place of the attach SIGSTOP (received_signal is computed and thrown away).
FreezeWindow ==
    frozen => alarm \in {"record", "wait"} \/ held # {}

\* Each recorded thread has a prstatus of its own and the top thread has the
\* first one; when the top thread is not among them the last thread takes it.
PrStatusBijective ==
    pc = "dump" =>
        /\ \A i, j \in 1..Len(threads) :
              Slot(threads, i) = Slot(threads, j) => i = j
        /\ \A i \in 1..Len(threads) :
              /\ Slot(threads, i) < Len(threads)
              /\ threads[i].pid = Top => Slot(threads, i) = 0

\* However the tracees behave, Coredump returns to its caller: a waitpid that
\* never returns and a write that is too slow are both cut short by the alarm.
\* Or the child has exited and the caller has been frozen with the rest of the
\* process by an attach SIGSTOP that was never discarded.  Or an alarm that has
\* interrupted the heap has left the child in TimeoutHandle, all of whose tracees
\* run again.
DumpBounded ==
    <>( \/ ~waiting
        \/ pc = "exited" /\ frozen
        \/ pc = "stuck" /\ HeapInterrupted /\ \A t \in Tid : task[t] # "stopped" )
===========================================================================
