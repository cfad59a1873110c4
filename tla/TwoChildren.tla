----------------------------- MODULE TwoChildren -----------------------------
(***************************************************************************)
(* DumpSession and StopTheWorld together: a crash and a requested dump, or *)
(* more of them, each with a child that wants to trace every thread of the *)
(* process.  A thread has one tracer, the dumping threads are tracees like *)
(* the others, and a dump that ends takes away what the next one needs to  *)
(* attach.                                                                 *)
(*                                                                         *)
(* The threads are all there from the beginning and each child visits them *)
(* in some order.  StopTheWorld has the directory, spawns and exits, other *)
(* signals, and the child that is stuck in its handler; DumpSession has    *)
(* the steps around the fork and the forks that fail.                      *)
(***************************************************************************)
CONSTANTS
    Tid,
    Dumper,     \* the threads that dump; each child is known by its dumper
    None

ASSUME ThreadAssumption == Dumper \subseteq Tid /\ None \notin Tid

VARIABLES
    task,       \* "running", or "stopped" in a ptrace stop
    tracer,     \* of each thread
    sigstop,    \* threads with the SIGSTOP of an attach not discarded yet
    frozen,     \* such a SIGSTOP took effect on the whole process
    permit,     \* PR_SET_DUMPABLE and PR_SET_PTRACER let a child attach
    dump,       \* of each dumper: where it is in Dump
    pc,
    cur,        \* the argument of StopTheThread, while it runs
    rest,       \* threads each child has not come to
    attached, refused,  \* its `threads`, by the value of attached
    alarm       \* "armed", "window" if SIGALRM has met the child between an
                \* attach and its stop, or "spent"

process == <<task, tracer, sigstop, frozen>>
lists   == <<rest, attached, refused>>
child   == <<pc, cur, lists, alarm>>
vars    == <<process, permit, dump, child>>

Init ==
    /\ task = [t \in Tid |-> "running"] /\ tracer = [t \in Tid |-> None]
    /\ sigstop = {} /\ frozen = FALSE /\ permit = FALSE
    /\ dump = [d \in Dumper |-> "before"]
    /\ pc = [d \in Dumper |-> "none"] /\ cur = [d \in Dumper |-> None]
    /\ rest = [d \in Dumper |-> Tid]
    /\ attached = [d \in Dumper |-> {}] /\ refused = [d \in Dumper |-> {}]
    /\ alarm = [d \in Dumper |-> "armed"]

Runs(t) == task[t] = "running" /\ ~frozen
Goto(d, l) == pc' = [pc EXCEPT ![d] = l]

---------------------------------------------------------------------------
(* The dumping thread, which cannot do anything while it is a tracee. *)

Fork(d) ==
    /\ dump[d] = "before" /\ Runs(d)
    /\ dump' = [dump EXCEPT ![d] = "wait"] /\ permit' = TRUE
    /\ Goto(d, "scan")
    /\ UNCHANGED <<process, cur, lists, alarm>>

\* wait() takes any child that has exited; what was there before is restored,
\* which may or may not keep other children from attaching.
Wait(d) ==
    /\ dump[d] = "wait" /\ Runs(d)
    /\ \E k \in Dumper : pc[k] = "zombie" /\ Goto(k, "reaped")
    /\ dump' = [dump EXCEPT ![d] = "back"]
    /\ permit' \in {permit, FALSE}
    /\ UNCHANGED <<process, cur, lists, alarm>>

---------------------------------------------------------------------------
(* The kernel. *)

StopReport(t) ==
    /\ tracer[t] # None /\ t \in sigstop /\ task[t] = "running"
    /\ task' = [task EXCEPT ![t] = "stopped"]
    /\ UNCHANGED <<tracer, sigstop, frozen, permit, dump, child>>

FreezeGroup(t) ==
    /\ tracer[t] = None /\ t \in sigstop
    /\ frozen' = TRUE /\ sigstop' = sigstop \ {t}
    /\ UNCHANGED <<task, tracer, permit, dump, child>>

---------------------------------------------------------------------------
(* The child. *)

Visit(d, t) == pc[d] = "scan" /\ t \in rest[d] /\ rest' = [rest EXCEPT ![d] = @ \ {t}]

\* A SIGSTOP that another child has left pending is the same SIGSTOP.
Attach(d, t) ==
    /\ Visit(d, t) /\ permit /\ tracer[t] = None
    /\ tracer' = [tracer EXCEPT ![t] = d] /\ sigstop' = sigstop \cup {t}
    /\ cur' = [cur EXCEPT ![d] = t] /\ Goto(d, "record")
    /\ UNCHANGED <<task, frozen, permit, dump, attached, refused, alarm>>

AttachRefused(d, t) ==
    /\ Visit(d, t) /\ ~(permit /\ tracer[t] = None)
    /\ refused' = [refused EXCEPT ![d] = @ \cup {t}]
    /\ UNCHANGED <<process, permit, dump, pc, cur, attached, alarm>>

RecordThread(d) ==
    /\ pc[d] = "record"
    /\ attached' = [attached EXCEPT ![d] = @ \cup {cur[d]}]
    /\ Goto(d, "waitpid")
    /\ UNCHANGED <<process, permit, dump, cur, rest, refused, alarm>>

\* Faulty: nobody waits for the stop.
FaultyReported(t) == TRUE
Reported(t) == task[t] = "stopped"

WaitPid(d) ==
    /\ pc[d] = "waitpid" /\ Reported(cur[d])
    /\ Goto(d, "scan") /\ cur' = [cur EXCEPT ![d] = None]
    /\ UNCHANGED <<process, permit, dump, lists, alarm>>

BeginDump(d) ==
    /\ pc[d] = "scan" /\ rest[d] = {}
    /\ Goto(d, "dump")
    /\ UNCHANGED <<process, permit, dump, cur, lists, alarm>>

EndDump(d) ==
    /\ pc[d] = "dump"
    /\ Goto(d, "detach")
    /\ UNCHANGED <<process, permit, dump, cur, lists, alarm>>

\* DETACH fails for a thread that is not, or no longer, this child's, and for
\* one that has not stopped yet.
Detach(d, t) ==
    /\ pc[d] = "detach" /\ t \in attached[d] \cup refused[d]
    /\ attached' = [attached EXCEPT ![d] = @ \ {t}]
    /\ refused' = [refused EXCEPT ![d] = @ \ {t}]
    /\ IF tracer[t] = d /\ task[t] = "stopped"
       THEN /\ task' = [task EXCEPT ![t] = "running"]
            /\ tracer' = [tracer EXCEPT ![t] = None]
            /\ sigstop' = sigstop \ {t}
       ELSE UNCHANGED <<task, tracer, sigstop>>
    /\ UNCHANGED <<frozen, permit, dump, pc, cur, rest, alarm>>

Mine(d) == {t \in Tid : tracer[t] = d}

\* _exit.  A stop that was not ended by a DETACH ends with its signal delivered.
Exit(d) ==
    /\ pc[d] = "detach" /\ attached[d] \cup refused[d] = {}
    /\ tracer' = [t \in Tid |-> IF t \in Mine(d) THEN None ELSE tracer[t]]
    /\ task' = [t \in Tid |-> IF t \in Mine(d) THEN "running" ELSE task[t]]
    /\ frozen' = (frozen \/ \E t \in Mine(d) : task[t] = "stopped")
    /\ Goto(d, "zombie")
    /\ UNCHANGED <<sigstop, permit, dump, cur, lists, alarm>>

\* Faulty: SIGALRM is masked while the child waits for a stop.
FaultyAlarmed == {"scan", "record", "dump", "detach"}
Alarmed == {"scan", "record", "waitpid", "dump", "detach"}

TimeoutHandle(d) ==
    /\ alarm[d] = "armed" /\ pc[d] \in Alarmed
    /\ alarm' = [alarm EXCEPT ![d] = IF pc[d] \in {"record", "waitpid"} THEN "window" ELSE "spent"]
    /\ Goto(d, "detach") /\ cur' = [cur EXCEPT ![d] = None]
    /\ UNCHANGED <<process, permit, dump, lists>>

---------------------------------------------------------------------------
ChildStep(d) ==
    \/ \E t \in Tid : Attach(d, t) \/ AttachRefused(d, t) \/ Detach(d, t)
    \/ RecordThread(d) \/ WaitPid(d) \/ BeginDump(d) \/ EndDump(d) \/ Exit(d)

Next ==
    \/ \E d \in Dumper : Fork(d) \/ Wait(d) \/ ChildStep(d) \/ TimeoutHandle(d)
    \/ \E t \in Tid : StopReport(t) \/ FreezeGroup(t)

\* As in StopTheWorld; no tracee need stop.
Fairness ==
    \A d \in Dumper : WF_vars(ChildStep(d)) /\ WF_vars(TimeoutHandle(d)) /\ WF_vars(Wait(d))

Spec == Init /\ [][Next]_vars /\ Fairness

---------------------------------------------------------------------------
Over(d) == pc[d] \in {"detach", "zombie", "reaped"}

\* A core of a process that is being dumped twice: while a child writes, a thread
\* may run only if another child had it, which has come to its Finish since or is
\* still waiting for it to stop.  Two children that write at the same time see no
\* thread run.
StillUnlessReleased ==
    \A d \in Dumper, t \in Tid :
        pc[d] = "dump" /\ Runs(t) =>
            /\ t \in refused[d]
            /\ \E k \in Dumper \ {d} :
                  Over(k) \/ (tracer[t] = k /\ cur[k] = t /\ pc[k] \in {"record", "waitpid"})

\* Whatever they do to each other's tracees, the children leave the process
\* frozen only if SIGALRM met one of them between an attach and its stop.
FrozenByAlarm ==
    frozen => \E d \in Dumper : alarm[d] = "window"

\* Every dump comes back although the others stop its thread, unless the process
\* is frozen for good.
DumpsReturn == \A d \in Dumper : dump[d] = "wait" ~> dump[d] = "back" \/ frozen
=============================================================================
