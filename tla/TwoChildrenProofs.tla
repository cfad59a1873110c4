------------------------- MODULE TwoChildrenProofs -------------------------
(***************************************************************************)
(* What several children that trace one process leave of each other's      *)
(* dumps, for any number of threads and dumpers.                           *)
(***************************************************************************)
EXTENDS TwoChildren, TLAPS

---------------------------------------------------------------------------
(* The inductive invariant. *)

Label == {"none", "scan", "record", "waitpid", "dump", "detach", "zombie", "reaped"}

TypeInv ==
    /\ task \in [Tid -> {"running", "stopped"}]
    /\ tracer \in [Tid -> Dumper \cup {None}]
    /\ sigstop \subseteq Tid /\ frozen \in BOOLEAN /\ permit \in BOOLEAN
    /\ dump \in [Dumper -> {"before", "wait", "back"}]
    /\ pc \in [Dumper -> Label]
    /\ cur \in [Dumper -> Tid \cup {None}]
    /\ rest \in [Dumper -> SUBSET Tid]
    /\ attached \in [Dumper -> SUBSET Tid]
    /\ refused \in [Dumper -> SUBSET Tid]
    /\ alarm \in [Dumper -> {"armed", "window", "spent"}]

Acquiring(d, t) == cur[d] = t /\ pc[d] \in {"record", "waitpid"}

\* A tracee is one the child has stopped and knows, or the one it is at: until
\* SIGALRM meets it there.
HoldInv ==
    \A d \in Dumper :
        /\ alarm[d] = "window" => Over(d)
        /\ \A t \in Tid :
              tracer[t] = d /\ alarm[d] # "window" =>
                  Acquiring(d, t) \/ (t \in attached[d] /\ task[t] = "stopped")
        /\ \A t \in Tid : Acquiring(d, t) => tracer[t] = d
        /\ pc[d] \in {"record", "waitpid"} => cur[d] \in Tid
        /\ pc[d] = "waitpid" => cur[d] \in attached[d]

Window == \E d \in Dumper : alarm[d] = "window"

\* A SIGSTOP that nobody waits for is one of that alarm.
SigstopInv ==
    /\ \A t \in sigstop : tracer[t] # None \/ Window
    /\ frozen => Window

\* Each child comes to each thread once, and before its Finish lets go of none.
ScanInv ==
    \A d \in Dumper :
        /\ \A t \in rest[d] : tracer[t] # d
        /\ pc[d] = "dump" => rest[d] = {}
        /\ ~Over(d) =>
              /\ \A t \in attached[d] : tracer[t] = d
              /\ \A t \in Tid : t \in rest[d] \cup attached[d] \cup refused[d]
                                \/ (pc[d] = "record" /\ cur[d] = t)

\* PR_SET_DUMPABLE is taken back by the parent of a child that is gone.
PermitInv ==
    /\ \A d \in Dumper : dump[d] = "before" => pc[d] = "none"
    /\ (\E d \in Dumper : pc[d] # "none") /\ ~permit => \E k \in Dumper : pc[k] = "reaped"

\* A thread is refused to a child because another one has it, or has ended.
RefusedInv ==
    \A d \in Dumper : ~Over(d) =>
        \A t \in refused[d] : \E k \in Dumper \ {d} : Over(k) \/ tracer[t] = k

IInv == TypeInv /\ HoldInv /\ SigstopInv /\ ScanInv /\ PermitInv /\ RefusedInv

---------------------------------------------------------------------------
(* It holds from the beginning, and each part in each step. *)

LEMMA Beginning == Init => IInv
<1> SUFFICES ASSUME Init PROVE IInv
  OBVIOUS
<1>1. TypeInv
  BY ThreadAssumption DEF Init, TypeInv, Label
<1>2. HoldInv
  BY ThreadAssumption DEF Init, HoldInv, Acquiring, Over
<1>3. SigstopInv /\ PermitInv
  BY DEF Init, SigstopInv, PermitInv
<1>4. ScanInv /\ RefusedInv
  BY ThreadAssumption DEF Init, ScanInv, RefusedInv, Over
<1> QED
  BY <1>1, <1>2, <1>3, <1>4 DEF IInv

LEMMA TypeStep == TypeInv /\ HoldInv /\ [Next]_vars => TypeInv'
<1> SUFFICES ASSUME TypeInv, HoldInv, [Next]_vars PROVE TypeInv'
  OBVIOUS
<1> USE ThreadAssumption DEF TypeInv, Label
<1>1. ASSUME NEW d \in Dumper, Fork(d) PROVE TypeInv'
  BY <1>1 DEF Fork, Goto, process, lists
<1>2. ASSUME NEW d \in Dumper, Wait(d) PROVE TypeInv'
  BY <1>2 DEF Wait, Goto, process, lists
<1>3. ASSUME NEW d \in Dumper, NEW t \in Tid, Attach(d, t) PROVE TypeInv'
  BY <1>3 DEF Attach, Visit, Goto
<1>4. ASSUME NEW d \in Dumper, NEW t \in Tid, AttachRefused(d, t) PROVE TypeInv'
  BY <1>4 DEF AttachRefused, Visit, process
<1>5. ASSUME NEW d \in Dumper, NEW t \in Tid, Detach(d, t) PROVE TypeInv'
  BY <1>5 DEF Detach
<1>6. ASSUME NEW d \in Dumper, RecordThread(d) PROVE TypeInv'
  <2> attached[d] \cup {cur[d]} \in SUBSET Tid
    BY <1>6 DEF RecordThread, HoldInv
  <2> QED BY <1>6 DEF RecordThread, Goto, process
<1>7. ASSUME NEW d \in Dumper, WaitPid(d) PROVE TypeInv'
  BY <1>7 DEF WaitPid, Goto, process, lists
<1>8. ASSUME NEW d \in Dumper, BeginDump(d) \/ EndDump(d) PROVE TypeInv'
  BY <1>8 DEF BeginDump, EndDump, Goto, process, lists
<1>9. ASSUME NEW d \in Dumper, Exit(d) PROVE TypeInv'
  BY <1>9 DEF Exit, Mine, Goto, lists
<1>10. ASSUME NEW d \in Dumper, TimeoutHandle(d) PROVE TypeInv'
  BY <1>10 DEF TimeoutHandle, Goto, process, lists
<1>11. ASSUME NEW t \in Tid, StopReport(t) \/ FreezeGroup(t) PROVE TypeInv'
  BY <1>11 DEF StopReport, FreezeGroup, child, lists
<1>12. CASE UNCHANGED vars
  BY <1>12 DEF vars, process, child, lists
<1> QED
  BY <1>1, <1>2, <1>3, <1>4, <1>5, <1>6, <1>7, <1>8, <1>9, <1>10, <1>11, <1>12
  DEF Next, ChildStep

(* The tracees a child holds: only SIGALRM and its own Finish let go of one. *)
LEMMA HoldStep == TypeInv /\ HoldInv /\ PermitInv /\ [Next]_vars => HoldInv'
<1> SUFFICES ASSUME TypeInv, HoldInv, PermitInv, [Next]_vars PROVE HoldInv'
  OBVIOUS
<1> USE ThreadAssumption DEF TypeInv, Label, HoldInv, Acquiring, Over
<1>1. ASSUME NEW d \in Dumper, Fork(d) PROVE HoldInv'
  BY <1>1 DEF Fork, Goto, process, lists, PermitInv
<1>2. ASSUME NEW d \in Dumper, Wait(d) PROVE HoldInv'
  BY <1>2 DEF Wait, Goto, process, lists
<1>3. ASSUME NEW d \in Dumper, NEW t \in Tid, Attach(d, t) PROVE HoldInv'
  BY <1>3 DEF Attach, Visit, Goto
<1>4. ASSUME NEW d \in Dumper, NEW t \in Tid, AttachRefused(d, t) PROVE HoldInv'
  BY <1>4 DEF AttachRefused, Visit, process
<1>5. ASSUME NEW d \in Dumper, NEW t \in Tid, Detach(d, t) PROVE HoldInv'
  BY <1>5 DEF Detach
<1>6. ASSUME NEW d \in Dumper, RecordThread(d) PROVE HoldInv'
  BY <1>6 DEF RecordThread, Goto, process
<1>7. ASSUME NEW d \in Dumper, WaitPid(d) PROVE HoldInv'
  BY <1>7 DEF WaitPid, Reported, Goto, process, lists
<1>8. ASSUME NEW d \in Dumper, BeginDump(d) \/ EndDump(d) PROVE HoldInv'
  BY <1>8 DEF BeginDump, EndDump, Goto, process, lists
<1>9. ASSUME NEW d \in Dumper, Exit(d) PROVE HoldInv'
  BY <1>9 DEF Exit, Mine, Goto, lists
<1>10. ASSUME NEW d \in Dumper, TimeoutHandle(d) PROVE HoldInv'
  BY <1>10 DEF TimeoutHandle, Alarmed, Goto, process, lists
<1>11. ASSUME NEW t \in Tid, StopReport(t) \/ FreezeGroup(t) PROVE HoldInv'
  BY <1>11 DEF StopReport, FreezeGroup, child, lists
<1>12. CASE UNCHANGED vars
  BY <1>12 DEF vars, process, child, lists
<1> QED
  BY <1>1, <1>2, <1>3, <1>4, <1>5, <1>6, <1>7, <1>8, <1>9, <1>10, <1>11, <1>12
  DEF Next, ChildStep

(* A child that ends with tracees has met SIGALRM. *)
LEMMA ExitWindow ==
  ASSUME TypeInv, HoldInv, NEW d \in Dumper, Exit(d)
  PROVE  Mine(d) # {} => alarm[d] = "window"
BY DEF TypeInv, HoldInv, Acquiring, Exit, Mine

LEMMA WindowStep == TypeInv /\ [Next]_vars /\ Window => Window'
<1> SUFFICES ASSUME TypeInv, [Next]_vars, Window PROVE Window'
  OBVIOUS
<1>1. ASSUME NEW d \in Dumper, TimeoutHandle(d) PROVE Window'
  BY <1>1 DEF TimeoutHandle, TypeInv, Window
<1>2. CASE UNCHANGED alarm
  BY <1>2 DEF Window
<1>3. (\E d \in Dumper : TimeoutHandle(d)) \/ UNCHANGED alarm
  BY DEF Next, ChildStep, Fork, Wait, Attach, AttachRefused, Detach, RecordThread, WaitPid,
         BeginDump, EndDump, Exit, StopReport, FreezeGroup, vars, child
<1> QED BY <1>1, <1>2, <1>3

LEMMA SigstopStep == TypeInv /\ HoldInv /\ SigstopInv /\ [Next]_vars => SigstopInv'
<1> SUFFICES ASSUME TypeInv, HoldInv, SigstopInv, [Next]_vars PROVE SigstopInv'
  OBVIOUS
<1>1. CASE Window
  <2>1. Window'
    BY <1>1, WindowStep
  <2> QED BY <2>1 DEF SigstopInv
<1> SUFFICES ASSUME ~Window PROVE SigstopInv'
  BY <1>1
<1> USE ThreadAssumption DEF TypeInv, SigstopInv
<1>2. ASSUME NEW d \in Dumper, NEW t \in Tid, Attach(d, t) PROVE SigstopInv'
  BY <1>2 DEF Attach
<1>3. ASSUME NEW d \in Dumper, NEW t \in Tid, Detach(d, t) PROVE SigstopInv'
  BY <1>3 DEF Detach
<1>4. ASSUME NEW d \in Dumper, Exit(d) PROVE SigstopInv'
  <2>1. Mine(d) = {}
    BY <1>4, ExitWindow DEF Window
  <2> QED BY <1>4, <2>1 DEF Exit, Mine
<1>5. ASSUME NEW t \in Tid, StopReport(t) \/ FreezeGroup(t) PROVE SigstopInv'
  BY <1>5 DEF StopReport, FreezeGroup
<1>6. CASE UNCHANGED <<tracer, sigstop, frozen>>
  BY <1>6
<1> QED
  BY <1>2, <1>3, <1>4, <1>5, <1>6
  DEF Next, ChildStep, Fork, Wait, AttachRefused, RecordThread, WaitPid, BeginDump,
      EndDump, TimeoutHandle, vars, process
(* The threads of a scan: none is forgotten, and none let go of before Finish. *)
LEMMA ScanStep == TypeInv /\ HoldInv /\ PermitInv /\ ScanInv /\ [Next]_vars => ScanInv'
<1> SUFFICES ASSUME TypeInv, HoldInv, PermitInv, ScanInv, [Next]_vars PROVE ScanInv'
  OBVIOUS
<1> USE ThreadAssumption DEF TypeInv, Label, ScanInv, Over
<1>1. ASSUME NEW d \in Dumper, Fork(d) PROVE ScanInv'
  BY <1>1 DEF Fork, Goto, process, lists, PermitInv
<1>2. ASSUME NEW d \in Dumper, Wait(d) PROVE ScanInv'
  BY <1>2 DEF Wait, Goto, process, lists
<1>3. ASSUME NEW d \in Dumper, NEW t \in Tid, Attach(d, t) PROVE ScanInv'
  BY <1>3 DEF Attach, Visit, Goto
<1>4. ASSUME NEW d \in Dumper, NEW t \in Tid, AttachRefused(d, t) PROVE ScanInv'
  BY <1>4 DEF AttachRefused, Visit, process
<1>5. ASSUME NEW d \in Dumper, NEW t \in Tid, Detach(d, t) PROVE ScanInv'
  BY <1>5 DEF Detach
<1>6. ASSUME NEW d \in Dumper, RecordThread(d) PROVE ScanInv'
  BY <1>6 DEF RecordThread, Goto, process, HoldInv, Acquiring
<1>7. ASSUME NEW d \in Dumper, WaitPid(d) PROVE ScanInv'
  BY <1>7 DEF WaitPid, Goto, process, lists
<1>8. ASSUME NEW d \in Dumper, BeginDump(d) \/ EndDump(d) PROVE ScanInv'
  BY <1>8 DEF BeginDump, EndDump, Goto, process, lists
<1>9. ASSUME NEW d \in Dumper, Exit(d) PROVE ScanInv'
  BY <1>9 DEF Exit, Mine, Goto, lists
<1>10. ASSUME NEW d \in Dumper, TimeoutHandle(d) PROVE ScanInv'
  BY <1>10 DEF TimeoutHandle, Goto, process, lists
<1>11. ASSUME NEW t \in Tid, StopReport(t) \/ FreezeGroup(t) PROVE ScanInv'
  BY <1>11 DEF StopReport, FreezeGroup, child, lists
<1>12. CASE UNCHANGED vars
  BY <1>12 DEF vars, process, child, lists
<1> QED
  BY <1>1, <1>2, <1>3, <1>4, <1>5, <1>6, <1>7, <1>8, <1>9, <1>10, <1>11, <1>12
  DEF Next, ChildStep

LEMMA PermitStep == TypeInv /\ PermitInv /\ [Next]_vars => PermitInv'
<1> SUFFICES ASSUME TypeInv, PermitInv, [Next]_vars PROVE PermitInv'
  OBVIOUS
<1> USE DEF TypeInv, Label, PermitInv
<1>1. ASSUME NEW d \in Dumper, Fork(d) PROVE PermitInv'
  BY <1>1 DEF Fork, Goto
<1>2. ASSUME NEW d \in Dumper, Wait(d) PROVE PermitInv'
  <2> PICK k \in Dumper : pc[k] = "zombie" /\ Goto(k, "reaped")
    BY <1>2 DEF Wait
  <2> QED BY <1>2 DEF Wait, Goto
<1>3. ASSUME NEW d \in Dumper, NEW l \in Label,
             pc[d] \notin {"none", "reaped"}, l # "none", Goto(d, l), UNCHANGED <<permit, dump>>
      PROVE  PermitInv'
  BY <1>3 DEF Goto
<1>4. ASSUME NEW d \in Dumper, ChildStep(d) \/ TimeoutHandle(d) PROVE PermitInv'
  <2>1. CASE UNCHANGED pc
    BY <1>4, <2>1 DEF ChildStep, Attach, AttachRefused, Detach, RecordThread, WaitPid,
                      BeginDump, EndDump, Exit, TimeoutHandle
  <2>2. CASE ~UNCHANGED pc
    BY <1>3, <1>4, <2>2 DEF ChildStep, Attach, AttachRefused, Visit, Detach, RecordThread,
                            WaitPid, BeginDump, EndDump, Exit, TimeoutHandle, Alarmed
  <2> QED BY <2>1, <2>2
<1>5. CASE UNCHANGED <<pc, permit, dump>>
  BY <1>5
<1> QED
  BY <1>1, <1>2, <1>4, <1>5 DEF Next, StopReport, FreezeGroup, vars, child

(* A dump that is over stays so, and while it is not its tracees are its own. *)
LEMMA OverStep ==
  ASSUME TypeInv, PermitInv, [Next]_vars, NEW k \in Dumper, Over(k)
  PROVE  Over(k)'
<1> USE DEF TypeInv, Label, Over
<1>1. ASSUME NEW d \in Dumper, Fork(d) PROVE Over(k)'
  BY <1>1 DEF Fork, Goto, PermitInv
<1>2. ASSUME NEW d \in Dumper, Wait(d) PROVE Over(k)'
  BY <1>2 DEF Wait, Goto
<1>3. ASSUME NEW d \in Dumper, ChildStep(d) \/ TimeoutHandle(d) PROVE Over(k)'
  BY <1>3 DEF ChildStep, Attach, AttachRefused, Visit, Detach, RecordThread, WaitPid,
              BeginDump, EndDump, Exit, TimeoutHandle, Goto
<1>4. CASE UNCHANGED pc
  BY <1>4
<1> QED
  BY <1>1, <1>2, <1>3, <1>4 DEF Next, StopReport, FreezeGroup, vars, child

LEMMA TracerStep ==
  ASSUME TypeInv, [Next]_vars, NEW k \in Dumper, NEW t \in Tid, tracer[t] = k
  PROVE  tracer'[t] = k \/ Over(k)'
<1> USE ThreadAssumption DEF TypeInv, Label, Over
<1>1. ASSUME NEW d \in Dumper, NEW u \in Tid, Attach(d, u) \/ Detach(d, u)
      PROVE  tracer'[t] = k \/ Over(k)'
  BY <1>1 DEF Attach, Detach
<1>2. ASSUME NEW d \in Dumper, Exit(d) PROVE tracer'[t] = k \/ Over(k)'
  BY <1>2 DEF Exit, Mine, Goto
<1>3. CASE UNCHANGED tracer
  BY <1>3
<1> QED
  BY <1>1, <1>2, <1>3
  DEF Next, ChildStep, Fork, Wait, AttachRefused, RecordThread, WaitPid, BeginDump,
      EndDump, TimeoutHandle, StopReport, FreezeGroup, vars, process

LEMMA RefusedStep ==
  TypeInv /\ ScanInv /\ PermitInv /\ RefusedInv /\ [Next]_vars => RefusedInv'
<1> SUFFICES ASSUME TypeInv, ScanInv, PermitInv, RefusedInv, [Next]_vars,
                    NEW d \in Dumper, ~Over(d)', NEW t \in refused'[d]
             PROVE  \E k \in Dumper \ {d} : Over(k)' \/ tracer'[t] = k
  BY DEF RefusedInv
<1>1. ~Over(d)
  BY OverStep
<1>2. CASE t \in refused[d]
  <2> t \in Tid
    BY <1>2 DEF TypeInv
  <2> PICK k \in Dumper \ {d} : Over(k) \/ tracer[t] = k
    BY <1>1, <1>2 DEF RefusedInv
  <2> QED BY OverStep, TracerStep
<1>3. CASE t \notin refused[d]
  <2>1. AttachRefused(d, t) /\ t \in Tid
    <3>1. PICK e \in Dumper, u \in Tid : AttachRefused(e, u)
      <4>1. ASSUME NEW e \in Dumper, NEW u \in Tid, Detach(e, u) PROVE FALSE
        BY <1>3, <4>1 DEF TypeInv, Detach
      <4>2. ~UNCHANGED refused
        BY <1>3
      <4> QED BY <4>1, <4>2 DEF Next, ChildStep, Fork, Wait, Attach, RecordThread, WaitPid,
                                BeginDump, EndDump, Exit, TimeoutHandle, StopReport,
                                FreezeGroup, vars, child, lists
    <3> QED BY <1>3, <3>1 DEF TypeInv, AttachRefused
  <2>2. UNCHANGED <<pc, tracer>> /\ pc[d] = "scan" /\ tracer[t] # d
    BY <2>1 DEF AttachRefused, Visit, process, ScanInv
  <2>3. CASE ~permit
    BY <2>2, <2>3 DEF PermitInv, Over
  <2>4. CASE permit
    BY <2>1, <2>2, <2>4 DEF AttachRefused, TypeInv
  <2> QED BY <2>3, <2>4
<1> QED BY <1>2, <1>3

LEMMA Inductive == IInv /\ [Next]_vars => IInv'
BY TypeStep, HoldStep, SigstopStep, ScanStep, PermitStep, RefusedStep DEF IInv

LEMMA Always == Spec => []IInv
BY Beginning, Inductive, PTL DEF Spec

---------------------------------------------------------------------------
(* What the children leave of each other's dumps. *)

(* While one child writes, a thread runs only if another one had it and has *)
(* come to its Finish since, or is waiting for it to stop: for any number   *)
(* of dumps at once.                                                        *)
THEOREM WritesStillWorld == Spec => []StillUnlessReleased
<1> SUFFICES IInv => StillUnlessReleased
  BY Always, PTL
<1> SUFFICES ASSUME IInv, NEW d \in Dumper, NEW t \in Tid, pc[d] = "dump", Runs(t)
             PROVE  /\ t \in refused[d]
                    /\ \E k \in Dumper \ {d} :
                          \/ Over(k)
                          \/ tracer[t] = k /\ cur[k] = t /\ pc[k] \in {"record", "waitpid"}
  BY DEF StillUnlessReleased
<1> USE DEF IInv
<1>1. t \in refused[d]
  BY DEF ScanInv, HoldInv, Acquiring, Over, Runs
<1>2. PICK k \in Dumper \ {d} : Over(k) \/ tracer[t] = k
  BY <1>1 DEF RefusedInv, Over
<1>3. Over(k) \/ Acquiring(k, t)
  BY <1>2 DEF HoldInv, Runs
<1> QED BY <1>1, <1>2, <1>3 DEF Acquiring, HoldInv

(* The children leave the process frozen only if SIGALRM has met one of     *)
(* them between an attach and its stop: their SIGSTOPs are otherwise waited *)
(* for and taken back, whoever attached first.                              *)
THEOREM FrozenOnlyByAlarm == Spec => []FrozenByAlarm
<1> IInv => FrozenByAlarm
  BY DEF IInv, SigstopInv, Window, FrozenByAlarm
<1> QED BY Always, PTL
=============================================================================
