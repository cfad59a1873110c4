------------------------ MODULE StopTheWorldProofs ------------------------
(***************************************************************************)
(* Proofs of the safety properties of StopTheWorld, for every process:     *)
(* any finite set of threads, any of them signalled, spawning or dying.    *)
(***************************************************************************)
EXTENDS StopTheWorld, FiniteSetTheorems, TLAPS

(***************************************************************************)
(* Type correctness.                                                       *)
(***************************************************************************)
LEMMA TypeInit == Init => TypeOK
<1> SUFFICES ASSUME Init PROVE TypeOK
  OBVIOUS
<1>1. threads \in Seq(Record) /\ idx \in 1..(Len(threads) + 1)
  BY DEF Init
<1>2. task \in [Tid -> {"unborn", "running", "stopped", "exited"}]
  BY DEF Init
<1> QED BY <1>1, <1>2 DEF Init, TypeOK, Labels, ScanLabels

\* Every step of the child, of the timer and of the threads keeps the types.
LEMMA TypeStep == TypeOK /\ [Next]_vars => TypeOK'
<1> SUFFICES ASSUME TypeOK, [Next]_vars PROVE TypeOK'
  OBVIOUS
<1> USE DEF TypeOK, Labels, ScanLabels
<1>1. CASE OpenFile BY <1>1 DEF OpenFile, target
<1>2. CASE OpenDir BY <1>2 DEF OpenDir, target
<1>3. CASE GetDents BY <1>3 DEF GetDents, target, Live
<1>4. CASE EndDir BY <1>4 DEF EndDir, target
<1>5. CASE ReadDir BY <1>5 DEF ReadDir, target
<1>6. CASE Attach BY <1>6 DEF Attach
<1>7. CASE AttachRefused
  <2>1. [pid |-> cur, attached |-> FALSE] \in Record BY <1>7 DEF AttachRefused, Record
  <2> QED BY <1>7, <2>1 DEF AttachRefused, target
<1>8. CASE RecordThread
  <2>1. [pid |-> cur, attached |-> TRUE] \in Record BY <1>8 DEF RecordThread, Record
  <2> QED BY <1>8, <2>1 DEF RecordThread, target
<1>9. CASE WaitPid BY <1>9 DEF WaitPid
<1>10. CASE WriteCore BY <1>10 DEF WriteCore, target
<1>11. CASE ContinueOne
  <2>1. threads[idx] \in Record BY <1>11 DEF ContinueOne
  <2>2. task' \in [Tid -> {"unborn", "running", "stopped", "exited"}]
    BY <1>11, <2>1 DEF ContinueOne, Record
  <2>3. traced' \subseteq Tid /\ sigstop' \subseteq Tid
    BY <1>11, <2>1 DEF ContinueOne, Record, StillPending
  <2>4. idx' \in 1..(Len(threads') + 1) /\ threads' = threads
    BY <1>11 DEF ContinueOne
  <2> QED BY <1>11, <2>2, <2>3, <2>4 DEF ContinueOne
<1>12. CASE ContinueClear
  <2>1. threads' \in Seq(Record) /\ idx' \in 1..(Len(threads') + 1)
    BY <1>12 DEF ContinueClear, LoopStart
  <2> QED BY <1>12, <2>1 DEF ContinueClear, target
<1>13. CASE ChildExit
  <2>1. task' \in [Tid -> {"unborn", "running", "stopped", "exited"}]
    BY <1>13 DEF ChildExit
  <2>2. traced' \subseteq Tid /\ pc' \in Labels
    BY <1>13 DEF ChildExit
  <2> QED BY <1>13, <2>1, <2>2 DEF ChildExit
<1>14. CASE TimeoutHandle BY <1>14 DEF TimeoutHandle, target
<1>15. CASE CoredumpWait BY <1>15 DEF CoredumpWait, child
<1>16. CASE ThreadStep
  <2>1. ASSUME NEW p \in Tid, NEW t \in Tid, Spawn(p, t) PROVE TypeOK'
    BY <2>1 DEF Spawn, child
  <2>2. ASSUME NEW t \in Tid, Exit(t) PROVE TypeOK'
    BY <2>2 DEF Exit, child
  <2>3. ASSUME NEW t \in Tid, StopReport(t) PROVE TypeOK'
    BY <2>3 DEF StopReport, child
  <2>4. ASSUME NEW t \in Tid, OtherStop(t) PROVE TypeOK'
    BY <2>4 DEF OtherStop, child
  <2>5. ASSUME NEW t \in Tid, FreezeGroup(t) PROVE TypeOK'
    BY <2>5 DEF FreezeGroup, child
  <2> QED BY <1>16, <2>1, <2>2, <2>3, <2>4, <2>5 DEF ThreadStep
<1>17. CASE UNCHANGED vars BY <1>17 DEF vars, target, child
<1> QED
  BY <1>1, <1>2, <1>3, <1>4, <1>5, <1>6, <1>7, <1>8, <1>9, <1>10, <1>11,
     <1>12, <1>13, <1>14, <1>15, <1>16, <1>17 DEF Next, ChildStep

\* The variables keep their types: in particular Continue's index never leaves
\* the vector, whenever the alarm restarts it.
THEOREM TypeCorrect == Spec => []TypeOK
<1>1. TypeOK /\ [Next]_vars => TypeOK' BY TypeStep
<1> QED BY <1>1, TypeInit, PTL DEF Spec

(***************************************************************************)
(* The scan.  Every tid readdir returned is in the batch, being attached,  *)
(* or recorded, and in only one of them; a recorded tracee stays stopped.  *)
(***************************************************************************)
Scanning == pc \in ScanLabels \cup {"dump"}
Attaching(t) == pc \in {"attach", "record"} /\ cur = t
Recorded(t) == \E i \in 1..Len(threads) : threads[i].pid = t

ListInv ==
    /\ pc = "open" => threads = <<>> /\ listed = {} /\ dirents = {}
    /\ pc # "detach" => idx = 1
    /\ \A t \in listed : task[t] # "unborn"
    /\ Scanning =>
          /\ \A t \in listed : t \in dirents \/ Attaching(t) \/ Recorded(t)
          /\ dirents \subseteq listed
          /\ \A i \in 1..Len(threads) : threads[i].pid \in listed \ dirents
          /\ \A i, j \in 1..Len(threads) :
                threads[i].pid = threads[j].pid => i = j
    /\ pc \in {"attach", "record"} =>
          cur \in listed \ dirents /\ ~Recorded(cur)
    /\ pc = "wait" =>
          Len(threads) > 0 /\ threads[Len(threads)] = [pid |-> cur, attached |-> TRUE]

\* The record waitpid is still waiting on is the last one.
Settled(i) == i \in 1..Len(threads) /\ (pc = "wait" => i # Len(threads))

StopInv ==
    /\ pc = "record" => cur \in traced
    /\ Scanning =>
        \A i \in 1..Len(threads) :
            threads[i].attached /\ threads[i].pid \in Live =>
                /\ threads[i].pid \in traced
                /\ Settled(i) => task[threads[i].pid] = "stopped"

EndInv ==
    pc = "dump" /\ opened =>
        /\ dirents = {}
        /\ listed \subseteq Live /\ AllAttached => Live \subseteq listed

SigInv == sigstop \subseteq Live

\* Outside the two windows every attach SIGSTOP that is not discarded yet
\* belongs to a tracee that Continue still has before it.
Window == alarm \in {"record", "wait"} \/ held # {}

FreezeInv ==
    ~Window =>
        /\ ~frozen
        /\ \A t \in sigstop :
              /\ t \in traced
              /\ \/ pc = "record" /\ cur = t
                 \/ Scanning /\ \E i \in 1..Len(threads) :
                                  threads[i] = [pid |-> t, attached |-> TRUE]
                 \/ /\ pc = "detach" /\ task[t] = "stopped"
                    /\ \E i \in idx..Len(threads) :
                          threads[i] = [pid |-> t, attached |-> TRUE]

LEMMA ListInit == Init => ListInv
  BY DEF Init, ListInv, Scanning, ScanLabels, Recorded

\* No tid is lost or recorded twice between readdir and push_back.
LEMMA ListStep == TypeOK /\ ListInv /\ [Next]_vars => ListInv'
<1> SUFFICES ASSUME TypeOK, ListInv, [Next]_vars PROVE ListInv'
  OBVIOUS
<1> USE DEF ListInv, Scanning, ScanLabels, Attaching, Recorded
<1>1. CASE OpenFile BY <1>1 DEF OpenFile, target
<1>2. CASE OpenDir BY <1>2 DEF OpenDir, target
<1>3. CASE GetDents
  <2>1. PICK batch \in SUBSET (Live \ listed) :
            dirents' = batch /\ listed' = listed \cup batch
    BY <1>3 DEF GetDents
  <2>2. UNCHANGED <<task, pc, cur, threads, idx>> /\ pc = "readdir" /\ dirents = {}
    BY <1>3 DEF GetDents, target
  <2>3. \A t \in batch : task[t] # "unborn" BY DEF Live
  <2> QED BY <2>1, <2>2, <2>3
<1>4. CASE EndDir BY <1>4 DEF EndDir, target
<1>5. CASE ReadDir BY <1>5 DEF ReadDir, target
<1>6. CASE Attach BY <1>6 DEF Attach
<1>7. CASE AttachRefused
  <2> DEFINE r == [pid |-> cur, attached |-> FALSE]
  <2>1. pc = "attach" /\ pc' = "readdir" /\ threads' = Append(threads, r)
        /\ UNCHANGED <<task, cur, dirents, listed, idx>>
    BY <1>7 DEF AttachRefused, target
  <2>2. /\ Len(threads') = Len(threads) + 1 /\ threads'[Len(threads')].pid = cur
        /\ \A i \in 1..Len(threads) : threads'[i] = threads[i]
    BY <2>1 DEF TypeOK
  <2>3. Len(threads) \in Nat BY DEF TypeOK
  <2> HIDE DEF r
  <2> QED BY <2>1, <2>2, <2>3
<1>8. CASE RecordThread
  <2> DEFINE r == [pid |-> cur, attached |-> TRUE]
  <2>1. pc = "record" /\ pc' = "wait" /\ threads' = Append(threads, r)
        /\ UNCHANGED <<task, cur, dirents, listed, idx>>
    BY <1>8 DEF RecordThread, target
  <2>2. /\ Len(threads') = Len(threads) + 1 /\ threads'[Len(threads')] = r
        /\ \A i \in 1..Len(threads) : threads'[i] = threads[i]
    BY <2>1 DEF TypeOK
  <2>3. Len(threads) \in Nat /\ r.pid = cur BY DEF TypeOK
  <2>4. r = [pid |-> cur', attached |-> TRUE] BY <2>1
  <2> HIDE DEF r
  <2> QED BY <2>1, <2>2, <2>3, <2>4
<1>9. CASE WaitPid BY <1>9 DEF WaitPid
<1>10. CASE WriteCore BY <1>10 DEF WriteCore, target
<1>11. CASE ContinueOne
  <2>1. pc = "detach" /\ UNCHANGED <<pc, listed, dirents, threads, cur>>
    BY <1>11 DEF ContinueOne
  <2>2. \A t \in listed : task'[t] # "unborn"
    BY <1>11 DEF ContinueOne, TypeOK
  <2> QED BY <2>1, <2>2
<1>12. CASE ContinueClear BY <1>12 DEF ContinueClear, LoopStart, target
<1>13. CASE ChildExit BY <1>13 DEF ChildExit, TypeOK
<1>14. CASE TimeoutHandle BY <1>14 DEF TimeoutHandle, target
<1>15. CASE CoredumpWait BY <1>15 DEF CoredumpWait, child
<1>16. CASE ThreadStep
  <2>1. UNCHANGED child
    BY <1>16 DEF ThreadStep, Spawn, Exit, StopReport, OtherStop, FreezeGroup
  <2>2. \A t \in listed : task'[t] # "unborn"
    BY <1>16 DEF ThreadStep, Spawn, Exit, StopReport, OtherStop, FreezeGroup, TypeOK
  <2> QED BY <2>1, <2>2 DEF child
<1>17. CASE UNCHANGED vars BY <1>17 DEF vars, target, child
<1> QED
  BY <1>1, <1>2, <1>3, <1>4, <1>5, <1>6, <1>7, <1>8, <1>9, <1>10, <1>11,
     <1>12, <1>13, <1>14, <1>15, <1>16, <1>17 DEF Next, ChildStep

LEMMA StopInit == Init => StopInv /\ SigInv
  BY DEF Init, StopInv, Scanning, ScanLabels, SigInv

\* A tracee whose waitpid has returned neither runs, dies nor is let go
\* before Continue.
LEMMA StopStep ==
    TypeOK /\ ListInv /\ StopInv /\ SigInv /\ [Next]_vars => StopInv' /\ SigInv'
<1> SUFFICES ASSUME TypeOK, ListInv, StopInv, SigInv, [Next]_vars
             PROVE StopInv' /\ SigInv'
  OBVIOUS
<1> USE DEF StopInv, SigInv, Scanning, ScanLabels, Settled, Live
<1>1. CASE OpenFile BY <1>1 DEF OpenFile, target, ListInv
<1>2. CASE OpenDir BY <1>2 DEF OpenDir, target
<1>3. CASE GetDents BY <1>3 DEF GetDents, target
<1>4. CASE EndDir BY <1>4 DEF EndDir, target
<1>5. CASE ReadDir BY <1>5 DEF ReadDir, target
<1>6. CASE Attach
  <2>1. cur \in Tid /\ task[cur] # "unborn" BY <1>6 DEF Attach, TypeOK, ListInv
  <2>2. task[cur] \in {"running", "stopped"} BY <1>6, <2>1 DEF Attach, TypeOK
  <2> QED BY <1>6, <2>1, <2>2 DEF Attach
<1>7. CASE AttachRefused
  <2>1. pc = "attach" /\ pc' = "readdir" /\ UNCHANGED <<task, traced, sigstop>>
    BY <1>7 DEF AttachRefused, target
  <2>2. /\ Len(threads') = Len(threads) + 1 /\ ~threads'[Len(threads')].attached
        /\ \A i \in 1..Len(threads) : threads'[i] = threads[i]
    BY <1>7 DEF AttachRefused, TypeOK
  <2>3. Len(threads) \in Nat BY DEF TypeOK
  <2> QED BY <2>1, <2>2, <2>3
<1>8. CASE RecordThread
  <2>1. pc = "record" /\ pc' = "wait" /\ UNCHANGED <<task, traced, sigstop>>
    BY <1>8 DEF RecordThread, target
  <2>2. /\ Len(threads') = Len(threads) + 1 /\ threads'[Len(threads')].pid = cur
        /\ \A i \in 1..Len(threads) : threads'[i] = threads[i]
    BY <1>8 DEF RecordThread, TypeOK
  <2>3. Len(threads) \in Nat BY DEF TypeOK
  <2>4. cur \in traced BY <2>1
  <2> QED BY <2>1, <2>2, <2>3, <2>4
<1>9. CASE WaitPid
  <2>1. /\ pc = "wait" /\ pc' = "readdir" /\ UNCHANGED <<task, sigstop, threads>>
        /\ traced' = IF task[cur] = "exited" THEN traced \ {cur} ELSE traced
        /\ task[cur] # "running"
    BY <1>9 DEF WaitPid, Reported
  <2>2. Len(threads) > 0 /\ threads[Len(threads)] = [pid |-> cur, attached |-> TRUE]
    BY <2>1 DEF ListInv
  <2> QED BY <2>1, <2>2
<1>10. CASE WriteCore BY <1>10 DEF WriteCore, target
<1>11. CASE ContinueOne
  <2>1. pc = "detach" /\ pc' = "detach" BY <1>11 DEF ContinueOne
  <2>2. threads[idx] \in Record BY <1>11 DEF ContinueOne, TypeOK
  <2>3. sigstop' \subseteq sigstop BY <1>11 DEF ContinueOne, StillPending
  <2>4. \A t \in Tid : t \in Live => task'[t] \in {"running", "stopped"}
    BY <1>11, <2>2 DEF ContinueOne, TypeOK, Record
  <2> QED BY <2>1, <2>3, <2>4
<1>12. CASE ContinueClear BY <1>12 DEF ContinueClear, target
<1>13. CASE ChildExit BY <1>13 DEF ChildExit, TypeOK
<1>14. CASE TimeoutHandle BY <1>14 DEF TimeoutHandle, target
<1>15. CASE CoredumpWait BY <1>15 DEF CoredumpWait, child
<1>16. CASE ThreadStep
  <2>1. ASSUME NEW p \in Tid, NEW t \in Tid, Spawn(p, t)
        PROVE StopInv' /\ SigInv'
    <3>1. \A i \in 1..Len(threads) : Scanning => threads[i].pid # t
      BY <2>1 DEF Spawn, ListInv
    <3> QED BY <2>1, <3>1 DEF Spawn, child, TypeOK
  <2>2. ASSUME NEW t \in Tid, Exit(t) PROVE StopInv' /\ SigInv'
    BY <2>2 DEF Exit, Runs, child, TypeOK
  <2>3. ASSUME NEW t \in Tid, StopReport(t) PROVE StopInv' /\ SigInv'
    BY <2>3 DEF StopReport, child, TypeOK
  <2>4. ASSUME NEW t \in Tid, OtherStop(t) PROVE StopInv' /\ SigInv'
    BY <2>4 DEF OtherStop, child, TypeOK
  <2>5. ASSUME NEW t \in Tid, FreezeGroup(t) PROVE StopInv' /\ SigInv'
    BY <2>5 DEF FreezeGroup, child
  <2> QED BY <1>16, <2>1, <2>2, <2>3, <2>4, <2>5 DEF ThreadStep
<1>17. CASE UNCHANGED vars BY <1>17 DEF vars, target, child
<1> QED
  BY <1>1, <1>2, <1>3, <1>4, <1>5, <1>6, <1>7, <1>8, <1>9, <1>10, <1>11,
     <1>12, <1>13, <1>14, <1>15, <1>16, <1>17 DEF Next, ChildStep

\* A directory position that has caught up with the threads alive has seen
\* them all, when everything it has seen is alive.
LEMMA CaughtUp ==
    ASSUME TypeOK, listed \subseteq Live, EndOfDir(Cardinality(listed))
    PROVE  Live \subseteq listed
<1>1. IsFiniteSet(Live)
  BY ThreadAssumption, FS_Subset DEF Live
<1>2. /\ IsFiniteSet(listed)
      /\ Cardinality(listed) <= Cardinality(Live)
      /\ Cardinality(listed) = Cardinality(Live) => listed = Live
  BY <1>1, FS_Subset
<1>3. Cardinality(listed) \in Nat /\ Cardinality(Live) \in Nat
  BY <1>1, <1>2, FS_CardinalityType
<1> QED BY <1>2, <1>3 DEF EndOfDir

LEMMA EndInit == Init => EndInv
  BY DEF Init, EndInv

\* Once the directory has ended with everybody recorded, nobody is left to
\* spawn another thread.
LEMMA EndStep ==
    TypeOK /\ ListInv /\ StopInv /\ EndInv /\ [Next]_vars => EndInv'
<1> SUFFICES ASSUME TypeOK, ListInv, StopInv, EndInv, [Next]_vars,
                    pc' = "dump", opened'
             PROVE EndInv'
  BY DEF EndInv
<1>1. CASE EndDir
  <2>1. UNCHANGED <<task, dirents, listed, threads>> /\ dirents = {}
    BY <1>1 DEF EndDir, target
  <2>2. listed \subseteq Live => Live \subseteq listed
    BY <1>1, CaughtUp DEF EndDir
  <2> QED BY <2>1, <2>2 DEF EndInv, Live
<1>2. CASE ThreadStep
  <2>1. pc = "dump" /\ opened /\ UNCHANGED <<dirents, listed, threads>> /\ dirents = {}
    BY <1>2 DEF ThreadStep, Spawn, Exit, StopReport, OtherStop, FreezeGroup, child,
                EndInv
  <2>2. ASSUME NEW p \in Tid, NEW t \in Tid, Spawn(p, t),
               listed \subseteq Live', AllAttached
        PROVE  FALSE
    <3>1. task[t] = "unborn" /\ task[p] = "running" /\ p \in Live
      BY <2>2 DEF Spawn, Runs, Live
    <3>2. listed \subseteq Live
      BY <2>1, <2>2, <3>1 DEF Spawn, Live, ListInv, TypeOK
    <3>3. p \in listed BY <2>1, <2>2, <3>1, <3>2 DEF EndInv
    <3>4. PICK i \in 1..Len(threads) : threads[i].pid = p
      BY <2>1, <3>3 DEF ListInv, Scanning, ScanLabels, Attaching, Recorded
    <3>5. task[p] = "stopped"
      BY <2>1, <2>2, <3>1, <3>4 DEF StopInv, Scanning, Settled, AllAttached
    <3> QED BY <3>1, <3>5
  <2>3. ASSUME NEW t \in Tid,
               Exit(t) \/ StopReport(t) \/ OtherStop(t) \/ FreezeGroup(t)
        PROVE  Live' \subseteq Live
    BY <2>3 DEF Exit, StopReport, OtherStop, FreezeGroup, Runs, Live, TypeOK
  <2>4. CASE \E p, t \in Tid : Spawn(p, t)
    BY <2>1, <2>2, <2>4 DEF EndInv, AllAttached
  <2>5. CASE \E t \in Tid : Exit(t) \/ StopReport(t) \/ OtherStop(t) \/ FreezeGroup(t)
    BY <2>1, <2>3, <2>5 DEF EndInv, AllAttached
  <2> QED BY <1>2, <2>4, <2>5 DEF ThreadStep
<1>3. CASE OpenDir BY <1>3 DEF OpenDir
<1>4. CASE UNCHANGED vars \/ CoredumpWait
  BY <1>4 DEF vars, target, child, CoredumpWait, EndInv, AllAttached, Live
<1> QED
  BY <1>1, <1>2, <1>3, <1>4 DEF Next, ChildStep, OpenFile, GetDents, ReadDir,
     Attach, AttachRefused, RecordThread, WaitPid, WriteCore, ContinueOne,
     ContinueClear, ChildExit, TimeoutHandle

\* While the core is written, whoever is attached is stopped and, unless an
\* attach failed or a listed thread has died, nobody alive was overlooked.
THEOREM StoppedWorld == Spec => []WorldStopped
<1> DEFINE IInv == TypeOK /\ ListInv /\ StopInv /\ SigInv /\ EndInv
<1>1. Init => IInv
  BY TypeInit, ListInit, StopInit, EndInit
<1>2. IInv /\ [Next]_vars => IInv'
  BY TypeStep, ListStep, StopStep, EndStep
<1>3. IInv => WorldStopped
  <2> SUFFICES ASSUME IInv, pc = "dump", opened PROVE WorldStopped
    BY DEF WorldStopped
  <2>1. \A i \in 1..Len(threads) :
           threads[i].attached /\ threads[i].pid \in Live =>
              threads[i].pid \in traced /\ task[threads[i].pid] = "stopped"
    BY DEF StopInv, Scanning, Settled
  <2>2. ASSUME listed \subseteq Live, AllAttached, NEW t \in Live
        PROVE  \E i \in 1..Len(threads) : threads[i].pid = t
    BY <2>2 DEF EndInv, ListInv, Scanning, Attaching, Recorded
  <2> QED BY <2>1, <2>2 DEF WorldStopped
<1> QED BY <1>1, <1>2, <1>3, PTL DEF Spec

(***************************************************************************)
(* The frozen process.                                                     *)
(***************************************************************************)
LEMMA FreezeInit == Init => FreezeInv
  BY DEF Init, FreezeInv, Window

LEMMA SettledStopped ==
    ASSUME StopInv, SigInv, Scanning, pc # "wait", NEW t \in sigstop,
           \E i \in 1..Len(threads) : threads[i] = [pid |-> t, attached |-> TRUE]
    PROVE  task[t] = "stopped"
<1>1. PICK i \in 1..Len(threads) : threads[i] = [pid |-> t, attached |-> TRUE]
  OBVIOUS
<1>2. threads[i].attached /\ threads[i].pid = t BY <1>1
<1> QED BY <1>2 DEF StopInv, SigInv, Settled

\* Each SIGSTOP is accounted for from its ATTACH to the DETACH that drops it.
LEMMA FreezeStep ==
    TypeOK /\ ListInv /\ StopInv /\ SigInv /\ FreezeInv /\ [Next]_vars => FreezeInv'
<1> SUFFICES ASSUME TypeOK, ListInv, StopInv, SigInv, FreezeInv, [Next]_vars, ~Window'
             PROVE FreezeInv'
  BY DEF FreezeInv
<1>0. ~Window
  BY DEF Window, Next, ChildStep, ThreadStep, vars, target, child, OpenFile, OpenDir,
     GetDents, EndDir, ReadDir, Attach, AttachRefused, RecordThread, WaitPid,
     WriteCore, ContinueOne, ContinueClear, ChildExit, TimeoutHandle,
     CoredumpWait, Spawn, Exit, StopReport, OtherStop, FreezeGroup
<1> USE <1>0 DEF FreezeInv, Scanning, ScanLabels
<1>1. CASE OpenFile BY <1>1 DEF OpenFile, target
<1>2. CASE OpenDir BY <1>2 DEF OpenDir, target
<1>3. CASE GetDents BY <1>3 DEF GetDents, target
<1>4. CASE EndDir BY <1>4 DEF EndDir, target
<1>5. CASE ReadDir BY <1>5 DEF ReadDir, target
<1>6. CASE Attach BY <1>6 DEF Attach
<1>7. CASE AttachRefused
  <2>1. pc = "attach" /\ pc' = "readdir" /\ UNCHANGED target
    BY <1>7 DEF AttachRefused
  <2>2. /\ Len(threads) \in Nat /\ Len(threads') = Len(threads) + 1
        /\ \A i \in 1..Len(threads) : threads'[i] = threads[i]
    BY <1>7 DEF AttachRefused, TypeOK
  <2> QED BY <2>1, <2>2 DEF target
<1>8. CASE RecordThread
  <2>1. pc = "record" /\ pc' = "wait" /\ UNCHANGED target
    BY <1>8 DEF RecordThread
  <2>2. /\ Len(threads) \in Nat /\ Len(threads') = Len(threads) + 1
        /\ threads'[Len(threads')] = [pid |-> cur, attached |-> TRUE]
        /\ \A i \in 1..Len(threads) : threads'[i] = threads[i]
    BY <1>8 DEF RecordThread, TypeOK
  <2>3. ASSUME NEW t \in sigstop
        PROVE  \E i \in 1..Len(threads') :
                  threads'[i] = [pid |-> t, attached |-> TRUE]
    <3>1. CASE cur = t BY <2>2, <3>1
    <3>2. CASE cur # t BY <2>1, <2>2, <3>2
    <3> QED BY <3>1, <3>2
  <2>4. \A t \in sigstop : t \in traced BY <2>1
  <2> QED BY <2>1, <2>3, <2>4 DEF target
<1>9. CASE WaitPid
  <2>1. task[cur] = "exited" => cur \notin sigstop
    BY DEF SigInv, Live
  <2> QED BY <1>9, <2>1 DEF WaitPid
<1>10. CASE WriteCore
  <2>1. \A t \in sigstop : \E i \in 1..Len(threads) :
           threads[i] = [pid |-> t, attached |-> TRUE]
    BY <1>10 DEF WriteCore
  <2>2. \A t \in sigstop : task[t] = "stopped"
    BY <1>10, <2>1, SettledStopped DEF WriteCore
  <2>3. /\ pc' = "detach" /\ idx' = 1
        /\ UNCHANGED <<task, traced, sigstop, frozen, threads>>
    BY <1>10 DEF WriteCore, target, TypeOK, ListInv
  <2> QED BY <2>1, <2>2, <2>3
<1>11. CASE ContinueOne
  <2> DEFINE rec == threads[idx]
  <2>1. /\ pc = "detach" /\ pc' = "detach" /\ idx' = idx + 1
        /\ UNCHANGED <<threads, frozen, cur>> /\ idx \in 1..Len(threads)
    BY <1>11 DEF ContinueOne, TypeOK
  <2>2. CASE Detachable(rec)
    <3>1. rec \in Record BY <2>1 DEF TypeOK
    <3>2. /\ task' = [task EXCEPT ![rec.pid] = "running"]
          /\ traced' = traced \ {rec.pid} /\ sigstop' = sigstop \ {rec.pid}
      BY <1>11, <2>2 DEF ContinueOne, StillPending, Window
    <3>3. SUFFICES ASSUME NEW t \in sigstop, t # rec.pid
                   PROVE  /\ t \in traced' /\ task'[t] = "stopped"
                          /\ \E i \in (idx + 1)..Len(threads) :
                                threads[i] = [pid |-> t, attached |-> TRUE]
      BY <2>1, <3>2
    <3>4. PICK i \in idx..Len(threads) : threads[i] = [pid |-> t, attached |-> TRUE]
      BY <2>1
    <3>5. i # idx BY <3>3, <3>4
    <3>6. task[t] = "stopped" /\ t \in traced /\ t \in Tid BY <2>1 DEF TypeOK
    <3> QED BY <2>1, <3>1, <3>2, <3>3, <3>4, <3>5, <3>6 DEF TypeOK
  <2>3. CASE ~Detachable(rec)
    <3>1. UNCHANGED <<task, traced, sigstop>>
      BY <1>11, <2>3 DEF ContinueOne
    <3>2. \A t \in sigstop : rec # [pid |-> t, attached |-> TRUE]
      BY <2>1, <2>3 DEF Detachable
    <3> QED BY <2>1, <3>1, <3>2
  <2> QED BY <2>2, <2>3
<1>12. CASE ContinueClear
  <2>1. idx..Len(threads) = {} BY <1>12 DEF ContinueClear, TypeOK
  <2>2. sigstop = {} BY <1>12, <2>1 DEF ContinueClear
  <2> QED BY <1>12, <2>2 DEF ContinueClear, target
<1>13. CASE ChildExit BY <1>13 DEF ChildExit
<1>14. CASE TimeoutHandle
  <2>1. /\ pc \notin {"record", "wait", "exited"} /\ pc' = "detach" /\ idx' = 1
        /\ UNCHANGED <<task, traced, sigstop, frozen, threads>>
    BY <1>14 DEF TimeoutHandle, Unalarmed, Window, target
  <2>2. \A t \in sigstop : \E i \in 1..Len(threads) :
           threads[i] = [pid |-> t, attached |-> TRUE]
    BY <2>1 DEF TypeOK
  <2>3. \A t \in sigstop : task[t] = "stopped"
    BY <2>1, <2>2, SettledStopped
  <2> QED BY <2>1, <2>2, <2>3
<1>15. CASE CoredumpWait BY <1>15 DEF CoredumpWait, child
<1>16. CASE ThreadStep
  <2>1. ASSUME NEW p \in Tid, NEW t \in Tid, Spawn(p, t) PROVE FreezeInv'
    BY <2>1 DEF Spawn, child, SigInv, Live, TypeOK
  <2>2. ASSUME NEW t \in Tid, Exit(t) PROVE FreezeInv'
    BY <2>2 DEF Exit, Runs, child, TypeOK
  <2>3. ASSUME NEW t \in Tid, StopReport(t) PROVE FreezeInv'
    BY <2>3 DEF StopReport, child, TypeOK
  <2>4. ASSUME NEW t \in Tid, OtherStop(t) PROVE FreezeInv'
    BY <2>4 DEF OtherStop, Window
  <2>5. ASSUME NEW t \in Tid, FreezeGroup(t) PROVE FreezeInv'
    BY <2>5 DEF FreezeGroup
  <2> QED BY <1>16, <2>1, <2>2, <2>3, <2>4, <2>5 DEF ThreadStep
<1>17. CASE UNCHANGED vars BY <1>17 DEF vars, target, child
<1> QED
  BY <1>1, <1>2, <1>3, <1>4, <1>5, <1>6, <1>7, <1>8, <1>9, <1>10, <1>11,
     <1>12, <1>13, <1>14, <1>15, <1>16, <1>17 DEF Next, ChildStep

\* A frozen process always traces back to one of the two windows: Finish on
\* every other path, timeout included, discards each SIGSTOP it caused.
THEOREM FrozenOnlyInWindow == Spec => []FreezeWindow
<1> DEFINE IInv == TypeOK /\ ListInv /\ StopInv /\ SigInv /\ FreezeInv
<1>1. Init => IInv
  BY TypeInit, ListInit, StopInit, FreezeInit
<1>2. IInv /\ [Next]_vars => IInv'
  BY TypeStep, ListStep, StopStep, FreezeStep
<1>3. IInv => FreezeWindow
  BY DEF FreezeInv, Window, FreezeWindow
<1> QED BY <1>1, <1>2, <1>3, PTL DEF Spec

(***************************************************************************)
(* The slots of CreateCorePrStatus.                                        *)
(***************************************************************************)
Others(recs, i) == {j \in 1..(i - 1) : recs[j].pid # Top}

LEMMA OthersFinite ==
    ASSUME NEW recs \in Seq(Record), NEW i \in 1..Len(recs)
    PROVE  /\ IsFiniteSet(Others(recs, i))
           /\ Cardinality(Others(recs, i)) \in 0..(i - 1)
<1>1. IsFiniteSet(1..(i - 1)) /\ Cardinality(1..(i - 1)) = i - 1
  BY FS_Interval
<1>2. /\ IsFiniteSet(Others(recs, i))
      /\ Cardinality(Others(recs, i)) <= Cardinality(1..(i - 1))
  BY <1>1, FS_Subset DEF Others
<1> QED BY <1>1, <1>2, FS_CardinalityType

LEMMA CounterType ==
    ASSUME NEW recs \in Seq(Record), NEW i \in 1..Len(recs)
    PROVE  /\ Counter(recs, i) = 1 + Cardinality(Others(recs, i))
           /\ Counter(recs, i) \in 1..i
<1>1. Counter(recs, i) = 1 + Cardinality(Others(recs, i)) BY DEF Counter, Others
<1> QED BY <1>1, OthersFinite

\* A thread other than the top one moves the counter on.
LEMMA CounterGrows ==
    ASSUME NEW recs \in Seq(Record), NEW i \in 1..Len(recs), NEW j \in 1..Len(recs),
           i < j, recs[i].pid # Top
    PROVE  Counter(recs, i) < Counter(recs, j)
<1>1. Others(recs, i) \subseteq Others(recs, j) /\ i \in Others(recs, j)
      /\ i \notin Others(recs, i)
  BY DEF Others
<1>2. Cardinality(Others(recs, i)) # Cardinality(Others(recs, j))
      /\ Cardinality(Others(recs, i)) <= Cardinality(Others(recs, j))
  BY <1>1, FS_Subset, OthersFinite
<1>3. Cardinality(Others(recs, i)) \in Int /\ Cardinality(Others(recs, j)) \in Int
  BY OthersFinite
<1> QED BY <1>2, <1>3, CounterType

\* The counter reaches the size of the vector only at its last record, and
\* only when no record before it is the top thread's.
LEMMA CounterFull ==
    ASSUME NEW recs \in Seq(Record), NEW i \in 1..Len(recs),
           Counter(recs, i) >= Len(recs)
    PROVE  /\ i = Len(recs)
           /\ \A j \in 1..(i - 1) : recs[j].pid # Top
<1>1. Cardinality(Others(recs, i)) \in 0..(i - 1) BY OthersFinite
<1>2. i = Len(recs) /\ Cardinality(Others(recs, i)) = i - 1
  BY <1>1, CounterType
<1>3. Others(recs, i) = 1..(i - 1)
  <2>1. IsFiniteSet(1..(i - 1)) /\ Cardinality(1..(i - 1)) = i - 1
    BY FS_Interval
  <2>2. Others(recs, i) \subseteq 1..(i - 1) BY DEF Others
  <2> QED BY <1>2, <2>1, <2>2, FS_Subset
<1> QED BY <1>2, <1>3 DEF Others

\* Recorded once each, no two threads share a prstatus.
LEMMA SlotsDistinct ==
    ASSUME NEW recs \in Seq(Record),
           \A i, j \in 1..Len(recs) : recs[i].pid = recs[j].pid => i = j,
           NEW i \in 1..Len(recs), NEW j \in 1..Len(recs), i < j
    PROVE  Slot(recs, i) # Slot(recs, j)
<1>1. Counter(recs, i) >= 1 /\ Counter(recs, j) >= 1
      /\ Counter(recs, i) \in Int /\ Counter(recs, j) \in Int
  BY CounterType
<1>2. CASE recs[i].pid = Top
  <2>1. recs[j].pid # Top BY <1>2
  <2>2. ~(Counter(recs, j) >= Len(recs)) BY <1>2, CounterFull
  <2> QED BY <1>1, <1>2, <2>1, <2>2 DEF Slot
<1>3. CASE recs[i].pid # Top
  <2>1. ~(Counter(recs, i) >= Len(recs)) BY CounterFull
  <2>2. Counter(recs, i) < Counter(recs, j) BY <1>3, CounterGrows
  <2> QED BY <1>1, <1>3, <2>1, <2>2 DEF Slot
<1> QED BY <1>2, <1>3

\* The slots of the records, refused ones included, are pairwise different,
\* inside the array, and the first one when the record is the top thread's.
THEOREM PrStatusSlots == Spec => []PrStatusBijective
<1> DEFINE IInv == TypeOK /\ ListInv
<1>1. Init => IInv BY TypeInit, ListInit
<1>2. IInv /\ [Next]_vars => IInv' BY TypeStep, ListStep
<1>3. IInv => PrStatusBijective
  <2> SUFFICES ASSUME IInv, pc = "dump" PROVE PrStatusBijective
    BY DEF PrStatusBijective
  <2>1. threads \in Seq(Record) /\ Len(threads) \in Nat BY DEF TypeOK
  <2>2. \A i, j \in 1..Len(threads) : threads[i].pid = threads[j].pid => i = j
    BY DEF ListInv, Scanning, ScanLabels
  <2>3. ASSUME NEW i \in 1..Len(threads), NEW j \in 1..Len(threads),
               Slot(threads, i) = Slot(threads, j)
        PROVE  i = j
    <3>1. ~(i < j) BY <2>1, <2>2, <2>3, SlotsDistinct
    <3>2. ~(j < i) BY <2>1, <2>2, <2>3, SlotsDistinct
    <3> QED BY <2>1, <3>1, <3>2
  <2>4. ASSUME NEW i \in 1..Len(threads)
        PROVE  /\ Slot(threads, i) < Len(threads)
               /\ threads[i].pid = Top => Slot(threads, i) = 0
    <3>1. Counter(threads, i) \in Int
      BY <2>1, CounterType
    <3> QED BY <2>1, <3>1 DEF Slot
  <2> QED BY <2>3, <2>4 DEF PrStatusBijective
<1> QED BY <1>1, <1>2, <1>3, PTL DEF Spec
===========================================================================
