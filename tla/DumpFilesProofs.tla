-------------------------- MODULE DumpFilesProofs --------------------------
(***************************************************************************)
(* Proofs about DumpSession and, at the end, DumpOutput.  The type         *)
(* invariant and the account of the children hold for any threads that     *)
(* dump, with or without g_handle_lock.  What a crash gets from its own    *)
(* dump is proved where every dump comes from HandleSignal (Direct = {}):  *)
(* the session_wait run shows that a dump asked for at the same time takes *)
(* it away.  The files of DumpOutput are those of dumps of both kinds.     *)
(***************************************************************************)
EXTENDS DumpFiles, Sequences, FiniteSetTheorems, TLAPS

(***************************************************************************)
(* Every child has a number: a fork needs one of MaxDumps, so a dump that  *)
(* has begun and not forked yet must still have one to come.               *)
(***************************************************************************)
BeforeFork == {"lock", "tid", "siginfo", "context", "name", "getdumpable",
               "setdumpable", "setptracer", "fork"}

Pending == {d \in Dumper : pc[d] \in BeforeFork}
Waiting == {d \in Dumper : pc[d] = "wait"}
Live    == {k \in Kid : k > AppKids /\ kid[k] \in {"running", "zombie"}}
Taken   == {k \in 1..AppKids : kid[k] = "reaped"}

Budget ==
    /\ \A d \in Dumper : pc[d] = "lock" => d \in Crasher
    /\ IsFiniteSet(Pending) /\ forks + Cardinality(Pending) <= dumps

Account ==
    /\ IsFiniteSet(Waiting)
    /\ Cardinality(Live) <= Cardinality(Waiting) + Cardinality(Taken) + interrupts

---------------------------------------------------------------------------
(* Type correctness, with the budget of children. *)

Record == [tid : Dumper \cup {None}, siginfo : Crasher \cup {None},
           context : Crasher \cup {None}]

LEMMA Finite == IsFiniteSet(Kid)
  BY FS_Interval, SessionAssumption DEF Kid

LEMMA TypeInit == Init => TypeOK /\ Budget
<1> SUFFICES ASSUME Init PROVE TypeOK /\ Budget
  OBVIOUS
<1>1. Blank \in Record BY DEF Blank, Record
<1>2. snap \in [Kid -> Record] /\ impl \in Record BY <1>1 DEF Init
<1>3. kid \in [Kid -> {"none", "running", "zombie", "reaped"}] BY DEF Init
<1>4. /\ pc \in [Dumper -> Labels] /\ name \in [Dumper -> Dumper \cup {None}]
      /\ wanted \in [Dumper -> BOOLEAN] /\ ori \in [Dumper -> BOOLEAN]
      /\ mine \in [Dumper -> Kid \cup {0}] /\ lock \in Crasher \cup {None}
  BY DEF Init, Labels
<1>6. /\ forks \in 0..dumps /\ dumps \in 0..MaxDumps /\ toggles \in 0..MaxToggles
      /\ interrupts \in 0..MaxInterrupts
  BY SessionAssumption DEF Init
<1>7. filter \in BOOLEAN /\ dumpable \in BOOLEAN /\ ptracer \in BOOLEAN BY DEF Init
<1>8. TypeOK BY <1>2, <1>3, <1>4, <1>6, <1>7 DEF TypeOK, Record
<1>5. Pending = {} BY DEF Init, Pending, BeforeFork
<1> QED BY <1>8, <1>5, FS_EmptySet DEF Init, Budget

\* What a dump can have left to do after it has moved on.
LEMMA PendingMoves ==
    ASSUME TypeOK, Budget, NEW d \in Dumper, NEW l \in Labels, Goto(d, l)
    PROVE  /\ Cardinality(Pending) \in Nat
           /\ pc[d] \in BeforeFork /\ l \in BeforeFork => Pending' = Pending
           /\ pc[d] \notin BeforeFork /\ l \notin BeforeFork => Pending' = Pending
           /\ pc[d] \notin BeforeFork /\ l \in BeforeFork =>
                 IsFiniteSet(Pending') /\ Cardinality(Pending') = Cardinality(Pending) + 1
           /\ pc[d] \in BeforeFork /\ l \notin BeforeFork =>
                 IsFiniteSet(Pending') /\ Cardinality(Pending') = Cardinality(Pending) - 1
<1>1. \A e \in Dumper : pc'[e] = IF e = d THEN l ELSE pc[e]
  BY DEF TypeOK, Goto
<1>2. IsFiniteSet(Pending) BY DEF Budget
<1>3. Cardinality(Pending) \in Nat BY <1>2, FS_CardinalityType
<1>4. d \in Pending <=> pc[d] \in BeforeFork BY DEF Pending
<1>5. pc[d] \in BeforeFork /\ l \in BeforeFork => Pending' = Pending
  BY <1>1 DEF Pending
<1>6. pc[d] \notin BeforeFork /\ l \notin BeforeFork => Pending' = Pending
  BY <1>1 DEF Pending
<1>7. l \in BeforeFork => Pending' = Pending \cup {d}
  BY <1>1 DEF Pending
<1>8. l \notin BeforeFork => Pending' = Pending \ {d}
  BY <1>1 DEF Pending
<1>9. /\ IsFiniteSet(Pending \cup {d}) /\ IsFiniteSet(Pending \ {d})
      /\ d \notin Pending => Cardinality(Pending \cup {d}) = Cardinality(Pending) + 1
      /\ d \in Pending => Cardinality(Pending \ {d}) = Cardinality(Pending) - 1
  BY <1>2, FS_AddElement, FS_RemoveElement
<1> QED BY <1>3, <1>4, <1>5, <1>6, <1>7, <1>8, <1>9

\* The number of the next child is a number of a child.
LEMMA NextKid ==
    ASSUME TypeOK, Budget, NEW d \in Dumper, pc[d] = "fork"
    PROVE  AppKids + forks + 1 \in Kid /\ forks + 1 <= dumps
<1>1. d \in Pending BY DEF Pending, BeforeFork
<1>2. Cardinality(Pending) \in Nat /\ Cardinality(Pending) # 0
  BY <1>1, FS_CardinalityType, FS_EmptySet DEF Budget
<1> QED BY <1>2, SessionAssumption DEF Budget, TypeOK, Kid

LEMMA TypeStep == TypeOK /\ Budget /\ [Next]_vars => TypeOK' /\ Budget'
<1> SUFFICES ASSUME TypeOK, Budget, [Next]_vars PROVE TypeOK' /\ Budget'
  OBVIOUS
<1> USE DEF object, access, locals, kids
<1>1. ASSUME NEW d \in Dumper, Begin(d) PROVE TypeOK' /\ Budget'
  <2>1. PICK l \in {"lock", "tid"} : Goto(d, l) BY <1>1 DEF Begin
  <2>2. l \in Labels /\ l \in BeforeFork /\ pc[d] \notin BeforeFork
    BY <1>1 DEF Begin, Labels, BeforeFork
  <2>3. /\ IsFiniteSet(Pending') /\ Cardinality(Pending') = Cardinality(Pending) + 1
        /\ Cardinality(Pending) \in Nat
    BY <2>1, <2>2, PendingMoves
  <2>4. \A e \in Dumper : pc'[e] = "lock" => e \in Crasher
    BY <1>1 DEF Begin, Goto, TypeOK, Budget
  <2>5. Budget' BY <1>1, <2>3, <2>4 DEF Begin, Budget, TypeOK
  <2>6. pc' \in [Dumper -> Labels] BY <2>1, <2>2 DEF Goto, TypeOK
  <2> QED BY <1>1, <2>5, <2>6, SessionAssumption DEF Begin, TypeOK
<1>2. ASSUME NEW d \in Dumper, NEW l,
             \/ HandleLock(d) /\ l = "tid"
             \/ SetTid(d) /\ l = "siginfo"
             \/ SetSignalInfo(d) /\ l = "context"
             \/ SetContext(d) /\ l = "name"
             \/ MakeName(d) /\ l = "getdumpable"
             \/ GetDumpable(d) /\ l = "setdumpable"
             \/ SetDumpable(d) /\ l = "setptracer"
             \/ SetPtracer(d) /\ l = "fork"
             \/ Wait(d) /\ l = "restore"
             \/ RestoreDumpable(d) /\ l = "resetptracer"
             \/ ResetPtracer(d) /\ l = "callback"
             \/ AfterDump(d) /\ l = "idle"
      PROVE  TypeOK' /\ Budget'
  <2> USE DEF HandleLock, SetTid, SetSignalInfo, SetContext, MakeName, GetDumpable,
      SetDumpable, SetPtracer, Wait, RestoreDumpable, ResetPtracer, AfterDump
  <2>1. Goto(d, l) /\ l \in Labels BY <1>2 DEF Labels
  <2>2. pc[d] \in BeforeFork <=> l \in BeforeFork BY <1>2 DEF BeforeFork
  <2>3. Pending' = Pending BY <2>1, <2>2, PendingMoves
  <2>4. l # "lock" /\ UNCHANGED <<forks, dumps, toggles>> BY <1>2
  <2>5. Budget' BY <2>1, <2>3, <2>4 DEF Budget, Goto, TypeOK
  <2>6. pc' \in [Dumper -> Labels] BY <2>1 DEF Goto, TypeOK
  <2>7. FromSignal(d) \in Crasher \cup {None} BY DEF FromSignal
  <2>8. impl' \in Record
    <3>1. impl \in Record BY DEF TypeOK, Record
    <3>2. [impl EXCEPT !.tid = d] \in Record BY <3>1 DEF Record
    <3>3. [impl EXCEPT !.siginfo = FromSignal(d)] \in Record BY <3>1, <2>7 DEF Record
    <3>4. [impl EXCEPT !.context = FromSignal(d)] \in Record BY <3>1, <2>7 DEF Record
    <3> QED BY <1>2, <3>1, <3>2, <3>3, <3>4
  <2>9. filter' = filter /\ dumpable' \in BOOLEAN /\ ptracer' \in BOOLEAN
    BY <1>2 DEF TypeOK, Original
  <2>10. lock' \in Crasher \cup {None} BY <1>2 DEF TypeOK, Released, Budget
  <2>11. /\ name' \in [Dumper -> Dumper \cup {None}]
         /\ wanted' \in [Dumper -> BOOLEAN] /\ ori' \in [Dumper -> BOOLEAN]
         /\ mine' \in [Dumper -> Kid \cup {0}]
    BY <1>2 DEF TypeOK
  <2>12. kid' \in [Kid -> {"none", "running", "zombie", "reaped"}] /\ snap' = snap
    BY <1>2 DEF TypeOK, Zombies
  <2>13. interrupts' \in 0..MaxInterrupts BY <1>2, SessionAssumption DEF TypeOK
  <2> QED BY <2>4, <2>5, <2>6, <2>8, <2>9, <2>10, <2>11, <2>12, <2>13 DEF TypeOK, Record
<1>3. ASSUME NEW d \in Dumper, Fork(d) PROVE TypeOK' /\ Budget'
  <2>1. Goto(d, "wait") /\ pc[d] = "fork" BY <1>3 DEF Fork
  <2>2. forks' \in {forks, forks + 1} /\ UNCHANGED <<dumps, toggles>>
    BY <1>3 DEF Fork
  <2>3. IsFiniteSet(Pending') /\ Cardinality(Pending') = Cardinality(Pending) - 1
        /\ Cardinality(Pending) \in Nat
    BY <2>1, PendingMoves DEF BeforeFork, Labels
  <2>4. Budget' BY <2>1, <2>2, <2>3 DEF Budget, Goto, TypeOK
  <2>5. pc' \in [Dumper -> Labels] BY <2>1 DEF Goto, TypeOK, Labels
  <2>6. AppKids + forks + 1 \in Kid /\ forks + 1 <= dumps BY <2>1, NextKid
  <2>7. /\ mine' \in [Dumper -> Kid \cup {0}] /\ snap' \in [Kid -> Record]
        /\ kid' \in [Kid -> {"none", "running", "zombie", "reaped"}]
        /\ forks' \in 0..dumps
    <3>1. impl \in Record /\ snap \in [Kid -> Record] BY DEF TypeOK, Record
    <3>2. \A k \in Kid : [snap EXCEPT ![k] = impl] \in [Kid -> Record]
      BY <3>1
    <3>3. snap' \in [Kid -> Record] BY <1>3, <2>6, <3>1, <3>2 DEF Fork
    <3>4. /\ mine' \in [Dumper -> Kid \cup {0}]
          /\ kid' \in [Kid -> {"none", "running", "zombie", "reaped"}]
          /\ forks' \in 0..dumps
      BY <1>3, <2>6 DEF Fork, TypeOK
    <3> QED BY <3>3, <3>4
  <2>8. interrupts' = interrupts BY <1>3 DEF Fork
  <2> QED BY <1>3, <2>4, <2>5, <2>7, <2>8 DEF Fork, TypeOK, Record
<1>4. ASSUME NEW k \in Kid, KidExit(k) PROVE TypeOK' /\ Budget'
  <2>1. Pending' = Pending BY <1>4 DEF KidExit, Pending
  <2> QED BY <1>4, <2>1 DEF KidExit, TypeOK, Budget
<1>5. ASSUME SetFilter PROVE TypeOK' /\ Budget'
  <2>1. Pending' = Pending BY <1>5 DEF SetFilter, Pending
  <2>2. toggles' \in 0..MaxToggles BY <1>5, SessionAssumption DEF SetFilter, TypeOK
  <2> QED BY <1>5, <2>1, <2>2 DEF SetFilter, TypeOK, Budget
<1>6. CASE UNCHANGED vars
  <2>1. Pending' = Pending BY <1>6 DEF vars, Pending
  <2> QED BY <1>6, <2>1 DEF vars, TypeOK, Budget
<1>7. ASSUME NEW d \in Dumper, DumpStep(d) PROVE TypeOK' /\ Budget'
  BY <1>2, <1>3, <1>7 DEF DumpStep
<1> QED BY <1>1, <1>4, <1>5, <1>6, <1>7 DEF Next

LEMMA BudgetHolds == Spec => [](TypeOK /\ Budget)
<1>1. Init => TypeOK /\ Budget BY TypeInit
<1>2. TypeOK /\ Budget /\ [Next]_vars => TypeOK' /\ Budget' BY TypeStep
<1> QED BY <1>1, <1>2, PTL DEF Spec

\* The types of the session's state, whatever threads dump at once: in
\* particular a fork always has the number of a child to take.
THEOREM TypeCorrect == Spec => []TypeOK
  BY BudgetHolds, PTL

---------------------------------------------------------------------------
(* The account of the children. *)

LEMMA LiveFinite ==
    /\ IsFiniteSet(Live) /\ Cardinality(Live) \in Nat
    /\ IsFiniteSet(Taken) /\ Cardinality(Taken) \in Nat
<1>1. Live \in SUBSET Kid /\ Taken \in SUBSET (1..AppKids) BY DEF Live, Taken
<1>2. IsFiniteSet(1..AppKids) BY FS_Interval, SessionAssumption
<1> QED BY <1>1, <1>2, Finite, FS_Subset, FS_CardinalityType

LEMMA AccountInit == Init => Account
<1> SUFFICES ASSUME Init PROVE Account
  OBVIOUS
<1>1. Waiting = {} /\ interrupts = 0 BY DEF Init, Waiting
<1>2. Live = {} BY SessionAssumption DEF Init, Live, Kid
<1> QED BY <1>1, <1>2, LiveFinite, FS_EmptySet DEF Account

LEMMA AccountStep == TypeOK /\ Budget /\ Account /\ [Next]_vars => Account'
<1> SUFFICES ASSUME TypeOK, Budget, Account, [Next]_vars PROVE Account'
  OBVIOUS
<1>0. /\ IsFiniteSet(Live) /\ Cardinality(Live) \in Nat
      /\ IsFiniteSet(Waiting) /\ Cardinality(Waiting) \in Nat /\ AppKids \in Nat
      /\ IsFiniteSet(Taken) /\ Cardinality(Taken) \in Nat /\ interrupts \in Nat
  BY LiveFinite, FS_CardinalityType, SessionAssumption DEF Account, TypeOK
<1>1. ASSUME UNCHANGED <<Live, Waiting, Taken, interrupts>> PROVE Account'
  BY <1>1 DEF Account
<1>2. ASSUME NEW d \in Dumper, NEW l, Goto(d, l), l # "wait", pc[d] # "wait",
             UNCHANGED <<kid, interrupts>>
      PROVE  Account'
  <2>1. Live' = Live /\ Waiting' = Waiting /\ Taken' = Taken
    BY <1>2 DEF Goto, TypeOK, Live, Waiting, Taken
  <2> QED BY <1>1, <1>2, <2>1
<1>3. ASSUME NEW d \in Dumper, Fork(d) PROVE Account'
  <2> DEFINE new == AppKids + forks + 1
  <2>1. d \notin Waiting /\ Waiting' = Waiting \cup {d}
    BY <1>3 DEF Fork, Goto, TypeOK, Waiting
  <2>2. IsFiniteSet(Waiting') /\ Cardinality(Waiting') = Cardinality(Waiting) + 1
    BY <1>0, <2>1, FS_AddElement
  <2>3. new \in Kid /\ new \notin 1..AppKids /\ forks \in Nat
    BY <1>0, <1>3, NextKid DEF Fork, TypeOK
  <2>4. \/ kid' = [kid EXCEPT ![new] = "running"]
        \/ kid' = kid
    BY <1>3 DEF Fork, kids
  <2>5. interrupts' = interrupts BY <1>3 DEF Fork, kids
  <2>6. Live' \in SUBSET (Live \cup {new}) BY <2>3, <2>4 DEF Live, TypeOK
  <2>7. Taken' = Taken
    <3>1. \A k \in 1..AppKids : k \in Kid /\ k # new
      BY <2>3, SessionAssumption DEF Kid
    <3>2. \A k \in 1..AppKids : kid'[k] = kid[k] BY <2>4, <3>1 DEF TypeOK
    <3> QED BY <3>2 DEF Taken
  <2>8. /\ IsFiniteSet(Live \cup {new})
        /\ Cardinality(Live \cup {new}) <= Cardinality(Live) + 1
        /\ Cardinality(Live \cup {new}) \in Nat
    <3>1. /\ IsFiniteSet(Live \cup {new})
          /\ Cardinality(Live \cup {new}) =
                IF new \in Live THEN Cardinality(Live) ELSE Cardinality(Live) + 1
      BY <1>0, FS_AddElement
    <3> QED BY <1>0, <3>1
  <2>9. /\ Cardinality(Live') \in Nat
        /\ Cardinality(Live') <= Cardinality(Live \cup {new})
    BY <2>6, <2>8, FS_Subset, FS_CardinalityType
  <2> QED BY <1>0, <2>2, <2>5, <2>7, <2>8, <2>9 DEF Account
<1>4. ASSUME NEW d \in Dumper, Wait(d) PROVE Account'
  <2>1. d \in Waiting /\ Waiting' = Waiting \ {d}
    BY <1>4 DEF Wait, Goto, TypeOK, Waiting
  <2>2. IsFiniteSet(Waiting') /\ Cardinality(Waiting') = Cardinality(Waiting) - 1
    BY <1>0, <2>1, FS_RemoveElement
  <2>3. CASE Childless /\ UNCHANGED <<kid, interrupts>>
    <3>1. Live' = {} /\ Taken' = Taken BY <2>3 DEF Childless, Live, Taken
    <3>2. Cardinality(Live') = 0 BY <3>1, FS_EmptySet
    <3>3. Cardinality(Waiting') \in Nat BY <2>2, FS_CardinalityType
    <3> QED BY <1>0, <2>2, <2>3, <3>1, <3>2, <3>3 DEF Account
  <2>4. CASE (\E k \in Zombies : kid' = [kid EXCEPT ![k] = "reaped"]) /\ UNCHANGED interrupts
    <3>1. PICK k \in Zombies : kid' = [kid EXCEPT ![k] = "reaped"] BY <2>4
    <3>2. k \in Kid /\ kid[k] = "zombie" BY <3>1 DEF Zombies
    <3>3. CASE k > AppKids
      <4>1. k \in Live /\ Live' = Live \ {k} BY <3>1, <3>2, <3>3 DEF Live, TypeOK
      <4>2. Taken' = Taken BY <1>0, <3>1, <3>2, <3>3 DEF Taken, TypeOK
      <4>3. Cardinality(Live') = Cardinality(Live) - 1 BY <1>0, <4>1, FS_RemoveElement
      <4> QED BY <1>0, <2>2, <2>4, <4>2, <4>3 DEF Account
    <3>4. CASE ~(k > AppKids)
      <4>1. Live' = Live BY <3>1, <3>2, <3>4 DEF Live, TypeOK
      <4>2. k \in 1..AppKids BY <1>0, <3>2, <3>4, SessionAssumption DEF Kid
      <4>3. k \notin Taken /\ Taken' = Taken \cup {k}
        BY <3>1, <3>2, <4>2 DEF Taken, TypeOK
      <4>4. Cardinality(Taken') = Cardinality(Taken) + 1 BY <1>0, <4>3, FS_AddElement
      <4> QED BY <1>0, <2>2, <2>4, <4>1, <4>4 DEF Account
    <3> QED BY <3>3, <3>4
  <2>5. CASE interrupts' = interrupts + 1 /\ UNCHANGED kid
    <3>1. Live' = Live /\ Taken' = Taken BY <2>5 DEF Live, Taken
    <3> QED BY <1>0, <2>2, <2>5, <3>1 DEF Account
  <2> QED BY <1>4, <2>3, <2>4, <2>5 DEF Wait
<1>5. ASSUME NEW k \in Kid, KidExit(k) PROVE Account'
  <2>1. /\ Live' = Live /\ Waiting' = Waiting /\ Taken' = Taken
        /\ interrupts' = interrupts
    BY <1>5, SessionAssumption DEF KidExit, Live, Waiting, Taken, TypeOK, Kid
  <2> QED BY <1>1, <2>1
<1>6. CASE SetFilter \/ UNCHANGED vars
  <2>1. UNCHANGED <<Live, Waiting, Taken, interrupts>>
    BY <1>6 DEF SetFilter, vars, kids, Live, Waiting, Taken
  <2> QED BY <1>1, <2>1
<1>7. ASSUME NEW d \in Dumper,
             \/ Begin(d) \/ HandleLock(d) \/ SetTid(d) \/ SetSignalInfo(d) \/ SetContext(d)
             \/ MakeName(d) \/ GetDumpable(d) \/ SetDumpable(d) \/ SetPtracer(d)
             \/ RestoreDumpable(d) \/ ResetPtracer(d) \/ AfterDump(d)
      PROVE  Account'
  <2>1. PICK l \in Labels \ {"wait"} : Goto(d, l) /\ pc[d] # "wait"
    BY <1>7 DEF Begin, HandleLock, SetTid, SetSignalInfo, SetContext, MakeName, GetDumpable,
       SetDumpable, SetPtracer, RestoreDumpable, ResetPtracer, AfterDump, Labels
  <2>2. UNCHANGED <<kid, interrupts>>
    BY <1>7 DEF Begin, HandleLock, SetTid, SetSignalInfo, SetContext, MakeName, GetDumpable,
       SetDumpable, SetPtracer, RestoreDumpable, ResetPtracer, AfterDump, kids
  <2> QED BY <1>2, <2>1, <2>2
<1> QED BY <1>3, <1>4, <1>5, <1>6, <1>7 DEF Next, DumpStep

\* Every wait() accounts for a child: with any number of threads that dump at
\* once, whoever reaps whose child and however many forks fail, of the children
\* they have forked no more are running or a zombie than there are threads in
\* wait(), children of the application that were reaped instead, and waits that
\* a signal has ended.
THEOREM ChildrenReaped == Spec => []ChildrenAccounted
<1>1. Init => Account BY AccountInit
<1>2. TypeOK /\ Budget /\ Account /\ [Next]_vars => Account' BY AccountStep
<1>3. Account => ChildrenAccounted BY DEF Account, ChildrenAccounted, Live, Waiting, Taken
<1> QED BY <1>1, <1>2, <1>3, BudgetHolds, PTL DEF Spec

---------------------------------------------------------------------------
(***************************************************************************)
(* Crashes in turn.  The one that holds g_handle_lock is the only dump     *)
(* under way, so that what it has stored is what it reads, and the process *)
(* is as it has set it.                                                    *)
(***************************************************************************)
MutexInv == \A d \in Dumper : lock = d <=> pc[d] \notin {"idle", "lock"}

AfterTid     == {"siginfo", "context", "name", "getdumpable", "setdumpable",
                 "setptracer", "fork"}
AfterSiginfo == AfterTid \ {"siginfo"}
AfterContext == AfterSiginfo \ {"context"}
AfterName    == AfterContext \ {"name"}

ObjectInv ==
    \A d \in Dumper :
        /\ pc[d] \in AfterTid => impl.tid = d
        /\ pc[d] \in AfterSiginfo => impl.siginfo = FromSignal(d)
        /\ pc[d] \in AfterContext /\ wanted[d] => impl.context = FromSignal(d)
        /\ pc[d] \in AfterName => name[d] = d

AccessInv ==
    /\ \A d \in Dumper : pc[d] \in {"setdumpable", "setptracer", "fork", "wait", "restore"} => ~ori[d]
    /\ \A d \in Dumper : pc[d] \in {"setptracer", "fork", "wait", "restore"} => dumpable
    /\ \A d \in Dumper : pc[d] \in {"fork", "wait", "restore", "resetptracer"} => ptracer
    /\ (\A d \in Dumper : pc[d] \notin {"setptracer", "fork", "wait", "restore"}) => ~dumpable

\* Undisturbed, the child of the dump in its wait() is the only one of a dump
\* that there is to reap.
ForkedSome ==
    \A d \in Dumper : mine[d] # 0 => mine[d] > AppKids /\ kid[mine[d]] # "none"

OnlyChild ==
    /\ \A k \in Kid : k > AppKids /\ kid[k] \in {"running", "zombie"} =>
          \E d \in Dumper : pc[d] = "wait" /\ mine[d] = k
    /\ \A d \in Dumper : pc[d] \in {"restore", "resetptracer", "callback"} /\ mine[d] # 0 =>
          kid[mine[d]] = "reaped"

\* Every step of a dump but the two around the lock.
LEMMA InnerSteps ==
    ASSUME NEW d \in Dumper, DumpStep(d)
    PROVE  \/ HandleLock(d) \/ AfterDump(d)
           \/ /\ pc[d] \notin {"idle", "lock", "callback"} /\ lock' = lock
              /\ \E l \in Labels \ {"idle", "lock", "tid"} : Goto(d, l)
  BY DEF DumpStep, SetTid, SetSignalInfo, SetContext, MakeName, GetDumpable, SetDumpable,
     SetPtracer, Fork, Wait, RestoreDumpable, ResetPtracer, Labels

LEMMA MutexInit == Init => MutexInv
  BY SessionAssumption DEF Init, MutexInv, Dumper

LEMMA MutexStep ==
    ASSUME Direct = {}
    PROVE  TypeOK /\ MutexInv /\ [Next]_vars => MutexInv'
<1> SUFFICES ASSUME TypeOK, MutexInv, [Next]_vars PROVE MutexInv'
  OBVIOUS
<1>1. ASSUME NEW d \in Dumper, Begin(d) PROVE MutexInv'
  BY <1>1 DEF Begin, Goto, MutexInv, TypeOK, Dumper
<1>2. ASSUME NEW d \in Dumper, HandleLock(d) PROVE MutexInv'
  BY <1>2, SessionAssumption DEF HandleLock, LockFree, Goto, MutexInv, TypeOK, Dumper
<1>3. ASSUME NEW d \in Dumper, AfterDump(d) PROVE MutexInv'
  BY <1>3, SessionAssumption DEF AfterDump, Released, Goto, MutexInv, TypeOK, Dumper
<1>4. ASSUME NEW d \in Dumper, pc[d] \notin {"idle", "lock"}, lock' = lock,
             NEW l \in Labels \ {"idle", "lock"}, Goto(d, l)
      PROVE  MutexInv'
  BY <1>4 DEF Goto, MutexInv, TypeOK
<1>5. ASSUME NEW d \in Dumper, DumpStep(d) PROVE MutexInv'
  BY <1>2, <1>3, <1>4, <1>5, InnerSteps
<1>6. ASSUME NEW k \in Kid, KidExit(k) PROVE MutexInv'
  BY <1>6 DEF KidExit, MutexInv
<1>7. CASE SetFilter \/ UNCHANGED vars
  BY <1>7 DEF SetFilter, vars, MutexInv
<1> QED BY <1>1, <1>5, <1>6, <1>7 DEF Next

\* Where one crash is between lock and return, all the others are not.
LEMMA OthersWait ==
    ASSUME MutexInv, NEW d \in Dumper, pc[d] \notin {"idle", "lock"}
    PROVE  \A e \in Dumper \ {d} : pc[e] \in {"idle", "lock"}
  BY DEF MutexInv

LEMMA ObjectInit == Init => ObjectInv /\ OwnSnapshot /\ AccessInv
  BY DEF Init, ObjectInv, OwnSnapshot, AccessInv, AfterTid, AfterSiginfo, AfterContext, AfterName

LEMMA ObjectStep ==
    ASSUME Direct = {}
    PROVE  TypeOK /\ MutexInv /\ ObjectInv /\ [Next]_vars => ObjectInv'
<1> SUFFICES ASSUME TypeOK, MutexInv, ObjectInv, [Next]_vars PROVE ObjectInv'
  OBVIOUS
<1> USE DEF object, access, locals, ObjectInv, AfterTid, AfterSiginfo, AfterContext, AfterName,
        TypeOK, Goto
<1>1. ASSUME NEW d \in Dumper, Begin(d) PROVE ObjectInv'
  BY <1>1 DEF Begin
<1>2. ASSUME NEW d \in Dumper, HandleLock(d) PROVE ObjectInv'
  BY <1>2 DEF HandleLock
<1>3. ASSUME NEW d \in Dumper, SetTid(d) PROVE ObjectInv'
  BY <1>3, OthersWait DEF SetTid
<1>4. ASSUME NEW d \in Dumper, SetSignalInfo(d) PROVE ObjectInv'
  BY <1>4, OthersWait DEF SetSignalInfo
<1>5. ASSUME NEW d \in Dumper, SetContext(d) PROVE ObjectInv'
  BY <1>5, OthersWait DEF SetContext
<1>6. ASSUME NEW d \in Dumper, MakeName(d) PROVE ObjectInv'
  BY <1>6, OthersWait DEF MakeName
<1>7. ASSUME NEW d \in Dumper, GetDumpable(d) PROVE ObjectInv'
  BY <1>7 DEF GetDumpable
<1>8. ASSUME NEW d \in Dumper, SetDumpable(d) \/ SetPtracer(d) PROVE ObjectInv'
  BY <1>8 DEF SetDumpable, SetPtracer
<1>9. ASSUME NEW d \in Dumper, Fork(d) PROVE ObjectInv'
  BY <1>9 DEF Fork
<1>10. ASSUME NEW d \in Dumper, Wait(d) PROVE ObjectInv'
  BY <1>10 DEF Wait
<1>11. ASSUME NEW d \in Dumper, RestoreDumpable(d) \/ ResetPtracer(d) \/ AfterDump(d)
       PROVE  ObjectInv'
  BY <1>11 DEF RestoreDumpable, ResetPtracer, AfterDump
<1>12. ASSUME NEW k \in Kid, KidExit(k) PROVE ObjectInv'
  BY <1>12 DEF KidExit
<1>13. CASE SetFilter \/ UNCHANGED vars
  BY <1>13 DEF SetFilter, vars
<1> QED BY <1>1, <1>2, <1>3, <1>4, <1>5, <1>6, <1>7, <1>8, <1>9, <1>10, <1>11, <1>12, <1>13
        DEF Next, DumpStep

\* What the fork has copied for a crash stays its child's for the dump.
LEMMA SnapshotStep ==
    ASSUME Direct = {}
    PROVE  TypeOK /\ Budget /\ MutexInv /\ ObjectInv /\ OwnSnapshot /\ [Next]_vars => OwnSnapshot'
<1> SUFFICES ASSUME TypeOK, Budget, MutexInv, ObjectInv, OwnSnapshot, [Next]_vars
             PROVE  OwnSnapshot'
  OBVIOUS
<1> DEFINE Past == {"wait", "restore", "resetptracer", "callback"}
<1>1. ASSUME NEW d \in Dumper, Fork(d) PROVE OwnSnapshot'
  <2>1. \A e \in Dumper : pc'[e] \in Past => e = d
    BY <1>1, OthersWait DEF Fork, Goto, TypeOK
  <2>2. /\ impl.tid = d /\ impl.siginfo = FromSignal(d) /\ name[d] = d
        /\ wanted[d] => impl.context = FromSignal(d)
    BY <1>1 DEF Fork, ObjectInv, AfterTid, AfterSiginfo, AfterContext, AfterName
  <2>3. AppKids + forks + 1 \in Kid BY <1>1, NextKid DEF Fork
  <2>4. UNCHANGED <<name, wanted>> /\ (mine'[d] # 0 => snap'[mine'[d]] = impl)
    BY <1>1, <2>3 DEF Fork, TypeOK
  <2> QED BY <2>1, <2>2, <2>4 DEF OwnSnapshot
<1>2. ASSUME NEW d \in Dumper, SetContext(d) \/ MakeName(d) PROVE OwnSnapshot'
  <2>1. \A e \in Dumper : pc'[e] \notin Past
    BY <1>2, OthersWait DEF SetContext, MakeName, Goto, TypeOK
  <2> QED BY <2>1 DEF OwnSnapshot
<1>3. ASSUME UNCHANGED <<name, wanted, mine, snap>>,
             \A e \in Dumper : pc'[e] \in Past => pc[e] \in Past
      PROVE  OwnSnapshot'
  BY <1>3 DEF OwnSnapshot
<1>4. ASSUME NEW d \in Dumper,
             \/ Begin(d) \/ HandleLock(d) \/ SetTid(d) \/ SetSignalInfo(d) \/ GetDumpable(d)
             \/ SetDumpable(d) \/ SetPtracer(d) \/ Wait(d) \/ RestoreDumpable(d)
             \/ ResetPtracer(d) \/ AfterDump(d)
      PROVE  OwnSnapshot'
  <2> USE <1>4 DEF Begin, HandleLock, SetTid, SetSignalInfo, GetDumpable, SetDumpable,
          SetPtracer, Wait, RestoreDumpable, ResetPtracer, AfterDump
  <2>1. UNCHANGED <<name, wanted, mine, snap>> BY DEF locals, kids
  <2>2. PICK l : Goto(d, l) /\ (l \in Past => pc[d] \in Past) OBVIOUS
  <2>3. \A e \in Dumper : pc'[e] \in Past => pc[e] \in Past
    BY <2>2 DEF Goto, TypeOK
  <2> QED BY <1>3, <2>1, <2>3
<1>5. ASSUME NEW k \in Kid, KidExit(k) PROVE OwnSnapshot'
  BY <1>3, <1>5 DEF KidExit, locals
<1>6. CASE SetFilter \/ UNCHANGED vars
  BY <1>3, <1>6 DEF SetFilter, vars, locals, kids
<1> QED BY <1>1, <1>2, <1>4, <1>5, <1>6 DEF Next, DumpStep

LEMMA AccessStep ==
    ASSUME Direct = {}
    PROVE  TypeOK /\ MutexInv /\ AccessInv /\ [Next]_vars => AccessInv'
<1> SUFFICES ASSUME TypeOK, MutexInv, AccessInv, [Next]_vars PROVE AccessInv'
  OBVIOUS
<1> USE DEF object, access, locals, AccessInv, TypeOK, Goto
<1>1. ASSUME NEW d \in Dumper,
             Begin(d) \/ HandleLock(d) \/ SetTid(d) \/ SetSignalInfo(d) \/ SetContext(d)
             \/ MakeName(d) \/ AfterDump(d)
      PROVE  AccessInv'
  BY <1>1, OthersWait DEF Begin, HandleLock, SetTid, SetSignalInfo, SetContext, MakeName, AfterDump
<1>2. ASSUME NEW d \in Dumper, GetDumpable(d) PROVE AccessInv'
  BY <1>2, OthersWait DEF GetDumpable
<1>3. ASSUME NEW d \in Dumper, SetDumpable(d) PROVE AccessInv'
  BY <1>3, OthersWait DEF SetDumpable
<1>4. ASSUME NEW d \in Dumper, SetPtracer(d) PROVE AccessInv'
  BY <1>4, OthersWait DEF SetPtracer
<1>5. ASSUME NEW d \in Dumper, Fork(d) PROVE AccessInv'
  BY <1>5, OthersWait DEF Fork
<1>6. ASSUME NEW d \in Dumper, Wait(d) PROVE AccessInv'
  BY <1>6, OthersWait DEF Wait
<1>7. ASSUME NEW d \in Dumper, RestoreDumpable(d) PROVE AccessInv'
  BY <1>7, OthersWait DEF RestoreDumpable, Original
<1>8. ASSUME NEW d \in Dumper, ResetPtracer(d) PROVE AccessInv'
  BY <1>8, OthersWait DEF ResetPtracer
<1>9. ASSUME NEW k \in Kid, KidExit(k) PROVE AccessInv'
  BY <1>9 DEF KidExit
<1>10. CASE SetFilter \/ UNCHANGED vars
  BY <1>10 DEF SetFilter, vars
<1> QED BY <1>1, <1>2, <1>3, <1>4, <1>5, <1>6, <1>7, <1>8, <1>9, <1>10 DEF Next, DumpStep

LEMMA OnlyChildInit == Init => ForkedSome /\ OnlyChild
<1> SUFFICES ASSUME Init PROVE ForkedSome /\ OnlyChild
  OBVIOUS
<1>1. \A k \in Kid : k > AppKids => kid[k] = "none"
  BY SessionAssumption DEF Init, Kid
<1>2. \A d \in Dumper : mine[d] = 0 /\ pc[d] = "idle" BY DEF Init
<1> QED BY <1>1, <1>2 DEF ForkedSome, OnlyChild

LEMMA ForkedStep == TypeOK /\ Budget /\ ForkedSome /\ [Next]_vars => ForkedSome'
<1> SUFFICES ASSUME TypeOK, Budget, ForkedSome, [Next]_vars PROVE ForkedSome'
  OBVIOUS
<1>1. ASSUME mine' = mine, \A k \in Kid : kid[k] # "none" => kid'[k] # "none"
      PROVE  ForkedSome'
  BY <1>1 DEF ForkedSome, TypeOK
<1>2. ASSUME NEW d \in Dumper, Fork(d) PROVE ForkedSome'
  <2> DEFINE new == AppKids + forks + 1
  <2>1. new \in Kid /\ new > AppKids
    BY <1>2, NextKid, SessionAssumption DEF Fork, TypeOK
  <2>2. CASE mine' = [mine EXCEPT ![d] = new] /\ kid' = [kid EXCEPT ![new] = "running"]
    <3>1. \A k \in Kid : kid[k] # "none" => kid'[k] # "none" BY <2>2 DEF TypeOK
    <3>2. kid'[new] = "running" BY <2>1, <2>2 DEF TypeOK
    <3>3. \A e \in Dumper : mine'[e] = IF e = d THEN new ELSE mine[e] BY <2>2 DEF TypeOK
    <3> HIDE DEF new
    <3> QED BY <2>1, <3>1, <3>2, <3>3 DEF ForkedSome, TypeOK
  <2>3. CASE mine' = [mine EXCEPT ![d] = 0] /\ kid' = kid
    BY <2>3 DEF ForkedSome, TypeOK
  <2> QED BY <1>2, <2>2, <2>3 DEF Fork, kids
<1>3. ASSUME NEW d \in Dumper, Wait(d) PROVE ForkedSome'
  BY <1>1, <1>3 DEF Wait, locals, Zombies, TypeOK
<1>4. ASSUME NEW k \in Kid, KidExit(k) PROVE ForkedSome'
  BY <1>1, <1>4 DEF KidExit, locals, TypeOK
<1>5. ASSUME NEW d \in Dumper,
             \/ Begin(d) \/ HandleLock(d) \/ SetTid(d) \/ SetSignalInfo(d) \/ SetContext(d)
             \/ MakeName(d) \/ GetDumpable(d) \/ SetDumpable(d) \/ SetPtracer(d)
             \/ RestoreDumpable(d) \/ ResetPtracer(d) \/ AfterDump(d)
      PROVE  ForkedSome'
  <2>1. UNCHANGED <<mine, kid>>
    BY <1>5 DEF Begin, HandleLock, SetTid, SetSignalInfo, SetContext, MakeName, GetDumpable,
       SetDumpable, SetPtracer, RestoreDumpable, ResetPtracer, AfterDump, locals, kids
  <2> QED BY <1>1, <2>1
<1>6. CASE SetFilter \/ UNCHANGED vars
  <2>1. UNCHANGED <<mine, kid>> BY <1>6 DEF SetFilter, vars, locals, kids
  <2> QED BY <1>1, <2>1
<1> QED BY <1>2, <1>3, <1>4, <1>5, <1>6 DEF Next, DumpStep

\* A disturbance stays one.
LEMMA DisturbedStays == TypeOK /\ Budget /\ [Next]_vars /\ Undisturbed' => Undisturbed
<1> SUFFICES ASSUME TypeOK, Budget, [Next]_vars, Undisturbed' PROVE Undisturbed
  OBVIOUS
<1> USE DEF Undisturbed
<1>1. ASSUME NEW d \in Dumper, Fork(d) PROVE Undisturbed
  <2> DEFINE new == AppKids + forks + 1
  <2>1. \A k \in 1..AppKids : k \in Kid /\ k # new
    BY SessionAssumption DEF TypeOK, Kid
  <2>2. interrupts' = interrupts BY <1>1 DEF Fork, kids
  <2>3. kid' = kid \/ kid' = [kid EXCEPT ![new] = "running"] BY <1>1 DEF Fork, kids
  <2> HIDE DEF new
  <2>4. \A k \in 1..AppKids : kid'[k] = kid[k] BY <2>1, <2>3 DEF TypeOK
  <2> QED BY <2>2, <2>4
<1>2. ASSUME NEW d \in Dumper, Wait(d) PROVE Undisturbed
  <2>1. interrupts = 0 BY <1>2 DEF Wait, TypeOK
  <2>2. \A k \in Kid : kid[k] = "reaped" => kid'[k] = "reaped" BY <1>2 DEF Wait, TypeOK
  <2> QED BY <2>1, <2>2, SessionAssumption DEF Kid
<1>3. ASSUME NEW k \in Kid, KidExit(k) PROVE Undisturbed
  <2>1. \A j \in Kid : kid[j] = "reaped" => kid'[j] = "reaped" BY <1>3 DEF KidExit, TypeOK
  <2> QED BY <1>3, <2>1, SessionAssumption DEF Kid, KidExit
<1>4. ASSUME NEW d \in Dumper,
             \/ Begin(d) \/ HandleLock(d) \/ SetTid(d) \/ SetSignalInfo(d) \/ SetContext(d)
             \/ MakeName(d) \/ GetDumpable(d) \/ SetDumpable(d) \/ SetPtracer(d)
             \/ RestoreDumpable(d) \/ ResetPtracer(d) \/ AfterDump(d)
      PROVE  Undisturbed
  BY <1>4 DEF Begin, HandleLock, SetTid, SetSignalInfo, SetContext, MakeName, GetDumpable,
     SetDumpable, SetPtracer, RestoreDumpable, ResetPtracer, AfterDump, kids
<1>5. CASE SetFilter \/ UNCHANGED vars
  BY <1>5 DEF SetFilter, vars, kids
<1> QED BY <1>1, <1>2, <1>3, <1>4, <1>5 DEF Next, DumpStep

LEMMA OnlyChildStep ==
    ASSUME Direct = {}
    PROVE  /\ TypeOK /\ Budget /\ MutexInv /\ ForkedSome /\ OnlyChild /\ [Next]_vars
           /\ Undisturbed'
           => OnlyChild'
<1> SUFFICES ASSUME TypeOK, Budget, MutexInv, ForkedSome, OnlyChild, [Next]_vars, Undisturbed'
             PROVE  OnlyChild'
  OBVIOUS
<1> DEFINE Past == {"restore", "resetptracer", "callback"}
<1>1. ASSUME NEW d \in Dumper, Fork(d) PROVE OnlyChild'
  <2>1. \A e \in Dumper : pc'[e] \in Past \cup {"wait"} => e = d
    BY <1>1, OthersWait DEF Fork, Goto, TypeOK
  <2>2. \A k \in Kid : k > AppKids => kid[k] \notin {"running", "zombie"}
    BY <1>1, OthersWait DEF Fork, OnlyChild
  <2>3. pc'[d] = "wait" BY <1>1 DEF Fork, Goto, TypeOK
  <2>4. AppKids + forks + 1 \in Kid BY <1>1, NextKid DEF Fork
  <2>5. \/ /\ mine'[d] = AppKids + forks + 1
           /\ kid' = [kid EXCEPT ![mine'[d]] = "running"]
        \/ mine'[d] = 0 /\ kid' = kid
    BY <1>1 DEF Fork, kids, TypeOK
  <2> QED BY <2>1, <2>2, <2>3, <2>4, <2>5 DEF OnlyChild, TypeOK
<1>2. ASSUME NEW d \in Dumper, Wait(d) PROVE OnlyChild'
  <2>1. /\ pc[d] = "wait" /\ mine' = mine
        /\ \A e \in Dumper : pc'[e] = IF e = d THEN "restore" ELSE pc[e]
    BY <1>2 DEF Wait, Goto, TypeOK, locals
  <2>2. \A e \in Dumper : e # d => pc[e] \in {"idle", "lock"} BY <2>1, OthersWait
  <2>3. mine[d] \in Kid \cup {0} BY DEF TypeOK
  <2>4. CASE Childless /\ UNCHANGED kid
    <3>1. mine[d] # 0 => kid[mine[d]] = "reaped"
      BY <2>1, <2>3, <2>4 DEF Childless, ForkedSome, TypeOK
    <3> QED BY <2>1, <2>2, <2>4, <3>1 DEF OnlyChild, Childless
  <2>5. CASE \E k \in Zombies : kid' = [kid EXCEPT ![k] = "reaped"]
    <3>1. PICK k \in Zombies : kid' = [kid EXCEPT ![k] = "reaped"] BY <2>5
    <3>2. k \in Kid /\ kid[k] = "zombie" /\ kid'[k] = "reaped"
      BY <3>1 DEF Zombies, TypeOK
    <3>3. k > AppKids BY <3>2, SessionAssumption DEF Undisturbed, Kid
    <3>4. k = mine[d] BY <2>2, <3>2, <3>3 DEF OnlyChild
    <3>5. \A j \in Kid : j > AppKids /\ kid[j] \in {"running", "zombie"} => j = k
      BY <2>2, <3>4 DEF OnlyChild
    <3> QED BY <2>1, <2>2, <3>1, <3>2, <3>4, <3>5 DEF OnlyChild, TypeOK
  <2>6. CASE interrupts' = interrupts + 1
    BY <2>6 DEF Undisturbed, TypeOK
  <2> QED BY <1>2, <2>4, <2>5, <2>6 DEF Wait
<1>3. ASSUME UNCHANGED <<mine, kid>>,
             \A e \in Dumper : pc'[e] = "wait" <=> pc[e] = "wait",
             \A e \in Dumper : pc'[e] \in Past => pc[e] \in Past
      PROVE  OnlyChild'
  BY <1>3 DEF OnlyChild
<1>4. ASSUME NEW d \in Dumper,
             \/ Begin(d) \/ HandleLock(d) \/ SetTid(d) \/ SetSignalInfo(d) \/ SetContext(d)
             \/ MakeName(d) \/ GetDumpable(d) \/ SetDumpable(d) \/ SetPtracer(d)
             \/ RestoreDumpable(d) \/ ResetPtracer(d) \/ AfterDump(d)
      PROVE  OnlyChild'
  <2> USE <1>4 DEF Begin, HandleLock, SetTid, SetSignalInfo, SetContext, MakeName,
          GetDumpable, SetDumpable, SetPtracer, RestoreDumpable, ResetPtracer, AfterDump
  <2>1. UNCHANGED <<mine, kid>> BY DEF locals, kids
  <2>2. PICK l : /\ Goto(d, l) /\ l # "wait" /\ pc[d] # "wait"
                 /\ l \in Past => pc[d] \in Past
    OBVIOUS
  <2>3. /\ \A e \in Dumper : pc'[e] = "wait" <=> pc[e] = "wait"
        /\ \A e \in Dumper : pc'[e] \in Past => pc[e] \in Past
    BY <2>2 DEF Goto, TypeOK
  <2> QED BY <1>3, <2>1, <2>3
<1>5. ASSUME NEW k \in Kid, KidExit(k) PROVE OnlyChild'
  BY <1>5 DEF KidExit, OnlyChild, locals, TypeOK
<1>6. CASE SetFilter \/ UNCHANGED vars
  BY <1>3, <1>6 DEF SetFilter, vars, locals, kids
<1> QED BY <1>1, <1>2, <1>4, <1>5, <1>6 DEF Next, DumpStep

---------------------------------------------------------------------------
LEMMA SerialHolds ==
    ASSUME Direct = {}
    PROVE  Spec => [](TypeOK /\ MutexInv /\ OwnSnapshot /\ AccessInv)
<1>1. Init => MutexInv /\ ObjectInv /\ OwnSnapshot /\ AccessInv
  BY MutexInit, ObjectInit
<1>2. /\ TypeOK /\ Budget /\ MutexInv /\ ObjectInv /\ OwnSnapshot /\ AccessInv /\ [Next]_vars
      => MutexInv' /\ ObjectInv' /\ OwnSnapshot' /\ AccessInv'
  BY MutexStep, ObjectStep, SnapshotStep, AccessStep
<1> QED BY <1>1, <1>2, BudgetHolds, PTL DEF Spec

\* A crash gets its own core: as long as dumps come from HandleSignal, the
\* child each of them forks has this crash's thread, siginfo and registers,
\* whatever earlier crashes have left in the object, however SetFilter changes
\* the filter, and whatever children the application has.
THEOREM CrashOwnsSnapshot == ASSUME Direct = {} PROVE Spec => []OwnSnapshot
  BY SerialHolds, PTL

\* Between such dumps the process is as undumpable as before the first.
THEOREM CrashRestoresDumpable == ASSUME Direct = {} PROVE Spec => []DumpableRestored
<1>1. AccessInv => DumpableRestored BY DEF AccessInv, DumpableRestored
<1> QED BY <1>1, SerialHolds, PTL

LEMMA OnlyChildHolds ==
    ASSUME Direct = {}
    PROVE  Spec => [](TypeOK /\ AccessInv /\ ForkedSome /\ (Undisturbed => OnlyChild))
<1>1. Init => ForkedSome /\ OnlyChild BY OnlyChildInit
<1>2. TypeOK /\ Budget /\ ForkedSome /\ [Next]_vars => ForkedSome'
  BY ForkedStep
<1>3. /\ TypeOK /\ Budget /\ MutexInv /\ ForkedSome /\ (Undisturbed => OnlyChild) /\ [Next]_vars
      => (Undisturbed => OnlyChild)'
  BY OnlyChildStep, DisturbedStays
<1> QED BY <1>1, <1>2, <1>3, BudgetHolds, SerialHolds, PTL DEF Spec

\* The child of a crash finds the process dumpable and open to any tracer from
\* its fork until it has exited, as long as no child of the application was
\* reaped in its place and no wait() interrupted.
THEOREM CrashAttachable == ASSUME Direct = {} PROVE Spec => []Attachable
<1>1. TypeOK /\ AccessInv /\ ForkedSome /\ (Undisturbed => OnlyChild) => Attachable
  <2> SUFFICES ASSUME TypeOK, AccessInv, ForkedSome, OnlyChild, NEW d \in Dumper,
                      mine[d] # 0, kid[mine[d]] = "running"
               PROVE  dumpable /\ ptracer
    BY DEF Attachable
  <2>1. mine[d] \in Kid /\ mine[d] > AppKids BY DEF ForkedSome, TypeOK
  <2>2. PICK e \in Dumper : pc[e] = "wait" BY <2>1 DEF OnlyChild
  <2> QED BY <2>2 DEF AccessInv
<1> QED BY <1>1, OnlyChildHolds, PTL

\* A crash that calls back has reaped the child it forked, as long as no child
\* of the application was reaped in its place and no wait() interrupted.
THEOREM CrashReapsOwnChild == ASSUME Direct = {} PROVE Spec => []OwnChildReaped
<1>1. (Undisturbed => OnlyChild) => OwnChildReaped BY DEF OnlyChild, OwnChildReaped
<1> QED BY <1>1, OnlyChildHolds, PTL

(***************************************************************************)
(* The files.  What a child has written is there as long as nobody else    *)
(* has opened the file since, or had it open already; and who has, has     *)
(* made its path of the same directory and name.                           *)
(***************************************************************************)
Written == {"write", "closed"}

OutputTypes ==
    /\ tid \in Output!Dumper \cup {None} /\ second \in Nat
    /\ outputPc \in [Output!Dumper -> {"idle", "name", "fork", "wait", "callback"}]
    /\ DOMAIN path = Output!Dumper /\ DOMAIN out = Output!Kid
    /\ forked \in [Output!Dumper -> Output!Kid \cup {0}]
    /\ forkCount \in Nat /\ started \in 0..Len(CorePages)
    /\ child \in [Output!Kid -> {"none", "running", "zombie", "reaped"}]
    /\ stage \in [Output!Kid -> {"fopen", "write", "failed", "closed"}]
    /\ at \in [Output!Kid -> Nat] /\ before \in [Output!Kid -> SUBSET Output!Kid]

\* A dump that has begun and not forked yet has a number left for its child.
ToFork == {d \in Output!Dumper : outputPc[d] \in {"name", "fork"}}
OutputBudget == IsFiniteSet(ToFork) /\ forkCount + Cardinality(ToFork) <= started

\* The parts of a name that tell dumps apart.
Made(o) ==
    /\ o.by # None
    /\ "TIMESTAMP" \in o.flag => o.name["TIMESTAMP"] = o.second
    /\ "TID" \in o.flag => o.name["TID"] = o.tid

PathInv ==
    /\ \A d \in Output!Dumper :
          /\ outputPc[d] \in {"fork", "wait", "callback"} => Made(path[d])
          /\ outputPc[d] \in {"wait", "callback"} /\ forked[d] # 0 =>
                out[forked[d]] = path[d] /\ child[forked[d]] # "none"
    /\ \A k \in Output!Kid :
          /\ child[k] = "none" <=> k > forkCount
          /\ child[k] # "none" => Made(out[k])

\* Children that were done when a child opened its file write no more.
WriteInv ==
    \A k \in Output!Kid :
        /\ stage[k] # "fopen" => child[k] # "none"
        /\ stage[k] = "fopen" => at[k] = 0
        /\ at[k] <= CorePages[k] /\ (stage[k] = "closed" => at[k] = CorePages[k])
        /\ stage[k] \in Written => Output!Where(out[k]) \in DOMAIN file
        /\ \A l \in before[k] : stage[l] # "fopen" /\ ~(stage[l] = "write" /\ Output!Running(l))

\* Nobody else has opened the file since, or could still write to it.
Alone(k) ==
    \A l \in Output!Kid \ (before[k] \cup {k}) :
        stage[l] \in Written => Output!Where(out[l]) # Output!Where(out[k])

FileInv ==
    \A k \in Output!Kid :
        stage[k] \in Written /\ Alone(k) =>
            file[Output!Where(out[k])] = [i \in 1..at[k] |-> k]

OutputInv == OutputTypes /\ OutputBudget /\ PathInv /\ WriteInv /\ FileInv

\* Dumps that are told apart have different paths.
LEMMA ApartIsElsewhere ==
    ASSUME NEW a, NEW b, Made(a), Made(b), Output!ToldApart(a, b)
    PROVE  Output!Where(a) # Output!Where(b)
BY DEF Made, Output!ToldApart, Output!Where

LEMMA Numbers ==
    /\ Output!Kid = 1..Len(CorePages) /\ Len(CorePages) \in Nat
    /\ \A k \in Output!Kid : k \in Nat /\ k # 0 /\ CorePages[k] \in Nat
    /\ None \notin Output!Dumper
BY FilesAssumption DEF Output!OutputAssumption, Output!Kid, Output!Dumper

LEMMA OutputInit == Output!Init => OutputInv
<1> SUFFICES ASSUME Output!Init PROVE OutputInv
  OBVIOUS
<1> USE Numbers DEF Output!Init
<1>1. OutputTypes
  BY DEF OutputTypes
<1>2. ToFork = {}
  BY DEF ToFork
<1>3. OutputBudget
  BY <1>2, FS_EmptySet DEF OutputBudget
<1>4. PathInv
  BY DEF PathInv
<1>5. WriteInv /\ FileInv
  BY DEF WriteInv, FileInv, Written
<1> QED BY <1>1, <1>3, <1>4, <1>5 DEF OutputInv

\* The dumps with a fork to come, and the numbers left.
LEMMA BudgetStep ==
    ASSUME OutputTypes, OutputBudget, [Output!Next]_(Output!vars)
    PROVE  OutputBudget' /\ started' \in 0..Len(CorePages)
<1> USE Numbers DEF OutputTypes
<1>0. IsFiniteSet(ToFork) /\ Cardinality(ToFork) \in Nat /\ forkCount + Cardinality(ToFork) <= started
  BY FS_CardinalityType DEF OutputBudget
<1>1. ASSUME NEW d \in Output!Dumper, Output!Start(d)
      PROVE  OutputBudget' /\ started' \in 0..Len(CorePages)
  <2>1. ToFork' = ToFork \cup {d} /\ d \notin ToFork
    BY <1>1 DEF Output!Start, Output!Goto, ToFork
  <2>2. IsFiniteSet(ToFork') /\ Cardinality(ToFork') = Cardinality(ToFork) + 1
    BY <1>0, <2>1, FS_AddElement
  <2> QED BY <1>0, <1>1, <2>2 DEF Output!Start, OutputBudget
<1>2. ASSUME NEW d \in Output!Dumper, Output!Fork(d)
      PROVE  OutputBudget' /\ started' \in 0..Len(CorePages)
  <2>1. ToFork' = ToFork \ {d} /\ d \in ToFork
    BY <1>2 DEF Output!Fork, Output!Goto, ToFork
  <2>2. IsFiniteSet(ToFork') /\ Cardinality(ToFork') = Cardinality(ToFork) - 1
    BY <1>0, <2>1, FS_RemoveElement
  <2>3. started' = started /\ forkCount' \in {forkCount, forkCount + 1}
    BY <1>2 DEF Output!Fork
  <2> QED BY <1>0, <2>2, <2>3 DEF OutputBudget
<1>3. ASSUME UNCHANGED <<forkCount, started>>, ToFork' = ToFork
      PROVE  OutputBudget' /\ started' \in 0..Len(CorePages)
  BY <1>3 DEF OutputBudget
<1>4. ASSUME NEW d \in Output!Dumper, Output!MakePath(d) \/ Output!Wait(d) \/ Output!Callback(d)
      PROVE  OutputBudget' /\ started' \in 0..Len(CorePages)
  <2>1. ToFork' = ToFork
    BY <1>4 DEF Output!MakePath, Output!Wait, Output!Callback, Output!Goto, ToFork
  <2> QED BY <1>3, <1>4, <2>1 DEF Output!MakePath, Output!Wait, Output!Callback, Output!locals
<1>5. CASE UNCHANGED <<outputPc, forkCount, started>>
  BY <1>3, <1>5 DEF ToFork
<1> QED
  BY <1>1, <1>2, <1>4, <1>5
  DEF Output!Next, Output!Open, Output!Write, Output!Close, Output!Exit, Output!SetDirBegin,
      Output!SetDirEnd, Output!SetFlag, Output!Tick, Output!vars, Output!dumper,
      Output!locals

LEMMA NextChild ==
    ASSUME OutputTypes, OutputBudget, NEW d \in Output!Dumper, outputPc[d] = "fork"
    PROVE  forkCount + 1 \in Output!Kid
<1>1. d \in ToFork
  BY DEF ToFork
<1>2. Cardinality(ToFork) \in Nat /\ Cardinality(ToFork) # 0
  BY <1>1, FS_CardinalityType, FS_EmptySet DEF OutputBudget
<1> QED BY <1>2, Numbers DEF OutputBudget, OutputTypes

LEMMA OutputTypesStep ==
    ASSUME OutputTypes, OutputBudget, WriteInv, [Output!Next]_(Output!vars)
    PROVE  OutputTypes'
<1>0. started' \in 0..Len(CorePages)
  BY BudgetStep
<1> USE Numbers, <1>0
    DEF OutputTypes, Output!Goto, Output!options, Output!locals, Output!dumper, Output!child
<1>1. ASSUME NEW d \in Output!Dumper,
             Output!Start(d) \/ Output!MakePath(d) \/ Output!Wait(d) \/ Output!Callback(d)
      PROVE  OutputTypes'
  BY <1>1 DEF Output!Start, Output!MakePath, Output!Wait, Output!Callback
<1>2. ASSUME NEW d \in Output!Dumper, Output!Fork(d) PROVE OutputTypes'
  <2>1. forkCount + 1 \in Output!Kid
    BY <1>2, NextChild DEF Output!Fork
  <2>2. CASE /\ forkCount' = forkCount + 1
             /\ forked' = [forked EXCEPT ![d] = forkCount + 1]
             /\ out' = [out EXCEPT ![forkCount + 1] = path[d]]
             /\ child' = [child EXCEPT ![forkCount + 1] = "running"]
    BY <1>2, <2>1, <2>2 DEF Output!Fork
  <2>3. CASE UNCHANGED <<forkCount, out, child>> /\ forked' = [forked EXCEPT ![d] = 0]
    BY <1>2, <2>3 DEF Output!Fork
  <2> QED BY <1>2, <2>2, <2>3 DEF Output!Fork
<1>3. ASSUME NEW k \in Output!Kid, Output!Open(k) PROVE OutputTypes'
  BY <1>3 DEF Output!Open
<1>4. ASSUME NEW k \in Output!Kid, Output!Write(k) PROVE OutputTypes'
  BY <1>4 DEF Output!Write
<1>5. ASSUME NEW k \in Output!Kid, Output!Close(k) \/ Output!Exit(k) PROVE OutputTypes'
  BY <1>5 DEF Output!Close, Output!Exit
<1>6. CASE Output!SetDirBegin \/ Output!SetDirEnd \/ Output!SetFlag \/ Output!Tick
  BY <1>6 DEF Output!SetDirBegin, Output!SetDirEnd, Output!SetFlag, Output!Tick
<1>7. CASE UNCHANGED Output!vars
  BY <1>7 DEF Output!vars
<1> QED
  BY <1>1, <1>2, <1>3, <1>4, <1>5, <1>6, <1>7 DEF Output!Next

(* Each path is made once, of what the object and the clock say then, and   *)
(* the child has that of the thread that forked it.                         *)
LEMMA PathStep ==
    ASSUME OutputTypes, OutputBudget, PathInv, [Output!Next]_(Output!vars)
    PROVE  PathInv'
<1> USE Numbers
    DEF OutputTypes, PathInv, Output!Goto, Output!options, Output!locals, Output!dumper,
        Output!child
<1>1. ASSUME NEW d \in Output!Dumper, Output!Start(d) \/ Output!Callback(d) PROVE PathInv'
  BY <1>1 DEF Output!Start, Output!Callback
<1>2. ASSUME NEW d \in Output!Dumper, Output!MakePath(d) PROVE PathInv'
  <2>1. Made(path'[d])
    <3>1. PICK asked \in (IF d \in FileCrasher THEN {None} ELSE Asked), x \in Output!DirsRead :
             path' = [path EXCEPT ![d] =
                 [dir |-> x, name |-> Output!Name(asked), tid |-> tid, by |-> d,
                  second |-> second,
                  flag |-> IF asked # None THEN {} ELSE Output!Effective(flag)]]
      BY <1>2 DEF Output!MakePath
    <3>2. path'[d] = [dir |-> x, name |-> Output!Name(asked), tid |-> tid, by |-> d,
                      second |-> second,
                      flag |-> IF asked # None THEN {} ELSE Output!Effective(flag)]
      BY <3>1
    <3>3. CASE asked # None
      BY <3>2, <3>3 DEF Made
    <3>4. CASE asked = None
      <4>1. \A f \in {"TIMESTAMP", "TID"} :
               f \in Output!Effective(flag) => Output!Name(asked)[f] = Output!Part(f)
        BY <3>4 DEF Output!Name, Output!NameFlags
      <4>2. Output!Part("TIMESTAMP") = second /\ Output!Part("TID") = tid
        BY DEF Output!Part
      <4> QED BY <3>2, <3>4, <4>1, <4>2 DEF Made
    <3> QED BY <3>3, <3>4
  <2>2. \A e \in Output!Dumper \ {d} : path'[e] = path[e] /\ outputPc'[e] = outputPc[e]
    BY <1>2 DEF Output!MakePath
  <2>3. outputPc'[d] = "fork" /\ UNCHANGED <<forkCount, out, child, forked>>
    BY <1>2 DEF Output!MakePath
  <2> QED BY <2>1, <2>2, <2>3
<1>3. ASSUME NEW d \in Output!Dumper, Output!Fork(d) PROVE PathInv'
  <2>1. outputPc[d] = "fork" /\ outputPc' = [outputPc EXCEPT ![d] = "wait"] /\ path' = path
    BY <1>3 DEF Output!Fork
  <2>2. CASE UNCHANGED <<forkCount, out, child>> /\ forked' = [forked EXCEPT ![d] = 0]
    BY <2>1, <2>2
  <2>3. CASE /\ forkCount' = forkCount + 1
             /\ forked' = [forked EXCEPT ![d] = forkCount + 1]
             /\ out' = [out EXCEPT ![forkCount + 1] = path[d]]
             /\ child' = [child EXCEPT ![forkCount + 1] = "running"]
    <3>1. forkCount + 1 \in Output!Kid /\ child[forkCount + 1] = "none"
      BY <2>1, NextChild
    <3>2. \A e \in Output!Dumper \ {d} :
             outputPc[e] \in {"wait", "callback"} /\ forked[e] # 0 => forked[e] # forkCount + 1
      BY <3>1
    <3>3. /\ out'[forkCount + 1] = path[d] /\ child'[forkCount + 1] = "running"
          /\ \A k \in Output!Kid \ {forkCount + 1} : out'[k] = out[k] /\ child'[k] = child[k]
      BY <2>3, <3>1
    <3>4. \A e \in Output!Dumper :
             /\ outputPc'[e] \in {"fork", "wait", "callback"} => Made(path'[e])
             /\ outputPc'[e] \in {"wait", "callback"} /\ forked'[e] # 0 =>
                   out'[forked'[e]] = path'[e] /\ child'[forked'[e]] # "none"
      BY <2>1, <2>3, <3>1, <3>2, <3>3
    <3>5. \A k \in Output!Kid :
             /\ child'[k] = "none" <=> k > forkCount'
             /\ child'[k] # "none" => Made(out'[k])
      BY <2>1, <2>3, <3>1, <3>3
    <3> QED BY <3>4, <3>5
  <2> QED BY <1>3, <2>2, <2>3 DEF Output!Fork
<1>4. ASSUME NEW d \in Output!Dumper, Output!Wait(d) PROVE PathInv'
  BY <1>4 DEF Output!Wait
<1>5. ASSUME NEW k \in Output!Kid, Output!Exit(k) PROVE PathInv'
  BY <1>5 DEF Output!Exit, Output!Running
<1>6. CASE UNCHANGED Output!dumper
  BY <1>6
<1> QED
  BY <1>1, <1>2, <1>3, <1>4, <1>5, <1>6
  DEF Output!Next, Output!Open, Output!Write, Output!Close, Output!SetDirBegin,
      Output!SetDirEnd, Output!SetFlag, Output!Tick, Output!vars

\* A child that opens, writes or closes has been forked, and keeps its path.
LEMMA OutStays ==
    ASSUME OutputTypes, OutputBudget, PathInv, [Output!Next]_(Output!vars)
    PROVE  /\ \A k \in Output!Kid :
                 /\ child[k] # "none" => child'[k] # "none" /\ out'[k] = out[k]
                 /\ child'[k] = "running" => child[k] \in {"none", "running"}
           /\ (UNCHANGED Output!child) \/ UNCHANGED <<out, child>>
<1> USE Numbers
    DEF OutputTypes, Output!options, Output!locals, Output!dumper, Output!child
<1>1. ASSUME NEW d \in Output!Dumper, Output!Fork(d)
      PROVE  \A k \in Output!Kid :
                 /\ child[k] # "none" => child'[k] # "none" /\ out'[k] = out[k]
                 /\ child'[k] = "running" => child[k] \in {"none", "running"}
  <2>1. forkCount + 1 \in Output!Kid /\ child[forkCount + 1] = "none"
    BY <1>1, NextChild DEF Output!Fork, PathInv
  <2> QED BY <1>1, <2>1 DEF Output!Fork
<1>2. ASSUME NEW d \in Output!Dumper, Output!Wait(d)
      PROVE  \A k \in Output!Kid :
                 /\ child[k] # "none" => child'[k] # "none" /\ out'[k] = out[k]
                 /\ child'[k] = "running" => child[k] \in {"none", "running"}
  BY <1>2 DEF Output!Wait
<1>3. ASSUME NEW k \in Output!Kid, Output!Exit(k)
      PROVE  \A l \in Output!Kid :
                 /\ child[l] # "none" => child'[l] # "none" /\ out'[l] = out[l]
                 /\ child'[l] = "running" => child[l] \in {"none", "running"}
  BY <1>3 DEF Output!Exit, Output!Running
<1>4. (UNCHANGED Output!child) \/ UNCHANGED <<out, child>>
  BY DEF Output!Next, Output!Start, Output!MakePath, Output!Fork, Output!Wait,
         Output!Callback, Output!Open, Output!Write, Output!Close, Output!Exit,
         Output!SetDirBegin, Output!SetDirEnd, Output!SetFlag, Output!Tick, Output!vars
<1>5. CASE UNCHANGED <<out, child>>
  BY <1>4, <1>5
<1> QED
  BY <1>1, <1>2, <1>3, <1>4, <1>5
  DEF Output!Next, Output!Start, Output!MakePath, Output!Callback, Output!Open,
      Output!Write, Output!Close, Output!SetDirBegin, Output!SetDirEnd, Output!SetFlag,
      Output!Tick, Output!vars

LEMMA WriteStep ==
    ASSUME OutputTypes, OutputBudget, PathInv, WriteInv, [Output!Next]_(Output!vars)
    PROVE  WriteInv'
<1> USE Numbers DEF OutputTypes, WriteInv, Written
<1>1. CASE UNCHANGED Output!child
  <2> SUFFICES ASSUME NEW k \in Output!Kid
               PROVE  /\ stage[k] # "fopen" => child'[k] # "none"
                      /\ stage[k] \in Written => Output!Where(out'[k]) \in DOMAIN file
                      /\ \A l \in before[k] :
                            ~(stage[l] = "write" /\ child'[l] = "running")
    BY <1>1 DEF Output!child, Output!Where, Output!Running
  <2> QED BY OutStays DEF Output!Running
<1>2. ASSUME NEW k \in Output!Kid, Output!Open(k) PROVE WriteInv'
  <2>1. stage[k] = "fopen" /\ child[k] = "running" /\ UNCHANGED <<out, child, at>>
    BY <1>2 DEF Output!Open, Output!dumper, Output!Running
  <2>2. \E g \in {"write", "failed"} : stage' = [stage EXCEPT ![k] = g]
    BY <1>2 DEF Output!Open
  <2>3. Output!Where(out[k]) \in DOMAIN file' \/ stage'[k] = "failed"
    BY <1>2 DEF Output!Open
  <2>4. DOMAIN file \subseteq DOMAIN file'
    BY <1>2 DEF Output!Open
  <2>5. /\ before'[k] = {l \in Output!Kid :
                           stage[l] # "fopen" /\ ~(stage[l] = "write" /\ Output!Running(l))}
        /\ \A l \in Output!Kid \ {k} : before'[l] = before[l]
    BY <1>2 DEF Output!Open
  <2>6. \A l \in Output!Kid : k \notin before'[l]
    BY <2>1, <2>5
  <2>7. \A l \in Output!Kid \ {k} : stage'[l] = stage[l]
    BY <2>2
  <2>8. \A l \in Output!Kid : \A m \in before'[l] :
           stage'[m] # "fopen" /\ ~(stage'[m] = "write" /\ Output!Running(m)')
    BY <2>1, <2>5, <2>6, <2>7 DEF Output!Running
  <2>9. \A l \in Output!Kid :
           /\ stage'[l] # "fopen" => child'[l] # "none"
           /\ stage'[l] = "fopen" => at'[l] = 0
           /\ at'[l] <= CorePages[l] /\ (stage'[l] = "closed" => at'[l] = CorePages[l])
    BY <2>1, <2>2
  <2>10. \A l \in Output!Kid :
            stage'[l] \in Written => Output!Where(out'[l]) \in DOMAIN file'
    BY <2>1, <2>2, <2>3, <2>4, <2>7
  <2> QED BY <2>8, <2>9, <2>10 DEF Output!Where
<1>3. ASSUME NEW k \in Output!Kid, Output!Write(k) PROVE WriteInv'
  <2>1. /\ at[k] < CorePages[k] /\ DOMAIN file' = DOMAIN file /\ stage[k] = "write"
        /\ at' = [at EXCEPT ![k] = at[k] + 1] /\ UNCHANGED <<stage, before, out, child>>
    BY <1>3 DEF Output!Write, Output!More, Output!dumper
  <2>2. \A l \in Output!Kid :
           /\ stage[l] = "fopen" => at'[l] = 0
           /\ at'[l] <= CorePages[l] /\ (stage[l] = "closed" => at'[l] = CorePages[l])
    BY <2>1
  <2> QED BY <2>1, <2>2 DEF Output!Running, Output!Where
<1>4. ASSUME NEW k \in Output!Kid, Output!Close(k) PROVE WriteInv'
  <2>1. /\ at[k] = CorePages[k] /\ stage[k] = "write" /\ child[k] = "running"
        /\ stage' = [stage EXCEPT ![k] = "closed"]
        /\ UNCHANGED <<at, before, file, out, child>>
    BY <1>4 DEF Output!Close, Output!More, Output!dumper, Output!Running
  <2>2. \A l \in Output!Kid : k \notin before[l]
    BY <2>1 DEF Output!Running
  <2>3. \A l \in Output!Kid : \A m \in before[l] :
           stage'[m] # "fopen" /\ ~(stage'[m] = "write" /\ Output!Running(m)')
    BY <2>1, <2>2 DEF Output!Running
  <2>4. \A l \in Output!Kid :
           /\ stage'[l] # "fopen" => child'[l] # "none"
           /\ stage'[l] = "fopen" => at'[l] = 0
           /\ at'[l] <= CorePages[l] /\ (stage'[l] = "closed" => at'[l] = CorePages[l])
    BY <2>1
  <2>5. \A l \in Output!Kid : stage'[l] \in Written => Output!Where(out[l]) \in DOMAIN file
    BY <2>1
  <2> QED BY <2>1, <2>3, <2>4, <2>5 DEF Output!Where
<1> QED
  BY <1>1, <1>2, <1>3, <1>4
  DEF Output!Next, Output!Start, Output!MakePath, Output!Fork, Output!Wait, Output!Callback,
      Output!Exit, Output!SetDirBegin, Output!SetDirEnd, Output!SetFlag, Output!Tick,
      Output!vars

\* One more page of a core that has been written in order.
LEMMA NextPage ==
    ASSUME NEW n \in Nat, NEW k
    PROVE  Output!Written([i \in 1..n |-> k], n + 1, k) = [i \in 1..n + 1 |-> k]
<1> DEFINE s == [i \in 1..n |-> k]
<1>1. s \in Seq({k}) /\ Len(s) = n
  OBVIOUS
<1>2. Output!Written(s, n + 1, k) =
         [j \in 1..n + 1 |-> IF j = n + 1 THEN k ELSE IF j <= n THEN s[j] ELSE 0]
  BY <1>1 DEF Output!Written
<1>3. \A j \in 1..n + 1 :
         (IF j = n + 1 THEN k ELSE IF j <= n THEN s[j] ELSE 0) = k
  OBVIOUS
<1> QED BY <1>2, <1>3

(* A page goes into the file of the writer's path, which is another's only   *)
(* if that one is not alone with it.                                        *)
LEMMA FileStep ==
    ASSUME OutputTypes, OutputBudget, PathInv, WriteInv, FileInv, [Output!Next]_(Output!vars)
    PROVE  FileInv'
<1> USE Numbers DEF OutputTypes
<1> SUFFICES ASSUME NEW k \in Output!Kid, stage'[k] \in Written, Alone(k)'
             PROVE  file'[Output!Where(out'[k])] = [i \in 1..at'[k] |-> k]
  BY DEF FileInv, Output!Where
<1> DEFINE p == Output!Where(out[k])
<1>1. CASE UNCHANGED Output!child
  <2>1. stage[k] \in Written /\ out'[k] = out[k]
    BY <1>1, OutStays DEF Output!child, WriteInv, Written
  <2>2. Alone(k)
    <3> SUFFICES ASSUME NEW l \in Output!Kid \ (before[k] \cup {k}), stage[l] \in Written
                 PROVE  Output!Where(out[l]) # p
      BY DEF Alone
    <3>1. out'[l] = out[l]
      BY OutStays DEF WriteInv, Written
    <3> QED BY <1>1, <2>1, <3>1 DEF Alone, Output!child, Output!Where
  <2> QED BY <1>1, <2>1, <2>2 DEF FileInv, Output!child, Output!Where
<1>2. CASE UNCHANGED <<out, child>>
  <2>1. ASSUME NEW l \in Output!Kid, l # k, Output!Open(l) \/ Output!Write(l) \/ Output!Close(l)
        PROVE  file'[p] = [i \in 1..at'[k] |-> k]
    <3>1. stage[k] \in Written /\ at'[k] = at[k] /\ before'[k] = before[k]
      BY <2>1 DEF Output!Open, Output!Write, Output!Close
    <3>2. Alone(k)
      BY <1>2, <2>1, <3>1 DEF Alone, Output!Open, Output!Write, Output!Close, Written,
                              Output!Where
    <3>3. file[p] = [i \in 1..at[k] |-> k] /\ p \in DOMAIN file
      BY <3>1, <3>2 DEF FileInv, WriteInv
    <3>4. CASE file' = file
      BY <3>1, <3>3, <3>4
    <3>5. CASE file' # file
      <4>1. stage'[l] = "write" /\ Output!Running(l) /\ stage[l] \in {"fopen", "write"}
        BY <2>1, <3>5 DEF Output!Open, Output!Write, Output!Close
      <4>2. l \notin before[k]
        BY <4>1 DEF WriteInv
      <4>3. Output!Where(out[l]) # p
        BY <1>2, <3>1, <4>1, <4>2, <2>1 DEF Alone, Written, Output!Where
      <4>4. file'[p] = file[p]
        BY <2>1, <3>3, <3>5, <4>3 DEF Output!Open, Output!Write, Output!Close
      <4> QED BY <3>1, <3>3, <4>4
    <3> QED BY <3>4, <3>5
  <2>2. CASE Output!Open(k)
    <3>1. at'[k] = 0 /\ file'[p] = <<>>
      BY <2>2 DEF Output!Open, Output!Emptied, Written, WriteInv
    <3>2. [i \in 1..0 |-> k] = <<>>
      OBVIOUS
    <3> QED BY <1>2, <3>1, <3>2 DEF Output!Where
  <2>3. ASSUME stage[k] \in Written, before'[k] = before[k],
               \A l \in Output!Kid \ {k} : stage'[l] = stage[l]
        PROVE  file[p] = [i \in 1..at[k] |-> k] /\ p \in DOMAIN file
    <3>1. Alone(k)
      BY <1>2, <2>3 DEF Alone, Output!Where
    <3> QED BY <2>3, <3>1 DEF FileInv, WriteInv
  <2>4. CASE Output!Write(k)
    <3>1. /\ file' = [file EXCEPT ![p] = Output!Written(file[p], at[k] + 1, k)]
          /\ at'[k] = at[k] + 1 /\ at[k] \in Nat
          /\ UNCHANGED <<stage, before>>
      BY <2>4 DEF Output!Write
    <3>2. file[p] = [i \in 1..at[k] |-> k] /\ p \in DOMAIN file
      BY <2>3, <3>1
    <3>3. file'[p] = [i \in 1..at[k] + 1 |-> k]
      <4>1. file'[p] = Output!Written(file[p], at[k] + 1, k)
        BY <3>1, <3>2
      <4>2. Output!Written([i \in 1..at[k] |-> k], at[k] + 1, k) = [i \in 1..at[k] + 1 |-> k]
        BY <3>1, NextPage
      <4> QED BY <3>2, <4>1, <4>2
    <3> QED BY <1>2, <3>1, <3>3 DEF Output!Where
  <2>5. CASE Output!Close(k)
    <3>1. /\ stage[k] = "write" /\ UNCHANGED <<file, at, before>>
          /\ \A l \in Output!Kid \ {k} : stage'[l] = stage[l]
      BY <2>5 DEF Output!Close
    <3> QED BY <1>2, <2>3, <3>1 DEF Written, Output!Where
  <2>6. (\E l \in Output!Kid : Output!Open(l) \/ Output!Write(l) \/ Output!Close(l))
        \/ UNCHANGED Output!child
    BY DEF Output!Next, Output!Start, Output!MakePath, Output!Fork, Output!Wait,
           Output!Callback, Output!Exit, Output!SetDirBegin, Output!SetDirEnd,
           Output!SetFlag, Output!Tick, Output!vars
  <2>7. CASE \E l \in Output!Kid : Output!Open(l) \/ Output!Write(l) \/ Output!Close(l)
    BY <1>2, <2>1, <2>2, <2>4, <2>5, <2>7 DEF Output!Where
  <2> QED BY <1>1, <2>6, <2>7
<1> QED BY <1>1, <1>2, OutStays

LEMMA OutputAlways == Output!Spec => []OutputInv
<1>1. OutputInv /\ [Output!Next]_(Output!vars) => OutputInv'
  BY BudgetStep, OutputTypesStep, PathStep, WriteStep, FileStep DEF OutputInv
<1> QED BY <1>1, OutputInit, PTL DEF Output!Spec

(* The path given to the callback is that of a file that is this dump's     *)
(* core and nothing else, but for the cases PathHoldsCore names: for any    *)
(* number of dumps and changes of the options at any moment.                *)
THEOREM CallbackHasCore == Output!Spec => []PathHoldsCore
<1> SUFFICES OutputInv => PathHoldsCore
  BY OutputAlways, PTL
<1> SUFFICES ASSUME OutputInv, NEW d \in Output!Dumper, outputPc[d] = "callback",
                    ~Output!Unwritten(d), ~Output!Shared(d)
             PROVE  file[Output!Where(path[d])] =
                       [i \in 1..CorePages[forked[d]] |-> forked[d]]
  BY DEF PathHoldsCore, Output!PathHoldsCore
<1> DEFINE k == forked[d]
<1> USE DEF OutputInv
<1>1. /\ k \in Output!Kid /\ stage[k] = "closed" /\ at[k] = CorePages[k]
      /\ out[k] = path[d] /\ Made(path[d])
  BY DEF Output!Unwritten, OutputTypes, PathInv, WriteInv
<1>2. Alone(k)
  <2> SUFFICES ASSUME NEW l \in Output!Kid \ (before[k] \cup {k}), stage[l] \in Written,
                      Output!Where(out[l]) = Output!Where(out[k])
               PROVE  FALSE
    BY DEF Alone
  <2>1. Made(out[l])
    BY DEF WriteInv, PathInv, Written
  <2>2. l \in Output!Named
    BY <2>1 DEF Made, Output!Named
  <2>3. ~Output!ToldApart(out[l], path[d])
    BY <1>1, <2>1, ApartIsElsewhere
  <2> QED BY <1>1, <2>2, <2>3 DEF Output!Shared, Written
<1>3. file[Output!Where(out[k])] = [i \in 1..at[k] |-> k]
  BY <1>1, <1>2 DEF FileInv, Written
<1> QED BY <1>1, <1>3
=============================================================================
