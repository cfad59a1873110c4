------------------------ MODULE CrashHandlersProofs ------------------------
(***************************************************************************)
(* Proofs about who handles a crash: the steps of Opencore's own handlers  *)
(* (SignalHandlers), ChainIntact of SignalChain for any libraries, and the *)
(* two properties of ServiceSetup.  All hold for any number of threads,    *)
(* signals and calls.                                                      *)
(***************************************************************************)
EXTENDS CrashHandlers, SequenceTheorems, TLAPS

LEMMA Frames ==
    /\ NoFrame \notin Frame
    /\ \A t \in Thread : App(t) \in Frame /\ Hdl(t) \in Frame
    /\ \A t \in Thread : App(t)[1] = t /\ App(t)[2] = "app"
    /\ \A t \in Thread : Hdl(t)[1] = t /\ Hdl(t)[2] = "hdl"
    /\ \A f \in Frame : f[1] \in Thread /\ (f = App(f[1]) \/ f = Hdl(f[1]))
    /\ \A t, u \in Thread : App(t) # Hdl(u) /\ (Hdl(t) = Hdl(u) => t = u)
  BY DEF Frame, NoFrame, App, Hdl

(***************************************************************************)
(* Type correctness, with the labels each kind of frame may be at.         *)
(***************************************************************************)
FrameLabels ==
    /\ \A t \in Thread : pc[App(t)] \in AppLabels
    /\ \A t \in Thread : pc[Hdl(t)] \in HdlLabels

LEMMA TypeInit == Init => TypeOK /\ FrameLabels
<1> SUFFICES ASSUME Init PROVE TypeOK /\ FrameLabels
  OBVIOUS
<1>1. pc \in [Frame -> {"idle", "none"}]
  BY DEF Init
<1>2. \A t \in Thread : pc[App(t)] = "idle" /\ pc[Hdl(t)] = "none"
  BY Frames DEF Init
<1>3. 1 \in Sig /\ 1 \in 1..(NumSignals + 1)
  BY HandlerAssumption DEF Sig
<1> QED BY <1>1, <1>2, <1>3, HandlerAssumption
        DEF Init, TypeOK, FrameLabels, AppLabels, HdlLabels

\* Moving one frame to a label of its kind.
LEMMA Move ==
    ASSUME TypeOK, FrameLabels, NEW f \in Frame, NEW l, Goto(f, l),
           f[2] = "app" => l \in AppLabels, f[2] = "hdl" => l \in HdlLabels
    PROVE  pc' \in [Frame -> AppLabels \cup HdlLabels] /\ FrameLabels'
<1>1. l \in AppLabels \cup HdlLabels BY Frames
<1>2. pc' \in [Frame -> AppLabels \cup HdlLabels] BY <1>1 DEF TypeOK, Goto
<1>3. ASSUME NEW t \in Thread PROVE pc'[App(t)] \in AppLabels
  BY Frames DEF TypeOK, Goto, FrameLabels
<1>4. ASSUME NEW t \in Thread PROVE pc'[Hdl(t)] \in HdlLabels
  BY Frames DEF TypeOK, Goto, FrameLabels
<1> QED BY <1>2, <1>3, <1>4 DEF FrameLabels

\* Only application frames call Enable, only handlers handle.
LEMMA Kind ==
    ASSUME FrameLabels, NEW f \in Frame
    PROVE  /\ f[2] \in {"app", "hdl"}
           /\ f[2] = "app" => pc[f] \in AppLabels
           /\ f[2] = "hdl" => pc[f] \in HdlLabels
  BY Frames DEF FrameLabels

LEMMA TypeStep == TypeOK /\ FrameLabels /\ [Next]_vars => TypeOK' /\ FrameLabels'
<1> SUFFICES ASSUME TypeOK, FrameLabels, [Next]_vars
             PROVE  TypeOK' /\ FrameLabels'
  OBVIOUS
<1> DEFINE PcOK == pc' \in [Frame -> AppLabels \cup HdlLabels] /\ FrameLabels'
<1>1. ASSUME NEW t \in Thread, Call(t) PROVE TypeOK' /\ FrameLabels'
  <2>1. PICK l \in {"e_lock", "d_lock", "q_lock"} : Goto(App(t), l)
    BY <1>1 DEF Call
  <2>2. PcOK BY <2>1, Move, Frames DEF AppLabels
  <2> QED BY <1>1, <2>2 DEF Call, TypeOK, shared
<1>2. ASSUME NEW t \in Thread, NEW s \in Sig, Deliver(t, s) PROVE PcOK /\ alive' \in BOOLEAN
              /\ sig' \in [Thread -> Sig]
  <2>1. PICK l \in {"h_lock", "none"} : Goto(Hdl(t), l) BY <1>2 DEF Deliver
  <2> QED BY <1>2, <2>1, Move, Frames DEF Deliver, TypeOK, HdlLabels
<1>3. ASSUME NEW t \in Thread, NEW s \in Sig, Signal(t, s)
      PROVE  TypeOK' /\ FrameLabels'
  BY <1>2, <1>3 DEF Signal, TypeOK, shared, ghost
<1>4. ASSUME NEW f \in Frame, HandleReturn(f) PROVE TypeOK' /\ FrameLabels'
  <2>1. f[1] \in Thread /\ sig[f[1]] \in Sig BY Frames DEF TypeOK
  <2> QED BY <1>2, <1>4, <2>1 DEF HandleReturn, TypeOK, shared, ghost
<1>5. ASSUME NEW f \in Frame, EnableEnter(f) PROVE TypeOK' /\ FrameLabels'
  <2>1. PICK l \in {"e_save", "e_unlock"} : Goto(f, l) BY <1>5 DEF LoopStart, EnableEnter
  <2>2. PcOK
    BY <1>5, <2>1, Move, Kind
       DEF LoopStart, EnableEnter, At, AppLabels, HdlLabels, EnableLabels, DisableLabels, PastDisable
  <2>3. i' \in [Frame -> 1..(NumSignals + 1)] /\ enables' \in Nat
    BY <1>5, HandlerAssumption DEF LoopStart, EnableEnter, TypeOK
  <2> QED BY <1>5, <2>2, <2>3 DEF LoopStart, EnableEnter, TypeOK, shared
<1>6. ASSUME NEW f \in Frame, EnableSave(f) PROVE TypeOK' /\ FrameLabels'
  <2>1. pc' = pc \/ \E l \in {"e_unlock", "e_install"} : Goto(f, l)
    BY <1>6 DEF LoopStart, EnableSave
  <2>2. PcOK
    BY <1>6, <2>1, Move, Kind DEF LoopStart, EnableSave, At, AppLabels, HdlLabels,
       EnableLabels, DisableLabels, PastDisable, TypeOK, FrameLabels
  <2>3. /\ i' \in [Frame -> 1..(NumSignals + 1)]
        /\ restore' \in [Sig -> {"fatal", "recover", "zero", "opencore"}]
    <3>1. i[f] \in 1..(NumSignals + 1) BY DEF TypeOK
    <3>2. More(i[f]) => i[f] \in Sig /\ i[f] + 1 \in 1..(NumSignals + 1)
      BY <3>1, HandlerAssumption DEF More, Sig
    <3> QED BY <1>6, <3>1, <3>2, HandlerAssumption DEF LoopStart, EnableSave, TypeOK
  <2> QED BY <1>6, <2>2, <2>3 DEF LoopStart, EnableSave, TypeOK, ghost
<1>7. ASSUME NEW f \in Frame, EnableInstall(f) PROVE TypeOK' /\ FrameLabels'
  <2>1. pc' = pc \/ Goto(f, "e_set") BY <1>7 DEF EnableInstall
  <2>2. PcOK
    BY <1>7, <2>1, Move, Kind DEF EnableInstall, At, AppLabels, HdlLabels,
       EnableLabels, DisableLabels, PastDisable, TypeOK, FrameLabels
  <2>3. /\ i' \in [Frame -> 1..(NumSignals + 1)]
        /\ action' \in [Sig -> {"fatal", "recover", "zero", "opencore"}]
    <3>1. i[f] \in 1..(NumSignals + 1) BY DEF TypeOK
    <3>2. More(i[f]) => i[f] \in Sig /\ i[f] + 1 \in 1..(NumSignals + 1)
      BY <3>1, HandlerAssumption DEF More, Sig
    <3> QED BY <1>7, <3>1, <3>2 DEF EnableInstall, TypeOK
  <2> QED BY <1>7, <2>2, <2>3 DEF EnableInstall, TypeOK, ghost
<1>8. ASSUME NEW f \in Frame, DisableEnter(f) PROVE TypeOK' /\ FrameLabels'
  <2>1. PICK l \in {"d_restore", "d_unlock"} : Goto(f, l)
    BY <1>8 DEF LoopStart, DisableEnter, AlreadyUninstalled
  <2>2. PcOK
    BY <2>1, Move, Kind DEF AppLabels, HdlLabels, DisableLabels
  <2>3. i' \in [Frame -> 1..(NumSignals + 1)] /\ seen' \in [Thread -> Nat]
    BY <1>8, HandlerAssumption, Frames DEF LoopStart, DisableEnter, TypeOK
  <2> QED BY <1>8, <2>2, <2>3 DEF LoopStart, DisableEnter, TypeOK, shared
<1>9. ASSUME NEW f \in Frame, DisableRestore(f) PROVE TypeOK' /\ FrameLabels'
  <2>1. pc' = pc \/ Goto(f, "d_set") BY <1>9 DEF DisableRestore
  <2>2. PcOK
    BY <2>1, Move, Kind DEF AppLabels, HdlLabels, DisableLabels, TypeOK, FrameLabels
  <2>3. /\ i' \in [Frame -> 1..(NumSignals + 1)]
        /\ action' \in [Sig -> {"fatal", "recover", "zero", "opencore"}]
    <3>1. i[f] \in 1..(NumSignals + 1) BY DEF TypeOK
    <3>2. More(i[f]) => i[f] \in Sig /\ i[f] + 1 \in 1..(NumSignals + 1)
      BY <3>1, HandlerAssumption DEF More, Sig
    <3> QED BY <1>9, <3>1, <3>2 DEF DisableRestore, Restored, TypeOK
  <2> QED BY <1>9, <2>2, <2>3 DEF DisableRestore, TypeOK, ghost
<1>10. ASSUME NEW f \in Frame, NEW l,
              \/ EnableSet(f) /\ l = "e_unlock"
              \/ EnableUnlock(f) /\ l = "idle"
              \/ DisableSet(f) /\ l = "d_unlock"
              \/ DisableUnlock(f) /\ l = AfterDisable(f)
              \/ IsEnabledEnter(f) /\ l = "q_unlock"
              \/ IsEnabledUnlock(f) /\ l = "idle"
              \/ HandleEnter(f) /\ l = "d_lock"
              \/ HandleDump(f) /\ l = "raise"
              \/ HandleRaise(f) /\ l = "h_unlock"
              \/ HandleUnlock(f) /\ l = "h_return"
       PROVE  TypeOK' /\ FrameLabels'
  <2> USE DEF EnableSet, EnableUnlock, DisableSet, DisableUnlock, IsEnabledEnter,
      IsEnabledUnlock, HandleEnter, HandleDump, HandleRaise, HandleUnlock
  <2>1. Goto(f, l) BY <1>10
  <2>2. pc[f] \in {"e_set", "e_unlock", "d_set", "d_unlock", "q_lock", "q_unlock",
                   "h_lock", "dump", "raise", "h_unlock"}
    BY <1>10 DEF At
  <2>3. (f[2] = "app" => l \in AppLabels) /\ (f[2] = "hdl" => l \in HdlLabels)
    BY <1>10, Kind DEF At, AfterDisable, AppLabels, HdlLabels, EnableLabels,
       DisableLabels, PastDisable
  <2>4. PcOK BY <2>1, <2>3, Move
  <2> QED BY <1>10, <2>4 DEF TypeOK, shared, ghost
<1>11. CASE UNCHANGED vars
  BY <1>11 DEF vars, shared, ghost, TypeOK, FrameLabels
<1> QED
  BY <1>1, <1>3, <1>4, <1>5, <1>6, <1>7, <1>8, <1>9, <1>10, <1>11
     DEF Next, FrameStep

\* The variables keep their types: no loop leaves the signal table.
THEOREM TypeCorrect == Spec => []TypeOK
<1> DEFINE IInv == TypeOK /\ FrameLabels
<1>1. IInv /\ [Next]_vars => IInv' BY TypeStep
<1> QED BY <1>1, TypeInit, PTL DEF Spec

(***************************************************************************)
(* Both locks are held by exactly the frames inside their sections.        *)
(***************************************************************************)
SwitchLabels == EnableLabels \cup DisableLabels \cup {"q_unlock"}
HandleLabels == {"d_lock", "dump", "raise", "h_unlock"} \cup DisableLabels

LockInv ==
    /\ \A f \in Frame : pc[f] \in SwitchLabels <=> switchLock = f
    /\ \A t \in Thread : pc[Hdl(t)] \in HandleLabels <=> handleLock = Hdl(t)

LEMMA LockInit == Init => LockInv
  BY Frames DEF Init, LockInv, SwitchLabels, HandleLabels, EnableLabels, DisableLabels

LEMMA LockStep == TypeOK /\ FrameLabels /\ LockInv /\ [Next]_vars => LockInv'
<1> SUFFICES ASSUME TypeOK, FrameLabels, LockInv, [Next]_vars PROVE LockInv'
  OBVIOUS
<1> USE Frames DEF TypeOK, LockInv, SwitchLabels, HandleLabels, EnableLabels,
    DisableLabels, Goto, At
<1>1. ASSUME NEW t \in Thread, Call(t) PROVE LockInv'
  BY <1>1 DEF Call
<1>2. ASSUME NEW t \in Thread, NEW s \in Sig, Signal(t, s) PROVE LockInv'
  BY <1>2 DEF Signal, Deliver, Running
<1>3. ASSUME NEW f \in Frame, HandleReturn(f) PROVE LockInv'
  <2>1. f = Hdl(f[1]) /\ f[1] \in Thread
    BY <1>3 DEF HandleReturn, FrameLabels, AppLabels
  <2> QED BY <1>3, <2>1 DEF HandleReturn, Deliver
<1>4. ASSUME NEW f \in Frame, EnableEnter(f) \/ DisableEnter(f) \/ IsEnabledEnter(f)
      PROVE  LockInv'
  <2>1. PICK l : Goto(f, l) /\ l \in SwitchLabels /\ (l \in HandleLabels <=> pc[f] = "d_lock")
    BY <1>4 DEF LoopStart, EnableEnter, DisableEnter, IsEnabledEnter, AlreadyUninstalled
  <2>2. pc[f] \in {"e_lock", "d_lock", "q_lock"} /\ f[2] = "hdl" => pc[f] = "d_lock"
    BY Kind DEF HdlLabels, PastDisable
  <2>3. /\ pc[f] \in {"e_lock", "d_lock", "q_lock"} /\ switchLock = NoFrame
        /\ switchLock' = f /\ handleLock' = handleLock
    BY <1>4 DEF LoopStart, EnableEnter, DisableEnter, IsEnabledEnter
  <2>4. \A g \in Frame : pc'[g] \in SwitchLabels <=> switchLock' = g
    BY <2>1, <2>3
  <2>5. ASSUME NEW t \in Thread
        PROVE  pc'[Hdl(t)] \in HandleLabels <=> pc[Hdl(t)] \in HandleLabels
    BY <2>1, <2>2, <2>3
  <2> QED BY <2>3, <2>4, <2>5
<1>5. ASSUME NEW f \in Frame, EnableSave(f) \/ EnableInstall(f) \/ EnableSet(f)
      PROVE  LockInv'
  BY <1>5 DEF LoopStart, EnableSave, EnableInstall, EnableSet
<1>6. ASSUME NEW f \in Frame, DisableRestore(f) \/ DisableSet(f) PROVE LockInv'
  BY <1>6 DEF DisableRestore, DisableSet
<1>7. ASSUME NEW f \in Frame, EnableUnlock(f) \/ IsEnabledUnlock(f) PROVE LockInv'
  BY <1>7 DEF EnableUnlock, IsEnabledUnlock, FrameLabels, HdlLabels, PastDisable
<1>8. ASSUME NEW f \in Frame, DisableUnlock(f) PROVE LockInv'
  BY <1>8 DEF DisableUnlock, AfterDisable
<1>9. ASSUME NEW f \in Frame, HandleEnter(f) \/ HandleUnlock(f) PROVE LockInv'
  BY <1>9 DEF HandleEnter, HandleUnlock, HandleFree, FrameLabels, AppLabels
<1>10. ASSUME NEW f \in Frame, HandleDump(f) \/ HandleRaise(f) PROVE LockInv'
  BY <1>10 DEF HandleDump, HandleRaise
<1>11. CASE UNCHANGED vars BY <1>11 DEF vars
<1> QED
  BY <1>1, <1>2, <1>3, <1>4, <1>5, <1>6, <1>7, <1>8, <1>9, <1>10, <1>11
     DEF Next, FrameStep

\* No two threads are between HandleSignal's lock and its raise.
THEOREM HandlersSerial == Spec => []OneHandler
<1> DEFINE IInv == TypeOK /\ FrameLabels /\ LockInv
<1>1. Init => IInv BY TypeInit, LockInit
<1>2. IInv /\ [Next]_vars => IInv' BY TypeStep, LockStep
<1>3. IInv => OneHandler
  BY Frames DEF LockInv, OneHandler, HandleLabels
<1> QED BY <1>1, <1>2, <1>3, PTL DEF Spec

(***************************************************************************)
(* How far the holder of g_switch_lock has brought the dispositions.       *)
(***************************************************************************)
Ours == [s \in Sig |-> "opencore"]

Settled ==
    IF installed THEN action = Ours /\ restore = Orig ELSE action = Orig

Progress(f) ==
    /\ pc[f] \in {"e_unlock", "d_unlock", "q_unlock"} => Settled
    /\ pc[f] = "e_save" =>
          /\ ~installed /\ action = Orig
          /\ \A s \in Sig : s < i[f] => restore[s] = Orig[s]
    /\ pc[f] = "e_install" =>
          /\ ~installed /\ restore = Orig
          /\ \A s \in Sig : action[s] = IF s < i[f] THEN "opencore" ELSE Orig[s]
    /\ pc[f] = "e_set" => ~installed /\ restore = Orig /\ action = Ours
    /\ pc[f] = "d_restore" =>
          /\ installed /\ restore = Orig
          /\ \A s \in Sig : action[s] = IF s < i[f] THEN Orig[s] ELSE "opencore"
    /\ pc[f] = "d_set" => installed /\ restore = Orig /\ action = Orig

SwitchInv ==
    /\ switchLock = NoFrame => Settled
    /\ \A f \in Frame : Progress(f)

LEMMA SwitchInit == Init => SwitchInv
  BY DEF Init, SwitchInv, Progress, Settled

\* Two functions on the signals are equal when they agree on each.
LEMMA SameOnSig ==
    ASSUME NEW g, NEW h, NEW S, g \in [Sig -> S], h \in [Sig -> S],
           \A s \in Sig : g[s] = h[s]
    PROVE  g = h
  OBVIOUS

\* A frame that is not in a section of g_switch_lock changes none of it.
LEMMA SwitchOther ==
    ASSUME TypeOK, FrameLabels, LockInv, SwitchInv, NEW f \in Frame, NEW l,
           Goto(f, l), pc[f] \notin SwitchLabels, l \notin SwitchLabels,
           UNCHANGED <<action, restore, installed, switchLock, i>>
    PROVE  SwitchInv'
<1>1. \A g \in Frame : pc'[g] = pc[g] \/ pc'[g] \notin SwitchLabels
  BY DEF Goto, TypeOK
<1> QED BY <1>1 DEF SwitchInv, Progress, Settled, SwitchLabels, EnableLabels, DisableLabels

\* Only the holder's progress has to be looked at.
LEMMA SwitchHolder ==
    ASSUME TypeOK, LockInv, SwitchInv, NEW f \in Frame,
           \A g \in Frame \ {f} : pc'[g] = pc[g],
           switchLock \in {f, NoFrame}, Progress(f)', switchLock' = NoFrame => Settled'
    PROVE  SwitchInv'
<1>1. ASSUME NEW g \in Frame, g # f PROVE pc'[g] \notin SwitchLabels
  BY <1>1, Frames DEF LockInv
<1>2. ASSUME NEW g \in Frame, g # f PROVE Progress(g)'
  BY <1>1, <1>2 DEF Progress, SwitchLabels, EnableLabels, DisableLabels
<1> QED BY <1>2 DEF SwitchInv

\* Each step under the lock brings the dispositions one signal further.
LEMMA SwitchStep ==
    TypeOK /\ FrameLabels /\ LockInv /\ SwitchInv /\ [Next]_vars => SwitchInv'
<1> SUFFICES ASSUME TypeOK, FrameLabels, LockInv, SwitchInv, [Next]_vars
             PROVE  SwitchInv'
  OBVIOUS
<1> USE DEF shared, ghost
<1>1. ASSUME NEW f \in Frame, NEW l, Goto(f, l),
             pc[f] \notin SwitchLabels, l \notin SwitchLabels,
             UNCHANGED <<action, restore, installed, switchLock, i>>
      PROVE  SwitchInv'
  BY <1>1, SwitchOther
<1>2. ASSUME NEW t \in Thread, Call(t) PROVE SwitchInv'
  <2>1. PICK l \in {"e_lock", "d_lock", "q_lock"} : Goto(App(t), l)
    BY <1>2 DEF Call
  <2> QED BY <1>1, <1>2, <2>1, Frames
          DEF Call, At, SwitchLabels, EnableLabels, DisableLabels
<1>3. ASSUME NEW t \in Thread, NEW s \in Sig, Signal(t, s) PROVE SwitchInv'
  <2>1. PICK l \in {"h_lock", "none"} : Goto(Hdl(t), l) BY <1>3 DEF Signal, Deliver
  <2>2. pc[Hdl(t)] = "none" BY <1>3, Frames DEF Signal, Running
  <2> QED BY <1>1, <1>3, <2>1, <2>2, Frames
          DEF Signal, SwitchLabels, EnableLabels, DisableLabels
<1>4. ASSUME NEW f \in Frame, HandleReturn(f) PROVE SwitchInv'
  <2>1. f = Hdl(f[1]) /\ f[1] \in Thread /\ pc[f] = "h_return"
    BY <1>4, Frames DEF HandleReturn, At, FrameLabels, AppLabels, EnableLabels,
       DisableLabels
  <2>2. PICK l \in {"h_lock", "none"} : Goto(f, l) BY <1>4, <2>1 DEF HandleReturn, Deliver
  <2> QED BY <1>1, <1>4, <2>1, <2>2
          DEF HandleReturn, SwitchLabels, EnableLabels, DisableLabels
<1>5. ASSUME NEW f \in Frame,
             HandleEnter(f) \/ HandleDump(f) \/ HandleRaise(f) \/ HandleUnlock(f)
      PROVE  SwitchInv'
  <2>1. PICK l \in {"d_lock", "raise", "h_unlock", "h_return"} : Goto(f, l)
    BY <1>5 DEF HandleEnter, HandleDump, HandleRaise, HandleUnlock
  <2> QED BY <1>1, <1>5, <2>1
          DEF HandleEnter, HandleDump, HandleRaise, HandleUnlock, At, SwitchLabels,
              EnableLabels, DisableLabels
<1>6. ASSUME NEW f \in Frame,
             EnableEnter(f) \/ DisableEnter(f) \/ IsEnabledEnter(f)
      PROVE  SwitchInv'
  <2>1. /\ switchLock = NoFrame /\ switchLock' = f /\ Settled
        /\ UNCHANGED <<action, restore, installed>>
    BY <1>6 DEF LoopStart, EnableEnter, DisableEnter, IsEnabledEnter, SwitchInv
  <2>2. \A g \in Frame \ {f} : pc'[g] = pc[g]
    BY <1>6 DEF LoopStart, EnableEnter, DisableEnter, IsEnabledEnter, Goto, TypeOK
  <2>3. \/ pc'[f] = "e_save" /\ i'[f] = 1 /\ ~installed
        \/ pc'[f] = "d_restore" /\ i'[f] = 1 /\ installed
        \/ pc'[f] \in {"e_unlock", "d_unlock", "q_unlock"}
    BY <1>6 DEF LoopStart, EnableEnter, DisableEnter, IsEnabledEnter, Goto, TypeOK,
       AlreadyInstalled, AlreadyUninstalled
  <2>4. Progress(f)'
    BY <2>1, <2>3, HandlerAssumption DEF Progress, Settled, Sig, Ours
  <2> QED BY <2>1, <2>2, <2>4, SwitchHolder, Frames
<1>7. ASSUME NEW f \in Frame, EnableUnlock(f) \/ DisableUnlock(f) \/ IsEnabledUnlock(f)
      PROVE  SwitchInv'
  <2>1. /\ pc[f] \in {"e_unlock", "d_unlock", "q_unlock"}
        /\ UNCHANGED <<action, restore, installed>>
    BY <1>7 DEF EnableUnlock, DisableUnlock, IsEnabledUnlock, At
  <2>2. Settled' /\ switchLock = f
    BY <2>1 DEF SwitchInv, Progress, Settled, LockInv, SwitchLabels, EnableLabels,
       DisableLabels
  <2>3. \A g \in Frame \ {f} : pc'[g] = pc[g]
    BY <1>7 DEF EnableUnlock, DisableUnlock, IsEnabledUnlock, Goto, TypeOK
  <2>4. pc'[f] \in {"idle", "dump"}
    BY <1>7 DEF EnableUnlock, DisableUnlock, IsEnabledUnlock, AfterDisable, Goto, TypeOK
  <2> QED BY <2>2, <2>3, <2>4, SwitchHolder DEF Progress
<1>8. ASSUME NEW f \in Frame, EnableSave(f) \/ EnableInstall(f) \/ EnableSet(f)
                              \/ DisableRestore(f) \/ DisableSet(f)
      PROVE  SwitchInv'
  <2>1. switchLock = f /\ switchLock' = f /\ Progress(f) /\ f # NoFrame
    BY <1>8, Frames DEF LoopStart, EnableSave, EnableInstall, EnableSet, DisableRestore,
       DisableSet, At, SwitchInv, LockInv, SwitchLabels, EnableLabels, DisableLabels
  <2>2. \A g \in Frame \ {f} : pc'[g] = pc[g]
    BY <1>8 DEF LoopStart, EnableSave, EnableInstall, EnableSet, DisableRestore, DisableSet,
       Goto, TypeOK
  <2>3. i[f] \in 1..(NumSignals + 1) /\ NumSignals \in Nat /\ pc \in [Frame -> AppLabels \cup HdlLabels]
    BY HandlerAssumption DEF TypeOK
  <2>4. ASSUME EnableSave(f) PROVE Progress(f)'
    <3>1. CASE /\ More(i[f]) /\ pc' = pc
               /\ restore' = [restore EXCEPT ![i[f]] = action[i[f]]]
               /\ i' = [i EXCEPT ![f] = @ + 1]
      <4>1. pc[f] = "e_save" /\ UNCHANGED <<installed, action>>
        BY <2>4 DEF EnableSave, At
      <4>2. /\ ~installed /\ action = Orig
            /\ \A s \in Sig : s < i[f] => restore[s] = Orig[s]
        BY <2>1, <4>1 DEF Progress
      <4>3. i[f] \in Sig
        BY <2>3, <3>1 DEF More, Sig
      <4>4. i'[f] = i[f] + 1
        BY <3>1 DEF TypeOK
      <4>5. /\ ~installed /\ action = Orig /\ UNCHANGED <<installed, action>>
            /\ \A s \in Sig : s < i[f] => restore[s] = Orig[s]
            /\ pc'[f] = "e_save" /\ i'[f] = i[f] + 1 /\ i[f] \in Sig
        BY <3>1, <4>1, <4>2, <4>3, <4>4
      <4>6. \A s \in Sig : s < i[f] + 1 => restore'[s] = Orig[s]
        BY <3>1, <4>5 DEF TypeOK, Sig
      <4> QED BY <4>5, <4>6 DEF Progress
    <3>2. CASE Goto(f, "e_unlock")
      BY <2>1, <2>3, <2>4, <3>2 DEF LoopStart, EnableSave, At, Goto, Progress, Settled
    <3>3. CASE ~More(i[f]) /\ Goto(f, "e_install")
      <4>1. \A s \in Sig : s < i[f] BY <2>3, <3>3 DEF More, Sig
      <4>2. restore = Orig
        BY <2>1, <2>4, <4>1, HandlerAssumption, SameOnSig
           DEF LoopStart, EnableSave, At, Progress, TypeOK
      <4>3. \A s \in Sig : ~(s < 1) BY DEF Sig
      <4>4. /\ i'[f] = 1 /\ pc'[f] = "e_install" /\ ~installed /\ action = Orig
            /\ UNCHANGED <<action, restore, installed>>
        BY <2>1, <2>3, <2>4, <3>3 DEF LoopStart, EnableSave, At, Goto, Progress, TypeOK
      <4> QED BY <4>2, <4>3, <4>4 DEF Progress
    <3> QED BY <2>4, <3>1, <3>2, <3>3 DEF LoopStart, EnableSave
  <2>5. ASSUME EnableInstall(f) PROVE Progress(f)'
    <3>1. /\ ~installed /\ restore = Orig /\ UNCHANGED <<installed, restore>>
          /\ \A s \in Sig : action[s] = IF s < i[f] THEN "opencore" ELSE Orig[s]
      BY <2>1, <2>5 DEF EnableInstall, At, Progress
    <3>2. CASE More(i[f]) /\ pc' = pc
      <4>1. /\ pc'[f] = "e_install" /\ i'[f] = i[f] + 1
            /\ action' = [action EXCEPT ![i[f]] = "opencore"] /\ i[f] \in Sig
        BY <2>3, <2>5, <3>2 DEF EnableInstall, At, More, Sig, TypeOK
      <4>2. \A s \in Sig : action'[s] = IF s < i[f] + 1 THEN "opencore" ELSE Orig[s]
        BY <3>1, <4>1 DEF TypeOK, Sig
      <4> QED BY <3>1, <4>1, <4>2 DEF Progress
    <3>3. CASE ~More(i[f]) /\ Goto(f, "e_set") /\ UNCHANGED <<action, i>>
      <4>1. action = Ours
        BY <2>3, <3>1, <3>3, SameOnSig DEF More, Sig, TypeOK, Ours
      <4> QED BY <2>3, <3>1, <3>3, <4>1 DEF Goto, Progress, Ours
    <3> QED BY <2>5, <3>2, <3>3 DEF EnableInstall
  <2>6. ASSUME EnableSet(f) PROVE Progress(f)'
    BY <2>1, <2>3, <2>6 DEF EnableSet, At, Goto, Progress, Settled, Ours
  <2>7. ASSUME DisableRestore(f) PROVE Progress(f)'
    <3>1. /\ installed /\ restore = Orig /\ UNCHANGED <<installed, restore>>
          /\ \A s \in Sig : action[s] = IF s < i[f] THEN Orig[s] ELSE "opencore"
      BY <2>1, <2>7 DEF DisableRestore, At, Progress
    <3>2. CASE More(i[f]) /\ pc' = pc
      <4>1. /\ pc'[f] = "d_restore" /\ i'[f] = i[f] + 1
            /\ action' = [action EXCEPT ![i[f]] = Orig[i[f]]] /\ i[f] \in Sig
        BY <2>3, <2>7, <3>1, <3>2 DEF DisableRestore, Restored, At, More, Sig, TypeOK
      <4>2. \A s \in Sig : action'[s] = IF s < i[f] + 1 THEN Orig[s] ELSE "opencore"
        BY <3>1, <4>1 DEF TypeOK, Sig
      <4> QED BY <3>1, <4>1, <4>2 DEF Progress
    <3>3. CASE ~More(i[f]) /\ Goto(f, "d_set") /\ UNCHANGED <<action, i>>
      <4>1. action = Orig
        BY <2>3, <3>1, <3>3, HandlerAssumption, SameOnSig DEF More, Sig, TypeOK
      <4> QED BY <2>3, <3>1, <3>3, <4>1 DEF Goto, Progress
    <3> QED BY <2>7, <3>2, <3>3 DEF DisableRestore
  <2>8. ASSUME DisableSet(f) PROVE Progress(f)'
    BY <2>1, <2>3, <2>8 DEF DisableSet, At, Goto, Progress, Settled
  <2>9. Progress(f)' BY <1>8, <2>4, <2>5, <2>6, <2>7, <2>8
  <2> QED BY <2>1, <2>2, <2>9, SwitchHolder
<1>9. CASE UNCHANGED vars BY <1>9 DEF vars, SwitchInv, Progress, Settled
<1> QED
  BY <1>2, <1>3, <1>4, <1>5, <1>6, <1>7, <1>8, <1>9 DEF Next, FrameStep

\* Between two switches the dispositions and g_restore_action are whole, for
\* every interleaving of threads and handlers.
THEOREM RestoreIsFaithful == Spec => []RestoreFaithful
<1> DEFINE IInv == TypeOK /\ FrameLabels /\ LockInv /\ SwitchInv
<1>1. Init => IInv BY TypeInit, LockInit, SwitchInit
<1>2. IInv /\ [Next]_vars => IInv' BY TypeStep, LockStep, SwitchStep
<1>3. IInv => RestoreFaithful
  BY DEF SwitchInv, Settled, Ours, RestoreFaithful
<1> QED BY <1>1, <1>2, <1>3, PTL DEF Spec

(***************************************************************************)
(* What a handler's Disable leaves behind until Enable is called again.    *)
(***************************************************************************)
Enabling == \E f \in Frame : pc[f] \in {"e_save", "e_install", "e_set"}

SeenInv ==
    \A t \in Thread :
        /\ seen[t] <= enables
        /\ enables = seen[t] =>
              /\ pc[Hdl(t)] \in PastDisable \cup {"d_unlock"} => ~installed /\ ~Enabling
              /\ pc[Hdl(t)] \in {"d_restore", "d_set"} => ~Enabling

LEMMA SeenInit == Init => SeenInv
<1> SUFFICES ASSUME Init PROVE SeenInv
  OBVIOUS
<1>1. \A t \in Thread : pc[Hdl(t)] = "none" /\ seen[t] = 0 /\ enables = 0
  BY Frames DEF Init
<1>2. \A t \in Thread : seen[t] <= enables
  <2>1. enables = 0 /\ seen = [t \in Thread |-> 0] BY DEF Init
  <2> SUFFICES ASSUME NEW t \in Thread PROVE seen[t] <= enables
    OBVIOUS
  <2>2. seen[t] = 0 /\ 0 <= 0 BY <2>1
  <2> QED BY <2>1, <2>2
<1>3. \A t \in Thread :
         pc[Hdl(t)] \notin PastDisable \cup {"d_unlock", "d_restore", "d_set"}
  BY <1>1 DEF PastDisable
<1> QED BY <1>2, <1>3 DEF SeenInv

\* A step of `f` that neither enables nor moves f past a Disable.
LEMMA SeenMove ==
    ASSUME TypeOK, SeenInv, NEW f \in Frame, NEW l, Goto(f, l) \/ pc' = pc,
           l \in {"e_save", "e_install", "e_set"} => pc[f] \in {"e_save", "e_install", "e_set"},
           l \in PastDisable \cup {"d_unlock"} =>
              pc[f] \in PastDisable \cup {"d_unlock"} \/ f[2] = "app",
           l \in {"d_restore", "d_set"} => pc[f] \in {"d_restore", "d_set"} \/ f[2] = "app",
           UNCHANGED <<installed, enables, seen>>
    PROVE  SeenInv'
<1>1. Enabling' => Enabling BY DEF Enabling, Goto, TypeOK
<1>2. ASSUME NEW t \in Thread
      PROVE  /\ pc'[Hdl(t)] \in PastDisable \cup {"d_unlock"} =>
                   pc[Hdl(t)] \in PastDisable \cup {"d_unlock"}
             /\ pc'[Hdl(t)] \in {"d_restore", "d_set"} =>
                   pc[Hdl(t)] \in {"d_restore", "d_set"}
  BY Frames DEF Goto, TypeOK
<1> QED BY <1>1, <1>2 DEF SeenInv

LEMMA SeenStep ==
    TypeOK /\ FrameLabels /\ LockInv /\ SwitchInv /\ SeenInv /\ [Next]_vars => SeenInv'
<1> SUFFICES ASSUME TypeOK, FrameLabels, LockInv, SwitchInv, SeenInv, [Next]_vars
             PROVE  SeenInv'
  OBVIOUS
<1> USE DEF shared, ghost
<1>1. ASSUME NEW t \in Thread, Call(t) PROVE SeenInv'
  <2>1. PICK l \in {"e_lock", "d_lock", "q_lock"} : Goto(App(t), l)
    BY <1>1 DEF Call
  <2> QED BY <1>1, <2>1, SeenMove, Frames DEF Call, PastDisable
<1>2. ASSUME NEW t \in Thread, NEW s \in Sig, Signal(t, s) PROVE SeenInv'
  <2>1. PICK l \in {"h_lock", "none"} : Goto(Hdl(t), l) BY <1>2 DEF Signal, Deliver
  <2> QED BY <1>2, <2>1, SeenMove, Frames DEF Signal, PastDisable
<1>3. ASSUME NEW f \in Frame, HandleReturn(f) PROVE SeenInv'
  <2>1. f[1] \in Thread BY Frames
  <2>2. PICK l \in {"h_lock", "none"} : Goto(Hdl(f[1]), l)
    BY <1>3, <2>1 DEF HandleReturn, Deliver
  <2> QED BY <1>3, <2>1, <2>2, SeenMove, Frames DEF HandleReturn, PastDisable
<1>4. ASSUME NEW f \in Frame,
             HandleEnter(f) \/ HandleDump(f) \/ HandleRaise(f) \/ HandleUnlock(f)
      PROVE  SeenInv'
  BY <1>4, SeenMove DEF HandleEnter, HandleDump, HandleRaise, HandleUnlock, At, PastDisable
<1>5. ASSUME NEW f \in Frame,
             EnableUnlock(f) \/ IsEnabledEnter(f) \/ IsEnabledUnlock(f)
      PROVE  SeenInv'
  BY <1>5, SeenMove DEF EnableUnlock, IsEnabledEnter, IsEnabledUnlock, PastDisable
<1>6. ASSUME NEW f \in Frame, EnableSave(f) \/ EnableInstall(f) PROVE SeenInv'
  <2>1. pc' = pc \/ \E l \in {"e_unlock", "e_install", "e_set"} : Goto(f, l)
    BY <1>6 DEF LoopStart, EnableSave, EnableInstall
  <2>2. pc[f] \in {"e_save", "e_install"} /\ UNCHANGED <<installed, enables, seen>>
    BY <1>6 DEF LoopStart, EnableSave, EnableInstall, At
  <2> QED BY <2>1, <2>2, SeenMove DEF PastDisable
<1>7. ASSUME NEW f \in Frame, DisableRestore(f) \/ DisableUnlock(f) PROVE SeenInv'
  <2>1. pc' = pc \/ \E l \in {"d_set", "dump", "idle"} : Goto(f, l) /\ (l = "dump" => pc[f] = "d_unlock")
    BY <1>7 DEF DisableRestore, DisableUnlock, AfterDisable, At
  <2>2. pc[f] \in {"d_restore", "d_unlock"} /\ UNCHANGED <<installed, enables, seen>>
    BY <1>7 DEF DisableRestore, DisableUnlock, At
  <2>3. ASSUME Goto(f, "d_set") PROVE pc[f] = "d_restore"
    BY <1>7, <2>3 DEF DisableRestore, DisableUnlock, AfterDisable, At, Goto, TypeOK
  <2> QED BY <2>1, <2>2, <2>3, SeenMove DEF PastDisable
<1>8. ASSUME NEW f \in Frame, EnableEnter(f) PROVE SeenInv'
  <2>1. CASE installed
    BY <1>8, <2>1, SeenMove DEF LoopStart, EnableEnter, AlreadyInstalled, PastDisable
  <2>2. CASE ~installed
    <3>1. enables' = enables + 1 /\ seen' = seen
      BY <1>8, <2>2 DEF LoopStart, EnableEnter, AlreadyInstalled
    <3> QED BY <3>1 DEF SeenInv, TypeOK
  <2> QED BY <2>1, <2>2
<1>9. ASSUME NEW f \in Frame, EnableSet(f) PROVE SeenInv'
  <2>1. Enabling BY <1>9 DEF EnableSet, At, Enabling
  <2>2. \A t \in Thread : pc[Hdl(t)] \in PastDisable \cup {"d_unlock", "d_restore", "d_set"}
                            => enables # seen[t]
    BY <2>1 DEF SeenInv
  <2>3. f[2] = "app" BY <1>9, Kind DEF EnableSet, At, HdlLabels, DisableLabels, PastDisable
  <2>4. \A t \in Thread : pc'[Hdl(t)] = pc[Hdl(t)]
    BY <1>9, <2>3, Frames DEF EnableSet, Goto, TypeOK
  <2> QED BY <1>9, <2>2, <2>4 DEF EnableSet, SeenInv
<1>10. ASSUME NEW f \in Frame, DisableEnter(f) \/ DisableSet(f) PROVE SeenInv'
  <2>1. \A g \in Frame : g # f => pc'[g] = pc[g] /\ pc[g] \notin SwitchLabels
    BY <1>10, Frames DEF LoopStart, DisableEnter, DisableSet, Goto, TypeOK, LockInv, At,
       SwitchLabels, DisableLabels
  <2>2. pc'[f] \in {"d_restore", "d_unlock"} /\ (pc'[f] = "d_unlock" => ~installed')
    BY <1>10 DEF LoopStart, DisableEnter, DisableSet, Goto, TypeOK, AlreadyUninstalled
  <2>3. ~Enabling'
    BY <2>1, <2>2 DEF Enabling, SwitchLabels, EnableLabels
  <2>4. /\ enables' = enables /\ (installed' => installed)
        /\ \A t \in Thread : seen'[t] \in {seen[t], enables}
        /\ \A t \in Thread : Hdl(t) # f => seen'[t] = seen[t]
    BY <1>10, Frames DEF LoopStart, DisableEnter, DisableSet, TypeOK
  <2> QED BY <2>1, <2>2, <2>3, <2>4, Frames DEF SeenInv, TypeOK, PastDisable
<1>11. CASE UNCHANGED vars BY <1>11 DEF vars, SeenInv, Enabling
<1> QED
  BY <1>1, <1>2, <1>3, <1>4, <1>5, <1>6, <1>7, <1>8, <1>9, <1>10, <1>11
     DEF Next, FrameStep

\* A crash that has been dumped is raised into the action it would have met
\* without Opencore, as long as nobody has enabled it again meanwhile.
THEOREM OriginalReached == Spec => []ReachesOriginal
<1> DEFINE IInv == TypeOK /\ FrameLabels /\ LockInv /\ SwitchInv /\ SeenInv
<1>1. Init => IInv BY TypeInit, LockInit, SwitchInit, SeenInit
<1>2. IInv /\ [Next]_vars => IInv' BY TypeStep, LockStep, SwitchStep, SeenStep
<1>3. IInv => ReachesOriginal
  <2> SUFFICES ASSUME IInv, NEW t \in Thread, pc[Hdl(t)] \in PastDisable,
                      enables = seen[t]
               PROVE  action = Orig
    BY DEF ReachesOriginal
  <2>1. ~installed /\ ~Enabling BY DEF SeenInv
  <2>2. CASE switchLock = NoFrame BY <2>1, <2>2 DEF SwitchInv, Settled
  <2>3. CASE switchLock # NoFrame
    <3>1. PICK f \in Frame : switchLock = f BY <2>3 DEF TypeOK
    <3>2. pc[f] \in SwitchLabels \ {"e_save", "e_install", "e_set"}
      BY <2>1, <3>1 DEF LockInv, Enabling
    <3> QED BY <2>1, <3>2 DEF SwitchInv, Progress, Settled, SwitchLabels,
                EnableLabels, DisableLabels
  <2> QED BY <2>2, <2>3
<1> QED BY <1>1, <1>2, <1>3, PTL DEF Spec

\* However many threads crash and whoever enables and disables: the crashes are
\* dumped one at a time and each of them once, unless Enable was called since.
THEOREM DumpedOnce == Spec => []CrashDumpedOnce
BY HandlersSerial, OriginalReached, PTL DEF CrashDumpedOnce


---------------------------------------------------------------------------
(* Opencore's signal handler among those of other libraries. *)

\* Nobody is in the chain twice, since Install asks for ~installed.
Distinct ==
    lifo => \A m, n \in 1..Len(chain) : chain[m] = chain[n] => m = n

ChainInv == Chain!TypeOK /\ Chain!ChainIntact /\ Distinct

\* An owner that installs goes on top of a chain it is not in yet.
LEMMA InstallKeeps ==
    ASSUME ChainInv, NEW h \in Chain!Owner, Chain!Install(h), chainCalls' \in 0..MaxEvents,
           crash' \in {"none", "raised", "dump", "dead"}
    PROVE  ChainInv'
<1>1. Chain!TypeOK'
  BY DEF ChainInv, Chain!TypeOK, Chain!Install, Chain!Found
<1>2. ASSUME lifo'
      PROVE  Chain!ChainIntact' /\ Distinct'
  <2>1. /\ lifo /\ chain \in Seq(Chain!Owner) /\ saved \in [Chain!Owner -> Chain!Owner \cup {Default}]
        /\ owned \in [Chain!Owner -> BOOLEAN]
    BY <1>2 DEF ChainInv, Chain!TypeOK, Chain!Install
  <2>2. /\ Len(chain') = Len(chain) + 1
        /\ chain'[Len(chain) + 1] = h
        /\ \A n \in 1..Len(chain) : chain'[n] = chain[n]
        /\ Len(chain) \in Nat
    BY <2>1 DEF Chain!Install
  <2>3. \A n \in 1..Len(chain) : chain[n] # h /\ chain[n] \in Chain!Owner
    BY <2>1 DEF ChainInv, Chain!ChainIntact, Chain!Install
  <2>4. Chain!Top' = h
    BY <2>2, <2>1 DEF Chain!Top, Chain!Install
  <2>5. saved'[h] = Chain!Top
    BY <2>1 DEF ChainInv, Chain!ChainIntact, Chain!Install, Chain!Found
  <2>6. \A n \in 1..Len(chain') :
           saved'[chain'[n]] = IF n = 1 THEN Default ELSE chain'[n - 1]
    <3>1. ASSUME NEW n \in 1..Len(chain)
          PROVE  saved'[chain'[n]] = IF n = 1 THEN Default ELSE chain'[n - 1]
      BY <3>1, <2>1, <2>2, <2>3 DEF ChainInv, Chain!ChainIntact, Chain!Install
    <3>2. saved'[chain'[Len(chain) + 1]] =
             IF Len(chain) + 1 = 1 THEN Default ELSE chain'[Len(chain)]
      BY <2>1, <2>2, <2>5 DEF Chain!Top
    <3> QED  BY <3>1, <3>2, <2>2
  <2>7. \A g \in Chain!Owner : owned'[g] <=> \E n \in 1..Len(chain') : chain'[n] = g
    <3>1. ASSUME NEW g \in Chain!Owner, g # h
          PROVE  owned'[g] <=> \E n \in 1..Len(chain') : chain'[n] = g
      <4>1. owned'[g] = owned[g]
        BY <3>1, <2>1 DEF Chain!Install
      <4>2. owned[g] <=> \E n \in 1..Len(chain) : chain[n] = g
        BY <2>1 DEF ChainInv, Chain!ChainIntact
      <4> QED  BY <4>1, <4>2, <3>1, <2>2
    <3>2. owned'[h] /\ \E n \in 1..Len(chain') : chain'[n] = h
      BY <2>1, <2>2 DEF Chain!Install
    <3> QED  BY <3>1, <3>2
  <2>8. current' = h
    BY DEF Chain!Install
  <2>9. Distinct'
    BY <2>1, <2>2, <2>3 DEF ChainInv, Distinct
  <2> QED  BY <2>4, <2>6, <2>7, <2>8, <2>9 DEF Chain!ChainIntact
<1> QED  BY <1>1, <1>2 DEF ChainInv, Chain!ChainIntact, Distinct

\* A sequence without its last element.
LEMMA WithoutLast ==
    ASSUME NEW S, NEW s \in Seq(S), Len(s) \in Nat \ {0}
    PROVE  /\ SubSeq(s, 1, Len(s) - 1) \in Seq(S)
           /\ Len(SubSeq(s, 1, Len(s) - 1)) = Len(s) - 1
           /\ \A n \in 1..Len(s) - 1 : SubSeq(s, 1, Len(s) - 1)[n] = s[n]
<1> DEFINE k == Len(s) - 1
           t == SubSeq(s, 1, k)
<1>1. k \in Nat /\ \A n \in 1..k : s[n] \in S
  OBVIOUS
<1> HIDE DEF k
<1>2. /\ t \in Seq(S)
      /\ Len(t) = IF 1 <= k THEN k - 1 + 1 ELSE 0
      /\ \A n \in 1..k - 1 + 1 : t[n] = s[1 + n - 1]
  BY <1>1, SubSeqProperties
<1>3. k - 1 + 1 = k /\ (~(1 <= k) => k = 0)
  BY <1>1
<1>4. \A n \in 1..k : 1 + n - 1 = n
  OBVIOUS
<1>5. Len(t) = k /\ \A n \in 1..k : t[n] = s[n]
  BY <1>1, <1>2, <1>3, <1>4
<1> QED  BY <1>2, <1>5 DEF k

\* An owner that removes its handler in turn leaves the chain below it.
LEMMA RestoreKeeps ==
    ASSUME Chain!ChainAssumption, ChainInv, NEW h \in Chain!Owner, Chain!Restore(h), chainCalls' \in 0..MaxEvents,
           crash' \in {"none", "raised", "dump", "dead"}
    PROVE  ChainInv'
<1>1. Chain!TypeOK'
  BY DEF ChainInv, Chain!TypeOK, Chain!Restore, Chain!Below, Chain!Top
<1>2. ASSUME lifo'
      PROVE  Chain!ChainIntact' /\ Distinct'
  <2>1. /\ lifo /\ Chain!Top = h /\ chain \in Seq(Chain!Owner)
        /\ saved \in [Chain!Owner -> Chain!Owner \cup {Default}]
        /\ owned \in [Chain!Owner -> BOOLEAN]
    BY <1>2 DEF ChainInv, Chain!TypeOK, Chain!Restore
  <2>2. chain # <<>> /\ Len(chain) \in Nat \ {0} /\ chain[Len(chain)] = h
    BY <2>1 DEF Chain!Top, Chain!Owner, Chain!ChainAssumption
  <2>3. /\ Len(chain') = Len(chain) - 1
        /\ \A n \in 1..Len(chain) - 1 : chain'[n] = chain[n]
        /\ chain' \in Seq(Chain!Owner)
    BY <2>1, <2>2, WithoutLast DEF Chain!Restore, Chain!Below
  <2>4. \A n \in 1..Len(chain) - 1 : chain[n] # h /\ chain[n] \in Chain!Owner
    BY <2>1, <2>2 DEF ChainInv, Distinct
  <2>5. current' = Chain!Top'
    <3>1. current' = IF Len(chain) = 1 THEN Default ELSE chain[Len(chain) - 1]
      <4>1. current' = saved[chain[Len(chain)]]
        BY <2>2 DEF Chain!Restore
      <4>2. Len(chain) \in 1..Len(chain)
        BY <2>2
      <4> QED  BY <2>1, <4>1, <4>2 DEF ChainInv, Chain!ChainIntact
    <3>2. Len(chain) = 1 <=> chain' = <<>>
      BY <2>2, <2>3
    <3> QED  BY <3>1, <3>2, <2>2, <2>3 DEF Chain!Top
  <2>6. \A n \in 1..Len(chain') :
           saved'[chain'[n]] = IF n = 1 THEN Default ELSE chain'[n - 1]
    <3> SUFFICES ASSUME NEW n \in 1..Len(chain')
                 PROVE  saved'[chain'[n]] = IF n = 1 THEN Default ELSE chain'[n - 1]
      OBVIOUS
    <3>1. /\ n \in 1..Len(chain) /\ n \in 1..Len(chain) - 1
          /\ n # 1 => n - 1 \in 1..Len(chain) - 1
      BY <2>2, <2>3
    <3>2. saved'[chain'[n]] = saved[chain[n]]
      BY <2>1, <2>3, <2>4, <3>1 DEF Chain!Restore
    <3>3. saved[chain[n]] = IF n = 1 THEN Default ELSE chain[n - 1]
      BY <2>1, <3>1 DEF ChainInv, Chain!ChainIntact
    <3> QED  BY <2>3, <3>1, <3>2, <3>3
  <2>7. \A g \in Chain!Owner : owned'[g] <=> \E n \in 1..Len(chain') : chain'[n] = g
    <3>1. ASSUME NEW g \in Chain!Owner, g # h
          PROVE  owned'[g] <=> \E n \in 1..Len(chain') : chain'[n] = g
      <4>1. owned'[g] = owned[g]
        BY <3>1, <2>1 DEF Chain!Restore
      <4>2. owned[g] <=> \E n \in 1..Len(chain) : chain[n] = g
        BY <2>1 DEF ChainInv, Chain!ChainIntact
      <4> QED  BY <4>1, <4>2, <3>1, <2>2, <2>3
    <3>2. ~owned'[h] /\ ~\E n \in 1..Len(chain') : chain'[n] = h
      BY <2>1, <2>2, <2>3, <2>4 DEF Chain!Restore
    <3> QED  BY <3>1, <3>2
  <2>8. Distinct'
    BY <2>1, <2>2, <2>3 DEF ChainInv, Distinct
  <2> QED  BY <2>5, <2>6, <2>7, <2>8 DEF Chain!ChainIntact
<1> QED  BY <1>1, <1>2 DEF ChainInv, Chain!ChainIntact, Distinct

\* No step of any owner, of the crashing thread or of the kernel breaks it.
LEMMA ChainAlways == Chain!Spec => []ChainInv
<1> Chain!ChainAssumption
  BY OwnersAssumption
<1>1. Chain!Init => ChainInv
  BY DEF Chain!Init, ChainInv, Chain!TypeOK, Chain!ChainIntact, Distinct, Chain!Top,
         Chain!Owner, Chain!ChainAssumption
<1>2. ChainInv /\ [Chain!Next]_(Chain!vars) => ChainInv'
  <2> SUFFICES ASSUME ChainInv, [Chain!Next]_(Chain!vars) PROVE ChainInv'
    OBVIOUS
  <2>1. ASSUME UNCHANGED <<current, saved, owned, chain, lifo>>,
               chainCalls' \in 0..MaxEvents,
               crash' \in {"none", "raised", "dump", "dead"}
        PROVE  ChainInv'
    BY <2>1 DEF ChainInv, Chain!TypeOK, Chain!ChainIntact, Distinct, Chain!Top
  <2>2. crash \in {"none", "raised", "dump", "dead"} /\ chainCalls \in 0..MaxEvents
    BY DEF ChainInv, Chain!TypeOK
  <2>3. ASSUME NEW h \in Chain!Owner, Chain!Call(h)
        PROVE  ChainInv'
    <3>1. chainCalls' \in 0..MaxEvents /\ crash' = crash
      BY <2>2, <2>3 DEF Chain!Call, Chain!ChainAssumption
    <3> QED  BY <2>2, <2>3, <3>1, InstallKeeps, RestoreKeeps DEF Chain!Call
  <2>4. CASE Chain!Enable
    BY <2>3, <2>4 DEF Chain!Enable, Chain!Owner
  <2>5. CASE Chain!Disable
    BY <2>3, <2>5 DEF Chain!Disable, Chain!Owner
  <2>6. CASE \E l \in Libraries : Chain!LibraryCall(l)
    BY <2>3, <2>6 DEF Chain!LibraryCall, Chain!Owner
  <2>7. CASE Chain!Crash
    BY <2>1, <2>2, <2>7 DEF Chain!Crash
  <2>8. CASE Chain!Die
    BY <2>1, <2>2, <2>8 DEF Chain!Die
  <2>9. CASE Chain!DumpAndRaise
    BY <2>1, <2>2, <2>9 DEF Chain!DumpAndRaise
  <2>10. CASE Chain!HandleSignal
    <3>1. chainCalls' \in 0..MaxEvents /\ crash' = "dump"
      BY <2>2, <2>10 DEF Chain!HandleSignal
    <3> QED  BY <2>1, <2>10, <3>1, RestoreKeeps
             DEF Chain!HandleSignal, Chain!RestoreFirst, Chain!Owner
  <2>11. ASSUME NEW l \in Libraries, Chain!LibraryHandler(l)
         PROVE  ChainInv'
    <3>1. chainCalls' \in 0..MaxEvents /\ crash' = crash /\ l \in Chain!Owner
      BY <2>2, <2>11 DEF Chain!LibraryHandler, Chain!Owner
    <3> QED  BY <2>1, <2>2, <2>11, <3>1, RestoreKeeps
             DEF Chain!LibraryHandler, Chain!RestoreFirst
  <2>12. CASE UNCHANGED Chain!vars
    BY <2>1, <2>2, <2>12 DEF Chain!vars
  <2> QED
    BY <2>4, <2>5, <2>6, <2>7, <2>8, <2>9, <2>10, <2>11, <2>12 DEF Chain!Next, Chain!Handle
<1> QED  BY <1>1, <1>2, PTL DEF Chain!Spec

(* As long as handlers are removed in the reverse order of their            *)
(* installation, a signal goes through all of them to the default action,   *)
(* however installations, removals and the handlers' own removals are       *)
(* interleaved.                                                             *)
THEOREM ChainStaysIntact == Chain!Spec => []ChainIntact
BY ChainAlways, PTL DEF ChainInv, ChainIntact

---------------------------------------------------------------------------
(* The uncaught exception handler. *)

JavaLabel == {"idle", "nativeInit", "opencore-bg", "opencore-post", "ready", "save", "set",
              "uncaught", "doCoredump", "killProcess"}

JavaTypes ==
    /\ javaPc \in [Thread -> JavaLabel]
    /\ work \subseteq Java!Worker /\ loopers \in [Java!Worker -> Nat]
    /\ ready \in BOOLEAN /\ natives \in BOOLEAN

\* What init() has done by the label it is at stays done, whoever calls it again.
InitInv ==
    /\ \A w \in Java!Worker : loopers[w] = IF w \in work THEN 1 ELSE 0
    /\ \A t \in Thread :
          /\ javaPc[t] \in {"opencore-bg", "opencore-post", "ready"} => natives
          /\ javaPc[t] \in {"opencore-post", "ready"} => "opencore-bg" \in work
          /\ javaPc[t] = "ready" => "opencore-post" \in work
    /\ ready => natives /\ work = Java!Worker

\* JavaCrashHandler is only ever set, saved or put back by a service that is ready.
ReadyInv ==
    /\ Opencore \in {handler, previous, default} => ready
    /\ \A t \in Thread : javaPc[t] \in {"save", "set", "uncaught", "doCoredump"} => ready

SetupInv == JavaTypes /\ InitInv /\ ReadyInv

LEMMA SetupInit == Java!Init => SetupInv
<1> SUFFICES ASSUME Java!Init PROVE SetupInv
  OBVIOUS
<1> USE DEF Java!Init
<1>1. JavaTypes
  BY DEF JavaTypes, JavaLabel
<1>2. InitInv
  BY DEF InitInv
<1>3. ReadyInv
  BY OwnersAssumption DEF ReadyInv, Java!SetupAssumption
<1> QED BY <1>1, <1>2, <1>3 DEF SetupInv

LEMMA SetupStep == SetupInv /\ [Java!Next]_(Java!vars) => SetupInv'
<1> SUFFICES ASSUME SetupInv, [Java!Next]_(Java!vars) PROVE SetupInv'
  OBVIOUS
<1> USE OwnersAssumption
    DEF SetupInv, JavaTypes, JavaLabel, InitInv, ReadyInv, Java!SetupAssumption, Java!At, Java!Goto,
        Java!Begin, Java!Enter, Java!Leave, Java!setup, Java!java
<1>1. ASSUME NEW t \in Thread, Java!InitEnter(t) PROVE SetupInv'
  BY <1>1 DEF Java!InitEnter
<1>2. ASSUME NEW t \in Thread, Java!NativeInit(t) PROVE SetupInv'
  <2>1. javaPc[t] = "nativeInit" /\ UNCHANGED <<ready, work, loopers, handler, previous, default>>
    BY <1>2 DEF Java!NativeInit
  <2>2. CASE natives' = TRUE /\ javaPc' = [javaPc EXCEPT ![t] = "opencore-bg"]
    BY <2>1, <2>2
  <2>3. CASE natives' = natives /\ javaPc' = [javaPc EXCEPT ![t] = "idle"]
    BY <2>1, <2>3
  <2> QED BY <1>2, <2>2, <2>3 DEF Java!NativeInit
<1>3. ASSUME NEW t \in Thread, NEW w \in Java!Worker, Java!MakeWorker(t, w) PROVE SetupInv'
  <2>1. /\ javaPc[t] = w /\ w \in {"opencore-bg", "opencore-post"}
        /\ UNCHANGED <<ready, natives, handler, previous, default>>
    BY <1>3 DEF Java!MakeWorker, Java!Worker
  <2>2. CASE /\ w \notin work /\ work' = work \cup {w}
             /\ loopers' = [loopers EXCEPT ![w] = @ + 1]
             /\ javaPc' = [javaPc EXCEPT ![t] = Java!After(w)]
    <3>1. JavaTypes'
      BY <2>1, <2>2 DEF Java!After, Java!Worker
    <3>2. \A v \in Java!Worker : loopers'[v] = IF v \in work' THEN 1 ELSE 0
      BY <2>1, <2>2
    <3> QED BY <2>1, <2>2, <3>1, <3>2 DEF Java!After, Java!Worker
  <2>3. CASE UNCHANGED <<work, loopers>> /\ javaPc' = [javaPc EXCEPT ![t] = "idle"]
    BY <2>1, <2>3
  <2>4. CASE /\ w \in work /\ UNCHANGED <<work, loopers>>
             /\ javaPc' = [javaPc EXCEPT ![t] = Java!After(w)]
    BY <2>1, <2>4 DEF Java!After, Java!Worker
  <2> QED BY <1>3, <2>2, <2>3, <2>4 DEF Java!MakeWorker, Java!Missing
<1>4. ASSUME NEW t \in Thread, Java!SetReady(t) PROVE SetupInv'
  BY <1>4 DEF Java!SetReady, Java!Worker
<1>5. ASSUME NEW t \in Thread, Java!Enable(t) \/ Java!EnableSave(t) \/ Java!EnableSet(t)
      PROVE  SetupInv'
  BY <1>5 DEF Java!Enable, Java!EnableSave, Java!EnableSet, Java!Kept, Java!IsReady
<1>6. ASSUME NEW t \in Thread, Java!Disable(t) \/ Java!UncaughtDisable(t) PROVE SetupInv'
  BY <1>6 DEF Java!Disable, Java!UncaughtDisable, Java!SetDefault
<1>7. ASSUME NEW t \in Thread,
             Java!Uncaught(t) \/ Java!UncaughtDump(t) \/ Java!KillProcess(t)
      PROVE  SetupInv'
  BY <1>7 DEF Java!Uncaught, Java!UncaughtDump, Java!KillProcess
<1>8. ASSUME NEW t \in Thread, Java!LibrarySet(t) \/ Java!LibraryReset(t) PROVE SetupInv'
  BY <1>8 DEF Java!LibrarySet, Java!LibraryReset
<1>9. CASE UNCHANGED Java!vars
  BY <1>9 DEF Java!vars
<1> QED
  BY <1>1, <1>2, <1>3, <1>4, <1>5, <1>6, <1>7, <1>8, <1>9 DEF Java!Next

LEMMA SetupAlways == Java!Spec => []SetupInv
BY SetupInit, SetupStep, PTL DEF Java!Spec

(* However often init() has failed, at whatever step, and by whichever      *)
(* threads it was called again: an exception that JavaCrashHandler gets     *)
(* finds the natives and one thread behind each of the two handlers.        *)
THEOREM ExceptionFindsService == Java!Spec => []CrashFindsService
<1> SetupInv => CrashFindsService
  BY DEF SetupInv, InitInv, ReadyInv, CrashFindsService, Java!CrashFindsService,
         Java!Complete
<1> QED BY SetupAlways, PTL

(* Opencore's handler has a default to go back to, or there was none when it *)
(* was set first; it becomes its own default only in the second case.       *)
DefaultInv ==
    /\ handler = Opencore \/ previous = Opencore \/ (\E t \in Thread : javaPc[t] = "set") =>
          default # None \/ bare
    /\ default = Opencore => bare
    /\ off /\ Java!Reaches => bare \/ putBack \/ Java!Around

LEMMA DefaultStep ==
    JavaTypes /\ DefaultInv /\ [Java!Next]_(Java!vars) => DefaultInv'
<1> SUFFICES ASSUME JavaTypes, DefaultInv, [Java!Next]_(Java!vars) PROVE DefaultInv'
  OBVIOUS
<1> USE OwnersAssumption
    DEF JavaTypes, JavaLabel, DefaultInv, Java!SetupAssumption, Java!At, Java!Goto,
        Java!Begin, Java!Enter, Java!Leave, Java!setup, Java!java, Java!Reaches, Java!Around
<1>1. ASSUME NEW t \in Thread,
             \/ Java!InitEnter(t) \/ Java!NativeInit(t) \/ Java!SetReady(t) \/ Java!Enable(t)
             \/ \E w \in Java!Worker : Java!MakeWorker(t, w)
      PROVE  DefaultInv'
  BY <1>1 DEF Java!InitEnter, Java!NativeInit, Java!SetReady, Java!Enable, Java!MakeWorker,
              Java!After
<1>2. ASSUME NEW t \in Thread, Java!EnableSave(t) PROVE DefaultInv'
  BY <1>2 DEF Java!EnableSave, Java!Kept
<1>3. ASSUME NEW t \in Thread, Java!EnableSet(t) PROVE DefaultInv'
  BY <1>3 DEF Java!EnableSet
<1>4. ASSUME NEW t \in Thread, Java!Disable(t) \/ Java!UncaughtDisable(t) PROVE DefaultInv'
  BY <1>4 DEF Java!Disable, Java!UncaughtDisable, Java!SetDefault
<1>5. ASSUME NEW t \in Thread,
             Java!Uncaught(t) \/ Java!UncaughtDump(t) \/ Java!KillProcess(t)
      PROVE  DefaultInv'
  BY <1>5 DEF Java!Uncaught, Java!UncaughtDump, Java!KillProcess
<1>6. ASSUME NEW t \in Thread, Java!LibrarySet(t) \/ Java!LibraryReset(t) PROVE DefaultInv'
  <2>1. CASE Java!LibrarySet(t)
    BY <2>1 DEF Java!LibrarySet
  <2>2. CASE Java!LibraryReset(t)
    BY <2>2 DEF Java!LibraryReset
  <2> QED BY <1>6, <2>1, <2>2
<1>7. CASE UNCHANGED Java!vars
  BY <1>7 DEF Java!vars
<1> QED
  BY <1>1, <1>2, <1>3, <1>4, <1>5, <1>6, <1>7 DEF Java!Next

(* After a disable and until the next enable no exception comes to Opencore, *)
(* be it through the handler of a library set above it, unless there was no  *)
(* handler at first, the library has put Opencore's back since, or the       *)
(* library's handler is both below and above Opencore's: for any             *)
(* interleaving of enable, disable, exceptions and the library's own calls.  *)
THEOREM DisableHolds == Java!Spec => []StaysDisabled
<1>1. Java!Init => DefaultInv
  BY OwnersAssumption DEF Java!Init, DefaultInv, Java!SetupAssumption, Java!Reaches
<1>2. SetupInv /\ DefaultInv /\ [Java!Next]_(Java!vars) => DefaultInv'
  BY DefaultStep DEF SetupInv
<1>3. DefaultInv => StaysDisabled
  BY DEF DefaultInv, StaysDisabled, Java!StaysDisabled
<1> QED BY <1>1, <1>2, <1>3, SetupAlways, PTL DEF Java!Spec
===========================================================================
