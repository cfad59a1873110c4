----------------------- MODULE CoredumpServiceProofs -----------------------
(***************************************************************************)
(* Proofs about CoredumpService, for any number of calling and of crashing *)
(* threads, with or without interrupts, setListener at any moment, and a   *)
(* listener that may call doCoredump.                                      *)
(***************************************************************************)
EXTENDS CoredumpService, TLAPS

(***************************************************************************)
(* Where a thread of each kind can be, and what it has at hand there.      *)
(***************************************************************************)
CallLabels == {"clear", "cleared", "send", "check", "waiting", "leave"}

Fits(t, l) ==
    /\ t \in Apps => l \in {"idle", "enter"} \cup CallLabels
    /\ t = Post => l \in {"loop", "test", "invoke", "enter", "notify", "notified"} \cup CallLabels
    /\ t = Bg => l \in {"loop", "dump", "callback", "join", "notify", "notified"}
    /\ t \in Dumpers \ {Bg} => l \in {"idle", "dump", "callback", "join", "raise"}
    /\ t \in Cbs => l \in {"none", "start"} \cup CallLabels

KindInv ==
    /\ \A t \in Thread : Fits(t, pc[t])
    /\ pc[Bg] = "dump" => job \in Clients
    /\ pc[Post] \in {"test", "invoke"} => path \in Dumpers

\* A callback thread lives as long as its dumper is in pthread_join.
JoinInv == \A d \in Dumpers : pc[Cb(d[2])] # "none" <=> pc[d] = "join"

\* The synchronized methods of the Coredump instance.
MonitorInv == \A t \in Clients : monitor = t <=> pc[t] \in CallLabels

(***************************************************************************)
(* While nothing disturbs the service, one request is under way: that of   *)
(* the caller in the monitor.  "core" is clear from its ClearWrite on to   *)
(* the notification of opencore-bg, and whoever writes mCondition back in  *)
(* between has read it in between.                                         *)
(***************************************************************************)
Waits == monitor \in Apps /\ pc[monitor] \in {"check", "waiting"}

RequestInv ==
    /\ served \subseteq {monitor} /\ monitor # Post
    /\ workQ # <<>> => /\ workQ = <<monitor>> /\ Waits /\ pc[Bg] = "loop"
                       /\ monitor \notin served /\ "core" \notin cond
    /\ pc[Bg] # "loop" => workQ = <<>> /\ Waits /\ "core" \notin cond
    /\ pc[Bg] = "dump" => job = monitor /\ monitor \notin served
    /\ pc[Bg] \in {"callback", "join", "notify", "notified"} => monitor \in served
    /\ Waits /\ pc[Bg] = "loop" /\ workQ = <<>> => monitor \in served /\ Bg \in told
    /\ monitor \in Apps /\ pc[monitor] \in {"clear", "cleared", "send"} => monitor \notin served
    /\ monitor \in Apps /\ pc[monitor] = "send" => "core" \notin cond
    /\ monitor \in Apps /\ pc[monitor] = "leave" => monitor \in served /\ Bg \in told

(***************************************************************************)
(* ... and one callback: opencore-post is busy with it only while the      *)
(* callback thread waits, and "completed" is clear for as long.            *)
(***************************************************************************)
BgCb == Cb("bg")

DeliveryInv ==
    /\ postQ # <<>> \/ pc[Post] # "loop" =>
          pc[BgCb] \in {"check", "waiting"} /\ "completed" \notin cond
    /\ postQ # <<>> => postQ = <<BgCb>> /\ pc[Post] = "loop"
    /\ pc[Post] \in {"loop", "test", "invoke", "enter", "notify", "notified"}
    /\ pc[Post] # "loop" => path = Bg
    /\ pc[BgCb] = "send" => "completed" \notin cond
    /\ pc[Post] \in {"notify", "notified"} => Bg \in told
    /\ pc[BgCb] \in {"check", "waiting"} /\ postQ = <<>> /\ pc[Post] = "loop" => Bg \in told
    /\ pc[BgCb] = "leave" => Bg \in told
    /\ pc[Bg] \in {"notify", "notified"} => Bg \in told
    /\ pc[BgCb] = "cleared" => "core" \notin reg[BgCb]
    /\ pc[Post] = "notified" => "core" \notin reg[Post]

RoundInv == Undisturbed => RequestInv /\ DeliveryInv

---------------------------------------------------------------------------
(* Threads are told apart by their kind, and callback threads belong to    *)
(* one dumper each.                                                        *)

LEMMA Names ==
    /\ Bg \in Thread /\ Post \in Thread /\ BgCb \in Thread
    /\ Bg \in Dumpers /\ BgCb \in Cbs /\ BgCb = Cb(Bg[2]) /\ Post \in Clients
    /\ Bg \notin Cbs \cup Clients /\ Post \notin Cbs \cup Apps \cup Dumpers
    /\ Nobody \notin Thread
    /\ Apps \subseteq Clients /\ Clients \subseteq Thread /\ Clients = Apps \cup {Post}
    /\ Cbs \subseteq Thread /\ Dumpers \subseteq Thread
    /\ Clients \cap Cbs = {} /\ Clients \cap Dumpers = {} /\ Cbs \cap Dumpers = {}
    /\ \A d \in Dumpers : Cb(d[2]) \in Cbs
    /\ \A d, e \in Dumpers : Cb(d[2]) = Cb(e[2]) => d = e
    /\ \A d \in Dumpers : d = Bg \/ \E k \in Crasher : d = Crash(k)
    /\ \A k \in Crasher : Crash(k) \in Dumpers /\ Crash(k) # Bg
    /\ \A j, k \in Crasher : Crash(j) = Crash(k) => j = k
    /\ Thread = Clients \cup Dumpers \cup Cbs
<1> USE DEF Bg, Post, BgCb, App, Crash, Cb, Apps, Dumpers, Cbs, Thread, Clients, Nobody
<1>1. /\ Bg \in Thread /\ Post \in Thread /\ BgCb \in Thread
      /\ Bg \in Dumpers /\ BgCb \in Cbs /\ BgCb = Cb(Bg[2]) /\ Post \in Clients
  <2>1. Bg \in Dumpers /\ Post \in Clients OBVIOUS
  <2>2. BgCb = Cb(Bg[2]) OBVIOUS
  <2>3. BgCb \in Cbs BY <2>1, <2>2
  <2> QED BY <2>1, <2>2, <2>3
<1>2. Bg \notin Cbs \cup Clients /\ Post \notin Cbs \cup Apps \cup Dumpers /\ Nobody \notin Thread
  OBVIOUS
<1>3. Clients \cap Cbs = {} /\ Clients \cap Dumpers = {} /\ Cbs \cap Dumpers = {}
  OBVIOUS
<1>4. \A d \in Dumpers : Cb(d[2]) \in Cbs
  OBVIOUS
<1>5. \A d, e \in Dumpers : Cb(d[2]) = Cb(e[2]) => d = e
  BY ServiceAssumption
<1>6. \A k \in Crasher : Crash(k) \in Dumpers /\ Crash(k) # Bg
  BY ServiceAssumption
<1>7. \A j, k \in Crasher : Crash(j) = Crash(k) => j = k
  OBVIOUS
<1> QED BY <1>1, <1>2, <1>3, <1>4, <1>5, <1>6, <1>7

LEMMA CallbackOf == \A b \in Cbs : \E d \in Dumpers : b = Cb(d[2]) /\ DumperOf(b) = d
  BY ServiceAssumption DEF Cbs, Dumpers, DumperOf, Cb, Crash, Bg

\* Only clients and callback threads wait, only opencore-bg and opencore-post
\* notify.
LEMMA Kinds ==
    ASSUME KindInv, NEW t \in Thread
    PROVE  /\ t \in Clients \/ t \in Dumpers \/ t \in Cbs
           /\ pc[t] \in {"enter", "notify", "notified"} => t \notin Cbs
           /\ pc[t] = "enter" => t \in Clients
           /\ pc[t] \in CallLabels => t \in Clients \cup Cbs
           /\ pc[t] \in {"notify", "notified"} => t \in {Bg, Post}
  BY Names DEF KindInv, Fits, CallLabels

LEMMA Move ==
    ASSUME TypeOK, NEW t \in Thread, NEW l \in Labels, Goto(t, l)
    PROVE  /\ pc' \in [Thread -> Labels]
           /\ \A u \in Thread : pc'[u] = IF u = t THEN l ELSE pc[u]
  BY DEF TypeOK, Goto

\* Moving a thread where its kind can be, not into or out of a join.
LEMMA KindMove ==
    ASSUME TypeOK, KindInv, JoinInv, NEW t \in Thread, NEW l \in Labels, Goto(t, l), Fits(t, l),
           t = Bg /\ l = "dump" => job' \in Clients, pc[Bg] = "dump" /\ t # Bg => job' = job,
           t = Post /\ l \in {"test", "invoke"} => path' \in Dumpers,
           pc[Post] \in {"test", "invoke"} /\ t # Post => path' = path,
           t \in Cbs => l # "none" /\ pc[t] # "none",
           t \in Dumpers => l # "join" /\ pc[t] # "join"
    PROVE  KindInv' /\ JoinInv'
<1>1. \A u \in Thread : pc'[u] = IF u = t THEN l ELSE pc[u] BY Move
<1>2. KindInv' BY <1>1, Names DEF KindInv
<1>3. \A b \in Cbs : pc'[b] = "none" <=> pc[b] = "none" BY <1>1, Names
<1>4. \A d \in Dumpers : pc'[d] = "join" <=> pc[d] = "join" BY <1>1, Names
<1>5. JoinInv' BY <1>3, <1>4, Names DEF JoinInv
<1> QED BY <1>2, <1>5

\* ... and not into or out of a synchronized method.
LEMMA MonitorMove ==
    ASSUME TypeOK, MonitorInv, NEW t \in Thread, NEW l \in Labels, Goto(t, l), monitor' = monitor,
           t \in Clients => (pc[t] \in CallLabels <=> l \in CallLabels)
    PROVE  MonitorInv'
  BY Move, Names DEF MonitorInv

\* Steps that leave every thread where it is.
LEMMA Still ==
    ASSUME KindInv, JoinInv, MonitorInv, UNCHANGED <<pc, monitor, job, path>>
    PROVE  KindInv' /\ JoinInv' /\ MonitorInv'
  BY DEF KindInv, JoinInv, MonitorInv

Structure == KindInv /\ JoinInv /\ MonitorInv

LEMMA StructureInit == Init => Structure
<1> SUFFICES ASSUME Init PROVE Structure
  OBVIOUS
<1>1. /\ \A t \in Apps : pc[t] = "idle"
      /\ pc[Bg] = "loop" /\ pc[Post] = "loop"
      /\ \A b \in Cbs : pc[b] = "none"
      /\ \A d \in Dumpers \ {Bg} : pc[d] = "idle"
  BY Names DEF Init
<1>2. KindInv BY <1>1, Names DEF KindInv, Fits
<1>3. JoinInv BY <1>1, Names DEF JoinInv
<1>4. MonitorInv BY <1>1, Names DEF Init, MonitorInv, CallLabels
<1> QED BY <1>2, <1>3, <1>4 DEF Structure

LEMMA StructureStep == TypeOK /\ Structure /\ [Next]_vars => Structure'
<1> SUFFICES ASSUME TypeOK, Structure, [Next]_vars PROVE Structure'
  OBVIOUS
<1> USE DEF Structure
\* The steps of a call and of a notification that move one thread on.
<1>1. ASSUME NEW t \in Thread, NEW l,
             \/ ClearRead(t) /\ l = "cleared"
             \/ ClearWrite(t) /\ l = "send"
             \/ SendEvent(t) /\ l = "check"
             \/ WaitCheck(t) /\ l \in {"leave", "waiting"}
             \/ Interrupt(t) /\ l = "leave"
             \/ NotifyRead(t) /\ l = "notified",
             Goto(t, l)
      PROVE  Structure'
  <2> USE DEF ClearRead, ClearWrite, SendEvent, WaitCheck, Interrupt, NotifyRead, At
  <2>1. UNCHANGED <<monitor, job, path>> BY <1>1 DEF work
  <2>2. l \in Labels /\ pc[t] \notin {"none", "join"} /\ l \notin {"none", "join", "dump", "test", "invoke"}
    BY <1>1 DEF Labels
  <2>3. (pc[t] \in CallLabels /\ l \in CallLabels) \/ (pc[t] = "notify" /\ l = "notified")
    <3>1. CASE NotifyRead(t) /\ l = "notified" BY <3>1
    <3>2. CASE ~(NotifyRead(t) /\ l = "notified") BY <1>1, <3>2 DEF CallLabels
    <3> QED BY <3>1, <3>2
  <2>4. Fits(t, l)
    BY <2>3, Kinds, Names DEF Fits, CallLabels
  <2>5. KindInv' /\ JoinInv' BY <1>1, <2>1, <2>2, <2>4, KindMove DEF KindInv
  <2>6. MonitorInv' BY <1>1, <2>1, <2>2, <2>3, MonitorMove, Kinds, Names DEF CallLabels
  <2> QED BY <2>5, <2>6
\* The steps outside the synchronized methods that move one thread on.
<1>2. ASSUME NEW t \in Thread, NEW l,
             \/ t \in Apps /\ Call(t) /\ l = "enter"
             \/ t \in Apps /\ JavaCrash(t) /\ l = "enter"
             \/ t = Bg /\ BgTake /\ l = "dump"
             \/ (\E k \in Crasher : t = Crash(k) /\ NativeCrash(k)) /\ l = "dump"
             \/ t \in Dumpers /\ Dump(t) /\ l = "callback"
             \/ t \in Dumpers /\ Callback(t) /\ l = AfterCallback(t)
             \/ (\E d \in Dumpers : t = Cb(d[2]) /\ CbStart(d) /\ l \in {"clear", "leave"})
             \/ t = Post /\ PostTake /\ l = "test"
             \/ t = Post /\ ListenerTest /\ l \in {"invoke", "notify"}
             \/ t = Post /\ ListenerInvoke /\ l \in {"enter", "notify"},
             Goto(t, l)
      PROVE  Structure'
  <2>0. t \in Cbs => \E d \in Dumpers : t = Cb(d[2]) /\ CbStart(d)
    <3>1. t \in Cbs => t \notin Apps \cup Dumpers /\ t # Bg /\ t # Post /\ \A k \in Crasher : t # Crash(k)
      BY Names
    <3> QED BY <1>2, <3>1
  <2> USE DEF Call, JavaCrash, BgTake, NativeCrash, Dump, Callback, CbStart, PostTake,
      ListenerTest, ListenerInvoke, At
  <2>1. UNCHANGED monitor BY <1>2
  <2>2. l \in Labels /\ l \notin {"none", "join"} BY <1>2 DEF Labels, AfterCallback
  <2>3. t \in Clients => pc[t] \notin CallLabels /\ l \notin CallLabels
    BY <1>2, Names DEF CallLabels
  <2>4. Fits(t, l)
    BY <1>2, Names DEF Fits, CallLabels, AfterCallback
  <2>5. MonitorInv' BY <1>2, <2>1, <2>2, <2>3, MonitorMove
  <2>6. t \in Cbs => pc[t] # "none"
    BY <2>0
  <2>7. t \in Dumpers => pc[t] # "join"
    <3>1. t \in Dumpers => t \notin Apps /\ t # Post /\ \A d \in Dumpers : t # Cb(d[2])
      BY Names
    <3> QED BY <1>2, <3>1
  <2>8. t = Bg /\ l = "dump" => job' \in Clients
    <3>1. workQ # <<>> => Head(workQ) \in Clients BY DEF TypeOK
    <3> QED BY <1>2, <3>1, Names DEF AfterCallback
  <2>9. pc[Bg] = "dump" /\ t # Bg => job' = job
    BY <1>2, Names DEF work
  <2>10. t = Post /\ l \in {"test", "invoke"} => path' \in Dumpers
    <3>1. postQ # <<>> => DumperOf(Head(postQ)) \in Dumpers BY CallbackOf DEF TypeOK
    <3>2. pc[Post] = "test" => path \in Dumpers BY DEF KindInv
    <3> QED BY <1>2, <3>1, <3>2, Names DEF AfterCallback, work
  <2>11. pc[Post] \in {"test", "invoke"} /\ t # Post => path' = path
    BY <1>2, Names DEF work
  <2> QED BY <1>2, <2>2, <2>4, <2>5, <2>6, <2>7, <2>8, <2>9, <2>10, <2>11, KindMove
<1>3. ASSUME NEW t \in Thread, Enter(t) PROVE Structure'
  <2>1. t \in Clients BY <1>3, Kinds DEF Enter, At
  <2>2. Goto(t, "clear") /\ UNCHANGED <<job, path>> /\ pc[t] = "enter" BY <1>3 DEF Enter, At, work
  <2>3. KindInv' /\ JoinInv' BY <2>1, <2>2, KindMove, Names DEF Labels, Fits, CallLabels
  <2>4. MonitorInv'
    BY <1>3, <2>1, <2>2, Move, Names DEF Enter, MonitorFree, MonitorInv, CallLabels, Labels
  <2> QED BY <2>3, <2>4
<1>4. ASSUME NEW t \in Thread, Leave(t) PROVE Structure'
  <2>1. PICK l \in {"notify", "idle"} :
          /\ Goto(t, l) /\ t \in Clients /\ pc[t] = "leave" /\ UNCHANGED <<job, path>>
          /\ l = "notify" <=> t = Post
    BY <1>4 DEF Leave, At, work
  <2>2. KindInv' /\ JoinInv' BY <2>1, KindMove, Names DEF Labels, Fits, CallLabels
  <2>3. MonitorInv'
    BY <1>4, <2>1, Move, Names DEF Leave, MonitorInv, CallLabels, Labels
  <2> QED BY <2>2, <2>3
<1>5. ASSUME NEW t \in Thread, NotifyWrite(t) PROVE Structure'
  <2>1. t \in {Bg, Post} /\ pc[t] = "notified" BY <1>5, Kinds DEF NotifyWrite, At
  <2>2. /\ \A u \in Thread : pc'[u] = IF u = t THEN "loop"
                                     ELSE IF pc[u] = "waiting" THEN "check" ELSE pc[u]
        /\ UNCHANGED <<monitor, job, path>>
    BY <1>5 DEF NotifyWrite, Woken, work
  <2>3. KindInv'
    BY <2>1, <2>2, Names DEF KindInv, Fits, CallLabels
  <2>4. JoinInv'
    <3>1. \A d \in Dumpers : pc'[d] = "join" <=> pc[d] = "join" BY <2>1, <2>2, Names
    <3>2. \A b \in Cbs : pc'[b] = "none" <=> pc[b] = "none" BY <2>1, <2>2, Names
    <3> QED BY <3>1, <3>2, Names DEF JoinInv
  <2>5. MonitorInv' BY <2>1, <2>2, Names DEF MonitorInv, CallLabels
  <2> QED BY <2>3, <2>4, <2>5
\* pthread_create and pthread_join move two.
<1>6. ASSUME NEW d \in Dumpers, NEW l, NEW m,
             pc' = [pc EXCEPT ![d] = l, ![Cb(d[2])] = m],
             UNCHANGED <<monitor, job, path>>,
             \/ pc[d] = "callback" /\ l = "join" /\ m = "start"
             \/ pc[d] = "join" /\ l = AfterCallback(d) /\ m = "none"
      PROVE  Structure'
  <2>1. \A u \in Thread : pc'[u] = IF u = Cb(d[2]) THEN m ELSE IF u = d THEN l ELSE pc[u]
    BY <1>6, Names DEF TypeOK
  <2>2. KindInv'
    <3>1. Fits(d, l) /\ Fits(Cb(d[2]), m)
      BY <1>6, Names DEF Fits, AfterCallback
    <3>2. \A u \in Thread : Fits(u, pc'[u]) BY <2>1, <3>1, Names DEF KindInv
    <3>3. l # "dump" BY <1>6 DEF AfterCallback
    <3>4. pc'[Bg] = "dump" => pc[Bg] = "dump" BY <2>1, <3>3, Names
    <3>5. pc'[Post] = pc[Post] BY <2>1, Names
    <3> QED BY <1>6, <3>2, <3>4, <3>5 DEF KindInv
  <2>3. \A e \in Dumpers : e # d => pc'[e] = pc[e] /\ pc'[Cb(e[2])] = pc[Cb(e[2])]
    BY <2>1, Names
  <2>4. pc'[d] = l /\ pc'[Cb(d[2])] = m BY <2>1, Names
  <2>5. JoinInv'
    <3>1. l = "join" <=> m # "none" BY <1>6 DEF AfterCallback
    <3>2. pc'[Cb(d[2])] # "none" <=> pc'[d] = "join" BY <2>4, <3>1
    <3>3. \A e \in Dumpers : e # d => (pc'[Cb(e[2])] # "none" <=> pc'[e] = "join")
      BY <2>3 DEF JoinInv
    <3> QED BY <3>2, <3>3 DEF JoinInv
  <2>6. MonitorInv'
    <3>1. \A t \in Clients : pc'[t] = pc[t] BY <2>1, Names
    <3>2. monitor' = monitor BY <1>6
    <3> QED BY <3>1, <3>2 DEF MonitorInv
  <2> QED BY <2>2, <2>5, <2>6
<1>7. ASSUME UNCHANGED <<pc, monitor, job, path>> PROVE Structure'
  BY <1>7, Still
\* All there is to do.
<1>8. ASSUME NEW d \in Dumpers, Callback(d) \/ Join(d) PROVE Structure'
  <2>1. CASE Goto(d, AfterCallback(d)) /\ Callback(d)
    BY <1>2, <2>1, Names
  <2>2. CASE Callback(d) /\ ~Goto(d, AfterCallback(d))
    BY <1>6, <2>2 DEF Callback, At, work
  <2>3. CASE Join(d)
    BY <1>6, <2>3 DEF Join, At, work
  <2> QED BY <1>8, <2>1, <2>2, <2>3
<1>9. ASSUME NEW t \in Thread,
             ClearRead(t) \/ ClearWrite(t) \/ SendEvent(t) \/ WaitCheck(t) \/ Interrupt(t) \/ NotifyRead(t)
      PROVE  Structure'
  BY <1>1, <1>9 DEF ClearRead, ClearWrite, SendEvent, WaitCheck, Interrupt, NotifyRead
<1>10. ASSUME NEW t \in Apps, Call(t) \/ JavaCrash(t) PROVE Structure'
  <2>1. t \in Thread BY Names
  <2>2. Goto(t, "enter") \/ UNCHANGED <<pc, monitor, job, path>>
    BY <1>10 DEF Call, JavaCrash, Uncaught, work
  <2> QED BY <1>2, <1>7, <1>10, <2>1, <2>2
<1>11. CASE BgTake
  BY <1>2, <1>11, Names DEF BgTake
<1>12. ASSUME NEW k \in Crasher, NativeCrash(k) PROVE Structure'
  <2>1. Crash(k) \in Thread BY Names
  <2> QED BY <1>2, <1>12, <2>1 DEF NativeCrash
<1>13. ASSUME NEW d \in Dumpers, Dump(d) PROVE Structure'
  BY <1>2, <1>13, Names DEF Dump
<1>14. ASSUME NEW d \in Dumpers, CbStart(d) PROVE Structure'
  <2>1. Cb(d[2]) \in Thread BY Names
  <2>2. PICK l \in {"clear", "leave"} : Goto(Cb(d[2]), l) BY <1>14 DEF CbStart
  <2> QED BY <1>2, <1>14, <2>1, <2>2
<1>15. CASE PostTake \/ ListenerTest
  BY <1>2, <1>15, Names DEF PostTake, ListenerTest
<1>16. CASE ListenerInvoke
  <2>1. (\E l \in {"enter", "notify"} : Goto(Post, l)) \/ UNCHANGED <<pc, monitor, job, path>>
    BY <1>16 DEF ListenerInvoke, Uncaught, work
  <2> QED BY <1>2, <1>7, <1>16, <2>1, Names
<1>17. CASE SetListener \/ UNCHANGED vars \/ \E k \in Crasher : Raise(k)
  BY <1>7, <1>17 DEF SetListener, Raise, vars, work
<1> QED BY <1>3, <1>4, <1>5, <1>8, <1>9, <1>10, <1>11, <1>12, <1>13, <1>14, <1>15, <1>16,
           <1>17, Names DEF Next, ThreadStep

---------------------------------------------------------------------------
(* Type correctness.  That there is one message at a time follows from     *)
(* RoundInv, below.                                                        *)

OneMessage == Undisturbed => Len(workQ) <= 1 /\ Len(postQ) <= 1

LEMMA TypeInit == Init => TypeOK
<1> SUFFICES ASSUME Init PROVE TypeOK
  OBVIOUS
<1>1. pc \in [Thread -> Labels] BY DEF Init, Labels
<1>2. reg \in [Thread -> SUBSET {"core", "completed"}] BY DEF Init
<1>3. workQ \in Seq(Clients) /\ postQ \in Seq(Cbs) /\ Len(workQ) = 0 /\ Len(postQ) = 0
  BY DEF Init
<1>4. calls \in 0..MaxCalls /\ toggles \in 0..MaxToggles
  BY ServiceAssumption DEF Init
<1>5. /\ cond \subseteq {"core", "completed"} /\ monitor = Nobody /\ lock = Nobody
      /\ job = Nobody /\ path = Nobody
      /\ doomed \subseteq Clients /\ served \subseteq Clients /\ told \subseteq Dumpers
      /\ \A b \in {listener, javaOn, alive, quit} : b \in BOOLEAN
  BY DEF Init
<1> QED BY <1>1, <1>2, <1>3, <1>4, <1>5 DEF TypeOK

LEMMA TypeStep == TypeOK /\ Structure /\ OneMessage' /\ [Next]_vars => TypeOK'
<1> SUFFICES ASSUME TypeOK, Structure, OneMessage', [Next]_vars PROVE TypeOK'
  OBVIOUS
<1> USE DEF Structure, OneMessage, work, env, hist
<1>1. ASSUME NEW t \in Thread, Enter(t) \/ Leave(t) PROVE TypeOK'
  <2>1. t \in Clients BY <1>1, Kinds DEF Enter, Leave, At
  <2>2. pc' \in [Thread -> Labels] BY <1>1 DEF Enter, Leave, Goto, TypeOK, Labels
  <2> QED BY <1>1, <2>1, <2>2 DEF Enter, Leave, TypeOK
<1>2. ASSUME NEW t \in Thread, ClearRead(t) \/ ClearWrite(t) PROVE TypeOK'
  <2>1. pc' \in [Thread -> Labels] BY <1>2 DEF ClearRead, ClearWrite, Goto, TypeOK, Labels
  <2>2. reg' \in [Thread -> SUBSET {"core", "completed"}] /\ cond' \subseteq {"core", "completed"}
    BY <1>2 DEF ClearRead, ClearWrite, Cleared, TypeOK
  <2> QED BY <1>2, <2>1, <2>2 DEF ClearRead, ClearWrite, TypeOK
<1>3. ASSUME NEW t \in Thread, SendEvent(t) PROVE TypeOK'
  <2>1. pc' \in [Thread -> Labels] BY <1>3 DEF SendEvent, Goto, TypeOK, Labels
  <2>2. t \in Clients \cup Cbs BY <1>3, Kinds DEF SendEvent, At, CallLabels
  <2>3. workQ' \in Seq(Clients) /\ postQ' \in Seq(Cbs)
    <3>1. /\ workQ \in Seq(Clients) /\ postQ \in Seq(Cbs)
          /\ t \in Cbs => Append(postQ, t) \in Seq(Cbs)
          /\ t \in Clients => Append(workQ, t) \in Seq(Clients)
      BY DEF TypeOK
    <3> QED BY <1>3, <2>2, <3>1 DEF SendEvent
  <2> QED BY <1>3, <2>1, <2>3 DEF SendEvent, TypeOK
<1>4. ASSUME NEW t \in Thread, WaitCheck(t) \/ Interrupt(t) PROVE TypeOK'
  <2>1. pc' \in [Thread -> Labels] BY <1>4 DEF WaitCheck, Interrupt, Goto, TypeOK, Labels
  <2> QED BY <1>4, <2>1 DEF WaitCheck, Interrupt, TypeOK
<1>5. ASSUME NEW t \in Thread, NotifyRead(t) \/ NotifyWrite(t) PROVE TypeOK'
  <2>1. pc' \in [Thread -> Labels]
    BY <1>5 DEF NotifyRead, NotifyWrite, Goto, TypeOK, Labels
  <2>2. reg' \in [Thread -> SUBSET {"core", "completed"}] /\ cond' \subseteq {"core", "completed"}
    BY <1>5 DEF NotifyRead, NotifyWrite, Notified, TypeOK
  <2> QED BY <1>5, <2>1, <2>2 DEF NotifyRead, NotifyWrite, TypeOK
<1>6. CASE BgTake
  <2>1. pc' \in [Thread -> Labels] BY <1>6 DEF BgTake, Goto, TypeOK, Labels
  <2>2. job' \in Clients /\ workQ' \in Seq(Clients) BY <1>6 DEF BgTake, TypeOK
  <2> QED BY <1>6, <2>1, <2>2 DEF BgTake, TypeOK
<1>7. ASSUME NEW k \in Crasher, NativeCrash(k) \/ Raise(k) PROVE TypeOK'
  <2>1. pc' \in [Thread -> Labels] BY <1>7 DEF NativeCrash, Raise, Goto, TypeOK, Labels
  <2> QED BY <1>7, <2>1 DEF NativeCrash, Raise, TypeOK
<1>8. ASSUME NEW d \in Dumpers, Dump(d) PROVE TypeOK'
  <2>1. pc' \in [Thread -> Labels] BY <1>8 DEF Dump, Goto, TypeOK, Labels
  <2>2. served' \subseteq Clients /\ job' \in Clients \cup {Nobody}
    BY <1>8 DEF Dump, TypeOK, KindInv, At
  <2> QED BY <1>8, <2>1, <2>2 DEF Dump, TypeOK
<1>9. ASSUME NEW d \in Dumpers, Callback(d) \/ Join(d) PROVE TypeOK'
  <2>1. pc' \in [Thread -> Labels]
    BY <1>9 DEF Callback, Join, AfterCallback, Goto, TypeOK, Labels
  <2> QED BY <1>9, <2>1 DEF Callback, Join, TypeOK
<1>10. ASSUME NEW d \in Dumpers, CbStart(d) PROVE TypeOK'
  <2>1. pc' \in [Thread -> Labels] BY <1>10 DEF CbStart, Goto, TypeOK, Labels
  <2> QED BY <1>10, <2>1 DEF CbStart, TypeOK
<1>11. CASE PostTake
  <2>1. pc' \in [Thread -> Labels] BY <1>11 DEF PostTake, Goto, TypeOK, Labels
  <2>2. path' \in Dumpers /\ postQ' \in Seq(Cbs)
    BY <1>11, CallbackOf DEF PostTake, TypeOK
  <2> QED BY <1>11, <2>1, <2>2 DEF PostTake, TypeOK
<1>12. CASE ListenerTest \/ ListenerInvoke
  <2>1. pc' \in [Thread -> Labels]
    BY <1>12 DEF ListenerTest, ListenerInvoke, Uncaught, Goto, TypeOK, Labels
  <2>2. told' \subseteq Dumpers /\ doomed' \subseteq Clients
    BY <1>12, Names DEF ListenerTest, ListenerInvoke, Uncaught, TypeOK, KindInv, At
  <2>3. javaOn' \in BOOLEAN /\ alive' \in BOOLEAN
    BY <1>12 DEF ListenerTest, ListenerInvoke, Uncaught, TypeOK
  <2> QED BY <1>12, <2>1, <2>2, <2>3 DEF ListenerTest, ListenerInvoke, TypeOK
<1>13. ASSUME NEW t \in Apps, Call(t) \/ JavaCrash(t) PROVE TypeOK'
  <2>1. pc' \in [Thread -> Labels]
    BY <1>13 DEF Call, JavaCrash, Uncaught, Goto, TypeOK, Labels
  <2>2. calls' \in 0..MaxCalls
    BY <1>13, ServiceAssumption DEF Call, JavaCrash, TypeOK
  <2>3. doomed' \subseteq Clients /\ javaOn' \in BOOLEAN /\ alive' \in BOOLEAN
    <3>1. t \in Clients /\ doomed \subseteq Clients /\ javaOn \in BOOLEAN /\ alive \in BOOLEAN
      BY Names DEF TypeOK
    <3>2. CASE Call(t) BY <3>1, <3>2 DEF Call
    <3>3. CASE JavaCrash(t) BY <3>1, <3>3 DEF JavaCrash, Uncaught
    <3> QED BY <1>13, <3>2, <3>3
  <2> QED BY <1>13, <2>1, <2>2, <2>3 DEF Call, JavaCrash, TypeOK
<1>14. CASE SetListener
  <2>1. toggles' \in 0..MaxToggles BY <1>14, ServiceAssumption DEF SetListener, TypeOK
  <2> QED BY <1>14, <2>1 DEF SetListener, TypeOK
<1>15. CASE UNCHANGED vars
  BY <1>15 DEF vars, TypeOK
<1> QED BY <1>1, <1>2, <1>3, <1>4, <1>5, <1>6, <1>7, <1>8, <1>9, <1>10, <1>11, <1>12, <1>13,
           <1>14, <1>15, Names DEF Next, ThreadStep

---------------------------------------------------------------------------
(* One request at a time, and one callback.                                *)

\* What has disturbed the service once disturbs it for good.
LEMMA Calm ==
    ASSUME TypeOK, Structure, [Next]_vars, Undisturbed' PROVE Undisturbed
<1> USE DEF hist
<1>1. ~quit
  BY DEF Undisturbed, Next, ThreadStep, vars, Enter, ClearRead, ClearWrite, SendEvent, WaitCheck,
     Leave, NotifyRead, NotifyWrite, BgTake, Dump, Callback, Join, CbStart, Raise, PostTake,
     ListenerTest, ListenerInvoke, Call, JavaCrash, Interrupt, NativeCrash, SetListener
<1>2. ASSUME NEW k \in Crasher, pc[Crash(k)] # "idle" PROVE pc'[Crash(k)] # "idle"
  <2> DEFINE c == Crash(k)
  <2>0. c \in Dumpers /\ c \in Thread /\ c \notin Clients /\ pc[c] # "waiting"
    BY Names DEF Structure, KindInv, Fits
  <2> HIDE DEF c
  <2>1. ASSUME NEW t \in Thread, NEW l, Goto(t, l), t # c \/ l # "idle" PROVE pc'[c] # "idle"
    BY <1>2, <2>0, <2>1 DEF Goto, TypeOK, c
  <2>2. ASSUME NEW t \in Thread, ThreadStep(t) PROVE pc'[c] # "idle"
    <3>1. CASE Enter(t) \/ ClearRead(t) \/ ClearWrite(t) \/ SendEvent(t) \/ WaitCheck(t) \/ NotifyRead(t)
      BY <2>1, <3>1 DEF Enter, ClearRead, ClearWrite, SendEvent, WaitCheck, NotifyRead
    <3>2. CASE Leave(t) BY <2>0, <2>1, <3>2 DEF Leave
    <3>3. CASE NotifyWrite(t) BY <1>2, <2>0, <3>3 DEF NotifyWrite, Woken, c
    <3>4. CASE t = Bg /\ BgTake BY <2>1, <3>4 DEF BgTake
    <3>5. CASE t \in Dumpers /\ (Dump(t) \/ Callback(t) \/ Join(t))
      <4>1. Cb(t[2]) # c BY <2>0, <3>5, Names
      <4> QED BY <1>2, <2>0, <2>1, <3>5, <4>1 DEF Dump, Callback, Join, AfterCallback, TypeOK, c
    <3>6. ASSUME NEW d \in Dumpers, CbStart(d) PROVE pc'[c] # "idle"
      <4>1. Cb(d[2]) \in Thread BY Names
      <4> QED BY <2>1, <3>6, <4>1 DEF CbStart
    <3>7. CASE \E j \in Crasher : Raise(j) BY <1>2, <3>7 DEF Raise, c
    <3>8. CASE t = Post /\ (PostTake \/ ListenerTest \/ ListenerInvoke)
      BY <1>2, <2>1, <3>8 DEF PostTake, ListenerTest, ListenerInvoke, Uncaught, c
    <3> QED BY <2>2, <3>1, <3>2, <3>3, <3>4, <3>5, <3>6, <3>7, <3>8 DEF ThreadStep
  <2>3. ASSUME NEW t \in Apps, Call(t) \/ JavaCrash(t) \/ Interrupt(t) PROVE pc'[c] # "idle"
    BY <1>2, <2>1, <2>3, Names DEF Call, JavaCrash, Uncaught, Interrupt, c
  <2>4. ASSUME NEW j \in Crasher, NativeCrash(j) PROVE pc'[c] # "idle"
    BY <2>1, <2>4, Names DEF NativeCrash
  <2>5. CASE SetListener \/ UNCHANGED vars BY <1>2, <2>5 DEF SetListener, vars, c
  <2> QED BY <2>2, <2>3, <2>4, <2>5 DEF Next, c
<1> QED BY <1>1, <1>2 DEF Undisturbed

\* Whoever is in the middle of a call is the caller in the monitor or the one
\* callback thread.
LEMMA Movers ==
    ASSUME TypeOK, Structure, Undisturbed, RequestInv, DeliveryInv
    PROVE  /\ \A k \in Crasher : pc[Crash(k)] = "idle"
           /\ \A b \in Cbs : b # BgCb => pc[b] = "none"
           /\ pc[BgCb] # "none" <=> pc[Bg] = "join"
           /\ \A t \in Thread : pc[t] \in CallLabels => t = BgCb \/ (t \in Apps /\ t = monitor)
           /\ \A t \in Thread : pc[t] \in {"notify", "notified"} => t \in {Bg, Post}
           /\ monitor \in Apps => pc[monitor] \in CallLabels
           /\ monitor \in Apps \/ monitor = Nobody
<1>1. \A k \in Crasher : pc[Crash(k)] = "idle" BY DEF Undisturbed
<1>2. \A b \in Cbs : b # BgCb => pc[b] = "none"
  <2>1. ASSUME NEW d \in Dumpers, d # Bg PROVE pc[Cb(d[2])] = "none"
    <3>1. pc[d] # "join" BY <1>1, <2>1, Names
    <3> QED BY <3>1 DEF Structure, JoinInv
  <2> QED BY <2>1, CallbackOf, Names
<1>3. pc[BgCb] # "none" <=> pc[Bg] = "join" BY Names DEF Structure, JoinInv
<1>4. monitor \in Apps \/ monitor = Nobody BY Names DEF TypeOK, RequestInv
<1>5. ASSUME NEW t \in Thread, pc[t] \in CallLabels PROVE t = BgCb \/ (t \in Apps /\ t = monitor)
  <2>1. t \in Clients \/ t \in Cbs BY <1>5, Kinds DEF Structure
  <2>2. t \in Cbs => t = BgCb BY <1>2, <1>5 DEF CallLabels
  <2>3. t \in Clients => t = monitor BY <1>5 DEF Structure, MonitorInv
  <2> QED BY <1>4, <2>1, <2>2, <2>3, Names
<1>6. \A t \in Thread : pc[t] \in {"notify", "notified"} => t \in {Bg, Post}
  BY Kinds DEF Structure
<1>7. monitor \in Apps => pc[monitor] \in CallLabels BY Names DEF Structure, MonitorInv
<1> QED BY <1>1, <1>2, <1>3, <1>4, <1>5, <1>6, <1>7

LEMMA RoundInit == Init => RoundInv
<1> SUFFICES ASSUME Init PROVE RequestInv /\ DeliveryInv
  BY DEF RoundInv
<1>1. pc[Bg] = "loop" /\ pc[Post] = "loop" /\ pc[BgCb] = "none"
  BY Names DEF Init
<1> QED BY <1>1, Names DEF Init, RequestInv, DeliveryInv, Waits

\* The threads a request goes through are different ones.
LEMMA Distinct ==
    /\ Bg \in Thread /\ Post \in Thread /\ BgCb \in Thread
    /\ Bg # Post /\ Bg # BgCb /\ Post # BgCb
    /\ \A t \in Apps : t # Bg /\ t # Post /\ t # BgCb /\ t \in Thread /\ t # Nobody
    /\ \A t \in Cbs : t # Bg /\ t # Post /\ t \notin Apps
    /\ BgCb \in Cbs /\ Nobody \notin Apps
  BY Names

LEMMA RoundStep == TypeOK /\ Structure /\ RoundInv /\ [Next]_vars => RoundInv'
<1> SUFFICES ASSUME TypeOK, Structure, [Next]_vars, Undisturbed', Undisturbed,
                    RequestInv, DeliveryInv
             PROVE  RequestInv' /\ DeliveryInv'
  BY Calm DEF RoundInv
<1> USE DEF work, env, hist
<1>q. ~quit /\ ~quit' BY DEF Undisturbed
<1>i. \A k \in Crasher : pc[Crash(k)] = "idle" /\ pc'[Crash(k)] = "idle" BY DEF Undisturbed
<1>1. ASSUME NEW t \in Thread, Enter(t) PROVE RequestInv' /\ DeliveryInv'
  <2>1. pc[t] = "enter" /\ monitor = Nobody /\ t \in Clients
    BY <1>1, Kinds DEF Enter, At, MonitorFree, Structure
  <2>2. ~Waits /\ pc[Bg] = "loop" /\ workQ = <<>> /\ pc[BgCb] = "none"
    BY <2>1, Movers, Distinct DEF Waits, RequestInv
  <2>3. t # Post /\ t \in Apps BY <2>1, <2>2, Names DEF DeliveryInv
  <2>4. \A u \in Thread : pc'[u] = IF u = t THEN "clear" ELSE pc[u]
    BY <1>1, Move DEF Enter, Labels
  <2>5. served = {} BY <2>1, Names DEF RequestInv, TypeOK
  <2>6. monitor' = t /\ UNCHANGED <<cond, reg, workQ, postQ, path, job, served, told>>
    BY <1>1 DEF Enter
  <2>7. RequestInv'
    BY <2>2, <2>3, <2>4, <2>5, <2>6, Distinct DEF RequestInv, Waits
  <2>8. DeliveryInv' BY <2>3, <2>4, <2>6, Distinct DEF DeliveryInv
  <2> QED BY <2>7, <2>8
<1>2. ASSUME NEW t \in Thread, ClearRead(t) PROVE RequestInv' /\ DeliveryInv'
  <2>1. pc[t] = "clear" /\ (t = BgCb \/ (t \in Apps /\ t = monitor))
    BY <1>2, Movers DEF ClearRead, At, CallLabels
  <2>2. \A u \in Thread : pc'[u] = IF u = t THEN "cleared" ELSE pc[u]
    BY <1>2, Move DEF ClearRead, Labels
  <2>3. UNCHANGED <<cond, monitor, workQ, postQ, path, job, served, told>>
    BY <1>2 DEF ClearRead
  <2>4. \A u \in Thread : reg'[u] = IF u = t THEN cond ELSE reg[u]
    BY <1>2 DEF ClearRead, TypeOK
  <2>5. RequestInv' BY <2>1, <2>2, <2>3, Movers, Distinct DEF RequestInv, Waits
  <2>6. DeliveryInv'
    BY <2>1, <2>2, <2>3, <2>4, Movers, Distinct DEF DeliveryInv, RequestInv
  <2> QED BY <2>5, <2>6
<1>3. ASSUME NEW t \in Thread, ClearWrite(t) PROVE RequestInv' /\ DeliveryInv'
  <2>1. pc[t] = "cleared" /\ (t = BgCb \/ (t \in Apps /\ t = monitor))
    BY <1>3, Movers DEF ClearWrite, At, CallLabels
  <2>2. \A u \in Thread : pc'[u] = IF u = t THEN "send" ELSE pc[u]
    BY <1>3, Move DEF ClearWrite, Labels
  <2>3. UNCHANGED <<monitor, workQ, postQ, path, job, served, told>>
    BY <1>3 DEF ClearWrite
  <2>4. /\ \A u \in Thread : u # t => reg'[u] = reg[u]
        /\ t = BgCb => cond' = reg[t] \ {"completed"}
        /\ t \in Apps => cond' = reg[t] \ {"core"}
    BY <1>3, Distinct DEF ClearWrite, Cleared, Waited, TypeOK
  <2>5. CASE t = BgCb
    <3>1. "core" \notin cond' /\ "completed" \notin cond' BY <2>1, <2>4, <2>5 DEF DeliveryInv
    <3>2. RequestInv' BY <2>2, <2>3, <2>5, <3>1, Movers, Distinct DEF RequestInv, Waits
    <3>3. DeliveryInv' BY <2>1, <2>2, <2>3, <2>4, <2>5, <3>1, Distinct DEF DeliveryInv
    <3> QED BY <3>2, <3>3
  <2>6. CASE t \in Apps /\ t = monitor
    <3>1. "core" \notin cond' BY <2>4, <2>6
    <3>2. pc[Bg] = "loop" /\ pc[BgCb] = "none"
      BY <2>1, <2>6, Movers, Distinct DEF RequestInv, Waits
    <3>3. RequestInv' BY <2>1, <2>2, <2>3, <2>6, <3>1, <3>2, Distinct DEF RequestInv, Waits
    <3>4. DeliveryInv' BY <2>2, <2>3, <2>4, <2>6, <3>2, Distinct DEF DeliveryInv
    <3> QED BY <3>3, <3>4
  <2> QED BY <2>1, <2>5, <2>6
<1>4. ASSUME NEW t \in Thread, SendEvent(t) PROVE RequestInv' /\ DeliveryInv'
  <2>1. pc[t] = "send" /\ (t = BgCb \/ (t \in Apps /\ t = monitor))
    BY <1>4, Movers DEF SendEvent, At, CallLabels
  <2>2. \A u \in Thread : pc'[u] = IF u = t THEN "check" ELSE pc[u]
    BY <1>4, Move DEF SendEvent, Labels
  <2>3. UNCHANGED <<cond, reg, monitor, path, job, served, told>>
    BY <1>4 DEF SendEvent
  <2>4. CASE t = BgCb
    <3>1. postQ = <<>> /\ pc[Post] = "loop" BY <2>1, <2>4 DEF DeliveryInv
    <3>2. postQ' = <<BgCb>> /\ workQ' = workQ
      BY <1>4, <2>4, <3>1, Distinct DEF SendEvent
    <3>3. RequestInv' BY <2>2, <2>3, <2>4, <3>2, Movers, Distinct DEF RequestInv, Waits
    <3>4. DeliveryInv' BY <2>1, <2>2, <2>3, <2>4, <3>1, <3>2, Distinct DEF DeliveryInv
    <3> QED BY <3>3, <3>4
  <2>5. CASE t \in Apps /\ t = monitor
    <3>1. workQ = <<>> /\ pc[Bg] = "loop" /\ pc[BgCb] = "none"
      BY <2>1, <2>5, Movers, Distinct DEF RequestInv, Waits
    <3>2. workQ' = <<t>> /\ postQ' = postQ
      BY <1>4, <2>5, <3>1, Distinct DEF SendEvent
    <3>3. RequestInv' BY <2>1, <2>2, <2>3, <2>5, <3>1, <3>2, Distinct DEF RequestInv, Waits
    <3>4. DeliveryInv' BY <2>2, <2>3, <2>5, <3>1, <3>2, Distinct DEF DeliveryInv
    <3> QED BY <3>3, <3>4
  <2> QED BY <2>1, <2>4, <2>5
<1>5. ASSUME NEW t \in Thread, WaitCheck(t) PROVE RequestInv' /\ DeliveryInv'
  <2>1. pc[t] = "check" /\ (t = BgCb \/ (t \in Apps /\ t = monitor))
    BY <1>5, Movers DEF WaitCheck, At, CallLabels
  <2>2. UNCHANGED <<cond, reg, monitor, workQ, postQ, path, job, served, told>>
    BY <1>5 DEF WaitCheck
  <2>3. PICK l \in {"leave", "waiting"} :
          /\ \A u \in Thread : pc'[u] = IF u = t THEN l ELSE pc[u]
          /\ l = "leave" /\ t = BgCb => "completed" \in cond
          /\ l = "leave" /\ t \in Apps => "core" \in cond
    BY <1>5, Move, Distinct DEF WaitCheck, Waited, Labels
  <2>4. CASE t = BgCb
    <3>1. RequestInv' BY <2>2, <2>3, <2>4, Movers, Distinct DEF RequestInv, Waits
    <3>2. l = "leave" => postQ = <<>> /\ pc[Post] = "loop" /\ Bg \in told
      BY <2>1, <2>3, <2>4 DEF DeliveryInv
    <3>3. DeliveryInv' BY <2>1, <2>2, <2>3, <2>4, <3>2, Distinct DEF DeliveryInv
    <3> QED BY <3>1, <3>3
  <2>5. CASE t \in Apps /\ t = monitor
    <3>1. l = "leave" => pc[Bg] = "loop" /\ workQ = <<>> /\ monitor \in served /\ Bg \in told
      BY <2>1, <2>3, <2>5 DEF RequestInv, Waits
    <3>2. RequestInv' BY <2>1, <2>2, <2>3, <2>5, <3>1, Distinct DEF RequestInv, Waits
    <3>3. DeliveryInv' BY <2>2, <2>3, <2>5, Distinct DEF DeliveryInv
    <3> QED BY <3>2, <3>3
  <2> QED BY <2>1, <2>4, <2>5
<1>6. ASSUME NEW t \in Thread, Interrupt(t) PROVE RequestInv' /\ DeliveryInv'
  BY <1>6, <1>q DEF Interrupt
<1>7. ASSUME NEW t \in Thread, Leave(t) PROVE RequestInv' /\ DeliveryInv'
  <2>1. pc[t] = "leave" /\ t \in Apps /\ t = monitor
    BY <1>7, Movers, Names DEF Leave, At, CallLabels
  <2>2. \A u \in Thread : pc'[u] = IF u = t THEN "idle" ELSE pc[u]
    BY <1>7, <2>1, Move, Distinct DEF Leave, Labels
  <2>3. pc[Bg] = "loop" /\ workQ = <<>> /\ pc[BgCb] = "none"
    BY <2>1, Movers DEF RequestInv, Waits
  <2>4. monitor' = Nobody /\ served' = {}
    BY <1>7, <2>1 DEF Leave, RequestInv
  <2>5. UNCHANGED <<cond, reg, workQ, postQ, path, job, told>> BY <1>7 DEF Leave
  <2>6. RequestInv' BY <2>1, <2>2, <2>3, <2>4, <2>5, Distinct, Names DEF RequestInv, Waits
  <2>7. DeliveryInv' BY <2>1, <2>2, <2>3, <2>5, Distinct DEF DeliveryInv
  <2> QED BY <2>6, <2>7
<1>8. ASSUME NEW t \in Thread, NotifyRead(t) PROVE RequestInv' /\ DeliveryInv'
  <2>1. pc[t] = "notify" /\ t \in {Bg, Post} BY <1>8, Movers DEF NotifyRead, At
  <2>2. \A u \in Thread : pc'[u] = IF u = t THEN "notified" ELSE pc[u]
    BY <1>8, Move DEF NotifyRead, Labels
  <2>3. /\ UNCHANGED <<cond, monitor, workQ, postQ, path, job, served, told>>
        /\ \A u \in Thread : reg'[u] = IF u = t THEN cond ELSE reg[u]
    BY <1>8 DEF NotifyRead, TypeOK
  <2>4. t = Post => pc[Bg] = "join" /\ "core" \notin cond
    BY <2>1, Movers DEF DeliveryInv, RequestInv
  <2>5. RequestInv' BY <2>1, <2>2, <2>3, Distinct DEF RequestInv, Waits
  <2>6. DeliveryInv' BY <2>1, <2>2, <2>3, <2>4, Distinct DEF DeliveryInv
  <2> QED BY <2>5, <2>6
<1>9. ASSUME NEW t \in Thread, NotifyWrite(t) PROVE RequestInv' /\ DeliveryInv'
  <2>1. pc[t] = "notified" /\ t \in {Bg, Post} BY <1>9, Movers DEF NotifyWrite, At
  <2>2. \A u \in Thread : pc'[u] = IF u = t THEN "loop"
                                  ELSE IF pc[u] = "waiting" THEN "check" ELSE pc[u]
    BY <1>9 DEF NotifyWrite, Woken
  <2>3. /\ UNCHANGED <<monitor, workQ, postQ, path, job, served, told>>
        /\ \A u \in Thread : u # t => reg'[u] = reg[u]
        /\ cond' = reg[t] \cup {Notified(t)}
    BY <1>9 DEF NotifyWrite, TypeOK
  <2>4. CASE t = Bg
    <3>1. /\ pc[BgCb] = "none" /\ Waits /\ workQ = <<>> /\ monitor \in served /\ Bg \in told
          /\ postQ = <<>> /\ pc[Post] = "loop"
      BY <2>1, <2>4, Movers DEF RequestInv, DeliveryInv
    <3>2. RequestInv' BY <2>2, <2>3, <2>4, <3>1, Distinct DEF RequestInv, Waits
    <3>3. DeliveryInv' BY <2>2, <2>3, <2>4, <3>1, Distinct DEF DeliveryInv
    <3> QED BY <3>2, <3>3
  <2>5. CASE t = Post
    <3>1. /\ pc[BgCb] \in {"check", "waiting"} /\ postQ = <<>> /\ Bg \in told
          /\ pc[Bg] = "join" /\ Waits
      BY <2>1, <2>5, Movers DEF RequestInv, DeliveryInv
    <3>2. "core" \notin cond'
      BY <2>1, <2>3, <2>5 DEF DeliveryInv, Notified
    <3>3. RequestInv' BY <2>2, <2>3, <2>5, <3>1, <3>2, Distinct DEF RequestInv, Waits
    <3>4. DeliveryInv' BY <2>2, <2>3, <2>5, <3>1, Distinct DEF DeliveryInv
    <3> QED BY <3>3, <3>4
  <2> QED BY <2>1, <2>4, <2>5
<1>10. CASE BgTake
  <2>1. /\ pc[Bg] = "loop" /\ workQ = <<monitor>> /\ Waits /\ monitor \notin served
        /\ "core" \notin cond /\ pc[BgCb] = "none"
    BY <1>10, Movers DEF BgTake, At, RequestInv
  <2>2. \A u \in Thread : pc'[u] = IF u = Bg THEN "dump" ELSE pc[u]
    BY <1>10, Move, Distinct DEF BgTake, Labels
  <2>3. /\ job' = monitor /\ workQ' = <<>>
        /\ UNCHANGED <<cond, reg, monitor, postQ, path, served, told>>
    BY <1>10, <2>1 DEF BgTake
  <2>4. RequestInv' BY <2>1, <2>2, <2>3, Distinct DEF RequestInv, Waits
  <2>5. DeliveryInv' BY <2>1, <2>2, <2>3, Distinct DEF DeliveryInv
  <2> QED BY <2>4, <2>5
<1>11. ASSUME NEW k \in Crasher, NativeCrash(k) PROVE RequestInv' /\ DeliveryInv'
  <2>1. pc'[Crash(k)] = "dump" BY <1>11, Names DEF NativeCrash, Goto, TypeOK
  <2> QED BY <1>i, <2>1
<1>12. ASSUME NEW k \in Crasher, Raise(k) PROVE RequestInv' /\ DeliveryInv'
  BY <1>i, <1>12 DEF Raise, At
<1>13. ASSUME NEW d \in Dumpers, Dump(d) \/ Callback(d) \/ Join(d) \/ CbStart(d) PROVE d = Bg
  <2>1. d # Bg => pc[d] = "idle" /\ pc[Cb(d[2])] = "none"
    BY <1>i, Names DEF Structure, JoinInv
  <2> QED BY <1>13, <2>1 DEF Dump, Callback, Join, CbStart, At
<1>14. CASE Dump(Bg)
  <2>1. pc[Bg] = "dump" /\ pc[BgCb] = "none" /\ postQ = <<>> /\ pc[Post] = "loop"
    BY <1>14, Movers DEF Dump, At, DeliveryInv
  <2>2. \A u \in Thread : pc'[u] = IF u = Bg THEN "callback" ELSE pc[u]
    BY <1>14, Move, Distinct DEF Dump, Labels
  <2>3. /\ served' = served \cup {job}
        /\ UNCHANGED <<cond, reg, monitor, workQ, postQ, path>>
    BY <1>14 DEF Dump
  <2>4. RequestInv' BY <2>1, <2>2, <2>3, Distinct DEF RequestInv, Waits
  <2>5. DeliveryInv' BY <2>1, <2>2, <2>3, Distinct DEF DeliveryInv
  <2> QED BY <2>4, <2>5
<1>15. CASE Callback(Bg)
  <2>1. pc[Bg] = "callback" /\ pc[BgCb] = "none" /\ postQ = <<>> /\ pc[Post] = "loop"
    BY <1>15, Movers DEF Callback, At, DeliveryInv
  <2>2. UNCHANGED <<cond, reg, monitor, workQ, postQ, path, job, served>>
    BY <1>15 DEF Callback
  <2>3. CASE pc' = [pc EXCEPT ![Bg] = "join", ![Cb(Bg[2])] = "start"] /\ UNCHANGED told
    <3>1. /\ \A u \in Thread :
                pc'[u] = IF u = Bg THEN "join" ELSE IF u = BgCb THEN "start" ELSE pc[u]
          /\ UNCHANGED told
      BY <2>3, Names DEF TypeOK
    <3>2. RequestInv' BY <2>1, <2>2, <3>1, Distinct DEF RequestInv, Waits
    <3>3. DeliveryInv' BY <2>1, <2>2, <3>1, Distinct DEF DeliveryInv
    <3> QED BY <3>2, <3>3
  <2>4. CASE Goto(Bg, AfterCallback(Bg)) /\ told' = told \cup {Bg}
    <3>1. \A u \in Thread : pc'[u] = IF u = Bg THEN "notify" ELSE pc[u]
      BY <2>4, Move, Distinct DEF AfterCallback, Labels
    <3>2. RequestInv' BY <2>1, <2>2, <2>4, <3>1, Distinct DEF RequestInv, Waits
    <3>3. DeliveryInv' BY <2>1, <2>2, <2>4, <3>1, Distinct DEF DeliveryInv
    <3> QED BY <3>2, <3>3
  <2> QED BY <1>15, <2>3, <2>4 DEF Callback
<1>16. CASE Join(Bg)
  <2>1. pc[Bg] = "join" /\ pc[BgCb] = "leave" /\ Bg \in told /\ postQ = <<>> /\ pc[Post] = "loop"
    BY <1>16, Names DEF Join, Joinable, At, DeliveryInv
  <2>2. UNCHANGED <<cond, reg, monitor, workQ, postQ, path, job, served, told>>
    BY <1>16 DEF Join
  <2>3. \A u \in Thread : pc'[u] = IF u = Bg THEN "notify" ELSE IF u = BgCb THEN "none" ELSE pc[u]
    BY <1>16, Names DEF Join, AfterCallback, TypeOK
  <2>4. RequestInv' BY <2>1, <2>2, <2>3, Distinct DEF RequestInv, Waits
  <2>5. DeliveryInv' BY <2>1, <2>2, <2>3, Distinct DEF DeliveryInv
  <2> QED BY <2>4, <2>5
<1>17. CASE CbStart(Bg)
  <2>1. pc[BgCb] = "start" /\ pc[Bg] = "join"
    BY <1>17, Movers, Names DEF CbStart, At
  <2>2. postQ = <<>> /\ pc[Post] = "loop" BY <2>1 DEF DeliveryInv
  <2>3. UNCHANGED <<cond, reg, monitor, workQ, postQ, path, job, served>>
    BY <1>17 DEF CbStart
  <2>4. PICK l \in {"clear", "leave"} :
          /\ \A u \in Thread : pc'[u] = IF u = BgCb THEN l ELSE pc[u]
          /\ told' = IF l = "leave" THEN told \cup {Bg} ELSE told
    BY <1>17, Move, Names DEF CbStart, Labels
  <2>5. RequestInv' BY <2>1, <2>3, <2>4, Distinct DEF RequestInv, Waits
  <2>6. DeliveryInv' BY <2>1, <2>2, <2>3, <2>4, Distinct DEF DeliveryInv
  <2> QED BY <2>5, <2>6
<1>18. CASE PostTake
  <2>1. /\ pc[Post] = "loop" /\ postQ = <<BgCb>> /\ pc[BgCb] \in {"check", "waiting"}
        /\ "completed" \notin cond
    BY <1>18 DEF PostTake, At, DeliveryInv
  <2>2. \A u \in Thread : pc'[u] = IF u = Post THEN "test" ELSE pc[u]
    BY <1>18, Move, Distinct DEF PostTake, Labels
  <2>3. /\ postQ' = <<>> /\ path' = Bg
        /\ UNCHANGED <<cond, reg, monitor, workQ, job, served, told>>
    BY <1>18, <2>1 DEF PostTake, DumperOf, BgCb
  <2>4. RequestInv' BY <2>2, <2>3, Distinct DEF RequestInv, Waits
  <2>5. DeliveryInv' BY <2>1, <2>2, <2>3, Distinct DEF DeliveryInv
  <2> QED BY <2>4, <2>5
<1>19. CASE ListenerTest \/ ListenerInvoke
  <2>1. /\ pc[Post] \in {"test", "invoke"} /\ path = Bg /\ postQ = <<>>
        /\ pc[BgCb] \in {"check", "waiting"} /\ "completed" \notin cond
    BY <1>19 DEF ListenerTest, ListenerInvoke, At, DeliveryInv
  <2>2. UNCHANGED <<cond, reg, monitor, workQ, postQ, job, path, served>>
    BY <1>19 DEF ListenerTest, ListenerInvoke
  <2>3. told' \in {told, told \cup {Bg}}
    BY <1>19, <2>1 DEF ListenerTest, ListenerInvoke
  <2>4. PICK l \in {"invoke", "enter", "notify"} :
          /\ Goto(Post, l) \/ (pc' = pc /\ l = "invoke" /\ pc[Post] = "invoke")
          /\ l = "notify" => told' = told \cup {Bg}
    BY <1>19, <2>1 DEF ListenerTest, ListenerInvoke, Uncaught, At
  <2>5. \A u \in Thread : pc'[u] = IF u = Post THEN l ELSE pc[u]
    BY <2>4, Move, Distinct DEF Labels
  <2>6. RequestInv' BY <2>2, <2>3, <2>5, Distinct DEF RequestInv, Waits
  <2>7. DeliveryInv' BY <2>1, <2>2, <2>3, <2>4, <2>5, Distinct DEF DeliveryInv
  <2> QED BY <2>6, <2>7
<1>20. ASSUME NEW t \in Apps, Call(t) \/ JavaCrash(t) PROVE RequestInv' /\ DeliveryInv'
  <2>1. pc[t] = "idle" /\ t # monitor
    BY <1>20, Movers DEF Call, JavaCrash, At, CallLabels
  <2>2. UNCHANGED <<cond, reg, monitor, workQ, postQ, job, path, served, told>>
    BY <1>20 DEF Call, JavaCrash
  <2>3. \A u \in Thread : u # t => pc'[u] = pc[u]
    <3>1. pc' = pc \/ Goto(t, "enter") BY <1>20 DEF Call, JavaCrash, Uncaught
    <3> QED BY <3>1, Move, Distinct DEF Labels
  <2>4. RequestInv' BY <2>1, <2>2, <2>3, Distinct DEF RequestInv, Waits
  <2>5. DeliveryInv' BY <2>2, <2>3, Distinct DEF DeliveryInv
  <2> QED BY <2>4, <2>5
<1>21. CASE SetListener \/ UNCHANGED vars
  <2>1. UNCHANGED <<pc, cond, reg, monitor, workQ, postQ, job, path, served, told>>
    BY <1>21 DEF SetListener, vars
  <2> QED BY <2>1 DEF RequestInv, DeliveryInv, Waits
<1> QED BY <1>1, <1>2, <1>3, <1>4, <1>5, <1>6, <1>7, <1>8, <1>9, <1>10, <1>11, <1>12, <1>13,
           <1>14, <1>15, <1>16, <1>17, <1>18, <1>19, <1>20, <1>21, Names DEF Next, ThreadStep

---------------------------------------------------------------------------
LEMMA RoundHolds == Spec => [](TypeOK /\ Structure /\ RoundInv)
<1>1. Init => TypeOK /\ Structure /\ RoundInv
  BY TypeInit, StructureInit, RoundInit
<1>2. TypeOK /\ Structure /\ RoundInv /\ [Next]_vars => Structure' /\ RoundInv'
  BY StructureStep, RoundStep
<1>3. RoundInv => OneMessage
  <2> SUFFICES ASSUME RequestInv, DeliveryInv PROVE Len(workQ) <= 1 /\ Len(postQ) <= 1
    BY DEF RoundInv, OneMessage
  <2>0. 0 <= 1 /\ 1 <= 1 OBVIOUS
  <2>1. Len(workQ) <= 1
    <3>1. workQ = <<>> \/ workQ = <<monitor>> BY DEF RequestInv
    <3>2. Len(<<>>) = 0 /\ Len(<<monitor>>) = 1 OBVIOUS
    <3> QED BY <3>1, <3>2, <2>0, Zenon
  <2>2. Len(postQ) <= 1
    <3>1. postQ = <<>> \/ postQ = <<BgCb>> BY DEF DeliveryInv
    <3>2. Len(<<>>) = 0 /\ Len(<<BgCb>>) = 1 OBVIOUS
    <3> QED BY <3>1, <3>2, <2>0, Zenon
  <2> QED BY <2>1, <2>2
<1>4. TypeOK /\ Structure /\ OneMessage' /\ [Next]_vars => TypeOK'
  BY TypeStep
<1> QED BY <1>1, <1>2, <1>3, <1>4, PTL DEF Spec

\* The types of the service's state, with at most one message in either queue
\* as long as no call has been abandoned and no thread has crashed natively.
THEOREM TypeCorrect == Spec => []TypeOK
  BY RoundHolds, PTL

\* doCoredump returns true for a core dumped for this very call: however many
\* threads call, crash in Java, change the listener or call from it.
THEOREM TrueAnswers == Spec => []TrueMeansDumped
<1>1. TypeOK /\ Structure /\ RoundInv => TrueMeansDumped
  <2> SUFFICES ASSUME TypeOK, Structure, RoundInv, Undisturbed, NEW t \in Apps, pc[t] = "leave"
               PROVE  t \in served
    BY DEF TrueMeansDumped
  <2>1. RequestInv /\ DeliveryInv BY DEF RoundInv
  <2>2. t = monitor BY <2>1, Movers, Distinct DEF CallLabels
  <2> QED BY <2>1, <2>2 DEF RequestInv
<1> QED BY <1>1, RoundHolds, PTL

\* ... and after its callback has been dealt with.
THEOREM ListenerRunsFirst == Spec => []ListenerFirst
<1>1. TypeOK /\ Structure /\ RoundInv => ListenerFirst
  <2> SUFFICES ASSUME TypeOK, Structure, RoundInv, Undisturbed, NEW t \in Apps, pc[t] = "leave"
               PROVE  Bg \in told
    BY DEF ListenerFirst
  <2>1. RequestInv /\ DeliveryInv BY DEF RoundInv
  <2>2. t = monitor BY <2>1, Movers, Distinct DEF CallLabels
  <2> QED BY <2>1, <2>2 DEF RequestInv
<1> QED BY <1>1, RoundHolds, PTL

---------------------------------------------------------------------------
(* The service implements DumpRequest, as far as safety goes: without      *)
(* native crashes and interrupts it starts as a DumpRequest and each of    *)
(* its steps is a step of one, or changes nothing there.                   *)

\* An exception in the listener re-enters doCoredump on opencore-post, which
\* then never gets the monitor: nothing of the request is done any more.
DoomInv == Post \in doomed => pc[Post] = "enter"

Asks(c)  == IF pc[App(c)] \in {"idle", "enter"} THEN "idle"
            ELSE IF App(c) \in served THEN "dumped" ELSE "asked"
Lives    == alive /\ Post \notin doomed

\* A step of one caller's request, seen through the refinement mapping.
LEMMA OneRequest ==
    ASSUME NEW c \in Caller, NEW r, Asks(c)' = r, \A d \in Caller \ {c} : Asks(d)' = Asks(d)
    PROVE  [d \in Caller |-> Asks(d)]' = [[d \in Caller |-> Asks(d)] EXCEPT ![c] = r]
  OBVIOUS

LEMMA AskMapped ==
    ASSUME NEW c \in Caller, Lives, \A d \in Caller : Asks(d) = "idle", Lives' = Lives,
           Asks(c)' = "asked", \A d \in Caller \ {c} : Asks(d)' = Asks(d)
    PROVE  Request!Next
<1>1. [d \in Caller |-> Asks(d)]' = [[d \in Caller |-> Asks(d)] EXCEPT ![c] = "asked"]
  BY OneRequest
<1>2. Request!Ask(c) BY <1>1 DEF Request!Ask, Asks, Lives
<1> QED BY <1>2 DEF Request!Next

LEMMA DumpMapped ==
    ASSUME NEW c \in Caller, Lives, Asks(c) = "asked", Lives' = Lives,
           Asks(c)' = "dumped", \A d \in Caller \ {c} : Asks(d)' = Asks(d)
    PROVE  Request!Next
<1>1. [d \in Caller |-> Asks(d)]' = [[d \in Caller |-> Asks(d)] EXCEPT ![c] = "dumped"]
  BY OneRequest
<1>2. Request!Dump(c) BY <1>1 DEF Request!Dump, Asks, Lives
<1> QED BY <1>2 DEF Request!Next

LEMMA AnswerMapped ==
    ASSUME NEW c \in Caller, Lives, Asks(c) = "dumped", Lives' \in BOOLEAN,
           Asks(c)' = "idle", \A d \in Caller \ {c} : Asks(d)' = Asks(d)
    PROVE  Request!Next
<1>1. [d \in Caller |-> Asks(d)]' = [[d \in Caller |-> Asks(d)] EXCEPT ![c] = "idle"]
  BY OneRequest
<1>2. Request!Answer(c) BY <1>1 DEF Request!Answer, Asks, Lives
<1> QED BY <1>2 DEF Request!Next

\* The process may die at any moment; a step that leaves every request alone
\* and does not revive it is that, or none.
LEMMA OtherMapped ==
    ASSUME \A d \in Caller : Asks(d)' = Asks(d), Lives' => Lives, Lives \in BOOLEAN, Lives' \in BOOLEAN
    PROVE  [Request!Next]_(Request!vars)
<1>1. [d \in Caller |-> Asks(d)]' = [d \in Caller |-> Asks(d)] OBVIOUS
<1>2. CASE Lives' = Lives
  BY <1>1, <1>2 DEF Request!vars, Asks, Lives
<1>3. CASE Lives' # Lives
  <2>1. Lives /\ Lives' = FALSE BY <1>3
  <2>2. Request!Die BY <1>1, <2>1 DEF Request!Die, Asks, Lives
  <2> QED BY <2>2 DEF Request!Next
<1> QED BY <1>2, <1>3

LEMMA AppNames ==
    /\ \A c \in Caller : App(c) \in Apps
    /\ \A c, d \in Caller : App(c) = App(d) => c = d
    /\ \A t \in Apps : \E c \in Caller : t = App(c)
  BY DEF Apps, App

LEMMA QuitStep == ASSUME Interrupts = FALSE PROVE ~quit /\ [Next]_vars => ~quit'
  BY DEF Next, ThreadStep, vars, hist, Enter, ClearRead, ClearWrite, SendEvent, WaitCheck, Leave,
     NotifyRead, NotifyWrite, BgTake, Dump, Callback, Join, CbStart, Raise, PostTake, ListenerTest,
     ListenerInvoke, Call, JavaCrash, Interrupt, NativeCrash, SetListener

\* Whoever holds opencore-post up holds the monitor.
LEMMA PostStuck ==
    ASSUME TypeOK, Structure, Undisturbed, RequestInv, DeliveryInv, pc[Post] # "loop"
    PROVE  pc[Bg] = "join" /\ Waits /\ monitor # Nobody
  BY Movers, Distinct DEF DeliveryInv, RequestInv, Waits

LEMMA DoomStep ==
    ASSUME TypeOK, Structure, Undisturbed, RequestInv, DeliveryInv, DoomInv, [Next]_vars,
           Crasher = {}
    PROVE  DoomInv'
<1> USE DEF work, env, hist
<1>1. ASSUME pc[Post] = "enter" PROVE pc'[Post] = "enter"
  <2>0. monitor # Nobody BY <1>1, PostStuck
  <2>1. ASSUME NEW t \in Thread, NEW l, Goto(t, l), t # Post PROVE pc'[Post] = "enter"
    BY <1>1, <2>1, Distinct DEF Goto, TypeOK
  <2>2. ASSUME NEW t \in Thread,
               \/ Enter(t) \/ ClearRead(t) \/ ClearWrite(t) \/ SendEvent(t) \/ WaitCheck(t)
               \/ Leave(t) \/ NotifyRead(t)
        PROVE  pc'[Post] = "enter"
    <3>1. t # Post
      BY <1>1, <2>0, <2>2 DEF Enter, MonitorFree, ClearRead, ClearWrite, SendEvent, WaitCheck,
         Leave, NotifyRead, At
    <3> QED
      BY <2>1, <2>2, <3>1 DEF Enter, ClearRead, ClearWrite, SendEvent, WaitCheck, Leave, NotifyRead
  <2>3. ASSUME NEW t \in Thread, NotifyWrite(t) PROVE pc'[Post] = "enter"
    BY <1>1, <2>3, Distinct DEF NotifyWrite, Woken, At
  <2>4. CASE BgTake \/ Dump(Bg) \/ PostTake \/ ListenerTest \/ ListenerInvoke
    BY <1>1, <2>1, <2>4, Distinct DEF BgTake, Dump, PostTake, ListenerTest, ListenerInvoke, At
  <2>5. CASE Callback(Bg) \/ Join(Bg)
    BY <1>1, <2>1, <2>5, Names, Distinct DEF Callback, Join, TypeOK
  <2>6. CASE CbStart(Bg)
    BY <2>1, <2>6, Names, Distinct DEF CbStart
  <2>7. ASSUME NEW t \in Apps, Call(t) \/ JavaCrash(t) \/ Interrupt(t) PROVE pc'[Post] = "enter"
    BY <1>1, <2>1, <2>7, Distinct DEF Call, JavaCrash, Interrupt, Uncaught
  <2>8. CASE SetListener \/ UNCHANGED vars
    BY <1>1, <2>8 DEF SetListener, vars
  <2>9. Dumpers = {Bg} BY DEF Dumpers
  <2> QED BY <2>2, <2>3, <2>4, <2>5, <2>6, <2>7, <2>8, <2>9 DEF Next, ThreadStep
<1>2. Post \in doomed' => Post \in doomed \/ pc'[Post] = "enter"
  <2>1. CASE ListenerInvoke
    BY <2>1, Distinct DEF ListenerInvoke, Uncaught, Goto, TypeOK
  <2>2. ASSUME NEW t \in Apps, JavaCrash(t) PROVE Post \in doomed' => Post \in doomed
    BY <2>2, Distinct DEF JavaCrash, Uncaught
  <2>3. CASE ~ListenerInvoke /\ ~\E t \in Apps : JavaCrash(t)
    <3>1. doomed' = doomed
      BY <2>3 DEF Next, ThreadStep, vars, Enter, ClearRead, ClearWrite, SendEvent, WaitCheck,
         Leave, NotifyRead, NotifyWrite, BgTake, Dump, Callback, Join, CbStart, Raise, PostTake,
         ListenerTest, Call, Interrupt, NativeCrash, SetListener
    <3> QED BY <3>1
  <2> QED BY <2>1, <2>2, <2>3
<1> QED BY <1>1, <1>2 DEF DoomInv

LEMMA RequestStep ==
    ASSUME TypeOK, TypeOK', Structure, Undisturbed, RequestInv, DeliveryInv, DoomInv, ~quit',
           Crasher = {}, [Next]_vars
    PROVE  [Request!Next]_(Request!vars)
<1> USE DEF work, env, hist
<1> DEFINE Out(t) == pc[t] \in {"idle", "enter"}
<1>0. Dumpers = {Bg} BY DEF Dumpers
<1>1. Lives \in BOOLEAN /\ Lives' \in BOOLEAN
  BY DEF Lives, TypeOK
\* Steps that neither enter nor leave the monitor, nor dump for a client.
<1>2. ASSUME served' = served, \A t \in Apps : Out(t)' <=> Out(t), Lives' => Lives
      PROVE  [Request!Next]_(Request!vars)
  <2>1. \A d \in Caller : Asks(d)' = Asks(d) BY <1>2, AppNames DEF Asks
  <2> QED BY <1>1, <1>2, <2>1, OtherMapped
<1>3. ASSUME NEW t \in Thread, NEW l \in Labels, Goto(t, l), UNCHANGED <<served, alive, doomed>>,
             t \in Apps => (Out(t) <=> l \in {"idle", "enter"})
      PROVE  [Request!Next]_(Request!vars)
  <2>1. \A u \in Thread : pc'[u] = IF u = t THEN l ELSE pc[u] BY <1>3, Move
  <2>2. \A u \in Apps : Out(u)' <=> Out(u) BY <1>3, <2>1, Distinct
  <2>3. Lives' = Lives BY <1>3 DEF Lives
  <2> QED BY <1>2, <1>3, <2>2, <2>3
<1>4. ASSUME NEW t \in Thread, Enter(t) PROVE [Request!Next]_(Request!vars)
  <2>1. pc[t] = "enter" /\ monitor = Nobody /\ t \in Clients /\ alive
    BY <1>4, Kinds DEF Enter, At, MonitorFree, Structure
  <2>2. pc[Post] = "loop" BY <2>1, PostStuck
  <2>3. t \in Apps BY <2>1, <2>2, Names
  <2>4. PICK c \in Caller : t = App(c) BY <2>3, AppNames
  <2>5. Lives /\ Lives' = Lives BY <1>4, <2>1, <2>2 DEF Lives, DoomInv, Enter
  <2>6. \A u \in Apps : pc[u] \notin CallLabels BY <2>1, Movers, Distinct
  <2>7. \A u \in Apps : Out(u)
    BY <2>6, Names DEF Structure, KindInv, Fits
  <2>8. served = {} BY <2>1, Names DEF RequestInv, TypeOK
  <2>9. \A u \in Thread : pc'[u] = IF u = t THEN "clear" ELSE pc[u]
    BY <1>4, Move DEF Enter, Labels
  <2>10. served' = served BY <1>4 DEF Enter
  <2>11. \A d \in Caller : Asks(d) = "idle" BY <2>7, AppNames DEF Asks
  <2>12. Asks(c)' = "asked" BY <2>3, <2>4, <2>8, <2>9, <2>10, Distinct DEF Asks
  <2>13. \A d \in Caller \ {c} : Asks(d)' = Asks(d)
    BY <2>4, <2>9, <2>10, AppNames, Distinct DEF Asks
  <2> QED BY <2>5, <2>11, <2>12, <2>13, AskMapped
<1>5. ASSUME NEW t \in Thread, Leave(t) PROVE [Request!Next]_(Request!vars)
  <2>1. pc[t] = "leave" /\ alive /\ t \in Apps /\ t = monitor /\ t \in served
    BY <1>5, Movers, Names DEF Leave, At, CallLabels, RequestInv
  <2>2. pc[Post] = "loop" BY <2>1, PostStuck DEF Waits
  <2>3. PICK c \in Caller : t = App(c) BY <2>1, AppNames
  <2>4. Lives BY <2>1, <2>2 DEF Lives, DoomInv
  <2>5. \A u \in Thread : pc'[u] = IF u = t THEN "idle" ELSE pc[u]
    BY <1>5, <2>1, Move, Distinct DEF Leave, Labels
  <2>6. served' = served \ {t} BY <1>5 DEF Leave
  <2>7. Asks(c) = "dumped" BY <2>1, <2>3 DEF Asks
  <2>8. Asks(c)' = "idle" BY <2>1, <2>3, <2>5, Distinct DEF Asks
  <2>9. \A d \in Caller \ {c} : Asks(d)' = Asks(d)
    BY <2>3, <2>5, <2>6, AppNames, Distinct DEF Asks
  <2> QED BY <1>1, <2>4, <2>7, <2>8, <2>9, AnswerMapped
<1>6. CASE Dump(Bg)
  <2>1. /\ pc[Bg] = "dump" /\ alive /\ job = monitor /\ monitor \in Apps /\ monitor \notin served
        /\ pc[monitor] \in {"check", "waiting"}
    BY <1>6 DEF Dump, At, RequestInv, Waits
  <2>2. pc[Post] = "loop" BY <2>1, PostStuck
  <2>3. PICK c \in Caller : monitor = App(c) BY <2>1, AppNames
  <2>4. Lives /\ Lives' = Lives BY <1>6, <2>1, <2>2 DEF Lives, DoomInv, Dump
  <2>5. \A u \in Apps : pc'[u] = pc[u]
    BY <1>6, Move, Distinct DEF Dump, Labels
  <2>6. served' = served \cup {monitor} BY <1>6, <2>1 DEF Dump
  <2>7. Asks(c) = "asked" BY <2>1, <2>3 DEF Asks
  <2>8. Asks(c)' = "dumped" BY <2>1, <2>3, <2>5, <2>6 DEF Asks
  <2>9. \A d \in Caller \ {c} : Asks(d)' = Asks(d)
    BY <2>3, <2>5, <2>6, AppNames DEF Asks
  <2> QED BY <2>4, <2>7, <2>8, <2>9, DumpMapped
<1>7. ASSUME NEW t \in Thread,
             \/ ClearRead(t) \/ ClearWrite(t) \/ SendEvent(t) \/ WaitCheck(t) \/ NotifyRead(t)
      PROVE  [Request!Next]_(Request!vars)
  <2>1. PICK l \in Labels \ {"idle", "enter"} :
          Goto(t, l) /\ ~Out(t) /\ UNCHANGED <<served, alive, doomed>>
    BY <1>7 DEF ClearRead, ClearWrite, SendEvent, WaitCheck, NotifyRead, At, Labels
  <2> QED BY <1>3, <2>1
<1>8. ASSUME NEW t \in Thread, NotifyWrite(t) PROVE [Request!Next]_(Request!vars)
  <2>1. t \in {Bg, Post} BY <1>8, Movers DEF NotifyWrite, At
  <2>2. \A u \in Apps : Out(u)' <=> Out(u)
    BY <1>8, <2>1, Distinct DEF NotifyWrite, Woken
  <2> QED BY <1>2, <1>8, <2>2 DEF NotifyWrite, Lives
<1>9. CASE BgTake \/ PostTake \/ ListenerTest \/ CbStart(Bg)
  <2>1. PICK t \in {Bg, Post, BgCb}, l \in Labels :
          Goto(t, l) /\ UNCHANGED <<served, alive, doomed>>
    BY <1>9, Names DEF BgTake, PostTake, ListenerTest, CbStart, Labels
  <2> QED BY <1>3, <2>1, Distinct
<1>10. CASE Callback(Bg) \/ Join(Bg)
  <2>1. \A u \in Apps : pc'[u] = pc[u]
    BY <1>10, Names, Distinct DEF Callback, Join, Goto, TypeOK
  <2>2. UNCHANGED <<served, alive, doomed>> BY <1>10 DEF Callback, Join
  <2> QED BY <1>2, <2>1, <2>2 DEF Lives
<1>11. CASE ListenerInvoke
  <2>1. \A u \in Apps : pc'[u] = pc[u]
    BY <1>11, Distinct DEF ListenerInvoke, Uncaught, Goto, TypeOK
  <2>2. served' = served /\ (Lives' => Lives)
    BY <1>11 DEF ListenerInvoke, Uncaught, Lives, At
  <2> QED BY <1>2, <2>1, <2>2
<1>12. ASSUME NEW t \in Apps, Call(t) \/ JavaCrash(t) PROVE [Request!Next]_(Request!vars)
  <2>1. \A u \in Apps : Out(u)' <=> Out(u)
    BY <1>12, Distinct DEF Call, JavaCrash, Uncaught, Goto, TypeOK, At
  <2>2. served' = served /\ (Lives' => Lives)
    BY <1>12 DEF Call, JavaCrash, Uncaught, Lives, At
  <2> QED BY <1>2, <2>1, <2>2
<1>13. ASSUME NEW t \in Apps, Interrupt(t) PROVE FALSE
  BY <1>13 DEF Interrupt
<1>14. CASE SetListener \/ UNCHANGED vars
  <2>1. UNCHANGED <<pc, served, alive, doomed>> BY <1>14 DEF SetListener, vars
  <2> QED BY <1>2, <2>1 DEF Lives
<1> QED BY <1>0, <1>4, <1>5, <1>6, <1>7, <1>8, <1>9, <1>10, <1>11, <1>12, <1>13, <1>14
        DEF Next, ThreadStep

\* The safety half of RefinesRequest, for any number of callers and with a
\* listener that may call the service itself: requests are served one at a time,
\* each is dumped before it is answered, and nothing is answered twice.
THEOREM ImplementsRequest ==
    ASSUME Crasher = {}, Interrupts = FALSE
    PROVE  Spec => Request!Init /\ [][Request!Next]_(Request!vars)
<1>1. Init => Request!Init /\ DoomInv /\ ~quit
  <2> SUFFICES ASSUME Init PROVE Request!Init /\ DoomInv /\ ~quit
    OBVIOUS
  <2>1. \A c \in Caller : pc[App(c)] = "idle" BY AppNames, Names DEF Init
  <2> QED BY <2>1 DEF Init, Request!Init, DoomInv
<1>2. TypeOK /\ Structure /\ RoundInv /\ DoomInv /\ ~quit /\ [Next]_vars => DoomInv' /\ ~quit'
  BY QuitStep, DoomStep DEF RoundInv, Undisturbed
<1>3. TypeOK /\ TypeOK' /\ Structure /\ RoundInv /\ DoomInv /\ ~quit /\ ~quit' /\ [Next]_vars
      => [Request!Next]_(Request!vars)
  BY RequestStep DEF RoundInv, Undisturbed
<1> QED BY <1>1, <1>2, <1>3, RoundHolds, PTL DEF Spec
=============================================================================
