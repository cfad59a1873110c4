-------------------------- MODULE CoredumpService --------------------------
(***************************************************************************)
(* The Java service: doCoredump hands a request to the opencore-bg thread  *)
(* and waits, the native dump calls back on a thread of its own, which     *)
(* hands the path to opencore-post and waits, and the listener runs there. *)
(* The waits share mCondition, whose bits are set under mLock and cleared  *)
(* outside it, a read and a write at a time.                               *)
(*                                                                         *)
(* The model starts after init() has returned true.                        *)
(***************************************************************************)
EXTENDS Integers, Sequences, FiniteSets

CONSTANTS
    Caller,         \* application threads that call doCoredump
    Crasher,        \* threads that may run into a native signal
    MaxCalls,       \* bound: calls and Java crashes of the application, together
    MaxToggles,     \* bound: calls of setListener after the first
    Interrupts,     \* whether Thread.interrupt may hit a waiting caller
    ListenerCalls   \* whether the listener itself calls doCoredump

\* A thread is a pair of a kind and a name, and "bg" is the name of opencore-bg.
ASSUME ServiceAssumption ==
    /\ "bg" \notin Crasher
    /\ MaxCalls \in Nat /\ MaxToggles \in Nat
    /\ Interrupts \in BOOLEAN /\ ListenerCalls \in BOOLEAN

Bg   == <<"bg", "bg">>
Post == <<"post", "post">>
App(c)   == <<"app", c>>
Crash(k) == <<"crash", k>>
Cb(d)    == <<"cb", d>>

Apps    == {App(c) : c \in Caller}
Dumpers == {Bg} \cup {Crash(k) : k \in Crasher}
Cbs     == {Cb(d[2]) : d \in Dumpers}
Thread  == Apps \cup Dumpers \cup Cbs \cup {Post}
Clients == Apps \cup {Post}
Nobody  == <<"nobody">>

VARIABLES
    cond,       \* mCondition, as the set of its bits
    monitor,    \* who is in a synchronized method of the Coredump instance
    lock,       \* who is inside synchronized (mLock) between a read and a write
    listener,   \* mListener is set
    javaOn,     \* the default uncaught exception handler is JavaCrashHandler
    workQ,      \* messages of opencore-bg: the clients they are for
    postQ,      \* messages of opencore-post: the dumpers they are for
    pc,
    reg,        \* the value of mCondition each thread has read
    job,        \* the client opencore-bg is dumping for
    path,       \* the dumper whose path opencore-post is delivering
    doomed,     \* threads whose doCoredump is that of uncaughtException
    calls, toggles, alive,
    served,     \* clients whose request has been dumped
    told,       \* dumpers whose callback has had its listener dealt with
    quit        \* some call has been abandoned to an interrupt

work == <<workQ, postQ, job, path>>
env  == <<listener, javaOn, doomed, calls, toggles, alive>>
hist == <<served, told, quit>>
vars == <<cond, monitor, lock, pc, reg, work, env, hist>>

Init ==
    /\ cond = {} /\ monitor = Nobody /\ lock = Nobody
    /\ listener = TRUE /\ javaOn = TRUE
    /\ workQ = <<>> /\ postQ = <<>> /\ job = Nobody /\ path = Nobody
    /\ pc = [t \in Thread |-> IF t \in {Bg, Post} THEN "loop"
                              ELSE IF t \in Cbs THEN "none" ELSE "idle"]
    /\ reg = [t \in Thread |-> {}]
    /\ doomed = {} /\ alive = TRUE /\ toggles = 0
    /\ calls = 0
    /\ served = {} /\ told = {} /\ quit = FALSE

At(t, l)   == alive /\ pc[t] = l
Goto(t, l) == pc' = [pc EXCEPT ![t] = l]
Waited(t)  == IF t \in Cbs THEN "completed" ELSE "core"     \* bit t waits for
Notified(t) == IF t = Post THEN "completed" ELSE "core"    \* bit t sets

---------------------------------------------------------------------------
(* doCoredump, doCompleted: clear a bit, send, wait for the bit.           *)

Call(t) ==
    /\ At(t, "idle") /\ calls < MaxCalls
    /\ calls' = calls + 1
    /\ Goto(t, "enter")
    /\ UNCHANGED <<cond, monitor, lock, reg, work, hist,
                   listener, javaOn, doomed, toggles, alive>>

\* JavaCrashHandler.uncaughtException: disable, doCoredump, die; when it is
\* not the default handler any more the exception just kills the process.
Uncaught(t) ==
    IF javaOn
    THEN javaOn' = FALSE /\ doomed' = doomed \cup {t} /\ Goto(t, "enter")
         /\ UNCHANGED alive
    ELSE alive' = FALSE /\ UNCHANGED <<javaOn, doomed, pc>>

JavaCrash(t) ==
    /\ At(t, "idle") /\ calls < MaxCalls
    /\ Uncaught(t)
    /\ calls' = calls + 1
    /\ UNCHANGED <<cond, monitor, lock, reg, work, hist, listener, toggles>>

\* Faulty: doCoredump is not synchronized.
FaultyMonitorFree(t) == TRUE
MonitorFree(t) == monitor = Nobody

Enter(t) ==
    /\ At(t, "enter") /\ MonitorFree(t)
    /\ monitor' = t
    /\ Goto(t, "clear")
    /\ UNCHANGED <<cond, lock, reg, work, env, hist>>

ClearRead(t) ==
    /\ At(t, "clear")
    /\ reg' = [reg EXCEPT ![t] = cond]
    /\ Goto(t, "cleared")
    /\ UNCHANGED <<cond, monitor, lock, work, env, hist>>

\* Faulty: the old bit is left in place.
FaultyCleared(t) == reg[t]
Cleared(t) == reg[t] \ {Waited(t)}

ClearWrite(t) ==
    /\ At(t, "cleared")
    /\ cond' = Cleared(t)
    /\ reg' = [reg EXCEPT ![t] = {}]
    /\ Goto(t, "send")
    /\ UNCHANGED <<monitor, lock, work, env, hist>>

SendEvent(t) ==
    /\ At(t, "send")
    /\ IF t \in Cbs
       THEN postQ' = Append(postQ, t) /\ UNCHANGED workQ
       ELSE workQ' = Append(workQ, t) /\ UNCHANGED postQ
    /\ Goto(t, "check")
    /\ UNCHANGED <<cond, monitor, lock, reg, job, path, env, hist>>

\* while ((mCondition & bit) != bit) mLock.wait();
WaitCheck(t) ==
    /\ At(t, "check") /\ lock = Nobody
    /\ Goto(t, IF Waited(t) \in cond THEN "leave" ELSE "waiting")
    /\ UNCHANGED <<cond, monitor, lock, reg, work, env, hist>>

\* InterruptedException out of mLock.wait(): return false.
Interrupt(t) ==
    /\ Interrupts /\ At(t, "waiting") /\ t \in Apps
    /\ Goto(t, "leave") /\ quit' = TRUE
    /\ UNCHANGED <<cond, monitor, lock, reg, work, env, served, told>>

\* The synchronized method returns; uncaughtException kills the process then.
Leave(t) ==
    /\ At(t, "leave") /\ t \in Clients
    /\ monitor' = Nobody
    /\ served' = served \ {t}
    /\ alive' = (t \notin doomed)
    /\ Goto(t, IF t = Post THEN "notify" ELSE "idle")
    /\ UNCHANGED <<cond, lock, reg, work, listener, javaOn, doomed, calls, toggles,
                   told, quit>>

---------------------------------------------------------------------------
(* notifyCore, notifyCompleted: set a bit, mLock held from the read on.    *)

NotifyRead(t) ==
    /\ At(t, "notify") /\ lock = Nobody
    /\ lock' = t
    /\ reg' = [reg EXCEPT ![t] = cond]
    /\ Goto(t, "notified")
    /\ UNCHANGED <<cond, monitor, work, env, hist>>

\* Faulty: notifyAll is forgotten.
FaultyWoken(u) == FALSE
Woken(u) == pc[u] = "waiting"

NotifyWrite(t) ==
    /\ At(t, "notified")
    /\ cond' = reg[t] \cup {Notified(t)}
    /\ reg' = [reg EXCEPT ![t] = {}]
    /\ lock' = Nobody
    /\ pc' = [u \in Thread |-> IF u = t THEN "loop"
                               ELSE IF Woken(u) THEN "check" ELSE pc[u]]
    /\ UNCHANGED <<monitor, work, env, hist>>

---------------------------------------------------------------------------
(* opencore-bg, a thread in HandleSignal, and their native callback.       *)

BgTake ==
    /\ At(Bg, "loop") /\ workQ # <<>>
    /\ job' = Head(workQ) /\ workQ' = Tail(workQ)
    /\ Goto(Bg, "dump")
    /\ UNCHANGED <<cond, monitor, lock, reg, postQ, path, env, hist>>

\* A native signal takes an application thread out of the game.
NativeCrash(k) ==
    /\ At(Crash(k), "idle")
    /\ Goto(Crash(k), "dump")
    /\ UNCHANGED <<cond, monitor, lock, reg, work, env, hist>>

\* Opencore::Dump up to its callback, whatever came of the core.
Dump(d) ==
    /\ At(d, "dump")
    /\ IF d = Bg
       THEN served' = served \cup {job} /\ job' = Nobody
       ELSE UNCHANGED <<served, job>>
    /\ told' = told \ {d}
    /\ Goto(d, "callback")
    /\ UNCHANGED <<cond, monitor, lock, reg, workQ, postQ, path, env, quit>>

AfterCallback(d) == IF d = Bg THEN "notify" ELSE "raise"

\* pthread_create, then AttachCurrentThread on the new thread, may fail.
Callback(d) ==
    /\ At(d, "callback")
    /\ \/ /\ pc' = [pc EXCEPT ![d] = "join", ![Cb(d[2])] = "start"]
          /\ UNCHANGED told
       \/ /\ Goto(d, AfterCallback(d))
          /\ told' = told \cup {d}
    /\ UNCHANGED <<cond, monitor, lock, reg, work, env, served, quit>>

\* Faulty: pthread_join is forgotten.
FaultyJoinable(b) == TRUE
Joinable(b) == pc[b] = "leave"

Join(d) ==
    /\ At(d, "join") /\ Joinable(Cb(d[2]))
    /\ pc' = [pc EXCEPT ![d] = AfterCallback(d), ![Cb(d[2])] = "none"]
    /\ UNCHANGED <<cond, monitor, lock, reg, work, env, hist>>

\* doCompleted: without a listener there is nothing to wait for.
CbStart(d) ==
    /\ At(Cb(d[2]), "start")
    /\ IF listener
       THEN Goto(Cb(d[2]), "clear") /\ UNCHANGED told
       ELSE Goto(Cb(d[2]), "leave") /\ told' = told \cup {d}
    /\ UNCHANGED <<cond, monitor, lock, reg, work, env, served, quit>>

\* raise() at the end of HandleSignal.
Raise(k) ==
    /\ At(Crash(k), "raise")
    /\ alive' = FALSE
    /\ UNCHANGED <<cond, monitor, lock, pc, reg, work, hist,
                   listener, javaOn, doomed, calls, toggles>>

---------------------------------------------------------------------------
(* opencore-post and the listener.                                         *)

\* The message holds the path that the callback thread was started with.
DumperOf(b) == IF b = Cb("bg") THEN Bg ELSE Crash(b[2])

PostTake ==
    /\ At(Post, "loop") /\ postQ # <<>>
    /\ path' = DumperOf(Head(postQ)) /\ postQ' = Tail(postQ)
    /\ Goto(Post, "test")
    /\ UNCHANGED <<cond, monitor, lock, reg, workQ, job, env, hist>>

\* onCompleted reads mListener twice: to test it ...
ListenerTest ==
    /\ At(Post, "test")
    /\ IF listener
       THEN Goto(Post, "invoke") /\ UNCHANGED told
       ELSE Goto(Post, "notify") /\ told' = told \cup {path}
    /\ UNCHANGED <<cond, monitor, lock, reg, work, env, served, quit>>

\* ... and to call it; cleared in between, the call is an uncaught exception.
ListenerInvoke ==
    /\ At(Post, "invoke")
    /\ IF listener
       THEN /\ told' = told \cup {path}
            /\ Goto(Post, IF ListenerCalls THEN "enter" ELSE "notify")
            /\ UNCHANGED <<javaOn, doomed, alive>>
       ELSE Uncaught(Post) /\ UNCHANGED told
    /\ UNCHANGED <<cond, monitor, lock, reg, work, listener, calls, toggles,
                   served, quit>>

SetListener ==
    /\ alive /\ toggles < MaxToggles
    /\ listener' = ~listener /\ toggles' = toggles + 1
    /\ UNCHANGED <<cond, monitor, lock, pc, reg, work, javaOn, doomed, calls, alive, hist>>

---------------------------------------------------------------------------
ThreadStep(t) ==
    \/ Enter(t) \/ ClearRead(t) \/ ClearWrite(t) \/ SendEvent(t) \/ WaitCheck(t)
    \/ Leave(t) \/ NotifyRead(t) \/ NotifyWrite(t)
    \/ t = Bg /\ BgTake
    \/ t \in Dumpers /\ (Dump(t) \/ Callback(t) \/ Join(t))
    \/ \E d \in Dumpers : t = Cb(d[2]) /\ CbStart(d)
    \/ \E k \in Crasher : t = Crash(k) /\ Raise(k)
    \/ t = Post /\ (PostTake \/ ListenerTest \/ ListenerInvoke)

Next ==
    \/ \E t \in Thread : ThreadStep(t)
    \/ \E t \in Apps : Call(t) \/ JavaCrash(t) \/ Interrupt(t)
    \/ \E k \in Crasher : NativeCrash(k)
    \/ SetListener

\* Threads are scheduled; calls, crashes, interrupts and setListener are not owed.
Fairness == \A t \in Thread : WF_vars(ThreadStep(t))

Spec == Init /\ [][Next]_vars /\ Fairness

---------------------------------------------------------------------------
Labels == {"idle", "enter", "clear", "cleared", "send", "check", "waiting", "leave",
           "notify", "notified", "loop", "dump", "callback", "join", "raise",
           "none", "start", "test", "invoke"}

\* No call was abandoned, so that no late notification is under way, and no
\* crashing thread's callback writes mCondition back at the same time.
Undisturbed == ~quit /\ \A k \in Crasher : pc[Crash(k)] = "idle"

TypeOK ==
    /\ cond \subseteq {"core", "completed"}
    /\ monitor \in Clients \cup {Nobody} /\ lock \in Thread \cup {Nobody}
    /\ pc \in [Thread -> Labels]
    /\ reg \in [Thread -> SUBSET {"core", "completed"}]
    /\ workQ \in Seq(Clients) /\ postQ \in Seq(Cbs)
    /\ job \in Clients \cup {Nobody} /\ path \in Dumpers \cup {Nobody}
    /\ doomed \subseteq Clients /\ served \subseteq Clients /\ told \subseteq Dumpers
    /\ calls \in 0..MaxCalls /\ toggles \in 0..MaxToggles
    /\ \A b \in {listener, javaOn, alive, quit} : b \in BOOLEAN
    \* one message at a time, for the thread that waits
    /\ Undisturbed => Len(workQ) <= 1 /\ Len(postQ) <= 1

\* A call that is about to return true returns for a core dumped for itself,
\* not for what is left of an earlier request.
TrueMeansDumped ==
    \A t \in Apps : pc[t] = "leave" /\ Undisturbed => t \in served

\* ... and by then the listener has been run with the path, unless it was not
\* set or its thread could not be created.
ListenerFirst ==
    \A t \in Apps : pc[t] = "leave" /\ Undisturbed => Bg \in told

\* A callback thread waits for a completion that has been notified: a caller
\* entering doCoredump meanwhile wrote back the mCondition it had read before.
\* For opencore-bg this takes an abandoned call, whose dump is still going on.
CompletionLost ==
    \E d \in Dumpers :
        /\ d \in told /\ pc[Cb(d[2])] = "waiting"
        /\ "completed" \notin cond /\ postQ = <<>> /\ pc[Post] = "loop"
        /\ d = Bg => quit

\* doCoredump comes back or the process dies, unless an exception in the
\* listener re-enters the service on the thread it is waiting for, or a lost
\* completion keeps a dumper from ending.
EveryCallReturns ==
    \A t \in Apps :
        pc[t] = "enter" ~>
            (pc[t] = "idle" \/ ~alive \/ Post \in doomed \/ CompletionLost)

\* A thread that took a native signal gets through its callback to the raise,
\* with the same exceptions.
CrashDies ==
    \A k \in Crasher :
        pc[Crash(k)] = "dump" ~> (~alive \/ Post \in doomed \/ CompletionLost)

\* The listener may do anything: in particular what every other thread may,
\* call doCoredump, and the call it is told of still returns.
ListenerMayCall ==
    \A t \in Apps : pc[t] = "enter" ~> (pc[t] = "idle" \/ ~alive)

\* Without interrupts and native crashes the service implements DumpRequest; an
\* exception on the listener's thread counts as the end of the process.
Request == INSTANCE DumpRequest WITH
    req <- [c \in Caller |-> IF pc[App(c)] \in {"idle", "enter"} THEN "idle"
                             ELSE IF App(c) \in served THEN "dumped" ELSE "asked"],
    alive <- alive /\ Post \notin doomed

RefinesRequest == Request!Spec
===========================================================================
