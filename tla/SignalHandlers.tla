-------------------------- MODULE SignalHandlers --------------------------
(***************************************************************************)
(* Installing and removing Opencore's handlers (Enable, Disable,           *)
(* IsEnabled) and what they do when a signal comes (HandleSignal).         *)
(*                                                                         *)
(* A thread is two frames: the application's code, and the signal handler  *)
(* that suspends it.  A handler runs with every handled signal masked, so  *)
(* there is at most one per thread, and the signal it raises is delivered  *)
(* when it returns.                                                        *)
(***************************************************************************)
EXTENDS Integers

CONSTANTS
    Thread,
    NumSignals,     \* kNumHandledSignals
    Orig,           \* what the process did about each signal before Enable:
                    \* "fatal" kills it, "recover" is a handler that returns
    Async,          \* signals that may also come from outside, at any moment
    Calls           \* bound: API calls each application thread makes

Sig == 1..NumSignals

ASSUME HandlerAssumption ==
    /\ NumSignals \in Nat \ {0}
    /\ Orig \in [Sig -> {"fatal", "recover"}]
    /\ Async \subseteq Sig
    /\ Calls \in Nat

Frame   == Thread \X {"app", "hdl"}
App(t)  == <<t, "app">>
Hdl(t)  == <<t, "hdl">>
NoFrame == <<>>

VARIABLES
    action,         \* the kernel's disposition of each signal
    restore,        \* g_restore_action, "zero" after memset
    installed,      \* handlers_installed
    switchLock,     \* the frame that holds g_switch_lock
    handleLock,     \* the frame that holds g_handle_lock
    pc,             \* where each frame is
    i,              \* each frame's loop index
    sig,            \* the signal each thread's handler is handling
    alive,
    calls,          \* API calls made so far, per thread
    enables,        \* times an Enable went past the "already installed" test
    seen            \* the value of enables at each handler's Disable

shared == <<action, restore, installed>>
ghost  == <<calls, enables, seen>>
vars   == <<shared, switchLock, handleLock, pc, i, sig, alive, ghost>>

EnableLabels  == {"e_save", "e_install", "e_set", "e_unlock"}
DisableLabels == {"d_restore", "d_set", "d_unlock"}
AppLabels     == {"idle", "e_lock", "d_lock", "q_lock", "q_unlock"}
                     \cup EnableLabels \cup DisableLabels
PastDisable   == {"dump", "raise", "h_unlock", "h_return"}
HdlLabels     == {"none", "h_lock", "d_lock"} \cup DisableLabels \cup PastDisable

Init ==
    /\ action = Orig /\ restore = [s \in Sig |-> "zero"] /\ installed = FALSE
    /\ switchLock = NoFrame /\ handleLock = NoFrame
    /\ pc = [f \in Frame |-> IF f[2] = "app" THEN "idle" ELSE "none"]
    /\ i = [f \in Frame |-> 1]
    /\ sig = [t \in Thread |-> 1]
    /\ alive = TRUE
    /\ calls = [t \in Thread |-> 0] /\ enables = 0
    /\ seen = [t \in Thread |-> 0]

\* A frame runs while the process lives and no handler sits on top of it.
Running(f) == alive /\ (f[2] = "app" => pc[Hdl(f[1])] = "none")

At(f, l) == Running(f) /\ pc[f] = l
Goto(f, l) == pc' = [pc EXCEPT ![f] = l]

---------------------------------------------------------------------------
(* The application.                                                        *)

Call(t) ==
    /\ At(App(t), "idle") /\ calls[t] < Calls
    /\ \E l \in {"e_lock", "d_lock", "q_lock"} : Goto(App(t), l)
    /\ calls' = [calls EXCEPT ![t] = @ + 1]
    /\ UNCHANGED <<shared, switchLock, handleLock, i, sig, alive, enables, seen>>

\* The kernel acts on a signal for a thread whose handler slot is free.
Deliver(t, s) ==
    /\ alive' = (action[s] \in {"opencore", "recover"})
    /\ Goto(Hdl(t), IF action[s] = "opencore" THEN "h_lock" ELSE "none")
    /\ sig' = [sig EXCEPT ![t] = s]

\* The application's own code faults, or anything is hit from outside.
Signal(t, s) ==
    /\ Running(App(t))
    /\ pc[App(t)] = "idle" \/ s \in Async
    /\ Deliver(t, s)
    /\ UNCHANGED <<shared, switchLock, handleLock, i, ghost>>

---------------------------------------------------------------------------
(* Enable.                                                                 *)

\* Faulty: the loops begin one entry before the table.
FaultyLoopStart == 0
LoopStart == 1

\* Faulty: the test is forgotten.
FaultyAlreadyInstalled == FALSE
AlreadyInstalled == installed

EnableEnter(f) ==
    /\ At(f, "e_lock") /\ switchLock = NoFrame
    /\ switchLock' = f
    /\ Goto(f, IF AlreadyInstalled THEN "e_unlock" ELSE "e_save")
    /\ enables' = IF AlreadyInstalled THEN enables ELSE enables + 1
    /\ i' = [i EXCEPT ![f] = LoopStart]
    /\ UNCHANGED <<shared, handleLock, sig, alive, calls, seen>>

More(k) == k <= NumSignals

EnableSave(f) ==
    /\ At(f, "e_save")
    /\ \/ /\ More(i[f])
          /\ restore' = [restore EXCEPT ![i[f]] = action[i[f]]]
          /\ i' = [i EXCEPT ![f] = @ + 1]
          /\ UNCHANGED pc
       \/ /\ More(i[f])            \* sigaction fails: return false
          /\ Goto(f, "e_unlock")
          /\ UNCHANGED <<restore, i>>
       \/ /\ ~More(i[f])
          /\ Goto(f, "e_install")
          /\ i' = [i EXCEPT ![f] = LoopStart]
          /\ UNCHANGED restore
    /\ UNCHANGED <<action, installed, switchLock, handleLock, sig, alive, ghost>>

EnableInstall(f) ==
    /\ At(f, "e_install")
    /\ \/ /\ More(i[f])
          /\ action' = [action EXCEPT ![i[f]] = "opencore"]
          /\ i' = [i EXCEPT ![f] = @ + 1]
          /\ UNCHANGED pc
       \/ /\ ~More(i[f])
          /\ Goto(f, "e_set")
          /\ UNCHANGED <<action, i>>
    /\ UNCHANGED <<restore, installed, switchLock, handleLock, sig, alive, ghost>>

EnableSet(f) ==
    /\ At(f, "e_set")
    /\ installed' = TRUE
    /\ Goto(f, "e_unlock")
    /\ UNCHANGED <<action, restore, switchLock, handleLock, i, sig, alive, ghost>>

EnableUnlock(f) ==
    /\ At(f, "e_unlock")
    /\ switchLock' = NoFrame
    /\ Goto(f, "idle")
    /\ UNCHANGED <<shared, handleLock, i, sig, alive, ghost>>

---------------------------------------------------------------------------
(* Disable, called by the application or by the handler.                   *)

AfterDisable(f) == IF f[2] = "hdl" THEN "dump" ELSE "idle"

\* Faulty: the early return forgets to unlock.
FaultyAlreadyUninstalled(f) == AfterDisable(f)
AlreadyUninstalled(f) == "d_unlock"

DisableEnter(f) ==
    /\ At(f, "d_lock") /\ switchLock = NoFrame
    /\ switchLock' = f
    /\ Goto(f, IF installed THEN "d_restore" ELSE AlreadyUninstalled(f))
    /\ i' = [i EXCEPT ![f] = LoopStart]
    /\ seen' = IF f[2] = "hdl" THEN [seen EXCEPT ![f[1]] = enables] ELSE seen
    /\ UNCHANGED <<shared, handleLock, sig, alive, calls, enables>>

\* Faulty: the first entry is skipped.
FaultyRestored(k) == IF k = 1 THEN action[k] ELSE restore[k]
Restored(k) == restore[k]

DisableRestore(f) ==
    /\ At(f, "d_restore")
    /\ \/ /\ More(i[f])
          /\ action' = [action EXCEPT ![i[f]] = Restored(i[f])]
          /\ i' = [i EXCEPT ![f] = @ + 1]
          /\ UNCHANGED pc
       \/ /\ ~More(i[f])
          /\ Goto(f, "d_set")
          /\ UNCHANGED <<action, i>>
    /\ UNCHANGED <<restore, installed, switchLock, handleLock, sig, alive, ghost>>

DisableSet(f) ==
    /\ At(f, "d_set")
    /\ restore' = [s \in Sig |-> "zero"]
    /\ installed' = FALSE
    /\ Goto(f, "d_unlock")
    /\ UNCHANGED <<action, switchLock, handleLock, i, sig, alive, ghost>>

DisableUnlock(f) ==
    /\ At(f, "d_unlock")
    /\ switchLock' = NoFrame
    /\ Goto(f, AfterDisable(f))
    /\ UNCHANGED <<shared, handleLock, i, sig, alive, ghost>>

---------------------------------------------------------------------------
(* IsEnabled: its answer is a copy, stale as soon as the lock is free.     *)

IsEnabledEnter(f) ==
    /\ At(f, "q_lock") /\ switchLock = NoFrame
    /\ switchLock' = f
    /\ Goto(f, "q_unlock")
    /\ UNCHANGED <<shared, handleLock, i, sig, alive, ghost>>

IsEnabledUnlock(f) ==
    /\ At(f, "q_unlock")
    /\ switchLock' = NoFrame
    /\ Goto(f, "idle")
    /\ UNCHANGED <<shared, handleLock, i, sig, alive, ghost>>

---------------------------------------------------------------------------
(* HandleSignal.                                                           *)

HandleFree == handleLock = NoFrame

HandleEnter(f) ==
    /\ At(f, "h_lock") /\ HandleFree
    /\ handleLock' = f
    /\ Goto(f, "d_lock")
    /\ UNCHANGED <<shared, switchLock, i, sig, alive, ghost>>

\* Dump(siginfo, ucontext), whatever comes of it.
HandleDump(f) ==
    /\ At(f, "dump")
    /\ Goto(f, "raise")
    /\ UNCHANGED <<shared, switchLock, handleLock, i, sig, alive, ghost>>

\* raise(signal): masked for now, so it is left pending.
HandleRaise(f) ==
    /\ At(f, "raise")
    /\ Goto(f, "h_unlock")
    /\ UNCHANGED <<shared, switchLock, handleLock, i, sig, alive, ghost>>

HandleUnlock(f) ==
    /\ At(f, "h_unlock")
    /\ handleLock' = NoFrame
    /\ Goto(f, "h_return")
    /\ UNCHANGED <<shared, switchLock, i, sig, alive, ghost>>

\* The handler returns and the signal it raised is acted upon.
HandleReturn(f) ==
    /\ At(f, "h_return")
    /\ Deliver(f[1], sig[f[1]])
    /\ UNCHANGED <<shared, switchLock, handleLock, i, ghost>>

---------------------------------------------------------------------------
FrameStep(f) ==
    \/ EnableEnter(f) \/ EnableSave(f) \/ EnableInstall(f) \/ EnableSet(f)
    \/ EnableUnlock(f)
    \/ DisableEnter(f) \/ DisableRestore(f) \/ DisableSet(f) \/ DisableUnlock(f)
    \/ IsEnabledEnter(f) \/ IsEnabledUnlock(f)
    \/ HandleEnter(f) \/ HandleDump(f) \/ HandleRaise(f) \/ HandleUnlock(f)
    \/ HandleReturn(f)

Next ==
    \/ \E t \in Thread : Call(t) \/ \E s \in Sig : Signal(t, s)
    \/ \E f \in Frame : FrameStep(f)

\* Every thread is scheduled; nothing makes the application call or crash.
Fairness == \A f \in Frame : WF_vars(FrameStep(f))

Spec == Init /\ [][Next]_vars /\ Fairness

---------------------------------------------------------------------------
TypeOK ==
    /\ action \in [Sig -> {"fatal", "recover", "zero", "opencore"}]
    /\ restore \in [Sig -> {"fatal", "recover", "zero", "opencore"}]
    /\ installed \in BOOLEAN /\ alive \in BOOLEAN
    /\ switchLock \in Frame \cup {NoFrame}
    /\ handleLock \in Frame \cup {NoFrame}
    /\ pc \in [Frame -> AppLabels \cup HdlLabels]
    /\ i \in [Frame -> 1..(NumSignals + 1)]
    /\ sig \in [Thread -> Sig]
    /\ calls \in [Thread -> Nat] /\ enables \in Nat /\ seen \in [Thread -> Nat]

\* Whenever nobody is switching, either every handled signal is Opencore's and
\* g_restore_action holds exactly what was there before, or every signal is
\* back to what it was: no interleaving of Enable, Disable, failed saves and
\* handlers loses an original action or takes Opencore's own for it.
RestoreFaithful ==
    switchLock = NoFrame =>
        IF installed
        THEN action = [s \in Sig |-> "opencore"] /\ restore = Orig
        ELSE action = Orig

\* HandleSignal's Disable, dump and raise belong to one thread at a time.
OneHandler ==
    \A t, u \in Thread :
        /\ pc[Hdl(t)] \in {"d_lock", "dump", "raise"} \cup DisableLabels
        /\ pc[Hdl(u)] \in {"d_lock", "dump", "raise"} \cup DisableLabels
        => t = u

\* The signal raised at the end of a handler meets the original action, so that
\* the crash is dumped once and then dies as it would have without Opencore,
\* unless somebody called Enable again after the handler's Disable.
ReachesOriginal ==
    \A t \in Thread :
        pc[Hdl(t)] \in PastDisable /\ enables = seen[t] => action = Orig

\* One crash is dumped at a time, and once.
CrashDumpedOnce == OneHandler /\ ReachesOriginal

\* The one way to hang: a signal from outside hits a thread inside Enable,
\* Disable or IsEnabled; g_switch_lock stays with the suspended frame, and the
\* handler on top of it, or the one that has g_handle_lock before it, needs it.
LockInterrupted ==
    \E t \in Thread : switchLock = App(t) /\ pc[Hdl(t)] \in {"h_lock", "d_lock"}

\* A crashed thread does not stay in its handler for ever: it leaves it or the
\* process dies, save for the interrupted lock.
CrashEnds ==
    \A t \in Thread :
        pc[Hdl(t)] # "none" ~> (~alive \/ pc[Hdl(t)] = "none" \/ LockInterrupted)
===========================================================================
