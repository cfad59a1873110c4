---------------------------- MODULE ServiceSetup ----------------------------
(***************************************************************************)
(* The Coredump instance before and around its dumps: init(), which may    *)
(* fail half way and be called again, enable and disable of JAVA crashes,  *)
(* and JavaCrashHandler among other owners of the default uncaught         *)
(* exception handler.  CoredumpService goes on where this ends, and        *)
(* SignalHandlers has enable and disable of NATIVE ones.                   *)
(***************************************************************************)
EXTENDS Integers

CONSTANTS
    Thread,
    Library,        \* another owner of an uncaught exception handler
    Opencore,       \* the JavaCrashHandler
    System,         \* the handler the runtime has set for an application
    None,
    MaxCalls        \* bound: calls and exceptions, all together

\* What the proofs need to know of the constants.
SetupAssumption == Opencore \notin {Library, System, None}

Worker == {"opencore-bg", "opencore-post"}

VARIABLES
    ready,          \* sReady
    natives,        \* registered, and the callback set
    work,           \* the workers mCoredumpWork and mCoredumpPostWork are for
    loopers,        \* how many threads of each name were started
    monitor,        \* who is in a synchronized method
    handler,        \* Thread.getDefaultUncaughtExceptionHandler()
    default,        \* JavaCrashHandler.defaultHandler
    previous,       \* what the library has found when it set its own
    pc, alive, calls,
    off,            \* history: a disable is done and no enable since
    bare,           \* history: the first enable found no handler
    putBack         \* history: the library has put Opencore's handler back
                    \* since the last disable

setup == <<ready, natives, work, loopers>>
java  == <<handler, default, off, bare, putBack>>
vars  == <<setup, monitor, java, previous, pc, alive, calls>>

Init ==
    /\ ready = FALSE /\ natives = FALSE
    /\ work = {} /\ loopers = [w \in Worker |-> 0]
    /\ monitor = None
    /\ handler \in {System, None} /\ default = None /\ previous = None
    /\ pc = [t \in Thread |-> "idle"] /\ alive = TRUE /\ calls = 0
    /\ off = TRUE /\ bare = FALSE /\ putBack = FALSE

At(t, l) == alive /\ pc[t] = l
Goto(t, l) == pc' = [pc EXCEPT ![t] = l]

Begin(t) == At(t, "idle") /\ calls < MaxCalls /\ calls' = calls + 1
Enter(t) == Begin(t) /\ monitor = None
Leave(t) == monitor' = None /\ Goto(t, "idle")

---------------------------------------------------------------------------
InitEnter(t) ==
    /\ Enter(t) /\ work # Worker
    /\ monitor' = t /\ Goto(t, "nativeInit")
    /\ UNCHANGED <<setup, java, previous, alive>>

\* RegisterNatives fails, or there is no library: UnsatisfiedLinkError.
NativeInit(t) ==
    /\ At(t, "nativeInit")
    /\ \/ natives' = TRUE /\ Goto(t, "opencore-bg") /\ UNCHANGED monitor
       \/ Leave(t) /\ UNCHANGED natives
    /\ UNCHANGED <<ready, work, loopers, java, previous, alive, calls>>

After(w) == IF w = "opencore-bg" THEN "opencore-post" ELSE "ready"

\* Faulty: the thread is started without looking for its handler.
FaultyMissing(w) == TRUE
Missing(w) == w \notin work

\* A thread that cannot be started throws out of init().  Once it is started,
\* its handler is made without fail: running out of memory there would leave a
\* thread behind no handler.
MakeWorker(t, w) ==
    /\ At(t, w)
    /\ \/ /\ Missing(w)
          /\ loopers' = [loopers EXCEPT ![w] = @ + 1] /\ work' = work \cup {w}
          /\ Goto(t, After(w)) /\ UNCHANGED monitor
       \/ Missing(w) /\ Leave(t) /\ UNCHANGED <<loopers, work>>
       \/ ~Missing(w) /\ Goto(t, After(w)) /\ UNCHANGED <<loopers, work, monitor>>
    /\ UNCHANGED <<ready, natives, java, previous, alive, calls>>

SetReady(t) ==
    /\ At(t, "ready")
    /\ ready' = TRUE /\ Leave(t)
    /\ UNCHANGED <<natives, work, loopers, java, previous, alive, calls>>

---------------------------------------------------------------------------
IsReady == ready

Enable(t) ==
    /\ Enter(t) /\ IsReady
    /\ monitor' = t /\ Goto(t, "save")
    /\ UNCHANGED <<setup, java, previous, alive>>

\* Faulty: the handler found last is kept, be it this one.
FaultyKept == None
\* defaultHandler, once set, is kept.
Kept == default

EnableSave(t) ==
    /\ At(t, "save")
    /\ default' = IF Kept = None THEN handler ELSE Kept
    /\ bare' = (bare \/ default' = None)
    /\ Goto(t, "set")
    /\ UNCHANGED <<setup, monitor, handler, off, putBack, previous, alive, calls>>

EnableSet(t) ==
    /\ At(t, "set")
    /\ handler' = Opencore /\ off' = FALSE
    /\ Leave(t)
    /\ UNCHANGED <<setup, default, bare, putBack, previous, alive, calls>>

\* JavaCrashHandler.disable()
SetDefault ==
    /\ handler' = IF default # None THEN default ELSE handler
    /\ off' = TRUE /\ putBack' = FALSE
    /\ UNCHANGED <<default, bare>>

Disable(t) ==
    /\ Enter(t) /\ IsReady
    /\ SetDefault
    /\ UNCHANGED <<setup, monitor, previous, pc, alive>>

---------------------------------------------------------------------------
\* An exception that nobody catches; without a handler only the thread ends.
Uncaught(t) ==
    /\ Begin(t) /\ handler # None
    /\ \/ handler = System /\ alive' = FALSE /\ UNCHANGED pc
       \/ handler = Library /\ previous # Opencore /\ alive' = FALSE /\ UNCHANGED pc
       \/ handler = Opencore /\ Goto(t, "uncaught") /\ UNCHANGED alive
       \/ handler = Library /\ previous = Opencore /\ Goto(t, "uncaught") /\ UNCHANGED alive
    /\ UNCHANGED <<setup, monitor, java, previous>>

\* Not synchronized.
UncaughtDisable(t) ==
    /\ At(t, "uncaught")
    /\ SetDefault
    /\ Goto(t, "doCoredump")
    /\ UNCHANGED <<setup, monitor, previous, alive, calls>>

\* The dump itself, which CoredumpService details, is one step.
UncaughtDump(t) ==
    /\ At(t, "doCoredump") /\ monitor = None
    /\ Goto(t, "killProcess")
    /\ UNCHANGED <<setup, monitor, java, previous, alive, calls>>

KillProcess(t) ==
    /\ At(t, "killProcess")
    /\ alive' = FALSE
    /\ UNCHANGED <<setup, monitor, java, previous, pc, calls>>

LibrarySet(t) ==
    /\ Begin(t) /\ handler # Library
    /\ previous' = handler /\ handler' = Library
    /\ UNCHANGED <<setup, monitor, default, off, bare, putBack, pc, alive>>

LibraryReset(t) ==
    /\ Begin(t) /\ handler = Library
    /\ handler' = previous /\ previous' = None
    /\ putBack' = (putBack \/ previous = Opencore)
    /\ UNCHANGED <<setup, monitor, default, off, bare, pc, alive>>

Next ==
    \E t \in Thread :
        \/ InitEnter(t) \/ NativeInit(t) \/ (\E w \in Worker : MakeWorker(t, w))
        \/ SetReady(t)
        \/ Enable(t) \/ EnableSave(t) \/ EnableSet(t) \/ Disable(t)
        \/ Uncaught(t) \/ UncaughtDisable(t) \/ UncaughtDump(t) \/ KillProcess(t)
        \/ LibrarySet(t) \/ LibraryReset(t)

Spec == Init /\ [][Next]_vars

---------------------------------------------------------------------------
Complete == natives /\ work = Worker /\ \A w \in Worker : loopers[w] = 1

\* However often init() has failed, at whatever step, and been called again, and
\* by whichever thread: an exception that comes to JavaCrashHandler finds a
\* service with its natives registered and one thread behind each handler, so
\* that it is dumped before the process is killed.
CrashFindsService ==
    \A t \in Thread : pc[t] \in {"uncaught", "doCoredump"} => ready /\ Complete

\* Whom an uncaught exception comes to, at once or by way of the library.
Reaches == handler = Opencore \/ (handler = Library /\ previous = Opencore)

\* The library's handler is the one Opencore has found, and the library has set
\* it once more above Opencore's: each has the other to go on to.
Around == default = Library /\ previous = Opencore

\* After a disable, that of the application or the handler's own, and until the
\* next enable, no exception comes to Opencore, neither at once nor through a
\* library that was set above it.  It does in three cases: the first enable
\* found no handler, so that disable changes nothing, and a second enable makes
\* the handler its own default; the library has put Opencore's handler back
\* since; or what disable restores is the library's handler, which the library
\* had set a second time above Opencore's and which goes on to that.
StaysDisabled ==
    off /\ Reaches => bare \/ putBack \/ Around
=============================================================================
