---------------------------- MODULE SignalChain ----------------------------
(***************************************************************************)
(* Opencore among other libraries that handle the same signal.  sigaction  *)
(* keeps one action; whoever installs a handler saves the action it finds  *)
(* and puts that back when it removes its own, so that the handlers form a *)
(* chain that nobody holds as a whole.                                     *)
(*                                                                         *)
(* SignalHandlers has the steps of Enable and Disable and their locks;     *)
(* here each is one step, for one signal.  A library's handler does what   *)
(* Opencore's does: it puts the saved action back and raises the signal.   *)
(***************************************************************************)
EXTENDS Integers, Sequences

CONSTANTS
    Library,        \* other owners of a handler
    Opencore,
    Default,        \* SIG_DFL, and what g_restore_action holds after memset
    MaxCalls        \* bound: installations and removals, all together

\* What the proofs need to know of the constants.
ChainAssumption ==
    /\ Opencore \notin Library /\ Default \notin Library \cup {Opencore}
    /\ MaxCalls \in Nat

Owner == Library \cup {Opencore}

VARIABLES
    action,         \* the disposition of the signal
    saved,          \* g_restore_action, and its like in each library
    installed,      \* handlers_installed, and its like
    crash,          \* what became of the crashing thread
    lifo,           \* history: every removal was that of the last installed
    chain,          \* history: until then, the owners in the order they installed
    calls

vars == <<action, saved, installed, crash, chain, lifo, calls>>

Init ==
    /\ action = Default
    /\ saved = [h \in Owner |-> Default]
    /\ installed = [h \in Owner |-> FALSE]
    /\ crash = "none"
    /\ chain = <<>> /\ lifo = TRUE /\ calls = 0

Top   == IF chain = <<>> THEN Default ELSE chain[Len(chain)]
Below == SubSeq(chain, 1, Len(chain) - 1)

---------------------------------------------------------------------------
\* Faulty: Enable forgets what it found.
FaultyFound(h) == IF h = Opencore THEN Default ELSE action
Found(h) == action

\* Enable, and the like in a library.
Install(h) ==
    /\ ~installed[h]
    /\ saved' = [saved EXCEPT ![h] = Found(h)]
    /\ action' = h
    /\ installed' = [installed EXCEPT ![h] = TRUE]
    /\ chain' = Append(chain, h)
    /\ UNCHANGED lifo

\* Disable, and the like in a library: whatever the action is by now, it
\* becomes the one that was saved.
Restore(h) ==
    /\ installed[h]
    /\ action' = saved[h]
    /\ saved' = [saved EXCEPT ![h] = Default]
    /\ installed' = [installed EXCEPT ![h] = FALSE]
    /\ lifo' = (lifo /\ Top = h)
    /\ chain' = IF Top = h THEN Below ELSE <<>>

Call(h) ==
    /\ crash # "dead" /\ calls < MaxCalls
    /\ Install(h) \/ Restore(h)
    /\ calls' = calls + 1
    /\ UNCHANGED crash

Enable  == Call(Opencore) /\ ~installed[Opencore]
Disable == Call(Opencore) /\ installed[Opencore]
LibraryCall(l) == Call(l)

---------------------------------------------------------------------------
Crash ==
    /\ crash = "none"
    /\ crash' = "raised"
    /\ UNCHANGED <<action, saved, installed, chain, lifo, calls>>

\* The kernel delivers the signal to whatever action there is.
Die ==
    /\ crash = "raised" /\ action = Default
    /\ crash' = "dead"
    /\ UNCHANGED <<action, saved, installed, chain, lifo, calls>>

\* Faulty: the handler leaves itself installed.
FaultyRestoreFirst(h) == UNCHANGED <<action, saved, installed, chain, lifo>>
\* Disable() does nothing when its owner has nothing installed.
RestoreFirst(h) ==
    \/ Restore(h)
    \/ ~installed[h] /\ UNCHANGED <<action, saved, installed, chain, lifo>>

LibraryHandler(l) ==
    /\ crash = "raised" /\ action = l
    /\ RestoreFirst(l)
    /\ UNCHANGED <<crash, calls>>

HandleSignal ==
    /\ crash = "raised" /\ action = Opencore
    /\ RestoreFirst(Opencore)
    /\ crash' = "dump"
    /\ UNCHANGED calls

DumpAndRaise ==
    /\ crash = "dump"
    /\ crash' = "raised"
    /\ UNCHANGED <<action, saved, installed, chain, lifo, calls>>

Handle ==
    \/ Die \/ HandleSignal \/ DumpAndRaise
    \/ \E l \in Library : LibraryHandler(l)

Next == Enable \/ Disable \/ (\E l \in Library : LibraryCall(l)) \/ Crash \/ Handle

\* The crashing thread is scheduled.
Fairness == WF_vars(Handle)

Spec == Init /\ [][Next]_vars /\ Fairness

---------------------------------------------------------------------------
TypeOK ==
    /\ action \in Owner \cup {Default}
    /\ saved \in [Owner -> Owner \cup {Default}]
    /\ installed \in [Owner -> BOOLEAN]
    /\ crash \in {"none", "raised", "dump", "dead"}
    /\ chain \in Seq(Owner) /\ lifo \in BOOLEAN /\ calls \in 0..MaxCalls

\* As long as handlers are removed in the reverse order, each owner has saved
\* the one that was there before it, and a signal goes through all of them,
\* the last installed first, to the default action.
ChainIntact ==
    lifo =>
        /\ action = Top
        /\ \A n \in 1..Len(chain) :
              saved[chain[n]] = IF n = 1 THEN Default ELSE chain[n - 1]
        /\ \A h \in Owner : installed[h] <=> \E n \in 1..Len(chain) : chain[n] = h

\* The signal would go to a handler whose owner has removed it: Disable while a
\* library was installed above, and then that library put Opencore's back.
Stranded == action # Default /\ ~installed[action]

\* A crash ends in death, unless it finds such a handler: HandleSignal then
\* finds nothing to restore, dumps, and raises the signal to itself again.
CrashDies == crash = "raised" ~> crash = "dead" \/ Stranded
===========================================================================
