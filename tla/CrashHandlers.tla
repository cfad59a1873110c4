--------------------------- MODULE CrashHandlers ---------------------------
(***************************************************************************)
(* Who handles a crash: Opencore's signal handlers step by step, Opencore  *)
(* among other libraries that handle the same signal, and JavaCrashHandler *)
(* among other owners of the default uncaught exception handler.           *)
(*                                                                         *)
(* The code keeps the three apart, and so does this module: they share no  *)
(* state, and a behaviour is of one of them, `part`.                       *)
(***************************************************************************)
EXTENDS SignalHandlers

CONSTANTS
    Libraries,      \* other owners of a signal handler
    Other,          \* another owner of the exception handler
    Opencore, Default, None,
    MaxEvents       \* bound: calls, installations, removals and exceptions

VARIABLES
    part,
    \* of SignalChain
    current, saved, owned, crash, lifo, chain, chainCalls,
    \* of ServiceSetup
    ready, natives, work, loopers, monitor, handler, default, previous, javaPc,
    javaAlive, javaCalls, off, bare, putBack

Chain == INSTANCE SignalChain WITH
    Library <- Libraries, MaxCalls <- MaxEvents,
    action <- current, installed <- owned, calls <- chainCalls

Java == INSTANCE ServiceSetup WITH
    Library <- Other, System <- Default, MaxCalls <- MaxEvents,
    pc <- javaPc, alive <- javaAlive, calls <- javaCalls

ASSUME OwnersAssumption == Chain!ChainAssumption /\ Java!SetupAssumption

owners == <<current, saved, owned, crash, lifo, chain, chainCalls>>
java   == <<ready, natives, work, loopers, monitor, handler, default, previous, javaPc,
            javaAlive, javaCalls, off, bare, putBack>>
all    == <<part, vars, owners, java>>

PartInit ==
    /\ part \in {"handlers", "chain", "java"}
    /\ Init /\ Chain!Init /\ Java!Init
    /\ part # "java" => handler = Default

PartNext ==
    \/ part = "handlers" /\ Next /\ UNCHANGED <<part, owners, java>>
    \/ part = "chain" /\ Chain!Next /\ UNCHANGED <<part, vars, java>>
    \/ part = "java" /\ Java!Next /\ UNCHANGED <<part, vars, owners>>

PartSpec == PartInit /\ [][PartNext]_all /\ Fairness /\ Chain!Fairness

\* Handlers removed in the reverse order leave the chain of saved actions intact.
ChainIntact == Chain!ChainIntact
\* A crash goes through the handlers and ends in death, but for stranded ones.
CrashDies == Chain!CrashDies
\* An exception that comes to JavaCrashHandler finds a complete service.
CrashFindsService == Java!CrashFindsService
\* After disable no exception comes to Opencore, but in the three cases named.
StaysDisabled == Java!StaysDisabled
============================================================================
