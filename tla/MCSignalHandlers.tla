------------------------- MODULE MCSignalHandlers -------------------------
(* Two threads, one signal that kills and one the application handles      *)
(* itself, of which only the first may come from outside; two libraries    *)
(* that handle one signal; a library that handles uncaught exceptions.     *)
EXTENDS CrashHandlers

CONSTANTS t1, t2, l1, l2

MCThread    == {t1, t2}
MCOrig      == [s \in {1, 2} |-> IF s = 1 THEN "fatal" ELSE "recover"]
MCAsync     == {1}
MCLibraries == {l1, l2}
===========================================================================
