------------------------ MODULE MCCoredumpService ------------------------
(* Two calling threads and, where a run asks for it, one that crashes.    *)
EXTENDS CoredumpService

CONSTANTS c1, c2, k1

MCCaller  == {c1, c2}
MCCrasher == {k1}
===========================================================================
