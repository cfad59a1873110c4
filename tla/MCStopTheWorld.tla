-------------------------- MODULE MCStopTheWorld --------------------------
(* A process of three threads that may spawn a fourth; `main` is the only  *)
(* thread another signal can reach during the attach.                      *)
EXTENDS StopTheWorld

CONSTANTS main, dumper, worker, late

MCTid       == {main, dumper, worker, late}
MCFirst     == {main, dumper, worker}
MCSignalled == {main}
===========================================================================
