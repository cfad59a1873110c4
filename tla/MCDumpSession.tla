-------------------------- MODULE MCDumpSession --------------------------
(* Two crashing threads taking turns, or one of them and opencore-bg.     *)
EXTENDS DumpSession

CONSTANTS k1, k2, bg

MCCrashers == {k1, k2}
MCCrasher  == {k1}
MCDirect   == {bg}
===========================================================================
