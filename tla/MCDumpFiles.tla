---------------------------- MODULE MCDumpFiles ----------------------------
(* Crashes that take turns, step by step; the files of a crash and of a    *)
(* dump asked for at the same time, of which the second to be forked has   *)
(* the shorter core.                                                       *)
EXTENDS DumpFiles

CONSTANTS k1, k2, bg

MCCrashers  == {k1, k2}
MCCrasher   == {k1}
MCDirect    == {bg}
MCAsked     == {None, "mine"}
MCFlags     == {{}, {"THREAD_COMM", "TIMESTAMP"}}
MCDirs      == {"", "files"}
MCWritable  == {"files"}
MCComm      == [d \in {k1, bg} |-> IF d = k1 THEN "pool/1" ELSE "opencore-bg"]
MCSlashed   == {"pool/1"}
MCCorePages == <<2, 1>>
============================================================================
