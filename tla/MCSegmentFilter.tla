-------------------------- MODULE MCSegmentFilter --------------------------
(* The verdicts, with pages of two bytes and file offsets below eight; or   *)
(* the registers that the minidump's verdicts are made of, on every         *)
(* architecture; or how a filter prints.  A behaviour is of one of them.    *)
EXTENDS Filters

Rel   == [offset |-> 1, memsz |-> 2, write |-> TRUE]     \* pages 0 and 2
High  == [offset |-> 6, memsz |-> 3, write |-> TRUE]     \* page 6, to the end
Text  == [offset |-> 4, memsz |-> 2, write |-> FALSE]
MCLoad == {Rel, High, Text}

Anon(name, perms) ==
    [perms |-> perms, shared |-> FALSE, name |-> name, inode |-> FALSE,
     offset |-> 0, mapped |-> {}, file |-> {}]
Mapping(perms, shared, name, offset, mapped, file) ==
    [perms |-> perms, shared |-> shared, name |-> name, inode |-> TRUE,
     offset |-> offset, mapped |-> mapped, file |-> file]

MCVmas ==
    {Anon("plain", {"r", "w"}), Anon("plain", {}), Anon("special", {"r"}),
     Anon("shadow", {"r", "w"}), Anon("dalvik", {"r", "w"}),
     Mapping({"r", "w"}, TRUE, "special", 0, {}, {}),
     Mapping({"r", "w"}, TRUE, "jit", 0, {}, {}),
     Mapping({"r", "x"}, TRUE, "jit", 0, {}, {}),
     Mapping({"r", "w"}, FALSE, "plain", 2, MCLoad, MCLoad)}
    \cup {Mapping({"r"}, FALSE, "plain", offset, MCLoad, file) :
             offset \in {0, 2, 4, 6}, file \in {MCLoad, {Text}}}
=============================================================================
