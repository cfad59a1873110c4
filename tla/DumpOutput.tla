----------------------------- MODULE DumpOutput -----------------------------
(***************************************************************************)
(* The files of the dumps: how Dump(option) makes up a name from options   *)
(* that SetDir and SetFlag may be changing, what the children write under  *)
(* it, and what is there when the callback gets the path.                  *)
(*                                                                         *)
(* DumpSession has the steps of a dump one by one; here those that the     *)
(* file does not depend on are left out.  Each variable of the object is   *)
(* read once while a name is made, so making it is one step.  A path is a  *)
(* directory and the parts of a name, by flag; separators and digits are   *)
(* left out.  A core is a sequence of pages, each known by the child that  *)
(* has written it.                                                         *)
(***************************************************************************)
EXTENDS Integers, Sequences

CONSTANTS
    Crasher,        \* threads that dump from HandleSignal, under g_handle_lock
    Direct,         \* threads that dump without a lock
    None,
    Asked,          \* file names an application may ask for, and None
    Flags,          \* values SetFlag is called with, as sets of bits
    Dirs,           \* values SetDir is called with
    Writable,       \* the directories among them that exist, one of them at first
    Comm,           \* the name of each thread
    Slashed,        \* those of these names that contain a '/'
    CorePages,          \* bound: the dumps, and how many pages each has to write
    MaxSeconds,     \* bound: the clock
    MaxSets         \* bound: calls of SetDir and SetFlag

\* What the proofs need to know of the constants.
OutputAssumption ==
    /\ None \notin Crasher \cup Direct
    /\ CorePages \in Seq(Nat)

Dumper == Crasher \cup Direct
Kid    == 1..Len(CorePages)

VARIABLES
    tid, dir, flag, \* of the Opencore object
    busy,           \* SetDir is at work on the string
    lock,           \* g_handle_lock
    second,         \* gettimeofday
    pc,
    path,           \* output of each dumper, and what it was made from
    mine,           \* the child each dumper forked last, 0 for none
    started, forks,
    out,            \* the path each child has got
    kid,            \* state of each child process
    stage,          \* how far each child is in DoCoredump
    at,             \* how many of its pages are written
    before,         \* children that were done when it opened its file
    file,           \* the file system
    sets

options == <<dir, flag, busy, second, sets>>
locals  == <<path, mine>>
dumper  == <<tid, lock, pc, locals, started, forks, out, kid>>
child   == <<stage, at, before, file>>
vars    == <<options, dumper, child>>

Torn  == "torn"     \* a string read while it is assigned to
Blind == [dir |-> Torn, name |-> [f \in {} |-> None],
          flag |-> {}, second |-> 0, tid |-> None, by |-> None]

Init ==
    /\ tid = None /\ dir \in Writable /\ flag \in Flags /\ busy = FALSE
    /\ lock = None /\ second = 0
    /\ pc = [d \in Dumper |-> "idle"]
    /\ path = [d \in Dumper |-> Blind] /\ mine = [d \in Dumper |-> 0]
    /\ started = 0 /\ forks = 0
    /\ out = [k \in Kid |-> Blind] /\ kid = [k \in Kid |-> "none"]
    /\ stage = [k \in Kid |-> "fopen"]
    /\ at = [k \in Kid |-> 0] /\ before = [k \in Kid |-> {}]
    /\ file = [p \in {} |-> <<>>]
    /\ sets = 0

Goto(d, l) == pc' = [pc EXCEPT ![d] = l]

---------------------------------------------------------------------------
(* The dumping thread. *)

\* g_handle_lock for a crash, then setTid(gettid()).
Start(d) ==
    /\ pc[d] = "idle" /\ started < Len(CorePages)
    /\ d \in Crasher => lock = None
    /\ lock' = IF d \in Crasher THEN d ELSE lock
    /\ tid' = d /\ started' = started + 1
    /\ Goto(d, "name")
    /\ UNCHANGED <<options, locals, forks, out, kid, child>>

NameFlags == {"CORE", "PROCESS_COMM", "PID", "THREAD_COMM", "TID", "TIMESTAMP"}
Effective(f) == IF f \cap NameFlags = {} THEN f \cup {"CORE", "TID"} ELSE f

\* Faulty: the time is left out.
FaultyPart(f) ==
    CASE f = "THREAD_COMM" -> Comm[tid] [] f = "TID" -> tid [] OTHER -> f
\* The process' own name and pid are the same in all its dumps.
Part(f) ==
    CASE f = "THREAD_COMM" -> Comm[tid] [] f = "TID" -> tid
      [] f = "TIMESTAMP" -> second [] OTHER -> f

Name(asked) ==
    IF asked # None THEN [f \in {"filename"} |-> asked]
    ELSE [f \in Effective(flag) \cap NameFlags |-> Part(f)]

\* A string that is being assigned to may read as anything.
DirsRead == IF busy THEN Dirs \cup {Torn} ELSE {dir}

MakePath(d) ==
    /\ pc[d] = "name"
    /\ \E asked \in IF d \in Crasher THEN {None} ELSE Asked, x \in DirsRead :
          path' = [path EXCEPT ![d] =
              [dir |-> x, name |-> Name(asked), tid |-> tid, by |-> d,
               second |-> second, flag |-> IF asked # None THEN {} ELSE Effective(flag)]]
    /\ Goto(d, "fork")
    /\ UNCHANGED <<options, tid, lock, mine, started, forks, out, kid, child>>

\* The child has the string of the thread that forked it.
Fork(d) ==
    /\ pc[d] = "fork"
    /\ \/ /\ forks' = forks + 1
          /\ mine' = [mine EXCEPT ![d] = forks + 1]
          /\ out' = [out EXCEPT ![forks + 1] = path[d]]
          /\ kid' = [kid EXCEPT ![forks + 1] = "running"]
       \/ /\ mine' = [mine EXCEPT ![d] = 0]
          /\ UNCHANGED <<forks, out, kid>>
    /\ Goto(d, "wait")
    /\ UNCHANGED <<options, tid, lock, path, started, child>>

\* wait() takes the exit of any child, which need not be the own one.
Wait(d) ==
    /\ pc[d] = "wait"
    /\ \/ \E k \in Kid : kid[k] = "zombie" /\ kid' = [kid EXCEPT ![k] = "reaped"]
       \/ (\A k \in Kid : kid[k] \notin {"running", "zombie"}) /\ UNCHANGED kid
    /\ Goto(d, "callback")
    /\ UNCHANGED <<options, tid, lock, locals, started, forks, out, child>>

\* The callback gets the path, whatever became of the dump.
Callback(d) ==
    /\ pc[d] = "callback"
    /\ lock' = IF d \in Crasher THEN None ELSE lock
    /\ Goto(d, "idle")
    /\ UNCHANGED <<options, tid, locals, started, forks, out, kid, child>>

---------------------------------------------------------------------------
(* The child. *)

Where(o)  == <<o.dir, o.name>>
Opens(o)  == /\ o.dir \in Writable
             /\ "THREAD_COMM" \in DOMAIN o.name => o.name["THREAD_COMM"] \notin Slashed
Running(k) == kid[k] = "running"

Emptied(p) == <<>>

\* fopen(filename, "wb")
Open(k) ==
    /\ Running(k) /\ stage[k] = "fopen"
    /\ LET p == Where(out[k]) IN
       IF Opens(out[k])
       THEN /\ file' = [q \in DOMAIN file \cup {p} |-> IF q = p THEN Emptied(p) ELSE file[q]]
            /\ stage' = [stage EXCEPT ![k] = "write"]
       ELSE stage' = [stage EXCEPT ![k] = "failed"] /\ UNCHANGED file
    /\ before' = [before EXCEPT ![k] =
                     {l \in Kid : stage[l] # "fopen" /\ ~(stage[l] = "write" /\ Running(l))}]
    /\ UNCHANGED <<options, dumper, at>>

\* A write at the position of this writer; past the end it leaves a hole.
Written(s, i, k) ==
    [j \in 1..(IF i > Len(s) THEN i ELSE Len(s)) |->
        IF j = i THEN k ELSE IF j <= Len(s) THEN s[j] ELSE 0]

More(k) == at[k] < CorePages[k]

Write(k) ==
    /\ Running(k) /\ stage[k] = "write" /\ More(k)
    /\ at' = [at EXCEPT ![k] = @ + 1]
    /\ file' = [file EXCEPT ![Where(out[k])] = Written(@, at[k] + 1, k)]
    /\ UNCHANGED <<options, dumper, stage, before>>

Close(k) ==
    /\ Running(k) /\ stage[k] = "write" /\ ~More(k)
    /\ stage' = [stage EXCEPT ![k] = "closed"]
    /\ UNCHANGED <<options, dumper, at, before, file>>

\* At the end of DoCoredump, or by the alarm at any time before it.
Exit(k) ==
    /\ Running(k)
    /\ kid' = [kid EXCEPT ![k] = "zombie"]
    /\ UNCHANGED <<options, tid, lock, pc, locals, started, forks, out, child>>

---------------------------------------------------------------------------
(* The application and the clock. *)

SetDirBegin ==
    /\ sets < MaxSets /\ ~busy
    /\ busy' = TRUE /\ sets' = sets + 1
    /\ UNCHANGED <<dir, flag, second, dumper, child>>

SetDirEnd ==
    /\ busy
    /\ busy' = FALSE /\ dir' \in Dirs
    /\ UNCHANGED <<flag, second, sets, dumper, child>>

SetFlag ==
    /\ sets < MaxSets
    /\ flag' \in Flags /\ sets' = sets + 1
    /\ UNCHANGED <<dir, busy, second, dumper, child>>

Tick ==
    /\ second < MaxSeconds
    /\ second' = second + 1
    /\ UNCHANGED <<dir, flag, busy, sets, dumper, child>>

Next ==
    \/ \E d \in Dumper : Start(d) \/ MakePath(d) \/ Fork(d) \/ Wait(d) \/ Callback(d)
    \/ \E k \in Kid : Open(k) \/ Write(k) \/ Close(k) \/ Exit(k)
    \/ SetDirBegin \/ SetDirEnd \/ SetFlag \/ Tick

Spec == Init /\ [][Next]_vars

---------------------------------------------------------------------------
\* Children that have got a path of the application's making.
Named == {k \in Kid : out[k].by # None}

\* Dumps that go to different files: of different seconds, if FLAG_TIMESTAMP is
\* set, or of different threads, if FLAG_TID is set.  The tid is read back from
\* the object, where a dump without g_handle_lock may have put its own in between.
ToldApart(a, b) ==
    \/ "TIMESTAMP" \in a.flag \cap b.flag /\ a.second # b.second
    \/ "TID" \in a.flag \cap b.flag /\ a.by # b.by /\ a.tid = a.by /\ b.tid = b.by

\* What can keep the file from being written to its end: no fork, no such
\* directory (one read in the middle of SetDir, and a thread's name with a
\* slash in it, among them), the alarm, or that wait() took another child's
\* exit and this one is still at it.
Unwritten(d) ==
    \/ mine[d] = 0 \/ ~Opens(path[d])
    \/ kid[mine[d]] = "running"
    \/ stage[mine[d]] # "closed"

\* Another dump, which nothing tells apart from this one, has the same file and
\* opened it since, or had not closed it yet.
Shared(d) ==
    \E k \in Named \ (before[mine[d]] \cup {mine[d]}) :
        /\ stage[k] \in {"write", "closed"} /\ Where(out[k]) = Where(path[d])
        /\ ~ToldApart(out[k], path[d])

\* The callback is called with the path of a file that is this dump's core from
\* its first page to its last and nothing else, but for the cases just named.
PathHoldsCore ==
    \A d \in Dumper :
        pc[d] = "callback" =>
            \/ Unwritten(d) \/ Shared(d)
            \/ file[Where(path[d])] = [i \in 1..CorePages[mine[d]] |-> mine[d]]
=============================================================================
