# OpenCoreSDK in TLA+

OpenCoreSDK writes an ELF core file of a running or crashing Android process
from inside that process. This directory models how it does so, checks the
models with TLC on small instances, and proves the main safety properties with
TLAPS for any instance. `C` below is
`src/opencore/src/main/cpp/opencore/opencore.cpp`, `L` is `lp64/opencore.cpp`
beside it, `A` is `arm64/opencore.cpp`, `JNI` is `opencore_jni.cpp`, and `J` is
`Coredump.java`.

## The system

| part | state | operations | talks to |
|---|---|---|---|
| Java service (`J`) | `mCondition` bits, `mLock`, the instance's monitor, `mListener`, two handler threads and their queues, `sReady`, the saved default exception handler | `init`, `enable`, `disable`, `doCoredump`, `doCompleted`, the two `handleMessage`s, `setListener`, `uncaughtException` | native dump through JNI; listener; other owners of the default handler |
| JNI bridge and callback thread (`JNI`, `eajni/`) | class and method ids; the joinable `opencore-cb` thread | `nativeInit`, `nativeCoredump`, callback | service, dump session |
| Signal handlers (`C` 55-129) | kernel actions, `g_restore_action`, `handlers_installed`, `g_switch_lock`, `g_handle_lock` | `Enable`, `Disable`, `IsEnabled`, `HandleSignal` | dump session; `raise` to the original action; handlers of other libraries |
| Dump session (`C` 239-388) | the one `Opencore` object, dumpable and ptracer of the process, the forked children | `Dump(option)`, `Coredump` in the parent | forks the dumping child and waits |
| Dumping child (`C` 373-395, 443-504) | `threads`, the alarm | `StopTheWorld`, `StopTheThread`, `Continue`, `Finish`, `TimeoutHandle` | ptrace on every thread of its parent |
| Core writer (`L`, and `lp32/` for 32 bits) | headers, note sizes, the file position | `DoCoredump` and everything it calls | `/proc/<pid>/maps`, `mem`, `auxv`; the file |
| Register notes (`A` and four more) | `prstatus` | `CreateCorePrStatus`, `WriteCorePrStatus`, `Finish` | writer |
| Segment filter (`C` 397-441, `L` 323-361, `A` 118-164) | filter bits | verdict per VMA | writer |
| File name (`C` 262-352) | directory, flag bits | `Dump`'s naming, `SetDir`, `SetFlag` | session, the child that opens it |
| Options to strings (`J` 385-494) | - | `coreFlagToString`, `coreFilterToString` | user |

A Java request goes caller -> `opencore-bg` -> `Dump` -> fork -> child; the
parent's `wait` ends, the native callback creates `opencore-cb`, which sends the
path to `opencore-post` and waits while the listener runs; then `opencore-bg`
notifies the caller. A native crash enters at `HandleSignal` on the crashing
thread and goes through the same `Dump` and callback, then raises its signal
again with the original action in place. A Java crash is a request made by the
default exception handler, which kills the process after it.

What is hard here:

- **Concurrency.** The dumped process goes on spawning and losing threads while
  the child walks its task directory; signals arrive inside `Enable` and
  `Disable`; `mCondition` is cleared outside the lock it is set under; requested
  dumps and crashes share one object without a lock.
- **Kernel semantics.** ATTACH only sends a SIGSTOP; what becomes of it decides
  whether the process is left frozen. `wait` takes any child.
- **Timeouts.** SIGALRM runs `Finish` wherever the child is, on top of it.
- **Partial failure.** fork, ATTACH, opendir, fopen, sigaction, thread creation
  and every write can fail, and the code mostly goes on.
- **Arithmetic.** Header offsets are announced before any data is written.

What makes each part correct: the service answers each request once, for its own
dump, and always; the handlers never lose an original action, and a crash always
gets to die; a session's child works on its own crash's data and is waited for;
the child stops what can be stopped and leaves nothing stopped; the file has
every page where its headers say.

PROJECT.json lists every hazard found while reading, with its line and the
properties aimed at it.

## The modules

Four modules compose others about one subject: CrashHandlers has SignalHandlers,
SignalChain and ServiceSetup; DumpFiles has DumpSession and DumpOutput;
CoreFiles has CoreFile and CoreFile32; Filters has SegmentFilter,
ThreadRegisters and OptionStrings. Each EXTENDS the first and instantiates the
rest. What is composed shares no state in the code either, so a variable `part`
says which of them a behaviour is of; one MC module, one run and one proof module
then serve all of them.

### StopTheWorld, StopTheWorldProofs

The dumping child against the threads of its parent. Kernel actions (`Spawn`,
`Exit`, `StopReport`, `OtherStop`, `FreezeGroup`, `GetDents`, `EndOfDir`) are
external, modelled from how the code uses them: ATTACH sends a SIGSTOP
(`sigstop`) that the tracee dequeues some time later, or after another signal
(`held`); DETACH with signal 0 discards only the signal whose stop was reported;
a SIGSTOP pending on an untraced thread stops the whole group (`frozen`). The
task directory ends when the reading position, a count, reaches the number of
live threads. Each child action is one call of the code (`OpenFile`, `OpenDir`,
`ReadDir`, `Attach`, `RecordThread`, `WaitPid`, `ContinueOne`, ...);
`TimeoutHandle` is enabled at all of them and restarts `Finish`. When it
interrupted code that uses the heap, freeing in the handler may block for ever
(`HeapInterrupted`, label `stuck`). `WriteCore` is one step, since what is
stopped does not change during it; CoreFile is that step in detail. `Slot` is
the assignment of `prstatus` slots.

- `WorldStopped`: at the time of writing every attached live thread is in a
  ptrace stop; a live thread has no record only if an attach was refused or a
  listed thread has exited.
- `FreezeWindow`: the process is left frozen only after an alarm between ATTACH
  and the end of its waitpid, or another signal at an attach stop. Both happen:
  the property names the two windows.
- `PrStatusBijective`: the slots are a permutation, top thread first.
- `DumpBounded`: the parent's wait ends, with the exceptions named: it is frozen,
  or an alarm on top of the heap has left the child in its handler.

### SignalHandlers (in CrashHandlers; CrashHandlersProofs)

Each thread is an application frame and a handler frame on top of it; a frame
runs when nothing sits on it. The loops over the six signals go one `sigaction`
at a time, so that signals fall between them. `Orig` says what each signal did
before: kill, or a handler that recovers. `enables` and `seen` are history, for
the statement of `ReachesOriginal`.

- `RestoreFaithful`: whenever nobody switches, either all actions are Opencore's
  and `g_restore_action` is exactly the original table, or all are original.
- `CrashDumpedOnce`: one crash is dumped at a time (`OneHandler`), and its raised
  signal meets the original action unless somebody re-enabled meanwhile
  (`ReachesOriginal`).
- `CrashEnds`: a crashed thread leaves its handler or the process dies, save
  when a signal interrupts a holder of `g_switch_lock` (`LockInterrupted`).

### SignalChain (in CrashHandlers; CrashHandlersProofs)

The same handlers seen from outside: any number of other libraries save the
action they find and put it back when they are done, as Opencore does, in any
order. Enable and Disable are one step here. `chain` and `lifo` are history: the
owners in the order they installed, as long as every removal was of the last.

- `ChainIntact`: with removals in the reverse order each owner holds the action
  of the one below it, and the signal goes to the last.
- `CrashDies`: a crash goes from handler to handler until the process dies,
  unless it meets `Stranded`, a handler whose owner has removed it. That takes a
  Disable below another library, which puts Opencore's handler back afterwards:
  `HandleSignal` then finds nothing to restore and dumps for ever.

### DumpSession (in DumpFiles; DumpFilesProofs)

`Dump(option)` in the parent, one action per access to shared state: tid,
siginfo, context, the tid read back for the name, dumpable, ptracer, fork, wait,
restore, callback. `Crasher`s hold `g_handle_lock`, `Direct` dumps nothing.
Child processes are numbered; `snap` is the copy of the object each was forked
with. The application may have children too (`AppKids`), and a signal may
interrupt a wait, whose result the code does not look at (`MaxInterrupts`).
`PR_SET_PTRACER` is taken to work; without Yama it fails and is not needed.

For crashes that take turns, without requested dumps (`Direct = {}`):

- `OwnSnapshot`, `DumpableRestored`: each child has its own crash's data, and the
  process is as undumpable between dumps as before the first.
- `Attachable`, `OwnChildReaped`: a child may attach from its fork until it has
  exited, and is reaped when its dump calls back. Both hold as long as every wait
  has been `Undisturbed`: `wait()` takes any child, so once it has ended with a
  child of the application or a signal, the dump goes on, dumpable is restored and
  its own child runs on.

With requested dumps at the same time none of the four holds, and nothing in the
repository claims them. What holds then is:

- `ChildrenAccounted`: of the children the dumps have forked no more are left,
  running or zombies, than there are threads in `wait()`, children of the
  application taken in their place and interrupted waits.
- `DumpReturns`: every dump comes back, unless only a child of the application
  is left to wait for.

### DumpOutput (in DumpFiles; DumpFilesProofs)

What the dumps leave in the file system. The dumping threads make a path of the
options (`MakePath`), which `SetDir` and `SetFlag` may be changing; the string
`SetDir` is assigning to may read as anything (`Torn`). The children open the
path, write pages and close, or are ended by the alarm, and the callback gets
the path. Several children may write into one file, each at its own position.

- `PathHoldsCore`: the path given to the callback is that of a whole core of this
  dump and nothing else, with all the exceptions named. `Unwritten`: there is no
  such file or it is cut short. `Shared`: another dump has the same file, which
  it can only if nothing tells the two apart (`ToldApart`): different seconds with
  FLAG_TIMESTAMP, or different threads with FLAG_TID if nobody has put his tid in
  between.

### TwoChildren, TwoChildrenProofs

DumpSession and StopTheWorld composed, with the details of each that do not
matter for the other left out: two or more children that attach to the same
threads. A thread has one tracer; the second to come is refused. The dumping
threads are tracees as well, and can fork or return only while they run. The
return of one dump restores dumpable and ptracer, and the other's child may be
refused from then on. A SIGSTOP left pending by one child is the same as that of
the next, whose DETACH discards it.

- `StillUnlessReleased`: a thread runs while a child writes only if another child
  had it, and is past its writing or not yet there. Nothing runs while all write.
- `FrozenByAlarm`: the children do not freeze the process by taking each other's
  tracees; only an alarm in the attach window does.
- `DumpsReturn`: they do not wait for each other for ever either.

### DumpRequest, CoredumpService, CoredumpServiceProofs

CoredumpService has one thread per Java or native thread that takes part, and
`mCondition` as a set of bits that are read and written in separate steps where
the code does not hold `mLock`. `served`, `told` and `quit` are history.
DumpRequest is the promise: requests one at a time, an answer only after the
dump, and always an answer while the process lives. `RefinesRequest` is
refinement, liveness included.

- `TypeOK` says, beside the types, that a queue holds at most one message while
  nothing disturbs the service. With interrupted calls or native crashes it may
  hold more: the code does not take back a message whose sender has gone.
- `TrueMeansDumped`, `ListenerFirst`: a `true` answer means this request's core
  was dumped and its listener dealt with, as long as no earlier call was
  interrupted and no crash is under way; with those, stale notifications may
  answer.
- `EveryCallReturns`, `CrashDies`: calls return and crashes die, with two named
  exceptions: an exception of the listener re-enters the service on the thread
  it waits for, and `CompletionLost`, a bit lost to the unlocked
  read-modify-write of `mCondition`. The native crashes of `CrashDies` are of
  threads of the application; one on opencore-post itself, within the listener,
  is not modelled.

### ServiceSetup (in CrashHandlers; CrashHandlersProofs)

The instance before its first dump, and the default exception handler. `init`
can fail in `nativeInit` and at the start of either thread and be called again;
what it has done so far stays. Running out of memory between the start of a
thread and the assignment of its handler (`J` 94-96) is left out. `JavaCrashHandler` keeps the default handler it
found first; a library may put its own over it, and puts back what it found.

- `CrashFindsService`: after any number of failed calls of `init`, an exception
  that reaches the handler finds the natives there and one thread behind each
  handler.
- `StaysDisabled`: after disable, and until the next enable, an exception
  reaches Opencore neither as the default handler nor through the library's,
  which hands on to the one it found (`Reaches`). Three exceptions are named, and
  TLC reaches each: the first enable found no handler (`bare`); the library has
  put Opencore's back since (`putBack`); or the library was there before Opencore
  and set its handler once more on top (`Around`), so that what disable restores
  is the library's handler, which hands on to Opencore.

### CoreFile (in CoreFiles; CoreFileProofs)

`DoCoredump` as sizes and positions. The writer announces all offsets first and
then appends, so the module follows `pos` through every fwrite and compares it
with the announced offsets. `content` maps positions to the page of memory
written there. Loops are one action per turn; there is no recursion. Writes of
headers and notes are not checked by the code and are taken to succeed; writes
of pages succeed, fail (`WriteFails`: back to the start, then zeroes) or find no
space. What a thread's notes take is counted in one function (`ThreadNotes`,
`RegsetNotes`) and written in six (`WriteCoreSignalInfo`, `WriteCoreFpRegs`,
`WriteCoreTLS`, `WriteCorePAC`, `WriteCoreMTE`, and the status itself); with
`Regsets` this is arm64, without it the other architectures. Two assumptions
name what the layout relies on. `AlignmentAssumption`: all sizes are multiples
of 4. `CoreFileAssumption`: there are fewer VMAs than the 16 bits of `e_phnum`
count (the kernel's default limit is below that). The length of a segment is not
limited. Where it is longer than `Word`, the 32 bits of `i * align_size` (`L`
260), its pages are read from its beginning again, and `Shown` says which one
stands where; in the run the third page of a segment is that far in. The `int`
count of pages is exact up to 8 TiB. The alarm is left to StopTheWorld. Data that
stdio holds back and fails to write at a later fseek or fclose, whose results are
not looked at, is not modelled.

- `NotesInPlace`: headers (`NotesFollowHeaders`) and notes (`NotesAddUp`) are as
  long as announced.
- `PagesInPlace`: every page in the file is at the offset its program header
  announces for it, unless a page of zeroes could not be written either; it shows
  the memory of that address, or past 4 GiB the repetition.
- `Complete`: a file written to its end has every announced page: memory, its
  repetition past 4 GiB, or zeroes for a segment whose write has failed.

### CoreFile32 (in CoreFiles; CoreFilesProofs)

The writer of `lp32`, where the order of writes is the same and the integers are
not: `p_offset` is a sum modulo `Word`, and `ftell` fails beyond `LongMax`,
which the code takes for a position (-1) and so neither seeks back nor pads.
`e_phnum` is a number modulo `Half`; fewer VMAs than that counts are assumed.
Headers and notes are one step each.

- `SegmentsInPlace`: each segment that starts within 4 GiB is whole and where its
  header says, up to the first write that failed beyond 2 GiB.

### ThreadRegisters (in Filters; FiltersProofs)

`CreateCorePrStatus` and `IsSpecialFilterSegment` of the five architectures. A
register's value is where it comes from, so that a field that is filled from the
wrong index of `gregs[]` shows.

- `RegistersOfCrash`: each slot has the registers of the thread whose pid it has
  (`OwnRegisters`); the first slot is the crashed thread at its crash, in every
  field that is not in `Misread`, and none of those (`TopIsCrash`); a minidump
  follows all of these but the flags, the segment registers and `Unprobed`: `rsp`
  on x86_64, `ecx` on x86 (`MinidumpFollows`).

### OptionStrings (in Filters; FiltersProofs)

The two functions that print options, as the sequence of what they append.

- `ReadsBack`: from what is printed, the bits can be told.

### SegmentFilter (in Filters; FiltersProofs)

The verdict on each VMA, one turn of `SpecialCoreFilter`'s loop at a time, for
any set of filter bits. A name is one of the five classes the tests tell apart;
a file is its PT_LOAD segments, once as it was when it was mapped and once as
`NeedFilterFile` finds it under its name when the core is written. `Pos` and
`End` wrap like the `int`s they model. `Probed` is the registers
`IsSpecialFilterSegment` looks at: on arm64 all of them, on x86_64 all but
`rsp`. CoreFile takes what this module decides as `flag`, an input.

- `OmittedForAReason`: a segment is left out only if a set bit asks for it. For
  FILE_VMA that means: a read-only mapping of a file, of which no segment that
  was ever writable is part, since such pages may have been relocated. `Missed`
  names when the code cannot tell: the file has been replaced or deleted, a
  segment ends past 32 bits, or a page holds only the tail of a segment that
  begins within a page (`end` is counted from the rounded `pos`).
- `AskedIsOmitted`: every set bit is obeyed. With FILE_VMA set, a read-only file
  mapping is judged by its file alone (the return at `C` 411), so it may be kept
  although SHARED_VMA or JIT_CACHE_VMA asks for its omission; and what a minidump
  includes is kept.
- `MinidumpExact`: with MINIDUMP a VMA is in the core exactly if a probed
  register points into it.

## The runs

| run | instance | states | shows |
|---|---|---|---|
| stop_the_world | 3 threads, 1 to be spawned, 1 that other signals hit | 339 000 | all properties of StopTheWorld |
| signal_handlers | 2 threads, 2 signals, 2 calls each, one signal asynchronous | 348 000 | all properties of SignalHandlers |
| | 2 libraries, 12 calls, 1 crash | 8 000 | all properties of SignalChain |
| | 2 threads, 12 calls, 1 library | 14 900 | all properties of ServiceSetup |
| service_calls | 2 callers, 3 calls, 1 setListener, interrupts | 87 000 | TypeOK, TrueMeansDumped, ListenerFirst, EveryCallReturns |
| service_crash | 2 callers, 2 calls, 1 native crash | 101 000 | CrashDies |
| service_refines | 2 callers, 3 calls, 2 setListener | 5 900 | RefinesRequest |
| service_listener | a listener that calls doCoredump | - | violates ListenerMayCall |
| session_serial | 2 crashers, 3 dumps, 1 child of the application, 1 interrupted wait, 2 filter changes | 60 000 | the four properties of dumps in turn |
| | 1 crasher, 1 requested dump, 2 dumps of 1 or 2 pages, 2 seconds, 1 change of options | 1 720 000 | all properties of DumpOutput |
| session_concurrent | 1 crasher, 1 requested dump, 1 child of the application, 1 interrupted wait | 421 000 | TypeOK, ChildrenAccounted, DumpReturns |
| session_wait | 1 crasher, 1 requested dump | - | violates WaitsOwnChild |
| two_children | 1 crasher, 1 requested dump, 1 more thread | 170 000 | all properties of TwoChildren |
| core_file | 2 VMAs of 1 to 3 pages, 2 threads, lp64 and arm64 sizes, align_size 16, addresses within a segment modulo 32 | 912 000 | all properties of CoreFile |
| | 3 VMAs of up to 2 pages, sizes of arm, align_size 16, offsets modulo 672, ftell up to 639 | 2 800 000 | SegmentsInPlace of CoreFile32 |
| segment_filter | 2 VMAs of 17 kinds, all 256 sets of bits, 2 registers of which 1 is probed, pages of 2 bytes, offsets modulo 8 | 2 030 000 | OmittedForAReason, AskedIsOmitted, MinidumpExact |
| | 3 threads in every order, 5 architectures | 1 200 | all properties of ThreadRegisters |
| | every set of the known bits and an unknown one | 11 100 | ReadsBack of OptionStrings |

A run with several rows is of a composition with `part`. It is chosen once and
for all; the modules a behaviour is not of stay as they began. They share no
state, and the fairness of those that stand still asks for nothing, so each row
is checked as it would be alone. An instantiated module states what it needs of
its constants as a definition, and the composition assumes it:
`OwnersAssumption` in CrashHandlers, `FilesAssumption` in DumpFiles,
`NarrowAssumption` in CoreFiles, `RegistersAssumption` in Filters. TLC evaluates
them in the runs.

Why the bounds are enough: the hazards need two actors each, and one more event
(a spawn and an exit during one scan; two frames of one thread and another; a
stale notification and the next call; a dump that ends inside another). Two
signals suffice since the loops treat them alike and only "switched" and "not
yet switched" matter. `MaxDumps`, `MaxInterrupts`, `MaxCalls`, `Calls`, `MaxToggles`,
`MaxSeconds`, `MaxSets`, the length of `CorePages` and the `Max...` of CoreFile
bound counters that the code does not; they are guards or sets of inputs, named
as bounds. A page of 16 bytes makes the end of the notes fall on either side of
a boundary with few names; the proofs do not depend on it. In SegmentFilter one
segment of a file begins within a page and another ends at the largest offset,
which are the two edges of `NeedFilterFile`; a VMA's verdict depends on no other
VMA, so two are as good as many. In DumpOutput the second core is shorter than
the first, so that an overwritten one shows; one thread's name has a slash in
it. In CoreFile32 `Word` and `LongMax` are just behind the headers and notes,
which take about 600 bytes, so that the third segment may start on either side
of both. Two libraries suffice for SignalChain, since a handler sees only the
action below it. Deadlock is not checked in any run: all these programs end, the
process dies or the bounded application falls silent.

Fairness: weak fairness of each thread's own steps, as the scheduler gives it.
The alarm is fair since `alarm()` has a positive timeout. Nothing that the
application, the user or the kernel may leave undone is fair: tracees need not
stop, the application need not call, children of the application need not end.
In DumpSession a dumping child ends; StopTheWorld shows that, with the exception
of a child stuck in its handler. In SignalChain the crashing thread is
scheduled; nobody need call anything.

## The findings

- **service_listener.** The README's example says of `onCompleted`
  "// do anything" (src/README.md:77). A listener that calls `doCoredump` waits
  for the monitor held by the caller who, three threads on, waits for the
  listener. TLC's counterexample is that cycle, under weak fairness.
- **session_wait.** The code logs "Wait (%d) coredump" with the child's pid
  (`C` 383, src/README.md:88) and then calls `wait(&status)`. With a requested
  dump and a crash at once, the first exit ends either wait, and a dump calls
  back with the path of a core that is still being written.

Beside these, `coreFilterToString` appends "FLAG_TID", the name of a flag of the
file name, for FILTER_NON_READ_VMA (`J` 465). No statement of the repository is
about it; OptionStrings has the word as the code has it, and `ReadsBack` holds
because no other filter prints that way.

## The proofs

All theorems hold for every value of the constants that the `ASSUME`s of the
modules allow: any number of threads, signals, libraries and calls, any VMAs and
sizes. A theorem about an instantiated module is of that module's own
specification (`Chain!Spec`, `Narrow!Spec`), not of one behaviour out of several.
Four of DumpSession's and the one about DumpRequest have a further hypothesis,
which is in their statement and explained below. Each inductive invariant was
checked by TLC on the instances of the runs as well.

**StopTheWorldProofs.** `TypeCorrect` is inductive as it stands.
`StoppedWorld` needs the scan's bookkeeping: every listed thread is still in the
buffer, is the current one, or has a record; every record that is attached and
alive is stopped and traced, but for the current one between ATTACH and waitpid.
With that, the end-of-directory test says that the listed threads are at least
as many as the live ones, so if none of the listed has exited they are all of
them. `FrozenOnlyInWindow` needs where each pending SIGSTOP is: during the scan
only on the thread being attached or on a thread held back by another signal,
and during Continue only on stopped threads still ahead of the loop index.
`PrStatusSlots` follows from records having distinct threads, and from the
counter being strictly increasing over them.

**CrashHandlersProofs.** Of SignalHandlers, `TypeCorrect` carries the labels each
kind of frame may be at. `RestoreIsFaithful` rests on mutual exclusion by
`g_switch_lock` (the holder is the one frame at a locked label) and on how far
the holder's loop has come: entries below its index are saved, switched or restored, those above are
not yet. `HandlersSerial` is the same for `g_handle_lock`. `OriginalReached`
adds that a table differing from the original needs an Enable that was counted
after the handler's Disable. `DumpedOnce` is the two together.

Of SignalChain, `ChainIntact` is inductive together with the types and with the
chain having no owner twice (`ChainStaysIntact`). `WithoutLast` says what remains
of a chain whose last owner goes; a removal of any other ends the premise.

Of ServiceSetup, `ExceptionFindsService` needs what a failed `init` leaves:
`InitInv` says, by the label a call of `init` is at, what has been done so far
and that it stays done for the next call, with exactly one looper behind each
worker that has been started; `ReadyInv` that Opencore's handler is set, saved
or put back only by a service that was ready. `DisableHolds` needs `DefaultInv`:
as soon as the handler is set or the library has found it, it has a default to
go back to unless there was none at first (`bare`), and is its own default only
then.

**CoreFileProofs.** `RoundUpPadded` is the arithmetic the format rests on: a
multiple of 4 and the same number less up to 3 round up to the same multiple of
`align_size`. `HeaderInv`, `NotesInv` and `NamesInv` say what `pos` is at each
label, as a function of what has been counted; the sum of the file names is
followed by a sequence of partial sums that exists (`Sums`), one more for each
turn of a loop, which takes the place of an induction. `PrWrittenFacts` relates
the two ways the notes of the threads are counted. From these `HeadersThenNotes`
and `NotesAsAnnounced`, together `NotesWhereAnnounced`, and that
`AlignNoteSegment` ends where the first load segment is announced (`Aligned`).

For the pages, `OffsetInv`: each program header begins where the one
before it ends, and announces nothing or its whole segment. `PlaceInv`: between
pages `pos` is where the header of the current segment says. So every page that
is written goes where it is announced (`PagesWhereAnnounced`). `DoneInv` adds
that earlier segments end before the current one begins, so a write never
touches a page that is done, and that the pages of a segment whose write failed
are overwritten with zeroes one after the other; at the end, all are done
(`FileIsComplete`).

**CoreFilesProofs.** `NarrowSegmentsInPlace` compares three numbers: where a
segment begins if nothing is limited (`Ends`, the sums of the segments' sizes),
its `p_offset`, which is that modulo `Word` (`OffsetsAreEnds`, from `ModPlus`), and
`pos`. `PosInv`: between pages `pos` is at the unlimited place, until a write has
failed beyond what `ftell` reports; `StartInv` says what the `ftell` at the
beginning of a segment gave, and `LostInv` that the first segment lost begins
beyond `LongMax`. `DoneInv32` is then as in CoreFileProofs. The writer computes
its offsets in a loop, so that they are sums must be shown by induction; `UpTo`
is that induction, over a set of numbers in the place of a formula, from the
well-foundedness of `<`.

**DumpFilesProofs.** Of DumpSession, two theorems hold for crashes and requested
dumps at once. `TypeCorrect` needs `Budget`: the dumps that have begun and not forked yet
are no more than the children's numbers that are left. `ChildrenReaped` is
inductive (`Account`): each fork adds a child and a thread in `wait()`, and each
`wait()` that returns takes one of each, or a child of the application instead,
or is counted as interrupted, or finds no child left.

The other four are of dumps that all come from `HandleSignal` (`Direct = {}`).
This is not a convenience: the run session_wait shows that a requested dump,
which takes no lock, ends the wait of a crash, and with it restores dumpable
while the other's child attaches. Under the hypothesis the invariant says that
past "lock" a dump holds `g_handle_lock` (`MutexInv`), what the holder has stored
so far in the object (`ObjectInv`) and in the process (`AccessInv`), and for
`CrashAttachable` and `CrashReapsOwnChild`, that the one child of a dump that is
left is the holder's (`OnlyChild`), as long as every wait has been `Undisturbed`.

Of DumpOutput, `CallbackHasCore` has no such hypothesis; its exceptions are in
`PathHoldsCore`. `PathInv`: from its naming to the callback a dump's path, and
that of its child, is made of its own tid and second wherever the flags ask for
them, so that dumps that are told apart have different paths
(`ApartIsElsewhere`). `FileInv`: the file at a child's path holds what this child
has written, in order, as long as nobody else has opened it since or had it open
(`Alone`); `WriteInv` gives what a child that opened earlier can still do.

**CoredumpServiceProofs.** `KindInv`, `JoinInv` and `MonitorInv` give each thread
its place: where each kind of thread can be, that a callback thread exists
exactly while its dumper is in `pthread_join`, and that exactly the thread in
the monitor is inside a synchronized method. With `RoundInv` they are enough
for `TypeCorrect`, `TrueAnswers` and `ListenerRunsFirst`. `RoundInv` is about a
service that nothing disturbs (`Undisturbed`: no call abandoned, no native crash
under way): there is one request and one callback, each is at one place at a
time (queue, worker, notification, answer), "core" stays clear from the caller's
ClearWrite to the notification, and who writes `mCondition` back in between has
read it in between, so that no write of another thread can fake either bit. The
difficult case is the unlocked write of `ClearWrite` and `NotifyWrite`, whose
`reg` was read before other threads' steps.

`ImplementsRequest` is the safety half of `RefinesRequest`: the initial states
of the service map to those of DumpRequest and each step to a step or a stutter.
As in the run, it is of a service without native crashes and interrupts. It
rests on `RoundInv`, and on `DoomInv`: who an exception has doomed stays where
it is. That every request is answered is liveness and stays with TLC.

**TwoChildrenProofs.** The threads and dumpers are arbitrary, but dumpers are
threads. `HoldInv`: a child whose alarm has not met it between an attach and its
stop has each of its tracees stopped and on its list, or is at it now.
`ScanInv`: it comes to each thread once, and before its Finish gives none back.
`RefusedInv`: a thread it was refused is another child's, or there is another
child that is over; `PermitInv` accounts for the refusals that a returning dump
causes. `WritesStillWorld` follows from the three. `FrozenOnlyByAlarm` needs
`SigstopInv`: without such an alarm every pending SIGSTOP is of a thread that has
a tracer, and by `HoldInv` no child exits with tracees (`ExitWindow`).

**FiltersProofs.** Of SegmentFilter, the invariant says, of each VMA judged so
far, that `dumped` is the value of the filter functions; the properties then
follow by cases on the bits. That `NeedFilterFile` keeps a relocated page unless
`Missed` is an argument about `pos`, `end` and their wrapping.

Of ThreadRegisters, `RegistersAreOfCrash` holds for any threads in any order.
`SlotInv` says that a slot is blank until the counter has come to it, and the
first until the top thread has been met or the loop is at its end, so each is
filled once and the top thread's is never taken by another. What a field holds is
then a fact about the tables, shown for each architecture (`RightField`): field
by field for the two that pick from `gregs[]`, and for the other three from their
context being laid out as `pt_regs` is.

Of OptionStrings, `StringsReadBack`: the words appended so far are those of the
set bits below the current one, with a bar at each even place (`AppendedInv`),
and no two bits share a word (`WordFacts`).

Only model-checked is all liveness under fairness, which is out of the prover's
reach: DumpBounded, CrashEnds, both CrashDies, EveryCallReturns, DumpReturns,
DumpsReturn, and the liveness half of RefinesRequest. Every invariant that a
passing run checks has a theorem.

## Not modelled

The values of the regsets beside NT_PRSTATUS and the bytes of the other notes,
so also the page size over-read at `L` 222, the one listed hazard without a
property, and the fixed 4096 at `L` 56; the
injected build's constructor and destructor (`JNI` 219-246), one Enable and one
Disable; the setters of timeout and callback, the getters and the JNI functions
that forward them, which are plain loads and stores; the crash of the dumping
child itself, after which neither Finish nor a detach runs, unlike after the
alarm, and the kernel lets go of its tracees; a dump of another process
(`DumpOption.pid` not one's own), which nothing in the repository asks for; the
tester application and the build.

## Plan

Done, in order of importance: StopTheWorld, SignalHandlers, DumpRequest and
CoredumpService, DumpSession, CoreFile, SegmentFilter; then DumpOutput,
SignalChain, ServiceSetup, CoreFile32, ThreadRegisters, TwoChildren and
OptionStrings; the compositions CrashHandlers, DumpFiles, CoreFiles and Filters.
All invariants of the runs are proved.

Next: what the liveness properties rest on and a safety proof can give, such as
that nobody waits for a lock whose holder waits for him.
