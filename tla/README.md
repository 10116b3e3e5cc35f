# A verification of the CS:APP lab programs

This directory holds TLA+ modules for the programs of this repository, TLC
configurations that check them on small instances, and theorems checked by
TLAPS. The repository is a set of solved CS:APP labs: a shell with job control
(`shlab-handout/tsh.c`), a heap allocator with its driver (`malloclab-handout`),
a cache simulator and matrix transposes (`cachelab-handout`), integer and float
puzzles with their test harness (`labdata`), and two reverse-engineering labs
that are binaries (`bomb`, `target1`). The programs do not call each other.

Run `tlc -config X.cfg M` for a run of `PROJECT.json`, `tlapm M.tla` for a
module of proofs.

## Inventory

| Part | State | Operations | What is hard | What makes it correct |
|---|---|---|---|---|
| tsh job list (`tsh.c` 500-649) | `jobs[MAXJOBS]`, `nextjid` | addjob, deletejob, fgpid, getjobpid, getjobjid, pid2jid, listjobs, state stores | ids wrap and restart; stale pointers into the array | a pid has one slot; ids are fresh; jid and pid in step |
| tsh shell (`tsh.c` 91-494) | the list, the point main is at, one activation per signal handler | eval, waitfg, do_bgfg, listjobs, sigchld/sigint/sigtstp/sigquit handlers | handlers interrupt main and each other between any two accesses; SIGCHLDs coalesce; setpgid race | list and children agree; no child forgotten; one foreground job; prompt returns; keys reach the foreground only |
| processes (kernel) | state of each child, unreported stops, pending signals | fork, exit, stop, kill, waitpid | external | - |
| malloc (`mm.c`) | heap words, break, free list in the free blocks | mm_init, mm_malloc, mm_free, mm_realloc, coalesce, place | boundary tags and list change together, in place | blocks tile the heap, list = free blocks in address order, no two free neighbours, payloads disjoint and kept |
| memlib (`memlib.c`) | `mem_start_brk`, `mem_brk`, `mem_max_addr` | mem_init, mem_reset_brk, mem_sbrk | heap exhausted | break stays in the arena |
| malloc driver (`mdriver.c`) | point of main, trace read, block table, range list, statistics by file, errors | read_trace, eval_mm_valid, eval_mm_util, eval_mm_speed, the same of libc, add_range, remove_range, main | overlap test, data kept by realloc, arenas that are never freed, statistics that follow reallocs, one failing trace among others | ranges are the blocks held; every replay repeats the checked run; the report is that of the traces; it ends |
| timing (`fcyc.c`, `clock.c`, `ftimer.c`, `fsecs.c`) | K smallest samples, readings of the cycle counter and the user ticks, cost of a tick | fcyc, add_sample, has_converged, start_counter, get_counter, their compensated forms, callibrate | counter wraps between its readings; interrupts in a timed call; samples that never agree | the K smallest, sorted; the time reported is that of the call |
| cache simulator (`csim.c`) | lines with valid, tag, time stamp | update, update_time, main | eviction by time stamp | LRU: same hits, misses, evictions as a recency stack |
| transposes (`trans.c`, `test-trans.c`, `tracegen.c`, `cachelab.c`, `driver.py`) | function table, matrices by the origin of their values, trace.tmp, trace.f\<i\>, .csim_results, results | five transposes, validate, tracegen, eval_perf with its filter, alarm handler, scoring | edges of the blocks; children that are killed or outlive the alarm; stale results | B is the transpose of A; the misses are those of the submitted function |
| bit puzzles (`bits.c`, `tests.c`) | none | 13 puzzles, each with its reference | carries and shifts at the width; rounding and overflow of floats | equal to the reference |
| puzzle harness (`btest.c`, `decl.c`) | options, values and indices, alarm, jump buffer, totals | gen_vals, test_function, run_tests, timeout_handler | alarm that is never taken back; values at the ends of a range | a verdict has its reason; the totals are those of the table |
| `bomb`, `target1` | - | - | - | binaries and listings |

## Plan

1. The shell: `JobTable`, `JobList`, `UnixProcs`, `Tsh`, `JobControl`. Done,
   with proofs.
2. The allocator and its driver: `Mm`, `RangeList`, `MallocDriver`, `RangeCheck`.
   Done, with proofs.
3. The cache simulator: `Csim` as a refinement of `Lru`. Done, with proofs.
4. The rest of `mdriver.c` with the sampling of `fcyc.c`: `Fcyc`, `Mdriver`. Done,
   with proofs.
5. The bit puzzles against their references and their harness: `Words`, `Bits`,
   `BitsTests`, `Btest`. Done, with proofs of the harness. The transposes and the
   machinery that measures them: `Trans`, `TestTrans`. Done, with proofs.
6. Proofs of the shell's states: when a job is ST or FG, and that it implements
   `JobControl` where fg is not used. Done.
7. Proofs of the allocator: the heap invariant of `Mm`, from it the properties of
   `MallocDriver`, and that every run of a trace repeats the checked one. Done.

## The shell

### Modules

`JobTable` holds the pure routines on the job list. A slot is a record of pid,
jid and state; the command line is left out. A routine that returns a pointer
returns a slot number, `NULL` is -1. addjob and deletejob also write the global
nextjid and return the pair.

`JobList` is what the rest of the shell may do to the list: add a job for an
unlisted pid, delete the job of a pid, store a state in any slot (do_bgfg's
pointer may be stale, so an empty slot too). It is checked by itself and is the
abstract specification `Tsh` is proved to implement.

`UnixProcs` is the kernel as `tsh.c` uses it, external to the repository. A child
goes through `forked` (tsh code in the shell's group), `grouped` (after setpgid),
`running` (after execve), `stopped`, `exited`, `signaled`. Pending signals are a
set, so SIGCHLDs coalesce.

`Tsh` is the shell. `pc`, `bg`, `pid`, `slot` are the main flow and its locals;
`handler[s]` is the activation of the handler of signal s with the signals it
interrupted (`over`), so that handlers nest like a stack. Main runs when no
handler is active. `Deliver` starts a handler for a pending signal that is not
blocked: by eval around fork and addjob (l. 197-223), or by its own activation.
Handlers mask everything while they change the list, so a change is one step.

| Code | Actions |
|---|---|
| eval | EvalRun, EvalFork, EvalAddjob, EvalAnnounce |
| waitfg | WaitfgTest, WaitfgSuspend, (return of sigsuspend) Deliver |
| do_bgfg | BgFgFind, BgFgKill, BgFgSet |
| listjobs | ListStart, ListTest, ListPrint |
| quit, end of file, SIGQUIT | Quit, sigquit_handler |
| sigchld_handler | ChldWait, ChldUpdate |
| sigint_handler, sigtstp_handler | KeyRead, KeyKill |
| child before execve | ChildSetpgid, ChildExec |
| the rest of the world | Program, Key |

`JobControl` is job control as the head comment of `tsh.c` has it: a process is on
no list, FG, BG or ST, and at most one is FG. `ControlSpec` is `JobControl`
with each process's state read off the list (`JobState`).

Abstractions: a job is one process; programs have the default action for SIGINT,
SIGTSTP and SIGCONT; nobody but the shell continues a child; a pid may be reused
as soon as waitpid has reported it; the system stops with the shell. A child
inherits the shell's handlers until execve, where its copy of the list has no
foreground job: a key it gets then is swallowed.

### Runs

| Run | Question |
|---|---|
| job_list | job ids and slots under every sequence of adds, deletes and state stores |
| tsh_all | every command, key and handler interleaved, room for all jobs |
| tsh_overflow | more children than slots |
| tsh_live | no fg command: job control is implemented, and what must happen happens |
| two_foreground, lost_wakeup | disagreements with the comments, below |

Bounds. Two children and two slots suffice for the races found: one job whose
slot is cleared under a stale pointer and one job to take it or stand beside
it; overflow uses one slot. `JidBound` = 3 lets nextjid pass MAXJOBS and wrap.
`MaxKeys` = 1 lets one ctrl-c or ctrl-z nest with SIGCHLD's handler. `job_list`
has three slots, four pids and ids to 6, twice MAXJOBS. In tsh_live `JidBound`
is 2 to keep the graph small; two jobs can still be alive at once.
The `Tsh` runs do not check deadlock: the shell exits, and no more is asked of a
shell at its bound.

Properties. `TableSound`: each child has one slot, a listed process is a child
(or is being deleted), an unlisted child was refused or is about to be added.
`CrashOnlyAfterOverflow`: the NULL dereference needs a child that addjob has refused.
`NoChildForgotten`: whatever waitpid could report, a SIGCHLD is pending or its
handler runs. `StoppedIsStopped`: ST is never said of a running job.
`KeysSpareBackground`: a forwarded key does not hit a background job, even when
SIGCHLD comes between fgpid and kill. `NoForegroundAtPrompt`: while nobody types fg,
the prompt returns only when no job is FG. `ChangesNoticed` and `CommandsReturn` are
the liveness properties. `AtMostOneForeground` is checked only where it fails; without
fg it is proved.

Fairness. WF of Main and of Handlers: the kernel runs a process that can run.
SF of Deliver: a pending signal is not blocked for ever, only now and then. WF of
the child up to execve. Nothing is assumed of the user or the programs.

### What the code does against its comments

- `two_foreground`: do_bgfg keeps a pointer across kill with SIGCHLD unblocked;
  when the job is reaped meanwhile, FG is stored in an empty slot. fgpid stops at
  that slot and gives 0, so fg of a job in a later slot marks it FG and does not
  wait; the next foreground command is added in the stale slot, and two jobs are FG.
- `lost_wakeup`: waitfg tests fgpid with SIGCHLD unblocked, then sigsuspends. If
  the handler runs in between, the shell sleeps until some other signal.

Seen while reading, with no run:
- Only the child calls setpgid, so a ctrl-c right after fork is sent to a group that
  does not exist yet, or reaches a child that swallows it: the key is lost.
- eval ignores that addjob refused, and the handler then dereferences the NULL that
  getjobpid gives it. `CrashOnlyAfterOverflow` says that it takes a refused child.
- The wrap of nextjid does not look for a free id, so two jobs can share one; nothing
  reads MAXJID, and ids are not bounded by it.
- bg stores BG over the ST of a job that stopped again meanwhile.
- listjobs may print a slot cleared after its test, and a background job reaped at
  once is announced as `[0]`, as the comment after it concedes.

### Proofs of the shell

`JobListProofs` has the lemmas on the routines of `JobTable`: what First, maxjid, addjob
and deletejob return and preserve. They rest on `DataLemmas`: the least and greatest
element of a set of naturals, proved from the library's well-founded order on Nat, what
RemoveAt leaves of a sequence, what FlattenSeq makes of sequences, and the nodes along a
chain of links. `TshProofs` takes them from an instance of `JobListProofs`.

From them it proves `TypeCorrect`, `IdsMatchPids`, `JobIdsFresh` and
`NumberingRestarts` for every MAXJOBS and Pids, from `IdInv` (pid, jid and
nextjid together: none of them is inductive alone, as deletejob resets nextjid
from the ids that remain).

`TshProofs` proves for every MAXJOBS, Pids, Commands and bounds
- `TypeCorrect`, with `Targets`: a handler about to act has a child to act on;
- `InvHolds` and `TableInvariant`, the inductive invariant `TableInv` (checked by
  tsh_overflow): beside
  TableSound it needs `ForkOK` (SIGCHLD's handler cannot run between fork and
  addjob), `FrameOK` (a child the handler has collected is gone from the kernel
  but still on the list) and `DroppedOK` (refused children are real);
- from it `ListIsSound` and `NoCrashWithRoom`; `NobodyForgotten` by itself;
- `ImplementsJobList`: each step maps to a step of JobList or a stutter.

and on top of `InvHolds`
- `StoppedIsTrue` (`StoppedIsStopped`). Its invariant `Stopped` has two parts: a job
  marked ST has a child in one of the states the property allows (`StoppedSlots`), and
  what a handler has collected and not yet stored is still so (`CollectedOK`), as
  nobody but the shell continues a child and the shell's own kill comes before its
  store;
- `KeysHitOnlyTheForeground` (`KeysSpareBackground`), from `KeyTarget`: between fgpid
  and kill the pid stays that of the foreground job or names no running child. SIGCHLD
  can remove the job, but the main flow, which could make another, does not run;
- `PromptIsFree` and `OneForegroundWithoutFg`, if "fg" is not among the Commands, from
  `ForegroundOK`: a slot that is FG holds a job, there is one at most, and main is then
  in waitfg or the shell is gone. So the race of do_bgfg is the only way to two
  foreground jobs;
- `ImplementsJobControl` (`ControlSpec`), under the same assumption: three actions change
  the list (`OtherSteps`), each one slot (`AddjobSlots`, `ChldUpdateOne`), so that one
  process changes its state (`OneBecomes`) as `JobControl` allows. It needs `StatesOK`, a
  listed job is never UNDEF. bg's store through a stale pointer is a stutter, since no
  process has the slot.

Assumed: MAXJOBS and the bounds are naturals, MAXJOBS positive, pids positive
numbers.

## The allocator and its driver

`Mm` is `mm.c` on the arena of `memlib.c`: operators on a heap, which is a function
from word addresses to naturals and a break. A word of the model is four bytes, so
WSIZE is 1; sizes a client asks for stay in bytes. A header holds size + alloc. The
routine of the code and the operator of the model have the same name; `Before` is
the walk along the free list that coalesce and find_fit share, `Tag` and `Link` are
the PUTs of a header with its footer and of the links of two neighbours.

`MallocDriver` is eval_mm_valid of `mdriver.c`: one action for each operation of a
trace (`Alloc`, `Realloc`, `Dealloc`) with the driver's checks of the payload, its
range list and its memset, and `NewTrace`. A trace may be any legal one: an index is
allocated before it is freed or reallocated. `RangeList` has add_range and
remove_range, which it shares with `RangeCheck`, where the allocator may hand out
anything.

| Code | Definitions |
|---|---|
| mem_sbrk, extend_heap, mm_init | same names, `Started` |
| coalesce | coalesce, Insert (case 1), Skip (case 4) |
| find_fit, place, mm_malloc, mm_free, mm_realloc | same names, Adjusted, Copied |
| checkblock, checkheap | same names, Walk |
| add_range, remove_range | Overlaps, Accepts, add_range, remove_range |
| eval_mm_valid | Alloc, Realloc, Dealloc, Take, Fail, NewTrace |

Abstractions. Addresses fit the 32 bits in which mm.c keeps pointers. mm_init comes
before mm_malloc, as in the driver. The payload is filled word by word with a value
of its index; the bytes of a last, partial word are left out. Fresh memory holds a
value no client writes, so that reading it by mistake is seen. A new block takes the
smallest free index: the indices are alike.

| Run | Question |
|---|---|
| malloc | do tags, list, payloads and range list agree after every legal trace of three indices, to a full heap? |
| ranges | what does the overlap test guarantee before any allocator? |

Bounds. The arena has 22 words and grows by 4: three blocks of the two sizes fill
it in some orders and leave room in others, so requests fail, blocks are split with
and without a remainder and freed between two free, one free and no free neighbour.
The sizes 8 and 12 bytes give blocks of 4 words, the minimum, and of 6. The graph is finite without another bound.
`RangeCheck` has payloads of 8, 16 and 24 bytes on a heap of eight double words,
enough for a payload to lie inside, across and around another.

Properties. `HeapTiled`: the state is well typed, walking by the headers leads from
prologue to epilogue, and checkheap has nothing to report. `FreeListExact`: the list is
the free blocks, in address order, linked both ways, and no two of them are neighbours.
`HeldAreAllocated`: the allocated blocks are those the client holds. `DataKept`: a
payload survives every other call; realloc frees the old block after the copy and the
free writes links into it. `DriverAccepts`: no verdict but a full heap.
`RangesAreHeld`: the range list follows the blocks through realloc, also after a call
that fails. A refusal is not taken to leave the heap alone: `Fail` stores the heap that
mm_malloc and mm_realloc return with NULL, and the properties hold of that. `FirstFit`: the first block that is large enough is taken, and the heap grows
only when there is none.

The comment of add_range ("The payload must not overlap any other payloads",
`mdriver.c` 407) says more than the code tests: only the end points of the new payload
are compared, so one that contains an older payload is accepted. `SwallowsOrDisjoint` is
what holds instead, and `CheckerProofs` proves it for every heap, every set of
sizes and any number of payloads: add_range puts the new payload in front, so the
older one is the later one in the list, and RemoveAt keeps that order.

### Proofs of the allocator

`MmProofs` has the lemmas on `mm.c`, for every size of the arena and every CHUNKSIZE
that is even and at least 4 (`HeapAssumption`; the code's is 1024 words). They say what
each routine does to a *heap*:
- `Tiled(m, b, W)`: the blocks W fill the arena from prologue to epilogue. `Walk`, the
  walk by headers, finds exactly these (`WalkTiled`);
- `Linked(m, F)`: the list passes the nodes F in address order, linked both ways.
  `Before`, the walk along the list, stops where it should (`BeforeFacts`);
- `Heap`: the blocks are tiled, the free ones linked, and no two of them touch.

`Walk` and `Before` are recursive functions, and the provers have no induction. The
lemmas avoid it: a recursive function exists because the sets of nodes ahead of each
node do (`ReachSets`, by a least counterexample), it obeys its equation, and a node
where the claim fails and that is nearest the end contradicts that equation.

`coalesce` is given one free block that is not listed and may touch others
(`Unlisted`); its four cases (`CoalesceNone`, `CoalesceNext`, `CoalescePrev`,
`CoalesceBoth`) each return a heap. `place` takes the whole block or splits it,
`extend_heap` offers a block at the end, `find_fit` returns the first fit; so
`mm_malloc` (`Malloc`), `mm_free` (`FreeBlock`) and `mm_realloc` (`Reallocate`) keep a
heap, change the held blocks by the one they were called for, and keep every word of the
others. mm_realloc copies as many words as the old block has with its tags: `CopyFrame`
shows that they still fit in the payload of the new one, because the size asked for does.

`MdriverProofs` proves all that the run malloc checks, for every arena, CHUNKSIZE, set
of sizes and set of indices: `HeapIsTiled`, `FreeListIsExact`, `HeldBlocksAreAllocated`,
`PayloadsAreKept`, `DriverAcceptsAllocator`, `RangesFollowBlocks` and `SearchIsFirstFit`.
The inductive invariant is `TraceInv` (`TraceHolds`). None of the seven properties is
inductive: what coalesce does to the list depends on the tags, what it does to the tags
on no two free blocks being neighbours, and a payload is safe only where blocks do not
overlap. `TraceInv` has the heap, the client's table and its values in one predicate
(`Client`): the held blocks are the prologue and the client's, each large enough. Beside
it stands `Matches`: the range list has the range of each block once, so remove_range,
which takes the first range that begins at the address, takes the right one. That the
overlap test passes (`AcceptsPlaced`) follows from the tiles.
Assumed: the alignment of `config.h` is 8 (`DriverAssumption`), sizes are positive.

## The whole driver and its timing

`Mdriver` is main of `mdriver.c`. It extends `MallocDriver`, whose actions are the
requests of the checked run, and `Fcyc`, the timing package. `phase` is the point main
is at. A trace file is a header and a list of requests.

| Code | Definitions |
|---|---|
| read_trace, its two assertions | read_trace, max_index, Consistent |
| eval_libc_valid, eval_libc_speed | eval_libc_valid, Timed |
| eval_mm_valid, malloc_error | StartValid, ValidOp, ValidDone |
| eval_mm_util | StartUtil, UtilOp, UtilDone, Grown |
| eval_mm_speed | Timed, eval_mm_speed, Replay |
| mem_init, mm_init of each run | NewHeap |
| fsecs, ftimer_gettod, fcyc | SpeedGettod, SpeedFcyc |
| free_trace, the loop and end of main | free_trace, Score |
| init_sampler, add_sample, has_converged, fcyc | Begin, add_sample, InsertSorted, has_converged, Add, Return |
| access_counter, start_counter, get_counter | same names, Call, Measured |
| callibrate, the compensated counter | StartCallibrate, CallibrateEvent, Recorded, Measured |

`config.h` selects gettimeofday, so that fcyc is compiled and not called; one macro
selects it, and both timers are modelled. The clock is external: a call takes some
cycles and some timer interrupts of TICK cycles each. The compensated counter reads the
ticks and the counter one after the other, ticks first before the call and last after
it; interrupts may fall in between (`early` of Call, `late` of Measured), and in
callibrate after the counter was read (`inside` of CallibrateEvent). Two ticks are
further apart than a gap that callibrate looks at. The counter is two words of size
WORD. An arena holds what malloc left in it: zeros, or 999, which no client writes.

The run `driver` reads two files of six kinds, with and without -l: traces that split,
merge with both neighbours, reallocate and exhaust the heap, and two with a wrong
header, one of which read_trace's assertion stops; the other overruns its array.
RUNS = 2 averages more than one call. K = 2 of at most three samples lets samples agree
at once, late, or never. WORD = 4 lets the counter of 16 wrap during a call that starts
at 14. A call takes five cycles and up to one interrupt of three, with one more in each
window between two readings; THRESHOLD and RECORDTHRESH let callibrate record a tick at
its cost and one more, and drop the gap that holds none. ARENAS = 9 is enough for the two files with gettimeofday, and for fcyc only if
its samples agree early, so that the arenas run out in the middle of a run too.

`ReplaysAgree`: a run on a fresh arena gives each request the pointer of the checked
run, so eval_mm_util and eval_mm_speed need not check. `ArenasCounted`: the arenas,
which nobody frees, are one for each run and no more. `ReportIsEarned`: hwm is the
largest number of bytes held at any time, never above the heap, and there is a
performance index only when every trace was valid. `KeepsBest`: the sampler has the K
smallest samples in order. `TimesAreRight`: the time is that of the call across a wrap;
compensation takes off the interrupts in the call and at most THRESHOLD cycles more for
each, and for an interrupt between two readings a whole tick that was never measured.
`Finishes`: every step leaves less to do, in a lexicographic order, so the driver ends
whatever the samples are; it stops only where the process ends.

`MdriverProofs` proves the timing package for every K, tolerance, width and clock:
- `FcycTypes` and `FcycMeasures` (TimesAreRight and KeepsBest of fcyc by itself), from
  `TimingOK`, which relates the readings to the clock when the call began and the cost
  of a tick to TICK and THRESHOLD, and `SamplerOK`, which counts how many samples of the
  list and of all that were taken are within a bound. `CounterDifference` is the
  arithmetic of the borrow, `InsertFacts` and `AddSampleFacts` say what one insertion
  does to such counts, and `AppendCounts` what one more sample does;
- `DriverUsesFcyc`: every step of the driver is a step of fcyc or leaves it alone, hence
  `DriverTimes` and `DriverKeepsBest` for the driver.
Assumed: no call takes as long as the counter takes to wrap (`CallAssumption`), and
THRESHOLD <= RECORDTHRESH as in `clock.c` (`ClockAssumption`), so that callibrate
never records a gap that holds no interrupt.

It also proves `RunsRepeat` (`ReplaysAgree`), for every set of traces, of files and of
arenas. The runs have different memories: each arena holds something else to begin with,
and only the checked run writes payloads. What they share is which blocks are held and
how large they are. `Alike` says so of two heaps, and `AlikeBlocks` that their free
blocks are then the same, because no two free blocks touch and so each fills the gap
between held ones. Each request is answered alike on heaps that are alike and leaves
them alike (`MallocAlike`, `FreeAlike`, `ReallocAlike`, `InitAlike`); realloc copies
different words, but as many. The inductive invariant `ReplayInv` speaks of the
transcript of the checked run, a function from the number of requests done to a snapshot
of heap and blocks: while a trace is checked there is a transcript that ends at the
present state (`Recording`), and while it is measured or timed the transcript is complete
and the heap is alike to the snapshot at `op` (`Replaying`). An entry of the transcript
says what its request returns on every heap alike to its snapshot (`Repeats`), so that a
later run, which knows nothing of the past but the answers, can follow it. Where the
checked run failed there are no later runs, so a refusal in one of them is impossible.
Assumed of the trace files: requests are those of `Requests`, with indices from Indices
and sizes from Sizes (`TraceFilesAssumption`); that they are legal is not needed.

`ReportsAreEarned` (`ReportIsEarned`) follows from what the driver adds up and what it
has noted. `HeldBytes` is the number of bytes a client holds after k requests, as a set
of pairs of index and byte, so that it is counted by the library's theorems and needs no
sum. `BytesFit`: the blocks of these bytes are tiles of the heap, so there are at most
4 * brk of them; an entry of the transcript keeps this for its snapshot. `PhaseInv` says
where the driver is; `BytesInv` that, while a trace is measured, total_size is what is
held and the table has the right size for each index that holds something (`Measuring`:
the table is not cleared, and the sizes of the others are left over from the run
before); `BooksInv` that the statistics of the files judged so far have an error for
each invalid one and those of later files are empty. `DriverInv` is these and
`ReplayInv`, which says that a run that is measured ends where the checked one did.

`ArenasAreCounted` (`ArenasCounted`) rests on `ArenaInv`: before each file one arena has
been taken for it and, if it was valid, one for utilization and one for each timed call,
beside the one main starts with; in the middle of a file `Taken` and `Made` count what
it has taken so far. `Shares`, from the types of the timing package, bounds what one file
may take.

`DriverFinishes` (`Finishes`): the seven numbers of `Left` are natural (`Ranks`) and every
action makes one less while those before it stay (`Less`), an argument of one lemma for
each group of actions. As no descent in a lexicographic order of natural numbers is
infinite, the driver makes finitely many steps. That it does not stop before its end is
what the run's check for deadlock shows.

## The cache simulator

`Csim` is `csim.c`: `cache` with the valid bit, tag and time stamp of each line, the
three counters, and one action for each type of trace line; each ends with
update_time. `State` bundles the cache with its counters, as update changes them
together and M calls it twice. `used` records what the last line asks for
(`Asks`): set, tag and one use for L and S, two for M; nothing for I. It is the only
thing `Lru` is told, so each line must add to all three counters what these uses do. An address is cut to `AddrBits` as when
scanned into an unsigned int.

`Lru` is the cache that csim.c should simulate: for each set the tags it holds, and
which was used after which. It has no stamps, valid bits or positions. The
refinement mapping reads both off the lines (`CachedTags`, `NewerTags`).

The run csim reads every trace of seven lines over six addresses in two sets
of two lines: five tags, four of them in one set, and two addresses with the same low
bits; seven lines fill a set, evict, use the evicted tag again and evict twice more.
It may not check deadlock: the trace ends.

`CsimProofs` proves for every s > 0, E > 0, b, set of addresses and length of trace
- `TypeCorrect`, `NoDoubles`, `SearchByTag` from the invariant `Inv`: TypeOK,
  LinesDistinct, UnusedNeverMatch, and StampBound, which bounds the stamps by the lines
  read. LinesDistinct is not inductive alone: that the stamp 0 of a placed tag is new
  needs every other used line to be at least 1, which UnusedNeverMatch says;
- `MissesBalance`, misses less evictions are the used lines, on top of `Inv`;
- `ImplementsLru`: update does one of three things (`UpdateFacts`), a second update of
  the same address is a hit (`SecondHit`), every load, store or modify renews its tag
  (`AccessRenews`) as a hit, a fill or an eviction of `Lru`
  (`AccessIsLru`), and an I line uses nothing (`InstructionSkips`).
Assumed, besides the constants' types: s + b is at most the width of an address
(`GeometryAssumption`), s > 0 because the mask of update shifts by 32 - s, and that
powers of two are positive (`PowerAssumption`), as the provers have no exponentials.
What TLC adds: that the run reaches evictions, and the seeded faults are caught, eviction by age
instead of use and an L that falls through as M does.

## The bit puzzles and their harness

`Words` has the 32-bit words as sets of bits, with shifts and wrapping sums; a sum is
defined by its carries. `Bits` is the thirteen puzzles of `bits.c`, operation by
operation, and `BitsTests` the references of `tests.c`. There a finite float is the set
of the weights of its bits.

`Btest` is the harness: main's options, `test_set` of `decl.c`, gen_vals, the nested
loops of test_1_arg to test_3_arg, the alarm with its jump buffer, and the totals.

| Code | Definitions |
|---|---|
| main, get_num_val | OptionF, OptionR, OptionT, OptionArg, Start |
| run_tests | NextTest, Score, Done |
| gen_vals, random_val | gen_vals, FloatVals, SampledVals, arg_test_range, Generate |
| test_function | Generate, SetJmp, SetAlarm |
| test_0_arg to test_3_arg | Test, Next3, Agree |
| timeout_handler | Alarm |

The alarm of a test is not cancelled when the test returns. It is replaced by that of
the next test; if it goes off before, siglongjmp goes to a frame that is gone, and the
model ends in `undefined`, where anything may happen and nothing is promised.

The run `btest` has four values per region of a word, for which the array of test values
has just enough room, and every puzzle with up to two options (-f, -r, -T 0, -1 to -3)
and two alarms at any moment. The words given with -1 lie on both sides of every
boundary the puzzles have: the digits, the exponents where a power of two becomes
denormalized, zero or infinite, and the floats around 2^31. One random word stands for
random_val, which only adds values inside the range.

`ValuesFit`: gen_vals keeps within MAX_TEST_VALS. `VerdictHasReason`: a puzzle without
error was tried on every combination of values, one with an error has disagreed on the
one reported and on none before, unless an alarm went off. `TotalsAddUp`: the totals are
those of the puzzles tested, whatever timed out. `GapsAreExact`: the puzzles agree with
their references but for two gaps that no generated value meets: floatPower2 from -150
to -127, where the result is denormalized or rounds to zero, and floatFloat2Int of
floats from 2^31 up to 2^32, but for -2^31. The harness gives full marks and only -1
shows them.

`CheckerProofs` proves the first three for every TEST_RANGE, whatever the random words,
options and alarms:
- `ValuesAlwaysFit`. `PlaceInv` says where the harness is, that the puzzle tested is one
  that -f lets be tested, and that each argument has between one and MAX_TEST_VALS
  values. How many gen_vals makes is a matter of lengths: at most 12 words for each
  region of a float and 5 of an int, put together by FlattenSeq (`FlattenFacts` of
  `DataLemmas`), and four special floats;
- `VerdictsHaveReasons`. The loops range over a `Box` of indices. `VerdictInv`: until the
  verdict, those `Before` the present indices have been tried, each once, and agreed.
  `LoopStep` is one round of the nested loops: what is before the next indices is what
  was before the present ones, and these; and where no loop is open, that is all;
- `TotalsAlwaysAddUp`. `TotalsInv`: the puzzles from i on have no entry in the table yet,
  those before i have one if -f lets them be tested, and the totals are the sums over
  these. A sum of ratings is counted as a set of pairs (`RatingSum`), so that one more
  puzzle is a disjoint union.
Assumed: TEST_RANGE is at least 4 (`RoomAssumption`), as with fewer values for a region
the special floats would not fit; the code's is 500000.

## The transposes and their tests

`Trans` has the transposes of `trans.c` as sequences of copies of cells, in the order
in which the code loads and stores them, with an array's overrun of a row landing in the
next. The values of B are the places in A they came from. `TestTrans` is `test-trans.c`
with `tracegen.c` and `cachelab.c` for one test after the other as `driver.py` runs
them: tracegen for each function, the filter that reads trace.tmp and writes
trace.f\<i\>, csim-ref on that file, and the results. csim-ref is a binary; it is taken
to be the simulator of this repository (`INSTANCE Csim`).

| Code | Definitions |
|---|---|
| registerTransFunction, main | StartTest |
| system(tracegen), tracegen's main | StartTracegen, Tracegen, TracegenExits, TracegenKilled |
| initMatrix, correctTrans, validate | Stored, validate |
| eval_perf: status, filter, csim-ref, results | Evaluate, Filter, Kept, WithoutStack, Simulate, CsimFails, Collect |
| the summary of main, driver.py | PrintResults, Printed, computeMissScore, Score |
| sigalrm_handler | Alarm, OrphanEnds |

Faults: tracegen is killed, csim-ref fails, the alarm ends test-trans. `shell_execs`
says whether the shell of system() replaces itself by the command, as some do: then the
status of a killed child has no exit code, and the child outlives the alarm and writes
its file while the next test runs.

A test with a shape out of range, or one whose csim-ref has never left a .csim_results,
prints no line of results (`NoLine`). driver.py goes on with the next test all the same
and fails when it comes to the scores (phase "crashed").

`wrong` is history: which fault of the current test met which function. A killed tracegen
and a failing csim-ref are noted where they happen; an orphan of an earlier test is noted
if it overwrites .csim_results between the end of csim-ref and the reading. Before that
csim-ref overwrites what the orphan wrote.

The run `transposes` has the three tests of driver.py, the submission on 49 shapes with
sides from 1 to 33, all functions on shapes around the multiples of 8, 16 and 32, tests
with no line of results, and one or two tests with two or three kinds of faults, where
one function or three are registered, or two with the description of the submission.
Tracegen can be killed after 1, 6 and 20 parts of its trace, a part being a marker or a
run of an innermost loop: before the start marker and twice between the markers, so that
trace.f\<i\> is also left without an end marker. `Buffer` is the number of trace lines
that fill a buffer of stdio; of a file that is never closed csim-ref finds what was full.
csim-ref reads 32 lines in a step, as nothing looks at its cache in between. The addresses
are those of the trace files in the repository: the trace of the model for 61 x 67 is
`trace.f0` line by line, and its 1963 misses are those in `.csim_results`.

`RightShapes`: the submitted transpose and `trans` are right for every shape, the others
for the shapes of their fixed bounds, and validate tells. Of the others it is said only
if the matrix B has two rows of 8 or more (`Judged`): with M = 1 and N = 8 `transBlock`
stores behind the only row, and what it leaves in B happens to be right. `TraceIsExact`:
what csim-ref is given is the accesses of the function and nothing else, or, where
tracegen was killed and counts as correct all the same, the beginning of them.
`CreditIsEarned`: the results of a test are those of the last submitted function that was
accepted, and its misses are those of its own trace unless a fault of this test met that
function; a fault of an earlier test, or of another function, leaves them as they are.
With two functions that claim to be the submission this says what happens: results.correct
is never taken back, so the verdict is that of any of them, and the number is that of the
last one accepted. `SubmissionScores`: the repository's submission gets 0, 0 and 10 points
for 1169, 4639 and 1963 misses. After a fault that did meet the function the code has no
defence: a killed tracegen counts as correct where the shell does not report it, and after
a failing csim-ref the misses are whatever .csim_results held.

### Proofs of the transposes

`TestTransProofs` proves the first three for every session: any list of tests, any
functions of `trans.c` in any order and under any description, any kinds of faults, any
`Buffer`, any moment at which tracegen may be killed, any place of the arrays. The shapes
are those test-trans accepts, up to 256 x 256; a test of another shape ends at once.
- `TransposesWhatItSuits` (`RightShapes`). What each function copies is determined from
  the inside out: a row, a pair of rows, a block (`RowBlock`, `PairBlock`, `WideBlock`),
  the grid of the blocks (`GridParts`, `GridCovers`) and, for the submission, the two
  edges (`Tiled`). The result, `Covers`, is that the loops store the cells of a rectangle
  and no others: all of the matrix, or what the fixed bounds and the bounds that round up
  make of it (`RowsRead`, `ColumnsRead`). The invariant `MemoryKept` says that B holds
  what the loops written so far have stored last at each place. If the rectangle is too
  small, a place of B is still empty. If it is too wide, the rest is stored behind the
  matrix. If it is too high, rows of A that are not there land in B at the places of
  others, and which value stays depends on the order of the loops: `Overtaken` says that
  A[N][0] is stored after A[0][1], with which it shares its place, so that validate finds
  a wrong value there.
- `StaysInArrays`: whatever its shape, a function that leaves the matrix stays in the
  arrays of 256 x 256. No invariant of a run says this; the proof of the next one needs
  it, since an address outside could be that of a marker.
- `TraceIsThatOfTheFunction` (`TraceIsExact`), from `FilterKept`: after the call between
  the markers the filter has kept the header and the accesses of the loops read so far
  (`PartIs`). A part of the trace between the markers has no marker in it, so none of it
  is lost and the filter stays on; WithoutStack takes off what WithStack put in
  (`StackOut`). A tracegen that was not killed leaves a whole trace. Of a killed one
  the file holds the header and a beginning of the chain of the loops
  (`PartIs`, `ChainGrows`, `PartBegins`), cut where the last full buffer ends
  (`CutIsPrefix`).
- `CreditIsThatOfTheSubmission` (`CreditIsEarned`) needs all of these and two more.
  `SimulateKept`: after `pos` lines csim-ref has missed those that do not find the line
  before them in their set with the same tag, and each set has the tag of its last line
  (`After`, `HoldsLast`); at the end the misses are `DirectMisses` of the whole trace.
  So the cache simulator, as it is run here with one line per set, is shown to count what
  a definition without cache, stamps and counters counts. `ResultsKept`: the results,
  when some functions have been looked at, some of them decided and some counted
  (`ResultsAre`), are those of the last of the submitted ones that was accepted so far
  (`OneMoreAccepted`), and a fault names a function that has been reached, so that it
  changes nothing for those before (`FaultsAreLocal`, `ResultsMet`).

`Course`, under all of them, says that the test and the function exist and that the
shape was accepted. Assumed: the sessions are as described (`SessionAssumption`), and
arrays, variables and markers lie where the filter can tell them apart
(`AddressAssumption`), which TLC checks for the addresses of the repository's tracegen.

## Fairness

Stated only for the shell, above. That the driver ends is shown by a measure
(`Finishes`). The driver, the harness of the puzzles and the transposes stutter only
where the process is over, so that the check for deadlock shows that they stop nowhere
else.

## Only model-checked

- Liveness of the shell (`ChangesNoticed`, `CommandsReturn`): the prover has no
  fairness.
- The puzzles (`GapsAreExact`): that two circuits of 32 bits agree is a matter of cases,
  and the references recurse over the bits.
- The scores of the submission (`SubmissionScores`): numbers that come from simulating
  three traces. That the misses are those of the traces, whatever they are, is proved.

## Assumptions of the models

- mm.c keeps pointers in 32 bits while the Makefile builds with -m64: the models assume
  an arena below 4 GB. mem_sbrk takes an int, so a request of 2 GB or more is cut to its
  low bits; sizes are small here.
- csim.c with s = 0 shifts by 32 bits, which C leaves undefined: s > 0.
- The interval timer of ftimer.c differs from gettimeofday only in the clock.
- tlapm, TLC and the library's theorems on finite sets and well-founded orders.

## Not modelled

- `bomb` and `target1`: binaries and listings, with C files that only call into them.
- The shell lab's Perl driver, which feeds trace files to a pipe, and its test programs,
  which the action `Program` covers.
- The binaries `csim-ref` and `test-csim` of the cache lab, and `dlc` and the checker of
  the data lab; `fshow.c`, `ishow.c` and `driver.pl` only print or run them.
- In the timing library: clearing the cache and the clock rate, which change no
  property.
- Text: command lines, messages, formats, verbose output.
