------------------------------- MODULE Mdriver -------------------------------
(***************************************************************************)
(* main of mdriver.c: every trace file is read, run once to check the      *)
(* allocator, once to measure its space utilization, and again and again   *)
(* for its speed.  Each run begins with mm_init, which takes another arena *)
(* from malloc; none is ever given back.  With -l the C library's          *)
(* allocator is run on the files first.                                    *)
(***************************************************************************)
EXTENDS MallocDriver, Fcyc

CONSTANTS TraceFiles,  \* what a trace file may hold: header and requests
          Files,       \* num_tracefiles
          RUNS,        \* calls that ftimer_gettod averages
          ARENAS       \* arenas of MAX_HEAP that malloc can provide

ASSUME FilesAssumption == Files \in Nat \ {0} /\ RUNS \in Nat \ {0} /\ ARENAS \in Nat \ {0}

VARIABLES
  phase,    \* the point main is at; abort, overrun and exit end the program
  libc,     \* -l, until the C library's allocator has been run
  timing,   \* USE_FCYC or USE_GETTOD
  trace,    \* the file just read
  file, op, \* its number, and how many of its requests are done
  stats,    \* mm_stats, by file
  errors, perfidx,
  total_size, max_total_size,
  runs,     \* calls made by ftimer_gettod
  arenas,         \* calls of mem_init that got an arena
  answers, again  \* the pointers of the checked run, and of the last one

main_vars == <<phase, libc, timing, trace, file, op, stats, errors, perfidx,
               total_size, max_total_size, runs, arenas, answers, again>>
driver_vars == <<vars, fcyc_vars, main_vars>>

\* traceop_t; what a request to free says of a size is not read.
Requests == [type : {"a", "r"}, index : Indices, size : Sizes]
            \cup [type : {"f"}, index : Indices, size : {0}]

ASSUME TraceFilesAssumption ==
  TraceFiles \subseteq [num_ids : Nat, num_ops : Nat, ops : Seq(Requests)]

NoStats == [valid |-> FALSE, hwm |-> 0, heapsize |-> 0]

\* A legal trace uses an index as a client would: it allocates what it does not
\* hold, and reallocates and frees what it does.
Legal(ops) ==
  \A k \in DOMAIN ops :
    LET before == {j \in 1 .. k - 1 : ops[j].index = ops[k].index}
        held   == before # {} /\ ops[Max(before)].type # "f"
    IN  ops[k].type = "a" <=> ~held

ASSUME LegalAssumption == \A f \in TraceFiles : Legal(f.ops)

DriverInit ==
  /\ mem = [p \in 0 .. MAX_HEAP - 1 |-> 0] /\ brk = 0
  /\ ranges = <<>> /\ blocks = [i \in Indices |-> Unused] /\ verdict = "ok"
  /\ FcycInit
  /\ phase = "read" /\ libc \in BOOLEAN /\ timing \in {"fcyc", "gettod"}
  /\ trace \in TraceFiles /\ file = 1 /\ op = 0
  /\ stats = [i \in 1 .. Files |-> NoStats]
  /\ errors = 0 /\ perfidx = "none"
  /\ total_size = 0 /\ max_total_size = 0 /\ runs = 0
  /\ arenas = (IF libc THEN 0 ELSE 1)  \* main calls mem_init after -l
  /\ answers = <<>> /\ again = <<>>

\* Seeded fault: only the first run of all begins on a new heap.
NewHeap_fault(next) ==
  /\ phase' = next
  /\ arenas' = Max({1, arenas})
  /\ LET h == IF brk = 0 THEN mm_init([p \in 0 .. MAX_HEAP - 1 |-> 0]) ELSE heap
     IN  mem' = h.mem /\ brk' = h.brk

\* mem_init and mm_init.  Whatever the arena holds comes from malloc.
NewHeap(next) ==
  IF arenas = ARENAS THEN phase' = "exit" /\ UNCHANGED <<mem, brk, arenas>>
  ELSE /\ phase' = next
       /\ arenas' = arenas + 1
       /\ \E h \in {mm_init([p \in 0 .. MAX_HEAP - 1 |-> word]) : word \in {0, 999}} :
            mem' = h.mem /\ brk' = h.brk

max_index == Max({0} \cup {trace.ops[k].index : k \in
                            {j \in DOMAIN trace.ops : trace.ops[j].type # "f"}})

\* The assertions at the end of read_trace.
Consistent == max_index = trace.num_ids - 1 /\ trace.num_ops = Len(trace.ops)

\* read_trace stores the requests before it compares their number.
read_trace ==
  /\ phase = "read"
  /\ trace' \in TraceFiles
  /\ phase' = IF Len(trace'.ops) > trace'.num_ops THEN "overrun"
              ELSE IF ~Consistent' THEN "abort"
              ELSE IF libc THEN "libc_valid" ELSE "valid"
  /\ op' = 0
  /\ UNCHANGED <<vars, fcyc_vars, libc, timing, file, stats, errors, perfidx,
                 total_size, max_total_size, runs, arenas, answers, again>>

\* eval_libc_valid: a request the library refuses ends the program.
eval_libc_valid ==
  /\ phase = "libc_valid"
  /\ \/ phase' = "speed" /\ UNCHANGED errors
     \/ phase' = "exit" /\ errors' = errors + 1
  /\ UNCHANGED <<vars, fcyc_vars, libc, timing, trace, file, op, stats, perfidx,
                 total_size, max_total_size, runs, arenas, answers, again>>

\* The head of eval_mm_valid.
StartValid ==
  /\ phase = "valid" /\ op = 0 /\ answers = <<>>
  /\ NewHeap("checking")
  /\ ranges' = <<>> /\ blocks' = [i \in Indices |-> Unused] /\ verdict' = "ok"
  /\ UNCHANGED <<fcyc_vars, libc, timing, trace, file, op, stats, errors, perfidx,
                 total_size, max_total_size, runs, answers, again>>

\* The allocator's answer to a request.
Request(h, ptr, o) ==
  CASE o.type = "a" -> mm_malloc(h, o.size)
    [] o.type = "r" -> mm_realloc(h, ptr[o.index], o.size)
    [] o.type = "f" -> [bp |-> 0, heap |-> mm_free(h, ptr[o.index])]

Refused(o, r) == o.type # "f" /\ r.bp = 0

Pointers == [i \in Indices |-> blocks[i].ptr]

\* A request of the checked run.
ValidOp ==
  /\ phase = "checking" /\ verdict = "ok" /\ op < trace.num_ops
  /\ LET o == trace.ops[op + 1]
     IN  /\ \/ o.type = "a" /\ Alloc(o.index, o.size)
            \/ o.type = "r" /\ Realloc(o.index, o.size)
            \/ o.type = "f" /\ Dealloc(o.index)
         /\ answers' = Append(answers, IF o.type = "f" THEN 0 ELSE blocks'[o.index].ptr)
  /\ op' = op + 1
  /\ UNCHANGED <<fcyc_vars, phase, libc, timing, trace, file, stats, errors, perfidx,
                 total_size, max_total_size, runs, arenas, again>>

\* The first error ends the check; every one is reported with malloc_error.
ValidDone ==
  /\ phase = "checking" /\ (verdict # "ok" \/ op = trace.num_ops)
  /\ errors' = IF verdict = "ok" THEN errors ELSE errors + 1
  /\ stats' = [stats EXCEPT ![file].valid = verdict = "ok"]
  /\ phase' = IF verdict = "ok" THEN "util" ELSE "free"
  /\ op' = 0
  /\ UNCHANGED <<vars, fcyc_vars, libc, timing, trace, file, perfidx,
                 total_size, max_total_size, runs, arenas, answers, again>>

\* eval_mm_util.
StartUtil ==
  /\ phase = "util"
  /\ NewHeap("utilizing")
  /\ total_size' = 0 /\ max_total_size' = 0 /\ again' = <<>>
  /\ UNCHANGED <<ranges, blocks, verdict, fcyc_vars, libc, timing, trace, file, op,
                 stats, errors, perfidx, runs, answers>>

\* Bytes a request adds to those the client holds.  Seeded fault: realloc
\* counts its new size and forgets the old one.
Grown_fault(o) == IF o.type = "f" THEN -blocks[o.index].size ELSE o.size

Grown(o) == CASE o.type = "a" -> o.size
              [] o.type = "r" -> o.size - blocks[o.index].size
              [] o.type = "f" -> -blocks[o.index].size

\* The next request of the trace, with the pointers this run was given.
Replay(o) ==
  \E r \in {Request(heap, Pointers, o)} :
    IF Refused(o, r)
    THEN phase' = "exit" /\ UNCHANGED <<mem, brk, blocks, again, op>>
    ELSE /\ mem' = r.heap.mem /\ brk' = r.heap.brk
         /\ blocks' = IF o.type = "f" THEN blocks
                      ELSE [blocks EXCEPT ![o.index] = [ptr |-> r.bp, size |-> o.size]]
         /\ again' = Append(again, r.bp)
         /\ op' = op + 1
         /\ UNCHANGED phase

UtilOp ==
  /\ phase = "utilizing" /\ op < trace.num_ops
  /\ LET o == trace.ops[op + 1]
     IN  /\ Replay(o)
         /\ IF phase' = "exit" THEN UNCHANGED <<total_size, max_total_size>>
            ELSE /\ total_size' = total_size + Grown(o)
                 /\ max_total_size' = Max({max_total_size, total_size'})
  /\ UNCHANGED <<ranges, verdict, fcyc_vars, libc, timing, trace, file, stats, errors,
                 perfidx, runs, arenas, answers>>

UtilDone ==
  /\ phase = "utilizing" /\ op = trace.num_ops
  /\ stats' = [stats EXCEPT ![file].hwm = max_total_size, ![file].heapsize = 4 * brk]
  /\ phase' = "speed"
  /\ UNCHANGED <<vars, fcyc_vars, libc, timing, trace, file, op, errors, perfidx,
                 total_size, max_total_size, runs, arenas, answers, again>>

\* The call that is timed: eval_libc_speed may end the program, eval_mm_speed
\* makes a new heap and runs the whole trace.
Timed ==
  IF libc
  THEN (phase' = "exit" \/ UNCHANGED phase) /\ UNCHANGED <<mem, brk, arenas, op, again>>
  ELSE NewHeap("speeding") /\ op' = 0 /\ again' = <<>>

\* The sizes in the trace stay; Replay stores those that UtilOp has stored last.
eval_mm_speed ==
  /\ phase = "speeding"
  /\ \/ op < trace.num_ops /\ Replay(trace.ops[op + 1])
     \/ op = trace.num_ops /\ phase' = "speed" /\ UNCHANGED <<mem, brk, blocks, again, op>>
  /\ UNCHANGED <<ranges, verdict, fcyc_vars, libc, timing, trace, file, stats, errors,
                 perfidx, total_size, max_total_size, runs, arenas, answers>>

\* fsecs with USE_FCYC: the function is called from fcyc's loop.
SpeedFcyc ==
  /\ phase = "speed" /\ timing = "fcyc"
  /\ \/ /\ \/ \E t \in Starts : Begin(t)
           \/ StartCallibrate
           \/ \E slack \in 0 .. THRESHOLD, inside \in BOOLEAN : CallibrateEvent(slack, inside)
           \/ \E late \in Between : Add(late)
        /\ UNCHANGED <<phase, mem, brk, arenas, op, again>>
     \/ /\ \E cycles \in Durations, n \in 0 .. MaxTicks, early \in Between :
             Call(cycles, n, early)
        /\ Timed
     \/ /\ Return
        /\ phase' = "free" /\ UNCHANGED <<mem, brk, arenas, op, again>>
  /\ UNCHANGED <<ranges, blocks, verdict, libc, timing, trace, file, stats, errors,
                 perfidx, total_size, max_total_size, runs, answers>>

\* Seeded fault: one call too many.
SpeedGettod_fault ==
  /\ phase = "speed" /\ timing = "gettod"
  /\ IF runs <= RUNS THEN runs' = runs + 1 /\ Timed
     ELSE /\ runs' = 0 /\ phase' = "free"
          /\ UNCHANGED <<mem, brk, arenas, op, again>>
  /\ UNCHANGED <<ranges, blocks, verdict, fcyc_vars, libc, timing, trace, file, stats,
                 errors, perfidx, total_size, max_total_size, answers>>

\* fsecs with USE_GETTOD: the average of RUNS calls.
SpeedGettod ==
  /\ phase = "speed" /\ timing = "gettod"
  /\ IF runs < RUNS THEN runs' = runs + 1 /\ Timed
     ELSE /\ runs' = 0 /\ phase' = "free"
          /\ UNCHANGED <<mem, brk, arenas, op, again>>
  /\ UNCHANGED <<ranges, blocks, verdict, fcyc_vars, libc, timing, trace, file, stats,
                 errors, perfidx, total_size, max_total_size, answers>>

\* Seeded fault: there is one more file than there is.
free_trace_fault ==
  /\ phase = "free"
  /\ op' = 0 /\ answers' = <<>> /\ again' = <<>>
  /\ total_size' = 0 /\ max_total_size' = 0
  /\ IF file <= Files THEN file' = file + 1 /\ phase' = "read" /\ UNCHANGED <<libc, arenas>>
     ELSE IF libc THEN file' = 1 /\ phase' = "read" /\ libc' = FALSE /\ arenas' = 1
     ELSE phase' = "score" /\ UNCHANGED <<file, libc, arenas>>
  /\ UNCHANGED <<vars, fcyc_vars, timing, trace, stats, errors, perfidx, runs>>

\* free_trace, and on to the next file.  The locals of the evaluation are forgotten.
free_trace ==
  /\ phase = "free"
  /\ op' = 0 /\ answers' = <<>> /\ again' = <<>>
  /\ total_size' = 0 /\ max_total_size' = 0
  /\ IF file < Files THEN file' = file + 1 /\ phase' = "read" /\ UNCHANGED <<libc, arenas>>
     ELSE IF libc THEN file' = 1 /\ phase' = "read" /\ libc' = FALSE /\ arenas' = 1
     ELSE phase' = "score" /\ UNCHANGED <<file, libc, arenas>>
  /\ UNCHANGED <<vars, fcyc_vars, timing, trace, stats, errors, perfidx, runs>>

\* The end of main: a performance index only when there was no error.
Score ==
  /\ phase = "score" /\ phase' = "done"
  /\ perfidx' = IF errors = 0 THEN "index" ELSE "errors"
  /\ UNCHANGED <<vars, fcyc_vars, libc, timing, trace, file, op, stats, errors,
                 total_size, max_total_size, runs, arenas, answers, again>>

\* The process has ended; only here does the driver stop.
Over == phase \in {"done", "abort", "overrun", "exit"}

DriverNext == \/ read_trace \/ eval_libc_valid
              \/ StartValid \/ ValidOp \/ ValidDone
              \/ StartUtil \/ UtilOp \/ UtilDone
              \/ SpeedFcyc \/ SpeedGettod \/ eval_mm_speed
              \/ free_trace \/ Score
              \/ Over /\ UNCHANGED driver_vars

DriverSpec == DriverInit /\ [][DriverNext]_driver_vars
-----------------------------------------------------------------------------
DriverTypeOK ==
  /\ phase \in {"read", "libc_valid", "valid", "checking", "util", "utilizing", "speed",
                "speeding", "free", "score", "done", "abort", "overrun", "exit"}
  /\ file \in 1 .. Files /\ op \in 0 .. Len(trace.ops)
  /\ errors \in 0 .. Files + 1 /\ runs \in 0 .. RUNS
  /\ total_size \in Nat /\ max_total_size \in Nat
  /\ blocks \in [Indices -> [ptr : 0 .. MAX_HEAP - 1, size : Sizes \cup {0}]]

(* Every run of a trace repeats the checked one: whatever the arena of    *)
(* that run holds, mm_init makes a heap that gives each request the        *)
(* pointer it was given when the trace was checked.  So the app_errors of  *)
(* eval_mm_util and eval_mm_speed are never reached: only the C library,   *)
(* or an arena it cannot provide, ends the driver early.                   *)
ReplaysAgree ==
  /\ phase = "exit" => libc \/ arenas = ARENAS
  /\ phase \in {"utilizing", "speeding"} => again = SubSeq(answers, 1, op)
  /\ phase \in {"speed", "free"} /\ op > 0 => again = answers

(* The driver keeps within its bounds.  mm_init's arenas are never freed:  *)
(* a trace costs one for each of the two evaluations and one for each call *)
(* that is timed, and no more than that.                                   *)
ArenasCounted ==
  LET calls == IF timing = "fcyc" THEN Max({1, MAXSAMPLES}) ELSE RUNS
  IN  /\ FcycTypeOK /\ DriverTypeOK
      /\ arenas <= 1 + file * (2 + calls)
      /\ phase = "done" /\ timing = "gettod" =>
           arenas = 1 + Files + (1 + RUNS) * Cardinality({i \in 1 .. Files : stats[i].valid})

\* Bytes that a client holds after k requests of a trace, for an index and in all.
SizeHeld(ops, k, i) ==
  LET last == Max({0} \cup {j \in 1 .. k : ops[j].index = i})
  IN  IF last = 0 \/ ops[last].type = "f" THEN 0 ELSE ops[last].size
HeldBytes(ops, k) == Cardinality(UNION {{i} \X (1 .. SizeHeld(ops, k, i)) : i \in Indices})

(* The report is earned.  hwm is the largest number of bytes held at any   *)
(* time of the trace, through shrinking and growing reallocs, and the heap *)
(* has never less, so that the utilization is at most 1.  Each trace the   *)
(* allocator fails is one error, and a performance index is printed only   *)
(* when every trace was valid, measured on all of them.                    *)
ReportIsEarned ==
  /\ phase = "utilizing" =>
       max_total_size = Max({HeldBytes(trace.ops, k) : k \in 0 .. op})
  /\ \A i \in 1 .. Files : /\ stats[i].hwm <= stats[i].heapsize
                           /\ stats[i].heapsize > 0 => stats[i].valid
  /\ phase = "done" =>
       /\ errors = Cardinality({i \in 1 .. Files : ~stats[i].valid})
       /\ perfidx = "index" <=> \A i \in 1 .. Files : stats[i].valid

\* What is left to do, in decreasing order of weight: files, the steps of main for
\* each, calls to time, the steps of fcyc for each, requests.
Left ==
  LET main  == <<"read", "libc_valid", "valid", "checking", "util", "utilizing",
                 "speed", "free", "score">>
      fcyc  == <<"idle", "start", "callibrate", "timed", "stop", "done">>
      from(steps, at) == Len(steps) + 1 - Min({k \in DOMAIN steps : steps[k] = at})
      inner == phase = "speeding"
  IN  <<Files - file + (IF libc THEN Files ELSE 0),
        IF Over THEN 0 ELSE from(main, IF inner THEN "speed" ELSE phase),
        RUNS - runs + Max({1, MAXSAMPLES}) - samplecount,
        from(fcyc, stage), NEVENT - e,
        Len(trace.ops) - op, IF inner THEN 1 ELSE 0>>

(* Whatever the traces and the samples, the driver ends: every step of it  *)
(* leaves less to do, and it stops (the check for deadlock) only when over.*)
(* fcyc's loop that waits for samples to agree and main's return to the    *)
(* first file after -l are what could run for ever.                        *)
Finishes ==
  [][/\ \A k \in DOMAIN Left : Left'[k] >= 0
     /\ \E k \in DOMAIN Left : /\ Left'[k] < Left[k]
                             /\ \A j \in 1 .. k - 1 : Left'[j] = Left[j]]_driver_vars
=============================================================================
