------------------------------ MODULE TestTrans ------------------------------
(***************************************************************************)
(* The evaluation of the transposes.  driver.py runs test-trans on one     *)
(* shape after the other; test-trans runs each registered function in a    *)
(* process of its own, tracegen under valgrind, cuts the function's own    *)
(* accesses out of the trace and has csim-ref count their misses.  They    *)
(* communicate by files and exit codes, and an alarm ends test-trans.      *)
(***************************************************************************)
EXTENDS Trans

CONSTANTS Sessions,      \* what is run, see below
          Buffer,        \* trace lines in a buffer of stdio
          KillAt,        \* model bound: lengths of trace at which tracegen may be killed
          A, B, M_addr, N_addr, func_list_addr, MARKER_START, MARKER_END

MAXN == 256
INT_MAX == 2147483647
SUBMIT_DESCRIPTION == "Transpose submission"
Faults == {"alarm", "kill", "csim"}
Nothing == -1  \* no file, no function
NoLine == <<>>  \* what is left of a test that ends without a line of results

Test == [M : Nat, N : Nat, lower : Nat, upper : Nat, maxscore : Nat]

\* tests: the shapes, with the misses for full and for no credit; func_list: what
\* registerFunctions registers; shell_execs: whether sh replaces itself by its last
\* command; old_results: the misses a .csim_results of earlier days holds; faults:
\* model bound, how many kinds may happen.
ASSUME SessionAssumption ==
  /\ \A x \in Sessions : /\ x.tests \in Seq(Test) /\ x.tests # <<>>
                         /\ x.faults \in Nat /\ x.shell_execs \in BOOLEAN
                         /\ x.old_results \in Nat \cup {Nothing}
                         /\ x.func_list \in Seq([func : Registered, description : STRING])
  /\ Buffer \in Nat \ {0} /\ KillAt \subseteq Nat

\* Distinct objects in memory: what the filter tells apart has different addresses.
Array(base) == base .. base + 4 * MAXN * MAXN - 1

ASSUME AddressAssumption ==
  /\ {A, B, M_addr, N_addr, func_list_addr, MARKER_START, MARKER_END} \subseteq Nat
  /\ {M_addr, N_addr, func_list_addr, MARKER_START, MARKER_END} \cap (Array(A) \cup Array(B)) = {}
  /\ {M_addr, N_addr, func_list_addr} \cap {MARKER_START, MARKER_END} = {}
  /\ MARKER_START # MARKER_END

VARIABLES
  session,              \* what is run
  t, outputs,           \* driver.py: the current test and what was printed for those before
  points,               \* the scores in tenths
  phase, i, results,    \* test-trans: step, function, and the static struct
  traced, memory,       \* tracegen: parts of trace.tmp written, the matrix B
  read, flag, part,     \* the filter: parts read, between the markers or not, trace.f<i>
  sim, pos,             \* csim-ref: cache and counters, lines of trace.f<i> read
  csim_results,         \* the misses in .csim_results
  orphan, late,         \* child left by a test-trans that timed out, and what it will write
  faults,               \* kinds of faults so far: model bound
  wrong                 \* history: the faults of this test, and the functions they met

driver_vars == <<session, t, outputs, points>>
file_vars == <<memory, read, flag, part, sim, pos>>
fault_vars == <<orphan, late, faults, wrong>>
harness_vars ==
  <<driver_vars, phase, i, results, traced, file_vars, csim_results, fault_vars>>

\* csim-ref is only there as a binary: it is taken to be the cache of csim.c with
\* -s 5 -E 1 -b 5.  All addresses of the trace fit in 24 bits.
Ref == INSTANCE Csim WITH
  s <- 5, E <- 1, b <- 5, AddrBits <- 24, Addresses <- {}, MaxLines <- 0,
  cache <- sim.cache, number_hits <- sim.hits, number_miss <- sim.miss,
  number_eviction <- sim.eviction, lines <- 0, used <- <<>>

test == session.tests[t]
func == session.func_list[i].func

-----------------------------------------------------------------------------
\* The trace of tracegen: the address of each line, in parts.  Stack is any address
\* above 32 bits: where -O0 keeps the variables of the functions.
Stack == -1
AddrA(M, cell) == A + 4 * InA(M, cell)
AddrB(N, cell) == B + 4 * InB(N, cell)

Accesses(M, N, copies) ==
  Nested(copies, LAMBDA c : Each(c.loads, LAMBDA x : AddrA(M, x))
                              \o Each(c.stores, LAMBDA x : AddrB(N, x)))

WithStack(addrs) == [n \in 1 .. 2 * Len(addrs) |-> IF n % 2 = 1 THEN Stack ELSE addrs[n \div 2]]

\* initMatrix; the call between the markers; validate.
Prologue == <<Stack, A, Stack, B>>
Call == <<MARKER_START, func_list_addr, N_addr, M_addr, Stack>>
Return == <<Stack, MARKER_END>>
Epilogue == <<Stack, A, B>>

\* What may run, and its innermost loops.
Programs == UNION {{<<x.func_list[f].func, x.tests[n].M, x.tests[n].N>> :
                      f \in DOMAIN x.func_list, n \in DOMAIN x.tests} : x \in Sessions}
Loops == [p \in Programs |-> Transposed(p[1], p[2], p[3])]

TracePart(M, N, loops, n) ==
  IF n = 1 THEN Prologue
  ELSE IF n = 2 THEN Call
  ELSE IF n <= Len(loops) + 2 THEN WithStack(Accesses(M, N, loops[n - 2]))
  ELSE IF n = Len(loops) + 3 THEN Return
  ELSE Epilogue

\* The one that runs now.
loops_now == Loops[<<func, test.M, test.N>>]
TraceLength == Len(loops_now) + 4

TestTransInit ==
  /\ session \in Sessions
  /\ t = 1 /\ outputs = <<>> /\ points = <<>>
  /\ phase = "begin" /\ i = 1 /\ traced = 0
  /\ results = [funcid |-> Nothing, correct |-> 0, misses |-> INT_MAX]
  /\ memory = <<>> /\ read = 0 /\ flag = FALSE /\ part = <<>> /\ sim = <<>> /\ pos = 0
  /\ csim_results = session.old_results
  /\ orphan = "none" /\ late = Nothing /\ faults = {} /\ wrong = {}

\* The end of a test: driver.py keeps its line of results and goes on to the next one.
Printed(output) ==
  /\ outputs' = Append(outputs, output)
  /\ IF t = Len(session.tests) THEN phase' = "score" /\ UNCHANGED t
     ELSE phase' = "begin" /\ t' = t + 1
  /\ UNCHANGED <<session, points>>

\* main up to eval_perf.
StartTest ==
  /\ phase = "begin"
  /\ IF test.M = 0 \/ test.N = 0 \/ test.M > MAXN \/ test.N > MAXN THEN Printed(NoLine)
     ELSE phase' = "next" /\ UNCHANGED driver_vars
  /\ i' = 1 /\ results' = [funcid |-> Nothing, correct |-> 0, misses |-> INT_MAX]
  /\ wrong' = {}
  /\ UNCHANGED <<traced, file_vars, csim_results, orphan, late, faults>>

\* The loop of eval_perf: system(tracegen -F i).  Two programs that write trace.tmp
\* at a time leave no file one could describe.
StartTracegen ==
  /\ phase = "next" /\ i <= Len(session.func_list)
  /\ phase' = IF orphan = "tracegen" THEN "undefined" ELSE "trace"
  /\ results' = IF session.func_list[i].description = SUBMIT_DESCRIPTION
                THEN [results EXCEPT !.funcid = i] ELSE results
  /\ traced' = 0 /\ memory' = [p \in 0 .. test.M * test.N - 1 |-> Nothing]
  /\ UNCHANGED <<driver_vars, i, read, flag, part, sim, pos, csim_results, fault_vars>>

Tracegen ==
  /\ phase = "trace" /\ traced < TraceLength /\ traced' = traced + 1
  /\ memory' = IF traced' \in 3 .. Len(loops_now) + 2
               THEN Stored(memory, loops_now[traced' - 2], test.M, test.N) ELSE memory
  /\ UNCHANGED <<driver_vars, phase, i, results, read, flag, part, sim, pos, csim_results,
                 fault_vars>>

\* After system: with exit code 0 the function counts as correct.
Evaluate(code) ==
  /\ memory' = <<>>
  /\ IF code = 0
     THEN /\ phase' = "filter" /\ UNCHANGED i
          /\ results' = IF results.funcid = i THEN [results EXCEPT !.correct = 1] ELSE results
     ELSE phase' = "next" /\ i' = i + 1 /\ UNCHANGED results
  /\ read' = 0 /\ flag' = FALSE /\ part' = <<>>
  /\ UNCHANGED <<driver_vars, traced, sim, pos, csim_results>>

TracegenExits ==
  /\ phase = "trace" /\ traced = TraceLength
  /\ Evaluate(IF validate(memory, test.M, test.N) THEN 0 ELSE i)
  /\ UNCHANGED fault_vars

Fault(kind) == /\ Cardinality(faults \cup {kind}) <= session.faults
               /\ faults' = faults \cup {kind}

\* A signal ends tracegen.  WEXITSTATUS is 128 and more if a shell is there to say
\* so, and 0 if the shell has become the program that the signal killed.
TracegenKilled ==
  /\ phase = "trace" /\ traced \in KillAt /\ traced < TraceLength /\ Fault("kill")
  /\ Evaluate(IF session.shell_execs THEN 0 ELSE 139)
  /\ wrong' = wrong \cup {<<"kill", i>>}
  /\ UNCHANGED <<orphan, late>>

\* Seeded fault: the stack is not left out.
Kept_fault(lines, on) ==
  LET starts == {n \in DOMAIN lines : lines[n] = MARKER_START}
      ends   == {n \in DOMAIN lines : lines[n] = MARKER_END}
  IN  SubSeq(lines, IF on THEN 1 ELSE Min(starts \cup {Len(lines) + 1}),
                    Min(ends \cup {Len(lines)}))

WithoutStack(lines) ==
  FlattenSeq([n \in DOMAIN lines |-> IF lines[n] = Stack THEN <<>> ELSE <<lines[n]>>])

\* The lines kept: from the start marker to the end marker, without the stack.
Kept(lines, on) ==
  LET starts == {n \in DOMAIN lines : lines[n] = MARKER_START}
      ends   == {n \in DOMAIN lines : lines[n] = MARKER_END}
  IN  WithoutStack(SubSeq(lines, IF on THEN 1 ELSE Min(starts \cup {Len(lines) + 1}),
                                 Min(ends \cup {Len(lines)})))

\* A part of trace.tmp is read.  At its end without an end marker trace.f<i> is not
\* closed: csim-ref finds no more than the buffers that were full.
Filter ==
  LET lines == TracePart(test.M, test.N, loops_now, read + 1)
      all   == part \o Kept(lines, flag)
  IN  /\ phase = "filter" /\ read' = read + 1
      /\ flag' = ((flag \/ MARKER_START \in ToSet(lines)) /\ MARKER_END \notin ToSet(lines))
      /\ IF MARKER_END \in ToSet(lines) THEN part' = all /\ phase' = "simulate"
         ELSE IF read' < traced THEN part' = all /\ UNCHANGED phase
         ELSE part' = SubSeq(all, 1, Buffer * (Len(all) \div Buffer)) /\ phase' = "simulate"
      /\ sim' = IF phase' = "simulate"
                THEN Ref!State([x \in Ref!Sets |-> [y \in Ref!Ways |->
                       [valid_bit |-> FALSE, tag |-> -1, stamp |-> -1]]], 0, 0, 0)
                ELSE sim
      /\ pos' = 0
      /\ UNCHANGED <<driver_vars, i, results, traced, memory, csim_results, fault_vars>>

\* One line of a trace.  The choice from one value has c and u evaluated once.
TraceLine(c, a) ==
  LET timed(u) == [u EXCEPT !.cache = Ref!update_time(u.cache)]
  IN  CHOOSE v \in {timed(u) : u \in {Ref!update(x, a) : x \in {c}}} : TRUE

\* csim-ref reads some lines, and prints its summary after the last.
Chunk == 32
Simulate ==
  LET upto == Min({pos + Chunk, Len(part)})
      after[n \in pos .. upto] == IF n = pos THEN sim ELSE TraceLine(after[n - 1], part[n])
  IN  /\ phase = "simulate"
      /\ sim' = after[upto] /\ pos' = upto
      /\ IF upto = Len(part) THEN phase' = "collect" /\ csim_results' = sim'.miss
         ELSE UNCHANGED <<phase, csim_results>>
      /\ UNCHANGED <<driver_vars, i, results, traced, memory, read, flag, part, fault_vars>>

\* Nobody looks at how csim-ref ended.
CsimFails ==
  /\ phase = "simulate" /\ Fault("csim") /\ phase' = "collect"
  /\ wrong' = wrong \cup {<<"csim", i>>}
  /\ UNCHANGED <<driver_vars, i, results, traced, file_vars, csim_results, orphan, late>>

Forgotten == read' = 0 /\ flag' = FALSE /\ part' = <<>> /\ sim' = <<>> /\ pos' = 0

\* Seeded fault: the misses of any function are recorded.
Collect_fault ==
  /\ phase = "collect" /\ Forgotten
  /\ phase' = "next" /\ i' = i + 1 /\ results' = [results EXCEPT !.misses = csim_results]
  /\ UNCHANGED <<driver_vars, traced, memory, csim_results, fault_vars>>

\* Without a .csim_results the assertion ends test-trans.
Collect ==
  /\ phase = "collect" /\ Forgotten
  /\ IF csim_results = Nothing THEN Printed(NoLine) /\ UNCHANGED <<i, results>>
     ELSE /\ phase' = "next" /\ i' = i + 1 /\ UNCHANGED driver_vars
          /\ results' = IF results.funcid = i THEN [results EXCEPT !.misses = csim_results]
                        ELSE results
  /\ UNCHANGED <<traced, memory, csim_results, fault_vars>>

\* Misses of a direct mapped cache: a line of the trace is missed unless the one before
\* it in its set has the same tag.  An orphan ends with them as csim-ref does:
\* CreditIsEarned holds the two against each other.
DirectMisses(addrs) ==
  LET missed(own) ==
        {n \in own : ~\E m \in own : /\ m < n /\ \A k \in own : k <= m \/ k >= n
                                     /\ Ref!TagOf(addrs[m]) = Ref!TagOf(addrs[n])}
      in_set(x) == {n \in DOMAIN addrs : Ref!SetOf(addrs[n]) = x}
  IN  Cardinality(UNION {missed(in_set(x)) : x \in Ref!Sets})

PrintResults ==
  /\ phase = "next" /\ i > Len(session.func_list)
  /\ Printed(IF results.funcid = Nothing THEN <<0, 0>> ELSE <<results.correct, results.misses>>)
  /\ UNCHANGED <<i, results, traced, file_vars, csim_results, fault_vars>>

\* sigalrm_handler.  The child that system waits for goes on.  If a shell waits for it,
\* that shell keeps the pipe to driver.py open, and the next test begins afterwards.
\* What follows is the same wherever csim-ref is: it is met at its first line.
Alarm ==
  LET child == CASE phase = "trace" -> "tracegen" [] phase = "simulate" -> "csim"
                 [] OTHER -> "none"
      written == DirectMisses(part)
  IN  /\ phase \in {"next", "trace", "filter", "simulate", "collect"}
      /\ (phase = "simulate" => pos = 0)
      /\ orphan = "none" /\ Fault("alarm") /\ Printed(<<0, 0>>)
      /\ orphan' = IF session.shell_execs THEN child ELSE "none"
      /\ late' = IF session.shell_execs /\ child = "csim" THEN written ELSE Nothing
      /\ csim_results' = IF ~session.shell_execs /\ child = "csim" THEN written ELSE csim_results
      /\ i' = 1 /\ traced' = 0 /\ memory' = <<>> /\ Forgotten
      /\ UNCHANGED <<results, wrong>>

\* What the orphan writes counts if it comes between the end of csim-ref and its reader.
\* Its number may be another one if the next test has rewritten the trace.f<i> it reads;
\* a number that is read is marked as wrong in any case.
OrphanEnds ==
  /\ orphan # "none" /\ orphan' = "none" /\ late' = Nothing
  /\ csim_results' = IF orphan = "csim" THEN late ELSE csim_results
  /\ wrong' = IF orphan = "csim" /\ phase = "collect" THEN wrong \cup {<<"orphan", i>>} ELSE wrong
  /\ UNCHANGED <<driver_vars, phase, i, results, traced, file_vars, faults>>

\* Seeded fault: the case above the upper bound gives what the case before it gives.
computeMissScore_fault(x, miss) ==
  IF miss <= x.lower THEN 10 * x.maxscore
  ELSE IF miss >= x.upper THEN 10 * x.maxscore
  ELSE (20 * x.maxscore * (x.upper - miss) + x.upper - x.lower) \div (2 * (x.upper - x.lower))

\* In tenths, to which driver.py rounds.
computeMissScore(x, miss) ==
  IF miss <= x.lower THEN 10 * x.maxscore
  ELSE IF miss >= x.upper THEN 0
  ELSE (20 * x.maxscore * (x.upper - miss) + x.upper - x.lower) \div (2 * (x.upper - x.lower))

\* Where a test left no line of results, the first index into them fails.
Score ==
  /\ phase = "score"
  /\ IF NoLine \in ToSet(outputs) THEN phase' = "crashed" /\ UNCHANGED points
     ELSE /\ phase' = "done"
          /\ points' = [n \in DOMAIN outputs |->
                          outputs[n][1] * computeMissScore(session.tests[n], outputs[n][2])]
  /\ UNCHANGED <<session, t, outputs, i, results, traced, file_vars, csim_results,
                 fault_vars>>

Over == phase \in {"done", "crashed", "undefined"}

TestTransNext ==
  \/ StartTest \/ StartTracegen \/ Tracegen \/ TracegenExits \/ TracegenKilled
  \/ Filter \/ Simulate \/ CsimFails \/ Collect \/ PrintResults \/ Alarm \/ Score
  \/ OrphanEnds /\ ~Over
  \/ Over /\ UNCHANGED harness_vars

TestTransSpec == TestTransInit /\ [][TestTransNext]_harness_vars
-----------------------------------------------------------------------------
\* The shapes a function is right for.
Suits(f, M, N) ==
  CASE f \in {"trans", "transpose_submit"} -> TRUE
    [] f \in {"transBlock", "transBlockSpaceConsuming"} -> N = 32 /\ M <= 32
    [] f = "transBlockSpaceConsuming64" -> N % 8 = 0 /\ M \in N - 7 .. N

\* Those two are right for every shape.  Of the others it is said if the matrix B has
\* two rows of 8 at least: what they store behind a shorter one may do no harm.
Judged(f, M, N) == f \in {"trans", "transpose_submit"} \/ (M > 1 /\ N >= 8)

(* Each function transposes the shapes it suits and no others.  The one    *)
(* submitted is right for every shape, a single row or column included:    *)
(* the blocks of 16 and the two edges cover the matrix, whatever is left   *)
(* over.  The others have fixed bounds or bounds that round up, and        *)
(* validate finds their every misuse.                                      *)
RightShapes ==
  phase = "trace" /\ traced = TraceLength /\ Judged(func, test.M, test.N) =>
    (validate(memory, test.M, test.N) <=> Suits(func, test.M, test.N))

\* What a function does to memory, without the machinery.
ExactTrace(f, M, N) ==
  <<MARKER_START, func_list_addr, N_addr, M_addr>>
    \o Nested(Loops[<<f, M, N>>], LAMBDA copies : Accesses(M, N, copies)) \o <<MARKER_END>>

(* The misses counted are those of the function alone: all its accesses in *)
(* order, from marker to marker, and none of the stack, of the set up or   *)
(* of the validation.  Where its tracegen was killed, and the shell did    *)
(* not say so, the trace ends too soon, but it holds nothing else either,  *)
(* with its end marker or without.                                         *)
TraceIsExact ==
  phase = "simulate" /\ pos = 0 =>
    IF <<"kill", i>> \in wrong THEN IsPrefix(part, ExactTrace(func, test.M, test.N))
    ELSE part = ExactTrace(func, test.M, test.N)

(* Credit is earned.  When a test has run all its functions, its results   *)
(* are those of the last one submitted that was accepted, whatever else is *)
(* registered and whatever happened in earlier tests: accepted if it       *)
(* transposes the shape, and a killed one if no shell reported its death.  *)
(* The misses are those of its own trace unless a fault met that very      *)
(* function: its tracegen killed, its csim-ref failed, or an orphan of     *)
(* an earlier test overwriting its results before they were read.          *)
CreditIsEarned ==
  LET name(f)   == session.func_list[f].func
      submitted == {f \in DOMAIN session.func_list :
                      session.func_list[f].description = SUBMIT_DESCRIPTION}
      accepted  == {f \in submitted : IF <<"kill", f>> \in wrong THEN session.shell_execs
                                      ELSE Suits(name(f), test.M, test.N)}
      last      == Max(accepted)
  IN  /\ phase = "next" /\ i > Len(session.func_list)
      /\ \A f \in submitted : Judged(name(f), test.M, test.N)
      => /\ results.funcid = IF submitted = {} THEN Nothing ELSE Max(submitted)
         /\ results.correct = IF accepted = {} THEN 0 ELSE 1
         /\ accepted = {} => results.misses = INT_MAX
         /\ accepted # {} /\ (\A w \in wrong : w[2] # last) =>
              results.misses = DirectMisses(ExactTrace(name(last), test.M, test.N))

(* The submission of this repository gets full marks for 61 x 67, and none *)
(* for the squares, where its blocks of 16 rows map on themselves.         *)
DriverTests ==
  LET shape(M, N, lower, upper, maxscore) ==
        [M |-> M, N |-> N, lower |-> lower, upper |-> upper, maxscore |-> maxscore]
  IN  <<shape(32, 32, 300, 600, 8), shape(64, 64, 1300, 2000, 8), shape(61, 67, 2000, 3000, 10)>>

SubmissionScores ==
  phase = "done" /\ faults = {} /\ IsPrefix(session.tests, DriverTests) =>
    LET first(results_of_all) == SubSeq(results_of_all, 1, Len(session.tests))
    IN  outputs = first(<<<<1, 1169>>, <<1, 4639>>, <<1, 1963>>>>) /\ points = first(<<0, 0, 100>>)
=============================================================================
