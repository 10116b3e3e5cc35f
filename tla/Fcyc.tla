--------------------------------- MODULE Fcyc ---------------------------------
(***************************************************************************)
(* The timing package: fcyc of fcyc.c measures a function with the cycle   *)
(* counter of clock.c until the K smallest samples agree.  Time is counted *)
(* in cycles; a timer interrupt costs TICK of them and adds a tick to the  *)
(* process's user time.                                                    *)
(***************************************************************************)
EXTENDS Integers, Sequences, FiniteSetsExt

CONSTANTS K, MAXSAMPLES,      \* samples that must agree, samples taken at most
          EPSILON, UNIT,      \* they agree within EPSILON / UNIT
          WORD,               \* 2^32: the counter is two words wide
          NEVENT, THRESHOLD, RECORDTHRESH,  \* parameters of callibrate
          TICK,               \* cycles of a timer interrupt
          Durations, MaxTicks, Starts  \* model bounds: cycles a call takes, interrupts
                              \* in it or between two readings, the clock before it

ASSUME SamplerAssumption == /\ K \in Nat \ {0} /\ MAXSAMPLES \in Nat
                            /\ EPSILON \in Nat /\ UNIT \in Nat \ {0}

ASSUME ClockAssumption == /\ WORD \in Nat \ {0} /\ TICK \in Nat
                          /\ THRESHOLD \in Nat /\ RECORDTHRESH \in Nat
                          /\ THRESHOLD <= RECORDTHRESH
                          /\ NEVENT \in Nat \ {0} /\ MaxTicks \in Nat
                          /\ Durations \subseteq Nat /\ Starts \subseteq Nat

\* No call takes as long as the counter of two words takes to wrap.
ASSUME CallAssumption == \A cycles \in Durations : cycles + MaxTicks * TICK < WORD * WORD

VARIABLES
  stage,         \* where fcyc is: idle, callibrate, start, stop, done
  compensate,    \* subtract the timer interrupts
  clock, ticks,  \* cycles and ticks of user time so far
  cyc, start_tick,  \* readings of start_counter and start_comp_counter
  e, cyc_per_tick,  \* events seen by callibrate and what they tell
  values, samplecount,  \* the sampler
  samples,       \* every sample
  spent          \* of the call being timed: cycles, interrupts in it and before it

fcyc_vars == <<stage, compensate, clock, ticks, cyc, start_tick, e, cyc_per_tick,
               values, samplecount, samples, spent>>

\* What access_counter reads at a time.
access_counter(t) == [hi |-> (t \div WORD) % WORD, lo |-> t % WORD]

\* Seeded fault: the borrow is forgotten.
get_counter_fault(from, now) ==
  ((now.hi - from.hi) % WORD) * WORD + ((now.lo - from.lo) % WORD)

get_counter(from, now) ==
  LET lo     == (now.lo - from.lo) % WORD
      borrow == IF lo > now.lo THEN 1 ELSE 0
  IN  ((now.hi - from.hi - borrow) % WORD) * WORD + lo

\* val goes into the sorted list behind the values that are not larger.
InsertSorted_fault(list, val) == <<val>> \o list

InsertSorted(list, val) ==
  [p \in 1 .. Len(list) + 1 |->
     IF p <= Len(list) /\ list[p] <= val THEN list[p]
     ELSE IF p = 1 \/ list[p - 1] <= val THEN val ELSE list[p - 1]]

\* The list after add_sample.  Entries that are still 0 from calloc are left out.
add_sample(list, val) ==
  IF Len(list) < K THEN InsertSorted(list, val)
  ELSE IF val < list[K] THEN InsertSorted(SubSeq(list, 1, K - 1), val) ELSE list

has_converged(list, count) ==
  count >= K /\ (UNIT + EPSILON) * list[1] >= UNIT * list[K]

FcycInit == /\ stage = "idle" /\ compensate \in BOOLEAN
            /\ clock = 0 /\ ticks = 0
            /\ cyc = access_counter(0) /\ start_tick = 0
            /\ e = 0 /\ cyc_per_tick = 0
            /\ values = <<>> /\ samplecount = 0
            /\ samples = <<>> /\ spent = <<0, 0, 0>>

\* init_sampler.  Any time may have passed since the last call.
Begin(t) == /\ stage = "idle" /\ stage' = "start"
            /\ clock' = t
            /\ values' = <<>> /\ samplecount' = 0 /\ samples' = <<>>
            /\ UNCHANGED <<compensate, ticks, cyc, start_tick, e, cyc_per_tick, spent>>

\* start_comp_counter looks for the cost of a tick until it has one.
Uncallibrated == compensate /\ cyc_per_tick = 0

StartCallibrate == /\ stage = "start" /\ Uncallibrated
                   /\ stage' = "callibrate" /\ e' = 0
                   /\ UNCHANGED <<compensate, clock, ticks, cyc, start_tick,
                                  cyc_per_tick, values, samplecount, samples, spent>>

\* Seeded fault: a gap without an interrupt is recorded too.
Recorded_fault(gap) ==
  IF cyc_per_tick = 0 \/ cyc_per_tick > gap THEN gap ELSE cyc_per_tick

\* The smallest gap that is large enough to be an interrupt.
Recorded(gap) ==
  IF (cyc_per_tick = 0 \/ cyc_per_tick > gap) /\ gap > RECORDTHRESH THEN gap
  ELSE cyc_per_tick

\* A gap of at least THRESHOLD cycles after which a tick is counted.  oldt stays
\* until there is such a gap, so that it holds other cycles than the interrupt's.
\* The ticks are read after the counter: an interrupt in between is counted with a
\* gap it is not in.  The next one is far off: ticks are further apart than gaps.
CallibrateEvent(slack, inside) ==
  LET gap == IF inside THEN slack + TICK ELSE slack
  IN  /\ stage = "callibrate" /\ gap >= THRESHOLD
      /\ clock' = clock + slack + TICK /\ ticks' = ticks + 1
      /\ cyc_per_tick' = Recorded(gap)
      /\ e' = e + 1
      /\ stage' = IF e + 1 < NEVENT THEN "callibrate" ELSE "timed"
      /\ UNCHANGED <<compensate, cyc, start_tick, values, samplecount, samples, spent>>

\* Interrupts between times, which reads the ticks, and the reading of the counter.
\* Without compensation nobody reads the ticks.
Between == IF compensate THEN 0 .. MaxTicks ELSE {0}

\* start_counter, or start_comp_counter, and then the call with n interrupts.
\* early interrupts come after times and before start_counter.
Call(cycles, n, early) ==
  /\ \/ stage = "start" /\ ~Uncallibrated
     \/ stage = "timed"
  /\ stage' = "stop"
  /\ start_tick' = ticks /\ cyc' = access_counter(clock + early * TICK)
  /\ clock' = clock + early * TICK + cycles + n * TICK
  /\ ticks' = ticks + early + n
  /\ spent' = <<cycles, n, early>>
  /\ UNCHANGED <<compensate, e, cyc_per_tick, values, samplecount, samples>>

\* get_counter, or get_comp_counter with late interrupts between get_counter and times.
Measured(late) ==
  LET time == get_counter(cyc, access_counter(clock))
  IN  IF compensate THEN time - (ticks + late - start_tick) * cyc_per_tick ELSE time

\* The loop of fcyc goes on until the samples agree or there are too many.
Add(late) ==
  /\ stage = "stop"
  /\ clock' = clock + late * TICK /\ ticks' = ticks + late
  /\ values' = add_sample(values, Measured(late))
  /\ samplecount' = samplecount + 1
  /\ samples' = Append(samples, Measured(late))
  /\ stage' = IF ~has_converged(values', samplecount') /\ samplecount' < MAXSAMPLES
              THEN "start" ELSE "done"
  /\ UNCHANGED <<compensate, cyc, start_tick, e, cyc_per_tick, spent>>

\* fcyc returns values[1].  What it leaves in the statics is written before it is
\* read again, so the model forgets it; cyc_per_tick stays.
Return == /\ stage = "done" /\ stage' = "idle"
          /\ values' = <<>> /\ samplecount' = 0 /\ samples' = <<>>
          /\ clock' = 0 /\ ticks' = 0 /\ cyc' = access_counter(0) /\ start_tick' = 0
          /\ e' = 0 /\ spent' = <<0, 0, 0>>
          /\ UNCHANGED <<compensate, cyc_per_tick>>

Measure == \/ \E t \in Starts : Begin(t)
           \/ StartCallibrate
           \/ \E slack \in 0 .. THRESHOLD, inside \in BOOLEAN : CallibrateEvent(slack, inside)
           \/ \E cycles \in Durations, n \in 0 .. MaxTicks, early \in Between :
                Call(cycles, n, early)
           \/ \E late \in Between : Add(late)
           \/ Return

FcycSpec == FcycInit /\ [][Measure]_fcyc_vars
-----------------------------------------------------------------------------
FcycTypeOK ==
  /\ stage \in {"idle", "start", "callibrate", "timed", "stop", "done"}
  /\ compensate \in BOOLEAN
  /\ clock \in Nat /\ ticks \in Nat /\ start_tick \in Nat
  /\ cyc \in [hi : 0 .. WORD - 1, lo : 0 .. WORD - 1]
  /\ e \in 0 .. NEVENT /\ cyc_per_tick \in Nat
  /\ values \in Seq(Int) /\ samplecount \in Nat /\ samples \in Seq(Int)
  /\ spent \in Nat \X Nat \X Nat

\* Samples in a list that are no larger than a bound.
AtMost(list, bound) == Cardinality({p \in DOMAIN list : list[p] <= bound})

(* add_sample keeps the K smallest samples in order, however they arrive:  *)
(* of the values as of all the samples, up to K are no larger than any     *)
(* bound one may choose.  So fcyc returns the smallest sample and          *)
(* has_converged compares it with the K-th; and fcyc gives up after        *)
(* MAXSAMPLES, before that only when these two are within EPSILON.         *)
KeepsBest ==
  /\ \A p, q \in DOMAIN values : p <= q => values[p] <= values[q]
  /\ \A k \in DOMAIN samples :
       AtMost(values, samples[k]) = Min({K, AtMost(samples, samples[k])})
  /\ samplecount = Len(samples) /\ samplecount <= Max({1, MAXSAMPLES})
  /\ stage = "done" /\ samplecount < MAXSAMPLES =>
       /\ samplecount >= K
       /\ UNIT * (values[K] - values[1]) <= EPSILON * values[1]

(* get_counter subtracts two words with a borrow: what it reports is the   *)
(* time the call took, though the counter has wrapped in between.  A       *)
(* compensated sample is never longer than the work of the call.  It is    *)
(* shorter by at most THRESHOLD cycles for each interrupt in the call,     *)
(* since callibrate takes that many other cycles for part of an interrupt, *)
(* and by a whole tick, these cycles included, for each interrupt between  *)
(* the readings of counter and ticks, before the call and after it: it is  *)
(* subtracted though the counter was not running.                          *)
TimesAreRight ==
  stage = "stop" =>
    /\ get_counter(cyc, access_counter(clock)) = spent[1] + spent[2] * TICK
    /\ compensate /\ cyc_per_tick > 0 =>
         \A late \in 0 .. MaxTicks :
           /\ Measured(late) <= spent[1]
           /\ Measured(late) >= spent[1] - spent[2] * THRESHOLD
                                - (spent[3] + late) * (TICK + THRESHOLD)
=============================================================================
