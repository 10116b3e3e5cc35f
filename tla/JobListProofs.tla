---------------------------- MODULE JobListProofs ----------------------------
(***************************************************************************)
(* The job list of tsh.c for every MAXJOBS, every set of pids and every    *)
(* bound.  First lemmas about the routines of JobTable: what its searches  *)
(* return and what addjob and deletejob do to the array and to nextjid;    *)
(* TshProofs uses them too.  Then theorems about JobList: its types and    *)
(* how job ids are allocated.                                              *)
(***************************************************************************)
EXTENDS JobList, DataLemmas

(* A search returns a slot that matches, or NULL when there is none.       *)
LEMMA FirstFacts ==
  ASSUME NEW S \in SUBSET Slots
  PROVE  /\ S = {} => First(S) = NULL
         /\ S # {} => First(S) \in S
         /\ First(S) \in S \/ First(S) = NULL
         /\ NULL \notin Slots
<1>1. S \in SUBSET Nat
  BY MaxJobsAssumption DEF Slots
<1>2. S # {} => Min(S) \in S
  BY <1>1, MinOfNats
<1>3. S = {} => First(S) = NULL
  BY DEF First
<1>4. S # {} => First(S) \in S
  BY <1>2 DEF First
<1>5. NULL \notin Slots
  BY MaxJobsAssumption DEF NULL, Slots
<1> QED BY <1>3, <1>4, <1>5

(* maxjid returns 0 or the largest job id on the list.                     *)
LEMMA MaxjidFacts ==
  ASSUME NEW js, \A i \in Slots : js[i].jid \in Nat
  PROVE  /\ maxjid(js) \in Nat
         /\ \A i \in Slots : js[i].jid <= maxjid(js)
         /\ maxjid(js) = 0 \/ \E i \in Slots : js[i].jid = maxjid(js)
<1> DEFINE f == [i \in 0 .. MAXJOBS-1 |-> js[i].jid]
           S == {0} \cup {js[i].jid : i \in Slots}
<1>1. f \in [0 .. MAXJOBS-1 -> Nat]
  BY DEF Slots
<1>2. PICK b \in Nat : \A i \in 0 .. MAXJOBS-1 : f[i] <= b
  <2> HIDE DEF f
  <2> QED BY <1>1, BoundedValues, MaxJobsAssumption
<1>3. S \in SUBSET Nat /\ S # {} /\ \A k \in S : k <= b
  BY <1>2 DEF Slots
<1>4. Max(S) \in S /\ \A k \in S : k <= Max(S)
  <2> HIDE DEF S
  <2> QED BY <1>3, MaxOfNats
<1>5. maxjid(js) = Max(S)
  BY DEF maxjid
<1> QED BY <1>3, <1>4, <1>5

(* getjobpid returns a slot with the pid, or NULL when no slot has it.     *)
LEMMA GetjobpidFacts ==
  ASSUME NEW js, NEW p \in Nat \ {0}
  PROVE  LET i == getjobpid(js, p)
         IN  \/ i \in Slots /\ js[i].pid = p
             \/ i = NULL /\ \A k \in Slots : js[k].pid # p
<1> DEFINE S == {k \in Slots : js[k].pid = p}
<1>1. getjobpid(js, p) = First(S)
  BY DEF getjobpid
<1>2. S \in SUBSET Slots
  OBVIOUS
<1>3. \/ S = {} /\ First(S) = NULL
      \/ First(S) \in S
  BY <1>2, FirstFacts
<1> QED BY <1>1, <1>3

AddOutcome(js, nextid, p, s, t) ==
  \/ /\ FreeSlot(js) = NULL
     /\ t.jobs = js /\ t.nextjid = nextid
     /\ \A k \in Slots : js[k].pid # 0
  \/ /\ FreeSlot(js) # NULL
     /\ \E i \in Slots :
          /\ js[i].pid = 0
          /\ t.jobs = [js EXCEPT ![i] =
                         [pid |-> p, jid |-> nextid, state |-> s]]
          /\ t.nextjid = IF nextid + 1 > MAXJOBS THEN 1 ELSE nextid + 1

(* addjob fills a free slot with a job of the next id, or changes nothing; *)
(* it refuses a process only when the list is full.                        *)
LEMMA AddjobFacts ==
  ASSUME NEW js, NEW nextid \in Nat, NEW p \in Nat \ {0}, NEW s
  PROVE  AddOutcome(js, nextid, p, s, addjob(js, nextid, p, s))
<1> DEFINE S == {k \in Slots : js[k].pid = 0}
           i == FreeSlot(js)
<1>1. i = First(S)
  BY DEF FreeSlot
<1>2. \/ S = {} /\ i = NULL
      \/ i \in S /\ i # NULL
  <2>1. S \in SUBSET Slots
    OBVIOUS
  <2> QED BY <1>1, <2>1, FirstFacts
<1> HIDE DEF i
<1>3. CASE S = {} /\ i = NULL
  BY <1>3 DEF addjob, i, AddOutcome
<1>4. CASE i \in S /\ i # NULL
  <2>1. addjob(js, nextid, p, s) =
          [jobs    |-> [js EXCEPT ![i] =
                          [pid |-> p, jid |-> nextid, state |-> s]],
           nextjid |-> IF nextid + 1 > MAXJOBS THEN 1 ELSE nextid + 1]
    BY <1>4 DEF addjob, i
  <2>2. i \in Slots /\ js[i].pid = 0 /\ FreeSlot(js) # NULL
    BY <1>4 DEF i
  <2>3. addjob(js, nextid, p, s).jobs =
          [js EXCEPT ![i] = [pid |-> p, jid |-> nextid, state |-> s]]
    BY <2>1
  <2>4. addjob(js, nextid, p, s).nextjid =
          IF nextid + 1 > MAXJOBS THEN 1 ELSE nextid + 1
    BY <2>1
  <2> QED BY <2>2, <2>3, <2>4, Zenon DEF AddOutcome
<1> QED BY <1>2, <1>3, <1>4

DeleteOutcome(js, nextid, p, t) ==
  \/ /\ t.jobs = js /\ t.nextjid = nextid
     /\ \A k \in Slots : js[k].pid # p
  \/ \E i \in Slots : /\ js[i].pid = p
                      /\ t.jobs = [js EXCEPT ![i] = ClearedJob]
                      /\ t.nextjid = maxjid(t.jobs) + 1

(* deletejob clears a slot of the pid and restarts nextjid above the ids   *)
(* that are left, or changes nothing when the pid is not listed.           *)
LEMMA DeletejobFacts ==
  ASSUME NEW js, NEW nextid, NEW p \in Nat \ {0}
  PROVE  DeleteOutcome(js, nextid, p, deletejob(js, nextid, p))
<1> DEFINE i == getjobpid(js, p)
<1>1. \/ i \in Slots /\ js[i].pid = p /\ i # NULL
      \/ i = NULL /\ \A k \in Slots : js[k].pid # p
  BY GetjobpidFacts, MaxJobsAssumption DEF NULL, Slots
<1> HIDE DEF i
<1>2. CASE i \in Slots /\ js[i].pid = p /\ i # NULL
  BY <1>2 DEF deletejob, i, DeleteOutcome
<1>3. CASE i = NULL /\ \A k \in Slots : js[k].pid # p
  BY <1>3 DEF deletejob, i, DeleteOutcome
<1> QED BY <1>1, <1>2, <1>3

(* fgpid returns 0 or the pid of a slot.                                   *)
LEMMA FgpidFacts ==
  ASSUME NEW js
  PROVE  \/ fgpid(js) = 0
         \/ \E i \in Slots : js[i].state = "FG" /\ fgpid(js) = js[i].pid
<1> DEFINE S == {j \in Slots : js[j].state = "FG"}
<1>1. First(S) \in S \/ First(S) = NULL
  <2>1. S \in SUBSET Slots
    OBVIOUS
  <2> QED BY <2>1, FirstFacts
<1> QED BY <1>1 DEF fgpid
-----------------------------------------------------------------------------
(* The inductive invariant of the allocation of job ids: an id is 0 where  *)
(* the pid is, and nextjid is above the live ids unless they reached       *)
(* MAXJOBS.  IdleRestart rests on deletejob recomputing nextjid.           *)
IdInv == TypeOK /\ JidIffPid /\ FreshOrWrapped /\ IdleRestart

(* A list whose slots hold no pid has no job id, so maxjid is 0.           *)
LEMMA EmptyMaxjid ==
  ASSUME NEW js, \A i \in Slots : js[i].jid = 0
  PROVE  maxjid(js) = 0
<1>1. \A i \in Slots : js[i].jid \in Nat
  OBVIOUS
<1> QED BY <1>1, MaxjidFacts

(* No slot is listed exactly when every pid is 0.                          *)
LEMMA ListedEmpty ==
  ASSUME NEW js, ListedPids(js) = {}
  PROVE  \A i \in Slots : js[i].pid = 0
BY DEF ListedPids

(* Initially the list is empty and numbering starts at 1.                  *)
LEMMA InitIdInv == Init => IdInv
<1> SUFFICES ASSUME Init PROVE IdInv
  OBVIOUS
<1>1. \A i \in Slots : jobs[i] = ClearedJob
  BY DEF Init, initjobs
<1>2. TypeOK
  BY DEF Init, initjobs, TypeOK, Job, ClearedJob, JobStates
<1>3. JidIffPid
  BY <1>1 DEF JidIffPid, ClearedJob
<1>4. maxjid(jobs) = 0
  BY <1>1, EmptyMaxjid DEF ClearedJob
<1> QED BY <1>2, <1>3, <1>4 DEF Init, IdInv, FreshOrWrapped, IdleRestart

(* Adding a job.                                                           *)
LEMMA AddIdInv ==
  ASSUME IdInv, NEW pid \in Pids, NEW state \in {"FG", "BG"}, Add(pid, state)
  PROVE  IdInv'
<1> USE DEF IdInv
<1>1. pid \in Nat \ {0}
  BY PidsAssumption
<1>2. CASE jobs' = jobs /\ nextjid' = nextjid
  BY <1>2 DEF TypeOK, JidIffPid, FreshOrWrapped, IdleRestart
<1>3. ASSUME NEW i \in Slots,
             jobs[i].pid = 0,
             jobs' = [jobs EXCEPT ![i] =
                        [pid |-> pid, jid |-> nextjid, state |-> state]],
             nextjid' = IF nextjid + 1 > MAXJOBS THEN 1 ELSE nextjid + 1
      PROVE  IdInv'
  <2>1. TypeOK'
    BY <1>3 DEF TypeOK, Job, JobStates
  <2>2. JidIffPid'
    BY <1>1, <1>3 DEF JidIffPid, TypeOK
  <2>3. \A k \in Slots : jobs[k].jid \in Nat /\ jobs'[k].jid \in Nat
    BY <2>1 DEF TypeOK, Job
  <2>4. maxjid(jobs) \in Nat /\ maxjid(jobs') \in Nat
    BY <2>3, MaxjidFacts
  <2>5. nextjid <= maxjid(jobs')
    <3>1. jobs'[i].jid = nextjid
      BY <1>3 DEF TypeOK
    <3> QED BY <3>1, <2>3, MaxjidFacts
  <2>6. maxjid(jobs') = nextjid \/ maxjid(jobs') <= maxjid(jobs)
    <3>1. \A k \in Slots : jobs'[k].jid = nextjid \/ jobs'[k].jid = jobs[k].jid
      BY <1>3 DEF TypeOK
    <3>2. \A k \in Slots : jobs[k].jid <= maxjid(jobs)
      BY <2>3, MaxjidFacts
    <3>3. maxjid(jobs') = 0 \/ \E k \in Slots : jobs'[k].jid = maxjid(jobs')
      BY <2>3, MaxjidFacts
    <3> QED BY <3>1, <3>2, <3>3, <2>4
  <2>7. FreshOrWrapped'
    <3>1. \A k \in Slots : jobs[k].jid <= maxjid(jobs')
      <4>1. \A k \in Slots : jobs'[k].jid <= maxjid(jobs')
        BY <2>3, MaxjidFacts
      <4>2. jobs[i].jid = 0
        BY <1>3 DEF JidIffPid
      <4>3. \A k \in Slots : k # i => jobs'[k] = jobs[k]
        BY <1>3 DEF TypeOK
      <4> QED BY <4>1, <4>2, <4>3, <2>4
    <3>2. maxjid(jobs) <= maxjid(jobs')
      <4>1. maxjid(jobs) = 0 \/ \E k \in Slots : jobs[k].jid = maxjid(jobs)
        BY <2>3, MaxjidFacts
      <4> QED BY <3>1, <4>1, <2>4
    <3>3. nextjid \in Nat /\ nextjid' = IF nextjid + 1 > MAXJOBS THEN 1 ELSE nextjid + 1
      BY <1>3 DEF TypeOK
    <3> QED BY <3>2, <3>3, <2>4, <2>5, <2>6, MaxJobsAssumption DEF FreshOrWrapped
  <2>8. IdleRestart'
    <3>1. pid \in ListedPids(jobs')
      <4>1. jobs'[i].pid = pid
        BY <1>3 DEF TypeOK
      <4> QED BY <4>1, <1>1 DEF ListedPids
    <3> QED BY <3>1 DEF IdleRestart
  <2> QED BY <2>1, <2>2, <2>7, <2>8
<1> DEFINE t == addjob(jobs, nextjid, pid, state)
<1>4. nextjid \in Nat
  BY DEF TypeOK
<1>5. jobs' = t.jobs /\ nextjid' = t.nextjid
  BY DEF Add
<1>6. AddOutcome(jobs, nextjid, pid, state, t)
  BY <1>1, <1>4, AddjobFacts, Zenon
<1> HIDE DEF IdInv, t
<1> QED BY <1>2, <1>3, <1>5, <1>6 DEF AddOutcome

(* Deleting a job.                                                         *)
LEMMA DeleteIdInv ==
  ASSUME IdInv, NEW pid \in Pids, Delete(pid)
  PROVE  IdInv'
<1> USE DEF IdInv
<1>1. pid \in Nat \ {0}
  BY PidsAssumption
<1>2. CASE jobs' = jobs /\ nextjid' = nextjid
  BY <1>2 DEF TypeOK, JidIffPid, FreshOrWrapped, IdleRestart
<1>3. ASSUME NEW i \in Slots,
             jobs' = [jobs EXCEPT ![i] = ClearedJob],
             nextjid' = maxjid(jobs') + 1
      PROVE  IdInv'
  <2>1. jobs' \in [Slots -> Job]
    BY <1>3 DEF TypeOK, Job, ClearedJob, JobStates
  <2>2. maxjid(jobs') \in Nat
    <3>1. \A k \in Slots : jobs'[k].jid \in Nat
      BY <2>1 DEF Job
    <3> QED BY <3>1, MaxjidFacts
  <2>3. JidIffPid'
    BY <1>3 DEF JidIffPid, TypeOK, ClearedJob
  <2>4. IdleRestart'
    <3> SUFFICES ASSUME ListedPids(jobs') = {} PROVE nextjid' = 1
      BY DEF IdleRestart
    <3>1. \A k \in Slots : jobs'[k].jid = 0
      BY <2>3, ListedEmpty DEF JidIffPid
    <3>2. maxjid(jobs') = 0
      BY <3>1, EmptyMaxjid
    <3> QED BY <3>2, <1>3
  <2> QED BY <1>3, <2>1, <2>2, <2>3, <2>4 DEF TypeOK, FreshOrWrapped
<1> DEFINE t == deletejob(jobs, nextjid, pid)
<1>4. jobs' = t.jobs /\ nextjid' = t.nextjid
  BY DEF Delete
<1>5. DeleteOutcome(jobs, nextjid, pid, t)
  BY <1>1, DeletejobFacts, Zenon
<1> HIDE DEF IdInv, t
<1> QED BY <1>2, <1>3, <1>4, <1>5 DEF DeleteOutcome

(* Storing a state, in an empty slot too, changes no id.                   *)
LEMMA SetStateIdInv ==
  ASSUME IdInv, NEW i \in Slots, NEW state \in {"FG", "BG", "ST"},
         SetState(i, state)
  PROVE  IdInv'
<1> USE DEF IdInv
<1>1. TypeOK'
  BY DEF SetState, TypeOK, Job, JobStates
<1>2. \A k \in Slots : jobs'[k].pid = jobs[k].pid /\ jobs'[k].jid = jobs[k].jid
  BY DEF SetState, TypeOK, Job
<1>3. maxjid(jobs') = maxjid(jobs)
  <2>1. {jobs'[k].jid : k \in Slots} = {jobs[k].jid : k \in Slots}
    BY <1>2
  <2> QED BY <2>1 DEF maxjid
<1>4. ListedPids(jobs') = ListedPids(jobs)
  BY <1>2 DEF ListedPids
<1>5. nextjid' = nextjid
  BY DEF SetState
<1> QED BY <1>1, <1>2, <1>3, <1>4, <1>5 DEF JidIffPid, FreshOrWrapped, IdleRestart

(* IdInv is inductive.                                                     *)
LEMMA NextIdInv == IdInv /\ [Next]_vars => IdInv'
<1> SUFFICES ASSUME IdInv, [Next]_vars PROVE IdInv'
  OBVIOUS
<1>1. CASE UNCHANGED vars
  BY <1>1 DEF vars, IdInv, TypeOK, JidIffPid, FreshOrWrapped, IdleRestart
<1>2. CASE \E pid \in Pids, state \in {"FG", "BG"} : Add(pid, state)
  BY <1>2, AddIdInv
<1>3. CASE \E pid \in Pids : Delete(pid)
  BY <1>3, DeleteIdInv
<1>4. CASE \E i \in Slots, state \in {"FG", "BG", "ST"} : SetState(i, state)
  BY <1>4, SetStateIdInv
<1> QED BY <1>1, <1>2, <1>3, <1>4 DEF Next

(* The invariant behind the theorems below.                                *)
THEOREM IdInvariant == Spec => []IdInv
<1> QED BY InitIdInv, NextIdInv, PTL DEF Spec

(* jobs and nextjid have the types of the code; nextjid is never 0.        *)
THEOREM TypeCorrect == Spec => []TypeOK
<1>1. IdInv => TypeOK
  BY DEF IdInv
<1> QED BY <1>1, IdInvariant, PTL

(* nextjid is above every live job id unless one has reached MAXJOBS.      *)
THEOREM JobIdsFresh == Spec => []FreshOrWrapped
<1>1. IdInv => FreshOrWrapped
  BY DEF IdInv
<1> QED BY <1>1, IdInvariant, PTL

(* An empty list numbers from 1 again.                                     *)
THEOREM NumberingRestarts == Spec => []IdleRestart
<1>1. IdInv => IdleRestart
  BY DEF IdInv
<1> QED BY <1>1, IdInvariant, PTL

(* A slot has a job id exactly when it has a process.                      *)
THEOREM IdsMatchPids == Spec => []JidIffPid
<1>1. IdInv => JidIffPid
  BY DEF IdInv
<1> QED BY <1>1, IdInvariant, PTL
=============================================================================
