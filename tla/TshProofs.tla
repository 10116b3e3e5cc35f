------------------------------ MODULE TshProofs ------------------------------
(***************************************************************************)
(* Theorems about the shell for every size of the job list, every set of   *)
(* pids, every set of commands and every bound: its list of jobs, whatever *)
(* interrupts what, and then what the states ST, BG and FG promise.        *)
(***************************************************************************)
EXTENDS Tsh, DataLemmas, FiniteSetTheorems

\* The lemmas of JobListProofs about the routines of the job list.
Table == INSTANCE JobListProofs

(* The routines of the job list are the same there and here.               *)
LEMMA SameTable ==
  /\ Table!Slots = Slots /\ Table!NULL = NULL /\ Table!ClearedJob = ClearedJob
  /\ \A S : Table!First(S) = First(S)
  /\ \A js : Table!FreeSlot(js) = FreeSlot(js)
  /\ \A js : Table!maxjid(js) = maxjid(js)
  /\ \A js : Table!fgpid(js) = fgpid(js)
  /\ \A js, p : Table!getjobpid(js, p) = getjobpid(js, p)
  /\ \A js, id, p, s : Table!addjob(js, id, p, s) = addjob(js, id, p, s)
  /\ \A js, id, p : Table!deletejob(js, id, p) = deletejob(js, id, p)
<1>1. Table!Slots = Slots /\ Table!NULL = NULL /\ Table!ClearedJob = ClearedJob
  BY DEF Table!Slots, Slots, Table!NULL, NULL, Table!ClearedJob, ClearedJob
<1>2. \A S : Table!First(S) = First(S)
  BY <1>1 DEF Table!First, First, Table!Min, Min
<1>3. \A js : Table!FreeSlot(js) = FreeSlot(js)
  BY <1>1, <1>2 DEF Table!FreeSlot, FreeSlot
<1>4. \A js : Table!maxjid(js) = maxjid(js)
  BY <1>1 DEF Table!maxjid, maxjid, Table!Max, Max
<1>5. \A js : Table!fgpid(js) = fgpid(js)
  BY <1>1, <1>2 DEF Table!fgpid, fgpid
<1>6. \A js, p : Table!getjobpid(js, p) = getjobpid(js, p)
  BY <1>1, <1>2 DEF Table!getjobpid, getjobpid
<1>7. \A js, id, p, s : Table!addjob(js, id, p, s) = addjob(js, id, p, s)
  BY <1>1, <1>3, ZenonT(60) DEF Table!addjob, addjob
<1>8. \A js, id, p : Table!deletejob(js, id, p) = deletejob(js, id, p)
  BY <1>1, <1>4, <1>6, Zenon DEF Table!deletejob, deletejob
<1> QED BY <1>1, <1>2, <1>3, <1>4, <1>5, <1>6, <1>7, <1>8

(* A search returns a slot that matches, or NULL when there is none.       *)
LEMMA FirstFacts ==
  ASSUME NEW S \in SUBSET Slots
  PROVE  /\ S = {} => First(S) = NULL
         /\ S # {} => First(S) \in S
         /\ First(S) \in S \/ First(S) = NULL
         /\ NULL \notin Slots
<1>1. Table!First(S) = First(S) /\ Table!Slots = Slots /\ Table!NULL = NULL
  BY SameTable
<1>2. S \in SUBSET Table!Slots
  BY <1>1
<1>3. /\ S = {} => Table!First(S) = Table!NULL
      /\ S # {} => Table!First(S) \in S
      /\ Table!First(S) \in S \/ Table!First(S) = Table!NULL
      /\ Table!NULL \notin Table!Slots
  BY <1>2, Table!FirstFacts, MaxJobsAssumption, PidsAssumption
<1> QED BY <1>1, <1>3

(* maxjid returns 0 or the largest job id on the list.                     *)
LEMMA MaxjidFacts ==
  ASSUME NEW js, \A i \in Slots : js[i].jid \in Nat
  PROVE  /\ maxjid(js) \in Nat
         /\ \A i \in Slots : js[i].jid <= maxjid(js)
         /\ maxjid(js) = 0 \/ \E i \in Slots : js[i].jid = maxjid(js)
<1>1. Table!maxjid(js) = maxjid(js) /\ Table!Slots = Slots
  BY SameTable
<1>2. /\ Table!maxjid(js) \in Nat
      /\ \A i \in Table!Slots : js[i].jid <= Table!maxjid(js)
      /\ Table!maxjid(js) = 0 \/ \E i \in Table!Slots : js[i].jid = Table!maxjid(js)
  <2>1. \A i \in Table!Slots : js[i].jid \in Nat
    BY <1>1
  <2> QED BY <2>1, Table!MaxjidFacts, MaxJobsAssumption, PidsAssumption
<1> QED BY <1>1, <1>2

(* getjobpid returns a slot with the pid, or NULL when no slot has it.     *)
LEMMA GetjobpidFacts ==
  ASSUME NEW js, NEW p \in Nat \ {0}
  PROVE  LET i == getjobpid(js, p)
         IN  \/ i \in Slots /\ js[i].pid = p
             \/ i = NULL /\ \A k \in Slots : js[k].pid # p
<1>1. /\ Table!getjobpid(js, p) = getjobpid(js, p)
      /\ Table!Slots = Slots /\ Table!NULL = NULL
  BY SameTable
<1>2. \/ /\ Table!getjobpid(js, p) \in Table!Slots
         /\ js[Table!getjobpid(js, p)].pid = p
      \/ /\ Table!getjobpid(js, p) = Table!NULL
         /\ \A k \in Table!Slots : js[k].pid # p
  BY Table!GetjobpidFacts, MaxJobsAssumption, PidsAssumption
<1> QED BY <1>1, <1>2

AddOutcome(js, nextid, p, s, t) ==
  \/ /\ FreeSlot(js) = NULL
     /\ t.jobs = js /\ t.nextjid = nextid
     /\ \A k \in Slots : js[k].pid # 0
  \/ /\ FreeSlot(js) # NULL
     /\ \E i \in Slots :
          /\ js[i].pid = 0
          /\ t.jobs = [js EXCEPT ![i] =
                         [pid |-> p, jid |-> nextid, state |-> s]]
          /\ t.nextjid = IF nextid + 1 > MAXJOBS THEN 1 ELSE nextid + 1

(* addjob fills a free slot with a job of the next id, or changes nothing; *)
(* it refuses a process only when the list is full.                        *)
LEMMA AddjobFacts ==
  ASSUME NEW js, NEW nextid \in Nat, NEW p \in Nat \ {0}, NEW s
  PROVE  AddOutcome(js, nextid, p, s, addjob(js, nextid, p, s))
<1>1. /\ Table!addjob(js, nextid, p, s) = addjob(js, nextid, p, s)
      /\ Table!FreeSlot(js) = FreeSlot(js) /\ Table!Slots = Slots /\ Table!NULL = NULL
  BY SameTable
<1>2. Table!AddOutcome(js, nextid, p, s, Table!addjob(js, nextid, p, s))
  BY Table!AddjobFacts, MaxJobsAssumption, PidsAssumption
<1> QED BY <1>1, <1>2, Zenon DEF Table!AddOutcome, AddOutcome

DeleteOutcome(js, nextid, p, t) ==
  \/ /\ t.jobs = js /\ t.nextjid = nextid
     /\ \A k \in Slots : js[k].pid # p
  \/ \E i \in Slots : /\ js[i].pid = p
                      /\ t.jobs = [js EXCEPT ![i] = ClearedJob]
                      /\ t.nextjid = maxjid(t.jobs) + 1

(* deletejob clears a slot of the pid and restarts nextjid above the ids   *)
(* that are left, or changes nothing when the pid is not listed.           *)
LEMMA DeletejobFacts ==
  ASSUME NEW js, NEW nextid, NEW p \in Nat \ {0}
  PROVE  DeleteOutcome(js, nextid, p, deletejob(js, nextid, p))
<1>1. /\ Table!deletejob(js, nextid, p) = deletejob(js, nextid, p)
      /\ Table!Slots = Slots /\ Table!ClearedJob = ClearedJob
      /\ \A l : Table!maxjid(l) = maxjid(l)
  BY SameTable
<1>2. Table!DeleteOutcome(js, nextid, p, Table!deletejob(js, nextid, p))
  BY Table!DeletejobFacts, MaxJobsAssumption, PidsAssumption
<1> QED BY <1>1, <1>2, Zenon DEF Table!DeleteOutcome, DeleteOutcome

(* fgpid returns 0 or the pid of a slot.                                   *)
LEMMA FgpidFacts ==
  ASSUME NEW js
  PROVE  \/ fgpid(js) = 0
         \/ \E i \in Slots : js[i].state = "FG" /\ fgpid(js) = js[i].pid
<1>1. Table!fgpid(js) = fgpid(js) /\ Table!Slots = Slots
  BY SameTable
<1>2. \/ Table!fgpid(js) = 0
      \/ \E i \in Table!Slots : js[i].state = "FG" /\ Table!fgpid(js) = js[i].pid
  BY Table!FgpidFacts, MaxJobsAssumption, PidsAssumption
<1> QED BY <1>1, <1>2

TypeInv == TypeOK /\ Targets

(* A status of the kernel's side: what kill can do to it keeps the types.  *)
LEMMA KillTypes ==
  ASSUME KernelTypeOK, NEW p \in Pids,
         KillINT(p) \/ KillTSTP(p) \/ KillCONT(p)
  PROVE  KernelTypeOK'
BY DEF KillINT, KillTSTP, KillCONT, Die, Stop, kvars, KernelTypeOK,
       Alive, Dead, Signals, Keys

(* A killed, stopped or continued child is still a child.                  *)
LEMMA KillKeepsChildren ==
  ASSUME KernelTypeOK, NEW p \in Pids,
         KillINT(p) \/ KillTSTP(p) \/ KillCONT(p),
         NEW q \in Pids
  PROVE  proc'[q] = "none" <=> proc[q] = "none"
BY DEF KillINT, KillTSTP, KillCONT, Die, Stop, kvars, KernelTypeOK,
       Alive, Dead, Signals, Keys

(* Initially nothing runs.                                                 *)
LEMMA InitTypeInv == Init => TypeInv
<1> SUFFICES ASSUME Init PROVE TypeInv
  OBVIOUS
<1> USE DEF Init, KernelInit
<1>1. KernelTypeOK
  BY DEF KernelTypeOK, Alive
<1>2. jobs \in [Slots -> Job]
  BY DEF initjobs, ClearedJob, JobStates, Job
<1>3. slot \in Slots /\ keys \in 0 .. MaxKeys
  BY MaxJobsAssumption, BoundsAssumption DEF Slots
<1>4. handler \in [Signals -> Frame]
  BY DEF Idle, Frame, Dead
<1>5. Targets
  BY DEF Targets, Idle, Signals, Keys
<1>6. nextjid \in Nat \ {0}
  OBVIOUS
<1>7. pc \in Points /\ pid \in Pids \cup {0, -1} /\ dropped \subseteq Pids
  BY DEF Points
<1>8. bg \in BOOLEAN
  OBVIOUS
<1> QED BY <1>1, <1>2, <1>3, <1>4, <1>5, <1>6, <1>7, <1>8, Zenon DEF TypeInv, TypeOK

(* The job list keeps its type under addjob.                               *)
LEMMA AddjobTypes ==
  ASSUME TypeOK, EvalAddjob
  PROVE  /\ jobs' \in [Slots -> Job]
         /\ nextjid' \in Nat \ {0}
<1> DEFINE s == IF bg THEN "BG" ELSE "FG"
           t == addjob(jobs, nextjid, pid, s)
<1>1. jobs' = t.jobs /\ nextjid' = t.nextjid
  BY DEF EvalAddjob
<1>2. nextjid \in Nat
  BY DEF TypeOK
<1>3. CASE pid \in Pids
  <2>1. pid \in Nat \ {0}
    BY <1>3, PidsAssumption
  <2>2. AddOutcome(jobs, nextjid, pid, s, t)
    BY <2>1, <1>2, AddjobFacts, Zenon
  <2>3. s \in JobStates
    BY DEF JobStates
  <2> HIDE DEF s, t
  <2>4. CASE t.jobs = jobs /\ t.nextjid = nextjid
    BY <1>1, <2>4 DEF TypeOK
  <2>5. ASSUME NEW i \in Slots,
               t.jobs = [jobs EXCEPT ![i] =
                           [pid |-> pid, jid |-> nextjid, state |-> s]],
               t.nextjid = IF nextjid + 1 > MAXJOBS THEN 1 ELSE nextjid + 1
        PROVE  jobs' \in [Slots -> Job] /\ nextjid' \in Nat \ {0}
    <3>1. [pid |-> pid, jid |-> nextjid, state |-> s] \in Job
      BY <1>2, <1>3, <2>3 DEF Job
    <3>2. jobs' \in [Slots -> Job]
      BY <1>1, <2>5, <3>1 DEF TypeOK
    <3> QED BY <1>1, <1>2, <2>5, <3>2
  <2> QED BY <2>2, <2>4, <2>5 DEF AddOutcome
<1>4. CASE pid \notin Pids
  <2>1. pid < 1
    BY <1>4 DEF TypeOK
  <2>2. t = [jobs |-> jobs, nextjid |-> nextjid]
    BY <2>1 DEF addjob
  <2> QED BY <1>1, <2>2 DEF TypeOK
<1> QED BY <1>3, <1>4

(* It keeps its type when the handler deletes a job.                       *)
LEMMA DeletejobTypes ==
  ASSUME TypeOK, NEW p \in Pids
  PROVE  LET t == deletejob(jobs, nextjid, p)
         IN  /\ t.jobs \in [Slots -> Job]
             /\ t.nextjid \in Nat \ {0}
<1> DEFINE t == deletejob(jobs, nextjid, p)
<1> SUFFICES t.jobs \in [Slots -> Job] /\ t.nextjid \in Nat \ {0}
  OBVIOUS
<1>1. DeleteOutcome(jobs, nextjid, p, t)
  <2>1. p \in Nat \ {0}
    BY PidsAssumption
  <2> QED BY <2>1, DeletejobFacts, Zenon
<1> HIDE DEF t
<1>2. CASE t.jobs = jobs /\ t.nextjid = nextjid
  BY <1>2 DEF TypeOK
<1>3. ASSUME NEW i \in Slots, t.jobs = [jobs EXCEPT ![i] = ClearedJob],
             t.nextjid = maxjid(t.jobs) + 1
      PROVE  /\ t.jobs \in [Slots -> Job]
             /\ t.nextjid \in Nat \ {0}
  <2>1. t.jobs \in [Slots -> Job]
    BY <1>3 DEF TypeOK, Job, ClearedJob, JobStates
  <2>2. \A k \in Slots : t.jobs[k].jid \in Nat
    BY <2>1 DEF Job
  <2>3. maxjid(t.jobs) \in Nat
    BY <2>2, MaxjidFacts
  <2> QED BY <1>3, <2>1, <2>3
<1> QED BY <1>1, <1>2, <1>3 DEF DeleteOutcome
-----------------------------------------------------------------------------
(* Going back to the prompt resets the locals.                             *)
LEMMA ToPromptTypes ==
  ASSUME ToPrompt
  PROVE  pc' \in Points /\ bg' \in BOOLEAN /\ pid' \in Pids \cup {0, -1} /\ slot' \in Slots
<1>1. pc' \in Points /\ pid' \in Pids \cup {0, -1}
  BY DEF ToPrompt, Points
<1>2. slot' \in Slots
  BY MaxJobsAssumption DEF ToPrompt, Slots
<1>3. bg' \in BOOLEAN
  BY Zenon DEF ToPrompt
<1> QED BY <1>1, <1>2, <1>3

(* So does the end of listjobs; before it the next slot exists.            *)
LEMMA ListNextTypes ==
  ASSUME TypeInv, ListNext
  PROVE  pc' \in Points /\ bg' \in BOOLEAN /\ pid' \in Pids \cup {0, -1} /\ slot' \in Slots
<1>1. CASE ToPrompt
  BY <1>1, ToPromptTypes
<1>2. CASE slot + 1 \in Slots /\ pc' = "list" /\ slot' = slot + 1 /\ UNCHANGED <<bg, pid>>
  BY <1>2 DEF TypeInv, TypeOK, Points
<1> QED BY <1>1, <1>2 DEF ListNext

(* A step that only moves the main flow keeps the types.                   *)
LEMMA MainOnly ==
  ASSUME TypeInv,
         pc' \in Points, bg' \in BOOLEAN, pid' \in Pids \cup {0, -1}, slot' \in Slots,
         UNCHANGED <<table, handler, dropped, keys, kvars>>
  PROVE  TypeInv'
BY DEF TypeInv, TypeOK, KernelTypeOK, Targets, table, kvars

(* The steps of the main flow keep the types.                              *)
LEMMA MainTypes ==
  ASSUME TypeInv, Main
  PROVE  TypeInv'
<1> USE DEF TypeInv
<1>1. CASE EvalFork
  BY <1>1 DEF EvalFork, Fork, kvars, table, TypeOK, KernelTypeOK, Targets, Points, Alive
<1>2. CASE EvalAddjob
  <2>1. jobs' \in [Slots -> Job] /\ nextjid' \in Nat \ {0}
    BY <1>2, AddjobTypes
  <2>2. pc' \in Points /\ dropped' \subseteq Pids
    BY <1>2 DEF EvalAddjob, TypeOK, Points
  <2>3. UNCHANGED <<bg, pid, slot, handler, keys, kvars>>
    BY <1>2 DEF EvalAddjob
  <2> QED BY <2>1, <2>2, <2>3 DEF TypeOK, KernelTypeOK, Targets, kvars
<1>3. CASE EvalAnnounce
  <2>1. CASE ToPrompt
    BY <1>3, <2>1, ToPromptTypes, MainOnly DEF EvalAnnounce
  <2> QED BY <1>3, <2>1 DEF EvalAnnounce
<1>4. CASE WaitfgTest
  <2>1. CASE ToPrompt
    BY <1>4, <2>1, ToPromptTypes, MainOnly DEF WaitfgTest
  <2>2. CASE pc' = "suspend" /\ UNCHANGED <<bg, pid, slot>>
    BY <1>4, <2>2, MainOnly DEF WaitfgTest, TypeOK, Points
  <2> QED BY <1>4, <2>1, <2>2 DEF WaitfgTest
<1>5. CASE WaitfgSuspend
  BY <1>5 DEF WaitfgSuspend, table, kvars, TypeOK, KernelTypeOK, Targets, Points
<1>6. CASE BgFgKill
  <2>1. jobs[slot].pid \in Pids \cup {0}
    BY DEF TypeOK, Job
  <2>2. KernelTypeOK'
    <3>1. CASE jobs[slot].pid = 0
      BY <1>6, <3>1 DEF BgFgKill, kvars, TypeOK, KernelTypeOK
    <3>2. CASE jobs[slot].pid # 0
      BY <1>6, <2>1, <3>2, KillTypes DEF BgFgKill, TypeOK
    <3> QED BY <3>1, <3>2
  <2>3. /\ pc' = "bgfg_set"
        /\ UNCHANGED <<bg, pid, slot, table, handler, dropped, keys>>
    BY <1>6 DEF BgFgKill
  <2> QED BY <2>2, <2>3 DEF TypeOK, Targets, table, Points
<1>7. CASE BgFgSet
  <2>1. jobs' \in [Slots -> Job]
    BY <1>7 DEF BgFgSet, TypeOK, Job, JobStates
  <2>2. pc' \in Points /\ bg' \in BOOLEAN /\ pid' \in Pids \cup {0, -1} /\ slot' \in Slots
    <3>1. CASE ToPrompt
      BY <3>1, ToPromptTypes
    <3>2. CASE pc' = "waitfg" /\ UNCHANGED <<bg, pid, slot>>
      BY <3>2 DEF TypeOK, Points
    <3> QED BY <1>7, <3>1, <3>2 DEF BgFgSet
  <2>3. UNCHANGED <<nextjid, handler, dropped, keys, kvars>>
    BY <1>7 DEF BgFgSet
  <2> QED BY <2>1, <2>2, <2>3 DEF kvars, TypeOK, KernelTypeOK, Targets
<1>8. CASE ListTest
  <2>1. CASE ListNext
    BY <1>8, <2>1, ListNextTypes, MainOnly DEF ListTest
  <2>2. CASE pc' = "list_print" /\ UNCHANGED <<bg, pid, slot>>
    BY <1>8, <2>2, MainOnly DEF ListTest, TypeOK, Points
  <2> QED BY <1>8, <2>1, <2>2 DEF ListTest
<1>9. CASE ListPrint
  BY <1>9, ListNextTypes, MainOnly DEF ListPrint
<1> QED BY <1>1, <1>2, <1>3, <1>4, <1>5, <1>6, <1>7, <1>8, <1>9 DEF Main

(* The steps of the user keep the types.                                   *)
LEMMA UserTypes ==
  ASSUME TypeInv, User
  PROVE  TypeInv'
<1> USE DEF TypeInv
<1>1. ASSUME NEW b \in BOOLEAN, EvalRun(b) PROVE TypeInv'
  BY <1>1 DEF EvalRun, table, kvars, TypeOK, KernelTypeOK, Targets, Points
<1>2. ASSUME NEW b \in BOOLEAN, BgFgFind(b) PROVE TypeInv'
  <2>1. Named \ {NULL} \subseteq Slots
    <3>1. \A p \in Pids : getjobpid(jobs, p) \in Slots \cup {NULL}
      BY GetjobpidFacts, PidsAssumption
    <3>2. \A i \in Slots : getjobjid(jobs, jobs[i].jid) \in Slots \cup {NULL}
      <4> SUFFICES ASSUME NEW i \in Slots
                   PROVE  getjobjid(jobs, jobs[i].jid) \in Slots \cup {NULL}
        OBVIOUS
      <4> DEFINE S == {k \in Slots : jobs[k].jid = jobs[i].jid}
      <4>1. First(S) \in Slots \cup {NULL}
        <5>1. S \in SUBSET Slots
          OBVIOUS
        <5> HIDE DEF S
        <5>2. First(S) \in S \/ First(S) = NULL
          BY <5>1, FirstFacts
        <5> QED BY <5>1, <5>2
      <4> QED BY <4>1 DEF getjobjid
    <3> QED BY <3>1, <3>2 DEF Named
  <2> QED BY <1>2, <2>1
          DEF BgFgFind, table, kvars, TypeOK, KernelTypeOK, Targets, Points
<1>3. CASE ListStart
  BY <1>3 DEF ListStart, table, kvars, TypeOK, KernelTypeOK, Targets, Points
<1>4. CASE Quit
  BY <1>4 DEF Quit, table, kvars, TypeOK, KernelTypeOK, Targets, Points
<1>5. CASE sigquit_handler
  BY <1>5 DEF sigquit_handler, table, kvars, TypeOK, KernelTypeOK, Targets, Points
<1>6. ASSUME NEW s \in Keys, Key(s) PROVE TypeInv'
  BY <1>6, BoundsAssumption
     DEF Key, main, table, TypeOK, KernelTypeOK, Targets, Signals
<1> QED BY <1>1, <1>2, <1>3, <1>4, <1>5, <1>6 DEF User

(* The steps of the handlers, and their start, keep the types.             *)
LEMMA HandlerTypes ==
  ASSUME TypeInv, Handlers \/ \E s \in Signals : Deliver(s)
  PROVE  TypeInv'
<1> USE DEF TypeInv
<1>1. CASE ChldWait
  <2>1. ASSUME NEW p \in Waitable, Collect(p),
               handler' = [handler EXCEPT !["CHLD"].at = "update",
                                          !["CHLD"].pid = p,
                                          !["CHLD"].how = proc[p]]
        PROVE  TypeInv'
    <3>1. p \in Pids /\ proc[p] \in Dead \cup {"stopped"}
      BY <2>1 DEF Waitable, Zombies, TypeOK, KernelTypeOK
    <3>2. handler' \in [Signals -> Frame]
      <4>1. handler["CHLD"] \in Frame
        BY DEF TypeOK, Signals
      <4>2. [handler["CHLD"] EXCEPT !.at = "update", !.pid = p, !.how = proc[p]] \in Frame
        BY <3>1, <4>1 DEF Frame
      <4>3. handler' = [handler EXCEPT !["CHLD"] =
                          [handler["CHLD"] EXCEPT !.at = "update", !.pid = p, !.how = proc[p]]]
        BY <2>1, <4>1 DEF TypeOK, Frame
      <4> QED BY <4>2, <4>3 DEF TypeOK
    <3>3. Targets'
      BY <2>1, <3>1 DEF Targets, TypeOK, Keys, Signals, Frame
    <3>4. KernelTypeOK'
      BY <2>1 DEF Collect, TypeOK, KernelTypeOK, Dead, Alive
    <3> QED BY <1>1, <3>2, <3>3, <3>4 DEF ChldWait, TypeOK, main, table
  <2>2. CASE Return("CHLD") /\ UNCHANGED kvars
    <3>1. Idle \in Frame
      BY DEF Idle, Frame, Dead
    <3>2. handler' \in [Signals -> Frame]
      BY <2>2, <3>1 DEF Return, TypeOK
    <3>3. Targets'
      BY <2>2 DEF Return, Targets, TypeOK, Keys, Signals, Idle
    <3> QED BY <1>1, <2>2, <3>2, <3>3 DEF ChldWait, TypeOK, KernelTypeOK, kvars, main, table
  <2> QED BY <1>1, <2>1, <2>2 DEF ChldWait
<1>2. CASE ChldUpdate
  <2> DEFINE f == handler["CHLD"]
             i == getjobpid(jobs, f.pid)
             t == deletejob(jobs, nextjid, f.pid)
  <2>1. f.pid \in Pids /\ f.how \in Dead \cup {"stopped"} /\ f.over \in SUBSET Signals
    BY <1>2 DEF ChldUpdate, Runs, Targets, TypeOK, Frame, Signals
  <2>2. UNCHANGED <<bg, pid, slot, keys, kvars>>
    BY <1>2 DEF ChldUpdate
  <2>3. CASE pc' = "crashed" /\ UNCHANGED <<table, dropped, handler>>
    BY <2>2, <2>3 DEF TypeOK, KernelTypeOK, Targets, Points, table, kvars
  <2>4. ASSUME handler' = [handler EXCEPT !["CHLD"] =
                             [Idle EXCEPT !.at = "wait", !.over = f.over]],
               UNCHANGED pc,
               jobs' \in [Slots -> Job], nextjid' \in Nat \ {0}, dropped' \subseteq dropped
        PROVE  TypeInv'
    <3>1. [Idle EXCEPT !.at = "wait", !.over = f.over] \in Frame
      BY <2>1 DEF Idle, Frame, Dead
    <3>2. handler' \in [Signals -> Frame]
      BY <2>4, <3>1 DEF TypeOK
    <3>3. Targets'
      BY <2>4 DEF Targets, TypeOK, Keys, Signals, Idle
    <3> QED BY <2>2, <2>4, <3>2, <3>3 DEF TypeOK, KernelTypeOK, kvars
  <2>5. CASE f.how = "stopped" /\ i # NULL
    <3>1. i \in Slots
      BY <2>1, <2>5, GetjobpidFacts, PidsAssumption
    <3>2. /\ jobs' = [jobs EXCEPT ![i].state = "ST"]
          /\ UNCHANGED <<nextjid, dropped>>
          /\ handler' = [handler EXCEPT !["CHLD"] =
                           [Idle EXCEPT !.at = "wait", !.over = f.over]]
          /\ UNCHANGED pc
      BY <1>2, <2>5 DEF ChldUpdate
    <3>3. jobs' \in [Slots -> Job]
      BY <3>1, <3>2 DEF TypeOK, Job, JobStates
    <3> QED BY <2>4, <3>2, <3>3 DEF TypeOK
  <2>6. CASE f.how # "stopped" /\ (f.how = "exited" \/ i # NULL)
    <3>1. /\ jobs' = t.jobs /\ nextjid' = t.nextjid
          /\ dropped' = dropped \ {f.pid}
          /\ handler' = [handler EXCEPT !["CHLD"] =
                           [Idle EXCEPT !.at = "wait", !.over = f.over]]
          /\ UNCHANGED pc
      BY <1>2, <2>6 DEF ChldUpdate
    <3>2. jobs' \in [Slots -> Job] /\ nextjid' \in Nat \ {0}
      BY <2>1, <3>1, DeletejobTypes
    <3> QED BY <2>4, <3>1, <3>2
  <2>7. CASE f.how # "exited" /\ i = NULL
    BY <1>2, <2>3, <2>7 DEF ChldUpdate
  <2> QED BY <2>5, <2>6, <2>7
<1>3. ASSUME NEW s \in Keys, KeyRead(s) PROVE TypeInv'
  <2>1. fgpid(jobs) \in Pids \cup {0}
    BY FgpidFacts DEF TypeOK, Job
  <2>2. Idle \in Frame
    BY DEF Idle, Frame, Dead
  <2>3. handler' \in [Signals -> Frame]
    BY <1>3, <2>1, <2>2 DEF KeyRead, Return, TypeOK, Frame, Keys, Signals
  <2>4. Targets'
    BY <1>3, <2>1 DEF KeyRead, Return, Targets, TypeOK, Keys, Signals, Idle, Frame
  <2> QED BY <1>3, <2>3, <2>4 DEF KeyRead, TypeOK, KernelTypeOK, main, table, kvars
<1>4. ASSUME NEW s \in Keys, KeyKill(s) PROVE TypeInv'
  <2>1. handler[s].pid \in Pids
    BY <1>4 DEF KeyKill, Runs, Targets
  <2>2. KernelTypeOK'
    BY <1>4, <2>1, KillTypes DEF KeyKill, TypeOK
  <2>3. Idle \in Frame
    BY DEF Idle, Frame, Dead
  <2>4. handler' \in [Signals -> Frame]
    BY <1>4, <2>3 DEF KeyKill, Return, TypeOK, Keys, Signals
  <2>5. Targets'
    BY <1>4 DEF KeyKill, Return, Targets, TypeOK, Keys, Signals, Idle
  <2> QED BY <1>4, <2>2, <2>4, <2>5 DEF KeyKill, TypeOK, main, table
<1>5. ASSUME NEW s \in Signals, Deliver(s) PROVE TypeInv'
  <2> DEFINE f == [Idle EXCEPT !.at = IF s = "CHLD" THEN "wait" ELSE "read",
                               !.over = Active]
  <2>1. f \in Frame /\ f.at \in {"wait", "read"}
    BY DEF Idle, Frame, Dead, Active
  <2>2. handler' = [handler EXCEPT ![s] = f]
    BY <1>5 DEF Deliver
  <2>3. handler' \in [Signals -> Frame]
    BY <2>1, <2>2 DEF TypeOK
  <2> HIDE DEF f
  <2>4. Targets'
    BY <2>1, <2>2 DEF Targets, TypeOK, Keys, Signals
  <2> QED BY <1>5, <2>3, <2>4
          DEF Deliver, TypeOK, KernelTypeOK, Points, table
<1> QED BY <1>1, <1>2, <1>3, <1>4, <1>5 DEF Handlers

(* The steps of the children keep the types.                               *)
LEMMA ChildTypes ==
  ASSUME TypeInv, NEW p \in Pids, ChildSetpgid(p) \/ ChildExec(p) \/ Program(p)
  PROVE  TypeInv'
<1> USE DEF TypeInv
<1>1. KernelTypeOK'
  BY DEF ChildSetpgid, ChildExec, Program, ProgramExits, ProgramKilled, ProgramStops,
         Die, Stop, TypeOK, KernelTypeOK, Alive, Dead, Signals
<1>2. UNCHANGED <<main, table, handler, dropped, keys>>
  BY DEF ChildSetpgid, ChildExec, Program
<1> QED BY <1>1, <1>2 DEF TypeOK, Targets, main, table

(* TypeInv is inductive.                                                   *)
LEMMA NextTypeInv == TypeInv /\ [Next]_vars => TypeInv'
<1> SUFFICES ASSUME TypeInv, [Next]_vars PROVE TypeInv'
  OBVIOUS
<1>1. CASE UNCHANGED vars
  BY <1>1 DEF vars, TypeInv, TypeOK, KernelTypeOK, Targets
<1> QED BY <1>1, MainTypes, UserTypes, HandlerTypes, ChildTypes DEF Next

(* Every variable keeps its type; a key's handler that is about to kill    *)
(* has a child to kill, never the pid 0 of a stale slot.                   *)
THEOREM TypeCorrect == Spec => [](TypeOK /\ Targets)
<1>1. Spec => []TypeInv
  BY InitTypeInv, NextTypeInv, PTL DEF Spec
<1> QED BY <1>1, PTL DEF TypeInv
-----------------------------------------------------------------------------
Inv == TypeInv /\ TableInv

\* The parts of TableInv that Targets, proved with the types, leaves.
Sound == TableSound /\ CrashOnlyAfterOverflow /\ FrameOK /\ ForkOK /\ DroppedOK

(* A step that leaves the list alone, keeps the children of the kernel,    *)
(* does not touch a SIGCHLD handler that is about to act, and does not     *)
(* enter or fork a new job keeps the list sound.                           *)
LEMMA QuietStep ==
  ASSUME Inv, TypeInv',
         UNCHANGED <<table, dropped>>,
         \A p \in Pids : proc'[p] = "none" <=> proc[p] = "none",
         \/ handler'["CHLD"] = handler["CHLD"]
         \/ handler["CHLD"].at # "update" /\ handler'["CHLD"].at # "update",
         pc' \in {"fork", "addjob"} =>
           handler'["CHLD"].at = "idle" /\ nextjid <= JidBound,
         pc' = "addjob" => pc = "addjob" /\ pid' = pid,
         pc' = "crashed" => pc = "crashed",
         pc \in {"addjob", "exited"} => pc' \in {"addjob", "exited"} /\ pid' = pid
  PROVE  Sound'
<1> USE DEF Inv, TableInv
<1>1. \A p \in Pids : BeingReaped(p)' <=> BeingReaped(p)
  BY DEF BeingReaped
<1>2. ListedPids(jobs') = ListedPids(jobs) /\ jobs' = jobs
  BY DEF table
<1>3. ListedPids(jobs) \subseteq Pids /\ dropped \subseteq Pids
  BY DEF ListedPids, TypeInv, TypeOK, Job
<1>4. PidsUnique'
  BY <1>2 DEF TableSound, PidsUnique
<1>5. TableSound'
  BY <1>1, <1>2, <1>3, <1>4 DEF TableSound
<1>6. CrashOnlyAfterOverflow'
  BY DEF CrashOnlyAfterOverflow
<1>7. FrameOK'
  BY <1>2 DEF FrameOK, Targets
<1>8. ForkOK'
  <2>1. "CHLD" \notin Active' <=> handler'["CHLD"].at = "idle"
    BY DEF Active, Signals
  <2> QED BY <1>2, <2>1 DEF ForkOK, table
<1>9. DroppedOK'
  BY <1>1, <1>2, <1>3 DEF DroppedOK
<1> QED BY <1>5, <1>6, <1>7, <1>8, <1>9 DEF Sound

(* When no handler is active, the SIGCHLD handler is idle and nobody is    *)
(* being reaped.                                                           *)
LEMMA NoHandler ==
  ASSUME Active = {}
  PROVE  /\ handler["CHLD"].at = "idle"
         /\ \A p \in Pids : ~ BeingReaped(p)
BY DEF Active, Signals, BeingReaped

(* Initially the list is empty.                                            *)
LEMMA InitSound == Init => Sound
<1> SUFFICES ASSUME Init PROVE Sound
  OBVIOUS
<1>1. ListedPids(jobs) = {}
  BY DEF Init, initjobs, ClearedJob, ListedPids
<1>2. handler["CHLD"].at = "idle"
  BY DEF Init, Idle, Signals
<1>3. TableSound
  BY <1>1 DEF TableSound, PidsUnique, Init, KernelInit, initjobs, ClearedJob
<1> QED BY <1>1, <1>2, <1>3
        DEF Init, Sound, CrashOnlyAfterOverflow, FrameOK, ForkOK, DroppedOK

(* Forking: the child is new, to the list and to the refused ones too.     *)
LEMMA ForkSound ==
  ASSUME Inv, TypeInv', EvalFork
  PROVE  Sound'
<1> USE DEF Inv, TableInv
<1>1. /\ pc = "fork" /\ Active = {} /\ pc' = "addjob"
      /\ UNCHANGED <<bg, slot, table, handler, dropped, keys>>
  BY DEF EvalFork, MainAt
<1>2. handler["CHLD"].at = "idle" /\ \A p \in Pids : ~ BeingReaped(p)
  BY <1>1, NoHandler
<1>3. ListedPids(jobs') = ListedPids(jobs) /\ jobs' = jobs /\ nextjid' = nextjid
  BY <1>1 DEF table
<1>4. ListedPids(jobs) \cup dropped \subseteq Pids
  BY DEF ListedPids, TypeInv, TypeOK, Job
<1>5. \A p \in Pids : ~ BeingReaped(p)'
  BY <1>1, <1>2 DEF BeingReaped
<1>6. nextjid <= JidBound
  BY <1>1 DEF ForkOK
<1>7. "CHLD" \notin Active'
  BY <1>1, <1>2 DEF Active
<1>8. ASSUME NEW p \in Pids, Fork(p), pid' = p PROVE Sound'
  <2>1. /\ proc[p] = "none"
        /\ \A q \in Pids : proc'[q] = "none" <=> (proc[q] = "none" /\ q # p)
    BY <1>8 DEF Fork, TypeInv, TypeOK, KernelTypeOK
  <2>2. p \notin ListedPids(jobs) \cup dropped
    BY <1>2, <2>1 DEF TableSound, DroppedOK
  <2>3. PidsUnique'
    BY <1>3 DEF TableSound, PidsUnique
  <2>4. TableSound'
    BY <1>1, <1>3, <1>4, <1>8, <2>1, <2>3, <1>2 DEF TableSound
  <2>5. ForkOK'
    BY <1>1, <1>3, <1>6, <1>7, <1>8, <2>1, <2>2 DEF ForkOK
  <2>6. DroppedOK'
    BY <1>1, <1>3, <1>2, <1>4, <2>1 DEF DroppedOK
  <2>7. FrameOK' /\ CrashOnlyAfterOverflow'
    BY <1>1, <1>2 DEF FrameOK, CrashOnlyAfterOverflow
  <2> QED BY <2>4, <2>5, <2>6, <2>7 DEF Sound
<1>9. CASE UNCHANGED kvars /\ pid' = -1
  <2>1. proc' = proc /\ pid' \notin Pids
    BY <1>9, PidsAssumption DEF kvars
  <2>2. PidsUnique'
    BY <1>3 DEF TableSound, PidsUnique
  <2>3. TableSound'
    BY <1>1, <1>2, <1>3, <1>4, <2>1, <2>2 DEF TableSound
  <2>4. ForkOK'
    BY <1>1, <1>3, <1>6, <1>7, <2>1 DEF ForkOK
  <2>5. DroppedOK'
    BY <1>1, <1>2, <1>3, <1>4, <2>1 DEF DroppedOK
  <2>6. FrameOK' /\ CrashOnlyAfterOverflow'
    BY <1>1, <1>2 DEF FrameOK, CrashOnlyAfterOverflow
  <2> QED BY <2>3, <2>4, <2>5, <2>6 DEF Sound
<1> QED BY <1>8, <1>9 DEF EvalFork

(* addjob: the new job is the child just forked, or the list is full and   *)
(* the child is remembered as refused.                                     *)
LEMMA AddjobSound ==
  ASSUME Inv, TypeInv', EvalAddjob
  PROVE  Sound'
<1> USE DEF Inv, TableInv
<1> DEFINE s == IF bg THEN "BG" ELSE "FG"
           t == addjob(jobs, nextjid, pid, s)
<1>1. /\ pc = "addjob" /\ Active = {} /\ pc' \in {"announce", "waitfg"}
      /\ UNCHANGED <<bg, pid, slot, handler, keys, kvars>>
      /\ jobs' = t.jobs /\ nextjid' = t.nextjid
      /\ dropped' = IF FreeSlot(jobs) = NULL /\ pid \in Pids
                    THEN dropped \cup {pid} ELSE dropped
  BY DEF EvalAddjob, MainAt
<1>2. handler["CHLD"].at = "idle" /\ \A p \in Pids : ~ BeingReaped(p)
  BY <1>1, NoHandler
<1>3. \A p \in Pids : ~ BeingReaped(p)' /\ proc'[p] = proc[p]
  BY <1>1, <1>2 DEF BeingReaped, kvars
<1>4. ListedPids(jobs) \cup dropped \subseteq Pids /\ nextjid \in Nat
  BY DEF ListedPids, TypeInv, TypeOK, Job
<1>5. FrameOK' /\ CrashOnlyAfterOverflow' /\ ForkOK'
  BY <1>1, <1>2 DEF FrameOK, CrashOnlyAfterOverflow, ForkOK
<1> SUFFICES TableSound' /\ DroppedOK'
  BY <1>5 DEF Sound
<1>6. CASE pid \notin Pids
  <2>1. t = [jobs |-> jobs, nextjid |-> nextjid]
    <3>1. pid < 1
      BY <1>6 DEF TypeInv, TypeOK
    <3> QED BY <3>1 DEF addjob
  <2>2. jobs' = jobs /\ dropped' = dropped
    BY <1>1, <1>6, <2>1
  <2>3. PidsUnique'
    BY <2>2 DEF TableSound, PidsUnique
  <2> HIDE DEF t
  <2> QED BY <1>1, <1>2, <1>3, <1>4, <1>6, <2>2, <2>3 DEF TableSound, DroppedOK
<1>7. CASE pid \in Pids
  <2>1. pid \in Nat \ {0}
    BY <1>7, PidsAssumption
  <2>2. AddOutcome(jobs, nextjid, pid, s, t)
    BY <1>4, <2>1, AddjobFacts, Zenon
  <2>3. pid \notin ListedPids(jobs) \cup dropped /\ proc[pid] # "none"
    BY <1>1, <1>7 DEF ForkOK
  <2> HIDE DEF s, t
  <2>4. CASE FreeSlot(jobs) = NULL /\ t.jobs = jobs
    <3>1. jobs' = jobs /\ dropped' = dropped \cup {pid}
      BY <1>1, <1>7, <2>4
    <3>2. PidsUnique'
      BY <3>1 DEF TableSound, PidsUnique
    <3> QED BY <1>1, <1>2, <1>3, <1>4, <2>3, <3>1, <3>2 DEF TableSound, DroppedOK
  <2>5. ASSUME FreeSlot(jobs) # NULL, NEW i \in Slots, jobs[i].pid = 0,
               t.jobs = [jobs EXCEPT ![i] =
                          [pid |-> pid, jid |-> nextjid, state |-> s]]
        PROVE  TableSound' /\ DroppedOK'
    <3>1. dropped' = dropped
      BY <1>1, <2>5
    <3>2. jobs'[i].pid = pid /\ \A k \in Slots : k # i => jobs'[k] = jobs[k]
      BY <1>1, <2>5 DEF TypeInv, TypeOK
    <3>3. ListedPids(jobs') = ListedPids(jobs) \cup {pid}
      BY <2>1, <2>5, <3>2 DEF ListedPids
    <3>4. PidsUnique'
      <4> SUFFICES ASSUME NEW k \in Slots, NEW j \in Slots,
                          jobs'[k].pid = jobs'[j].pid, jobs'[k].pid # 0
                   PROVE  k = j
        BY DEF PidsUnique
      <4>1. \A m \in Slots : jobs[m].pid # pid
        BY <2>1, <2>3 DEF ListedPids
      <4> QED BY <3>2, <4>1 DEF TableSound, PidsUnique
    <3>5. \A p \in ListedPids(jobs') : proc'[p] # "none"
      BY <1>2, <1>3, <1>4, <1>7, <2>3, <3>3 DEF TableSound
    <3>6. \A p \in Pids : proc'[p] # "none" => p \in ListedPids(jobs') \cup dropped'
      BY <1>1, <1>3, <3>1, <3>3 DEF TableSound
    <3>7. TableSound'
      BY <3>4, <3>5, <3>6 DEF TableSound
    <3>8. DroppedOK'
      BY <1>2, <1>3, <1>4, <2>3, <3>1, <3>3 DEF DroppedOK
    <3> QED BY <3>7, <3>8
  <2> QED BY <2>2, <2>4, <2>5 DEF AddOutcome
<1> QED BY <1>6, <1>7

(* Storing a state in a slot, even a stale one, moves no pid.              *)
LEMMA StateSound ==
  ASSUME Inv, NEW i \in Slots, NEW st, jobs' = [jobs EXCEPT ![i].state = st]
  PROVE  /\ \A k \in Slots : jobs'[k].pid = jobs[k].pid
         /\ ListedPids(jobs') = ListedPids(jobs)
<1>1. \A k \in Slots : jobs'[k].pid = jobs[k].pid
  BY DEF Inv, TypeInv, TypeOK, Job
<1> QED BY <1>1 DEF ListedPids

(* do_bgfg stores a state; no handler runs meanwhile.                      *)
LEMMA BgFgSetSound ==
  ASSUME Inv, TypeInv', BgFgSet
  PROVE  Sound'
<1> USE DEF Inv, TableInv
<1>1. /\ pc = "bgfg_set" /\ Active = {} /\ pc' \in {"prompt", "waitfg"}
      /\ UNCHANGED <<nextjid, handler, dropped, keys, kvars>>
  BY DEF BgFgSet, MainAt, ToPrompt
<1>2. handler["CHLD"].at = "idle" /\ \A p \in Pids : ~ BeingReaped(p)
  BY <1>1, NoHandler
<1>3. \A p \in Pids : ~ BeingReaped(p)' /\ proc'[p] = proc[p]
  BY <1>1, <1>2 DEF BeingReaped, kvars
<1>4. /\ \A k \in Slots : jobs'[k].pid = jobs[k].pid
      /\ ListedPids(jobs') = ListedPids(jobs)
  BY StateSound DEF BgFgSet, TypeInv, TypeOK
<1>5. ListedPids(jobs) \cup dropped \subseteq Pids
  BY DEF ListedPids, TypeInv, TypeOK, Job
<1>6. PidsUnique'
  BY <1>4 DEF TableSound, PidsUnique
<1>7. TableSound'
  BY <1>1, <1>2, <1>3, <1>4, <1>5, <1>6 DEF TableSound
<1> QED BY <1>1, <1>2, <1>3, <1>4, <1>5, <1>7
        DEF Sound, CrashOnlyAfterOverflow, FrameOK, ForkOK, DroppedOK

(* waitpid: a dead child leaves the kernel and is now being reaped.        *)
LEMMA ChldWaitSound ==
  ASSUME Inv, TypeInv', ChldWait
  PROVE  Sound'
<1> USE DEF Inv, TableInv
<1>1. /\ ShellAlive /\ handler["CHLD"].at = "wait"
      /\ UNCHANGED <<main, table, dropped, keys>>
  BY DEF ChldWait, Runs
<1>2. pc \notin {"fork", "addjob", "exited", "crashed"}
  BY <1>1 DEF ForkOK, ShellAlive, Active, Signals
<1>3. CASE Return("CHLD") /\ UNCHANGED kvars
  <2>1. handler'["CHLD"].at = "idle"
    BY <1>3 DEF Return, Idle, TypeInv, TypeOK, Signals
  <2> QED BY <1>1, <1>2, <1>3, <2>1, QuietStep DEF main, kvars
<1>4. ASSUME NEW p \in Waitable, Collect(p),
             handler' = [handler EXCEPT !["CHLD"].at = "update",
                                        !["CHLD"].pid = p,
                                        !["CHLD"].how = proc[p]]
      PROVE  Sound'
  <2>1. handler["CHLD"] \in Frame /\ handler \in [Signals -> Frame] /\ "CHLD" \in Signals
    BY DEF TypeInv, TypeOK, Signals
  <2>2. /\ handler'["CHLD"].at = "update"
        /\ handler'["CHLD"].pid = p
        /\ handler'["CHLD"].how = proc[p]
    BY <1>4, <2>1 DEF Frame
  <2>3. p \in Pids /\ (proc[p] \in Dead \/ proc[p] = "stopped")
    BY DEF Waitable, Zombies, TypeInv, TypeOK, KernelTypeOK
  <2>4. "none" \notin Dead /\ "stopped" \notin Dead
    BY DEF Dead
  <2>5. \A q \in Pids : ~ BeingReaped(q)
    BY <1>1 DEF BeingReaped
  <2>6. p \in ListedPids(jobs) \cup dropped
    BY <1>2, <2>3, <2>4 DEF TableSound
  <2>7. \A q \in Pids : BeingReaped(q)' <=> q = p /\ proc[p] \in Dead
    BY <2>2, <2>3 DEF BeingReaped
  <2>8. \A q \in Pids : proc'[q] = "none" <=>
                         proc[q] = "none" \/ (q = p /\ proc[p] \in Dead)
    BY <1>4, <2>3, <2>4 DEF Collect, TypeInv, TypeOK, KernelTypeOK
  <2>9. jobs' = jobs /\ dropped' = dropped /\ ListedPids(jobs') = ListedPids(jobs) /\ pc' = pc
    BY <1>1 DEF table, main
  <2>10. ListedPids(jobs) \cup dropped \subseteq Pids
    BY DEF ListedPids, TypeInv, TypeOK, Job
  <2>11. PidsUnique'
    BY <2>9 DEF TableSound, PidsUnique
  <2>12. TableSound'
    BY <1>2, <2>5, <2>7, <2>8, <2>9, <2>10, <2>11 DEF TableSound
  <2>13. FrameOK'
    BY <2>2, <2>3, <2>4, <2>6, <2>8, <2>9 DEF FrameOK
  <2>14. DroppedOK'
    BY <2>5, <2>7, <2>8, <2>9, <2>10 DEF DroppedOK
  <2> QED BY <1>2, <2>9, <2>12, <2>13, <2>14 DEF Sound, CrashOnlyAfterOverflow, ForkOK
<1> QED BY <1>3, <1>4 DEF ChldWait

(* What sigchld_handler does with a collected child: it deletes the job of *)
(* a dead one, marks a stopped one, or crashes on one that is not listed.  *)
LEMMA ChldUpdateSound ==
  ASSUME Inv, TypeInv', ChldUpdate
  PROVE  Sound'
<1> USE DEF Inv, TableInv
<1> DEFINE f == handler["CHLD"]
           i == getjobpid(jobs, f.pid)
           t == deletejob(jobs, nextjid, f.pid)
<1>1. /\ ShellAlive /\ f.at = "update"
      /\ UNCHANGED <<bg, pid, slot, keys, kvars>>
  BY DEF ChldUpdate, Runs
<1>2. pc \notin {"fork", "addjob", "exited", "crashed"}
  BY <1>1 DEF ForkOK, ShellAlive, Active, Signals
<1>3. f.pid \in Pids /\ f.pid \in Nat \ {0} /\ f.how \in Dead \cup {"stopped"}
  BY <1>1, PidsAssumption DEF Targets
<1>4. "stopped" \notin Dead
  BY DEF Dead
<1>5. \/ i \in Slots /\ jobs[i].pid = f.pid /\ i # NULL
      \/ i = NULL /\ f.pid \notin ListedPids(jobs)
  <2>1. NULL \notin Slots
    BY MaxJobsAssumption DEF NULL, Slots
  <2>2. \/ i \in Slots /\ jobs[i].pid = f.pid
        \/ i = NULL /\ \A k \in Slots : jobs[k].pid # f.pid
    BY <1>3, GetjobpidFacts
  <2> QED BY <2>1, <2>2 DEF ListedPids
<1>6. f.pid \in ListedPids(jobs) \cup dropped
  BY <1>1, <1>2, <1>3 DEF FrameOK, TableSound
<1>7. ListedPids(jobs) \cup dropped \subseteq Pids
  BY DEF ListedPids, TypeInv, TypeOK, Job
<1>8. proc' = proc
  BY <1>1 DEF kvars
<1> HIDE DEF i, t
<1>9. CASE f.how # "exited" /\ i = NULL
  <2>1. pc' = "crashed" /\ UNCHANGED <<table, dropped, handler>>
    BY <1>9 DEF ChldUpdate, i
  <2>2. dropped' # {}
    BY <1>5, <1>6, <1>9, <2>1
  <2>3. jobs' = jobs /\ dropped' = dropped /\ handler' = handler /\ nextjid' = nextjid
    BY <2>1 DEF table
  <2>4. ListedPids(jobs') = ListedPids(jobs) /\ \A p \in Pids : BeingReaped(p)' <=> BeingReaped(p)
    BY <2>3 DEF BeingReaped
  <2>5. PidsUnique'
    BY <2>3 DEF TableSound, PidsUnique
  <2>6. TableSound'
    BY <1>2, <1>7, <1>8, <2>3, <2>4, <2>5 DEF TableSound
  <2>7. FrameOK' /\ DroppedOK'
    BY <1>7, <1>8, <2>3, <2>4 DEF FrameOK, DroppedOK
  <2> QED BY <2>1, <2>2, <2>6, <2>7 DEF Sound, CrashOnlyAfterOverflow, ForkOK
<1>10. ASSUME handler' = [handler EXCEPT !["CHLD"] =
                            [Idle EXCEPT !.at = "wait", !.over = f.over]]
       PROVE  handler'["CHLD"].at = "wait" /\ \A p \in Pids : ~ BeingReaped(p)'
  <2>1. handler'["CHLD"] = [Idle EXCEPT !.at = "wait", !.over = f.over]
    BY <1>10 DEF TypeInv, TypeOK, Signals
  <2>2. handler'["CHLD"].at = "wait"
    BY <2>1 DEF Idle
  <2> QED BY <2>2 DEF BeingReaped
<1>11. CASE f.how = "stopped" /\ i # NULL
  <2>1. /\ jobs' = [jobs EXCEPT ![i].state = "ST"]
        /\ nextjid' = nextjid /\ dropped' = dropped
        /\ handler' = [handler EXCEPT !["CHLD"] =
                         [Idle EXCEPT !.at = "wait", !.over = f.over]]
        /\ pc' = pc
    BY <1>11 DEF ChldUpdate, i
  <2>2. handler'["CHLD"].at = "wait" /\ \A p \in Pids : ~ BeingReaped(p)'
    BY <1>10, <2>1
  <2>3. /\ \A k \in Slots : jobs'[k].pid = jobs[k].pid
        /\ ListedPids(jobs') = ListedPids(jobs)
    BY <1>5, <1>11, <2>1, StateSound
  <2>4. \A p \in Pids : ~ BeingReaped(p)
    BY <1>4, <1>11 DEF BeingReaped
  <2>5. PidsUnique'
    BY <2>3 DEF TableSound, PidsUnique
  <2>6. TableSound'
    BY <1>2, <1>7, <1>8, <2>1, <2>2, <2>3, <2>4, <2>5 DEF TableSound
  <2>7. DroppedOK'
    BY <1>7, <1>8, <2>1, <2>2, <2>3, <2>4 DEF DroppedOK
  <2> QED BY <1>2, <2>1, <2>2, <2>6, <2>7
          DEF Sound, CrashOnlyAfterOverflow, FrameOK, ForkOK
<1>12. CASE f.how # "stopped" /\ (f.how = "exited" \/ i # NULL)
  <2>1. /\ jobs' = t.jobs /\ nextjid' = t.nextjid
        /\ dropped' = dropped \ {f.pid}
        /\ handler' = [handler EXCEPT !["CHLD"] =
                         [Idle EXCEPT !.at = "wait", !.over = f.over]]
        /\ pc' = pc
    BY <1>12 DEF ChldUpdate, i, t
  <2>2. handler'["CHLD"].at = "wait" /\ \A p \in Pids : ~ BeingReaped(p)'
    BY <1>10, <2>1
  <2>3. DeleteOutcome(jobs, nextjid, f.pid, t)
    BY <1>3, DeletejobFacts, Zenon DEF t
  <2>4. proc[f.pid] = "none"
    BY <1>1, <1>3, <1>12 DEF FrameOK
  <2>5. \A p \in Pids : BeingReaped(p) => p = f.pid
    BY DEF BeingReaped
  <2>6. PidsUnique' /\ ListedPids(jobs') = ListedPids(jobs) \ {f.pid}
    <3>1. CASE t.jobs = jobs /\ \A k \in Slots : jobs[k].pid # f.pid
      <4>1. jobs' = jobs /\ f.pid \notin ListedPids(jobs)
        BY <2>1, <3>1 DEF ListedPids
      <4> QED BY <4>1 DEF TableSound, PidsUnique
    <3>2. ASSUME NEW k \in Slots, jobs[k].pid = f.pid,
                 t.jobs = [jobs EXCEPT ![k] = ClearedJob]
          PROVE  PidsUnique' /\ ListedPids(jobs') = ListedPids(jobs) \ {f.pid}
      <4>1. jobs'[k].pid = 0 /\ \A j \in Slots : j # k => jobs'[j] = jobs[j]
        BY <2>1, <3>2 DEF TypeInv, TypeOK, ClearedJob
      <4>2. \A j \in Slots : j # k => jobs[j].pid # f.pid
        BY <1>3, <3>2 DEF TableSound, PidsUnique
      <4>3. ListedPids(jobs') = ListedPids(jobs) \ {f.pid}
        BY <1>3, <3>2, <4>1, <4>2 DEF ListedPids
      <4>4. PidsUnique'
        <5> SUFFICES ASSUME NEW a \in Slots, NEW b \in Slots,
                            jobs'[a].pid = jobs'[b].pid, jobs'[a].pid # 0
                     PROVE  a = b
          BY DEF PidsUnique
        <5> QED BY <4>1 DEF TableSound, PidsUnique
      <4> QED BY <4>3, <4>4
    <3> QED BY <2>3, <3>1, <3>2 DEF DeleteOutcome
  <2>7. TableSound'
    BY <1>2, <1>7, <1>8, <2>1, <2>4, <2>5, <2>6 DEF TableSound
  <2>8. DroppedOK'
    BY <1>7, <1>8, <2>1, <2>5, <2>6 DEF DroppedOK
  <2> QED BY <1>2, <2>1, <2>2, <2>7, <2>8
          DEF Sound, CrashOnlyAfterOverflow, FrameOK, ForkOK
<1> QED BY <1>9, <1>11, <1>12

(* The steps of the main flow and of the user that change neither the list *)
(* nor the children.                                                       *)
LEMMA MainQuiet ==
  ASSUME Inv, TypeInv',
         UNCHANGED <<table, handler, dropped, proc>>,
         pc \notin {"addjob", "exited", "crashed"},
         pc' \notin {"addjob", "crashed"},
         pc' = "fork" => handler["CHLD"].at = "idle" /\ nextjid <= JidBound
  PROVE  Sound'
BY QuietStep

(* The main flow keeps the list sound.                                     *)
LEMMA MainSound ==
  ASSUME Inv, TypeInv', Main
  PROVE  Sound'
<1>1. CASE EvalFork
  BY <1>1, ForkSound
<1>2. CASE EvalAddjob
  BY <1>2, AddjobSound
<1>3. CASE EvalAnnounce
  BY <1>3, MainQuiet DEF EvalAnnounce, MainAt, ToPrompt, kvars
<1>4. CASE WaitfgTest
  BY <1>4, MainQuiet DEF WaitfgTest, MainAt, ToPrompt, kvars
<1>5. CASE WaitfgSuspend
  BY <1>5, MainQuiet DEF WaitfgSuspend, MainAt, kvars
<1>6. CASE BgFgKill
  <2>1. /\ pc = "bgfg_kill" /\ pc' = "bgfg_set"
        /\ UNCHANGED <<bg, pid, slot, table, handler, dropped, keys>>
    BY <1>6 DEF BgFgKill, MainAt
  <2>2. jobs[slot].pid \in Pids \cup {0}
    BY DEF Inv, TypeInv, TypeOK, Job
  <2>3. \A p \in Pids : proc'[p] = "none" <=> proc[p] = "none"
    <3>1. CASE jobs[slot].pid = 0
      BY <1>6, <3>1 DEF BgFgKill, kvars
    <3>2. CASE jobs[slot].pid # 0
      BY <1>6, <2>2, <3>2, KillKeepsChildren DEF BgFgKill, Inv, TypeInv, TypeOK
    <3> QED BY <3>1, <3>2
  <2> QED BY <2>1, <2>3, QuietStep
<1>7. CASE BgFgSet
  BY <1>7, BgFgSetSound
<1>8. CASE ListTest
  BY <1>8, MainQuiet DEF ListTest, ListNext, MainAt, ToPrompt, kvars
<1>9. CASE ListPrint
  BY <1>9, MainQuiet DEF ListPrint, ListNext, MainAt, ToPrompt, kvars
<1> QED BY <1>1, <1>2, <1>3, <1>4, <1>5, <1>6, <1>7, <1>8, <1>9 DEF Main

(* The user keeps the list sound.                                          *)
LEMMA UserSound ==
  ASSUME Inv, TypeInv', User
  PROVE  Sound'
<1>1. ASSUME NEW b \in BOOLEAN, EvalRun(b) PROVE Sound'
  <2>1. handler["CHLD"].at = "idle"
    BY <1>1, NoHandler DEF EvalRun, MainAt
  <2> QED BY <1>1, <2>1, MainQuiet DEF EvalRun, MainAt, kvars
<1>2. ASSUME NEW b \in BOOLEAN, BgFgFind(b) PROVE Sound'
  BY <1>2, MainQuiet DEF BgFgFind, MainAt, kvars
<1>3. CASE ListStart
  BY <1>3, MainQuiet DEF ListStart, MainAt, kvars
<1>4. CASE Quit
  BY <1>4, MainQuiet DEF Quit, MainAt, kvars
<1>5. CASE sigquit_handler
  BY <1>5, QuietStep DEF sigquit_handler, ShellAlive, kvars
<1>6. ASSUME NEW s \in Keys, Key(s) PROVE Sound'
  <2>1. pc \in {"fork", "addjob"} => handler["CHLD"].at = "idle" /\ nextjid <= JidBound
    BY DEF Inv, TableInv, ForkOK, Active, Signals
  <2> QED BY <1>6, <2>1, QuietStep DEF Key, main
<1> QED BY <1>1, <1>2, <1>3, <1>4, <1>5, <1>6 DEF User

(* The handlers, and their start, keep the list sound: SIGCHLD does not    *)
(* interrupt the main flow between the block before fork and addjob.       *)
LEMMA HandlerSound ==
  ASSUME Inv, TypeInv', Handlers \/ \E s \in Signals : Deliver(s)
  PROVE  Sound'
<1>1. pc \in {"fork", "addjob"} => handler["CHLD"].at = "idle" /\ nextjid <= JidBound
  BY DEF Inv, TableInv, ForkOK, Active, Signals
<1>2. handler \in [Signals -> Frame] /\ "CHLD" \notin Keys
  BY DEF Inv, TypeInv, TypeOK, Keys
<1>3. CASE ChldWait
  BY <1>3, ChldWaitSound
<1>4. CASE ChldUpdate
  BY <1>4, ChldUpdateSound
<1>5. ASSUME NEW s \in Keys, KeyRead(s) PROVE Sound'
  <2>1. handler'["CHLD"] = handler["CHLD"]
    <3>1. CASE handler' = [handler EXCEPT ![s].at = "kill", ![s].pid = fgpid(jobs)]
      BY <1>2, <3>1 DEF Signals
    <3>2. CASE Return(s)
      BY <1>2, <3>2 DEF Return
    <3> QED BY <1>5, <3>1, <3>2 DEF KeyRead
  <2> QED BY <1>1, <1>5, <2>1, QuietStep DEF KeyRead, main, kvars
<1>6. ASSUME NEW s \in Keys, KeyKill(s) PROVE Sound'
  <2>1. handler'["CHLD"] = handler["CHLD"]
    BY <1>2, <1>6 DEF KeyKill, Return
  <2>2. handler[s].pid \in Pids
    BY <1>6 DEF KeyKill, Runs, Inv, TypeInv, Targets
  <2>3. \A p \in Pids : proc'[p] = "none" <=> proc[p] = "none"
    BY <1>6, <2>2, KillKeepsChildren DEF KeyKill, Inv, TypeInv, TypeOK
  <2> QED BY <1>1, <1>6, <2>1, <2>3, QuietStep DEF KeyKill, main
<1>7. ASSUME NEW s \in Signals, Deliver(s) PROVE Sound'
  <2>1. ShellAlive /\ s \notin Blocked
    BY <1>7 DEF Deliver
  <2>2. \/ pc' = pc
        \/ pc' = "waitfg" /\ pc = "suspended"
    BY <1>7 DEF Deliver
  <2>3. UNCHANGED <<bg, pid, slot, table, dropped, keys, proc>>
    BY <1>7 DEF Deliver
  <2>4. CASE s = "CHLD"
    <3>1. handler["CHLD"].at = "idle" /\ pc \notin {"fork", "addjob"}
      BY <2>1, <2>4 DEF Blocked, Active
    <3>2. handler'["CHLD"].at = "wait"
      BY <1>2, <1>7, <2>4 DEF Deliver, Idle
    <3> QED BY <2>1, <2>2, <2>3, <3>1, <3>2, QuietStep DEF ShellAlive
  <2>5. CASE s # "CHLD"
    <3>1. handler'["CHLD"] = handler["CHLD"]
      BY <1>2, <1>7, <2>5 DEF Deliver, Signals
    <3> QED BY <1>1, <2>1, <2>2, <2>3, <3>1, QuietStep DEF ShellAlive
  <2> QED BY <2>4, <2>5
<1> QED BY <1>3, <1>4, <1>5, <1>6, <1>7 DEF Handlers

(* The children keep the list sound.                                       *)
LEMMA ChildSound ==
  ASSUME Inv, TypeInv', NEW p \in Pids, ChildSetpgid(p) \/ ChildExec(p) \/ Program(p)
  PROVE  Sound'
<1>1. pc \in {"fork", "addjob"} => handler["CHLD"].at = "idle" /\ nextjid <= JidBound
  BY DEF Inv, TableInv, ForkOK, Active, Signals
<1>2. UNCHANGED <<main, table, handler, dropped, keys>>
  BY DEF ChildSetpgid, ChildExec, Program
<1>3. \A q \in Pids : proc'[q] = "none" <=> proc[q] = "none"
  BY DEF ChildSetpgid, ChildExec, Program, ProgramExits, ProgramKilled, ProgramStops,
         Die, Stop, Inv, TypeInv, TypeOK, KernelTypeOK, Alive, Dead
<1> QED BY <1>1, <1>2, <1>3, QuietStep DEF main

(* Inv is inductive.                                                       *)
LEMMA NextInv == Inv /\ [Next]_vars => Inv'
<1> SUFFICES ASSUME Inv, [Next]_vars PROVE Inv'
  OBVIOUS
<1>1. TypeInv'
  BY NextTypeInv DEF Inv
<1>2. CASE Next
  BY <1>1, <1>2, MainSound, UserSound, HandlerSound, ChildSound
     DEF Next, Inv, TableInv, Sound, TypeInv
<1>3. CASE UNCHANGED vars
  <2>1. UNCHANGED <<table, dropped, handler, proc, pc, pid>>
    BY <1>3 DEF vars, table
  <2>2. pc \in {"fork", "addjob"} => handler["CHLD"].at = "idle" /\ nextjid <= JidBound
    BY DEF Inv, TableInv, ForkOK, Active, Signals
  <2>3. Sound'
    BY <1>1, <2>1, <2>2, QuietStep
  <2> QED BY <1>1, <2>3 DEF Inv, TableInv, Sound, TypeInv
<1> QED BY <1>2, <1>3

(* The inductive invariant holds in every behaviour of the shell.          *)
THEOREM InvHolds == Spec => []Inv
<1>1. Init => Inv
  BY InitTypeInv, InitSound DEF Inv, TableInv, Sound, TypeInv
<1> QED BY <1>1, NextInv, PTL DEF Spec

(* What the shell's routines rely on wherever an interrupt finds them: the *)
(* frames of the handlers, the window between fork and addjob, the child   *)
(* that addjob had no room for, and where a signal is aimed.               *)
THEOREM TableInvariant == Spec => []TableInv
<1>1. Inv => TableInv
  BY DEF Inv
<1> QED BY <1>1, InvHolds, PTL

(* The job list and the kernel agree on who the children of the shell are, *)
(* whatever signals come between fork, addjob, waitpid and deletejob.      *)
THEOREM ListIsSound == Spec => []TableSound
<1>1. Inv => TableSound
  BY DEF Inv, TableInv
<1> QED BY <1>1, InvHolds, PTL

(* The shell crashes only over a child the full list refused.              *)
THEOREM NoCrashWithRoom == Spec => []CrashOnlyAfterOverflow
<1>1. Inv => CrashOnlyAfterOverflow
  BY DEF Inv, TableInv
<1> QED BY <1>1, InvHolds, PTL
-----------------------------------------------------------------------------
(* What raises a status for waitpid also raises SIGCHLD.                   *)
LEMMA NoChildForgottenStep ==
  ASSUME TypeInv, NoChildForgotten, [Next]_vars
  PROVE  NoChildForgotten'
<1> USE DEF NoChildForgotten
<1>1. handler \in [Signals -> Frame] /\ "CHLD" \in Signals /\ KernelTypeOK
  BY DEF TypeInv, TypeOK, Signals
<1>2. "CHLD" \in Active <=> handler["CHLD"].at # "idle"
  BY DEF Active, Signals
<1>3. "CHLD" \in Active' <=> handler'["CHLD"].at # "idle"
  BY DEF Active, Signals
<1>4. ASSUME Waitable' \subseteq Waitable \/ "CHLD" \in pending',
             pending \subseteq pending', handler'["CHLD"] = handler["CHLD"]
      PROVE  NoChildForgotten'
  BY <1>2, <1>3, <1>4
<1>5. ASSUME UNCHANGED <<kvars, handler>> PROVE NoChildForgotten'
  BY <1>4, <1>5 DEF kvars, Waitable, Zombies
<1>6. ASSUME NEW p \in Pids, KillINT(p) \/ KillTSTP(p) \/ KillCONT(p),
             handler'["CHLD"] = handler["CHLD"]
      PROVE  NoChildForgotten'
  <2>1. Waitable' \subseteq Waitable \/ "CHLD" \in pending'
    BY <1>1, <1>6 DEF KillINT, KillTSTP, KillCONT, Die, Stop, kvars, Waitable,
       Zombies, KernelTypeOK, Dead
  <2>2. pending \subseteq pending'
    BY <1>6 DEF KillINT, KillTSTP, KillCONT, Die, Stop, kvars
  <2> QED BY <1>4, <1>6, <2>1, <2>2
<1>7. CASE UNCHANGED vars
  BY <1>5, <1>7 DEF vars, kvars
<1>8. CASE Main
  <2>1. CASE EvalFork
    <3>1. ASSUME NEW p \in Pids, Fork(p) PROVE Waitable' \subseteq Waitable
      BY <1>1, <3>1 DEF Fork, Waitable, Zombies, KernelTypeOK, Dead
    <3>2. CASE UNCHANGED kvars
      BY <1>5, <2>1, <3>2 DEF EvalFork
    <3> QED BY <1>4, <2>1, <3>1, <3>2 DEF EvalFork, Fork
  <2>2. CASE BgFgKill
    <3>1. jobs[slot].pid \in Pids \cup {0}
      BY DEF TypeInv, TypeOK, Job
    <3> QED BY <1>5, <1>6, <2>2, <3>1 DEF BgFgKill
  <2>3. CASE EvalAddjob \/ EvalAnnounce \/ WaitfgTest \/ WaitfgSuspend
              \/ BgFgSet \/ ListTest \/ ListPrint
    BY <1>5, <2>3 DEF EvalAddjob, EvalAnnounce, WaitfgTest, WaitfgSuspend,
                      BgFgSet, ListTest, ListPrint
  <2> QED BY <1>8, <2>1, <2>2, <2>3 DEF Main
<1>9. CASE User
  <2>1. ASSUME NEW s \in Keys, Key(s) PROVE NoChildForgotten'
    BY <1>4, <2>1 DEF Key, Waitable, Zombies
  <2>2. CASE (\E b \in BOOLEAN : EvalRun(b) \/ BgFgFind(b)) \/ ListStart \/ Quit
              \/ sigquit_handler
    BY <1>5, <2>2 DEF EvalRun, BgFgFind, ListStart, Quit, sigquit_handler
  <2> QED BY <1>9, <2>1, <2>2 DEF User
<1>10. CASE ChldWait
  <2>1. ASSUME NEW p \in Waitable,
               handler' = [handler EXCEPT !["CHLD"].at = "update",
                                          !["CHLD"].pid = p,
                                          !["CHLD"].how = proc[p]]
        PROVE  NoChildForgotten'
    <3>1. handler'["CHLD"].at = "update"
      BY <1>1, <2>1 DEF Frame
    <3> QED BY <1>3, <3>1
  <2>2. CASE Waitable = {} /\ UNCHANGED kvars
    BY <2>2 DEF kvars, Waitable, Zombies
  <2> QED BY <1>10, <2>1, <2>2 DEF ChldWait
<1>11. CASE ChldUpdate
  <2>1. handler' = handler \/ handler'["CHLD"].at = "wait"
    BY <1>1, <1>11 DEF ChldUpdate, Idle
  <2>2. handler["CHLD"].at # "idle"
    BY <1>11 DEF ChldUpdate, Runs
  <2> QED BY <1>3, <2>1, <2>2
<1>12. ASSUME NEW s \in Keys, KeyRead(s) PROVE NoChildForgotten'
  <2>1. handler'["CHLD"] = handler["CHLD"]
    <3>1. CASE handler' = [handler EXCEPT ![s].at = "kill", ![s].pid = fgpid(jobs)]
      BY <1>1, <3>1 DEF Signals, Keys
    <3>2. CASE Return(s)
      BY <1>1, <3>2 DEF Return, Keys
    <3> QED BY <1>12, <3>1, <3>2 DEF KeyRead
  <2> QED BY <1>4, <1>12, <2>1 DEF KeyRead, kvars, Waitable, Zombies
<1>13. ASSUME NEW s \in Keys, KeyKill(s) PROVE NoChildForgotten'
  <2>1. handler'["CHLD"] = handler["CHLD"]
    BY <1>1, <1>13 DEF KeyKill, Return, Keys
  <2>2. handler[s].pid \in Pids
    BY <1>13 DEF KeyKill, Runs, TypeInv, Targets
  <2> QED BY <1>6, <1>13, <2>1, <2>2 DEF KeyKill
<1>14. ASSUME NEW s \in Signals, Deliver(s) PROVE NoChildForgotten'
  <2>1. Waitable' = Waitable
    BY <1>14 DEF Deliver, Waitable, Zombies
  <2>2. CASE s = "CHLD"
    <3>1. handler'["CHLD"].at = "wait"
      BY <1>1, <1>14, <2>2 DEF Deliver, Idle
    <3> QED BY <1>3, <3>1
  <2>3. CASE s # "CHLD"
    <3>1. handler'["CHLD"] = handler["CHLD"] /\ ("CHLD" \in pending => "CHLD" \in pending')
      BY <1>1, <1>14, <2>3 DEF Deliver
    <3> QED BY <1>2, <1>3, <2>1, <3>1
  <2> QED BY <2>2, <2>3
<1>15. ASSUME NEW p \in Pids, ChildSetpgid(p) \/ ChildExec(p) \/ Program(p)
       PROVE  NoChildForgotten'
  <2>1. handler' = handler
    BY <1>15 DEF ChildSetpgid, ChildExec, Program
  <2>2. Waitable' \subseteq Waitable \/ "CHLD" \in pending'
    BY <1>1, <1>15 DEF ChildSetpgid, ChildExec, Program, ProgramExits, ProgramKilled,
       ProgramStops, Die, Stop, Waitable, Zombies, KernelTypeOK, Dead
  <2>3. pending \subseteq pending'
    BY <1>15 DEF ChildSetpgid, ChildExec, Program, ProgramExits, ProgramKilled,
       ProgramStops, Die, Stop
  <2> QED BY <1>4, <2>1, <2>2, <2>3
<1> QED BY <1>7, <1>8, <1>9, <1>10, <1>11, <1>12, <1>13, <1>14, <1>15 DEF Next, Handlers

(* While waitpid has a child to report, SIGCHLD is pending or its handler  *)
(* is in its loop, although SIGCHLDs coalesce.                             *)
THEOREM NobodyForgotten == Spec => []NoChildForgotten
<1>1. Init => NoChildForgotten
  BY DEF Init, KernelInit, NoChildForgotten, Waitable, Zombies, Dead
<1>2. TypeInv /\ NoChildForgotten /\ [Next]_vars => NoChildForgotten'
  BY NoChildForgottenStep
<1>3. Spec => []TypeInv
  BY InitTypeInv, NextTypeInv, PTL DEF Spec
<1> QED BY <1>1, <1>2, <1>3, PTL DEF Spec
-----------------------------------------------------------------------------
(* The routines of JobList are those of the shell.                         *)
LEMMA SameRoutines ==
  /\ \A n \in Pids : \A st : List!addjob(jobs, nextjid, n, st) = addjob(jobs, nextjid, n, st)
  /\ \A n \in Pids : List!deletejob(jobs, nextjid, n) = deletejob(jobs, nextjid, n)
  /\ List!ListedPids(jobs) = ListedPids(jobs)
  /\ List!Slots = Slots
<1>1. List!Slots = Slots /\ List!NULL = NULL /\ List!ClearedJob = ClearedJob
  BY DEF List!Slots, Slots, List!NULL, NULL, List!ClearedJob, ClearedJob
<1>2. \A S : List!First(S) = First(S)
  BY <1>1 DEF List!First, First, List!Min, Min
<1>3. List!FreeSlot(jobs) = FreeSlot(jobs)
  BY <1>1, <1>2 DEF List!FreeSlot, FreeSlot
<1>4. \A n : List!getjobpid(jobs, n) = getjobpid(jobs, n)
  BY <1>1, <1>2 DEF List!getjobpid, getjobpid
<1>5. \A js : List!maxjid(js) = maxjid(js)
  BY <1>1 DEF List!maxjid, maxjid, List!Max, Max
<1>6. \A n \in Pids : \A st : List!addjob(jobs, nextjid, n, st) = addjob(jobs, nextjid, n, st)
  BY <1>1, <1>3, Zenon DEF List!addjob, addjob
<1>7. \A n \in Pids : List!deletejob(jobs, nextjid, n) = deletejob(jobs, nextjid, n)
  BY <1>1, <1>4, <1>5, Zenon DEF List!deletejob, deletejob
<1>8. List!ListedPids(jobs) = ListedPids(jobs)
  BY <1>1 DEF List!ListedPids, ListedPids
<1> QED BY <1>1, <1>6, <1>7, <1>8

(* Every step of the shell is a step of the job list or leaves it alone.   *)
LEMMA ListStep == Inv /\ [Next]_vars => [List!Next]_List!vars
<1> SUFFICES ASSUME Inv, [Next]_vars PROVE [List!Next]_List!vars
  OBVIOUS
<1>1. CASE UNCHANGED table
  BY <1>1 DEF table, List!vars
<1>2. CASE EvalAddjob
  <2> DEFINE s == IF bg THEN "BG" ELSE "FG"
             t == addjob(jobs, nextjid, pid, s)
  <2>1. jobs' = t.jobs /\ nextjid' = t.nextjid /\ pc = "addjob"
    BY <1>2 DEF EvalAddjob, MainAt
  <2>2. CASE pid \notin Pids
    <3>1. pid < 1
      BY <2>2 DEF Inv, TypeInv, TypeOK
    <3>2. t = [jobs |-> jobs, nextjid |-> nextjid]
      BY <3>1 DEF addjob
    <3> HIDE DEF t
    <3> QED BY <1>1, <2>1, <3>2 DEF table
  <2>3. CASE pid \in Pids
    <3>1. pid \notin ListedPids(jobs) /\ nextjid <= JidBound
      BY <2>1, <2>3 DEF Inv, TableInv, ForkOK
    <3>2. List!addjob(jobs, nextjid, pid, s) = t
      BY <2>3, SameRoutines
    <3>3. s \in {"FG", "BG"}
      OBVIOUS
    <3> HIDE DEF s, t
    <3>4. List!Add(pid, s)
      BY <2>1, <3>1, <3>2, SameRoutines DEF List!Add
    <3> QED BY <2>3, <3>3, <3>4 DEF List!Next
  <2> QED BY <2>2, <2>3
<1>3. CASE ChldUpdate
  <2> DEFINE p == handler["CHLD"].pid
             i == getjobpid(jobs, p)
  <2>1. p \in Pids /\ p \in Nat \ {0}
    BY <1>3, PidsAssumption DEF ChldUpdate, Runs, Inv, TableInv, Targets
  <2>2. \/ UNCHANGED table
        \/ /\ jobs' = [jobs EXCEPT ![i].state = "ST"] /\ nextjid' = nextjid
           /\ i # NULL
        \/ /\ jobs' = deletejob(jobs, nextjid, p).jobs
           /\ nextjid' = deletejob(jobs, nextjid, p).nextjid
    BY <1>3 DEF ChldUpdate
  <2>3. CASE /\ jobs' = [jobs EXCEPT ![i].state = "ST"] /\ nextjid' = nextjid
             /\ i # NULL
    <3>1. i \in Slots
      BY <2>1, <2>3, GetjobpidFacts
    <3>2. List!SetState(i, "ST")
      BY <2>3 DEF List!SetState
    <3> HIDE DEF i
    <3> QED BY <3>1, <3>2, SameRoutines DEF List!Next
  <2>4. CASE /\ jobs' = deletejob(jobs, nextjid, p).jobs
             /\ nextjid' = deletejob(jobs, nextjid, p).nextjid
    <3>1. List!Delete(p)
      BY <2>1, <2>4, SameRoutines DEF List!Delete
    <3> QED BY <2>1, <3>1 DEF List!Next
  <2> QED BY <1>1, <2>2, <2>3, <2>4
<1>4. CASE BgFgSet
  <2>1. PICK s \in {"FG", "BG"} : jobs' = [jobs EXCEPT ![slot].state = s] /\ nextjid' = nextjid
    BY <1>4 DEF BgFgSet
  <2>2. slot \in Slots
    BY DEF Inv, TypeInv, TypeOK
  <2>3. List!SetState(slot, s)
    BY <2>1 DEF List!SetState
  <2> QED BY <2>2, <2>3, SameRoutines DEF List!Next
<1>5. CASE EvalFork \/ EvalAnnounce \/ WaitfgTest \/ WaitfgSuspend \/ BgFgKill
           \/ ListTest \/ ListPrint \/ User
  BY <1>1, <1>5
     DEF EvalFork, EvalAnnounce, WaitfgTest, WaitfgSuspend, BgFgKill, ListTest,
         ListPrint, User, EvalRun, BgFgFind, ListStart, Quit, sigquit_handler, Key
<1>6. CASE ChldWait \/ (\E s \in Keys : KeyRead(s) \/ KeyKill(s)) \/ (\E s \in Signals : Deliver(s))
  BY <1>1, <1>6 DEF ChldWait, KeyRead, KeyKill, Deliver
<1>7. CASE \E p \in Pids : ChildSetpgid(p) \/ ChildExec(p) \/ Program(p)
  BY <1>1, <1>7 DEF ChildSetpgid, ChildExec, Program
<1>8. CASE UNCHANGED vars
  BY <1>1, <1>8 DEF vars, table
<1> QED BY <1>2, <1>3, <1>4, <1>5, <1>6, <1>7, <1>8 DEF Next, Main, Handlers

(* The shell implements JobList: what JobListProofs shows of job ids holds *)
(* of the shell, its races included.                                       *)
THEOREM ImplementsJobList == Spec => ListSpec
<1>1. Init => List!Init
  BY DEF Init, List!Init, initjobs, List!initjobs, Slots, List!Slots,
         ClearedJob, List!ClearedJob
<1> QED BY <1>1, ListStep, InvHolds, PTL DEF Spec, ListSpec, List!Spec

-----------------------------------------------------------------------------
\* The states of the jobs.

Halted(p) == proc[p] \in {"stopped"} \cup Dead

(* StoppedIsStopped, a slot and a pid at a time.                           *)
StoppedSlots ==
  \A i \in Slots, p \in Pids :
    ShellAlive /\ jobs[i].state = "ST" /\ jobs[i].pid = p =>
      \/ Halted(p) \/ BeingReaped(p)
      \/ pc = "bgfg_set" /\ slot = i

\* A child whose stop the handler has collected does not run before its job is
\* marked: do_bgfg, which alone continues children, waits for the handler.
CollectedOK ==
  \A p \in Pids :
    handler["CHLD"].at = "update" /\ handler["CHLD"].how = "stopped"
      /\ handler["CHLD"].pid = p => Halted(p)

Stopped == StoppedSlots /\ CollectedOK

(* A step that leaves the list and SIGCHLD's handler alone, lets no halted *)
(* child run and does not leave do_bgfg keeps what ST says.                *)
LEMMA SteadyStep ==
  ASSUME Stopped, jobs' = jobs,
         \/ handler'["CHLD"] = handler["CHLD"]
         \/ handler["CHLD"].at # "update" /\ handler'["CHLD"].at # "update",
         \A p \in Pids : Halted(p) => Halted(p)',
         pc = "bgfg_set" => (pc' = "bgfg_set" /\ slot' = slot) \/ ~ShellAlive',
         ShellAlive' => ShellAlive
  PROVE  Stopped'
<1>1. \A p \in Pids : BeingReaped(p) => BeingReaped(p)'
  BY DEF BeingReaped
<1>2. StoppedSlots'
  BY <1>1 DEF Stopped, StoppedSlots
<1>3. CollectedOK'
  BY DEF Stopped, CollectedOK
<1> QED BY <1>2, <1>3 DEF Stopped

(* The steps of the kernel that do not continue a child let no halted      *)
(* child run.                                                              *)
LEMMA KernelHalts ==
  ASSUME TypeInv,
         \/ UNCHANGED proc
         \/ \E q \in Pids : \/ Fork(q) \/ KillINT(q) \/ KillTSTP(q)
                            \/ ChildSetpgid(q) \/ ChildExec(q) \/ Program(q),
         NEW p \in Pids, Halted(p)
  PROVE  Halted(p)'
<1> USE DEF TypeInv, TypeOK, KernelTypeOK, Halted, Dead
<1>1. CASE UNCHANGED proc
  BY <1>1
<1>2. ASSUME NEW q \in Pids,
             \/ Fork(q) \/ KillINT(q) \/ KillTSTP(q)
             \/ ChildSetpgid(q) \/ ChildExec(q) \/ Program(q)
      PROVE  Halted(p)'
  BY <1>2 DEF Fork, KillINT, KillTSTP, ChildSetpgid, ChildExec, Program,
              ProgramExits, ProgramKilled, ProgramStops, Die, Stop, kvars
<1> QED BY <1>1, <1>2

(* A new job is FG or BG: addjob marks nobody stopped.                     *)
LEMMA AddjobStopped ==
  ASSUME TypeInv, Stopped, EvalAddjob
  PROVE  Stopped'
<1> DEFINE s == IF bg THEN "BG" ELSE "FG"
           t == addjob(jobs, nextjid, pid, s)
<1> USE DEF TypeInv
<1>1. /\ jobs' = t.jobs /\ pc = "addjob"
      /\ pc' # "bgfg_set" /\ UNCHANGED <<handler, proc>>
  BY DEF EvalAddjob, MainAt, kvars
<1>2. s # "ST"
  OBVIOUS
<1>3. jobs' = jobs \/ \E i \in Slots :
        jobs' = [jobs EXCEPT ![i] = [pid |-> pid, jid |-> nextjid, state |-> s]]
  <2>1. CASE pid \in Pids
    <3>1. pid \in Nat \ {0} /\ nextjid \in Nat
      BY <2>1, PidsAssumption DEF TypeOK
    <3>2. AddOutcome(jobs, nextjid, pid, s, t)
      BY <3>1, AddjobFacts, Zenon
    <3> HIDE DEF s, t
    <3> QED BY <1>1, <3>2 DEF AddOutcome
  <2>2. CASE pid \notin Pids
    <3>1. pid < 1
      BY <2>2 DEF TypeOK
    <3>2. t.jobs = jobs
      BY <3>1 DEF addjob
    <3> QED BY <1>1, <3>2
  <2> QED BY <2>1, <2>2
<1> HIDE DEF s, t
<1>4. \A i \in Slots, p \in Pids :
        jobs'[i].state = "ST" /\ jobs'[i].pid = p =>
          jobs[i].state = "ST" /\ jobs[i].pid = p
  BY <1>2, <1>3 DEF TypeOK
<1>5. ShellAlive
  BY <1>1 DEF ShellAlive
<1>6. StoppedSlots'
  BY <1>1, <1>4, <1>5 DEF Stopped, StoppedSlots, Halted, BeingReaped
<1>7. CollectedOK'
  BY <1>1 DEF Stopped, CollectedOK, Halted
<1> QED BY <1>6, <1>7 DEF Stopped

(* bg and fg continue the job of one slot, which no other slot lists, and  *)
(* stay in do_bgfg until the slot's new state is stored.                   *)
LEMMA BgFgKillStopped ==
  ASSUME Inv, Stopped, BgFgKill
  PROVE  Stopped'
<1> USE DEF Inv, TypeInv
<1>1. /\ pc = "bgfg_kill" /\ pc' = "bgfg_set" /\ handler["CHLD"].at = "idle"
      /\ UNCHANGED <<slot, jobs, handler>>
  BY DEF BgFgKill, MainAt, Active, Signals, table
<1>2. \A p \in Pids : p # jobs[slot].pid => proc'[p] = proc[p]
  BY PidsAssumption
     DEF BgFgKill, KillCONT, Die, kvars, TypeOK, KernelTypeOK, Job
<1>3. StoppedSlots'
  <2> SUFFICES ASSUME NEW i \in Slots, NEW p \in Pids,
                      jobs[i].state = "ST", jobs[i].pid = p, i # slot
               PROVE  Halted(p)'
    BY <1>1 DEF StoppedSlots
  <2>1. p # 0 /\ slot \in Slots
    BY PidsAssumption DEF TypeOK
  <2>2. p # jobs[slot].pid
    BY <2>1 DEF TableInv, TableSound, PidsUnique
  <2>3. Halted(p)
    BY <1>1 DEF Stopped, StoppedSlots, BeingReaped, ShellAlive
  <2> QED BY <1>2, <2>2, <2>3 DEF Halted
<1>4. CollectedOK'
  BY <1>1 DEF CollectedOK
<1> QED BY <1>3, <1>4 DEF Stopped

(* Then that slot is not ST.                                               *)
LEMMA BgFgSetStopped ==
  ASSUME TypeInv, Stopped, BgFgSet
  PROVE  Stopped'
<1> USE DEF TypeInv
<1>1. /\ UNCHANGED <<handler, proc>> /\ pc = "bgfg_set"
      /\ jobs' = [jobs EXCEPT ![slot].state = IF bg THEN "BG" ELSE "FG"]
  BY DEF BgFgSet, MainAt, kvars
<1>2. \A i \in Slots, p \in Pids :
        jobs'[i].state = "ST" /\ jobs'[i].pid = p =>
          jobs[i].state = "ST" /\ jobs[i].pid = p /\ i # slot
  BY <1>1 DEF TypeOK, Job
<1>3. StoppedSlots'
  BY <1>1, <1>2 DEF Stopped, StoppedSlots, Halted, BeingReaped, ShellAlive
<1>4. CollectedOK'
  BY <1>1 DEF Stopped, CollectedOK, Halted
<1> QED BY <1>3, <1>4 DEF Stopped

(* A dead child the handler collects is being reaped from then on, and one *)
(* whose stop it collects stays stopped.                                   *)
LEMMA ChldWaitStopped ==
  ASSUME TypeInv, Stopped, ChldWait
  PROVE  Stopped'
<1> USE DEF TypeInv
<1>1. /\ UNCHANGED <<jobs, pc, slot>> /\ handler["CHLD"].at = "wait"
  BY DEF ChldWait, main, table, Runs
<1>2. ASSUME NEW q \in Waitable, Collect(q),
             handler' = [handler EXCEPT !["CHLD"].at = "update",
                                        !["CHLD"].pid = q,
                                        !["CHLD"].how = proc[q]]
      PROVE  Stopped'
  <2>1. q \in Pids /\ proc[q] \in Dead \cup {"stopped"}
    BY <1>2 DEF Waitable, Zombies, TypeOK, KernelTypeOK
  <2>2. /\ handler'["CHLD"].at = "update" /\ handler'["CHLD"].pid = q
        /\ handler'["CHLD"].how = proc[q]
    BY <1>2 DEF TypeOK, Signals, Frame
  <2>3. \A p \in Pids : Halted(p) => Halted(p)' \/ BeingReaped(p)'
    <3> SUFFICES ASSUME NEW p \in Pids, Halted(p)
                 PROVE  Halted(p)' \/ BeingReaped(p)'
      OBVIOUS
    <3>1. CASE proc'[p] = proc[p]
      BY <3>1 DEF Halted
    <3>2. CASE proc'[p] # proc[p]
      <4>1. p = q /\ proc[q] \in Dead
        BY <1>2, <3>2 DEF Collect, TypeOK, KernelTypeOK
      <4> QED BY <2>2, <4>1 DEF BeingReaped
    <3> QED BY <3>1, <3>2
  <2>4. StoppedSlots'
    <3> SUFFICES ASSUME NEW i \in Slots, NEW p \in Pids, ShellAlive,
                        jobs[i].state = "ST", jobs[i].pid = p
                 PROVE  \/ Halted(p)' \/ BeingReaped(p)'
                        \/ pc = "bgfg_set" /\ slot = i
      BY <1>1 DEF StoppedSlots, ShellAlive
    <3>1. Halted(p) \/ BeingReaped(p) \/ (pc = "bgfg_set" /\ slot = i)
      BY DEF Stopped, StoppedSlots
    <3>2. ~BeingReaped(p)
      BY <1>1 DEF BeingReaped
    <3> QED BY <2>3, <3>1, <3>2
  <2>5. CollectedOK'
    BY <1>2, <2>1, <2>2 DEF CollectedOK, Halted, Collect, Dead
  <2> QED BY <2>4, <2>5 DEF Stopped
<1>3. CASE Return("CHLD") /\ UNCHANGED kvars
  <2>1. handler'["CHLD"].at = "idle" /\ UNCHANGED proc
    BY <1>3 DEF Return, Idle, TypeOK, Signals, kvars
  <2> QED BY <1>1, <2>1, SteadyStep DEF Halted, ShellAlive
<1> QED BY <1>2, <1>3 DEF ChldWait

(* The handler marks ST the job of a child that has stopped, and deletes   *)
(* the job of the child it has reaped, which no other slot lists.          *)
LEMMA ChldUpdateStopped ==
  ASSUME Inv, Stopped, ChldUpdate
  PROVE  Stopped'
<1> DEFINE f == handler["CHLD"]
           i == getjobpid(jobs, f.pid)
           t == deletejob(jobs, nextjid, f.pid)
<1> USE DEF Inv, TypeInv
<1>1. /\ f.at = "update" /\ f.pid \in Pids /\ f.pid \in Nat \ {0}
      /\ f.how \in Dead \cup {"stopped"} /\ UNCHANGED <<slot, proc>>
  BY PidsAssumption DEF ChldUpdate, Runs, Targets, kvars
<1>2. CASE pc' = "crashed" /\ UNCHANGED <<table, handler>>
  BY <1>1, <1>2, SteadyStep DEF ShellAlive, Halted, table
<1>3. CASE /\ handler' = [handler EXCEPT !["CHLD"] =
                            [Idle EXCEPT !.at = "wait", !.over = f.over]]
           /\ UNCHANGED pc
           /\ IF f.how = "stopped"
              THEN jobs' = [jobs EXCEPT ![i].state = "ST"] /\ i # NULL
              ELSE jobs' = t.jobs
  <2>1. handler'["CHLD"].at = "wait"
    BY <1>3 DEF Idle, TypeOK, Signals
  <2>2. CollectedOK'
    BY <2>1 DEF CollectedOK
  <2>3. StoppedSlots'
    <3> SUFFICES ASSUME NEW k \in Slots, NEW p \in Pids, ShellAlive,
                        jobs'[k].state = "ST", jobs'[k].pid = p
                 PROVE  Halted(p) \/ (pc = "bgfg_set" /\ slot = k)
      BY <1>1, <1>3 DEF StoppedSlots, Halted, ShellAlive
    <3>1. CASE f.how = "stopped"
      <4>1. i \in Slots /\ jobs[i].pid = f.pid
        BY <1>1, <1>3, <3>1, GetjobpidFacts
      <4>2. Halted(f.pid) /\ f.how \notin Dead
        BY <1>1, <3>1 DEF Stopped, CollectedOK, Dead
      <4>3. jobs' = [jobs EXCEPT ![i].state = "ST"]
        BY <1>3, <3>1
      <4> HIDE DEF i
      <4>4. CASE k = i
        BY <4>1, <4>2, <4>3, <4>4 DEF TypeOK, Job
      <4>5. CASE k # i
        <5>1. jobs'[k] = jobs[k]
          BY <4>1, <4>3, <4>5 DEF TypeOK
        <5> QED BY <4>2, <5>1 DEF Stopped, StoppedSlots, BeingReaped
      <4> QED BY <4>4, <4>5
    <3>2. CASE f.how # "stopped"
      <4>1. DeleteOutcome(jobs, nextjid, f.pid, t)
        BY <1>1, DeletejobFacts, Zenon
      <4>2. jobs' = t.jobs
        BY <1>3, <3>2
      <4> HIDE DEF t
      <4>3. jobs'[k] = jobs[k] /\ jobs[k].pid # f.pid
        <5>1. p # 0
          BY PidsAssumption
        <5>2. ClearedJob.pid = 0
          BY DEF ClearedJob
        <5>3. CASE jobs' = jobs /\ \A j \in Slots : jobs[j].pid # f.pid
          BY <5>3
        <5>4. ASSUME NEW j \in Slots, jobs[j].pid = f.pid,
                     jobs' = [jobs EXCEPT ![j] = ClearedJob]
              PROVE  jobs'[k] = jobs[k] /\ jobs[k].pid # f.pid
          <6>1. k # j
            BY <5>1, <5>2, <5>4 DEF TypeOK
          <6> QED BY <1>1, <5>4, <6>1 DEF TypeOK, TableInv, TableSound, PidsUnique
        <5> QED BY <4>1, <4>2, <5>3, <5>4 DEF DeleteOutcome
      <4> QED BY <4>3 DEF Stopped, StoppedSlots, BeingReaped
    <3> QED BY <3>1, <3>2
  <2> QED BY <2>2, <2>3 DEF Stopped
<1> QED BY <1>1, <1>2, <1>3 DEF ChldUpdate, Dead, table

(* Everything else lets no halted child run.                               *)
LEMMA StoppedStep == Inv /\ Stopped /\ [Next]_vars => Stopped'
<1> SUFFICES ASSUME Inv, Stopped, [Next]_vars PROVE Stopped'
  OBVIOUS
<1> USE DEF Inv
<1>1. CASE EvalFork \/ EvalAnnounce \/ WaitfgTest \/ WaitfgSuspend
           \/ ListTest \/ ListPrint
  <2>1. /\ UNCHANGED <<jobs, handler>> /\ pc # "bgfg_set" /\ ShellAlive
        /\ UNCHANGED proc \/ \E q \in Pids : Fork(q)
    BY <1>1 DEF EvalFork, EvalAnnounce, WaitfgTest, WaitfgSuspend, ListTest,
                ListPrint, MainAt, ShellAlive, table, kvars
  <2>2. \A p \in Pids : Halted(p) => Halted(p)'
    BY <2>1, KernelHalts
  <2> QED BY <2>1, <2>2, SteadyStep
<1>2. CASE EvalAddjob
  BY <1>2, AddjobStopped
<1>3. CASE BgFgKill
  BY <1>3, BgFgKillStopped
<1>4. CASE BgFgSet
  BY <1>4, BgFgSetStopped
<1>5. CASE ChldWait
  BY <1>5, ChldWaitStopped
<1>6. CASE ChldUpdate
  BY <1>6, ChldUpdateStopped
<1>7. ASSUME NEW s \in Keys, KeyRead(s) \/ KeyKill(s) PROVE Stopped'
  <2>1. UNCHANGED <<pc, slot, jobs>>
    BY <1>7 DEF KeyRead, KeyKill, main, table
  <2>2. handler'["CHLD"] = handler["CHLD"]
    BY <1>7 DEF KeyRead, KeyKill, Return, TypeInv, TypeOK, Keys, Signals
  <2>3. UNCHANGED proc \/ \E q \in Pids : KillINT(q) \/ KillTSTP(q)
    BY <1>7 DEF KeyRead, KeyKill, kvars, Runs, TypeInv, Targets
  <2>4. \A p \in Pids : Halted(p) => Halted(p)'
    BY <2>3, KernelHalts
  <2> QED BY <2>1, <2>2, <2>4, SteadyStep DEF ShellAlive
<1>8. ASSUME NEW s \in Signals, Deliver(s) PROVE Stopped'
  <2>1. UNCHANGED <<slot, jobs, proc>> /\ ShellAlive
        /\ (pc = "bgfg_set" => pc' = "bgfg_set")
    BY <1>8 DEF Deliver, table
  <2>2. \/ handler'["CHLD"] = handler["CHLD"]
        \/ handler["CHLD"].at # "update" /\ handler'["CHLD"].at # "update"
    <3>1. CASE s = "CHLD"
      <4>1. handler["CHLD"].at = "idle"
        BY <1>8, <3>1 DEF Deliver, Blocked, Active
      <4>2. handler'["CHLD"].at = "wait"
        BY <1>8, <3>1 DEF Deliver, Idle, TypeInv, TypeOK
      <4> QED BY <4>1, <4>2
    <3>2. CASE s # "CHLD"
      BY <1>8, <3>2 DEF Deliver, TypeInv, TypeOK, Signals
    <3> QED BY <3>1, <3>2
  <2> QED BY <2>1, <2>2, SteadyStep DEF Halted
<1>9. CASE User
  <2>1. /\ UNCHANGED <<jobs, handler, proc>>
        /\ pc = "bgfg_set" => (pc' = "bgfg_set" /\ slot' = slot) \/ ~ShellAlive'
        /\ ShellAlive' => ShellAlive
    BY <1>9 DEF User, EvalRun, BgFgFind, ListStart, Quit, sigquit_handler, Key,
                MainAt, ShellAlive, main, table, kvars
  <2> QED BY <2>1, SteadyStep DEF Halted
<1>10. ASSUME NEW q \in Pids, ChildSetpgid(q) \/ ChildExec(q) \/ Program(q)
       PROVE  Stopped'
  <2>1. UNCHANGED <<pc, slot, jobs, handler>>
    BY <1>10 DEF ChildSetpgid, ChildExec, Program, main, table
  <2>2. \A p \in Pids : Halted(p) => Halted(p)'
    BY <1>10, KernelHalts
  <2> QED BY <2>1, <2>2, SteadyStep DEF ShellAlive
<1>11. CASE UNCHANGED vars
  BY <1>11, SteadyStep DEF vars, Halted, ShellAlive
<1> QED BY <1>1, <1>2, <1>3, <1>4, <1>5, <1>6, <1>7, <1>8, <1>9, <1>10, <1>11
        DEF Next, Main, Handlers

(* A job marked ST has really stopped, or a change of its child is under   *)
(* way that the handler will see, or do_bgfg has just continued it.        *)
THEOREM StoppedIsTrue == Spec => []StoppedIsStopped
<1>1. Init => Stopped
  BY DEF Init, KernelInit, initjobs, ClearedJob, Stopped, StoppedSlots,
         CollectedOK, Idle, Signals
<1>2. Inv /\ Stopped => StoppedIsStopped
  BY DEF Inv, TypeInv, TypeOK, Job, Stopped, StoppedSlots, Halted, Zombies,
         StoppedIsStopped
<1>3. Spec => []Stopped
  BY <1>1, StoppedStep, InvHolds, PTL DEF Spec
<1> QED BY <1>2, <1>3, InvHolds, PTL
-----------------------------------------------------------------------------
(* What a key's handler has read stays true until it kills: no slot of the *)
(* pid turns BG meanwhile, since SIGCHLD's handler only stops and deletes  *)
(* and do_bgfg cannot run.                                                 *)
KeyTarget ==
  \A s \in Keys, i \in Slots, p \in Pids :
    handler[s].at = "kill" /\ handler[s].pid = p /\ jobs[i].pid = p =>
      jobs[i].state # "BG"

(* SIGCHLD's handler stops or clears the slot of one job, or none.         *)
LEMMA ChldUpdateOne ==
  ASSUME TypeInv, ChldUpdate
  PROVE  \/ jobs' = jobs
         \/ \E i \in Slots :
              /\ jobs[i].pid \in Pids
              /\ \/ jobs' = [jobs EXCEPT ![i].state = "ST"]
                 \/ jobs' = [jobs EXCEPT ![i] = ClearedJob]
<1> DEFINE f == handler["CHLD"]
           i == getjobpid(jobs, f.pid)
           t == deletejob(jobs, nextjid, f.pid)
<1> USE DEF TypeInv
<1>1. f.pid \in Pids /\ f.pid \in Nat \ {0}
  BY PidsAssumption DEF ChldUpdate, Runs, Targets
<1>2. CASE UNCHANGED jobs
  BY <1>2
<1>3. CASE jobs' = [jobs EXCEPT ![i].state = "ST"] /\ i # NULL
  <2>1. i \in Slots /\ jobs[i].pid = f.pid
    BY <1>1, <1>3, GetjobpidFacts
  <2> HIDE DEF i
  <2> QED BY <1>1, <1>3, <2>1
<1>4. CASE jobs' = t.jobs
  <2>1. DeleteOutcome(jobs, nextjid, f.pid, t)
    BY <1>1, DeletejobFacts, Zenon
  <2> HIDE DEF t
  <2> QED BY <1>1, <1>4, <2>1 DEF DeleteOutcome
<1>5. \/ UNCHANGED jobs
      \/ jobs' = [jobs EXCEPT ![i].state = "ST"] /\ i # NULL
      \/ jobs' = t.jobs
  BY DEF ChldUpdate, table
<1> QED BY <1>2, <1>3, <1>4, <1>5

(* So it puts no slot in the background, and lists nobody.                 *)
LEMMA ChldUpdateSlots ==
  ASSUME TypeInv, ChldUpdate
  PROVE  \A k \in Slots :
           \/ jobs'[k] = jobs[k]
           \/ jobs'[k].pid = 0 /\ jobs'[k].state = "UNDEF"
           \/ jobs'[k].pid = jobs[k].pid /\ jobs'[k].state = "ST"
BY ChldUpdateOne DEF TypeInv, TypeOK, Job, ClearedJob

LEMMA KeyTargetStep == Inv /\ KeyTarget /\ [Next]_vars => KeyTarget'
<1> SUFFICES ASSUME Inv, KeyTarget, [Next]_vars PROVE KeyTarget'
  OBVIOUS
<1> USE DEF Inv, TypeInv
<1>1. ASSUME UNCHANGED jobs,
             \A s \in Keys : handler'[s] = handler[s] \/ handler'[s].at # "kill"
      PROVE  KeyTarget'
  BY <1>1 DEF KeyTarget
<1>2. ASSUME Main PROVE KeyTarget'
  <2>1. \A s \in Keys : handler[s].at # "kill"
    BY <1>2 DEF Main, EvalFork, EvalAddjob, EvalAnnounce, WaitfgTest, WaitfgSuspend,
                BgFgKill, BgFgSet, ListTest, ListPrint, MainAt, Active, Signals
  <2>2. UNCHANGED handler
    BY <1>2 DEF Main, EvalFork, EvalAddjob, EvalAnnounce, WaitfgTest, WaitfgSuspend,
                BgFgKill, BgFgSet, ListTest, ListPrint
  <2> QED BY <2>1, <2>2 DEF KeyTarget
<1>3. CASE ChldUpdate
  <2>1. \A s \in Keys : handler'[s] = handler[s]
    BY <1>3 DEF ChldUpdate, TypeOK, Keys, Signals
  <2>2. \A i \in Slots, p \in Pids :
          jobs'[i].pid = p /\ jobs'[i].state = "BG" =>
            jobs[i].pid = p /\ jobs[i].state = "BG"
    BY <1>3, ChldUpdateSlots, PidsAssumption
  <2> QED BY <2>1, <2>2 DEF KeyTarget
<1>4. CASE ChldWait
  BY <1>1, <1>4 DEF ChldWait, Return, Keys, Signals, TypeOK, table
<1>5. ASSUME NEW s \in Keys, KeyRead(s) PROVE KeyTarget'
  <2>1. UNCHANGED jobs /\ \A r \in Keys : r # s => handler'[r] = handler[r]
    BY <1>5 DEF KeyRead, Return, table, TypeOK, Keys, Signals
  <2>2. CASE handler'[s].at = "idle"
    BY <1>1, <2>1, <2>2
  <2>3. CASE fgpid(jobs) # 0 /\ handler'[s].pid = fgpid(jobs)
    <3>1. PICK k \in Slots : jobs[k].state = "FG" /\ fgpid(jobs) = jobs[k].pid
      BY <2>3, FgpidFacts
    <3>2. \A i \in Slots, p \in Pids :
            handler'[s].pid = p /\ jobs[i].pid = p => jobs[i].state # "BG"
      BY <2>3, <3>1 DEF TableInv, TableSound, PidsUnique
    <3> QED BY <2>1, <3>2 DEF KeyTarget
  <2>4. CASE fgpid(jobs) # 0
    <3>1. handler'[s].pid = fgpid(jobs)
      BY <1>5, <2>4 DEF KeyRead, TypeOK, Frame, Keys, Signals
    <3> QED BY <2>3, <2>4, <3>1
  <2>5. CASE fgpid(jobs) = 0
    BY <1>5, <2>2, <2>5 DEF KeyRead, Return, Idle, TypeOK, Keys, Signals
  <2> QED BY <2>4, <2>5
<1>6. ASSUME NEW s \in Keys, KeyKill(s) PROVE KeyTarget'
  BY <1>1, <1>6 DEF KeyKill, Return, Idle, table, TypeOK, Keys, Signals
<1>7. ASSUME NEW s \in Signals, Deliver(s) PROVE KeyTarget'
  <2>1. \A r \in Signals : r # s => handler'[r] = handler[r]
    BY <1>7 DEF Deliver, TypeOK
  <2>2. handler'[s].at # "kill"
    BY <1>7 DEF Deliver, Idle, TypeOK
  <2> QED BY <1>1, <1>7, <2>1, <2>2 DEF Deliver, table, Keys, Signals
<1>8. CASE User
  BY <1>1, <1>8 DEF User, EvalRun, BgFgFind, ListStart, Quit, sigquit_handler, Key, table
<1>9. CASE \E p \in Pids : ChildSetpgid(p) \/ ChildExec(p) \/ Program(p)
  BY <1>1, <1>9 DEF ChildSetpgid, ChildExec, Program, table
<1>10. CASE UNCHANGED vars
  BY <1>1, <1>10 DEF vars
<1> QED BY <1>2, <1>3, <1>4, <1>5, <1>6, <1>7, <1>8, <1>9, <1>10 DEF Next, Handlers

(* Only a key's own kill takes its handler back from there.                *)
LEMMA SparingStep ==
  ASSUME Inv, KeyTarget, [Next]_vars,
         NEW i \in Slots, NEW s \in Keys,
         handler[s].at = "kill", handler'[s].at = "idle",
         jobs[i].state = "BG", jobs[i].pid # 0
  PROVE  proc'[jobs[i].pid] = proc[jobs[i].pid]
<1> USE DEF Inv, TypeInv
<1>1. KeyKill(s)
  <2>1. CASE User \/ Main
    BY <2>1 DEF User, EvalRun, BgFgFind, ListStart, Quit, sigquit_handler, Key,
                Main, EvalFork, EvalAddjob, EvalAnnounce, WaitfgTest, WaitfgSuspend,
                BgFgKill, BgFgSet, ListTest, ListPrint
  <2>2. CASE ChldWait \/ ChldUpdate
    BY <2>2 DEF ChldWait, ChldUpdate, Return, TypeOK, Keys, Signals
  <2>3. ASSUME NEW r \in Keys, KeyRead(r) PROVE FALSE
    BY <2>3 DEF KeyRead, Runs, Return, TypeOK, Keys, Signals
  <2>4. ASSUME NEW r \in Keys, KeyKill(r), r # s PROVE FALSE
    BY <2>4 DEF KeyKill, Return, TypeOK, Keys, Signals
  <2>5. ASSUME NEW r \in Signals, Deliver(r) PROVE FALSE
    <3>1. r # s
      BY <2>5 DEF Deliver, Blocked, Active
    <3> QED BY <2>5, <3>1 DEF Deliver, TypeOK
  <2>6. CASE \E p \in Pids : ChildSetpgid(p) \/ ChildExec(p) \/ Program(p)
    BY <2>6 DEF ChildSetpgid, ChildExec, Program
  <2>7. CASE UNCHANGED vars
    BY <2>7 DEF vars
  <2> QED BY <2>1, <2>2, <2>3, <2>4, <2>5, <2>6, <2>7 DEF Next, Handlers
<1>2. handler[s].pid \in Pids /\ jobs[i].pid \in Pids
  BY DEF Targets, TypeOK, Job
<1>3. jobs[i].pid # handler[s].pid
  BY <1>2 DEF KeyTarget
<1>4. KillINT(handler[s].pid) \/ KillTSTP(handler[s].pid)
  BY <1>1 DEF KeyKill
<1> QED BY <1>2, <1>3, <1>4
        DEF KillINT, KillTSTP, Die, Stop, kvars, TypeOK, KernelTypeOK

(* A key that is forwarded never hits a background job, even when SIGCHLD  *)
(* interrupts its handler between fgpid and kill.                          *)
THEOREM KeysHitOnlyTheForeground == Spec => KeysSpareBackground
<1>1. Init => KeyTarget
  BY DEF Init, KeyTarget, Idle, Signals
<1>2. Inv /\ KeyTarget /\ [Next]_vars =>
        [\A i \in Slots, s \in Keys :
           /\ handler[s].at = "kill" /\ handler'[s].at = "idle"
           /\ jobs[i].state = "BG" /\ jobs[i].pid # 0
           => proc'[jobs[i].pid] = proc[jobs[i].pid]]_vars
  BY SparingStep
<1> QED BY <1>1, <1>2, KeyTargetStep, InvHolds, PTL DEF Spec, KeysSpareBackground
-----------------------------------------------------------------------------
(* Where the main flow may be while a job is in the foreground: in waitfg, *)
(* or nowhere any more.  Without fg, do_bgfg only runs for bg.             *)
ForegroundOK ==
  /\ \A i \in Slots : jobs[i].state = "FG" =>
       /\ jobs[i].pid # 0
       /\ pc \in {"waitfg", "suspend", "suspended", "exited", "crashed"}
  /\ \A i, k \in Slots : jobs[i].state = "FG" /\ jobs[k].state = "FG" => i = k
  /\ pc \in {"bgfg_kill", "bgfg_set"} => bg

(* A step that puts nobody in the foreground and neither enters do_bgfg    *)
(* nor leaves waitfg keeps it.                                             *)
LEMMA ForegroundSteady ==
  ASSUME ForegroundOK,
         \A k \in Slots : jobs'[k] = jobs[k] \/ jobs'[k].state # "FG",
         \/ pc' = pc /\ bg' = bg
         \/ pc' \in {"waitfg", "suspend", "suspended", "exited", "crashed"}
  PROVE  ForegroundOK'
BY DEF ForegroundOK

(* eval's job goes into a free slot, or nowhere.                           *)
LEMMA AddjobSlots ==
  ASSUME Inv, EvalAddjob
  PROVE  LET s == IF bg THEN "BG" ELSE "FG"
         IN  \/ jobs' = jobs
             \/ \E i \in Slots :
                  /\ pid \in Pids /\ pid # 0 /\ jobs[i].pid = 0
                  /\ jobs' = [jobs EXCEPT ![i] = [pid |-> pid, jid |-> nextjid, state |-> s]]
<1> DEFINE s == IF bg THEN "BG" ELSE "FG"
           t == addjob(jobs, nextjid, pid, s)
<1> USE DEF Inv, TypeInv
<1>1. jobs' = t.jobs
  BY DEF EvalAddjob
<1>2. CASE pid \in Pids
  <2>1. pid \in Nat \ {0} /\ nextjid \in Nat
    BY <1>2, PidsAssumption DEF TypeOK
  <2>2. AddOutcome(jobs, nextjid, pid, s, t)
    BY <2>1, AddjobFacts, Zenon
  <2> HIDE DEF s, t
  <2> QED BY <1>1, <1>2, <2>1, <2>2 DEF AddOutcome, s
<1>3. CASE pid \notin Pids
  <2>1. pid < 1
    BY <1>3 DEF TypeOK
  <2>2. t.jobs = jobs
    BY <2>1 DEF addjob
  <2> QED BY <1>1, <2>2
<1> QED BY <1>2, <1>3

LEMMA AddjobForeground ==
  ASSUME Inv, ForegroundOK, EvalAddjob
  PROVE  ForegroundOK'
<1> DEFINE s == IF bg THEN "BG" ELSE "FG"
<1> USE DEF Inv, TypeInv
<1>1. pc = "addjob" /\ pc' = IF bg THEN "announce" ELSE "waitfg"
  BY DEF EvalAddjob, MainAt
<1>2. \A i \in Slots : jobs[i].state # "FG"
  BY <1>1 DEF ForegroundOK
<1>3. jobs' = jobs \/ \E i \in Slots :
        /\ pid # 0
        /\ jobs' = [jobs EXCEPT ![i] = [pid |-> pid, jid |-> nextjid, state |-> s]]
  BY AddjobSlots
<1>4. s = "FG" => pc' = "waitfg"
  BY <1>1
<1>5. pc' \notin {"bgfg_kill", "bgfg_set"}
  BY <1>1
<1> HIDE DEF s
<1>6. CASE jobs' = jobs
  BY <1>2, <1>5, <1>6 DEF ForegroundOK
<1>7. ASSUME NEW i \in Slots, pid # 0,
             jobs' = [jobs EXCEPT ![i] = [pid |-> pid, jid |-> nextjid, state |-> s]]
      PROVE  ForegroundOK'
  <2>1. /\ jobs'[i].pid = pid /\ jobs'[i].state = s
        /\ \A k \in Slots : k # i => jobs'[k].state # "FG"
    BY <1>2, <1>7 DEF TypeOK
  <2> QED BY <1>4, <1>5, <1>7, <2>1 DEF ForegroundOK
<1> QED BY <1>3, <1>6, <1>7

(* waitfg returns only when fgpid finds nobody.                            *)
LEMMA WaitfgForeground ==
  ASSUME Inv, ForegroundOK, WaitfgTest
  PROVE  ForegroundOK'
<1> USE DEF Inv, TypeInv
<1>1. UNCHANGED jobs
  BY DEF WaitfgTest, table
<1>2. CASE fgpid(jobs) > 0
  BY <1>1, <1>2, ForegroundSteady DEF WaitfgTest
<1>3. CASE ~(fgpid(jobs) > 0)
  <2> DEFINE S == {j \in Slots : jobs[j].state = "FG"}
  <2>1. S \in SUBSET Slots
    OBVIOUS
  <2>2. fgpid(jobs) = IF First(S) = NULL THEN 0 ELSE jobs[First(S)].pid
    BY DEF fgpid
  <2>3. S = {}
    <3>1. SUFFICES ASSUME S # {} PROVE FALSE
      OBVIOUS
    <3>2. First(S) \in S /\ First(S) # NULL
      <4> HIDE DEF S
      <4> QED BY <2>1, <3>1, FirstFacts
    <3>3. fgpid(jobs) \in Pids
      BY <2>2, <3>2 DEF ForegroundOK, TypeOK, Job
    <3>4. fgpid(jobs) \in Nat \ {0}
      BY <3>3, PidsAssumption
    <3>5. \A n \in Nat \ {0} : n > 0
      OBVIOUS
    <3> QED BY <1>3, <3>4, <3>5, Zenon
  <2>4. pc' = "prompt"
    BY <1>3 DEF WaitfgTest, ToPrompt
  <2> QED BY <1>1, <2>3, <2>4 DEF ForegroundOK
<1> QED BY <1>2, <1>3

LEMMA ForegroundStep ==
  ASSUME "fg" \notin Commands
  PROVE  Inv /\ ForegroundOK /\ [Next]_vars => ForegroundOK'
<1> SUFFICES ASSUME Inv, ForegroundOK, [Next]_vars PROVE ForegroundOK'
  OBVIOUS
<1> USE DEF Inv, TypeInv
\* Away from waitfg nobody is in the foreground.
<1>1. ASSUME UNCHANGED jobs,
             pc \notin {"waitfg", "suspend", "suspended", "exited", "crashed"},
             pc' \notin {"bgfg_kill", "bgfg_set"}
      PROVE  ForegroundOK'
  BY <1>1 DEF ForegroundOK
<1>2. CASE EvalFork \/ EvalAnnounce
  BY <1>1, <1>2 DEF EvalFork, EvalAnnounce, MainAt, ToPrompt, table
<1>3. CASE ListTest \/ ListPrint
  BY <1>1, <1>3 DEF ListTest, ListPrint, ListNext, MainAt, ToPrompt, table
<1>4. CASE EvalAddjob
  BY <1>4, AddjobForeground
<1>5. CASE WaitfgTest
  BY <1>5, WaitfgForeground
<1>6. CASE WaitfgSuspend
  BY <1>6, ForegroundSteady DEF WaitfgSuspend, table
<1>7. CASE BgFgKill
  BY <1>7 DEF BgFgKill, MainAt, ForegroundOK, table
<1>8. CASE BgFgSet
  <2>1. bg /\ pc = "bgfg_set" /\ \A i \in Slots : jobs[i].state # "FG"
    BY <1>8 DEF BgFgSet, MainAt, ForegroundOK
  <2>2. pc' = "prompt" /\ jobs' = [jobs EXCEPT ![slot].state = "BG"]
    BY <1>8, <2>1, Zenon DEF BgFgSet, ToPrompt
  <2>3. \A i \in Slots : jobs'[i].state # "FG"
    BY <2>1, <2>2 DEF TypeOK, Job
  <2> QED BY <2>2, <2>3 DEF ForegroundOK
<1>9. CASE ChldUpdate
  <2>1. \A k \in Slots : jobs'[k] = jobs[k] \/ jobs'[k].state # "FG"
    BY <1>9, ChldUpdateSlots
  <2>2. (pc' = pc /\ bg' = bg) \/ pc' = "crashed"
    BY <1>9 DEF ChldUpdate
  <2> QED BY <2>1, <2>2, ForegroundSteady
<1>10. CASE ChldWait \/ \E s \in Keys : KeyRead(s) \/ KeyKill(s)
  BY <1>10, ForegroundSteady DEF ChldWait, KeyRead, KeyKill, main, table
<1>11. CASE \E s \in Signals : Deliver(s)
  BY <1>11, ForegroundSteady DEF Deliver, table
<1>12. CASE User
  <2>1. ASSUME NEW b \in BOOLEAN, EvalRun(b) PROVE ForegroundOK'
    BY <1>1, <2>1 DEF EvalRun, MainAt, table
  <2>2. ASSUME NEW b \in BOOLEAN, BgFgFind(b) PROVE ForegroundOK'
    <3>1. pc = "prompt" /\ UNCHANGED jobs /\ pc' = "bgfg_kill" /\ bg' = b
      BY <2>2 DEF BgFgFind, MainAt, table
    <3>2. b
      BY <2>2, Zenon DEF BgFgFind
    <3>3. bg'
      BY <3>1, <3>2, Zenon
    <3> QED BY <3>1, <3>3 DEF ForegroundOK
  <2>3. CASE ListStart
    BY <1>1, <2>3 DEF ListStart, MainAt, table
  <2>4. CASE Quit \/ sigquit_handler
    BY <2>4, ForegroundSteady DEF Quit, sigquit_handler, table
  <2>5. CASE \E s \in Keys : Key(s)
    BY <2>5, ForegroundSteady DEF Key, main, table
  <2> QED BY <1>12, <2>1, <2>2, <2>3, <2>4, <2>5 DEF User
<1>13. CASE \E p \in Pids : ChildSetpgid(p) \/ ChildExec(p) \/ Program(p)
  BY <1>13, ForegroundSteady DEF ChildSetpgid, ChildExec, Program, main, table
<1>14. CASE UNCHANGED vars
  BY <1>14, ForegroundSteady DEF vars
<1> QED BY <1>2, <1>3, <1>4, <1>5, <1>6, <1>7, <1>8, <1>9, <1>10, <1>11, <1>12,
           <1>13, <1>14
        DEF Next, Main, Handlers

LEMMA ForegroundHolds ==
  ASSUME "fg" \notin Commands
  PROVE  Spec => [](Inv /\ ForegroundOK)
<1>1. Init => ForegroundOK
  BY DEF Init, initjobs, ClearedJob, ForegroundOK
<1> QED BY <1>1, ForegroundStep, InvHolds, PTL DEF Spec

(* As long as nobody types fg, waitfg gives the prompt back only when no   *)
(* job is in the foreground, whatever its signals interrupt.               *)
THEOREM PromptIsFree ==
  ASSUME "fg" \notin Commands
  PROVE  Spec => []NoForegroundAtPrompt
<1>1. ForegroundOK => NoForegroundAtPrompt
  BY DEF ForegroundOK, NoForegroundAtPrompt, MainAt, Foreground
<1> QED BY <1>1, ForegroundHolds, PTL

(* fg is also the only way to two foreground jobs: the race that breaks    *)
(* the comment of tsh.c is do_bgfg's and no other.                         *)
THEOREM OneForegroundWithoutFg ==
  ASSUME "fg" \notin Commands
  PROVE  Spec => []AtMostOneForeground
<1>1. ForegroundOK => AtMostOneForeground
  <2> SUFFICES ASSUME ForegroundOK PROVE AtMostOneForeground
    OBVIOUS
  <2>1. CASE Foreground = {}
    BY <2>1, FS_EmptySet DEF AtMostOneForeground
  <2>2. ASSUME NEW i \in Foreground PROVE AtMostOneForeground
    <3>1. Foreground = {i}
      BY <2>2 DEF ForegroundOK, Foreground
    <3> QED BY <3>1, FS_Singleton DEF AtMostOneForeground
  <2> QED BY <2>1, <2>2
<1> QED BY <1>1, ForegroundHolds, PTL
-----------------------------------------------------------------------------
\* The pids of a list are unique, and a job has a state.
Proper(list) ==
  /\ list \in [Slots -> Job]
  /\ \A i, k \in Slots : list[i].pid = list[k].pid /\ list[i].pid # 0 => i = k

(* A process has the state of its slot, wherever that is.                  *)
LEMMA StateFacts ==
  ASSUME NEW list, Proper(list), NEW p \in Pids
  PROVE  /\ \A i \in Slots : list[i].pid = p => StateOf(list, p) = list[i].state
         /\ (\A i \in Slots : list[i].pid # p) => StateOf(list, p) = "none"
<1> DEFINE j == getjobpid(list, p)
<1>1. p \in Nat \ {0}
  BY PidsAssumption
<1>2. \/ j \in Slots /\ list[j].pid = p /\ j # NULL
      \/ j = NULL /\ \A k \in Slots : list[k].pid # p
  BY <1>1, GetjobpidFacts, MaxJobsAssumption DEF NULL, Slots
<1>3. StateOf(list, p) = IF j = NULL THEN "none" ELSE list[j].state
  BY DEF StateOf
<1> HIDE DEF j
<1> QED BY <1>1, <1>2, <1>3 DEF Proper

(* A process whose slot stays keeps its state.                             *)
LEMMA OthersKeepState ==
  ASSUME NEW list, NEW new, Proper(list), Proper(new), NEW i \in Slots,
         \A k \in Slots : k # i => new[k] = list[k],
         NEW p \in Pids, list[i].pid # p, new[i].pid # p
  PROVE  StateOf(new, p) = StateOf(list, p)
<1>1. CASE \E k \in Slots : list[k].pid = p
  <2>1. PICK k \in Slots : list[k].pid = p
    BY <1>1
  <2>2. new[k] = list[k]
    BY <2>1
  <2> QED BY <2>1, <2>2, StateFacts
<1>2. CASE \A k \in Slots : list[k].pid # p
  <2>1. \A k \in Slots : new[k].pid # p
    BY <1>2
  <2> QED BY <1>2, <2>1, StateFacts
<1> QED BY <1>1, <1>2

(* A step that gives one slot of a process another state, or gives it or   *)
(* takes from it its slot, is a step of that process alone.                *)
LEMMA OneBecomes ==
  ASSUME Proper(jobs), Proper(jobs'), NEW i \in Slots, NEW p \in Pids,
         \A k \in Slots : k # i => jobs'[k] = jobs[k],
         jobs[i].pid \in {0, p}, jobs'[i].pid \in {0, p}
  PROVE  Control!Become(p, StateOf(jobs', p))
<1>1. 0 \notin Pids
  BY PidsAssumption
<1>2. \A q \in Pids : q # p => StateOf(jobs', q) = StateOf(jobs, q)
  BY <1>1, OthersKeepState
<1> QED BY <1>2 DEF Control!Become, JobState

LEMMA SameState ==
  ASSUME jobs' = jobs
  PROVE  JobState' = JobState
BY DEF JobState

(* Three actions change the list.                                          *)
LEMMA OtherSteps ==
  ASSUME [Next]_vars, ~EvalAddjob, ~ChldUpdate, ~BgFgSet
  PROVE  jobs' = jobs
<1>1. CASE EvalFork \/ EvalAnnounce \/ WaitfgTest \/ WaitfgSuspend \/ BgFgKill
           \/ ListTest \/ ListPrint \/ User
  BY <1>1 DEF EvalFork, EvalAnnounce, WaitfgTest, WaitfgSuspend, BgFgKill, ListTest,
              ListPrint, User, EvalRun, BgFgFind, ListStart, Quit, sigquit_handler, Key, table
<1>2. CASE ChldWait \/ (\E s \in Keys : KeyRead(s) \/ KeyKill(s)) \/ (\E s \in Signals : Deliver(s))
  BY <1>2 DEF ChldWait, KeyRead, KeyKill, Deliver, table
<1>3. CASE \E p \in Pids : ChildSetpgid(p) \/ ChildExec(p) \/ Program(p)
  BY <1>3 DEF ChildSetpgid, ChildExec, Program, table
<1>4. CASE UNCHANGED vars
  BY <1>4 DEF vars
<1> QED BY <1>1, <1>2, <1>3, <1>4 DEF Next, Main, Handlers

\* A listed job is in the foreground, in the background or stopped.
StatesOK == \A i \in Slots : jobs[i].pid # 0 => jobs[i].state # "UNDEF"

ControlInv == Inv /\ ForegroundOK /\ StatesOK

LEMMA Properly ==
  ASSUME Inv, Inv'
  PROVE  Proper(jobs) /\ Proper(jobs')
BY DEF Inv, TypeInv, TypeOK, TableInv, TableSound, PidsUnique, Proper

LEMMA StatesStep ==
  ASSUME "fg" \notin Commands
  PROVE  ControlInv /\ [Next]_vars => StatesOK'
<1> SUFFICES ASSUME ControlInv, [Next]_vars PROVE StatesOK'
  OBVIOUS
<1> USE DEF ControlInv, Inv, TypeInv
<1>1. CASE UNCHANGED jobs
  BY <1>1 DEF StatesOK
<1>2. CASE EvalAddjob
  BY <1>2, AddjobSlots DEF StatesOK, TypeOK
<1>3. CASE ChldUpdate
  BY <1>3, ChldUpdateSlots DEF StatesOK
<1>4. CASE BgFgSet
  BY <1>4 DEF BgFgSet, StatesOK, TypeOK, Job
<1> QED BY <1>1, <1>2, <1>3, <1>4, OtherSteps

(* A new job starts as a process that was on no list.                      *)
LEMMA AddjobControl ==
  ASSUME ControlInv, Inv', EvalAddjob
  PROVE  Control!Next \/ JobState' = JobState
<1> DEFINE s == IF bg THEN "BG" ELSE "FG"
<1>1. CASE jobs' = jobs
  BY <1>1, SameState
<1>4. s \in {"FG", "BG"}
  OBVIOUS
<1> HIDE DEF s
<1>2. ASSUME NEW i \in Slots, pid \in Pids, pid # 0, jobs[i].pid = 0,
             jobs' = [jobs EXCEPT ![i] = [pid |-> pid, jid |-> nextjid, state |-> s]]
      PROVE  Control!Start(pid)
  <2>1. Proper(jobs) /\ Proper(jobs')
    BY Properly DEF ControlInv
  <2>2. jobs'[i].pid = pid /\ jobs'[i].state = s
        /\ \A k \in Slots : k # i => jobs'[k] = jobs[k]
    BY <1>2, <2>1 DEF Proper
  <2>3. StateOf(jobs', pid) = s
    BY <1>2, <2>1, <2>2, StateFacts
  <2>4. Control!Become(pid, s)
    BY <1>2, <2>1, <2>2, <2>3, OneBecomes
  <2>5. pc = "addjob" /\ pid \notin ListedPids(jobs)
    BY <1>2 DEF EvalAddjob, MainAt, ControlInv, Inv, TableInv, ForkOK
  <2>6. StateOf(jobs, pid) = "none"
    <3>1. \A k \in Slots : jobs[k].pid # pid
      BY <1>2, <2>5 DEF ListedPids
    <3> QED BY <1>2, <2>1, <3>1, StateFacts
  <2>7. Control!Free
    <3>1. \A k \in Slots : jobs[k].state # "FG"
      BY <2>5 DEF ControlInv, ForegroundOK
    <3>2. \A p \in Pids : StateOf(jobs, p) # "FG"
      BY <2>1, <3>1, StateFacts
    <3> QED BY <3>2 DEF Control!Free, JobState
  <2>8. JobState[pid] = "none"
    BY <1>2, <2>6 DEF JobState
  <2> QED BY <1>4, <2>4, <2>7, <2>8 DEF Control!Start
<1>3. CASE jobs' # jobs
  <2>1. PICK i \in Slots :
          /\ pid \in Pids /\ pid # 0 /\ jobs[i].pid = 0
          /\ jobs' = [jobs EXCEPT ![i] = [pid |-> pid, jid |-> nextjid, state |-> s]]
    BY <1>3, AddjobSlots DEF ControlInv, s
  <2>2. Control!Start(pid)
    BY <1>2, <2>1
  <2> QED BY <2>1, <2>2 DEF Control!Next
<1> QED BY <1>1, <1>3

(* A listed process is in one of three states.                             *)
LEMMA ListedState ==
  ASSUME ControlInv, Proper(jobs), NEW i \in Slots, jobs[i].pid \in Pids
  PROVE  JobState[jobs[i].pid] = jobs[i].state /\ jobs[i].state \in {"FG", "BG", "ST"}
<1>1. jobs[i].pid # 0
  BY PidsAssumption
<1>2. jobs[i].state \in JobStates /\ jobs[i].state # "UNDEF"
  BY <1>1 DEF Proper, Job, ControlInv, StatesOK
<1> QED BY <1>2, StateFacts DEF JobState, JobStates

(* The handler stops or ends a process.                                    *)
LEMMA ChldUpdateControl ==
  ASSUME ControlInv, Inv', ChldUpdate
  PROVE  Control!Next \/ JobState' = JobState
<1>1. CASE jobs' = jobs
  BY <1>1, SameState
<1>2. ASSUME NEW i \in Slots, jobs[i].pid \in Pids,
             \/ jobs' = [jobs EXCEPT ![i].state = "ST"]
             \/ jobs' = [jobs EXCEPT ![i] = ClearedJob]
      PROVE  Control!Next \/ JobState' = JobState
  <2> DEFINE p == jobs[i].pid
  <2>1. Proper(jobs) /\ Proper(jobs')
    BY Properly DEF ControlInv
  <2>2. JobState[p] \in {"FG", "BG", "ST"} /\ JobState[p] = jobs[i].state
    BY <1>2, <2>1, ListedState
  <2>3. \A k \in Slots : k # i => jobs'[k] = jobs[k]
    BY <1>2, <2>1 DEF Proper
  <2>4. p # 0
    BY <1>2, PidsAssumption
  <2>5. CASE jobs' = [jobs EXCEPT ![i].state = "ST"]
    <3>1. jobs'[i].pid = p /\ jobs'[i].state = "ST"
      BY <2>1, <2>5 DEF Proper, Job
    <3>2. StateOf(jobs', p) = "ST"
      BY <1>2, <2>1, <3>1, StateFacts
    <3>3. Control!Become(p, "ST")
      BY <1>2, <2>1, <2>3, <3>1, <3>2, OneBecomes
    <3>4. CASE JobState[p] = "ST"
      BY <3>3, <3>4 DEF Control!Become, JobState
    <3>5. CASE JobState[p] \in {"FG", "BG"}
      BY <1>2, <3>3, <3>5 DEF Control!Stop, Control!Next
    <3> QED BY <2>2, <3>4, <3>5
  <2>6. CASE jobs' = [jobs EXCEPT ![i] = ClearedJob]
    <3>1. jobs'[i].pid = 0
      BY <2>1, <2>6 DEF Proper, ClearedJob
    <3>2. \A k \in Slots : jobs'[k].pid # p
      BY <2>1, <2>3, <2>4, <3>1 DEF Proper
    <3>3. StateOf(jobs', p) = "none"
      BY <1>2, <2>1, <3>2, StateFacts
    <3>4. Control!Become(p, "none")
      BY <1>2, <2>1, <2>3, <3>1, <3>3, OneBecomes
    <3>5. Control!End(p)
      BY <2>2, <3>4 DEF Control!End
    <3> QED BY <1>2, <3>5 DEF Control!Next
  <2> QED BY <1>2, <2>5, <2>6
<1> QED BY <1>1, <1>2, ChldUpdateOne DEF ControlInv, Inv

(* do_bgfg continues a stopped process, stores what a background one is    *)
(* already, or stores through a stale pointer, which no process sees.      *)
LEMMA BgFgSetControl ==
  ASSUME ControlInv, Inv', BgFgSet
  PROVE  Control!Next \/ JobState' = JobState
<1> DEFINE p == jobs[slot].pid
<1>1. Proper(jobs) /\ Proper(jobs') /\ slot \in Slots
  BY Properly DEF ControlInv, Inv, TypeInv, TypeOK
<1>2. jobs' = [jobs EXCEPT ![slot].state = "BG"] /\ jobs[slot].state # "FG"
  <2>1. pc = "bgfg_set" /\ bg
    BY DEF BgFgSet, MainAt, ControlInv, ForegroundOK
  <2>2. jobs' = [jobs EXCEPT ![slot].state = "BG"]
    BY <2>1, Zenon DEF BgFgSet
  <2>3. jobs[slot].state # "FG"
    BY <1>1, <2>1 DEF ControlInv, ForegroundOK
  <2> QED BY <2>2, <2>3
<1>3. /\ jobs'[slot].pid = p /\ jobs'[slot].state = "BG"
      /\ \A k \in Slots : k # slot => jobs'[k] = jobs[k]
  BY <1>1, <1>2 DEF Proper, Job
<1>4. CASE p = 0
  <2>1. \A q \in Pids : q # 0
    BY PidsAssumption
  <2>2. \A q \in Pids : StateOf(jobs', q) = StateOf(jobs, q)
    BY <1>1, <1>3, <1>4, <2>1, OthersKeepState
  <2> QED BY <2>2 DEF JobState
<1>5. CASE p \in Pids
  <2>1. JobState[p] \in {"BG", "ST"}
    BY <1>1, <1>2, <1>5, ListedState
  <2>2. StateOf(jobs', p) = "BG"
    BY <1>1, <1>3, <1>5, StateFacts
  <2>3. Control!Become(p, "BG")
    BY <1>1, <1>3, <1>5, <2>2, OneBecomes
  <2>4. CASE JobState[p] = "BG"
    BY <2>3, <2>4 DEF Control!Become, JobState
  <2>5. CASE JobState[p] = "ST"
    BY <1>5, <2>3, <2>5 DEF Control!Continue, Control!Next
  <2> QED BY <2>1, <2>4, <2>5
<1>6. p \in Pids \cup {0}
  BY <1>1 DEF Proper, Job
<1> QED BY <1>4, <1>5, <1>6

(* As long as nobody types fg the shell implements the job control that    *)
(* the head of tsh.c describes, whatever its handlers interrupt: for any   *)
(* number of jobs, and though bg stores through stale pointers.            *)
THEOREM ImplementsJobControl ==
  ASSUME "fg" \notin Commands
  PROVE  Spec => ControlSpec
<1>1. Init => Control!Init /\ StatesOK
  <2> SUFFICES ASSUME Init PROVE Control!Init /\ StatesOK
    OBVIOUS
  <2>1. jobs \in [Slots -> Job] /\ \A i \in Slots : jobs[i].pid = 0
    BY DEF Init, initjobs, ClearedJob, Job, JobStates
  <2>2. Proper(jobs)
    BY <2>1 DEF Proper
  <2>3. \A p \in Pids : StateOf(jobs, p) = "none"
    BY <2>1, <2>2, StateFacts, PidsAssumption
  <2> QED BY <2>1, <2>3 DEF Control!Init, JobState, StatesOK
<1>2. ControlInv /\ Inv' /\ [Next]_vars => [Control!Next]_JobState
  <2> SUFFICES ASSUME ControlInv, Inv', [Next]_vars
               PROVE  Control!Next \/ JobState' = JobState
    OBVIOUS
  <2>1. CASE EvalAddjob
    BY <2>1, AddjobControl
  <2>2. CASE ChldUpdate
    BY <2>2, ChldUpdateControl
  <2>3. CASE BgFgSet
    BY <2>3, BgFgSetControl
  <2>4. CASE jobs' = jobs
    BY <2>4, SameState
  <2> QED BY <2>1, <2>2, <2>3, <2>4, OtherSteps
<1>3. ControlInv /\ [Next]_vars => StatesOK'
  BY StatesStep
<1> QED BY <1>1, <1>2, <1>3, ForegroundHolds, PTL DEF Spec, ControlSpec, Control!Spec, ControlInv
=============================================================================
