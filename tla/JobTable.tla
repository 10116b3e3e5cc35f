------------------------------ MODULE JobTable ------------------------------
(***************************************************************************)
(* The job list of tsh.c as a data structure: the array jobs[MAXJOBS] with *)
(* the helper routines that search and change it.  A slot is a record of   *)
(* pid, jid and state; the command line is left out, nothing depends on    *)
(* it.  A routine that returns a pointer to a job returns a slot here, and *)
(* NULL is a slot number that does not exist.                              *)
(***************************************************************************)
EXTENDS Integers, FiniteSetsExt

CONSTANT MAXJOBS

ASSUME MaxJobsAssumption == MAXJOBS \in Nat \ {0}

Slots == 0 .. MAXJOBS - 1

NULL == -1

JobStates == {"UNDEF", "FG", "BG", "ST"}

ClearedJob == [pid |-> 0, jid |-> 0, state |-> "UNDEF"]

initjobs == [i \in Slots |-> ClearedJob]

maxjid(jobs) == Max({0} \cup {jobs[i].jid : i \in Slots})

\* Every search of the list returns the first slot that matches.
First(S) == IF S = {} THEN NULL ELSE Min(S)

FreeSlot(jobs) == First({i \in Slots : jobs[i].pid = 0})

getjobpid(jobs, pid) ==
  IF pid < 1 THEN NULL ELSE First({i \in Slots : jobs[i].pid = pid})

getjobjid(jobs, jid) ==
  IF jid < 1 THEN NULL ELSE First({i \in Slots : jobs[i].jid = jid})

pid2jid(jobs, pid) ==
  LET i == getjobpid(jobs, pid) IN IF i = NULL THEN 0 ELSE jobs[i].jid

\* Seeded fault: the first job that is not stopped passes for the foreground.
fgpid_fault(jobs) ==
  LET i == First({j \in Slots : jobs[j].state \in {"FG", "BG"}})
  IN  IF i = NULL THEN 0 ELSE jobs[i].pid

\* A foreground slot whose pid is 0 reads as "no foreground job".
fgpid(jobs) ==
  LET i == First({j \in Slots : jobs[j].state = "FG"})
  IN  IF i = NULL THEN 0 ELSE jobs[i].pid

\* addjob and deletejob also write the global nextjid: both are functions
\* from (jobs, nextjid) to the new pair.
\* Seeded fault: nextjid wraps one job too early.
addjob_fault(jobs, nextjid, pid, state) ==
  LET i == FreeSlot(jobs)
  IN  IF pid < 1 \/ i = NULL
      THEN [jobs |-> jobs, nextjid |-> nextjid]
      ELSE [jobs    |-> [jobs EXCEPT ![i] =
                           [pid |-> pid, jid |-> nextjid, state |-> state]],
            nextjid |-> IF nextjid + 1 >= MAXJOBS THEN 1 ELSE nextjid + 1]

addjob(jobs, nextjid, pid, state) ==
  LET i == FreeSlot(jobs)
  IN  IF pid < 1 \/ i = NULL
      THEN [jobs |-> jobs, nextjid |-> nextjid]
      ELSE [jobs    |-> [jobs EXCEPT ![i] =
                           [pid |-> pid, jid |-> nextjid, state |-> state]],
            nextjid |-> IF nextjid + 1 > MAXJOBS THEN 1 ELSE nextjid + 1]

\* Seeded faults: nextjid is not reset, and clearjob forgets the jid.
deletejob_noreset(jobs, nextjid, pid) ==
  LET i == getjobpid(jobs, pid)
  IN  IF i = NULL
      THEN [jobs |-> jobs, nextjid |-> nextjid]
      ELSE [jobs |-> [jobs EXCEPT ![i] = ClearedJob], nextjid |-> nextjid]

deletejob_keepjid(jobs, nextjid, pid) ==
  LET i    == getjobpid(jobs, pid)
      rest == [jobs EXCEPT ![i].pid = 0]
  IN  IF i = NULL
      THEN [jobs |-> jobs, nextjid |-> nextjid]
      ELSE [jobs |-> rest, nextjid |-> maxjid(rest) + 1]

deletejob(jobs, nextjid, pid) ==
  LET i    == getjobpid(jobs, pid)
      rest == [jobs EXCEPT ![i] = ClearedJob]
  IN  IF i = NULL
      THEN [jobs |-> jobs, nextjid |-> nextjid]
      ELSE [jobs |-> rest, nextjid |-> maxjid(rest) + 1]

ListedPids(jobs) == {jobs[i].pid : i \in Slots} \ {0}
=============================================================================
