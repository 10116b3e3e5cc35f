------------------------------- MODULE JobList -------------------------------
(***************************************************************************)
(* What the rest of the shell may do to the job list of tsh.c: add a job   *)
(* for a process that is not on it (eval), delete the job of a pid         *)
(* (sigchld_handler), and store a state through a job pointer (do_bgfg and *)
(* sigchld_handler).  The pointer of do_bgfg may be stale, so a state may  *)
(* be stored in any slot, an empty one included.                           *)
(* Tsh implements this specification: TshProofs has the theorem.           *)
(***************************************************************************)
EXTENDS JobTable

CONSTANTS Pids,      \* process ids of children
          JidBound   \* model bound: no job is added once nextjid exceeds it

ASSUME PidsAssumption == Pids \subseteq Nat \ {0}

VARIABLES jobs, nextjid

vars == <<jobs, nextjid>>

Job == [pid : Pids \cup {0}, jid : Nat, state : JobStates]

TypeOK == /\ jobs \in [Slots -> Job]
          /\ nextjid \in Nat \ {0}

Init == /\ jobs = initjobs
        /\ nextjid = 1

Add(pid, state) ==
  /\ pid \notin ListedPids(jobs)
  /\ nextjid <= JidBound
  /\ LET t == addjob(jobs, nextjid, pid, state)
     IN  jobs' = t.jobs /\ nextjid' = t.nextjid

Delete(pid) ==
  LET t == deletejob(jobs, nextjid, pid)
  IN  jobs' = t.jobs /\ nextjid' = t.nextjid

SetState(i, state) ==
  /\ jobs' = [jobs EXCEPT ![i].state = state]
  /\ UNCHANGED nextjid

Next == \/ \E pid \in Pids, state \in {"FG", "BG"} : Add(pid, state)
        \/ \E pid \in Pids : Delete(pid)
        \/ \E i \in Slots, state \in {"FG", "BG", "ST"} : SetState(i, state)

Spec == Init /\ [][Next]_vars
-----------------------------------------------------------------------------
(* A slot has a job id exactly when it has a process: a stale store of a   *)
(* state never makes a slot look occupied to getjobjid, and addjob may     *)
(* take it.                                                                *)
JidIffPid == \A i \in Slots : jobs[i].jid = 0 <=> jobs[i].pid = 0

(* How job ids are allocated.  nextjid is above every live job id, unless  *)
(* a live id has reached MAXJOBS, where addjob wraps nextjid round to 1.   *)
FreshOrWrapped == nextjid > maxjid(jobs) \/ maxjid(jobs) >= MAXJOBS

(* When the list is empty numbering starts again at 1, whatever order the  *)
(* jobs were added and deleted in.                                         *)
IdleRestart == ListedPids(jobs) = {} => nextjid = 1

(* A step that adds a job while every live id is below MAXJOBS gives it an *)
(* id no live job has: getjobjid finds the new job by it.                  *)
AddedJobIsFound ==
  [][\A pid \in Pids :
       /\ pid \in ListedPids(jobs') \ ListedPids(jobs)
       /\ maxjid(jobs) < MAXJOBS
       => getjobjid(jobs', pid2jid(jobs', pid)) = getjobpid(jobs', pid)]_vars
=============================================================================
