--------------------------------- MODULE Tsh ---------------------------------
(***************************************************************************)
(* The shell of tsh.c: its read/eval loop with the builtins bg, fg, jobs   *)
(* and quit, and the three signal handlers that interrupt it and each      *)
(* other anywhere their signal is not blocked.                             *)
(*                                                                         *)
(* A step is the code between two points where a signal can matter: the    *)
(* main flow and the handlers interleave at every read and write of the    *)
(* job list and at every kill, waitpid and sigsuspend.                     *)
(***************************************************************************)
EXTENDS JobTable, UnixProcs

CONSTANTS Commands,  \* what the user types: a subset of the builtins and "run"
          JidBound,  \* model bound: no job is started once nextjid exceeds it
          MaxKeys    \* model bound: keys the user may hit

ASSUME BoundsAssumption == JidBound \in Nat /\ MaxKeys \in Nat

VARIABLES
  jobs, nextjid,  \* the globals of tsh.c
  pc,             \* where the main flow is
  bg, pid, slot,  \* its locals: bg and pid of eval, job of do_bgfg, i of listjobs
  handler,        \* the activation of each signal's handler
  dropped,        \* children addjob refused to list
  keys            \* keys hit so far

main == <<pc, bg, pid, slot>>
table == <<jobs, nextjid>>
vars == <<jobs, nextjid, pc, bg, pid, slot, handler, dropped, keys,
          proc, unreported, doomed, pending>>

\* "over" holds the signals whose handlers this activation interrupted.
Idle == [at |-> "idle", pid |-> 0, how |-> "none", over |-> {}]

Frame == [at   : {"idle", "wait", "update", "read", "kill"},
          pid  : Pids \cup {0},
          how  : Dead \cup {"none", "stopped"},
          over : SUBSET Signals]

Points == {"prompt", "fork", "addjob", "announce", "waitfg", "suspend",
           "suspended", "bgfg_kill", "bgfg_set", "list", "list_print",
           "exited", "crashed"}

Job == [pid : Pids \cup {0}, jid : Nat, state : JobStates]

TypeOK ==
  /\ KernelTypeOK
  /\ jobs \in [Slots -> Job]
  /\ nextjid \in Nat \ {0}
  /\ pc \in Points
  /\ bg \in BOOLEAN
  /\ pid \in Pids \cup {0, -1}
  /\ slot \in Slots
  /\ handler \in [Signals -> Frame]
  /\ dropped \subseteq Pids
  /\ keys \in 0 .. MaxKeys

Init == /\ KernelInit
        /\ jobs = initjobs /\ nextjid = 1
        /\ pc = "prompt" /\ bg = FALSE /\ pid = 0 /\ slot = 0
        /\ handler = [s \in Signals |-> Idle]
        /\ dropped = {} /\ keys = 0

ShellAlive == pc \notin {"exited", "crashed"}

Active == {s \in Signals : handler[s].at # "idle"}

\* The main flow runs when no handler does; of the active handlers, the one
\* that interrupted all others runs.
MainAt(point) == pc = point /\ Active = {}
Runs(s, at) == /\ ShellAlive
               /\ handler[s].at = at
               /\ Active \ {s} \subseteq handler[s].over

\* Back to the prompt: the locals are gone.
ToPrompt == /\ pc' = "prompt" /\ bg' = FALSE /\ pid' = 0 /\ slot' = 0

-----------------------------------------------------------------------------
(* eval: a command that is not a builtin.  SIGCHLD is blocked from before  *)
(* the fork until the job is on the list.                                  *)
EvalRun(b) == /\ MainAt("prompt") /\ "run" \in Commands
              /\ nextjid <= JidBound
              /\ pc' = "fork" /\ bg' = b
              /\ UNCHANGED <<pid, slot, table, handler, dropped, keys, kvars>>

EvalFork == /\ MainAt("fork")
            /\ \/ \E p \in Pids : Fork(p) /\ pid' = p
               \/ UNCHANGED kvars /\ pid' = -1     \* fork failed
            /\ pc' = "addjob"
            /\ UNCHANGED <<bg, slot, table, handler, dropped, keys>>

\* addjob runs with all signals blocked; a full list refuses the job.
EvalAddjob ==
  /\ MainAt("addjob")
  /\ LET t == addjob(jobs, nextjid, pid, IF bg THEN "BG" ELSE "FG")
     IN  /\ jobs' = t.jobs /\ nextjid' = t.nextjid
         /\ dropped' = IF FreeSlot(jobs) = NULL /\ pid \in Pids
                       THEN dropped \cup {pid} ELSE dropped
  /\ pc' = IF bg THEN "announce" ELSE "waitfg"
  /\ UNCHANGED <<bg, pid, slot, handler, keys, kvars>>

\* printf("[%d] (%d) ...", pid2jid(pid), ...)
EvalAnnounce == /\ MainAt("announce")
                /\ ToPrompt
                /\ UNCHANGED <<table, handler, dropped, keys, kvars>>

(* waitfg: the test of the loop, then sigsuspend; its return to the test   *)
(* is in Deliver.                                                          *)
WaitfgTest == /\ MainAt("waitfg")
              /\ IF fgpid(jobs) > 0
                 THEN pc' = "suspend" /\ UNCHANGED <<bg, pid, slot>>
                 ELSE ToPrompt
              /\ UNCHANGED <<table, handler, dropped, keys, kvars>>

WaitfgSuspend == /\ MainAt("suspend")
                 /\ pc' = "suspended"
                 /\ UNCHANGED <<bg, pid, slot, table, handler, dropped, keys, kvars>>

(* do_bgfg: the job is looked up by pid or jid, then signalled, then its   *)
(* state is stored; SIGCHLD may come in between.                           *)
Named == {getjobpid(jobs, p) : p \in Pids} \cup
         {getjobjid(jobs, jobs[i].jid) : i \in Slots}

BgFgFind(b) == /\ MainAt("prompt") /\ (IF b THEN "bg" ELSE "fg") \in Commands
               /\ slot' \in Named \ {NULL}
               /\ pc' = "bgfg_kill" /\ bg' = b
               /\ UNCHANGED <<pid, table, handler, dropped, keys, kvars>>

\* A stale pointer has pid 0: kill(0, SIGCONT) reaches only the shell's group.
BgFgKill == /\ MainAt("bgfg_kill")
            /\ IF jobs[slot].pid = 0 THEN UNCHANGED kvars
               ELSE KillCONT(jobs[slot].pid)
            /\ pc' = "bgfg_set"
            /\ UNCHANGED <<bg, pid, slot, table, handler, dropped, keys>>

\* Seeded fault: bg does not store the new state.
BgFgSet_fault == /\ MainAt("bgfg_set")
                 /\ IF bg THEN ToPrompt /\ UNCHANGED jobs
                    ELSE /\ jobs' = [jobs EXCEPT ![slot].state = "FG"]
                         /\ pc' = "waitfg" /\ UNCHANGED <<bg, pid, slot>>
                 /\ UNCHANGED <<nextjid, handler, dropped, keys, kvars>>

BgFgSet == /\ MainAt("bgfg_set")
           /\ jobs' = [jobs EXCEPT ![slot].state = IF bg THEN "BG" ELSE "FG"]
           /\ IF bg THEN ToPrompt ELSE pc' = "waitfg" /\ UNCHANGED <<bg, pid, slot>>
           /\ UNCHANGED <<nextjid, handler, dropped, keys, kvars>>

(* listjobs: for each slot the test of the pid, then the printing.         *)
ListStart == /\ MainAt("prompt") /\ "jobs" \in Commands
             /\ pc' = "list"
             /\ UNCHANGED <<bg, pid, slot, table, handler, dropped, keys, kvars>>

\* Seeded fault: the loop stays on its slot.
ListNext_fault == pc' = "list" /\ UNCHANGED <<bg, pid, slot>>

ListNext == IF slot + 1 \in Slots
            THEN pc' = "list" /\ slot' = slot + 1 /\ UNCHANGED <<bg, pid>>
            ELSE ToPrompt

ListTest == /\ MainAt("list")
            /\ IF jobs[slot].pid # 0
               THEN pc' = "list_print" /\ UNCHANGED <<bg, pid, slot>>
               ELSE ListNext
            /\ UNCHANGED <<table, handler, dropped, keys, kvars>>

ListPrint == /\ MainAt("list_print")
             /\ ListNext
             /\ UNCHANGED <<table, handler, dropped, keys, kvars>>

\* quit, end of file at the prompt; SIGQUIT ends the shell anywhere.
Quit == /\ MainAt("prompt") /\ "quit" \in Commands
        /\ pc' = "exited"
        /\ UNCHANGED <<bg, pid, slot, table, handler, dropped, keys, kvars>>

sigquit_handler == /\ ShellAlive /\ "sigquit" \in Commands
                   /\ pc' = "exited"
                   /\ UNCHANGED <<bg, pid, slot, table, handler, dropped, keys, kvars>>

-----------------------------------------------------------------------------
(* A pending signal interrupts the shell unless it is blocked: by eval, or *)
(* because its own handler is active (sa_mask is empty).  If it interrupts *)
(* sigsuspend, waitfg goes on with the test of its loop.                   *)
Blocked_fault == Active    \* seeded fault: eval does not block SIGCHLD

Blocked == Active \cup (IF pc \in {"fork", "addjob"} THEN {"CHLD"} ELSE {})

\* Seeded fault: waitfg does not test again after sigsuspend (if for while).
Deliver_fault(s) ==
  /\ ShellAlive
  /\ s \in pending \ Blocked
  /\ pending' = pending \ {s}
  /\ handler' = [handler EXCEPT ![s] =
                   [Idle EXCEPT !.at = IF s = "CHLD" THEN "wait" ELSE "read",
                                !.over = Active]]
  /\ IF pc = "suspended" THEN ToPrompt ELSE UNCHANGED main
  /\ UNCHANGED <<table, dropped, keys, proc, unreported, doomed>>

Deliver(s) ==
  /\ ShellAlive
  /\ s \in pending \ Blocked
  /\ pending' = pending \ {s}
  /\ handler' = [handler EXCEPT ![s] =
                   [Idle EXCEPT !.at = IF s = "CHLD" THEN "wait" ELSE "read",
                                !.over = Active]]
  /\ pc' = IF pc = "suspended" THEN "waitfg" ELSE pc
  /\ UNCHANGED <<bg, pid, slot, table, dropped, keys, proc, unreported, doomed>>

Return(s) == handler' = [handler EXCEPT ![s] = Idle]

(* sigchld_handler: waitpid until it has nothing to report.                *)
ChldWait ==
  /\ Runs("CHLD", "wait")
  /\ \/ \E p \in Waitable :
          /\ Collect(p)
          /\ handler' = [handler EXCEPT !["CHLD"].at = "update",
                                        !["CHLD"].pid = p,
                                        !["CHLD"].how = proc[p]]
     \/ Waitable = {} /\ Return("CHLD") /\ UNCHANGED kvars
  /\ UNCHANGED <<main, table, dropped, keys>>

\* Seeded fault: one waitpid for each SIGCHLD (if for while).
ChldUpdate_fault ==
  LET f == handler["CHLD"]
      i == getjobpid(jobs, f.pid)
      t == deletejob(jobs, nextjid, f.pid)
  IN  /\ Runs("CHLD", "update")
      /\ IF f.how # "exited" /\ i = NULL
         THEN pc' = "crashed" /\ UNCHANGED <<table, dropped, handler>>
         ELSE /\ IF f.how = "stopped"
                 THEN /\ jobs' = [jobs EXCEPT ![i].state = "ST"]
                      /\ UNCHANGED <<nextjid, dropped>>
                 ELSE /\ jobs' = t.jobs /\ nextjid' = t.nextjid
                      /\ dropped' = dropped \ {f.pid}
              /\ Return("CHLD")
              /\ UNCHANGED pc
      /\ UNCHANGED <<bg, pid, slot, keys, kvars>>

\* The handler dereferences the job of a killed or stopped child unchecked.
ChldUpdate ==
  LET f == handler["CHLD"]
      i == getjobpid(jobs, f.pid)
      t == deletejob(jobs, nextjid, f.pid)
  IN  /\ Runs("CHLD", "update")
      /\ IF f.how # "exited" /\ i = NULL
         THEN pc' = "crashed" /\ UNCHANGED <<table, dropped, handler>>
         ELSE /\ IF f.how = "stopped"
                 THEN /\ jobs' = [jobs EXCEPT ![i].state = "ST"]
                      /\ UNCHANGED <<nextjid, dropped>>
                 ELSE /\ jobs' = t.jobs /\ nextjid' = t.nextjid
                      /\ dropped' = dropped \ {f.pid}
              /\ handler' = [handler EXCEPT !["CHLD"] =
                               [Idle EXCEPT !.at = "wait", !.over = f.over]]
              /\ UNCHANGED pc
      /\ UNCHANGED <<bg, pid, slot, keys, kvars>>

(* sigint_handler and sigtstp_handler: fgpid, then kill.                   *)
KeyRead(s) == /\ Runs(s, "read")
              /\ IF fgpid(jobs) # 0
                 THEN handler' = [handler EXCEPT ![s].at = "kill",
                                                 ![s].pid = fgpid(jobs)]
                 ELSE Return(s)
              /\ UNCHANGED <<main, table, dropped, keys, kvars>>

KeyKill(s) == /\ Runs(s, "kill")
              /\ IF s = "INT" THEN KillINT(handler[s].pid)
                 ELSE KillTSTP(handler[s].pid)
              /\ Return(s)
              /\ UNCHANGED <<main, table, dropped, keys>>

-----------------------------------------------------------------------------
(* The environment: children up to their execve (tsh code), programs, and  *)
(* the user's keys.                                                        *)
ChildSetpgid(p) == /\ ShellAlive /\ proc[p] = "forked"
                   /\ proc' = [proc EXCEPT ![p] = "grouped"]
                   /\ UNCHANGED <<main, table, handler, dropped, keys,
                                  unreported, doomed, pending>>

\* execve, or setpgid, fails: exit(0)
ChildExec(p) == /\ ShellAlive
                /\ \/ /\ proc[p] = "grouped"
                      /\ proc' = [proc EXCEPT ![p] = "running"]
                      /\ UNCHANGED <<unreported, doomed, pending>>
                   \/ /\ proc[p] \in {"forked", "grouped"}
                      /\ Die(p, "exited")
                /\ UNCHANGED <<main, table, handler, dropped, keys>>

Program(p) == /\ ShellAlive
              /\ ProgramExits(p) \/ ProgramKilled(p) \/ ProgramStops(p)
              /\ UNCHANGED <<main, table, handler, dropped, keys>>

Key(s) == /\ ShellAlive /\ keys < MaxKeys
          /\ keys' = keys + 1
          /\ pending' = pending \cup {s}
          /\ UNCHANGED <<main, table, handler, dropped, proc, unreported, doomed>>

-----------------------------------------------------------------------------
User == \/ \E b \in BOOLEAN : EvalRun(b) \/ BgFgFind(b)
        \/ ListStart
        \/ Quit
        \/ sigquit_handler
        \/ \E s \in Keys : Key(s)

Main == \/ EvalFork \/ EvalAddjob \/ EvalAnnounce
        \/ WaitfgTest \/ WaitfgSuspend
        \/ BgFgKill \/ BgFgSet
        \/ ListTest \/ ListPrint

Handlers == \/ ChldWait \/ ChldUpdate
            \/ \E s \in Keys : KeyRead(s) \/ KeyKill(s)

Next == \/ User \/ Main \/ Handlers
        \/ \E s \in Signals : Deliver(s)
        \/ \E p \in Pids : ChildSetpgid(p) \/ ChildExec(p) \/ Program(p)

(* The scheduler runs a shell that can run and the children up to their    *)
(* program, and a pending signal is not deferred for ever by blocking it   *)
(* now and then.  Neither the user nor a program has to do anything.       *)
Fairness == /\ WF_vars(Main)
            /\ WF_vars(Handlers)
            /\ \A s \in Signals : SF_vars(Deliver(s))
            /\ \A p \in Pids : WF_vars(ChildSetpgid(p) \/ ChildExec(p))

Spec == Init /\ [][Next]_vars
FairSpec == Spec /\ Fairness
-----------------------------------------------------------------------------
BeingReaped(p) == /\ handler["CHLD"].at = "update"
                  /\ handler["CHLD"].pid = p
                  /\ handler["CHLD"].how \in Dead

(* The list and the kernel agree on who the children are.  A process has   *)
(* one slot, a listed process is a child that is not reaped or whose job   *)
(* sigchld_handler is about to delete, and a child that is not listed has  *)
(* been refused by a full list or is on its way into addjob.  This is what *)
(* blocking SIGCHLD around fork is for.                                    *)
PidsUnique ==
  \A i, k \in Slots : jobs[i].pid = jobs[k].pid /\ jobs[i].pid # 0 => i = k

TableSound ==
  /\ PidsUnique
  /\ \A p \in ListedPids(jobs) : proc[p] # "none" \/ BeingReaped(p)
  /\ \A p \in Pids : proc[p] # "none" =>
       \/ p \in ListedPids(jobs) \cup dropped
       \/ pid = p /\ pc \in {"addjob", "exited"}

(* The handler's unchecked pointer is NULL only after addjob has refused a *)
(* child: a shell whose list never was full does not crash.                *)
CrashOnlyAfterOverflow == pc = "crashed" => dropped # {}

(* SIGCHLDs coalesce, yet no change of a child is forgotten: while there   *)
(* is something for waitpid to report, a SIGCHLD is pending or its handler *)
(* is still in its loop.                                                   *)
NoChildForgotten ==
  Waitable # {} => "CHLD" \in pending \/ "CHLD" \in Active

(* What makes TypeOK, TableSound and CrashOnlyAfterOverflow inductive.     *)
\* A handler that is about to act has a child to act on.
Targets ==
  /\ \A s \in Keys : handler[s].at = "kill" => handler[s].pid \in Pids
  /\ handler["CHLD"].at = "update" =>
       handler["CHLD"].pid \in Pids /\ handler["CHLD"].how \in Dead \cup {"stopped"}

\* A dead child the handler has collected is gone from the kernel, but the
\* shell still knows it.
FrameOK ==
  LET f == handler["CHLD"]
  IN  f.at = "update" =>
        IF f.how \in Dead
        THEN proc[f.pid] = "none" /\ f.pid \in ListedPids(jobs) \cup dropped
        ELSE proc[f.pid] # "none"

\* From the block of SIGCHLD to addjob the handler cannot run.
ForkOK ==
  /\ pc \in {"fork", "addjob"} => "CHLD" \notin Active /\ nextjid <= JidBound
  /\ pc = "addjob" /\ pid \in Pids =>
       proc[pid] # "none" /\ pid \notin ListedPids(jobs) \cup dropped

DroppedOK ==
  \A p \in dropped : /\ p \notin ListedPids(jobs)
                     /\ proc[p] # "none" \/ BeingReaped(p)

TableInv == /\ TableSound /\ CrashOnlyAfterOverflow
            /\ Targets /\ FrameOK /\ ForkOK /\ DroppedOK

(* A job marked ST has really stopped, and still is, or a change the       *)
(* handler will see is under way, or do_bgfg has just continued it.        *)
StoppedIsStopped ==
  \A i \in Slots :
    LET p == jobs[i].pid
    IN  ShellAlive /\ jobs[i].state = "ST" /\ p # 0 =>
          \/ proc[p] = "stopped"
          \/ p \in Zombies \/ BeingReaped(p)
          \/ pc = "bgfg_set" /\ slot = i

(* A key that is forwarded never hits a background job, even when SIGCHLD  *)
(* interrupts the key's handler between fgpid and kill.                    *)
KeysSpareBackground ==
  [][\A i \in Slots, s \in Keys :
       /\ handler[s].at = "kill" /\ handler'[s].at = "idle"
       /\ jobs[i].state = "BG" /\ jobs[i].pid # 0
       => proc'[jobs[i].pid] = proc[jobs[i].pid]]_vars

(* Every zombie is reaped and every stop reported, or overtaken by a       *)
(* continue, however the SIGCHLDs coalesce: no zombie stays for ever.      *)
ChangesNoticed ==
  \A p \in Pids : p \in Waitable ~> p \notin Waitable \/ ~ShellAlive

(* A command that does not wait for a foreground job comes back to the     *)
(* prompt whatever signals interrupt it.                                   *)
CommandsReturn ==
  (pc \in {"list", "list_print"} \/ (pc = "fork" /\ bg) \/ (pc = "bgfg_kill" /\ bg))
    ~> (pc = "prompt" \/ ~ShellAlive)

(* The changes of the job list are those JobList allows.                   *)
List == INSTANCE JobList
ListSpec == List!Spec
-----------------------------------------------------------------------------
Foreground == {i \in Slots : jobs[i].state = "FG" /\ jobs[i].pid # 0}

(* "At most 1 job can be in the FG state."                                 *)
AtMostOneForeground == Cardinality(Foreground) <= 1

(* waitfg gives the prompt back only when no job is in the foreground.     *)
NoForegroundAtPrompt == MainAt("prompt") => Foreground = {}

\* The state of each process as the job list shows it.
StateOf(list, p) == LET i == getjobpid(list, p)
                    IN  IF i = NULL THEN "none" ELSE list[i].state

JobState == [p \in Pids |-> StateOf(jobs, p)]

(* As long as nobody types fg the shell implements job control as the head *)
(* of tsh.c has it.                                                        *)
Control == INSTANCE JobControl WITH state <- JobState
ControlSpec == Control!Spec

(* waitfg blocks "until process pid is no longer the foreground process"   *)
(* and not longer.                                                         *)
WaitfgReturns ==
  (pc \in {"waitfg", "suspend", "suspended"} /\ fgpid(jobs) = 0)
    ~> (pc = "prompt" \/ ~ShellAlive)
=============================================================================
