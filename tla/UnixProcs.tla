------------------------------ MODULE UnixProcs ------------------------------
(***************************************************************************)
(* The part of the kernel tsh relies on, external to the repository: the   *)
(* children of the shell, each alone in the process group of its job, and  *)
(* the signals pending for the shell.  Pending signals are a set: two      *)
(* children that die together may raise one SIGCHLD.                       *)
(***************************************************************************)
EXTENDS Integers

CONSTANT Pids

ASSUME PidsAssumption == Pids \subseteq Nat \ {0}

VARIABLES
  proc,        \* what each child is doing
  unreported,  \* stopped children whose stop waitpid has not reported yet
  doomed,      \* stopped children with a SIGINT pending, fatal on SIGCONT
  pending      \* signals pending for the shell

kvars == <<proc, unreported, doomed, pending>>

Keys == {"INT", "TSTP"}
Signals == Keys \cup {"CHLD"}

\* A "forked" child runs tsh code in the shell's own process group, a
\* "grouped" one runs tsh code in its own, "running" is the job's program.
Alive == {"forked", "grouped", "running", "stopped"}
Dead == {"exited", "signaled"}

KernelTypeOK == /\ proc \in [Pids -> Alive \cup Dead \cup {"none"}]
                /\ unreported \cup doomed \subseteq {p \in Pids : proc[p] = "stopped"}
                /\ pending \subseteq Signals

KernelInit == /\ proc = [p \in Pids |-> "none"]
              /\ unreported = {}
              /\ doomed = {}
              /\ pending = {}

Zombies == {p \in Pids : proc[p] \in Dead}

Fork(p) == /\ proc[p] = "none"
           /\ proc' = [proc EXCEPT ![p] = "forked"]
           /\ UNCHANGED <<unreported, doomed, pending>>

\* A child dies (status "exited" or "signaled"), or stops: SIGCHLD.
Die(p, status) == /\ proc' = [proc EXCEPT ![p] = status]
                  /\ unreported' = unreported \ {p}
                  /\ doomed' = doomed \ {p}
                  /\ pending' = pending \cup {"CHLD"}

Stop(p) == /\ proc' = [proc EXCEPT ![p] = "stopped"]
           /\ unreported' = unreported \cup {p}
           /\ pending' = pending \cup {"CHLD"}
           /\ UNCHANGED doomed

\* kill(-p, sig) from the shell.  Before setpgid there is no group p (ESRCH);
\* before execve the child still has the shell's handlers, which find no
\* foreground job in its copy of the list and swallow the key.
KillINT(p) == \/ /\ proc[p] = "running"
                 /\ Die(p, "signaled")
              \/ /\ proc[p] = "stopped"
                 /\ doomed' = doomed \cup {p}
                 /\ UNCHANGED <<proc, unreported, pending>>
              \/ /\ proc[p] \notin {"running", "stopped"}
                 /\ UNCHANGED kvars

KillTSTP(p) == \/ /\ proc[p] = "running"
                  /\ Stop(p)
               \/ /\ proc[p] # "running"
                  /\ UNCHANGED kvars

\* Continuing a stopped child makes its unreported stop unreportable.
KillCONT(p) == \/ /\ proc[p] = "stopped" /\ p \in doomed
                  /\ Die(p, "signaled")
               \/ /\ proc[p] = "stopped" /\ p \notin doomed
                  /\ proc' = [proc EXCEPT ![p] = "running"]
                  /\ unreported' = unreported \ {p}
                  /\ pending' = pending \cup {"CHLD"}
                  /\ UNCHANGED doomed
               \/ /\ proc[p] # "stopped"
                  /\ UNCHANGED kvars

\* waitpid(-1, &status, WNOHANG | WUNTRACED)
Waitable == Zombies \cup unreported

Collect(p) == /\ p \in Waitable
              /\ proc' = IF proc[p] \in Dead
                         THEN [proc EXCEPT ![p] = "none"] ELSE proc
              /\ unreported' = unreported \ {p}
              /\ UNCHANGED <<doomed, pending>>
-----------------------------------------------------------------------------
\* A program ends, kills or stops itself (myint.c, mystop.c), or is killed.
ProgramExits(p) == proc[p] = "running" /\ Die(p, "exited")
ProgramKilled(p) == proc[p] \in {"running", "stopped"} /\ Die(p, "signaled")
ProgramStops(p) == proc[p] = "running" /\ Stop(p)
=============================================================================
