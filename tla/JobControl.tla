----------------------------- MODULE JobControl -----------------------------
(***************************************************************************)
(* Job control as the head of tsh.c describes it: every process is on no   *)
(* list, in the foreground, in the background or stopped, and at most one  *)
(* is in the foreground.  The transitions are those of the comment "Job    *)
(* state transitions and enabling actions", plus the start and the end of  *)
(* a job and the stop of a background job, which the comment leaves out.   *)
(***************************************************************************)
CONSTANT Pids

VARIABLE state

TypeOK == state \in [Pids -> {"none", "FG", "BG", "ST"}]

Init == state = [p \in Pids |-> "none"]

Free == \A p \in Pids : state[p] # "FG"

Become(p, s) == state' = [state EXCEPT ![p] = s]

Start(p) == /\ state[p] = "none"
            /\ \/ Free /\ Become(p, "FG")
               \/ Become(p, "BG")

Stop(p) == state[p] \in {"FG", "BG"} /\ Become(p, "ST")

Continue(p) == \/ state[p] = "ST" /\ Become(p, "BG")
               \/ state[p] \in {"ST", "BG"} /\ Free /\ Become(p, "FG")

End(p) == state[p] # "none" /\ Become(p, "none")

Next == \E p \in Pids : Start(p) \/ Stop(p) \/ Continue(p) \/ End(p)

Spec == Init /\ [][Next]_state
=============================================================================
