------------------------------ MODULE MCJobList ------------------------------
(* Finite instance of JobList: pids are numbers, as the searches compare   *)
(* them with 0 and 1.                                                      *)
EXTENDS JobList

MCPids == 101 .. 104
=============================================================================
