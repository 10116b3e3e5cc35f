-------------------------------- MODULE MCTsh --------------------------------
(* Finite instances of Tsh.  Pids are numbers, as the code compares them.  *)
EXTENDS Tsh

MCPids == 101 .. 102

AllCommands == {"run", "bg", "fg", "jobs", "quit", "sigquit"}
NoForegroundCommand == {"run", "bg", "jobs"}
OnlyRun == {"run"}
=============================================================================
