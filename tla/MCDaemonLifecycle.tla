-------------------------- MODULE MCDaemonLifecycle --------------------------
(* Instances of DaemonLifecycle for TLC. *)
EXTENDS DaemonLifecycle

CONSTANT LastPid  \* one of Pids

\* The machine on which least can go wrong, and the one on which most can, but
\* with a process id less.
Best == [service |-> FALSE, quick |-> TRUE, pids |-> Pids]
Worst == [service |-> TRUE, quick |-> FALSE, pids |-> Pids \ {LastPid}]

BestMachine == {Best}
BestAndWorst == {Best, Worst}
=============================================================================
