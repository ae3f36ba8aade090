------------------------------- MODULE MCPick -------------------------------
(* An instance of Pick for TLC: a deadline task edf of a short period, and *)
(* Normal tasks of which one may become a Game or a deadline task.         *)
EXTENDS Pick

CONSTANT edf

MCPeriod == [t \in Task |-> IF t = edf THEN 1 ELSE 2]
MCDeadline == [t \in Task |-> 1]
=============================================================================
