------------------------------ MODULE MCFutex ------------------------------
(* An instance of Futex for TLC: t2 may join t3, and all share a word.       *)
EXTENDS Futex

CONSTANTS t1, t2, t3

MCTid == [t \in Task |-> CASE t = t1 -> "tid1" [] t = t2 -> "tid2" [] t = t3 -> "tid3"]
MCJoiner == [t \in Task |-> IF t = t3 THEN t2 ELSE t]
=============================================================================
