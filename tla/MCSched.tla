------------------------------ MODULE MCSched ------------------------------
(* Instances of Sched for TLC: one and two CPUs, up to three tasks.        *)
EXTENDS Sched, TLC

TaskSymmetry == Permutations(Task)
=============================================================================
