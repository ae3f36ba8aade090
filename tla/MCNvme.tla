------------------------------ MODULE MCNvme ------------------------------
(* An instance of Nvme for TLC. *)
EXTENDS Nvme, TLC

Symmetry == Permutations(Value)
=============================================================================
