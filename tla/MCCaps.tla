------------------------------- MODULE MCCaps -------------------------------
(* Instances of Caps for TLC: one Mmio region and one channel.             *)
EXTENDS Caps, TLC

CONSTANT READ

\* Addresses 1 and 2 of an address space that ends at 4.
MCRootCap ==
  {[flavor |-> "Mmio", base |-> 1, len |-> 2, rights |-> Right]}

MCRootCaps == MCRootCap \cup
  {[flavor |-> "Channel", base |-> 2, len |-> 0, rights |-> {GRANT}]}

TaskSymmetry == Permutations(Task \ Seeded)
=============================================================================
