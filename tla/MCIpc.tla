------------------------------- MODULE MCIpc --------------------------------
(* Instances of Ipc for TLC. *)
EXTENDS Ipc, TLC

CONSTANTS user_init   \* the task main.rs gives the keyboard channel to

\* main.rs: user_init holds the keyboard channel by an underived capability.
MCRootChan == [t \in Task |-> IF t = user_init THEN {KEYBOARD_CHANNEL} ELSE {}]

Symmetry == Permutations(Task \ ({user_init} \cup Creators)) \cup Permutations(Msg)
=============================================================================
