------------------------------ MODULE MCBuddy ------------------------------
(* An instance of Buddy for TLC: frame 0 is the boot allocator's, and a hole *)
(* at frame 3, like that of the crash dump, separates the two ranges.        *)
EXTENDS Buddy

MCRanges == <<<<1, 3>>, <<4, 8>>>>

\* Zeroed frames, and bytes that look like a node in the middle of a list.
MCJunk == {[next |-> 0, prev |-> 0], [next |-> 4, prev |-> 2]}
=============================================================================
