------------------------------ MODULE MCAthFs ------------------------------
(* Instances of AthFs for TLC. *)
EXTENDS AthFs, TLC

CONSTANTS fileA, fileB

MCBlock == 9 .. 19
MCInode == 2 .. 3
MCLogical == 0 .. 2
Symmetry == Permutations(Value)

Basic == [ops |-> {"create", "write"}, names |-> {fileA}, length |-> 2,
          snapshots |-> 0, rollbacks |-> 0, crashes |-> 0]

\* A crash at any write beside a snapshot; a second one, in the replay too.
Torn == [Basic EXCEPT !.ops = @ \union {"snapshot"}, !.snapshots = 1, !.crashes = 1]
Twice == [Torn EXCEPT !.length = 1, !.crashes = 2]
\* Two snapshots and a rollback to either.
Rolled == [Basic EXCEPT !.ops = @ \union {"snapshot", "rollback"}, !.snapshots = 2, !.rollbacks = 1]
\* Snapshots that come and go.
Thinned == [Basic EXCEPT !.ops = @ \union {"snapshot", "delete"}, !.snapshots = 1]
\* Two files, names removed, a leaf that is full.
Named == [Basic EXCEPT !.ops = @ \union {"unlink"}, !.names = {fileA, fileB}, !.length = 1, !.crashes = 1]
Full == [Basic EXCEPT !.length = 3, !.crashes = 1]

MCScenario == {Torn, Twice, Rolled, Thinned, Named, Full}

\* One block, one snapshot, one crash.
MCTorn == {[Torn EXCEPT !.length = 1]}

\* Scenarios outside MCScenario in which a property fails; README.md has them.
MCThinnedTwice == {[Thinned EXCEPT !.snapshots = 2, !.length = 1]}
MCThinnedOnce == {Thinned}
MCThinnedTorn == {[Thinned EXCEPT !.crashes = 1, !.length = 1]}
MCUnlinked == {[Named EXCEPT !.ops = @ \union {"snapshot"}, !.snapshots = 1, !.crashes = 0]}
MCRolledTwice == {[Rolled EXCEPT !.snapshots = 1, !.rollbacks = 2]}
MCRolledThinned == {[Rolled EXCEPT !.ops = @ \union {"delete"}, !.snapshots = 1]}
MCSparse == {[Basic EXCEPT !.ops = @ \union {"sparse"}, !.crashes = 1]}
=============================================================================
