------------------------------- MODULE Frames -------------------------------
(***************************************************************************)
(* What the physical frame allocator promises its callers: a request for   *)
(* the frames of an order is given an aligned block of usable frames that  *)
(* nobody holds, and is refused only when there is no such block.          *)
(***************************************************************************)
EXTENDS Integers

CONSTANTS
  Usable,
  MAX_ORDER,
  Size        \* frames in a block, by order

VARIABLES
  held,   \* blocks in the hands of callers: <<first frame, order>>
  reply   \* answer to the last call: <<order, first frame>>, 0 for None

FramesOf(blk) == blk[1] .. blk[1] + Size[blk[2]] - 1
Free == Usable \ UNION {FramesOf(blk) : blk \in held}

\* The aligned blocks of an order that are free.
Candidates(order) ==
  {a \in Free : a % Size[order] = 0 /\ FramesOf(<<a, order>>) \subseteq Free}

NoReply == <<0, 0>>  \* of a call that returns nothing

Init == held = {} /\ reply = NoReply

Grant(order) ==
  \E a \in Candidates(order) :
    /\ held' = held \union {<<a, order>>}
    /\ reply' = <<order, a>>

Refuse(order) ==
  /\ order >= MAX_ORDER \/ Candidates(order) = {}
  /\ reply' = <<order, 0>>
  /\ UNCHANGED held

\* A block comes back, its holder goes on with its two halves, or something that
\* is not held is returned, without effect.
Return(blk) == blk \in held /\ held' = held \ {blk} /\ reply' = NoReply

Halve(blk) ==
  /\ blk \in held
  /\ blk[2] > 0
  /\ held' = (held \ {blk}) \union {<<blk[1], blk[2] - 1>>,
                                     <<blk[1] + Size[blk[2] - 1], blk[2] - 1>>}
  /\ reply' = NoReply

Next ==
  \/ \E order \in 0 .. MAX_ORDER : Grant(order) \/ Refuse(order)
  \/ \E blk \in held : Return(blk) \/ Halve(blk)
  \/ reply' = NoReply /\ UNCHANGED held

Spec == Init /\ [][Next]_<<held, reply>>
=============================================================================
