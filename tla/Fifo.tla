-------------------------------- MODULE Fifo --------------------------------
(***************************************************************************)
(* What an IPC channel promises: a bounded queue per live channel; what is *)
(* received is the oldest message sent and not yet received, exactly once. *)
(***************************************************************************)
EXTENDS Naturals, Sequences

CONSTANTS Chan, Task, Msg, Capacity

VARIABLES
  queue, \* per channel, the messages in transit, oldest first
  got,   \* per task, the last message it received
  open   \* the channels that exist

vars == <<queue, got, open>>

Init == \A c \in Chan : queue[c] = <<>>

Create(c) ==
  /\ c \notin open
  /\ open' = open \cup {c}
  /\ queue' = [queue EXCEPT ![c] = <<>>]
  /\ UNCHANGED got

Destroy(C) ==
  /\ C \subseteq open
  /\ open' = open \ C
  /\ queue' = [c \in Chan |-> IF c \in C THEN <<>> ELSE queue[c]]
  /\ UNCHANGED got

Put(c, m) ==
  /\ c \in open /\ Len(queue[c]) < Capacity
  /\ queue' = [queue EXCEPT ![c] = Append(@, m)]
  /\ UNCHANGED <<got, open>>

Take(t, c) ==
  /\ c \in open /\ queue[c] # <<>>
  /\ got' = [got EXCEPT ![t] = Head(queue[c])]
  /\ queue' = [queue EXCEPT ![c] = Tail(@)]
  /\ UNCHANGED open

Next ==
  \/ \E c \in Chan : Create(c)
  \/ \E C \in SUBSET Chan : Destroy(C)
  \/ \E c \in Chan, m \in Msg : Put(c, m)
  \/ \E t \in Task, c \in Chan : Take(t, c)

Spec == Init /\ [][Next]_vars
=============================================================================
