-------------------------------- MODULE Nvme --------------------------------
(***************************************************************************)
(* One I/O queue pair of the NVMe driver (kernel/src/nvme.rs) and the      *)
(* device at its other end.  read_sector and write_sector hold             *)
(* NVME_CONTROLLERS from the submission to the completion or the timeout,  *)
(* so one operation is in progress at a time; the device runs beside it,   *)
(* completes in any order, and knows nothing of timeouts.  Doorbell writes *)
(* take effect at once: the device reads `tail' of the submission queue    *)
(* and `head' of the completion queue.  Command identifiers are left out:  *)
(* no caller keeps the one submit_io_command returns, and no completion's  *)
(* is compared with it.                                                    *)
(***************************************************************************)
EXTENDS Integers, Sequences, SequencesExt

CONSTANTS
  entries,      \* slots of either ring
  Lba, Value,
  MaxTimeouts

ASSUME NvmeAssumption ==
  /\ entries \in Nat /\ entries >= 2
  /\ MaxTimeouts \in Nat

VARIABLES
  sq,        \* submission queue: [head, tail]
  cq,        \* completion queue: [head, phase]
  sq_ring,   \* the commands in the slots of the submission queue
  cq_ring,   \* the completions in the slots of the completion queue
  dev,       \* the device's positions: [sq_head, cq_tail, phase]
  inflight,  \* commands the device has fetched and not completed, as fetched
  media,     \* the sectors
  bounce,    \* the DMA buffer all operations share
  op,        \* the command in progress, or Idle
  answer,    \* what the last operation returned
  timeouts,
  sent       \* history: the commands submitted and not fetched, in order

vars == <<sq, cq, sq_ring, cq_ring, dev, inflight, media, bounce, op, answer,
          timeouts, sent>>

Slot == 0 .. entries - 1
Phase == {0, 1}
Command == [kind : {"read", "write"}, lba : Lba]
NoCommand == [kind |-> "none"]
Idle == NoCommand
NoAnswer == [ok |-> FALSE]

\* NvmeQueue::new and zeroed rings; the device's first pass writes phase 1.
Init ==
  /\ sq = [head |-> 0, tail |-> 0]
  /\ cq = [head |-> 0, phase |-> 1]
  /\ sq_ring = [i \in Slot |-> NoCommand]
  /\ cq_ring = [i \in Slot |-> [phase |-> 0, sq_head |-> 0, error |-> FALSE]]
  /\ dev = [sq_head |-> 0, cq_tail |-> 0, phase |-> 1]
  /\ inflight = <<>>
  /\ media \in [Lba -> Value]
  /\ bounce \in Value
  /\ op = Idle
  /\ answer = NoAnswer
  /\ timeouts = 0
  /\ sent = <<>>

-----------------------------------------------------------------------------
\* NvmeQueue.

\* Mutant: there is always room.
is_full_never(q) == FALSE

is_full(q) == (q.tail + 1) % entries = q.head

\* Mutant: the tail runs past the ring.
advance_tail_past(q) == [q EXCEPT !.tail = @ + 1]

advance_tail(q) == [q EXCEPT !.tail = (@ + 1) % entries]

\* Mutant: the phase never changes.
advance_head_same(q) == [q EXCEPT !.head = (@ + 1) % entries]

advance_head(q) ==
  LET head == (q.head + 1) % entries
  IN  [head |-> head, phase |-> IF head = 0 THEN 1 - q.phase ELSE q.phase]

-----------------------------------------------------------------------------
\* The driver.

\* submit_io_command with QueueFull, or the command in the ring and the doorbell rung.
submit_io_command(kind, l) ==
  IF is_full(sq)
  THEN /\ answer' = NoAnswer
       /\ UNCHANGED <<sq, sq_ring, op, sent>>
  ELSE LET cmd == [kind |-> kind, lba |-> l]
       IN  /\ sq_ring' = [sq_ring EXCEPT ![sq.tail] = cmd]
           /\ sq' = advance_tail(sq)
           /\ op' = cmd
           /\ answer' = NoAnswer
           /\ sent' = Append(sent, cmd)

read_sector(l) ==
  /\ op = Idle
  /\ submit_io_command("read", l)
  /\ UNCHANGED <<cq, cq_ring, dev, inflight, media, bounce, timeouts>>

write_sector(l, v) ==
  /\ op = Idle
  /\ bounce' = v
  /\ submit_io_command("write", l)
  /\ UNCHANGED <<cq, cq_ring, dev, inflight, media, timeouts>>

\* What the operation in progress returns.
Result(ok) == [ok |-> ok, kind |-> op.kind, lba |-> op.lba, value |-> bounce]

\* Mutant: the status of the completion is not looked at.
poll_io_completion_any ==
  /\ op # Idle
  /\ cq_ring[cq.head].phase = cq.phase
  /\ cq' = advance_head(cq)
  /\ sq' = [sq EXCEPT !.head = cq_ring[cq.head].sq_head]
  /\ answer' = Result(TRUE)
  /\ op' = Idle
  /\ UNCHANGED <<sq_ring, cq_ring, dev, inflight, media, bounce, timeouts, sent>>

\* Mutant: consumed submissions are not credited back.
poll_io_completion_no_credit ==
  /\ op # Idle
  /\ cq_ring[cq.head].phase = cq.phase
  /\ cq' = advance_head(cq)
  /\ answer' = Result(~cq_ring[cq.head].error)
  /\ op' = Idle
  /\ UNCHANGED <<sq, sq_ring, cq_ring, dev, inflight, media, bounce, timeouts, sent>>

\* The entry at the head is new: whatever command it is for, it ends the operation.
poll_io_completion ==
  /\ op # Idle
  /\ cq_ring[cq.head].phase = cq.phase
  /\ cq' = advance_head(cq)
  /\ sq' = [sq EXCEPT !.head = cq_ring[cq.head].sq_head]
  /\ answer' = Result(~cq_ring[cq.head].error)
  /\ op' = Idle
  /\ UNCHANGED <<sq_ring, cq_ring, dev, inflight, media, bounce, timeouts, sent>>

\* No new entry before NVME_POLL_DEADLINE_CYCLES: IoError, the command is left behind.
poll_timeout ==
  /\ op # Idle
  /\ cq_ring[cq.head].phase # cq.phase
  /\ timeouts < MaxTimeouts
  /\ timeouts' = timeouts + 1
  /\ answer' = NoAnswer
  /\ op' = Idle
  /\ UNCHANGED <<sq, cq, sq_ring, cq_ring, dev, inflight, media, bounce, sent>>

-----------------------------------------------------------------------------
\* The device.

Fetch ==
  /\ dev.sq_head # sq.tail
  /\ inflight' = Append(inflight, sq_ring[dev.sq_head])
  /\ dev' = [dev EXCEPT !.sq_head = (@ + 1) % entries]
  /\ sent' = Tail(sent)
  /\ UNCHANGED <<sq, cq, sq_ring, cq_ring, media, bounce, op, answer, timeouts>>

\* Transfer the data and post the completion, or post an error.
Complete(k, error) ==
  LET cmd == inflight[k] IN
  /\ (dev.cq_tail + 1) % entries # cq.head
  /\ inflight' = RemoveAt(inflight, k)
  /\ media' = IF cmd.kind = "write" /\ ~error THEN [media EXCEPT ![cmd.lba] = bounce] ELSE media
  /\ bounce' = IF cmd.kind = "read" /\ ~error THEN media[cmd.lba] ELSE bounce
  /\ cq_ring' = [cq_ring EXCEPT ![dev.cq_tail] =
                  [phase |-> dev.phase, sq_head |-> dev.sq_head, error |-> error]]
  /\ LET tail == (dev.cq_tail + 1) % entries
     IN  dev' = [dev EXCEPT !.cq_tail = tail,
                            !.phase = IF tail = 0 THEN 1 - @ ELSE @]
  /\ UNCHANGED <<sq, cq, sq_ring, op, answer, timeouts, sent>>

Next ==
  \/ \E l \in Lba : read_sector(l)
  \/ \E l \in Lba, v \in Value : write_sector(l, v)
  \/ poll_io_completion
  \/ poll_timeout
  \/ Fetch
  \/ \E k \in DOMAIN inflight, error \in BOOLEAN : Complete(k, error)

Spec == Init /\ [][Next]_vars

-----------------------------------------------------------------------------
\* Properties.

\* Ring positions, phases and slots stay in range on either side.
TypeOK ==
  /\ sq \in [head : Slot, tail : Slot]
  /\ cq \in [head : Slot, phase : Phase]
  /\ sq_ring \in [Slot -> Command \union {NoCommand}]
  /\ cq_ring \in [Slot -> [phase : Phase, sq_head : Slot, error : BOOLEAN]]
  /\ dev \in [sq_head : Slot, cq_tail : Slot, phase : Phase]
  /\ inflight \in Seq(Command)
  /\ media \in [Lba -> Value] /\ bounce \in Value
  /\ op \in Command \union {Idle}
  /\ timeouts \in 0 .. MaxTimeouts

\* The phase bit tells new from old on every lap of the ring: the entry at the
\* head carries the driver's phase exactly when the device has posted one there
\* that the driver has not consumed.
PhaseExact == cq_ring[cq.head].phase = cq.phase <=> cq.head # dev.cq_tail

\* The commands in the ring between two positions.
Between(from, to) ==
  LET n == (to - from + entries) % entries
  IN  [k \in 1 .. n |-> sq_ring[(from + k - 1) % entries]]

\* The full test keeps the driver from overwriting a command: what the device has
\* still to fetch is what was submitted, in that order, although the driver
\* knows its position only from the completions it has consumed.
SlotsKept == Between(dev.sq_head, sq.tail) = sent

\* Every consumed submission is credited: when the device has completed everything
\* and the driver has consumed every completion, the submission queue is empty
\* to the driver too.
NoPhantomFill ==
  sent = <<>> /\ inflight = <<>> /\ cq.head = dev.cq_tail => sq.head = sq.tail

\* An operation that returns Ok has done its work: a read returns what its sector
\* holds, and a written sector holds what was to be written.
AnswerTrue == answer.ok => media[answer.lba] = answer.value

\* So it is as long as no operation has timed out.
AnswerTrueInTime == timeouts = 0 => AnswerTrue

\* Once the device has completed everything, the next operation is accepted.
Accepts == sent = <<>> /\ inflight = <<>> /\ op = Idle => ~is_full(sq)
=============================================================================
