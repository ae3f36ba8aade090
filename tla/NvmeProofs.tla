----------------------------- MODULE NvmeProofs -----------------------------
(***************************************************************************)
(* Proofs about Nvme, for rings of any size, any number of timeouts and    *)
(* completions in any order: the rings, and what an operation returns as   *)
(* long as none has timed out.                                             *)
(***************************************************************************)
EXTENDS Nvme, TLAPS

\* Steps forward around the ring from a to b.
Dist(a, b) == IF a <= b THEN b - a ELSE b - a + entries

\* The slot k steps after a.
Plus(a, k) == IF a + k < entries THEN a + k ELSE a + k - entries

LEMMA Mod ==
  /\ \A a \in Slot : (a + 1) % entries = Plus(a, 1) /\ Plus(a, 1) \in Slot
  /\ \A a, b \in Slot : (b - a + entries) % entries = Dist(a, b) /\ Dist(a, b) \in Slot
  /\ \A a \in Slot : \A k \in Slot : (a + k) % entries = Plus(a, k) /\ Plus(a, k) \in Slot
<1>1. \A x \in Nat : x < entries => x % entries = x
  BY NvmeAssumption, Z3
<1>2. \A x \in Nat : x >= entries /\ x < 2 * entries => x % entries = x - entries
  BY NvmeAssumption, Z3
<1> QED
  BY <1>1, <1>2, NvmeAssumption, SMTT(30) DEF Slot, Plus, Dist

-----------------------------------------------------------------------------
(***************************************************************************)
(* The completion queue.  One lap of the device carries one phase, so the  *)
(* slots below its tail are the ones with its phase; and the driver is on  *)
(* the same lap unless the device has wrapped since.                       *)
(***************************************************************************)
CqType ==
  /\ cq \in [head : Slot, phase : Phase]
  /\ cq_ring \in [Slot -> [phase : Phase, sq_head : Slot, error : BOOLEAN]]
  /\ dev \in [sq_head : Slot, cq_tail : Slot, phase : Phase]

CqInv ==
  /\ CqType
  /\ \A i \in Slot : cq_ring[i].phase = dev.phase <=> i < dev.cq_tail
  /\ dev.phase = cq.phase <=> cq.head <= dev.cq_tail

LEMMA InitCqInv == Init => CqInv
<1> SUFFICES ASSUME Init PROVE CqInv
  OBVIOUS
<1>1. 0 \in Slot /\ \A i \in Slot : ~(i < 0)
  BY NvmeAssumption DEF Slot
<1>2. CqType
  BY <1>1 DEF Init, CqType, Phase
<1> QED
  BY <1>1, <1>2 DEF Init, CqInv

LEMMA CqInvPhase == CqInv => PhaseExact
  BY NvmeAssumption, SMTT(30) DEF CqInv, CqType, PhaseExact, Slot, Phase

\* Whose turn of the ring a position is on, when one of the two advances.
LEMMA Turn ==
  ASSUME NEW head \in Slot, NEW tail \in Slot, NEW p \in Phase, NEW q \in Phase,
         q = p <=> head <= tail
  PROVE  /\ head # tail =>
              (q = (IF Plus(head, 1) = 0 THEN 1 - p ELSE p) <=> Plus(head, 1) <= tail)
         /\ Plus(tail, 1) # head =>
              ((IF Plus(tail, 1) = 0 THEN 1 - q ELSE q) = p <=> head <= Plus(tail, 1))
<1>1. p \in {0, 1} /\ q \in {0, 1} /\ head \in 0 .. entries - 1 /\ tail \in 0 .. entries - 1
  BY DEF Phase, Slot
<1>2. CASE head + 1 < entries
  <2>1. Plus(head, 1) = head + 1
    BY <1>2 DEF Plus
  <2> QED
    BY <2>1, <1>1, <1>2, NvmeAssumption, SMTT(30) DEF Plus
<1>3. CASE head + 1 >= entries
  <2>1. head = entries - 1 /\ Plus(head, 1) = 0
    BY <1>1, <1>3, NvmeAssumption DEF Plus
  <2> QED
    BY <2>1, <1>1, NvmeAssumption, SMTT(30) DEF Plus
<1> QED
  BY <1>1, <1>2, <1>3, NvmeAssumption, SMTT(30)

LEMMA PollCqInv ==
  ASSUME CqInv, poll_io_completion
  PROVE  CqInv'
<1>1. /\ cq' = advance_head(cq) /\ UNCHANGED <<cq_ring, dev>>
      /\ cq.head # dev.cq_tail
  BY CqInvPhase DEF poll_io_completion, PhaseExact
<1>2. /\ cq'.head = Plus(cq.head, 1) /\ cq'.head \in Slot
      /\ cq'.phase = IF cq'.head = 0 THEN 1 - cq.phase ELSE cq.phase
      /\ cq' = [head |-> cq'.head, phase |-> cq'.phase]
  BY <1>1, Mod DEF advance_head, CqInv, CqType
<1>3. cq'.phase \in Phase
  BY <1>2, SMTT(30) DEF CqInv, CqType, Phase
<1>4. CqType'
  BY <1>1, <1>2, <1>3, Zenon DEF CqInv, CqType
<1>5. dev.phase = cq'.phase <=> cq'.head <= dev.cq_tail
  <2>1. cq.head \in Slot /\ dev.cq_tail \in Slot /\ cq.phase \in Phase /\ dev.phase \in Phase
    BY DEF CqInv, CqType
  <2>2. dev.phase = cq.phase <=> cq.head <= dev.cq_tail
    BY DEF CqInv
  <2> QED
    BY <2>1, <2>2, <1>1, <1>2, Turn, SMTT(30)
<1> QED
  BY <1>1, <1>4, <1>5, SMTT(30) DEF CqInv

LEMMA CompleteCqInv ==
  ASSUME CqInv, NEW k, NEW error \in BOOLEAN, Complete(k, error)
  PROVE  CqInv'
<1> DEFINE tail == Plus(dev.cq_tail, 1)
           post == [phase |-> dev.phase, sq_head |-> dev.sq_head, error |-> error]
<1>1. /\ cq_ring' = [cq_ring EXCEPT ![dev.cq_tail] = post]
      /\ tail # cq.head /\ tail \in Slot
      /\ dev' = [dev EXCEPT !.cq_tail = tail, !.phase = IF tail = 0 THEN 1 - @ ELSE @]
      /\ cq' = cq
  BY Mod, ZenonT(30) DEF Complete, CqInv, CqType
<1>2. /\ dev'.cq_tail = tail /\ dev'.sq_head = dev.sq_head
      /\ dev'.phase = IF tail = 0 THEN 1 - dev.phase ELSE dev.phase
  BY <1>1 DEF CqInv, CqType
<1>3. dev'.phase \in Phase
  BY <1>2, SMTT(30) DEF CqInv, CqType, Phase
<1>4. CqType'
  <2>1. post \in [phase : Phase, sq_head : Slot, error : BOOLEAN]
    BY DEF CqInv, CqType
  <2>2. cq_ring' \in [Slot -> [phase : Phase, sq_head : Slot, error : BOOLEAN]]
    BY <1>1, <2>1 DEF CqInv, CqType
  <2>3. dev' \in [sq_head : Slot, cq_tail : Slot, phase : Phase]
    BY <1>1, <1>2, <1>3, ZenonT(30) DEF CqInv, CqType
  <2> QED
    BY <1>1, <2>2, <2>3 DEF CqInv, CqType
<1>5. ASSUME NEW i \in Slot
      PROVE  cq_ring'[i].phase = IF i = dev.cq_tail THEN dev.phase ELSE cq_ring[i].phase
  BY <1>1 DEF CqInv, CqType
<1>6. ASSUME NEW i \in Slot
      PROVE  cq_ring'[i].phase = dev'.phase <=> i < dev'.cq_tail
  <2>1. cq_ring[i].phase \in Phase /\ dev.phase \in Phase /\ dev.cq_tail \in Slot
    BY DEF CqInv, CqType
  <2>2. cq_ring[i].phase = dev.phase <=> i < dev.cq_tail
    BY DEF CqInv
  <2> QED
    BY <1>2, <1>5, <2>1, <2>2, NvmeAssumption, SMTT(30) DEF Phase, Slot, Plus
<1>7. dev'.phase = cq'.phase <=> cq'.head <= dev'.cq_tail
  <2>1. cq.head \in Slot /\ dev.cq_tail \in Slot /\ cq.phase \in Phase /\ dev.phase \in Phase
    BY DEF CqInv, CqType
  <2>2. dev.phase = cq.phase <=> cq.head <= dev.cq_tail
    BY DEF CqInv
  <2> QED
    BY <2>1, <2>2, <1>1, <1>2, Turn, SMTT(30)
<1> QED
  BY <1>4, <1>6, <1>7, SMTT(30) DEF CqInv

LEMMA NextCqInv ==
  ASSUME CqInv, [Next]_vars
  PROVE  CqInv'
<1>1. CASE poll_io_completion
  BY <1>1, PollCqInv
<1>2. ASSUME NEW k \in DOMAIN inflight, NEW error \in BOOLEAN, Complete(k, error)
      PROVE  CqInv'
  BY <1>2, CompleteCqInv
<1>3. CASE Fetch
  <2>1. UNCHANGED <<cq, cq_ring>> /\ dev' = [dev EXCEPT !.sq_head = Plus(@, 1)]
    BY <1>3, Mod DEF Fetch, CqInv, CqType
  <2>2. dev' \in [sq_head : Slot, cq_tail : Slot, phase : Phase]
    BY <2>1, Mod, Zenon DEF CqInv, CqType
  <2>3. dev'.cq_tail = dev.cq_tail /\ dev'.phase = dev.phase
    BY <2>1 DEF CqInv, CqType
  <2> QED
    BY <2>1, <2>2, <2>3, SMTT(30) DEF CqInv, CqType
<1>4. CASE UNCHANGED <<cq, cq_ring, dev>>
  BY <1>4 DEF CqInv, CqType
<1> QED
  BY <1>1, <1>2, <1>3, <1>4, Zenon
     DEF Next, vars, read_sector, write_sector, poll_timeout

\* For rings of any size: the driver takes the entry at the head of the completion
\* queue for new exactly when poll_io_completion has a posted entry to consume.
THEOREM PhaseIsExact == Spec => []PhaseExact
<1>1. Init => CqInv
  BY InitCqInv
<1>2. CqInv /\ [Next]_vars => CqInv'
  BY NextCqInv
<1>3. CqInv => PhaseExact
  BY CqInvPhase
<1> QED
  BY <1>1, <1>2, <1>3, PTL DEF Spec

-----------------------------------------------------------------------------
(***************************************************************************)
(* The submission queue.  Going back from the tail one meets the device's  *)
(* position, then the positions reported by the completions not yet        *)
(* consumed, the latest first, then the driver's head: so a queue that is  *)
(* not full to the driver has a free slot, and the last completion brings  *)
(* the driver's head to where the device is.                               *)
(***************************************************************************)
Lag(a) == Dist(a, sq.tail)

\* The slots of the completions posted and not consumed.
Posted(i) == Dist(cq.head, i) < Dist(cq.head, dev.cq_tail)

SqType ==
  /\ sq \in [head : Slot, tail : Slot]
  /\ sq_ring \in [Slot -> Command \union {NoCommand}]
  /\ sent \in Seq(Command)
  /\ inflight \in Seq(Command)

SqOrder ==
  /\ Lag(dev.sq_head) <= Lag(sq.head)
  /\ \A i \in Slot : Posted(i) =>
       Lag(dev.sq_head) <= Lag(cq_ring[i].sq_head) /\ Lag(cq_ring[i].sq_head) <= Lag(sq.head)
  /\ \A i, j \in Slot : Posted(i) /\ Posted(j) /\ Dist(cq.head, i) <= Dist(cq.head, j) =>
       Lag(cq_ring[j].sq_head) <= Lag(cq_ring[i].sq_head)

SqSlots ==
  /\ Len(sent) = Lag(dev.sq_head)
  /\ \A k \in 1 .. Len(sent) : sent[k] = sq_ring[Plus(dev.sq_head, k - 1)]

SqCredit ==
  inflight = <<>> =>
    /\ cq.head = dev.cq_tail => sq.head = dev.sq_head
    /\ \A i \in Slot : Posted(i) /\ Plus(i, 1) = dev.cq_tail => cq_ring[i].sq_head = dev.sq_head

SqInv == CqInv /\ SqType /\ SqOrder /\ SqSlots /\ SqCredit

LEMMA RingStep ==
  ASSUME NEW a \in Slot, NEW k \in Slot
  PROVE  /\ Plus(a, k) \in Slot
         /\ \A b \in Slot : k < Dist(a, b) => Plus(a, k) # b
  BY NvmeAssumption, SMTT(30) DEF Slot, Dist, Plus

LEMMA DistNat == \A a, b \in Slot : Dist(a, b) \in Nat /\ Dist(a, b) \in Slot
  BY NvmeAssumption DEF Slot, Dist

LEMMA InitSqInv == Init => SqInv
<1> SUFFICES ASSUME Init PROVE SqInv
  OBVIOUS
<1>1. 0 \in Slot
  BY NvmeAssumption DEF Slot
<1>2. CqInv
  BY InitCqInv
<1>3. SqType
  BY <1>1 DEF Init, SqType
<1>4. /\ sq.head = 0 /\ sq.tail = 0 /\ dev.sq_head = 0 /\ cq.head = 0 /\ dev.cq_tail = 0
      /\ sent = <<>> /\ Dist(0, 0) = 0
  BY <1>1 DEF Init, Dist
<1>5. \A i \in Slot : ~Posted(i)
  BY <1>4, <1>1, DistNat, SMTT(30) DEF Posted
<1> QED
  BY <1>2, <1>3, <1>4, <1>5, SMTT(30) DEF SqInv, SqOrder, SqSlots, SqCredit, Lag

LEMMA SqFields ==
  ASSUME SqInv
  PROVE  /\ sq.head \in Slot /\ sq.tail \in Slot /\ cq.head \in Slot
         /\ dev.sq_head \in Slot /\ dev.cq_tail \in Slot
         /\ \A i \in Slot : cq_ring[i].sq_head \in Slot
         /\ Len(sent) \in Slot
<1>1. /\ sq.head \in Slot /\ sq.tail \in Slot /\ cq.head \in Slot
      /\ dev.sq_head \in Slot /\ dev.cq_tail \in Slot
  BY DEF SqInv, CqInv, CqType, SqType
<1>2. \A i \in Slot : cq_ring[i].sq_head \in Slot
  BY DEF SqInv, CqInv, CqType
<1>3. Len(sent) \in Slot
  BY <1>1, NvmeAssumption DEF SqInv, SqSlots, Lag, Dist, Slot
<1> QED
  BY <1>1, <1>2, <1>3, Zenon

LEMMA SlotNat == Slot \subseteq Nat /\ \A k \in Slot : k + 1 <= entries
  BY NvmeAssumption DEF Slot

LEMMA TailUp ==
  \A p, head, tail \in Slot : Plus(tail, 1) # head /\ Dist(p, tail) <= Dist(head, tail) =>
    Dist(p, Plus(tail, 1)) = Dist(p, tail) + 1
  BY NvmeAssumption, SMTT(30) DEF Slot, Dist, Plus

LEMMA PlusDist == \A a, b \in Slot : Plus(a, Dist(a, b)) = b
  BY NvmeAssumption, SMTT(30) DEF Slot, Dist, Plus

LEMMA SubmitSqInv ==
  ASSUME SqInv, NEW cmd \in Command, ~is_full(sq),
         sq_ring' = [sq_ring EXCEPT ![sq.tail] = cmd], sq' = advance_tail(sq),
         sent' = Append(sent, cmd), UNCHANGED <<cq, cq_ring, dev, inflight>>
  PROVE  SqInv'
<1> USE SqFields
<1>1. /\ sq'.tail = Plus(sq.tail, 1) /\ sq'.tail \in Slot /\ sq'.head = sq.head
      /\ Plus(sq.tail, 1) # sq.head
      /\ sq' \in [head : Slot, tail : Slot]
  BY Mod, Zenon DEF SqInv, SqType, is_full, advance_tail
<1>2. \A p \in Slot : Lag(p) \in Slot /\
        (Lag(p) <= Lag(sq.head) => Dist(p, sq'.tail) = Lag(p) + 1)
  BY <1>1, DistNat, TailUp DEF Lag
<1>3. \A i : Posted(i)' <=> Posted(i)
  BY DEF Posted
<1>4. CqInv'
  BY DEF SqInv, CqInv, CqType
<1>5. SqType'
  BY <1>1, SMTT(30) DEF SqInv, SqType
<1>6. SqOrder'
  <2> HIDE SqFields
  <2>a. Lag(dev.sq_head) <= Lag(sq.head)
    BY DEF SqInv, SqOrder
  <2>b. Lag(sq.head) <= Lag(sq.head)
    BY SqFields, DistNat, SMTT(30) DEF Lag
  <2>1. /\ Lag(dev.sq_head)' = Lag(dev.sq_head) + 1
        /\ Lag(sq.head)' = Lag(sq.head) + 1
    BY <1>1, <1>2, <2>a, <2>b, SqFields, Zenon DEF Lag
  <2>2. \A i \in Slot : Posted(i) => Lag(cq_ring[i].sq_head)' = Lag(cq_ring[i].sq_head) + 1
    BY <1>1, <1>2, SqFields, Zenon DEF SqInv, SqOrder, Lag
  <2>3. \A i \in Slot : Lag(cq_ring[i].sq_head) \in Nat
    BY <1>2, SlotNat, SqFields, ZenonT(30)
  <2>4. Lag(dev.sq_head) \in Nat /\ Lag(sq.head) \in Nat
    BY <1>2, SlotNat, SqFields, ZenonT(30)
  <2>5. \A i \in Slot : Posted(i)' =>
          /\ Lag(dev.sq_head)' <= Lag(cq_ring[i].sq_head)'
          /\ Lag(cq_ring[i].sq_head)' <= Lag(sq.head)'
    BY <2>1, <2>2, <2>3, <2>4, <1>3, SMTT(30) DEF SqInv, SqOrder
  <2>6. ASSUME NEW i \in Slot, NEW j \in Slot, Posted(i)', Posted(j)',
               (Dist(cq.head, i) <= Dist(cq.head, j))'
        PROVE  Lag(cq_ring[j].sq_head)' <= Lag(cq_ring[i].sq_head)'
    BY <2>2, <2>3, <2>6, <1>3, SMTT(30) DEF SqInv, SqOrder
  <2> QED
    BY <2>a, <2>1, <2>4, <2>5, <2>6, SMTT(30) DEF SqOrder
<1>7. SqSlots'
  <2>1. /\ sent \in Seq(Command) /\ Len(sent') = Len(sent) + 1
        /\ \A k \in 1 .. Len(sent) : sent'[k] = sent[k]
        /\ sent'[Len(sent) + 1] = cmd
    BY SMTT(30) DEF SqInv, SqType
  <2>2. Len(sent) = Lag(dev.sq_head) /\ Lag(dev.sq_head)' = Lag(dev.sq_head) + 1
    BY <1>1, <1>2, Zenon DEF SqInv, SqOrder, SqSlots, Lag
  <2>3. ASSUME NEW k \in 1 .. Len(sent)
        PROVE  sent'[k] = sq_ring'[Plus(dev.sq_head, k - 1)]
    <3>1. k - 1 \in Slot /\ k - 1 < Dist(dev.sq_head, sq.tail)
      <4>1. Len(sent) = Dist(dev.sq_head, sq.tail) /\ Len(sent) \in 0 .. entries - 1
        BY <2>2 DEF Lag, Slot
      <4> QED
        BY <4>1, NvmeAssumption, SMTT(30) DEF Slot
    <3>2. Plus(dev.sq_head, k - 1) \in Slot /\ Plus(dev.sq_head, k - 1) # sq.tail
      BY <3>1, RingStep, Zenon
    <3>3. sent[k] = sq_ring[Plus(dev.sq_head, k - 1)]
      BY DEF SqInv, SqSlots
    <3> QED
      BY <2>1, <3>2, <3>3, Zenon DEF SqInv, SqType
  <2>4. cmd = sq_ring'[Plus(dev.sq_head, Len(sent))]
    <3>1. Plus(dev.sq_head, Len(sent)) = sq.tail
      BY <2>2, PlusDist, SMTT(30) DEF Lag
    <3> QED
      BY <3>1, Zenon DEF SqInv, SqType
  <2>5. dev' = dev /\ Len(sent) + 1 - 1 = Len(sent) /\ Len(sent) \in Nat
    BY SlotNat, SMTT(30)
  <2>6. ASSUME NEW k \in 1 .. Len(sent')
        PROVE  sent'[k] = sq_ring'[Plus(dev.sq_head, k - 1)]
    <3>1. k \in 1 .. Len(sent) \/ k = Len(sent) + 1
      BY <2>1, <2>5, SMTT(30)
    <3> QED
      BY <3>1, <2>1, <2>3, <2>4, <2>5, SMTT(30)
  <2> QED
    BY <2>1, <2>2, <2>5, <2>6, SMTT(30) DEF SqSlots, Plus
<1>8. SqCredit'
  BY <1>1, <1>3, Zenon DEF SqInv, SqCredit, Plus
<1> QED
  BY <1>4, <1>5, <1>6, <1>7, <1>8, SMTT(30) DEF SqInv

LEMMA HeadUp ==
  \A a, b \in Slot : a # b => Dist(a, b) \in Nat \ {0} /\ Dist(Plus(a, 1), b) = Dist(a, b) - 1
  BY NvmeAssumption, SMTT(30) DEF Slot, Dist, Plus

LEMMA PlusPlus ==
  \A a, k \in Slot : k >= 1 => Plus(Plus(a, 1), k - 1) = Plus(a, k)
  BY NvmeAssumption, SMTT(30) DEF Slot, Plus

LEMMA FetchSqInv ==
  ASSUME SqInv, Fetch
  PROVE  SqInv'
<1>0. /\ sq.head \in Slot /\ sq.tail \in Slot /\ dev.sq_head \in Slot
      /\ \A i \in Slot : cq_ring[i].sq_head \in Slot
  BY SqFields
<1>1. /\ dev'.sq_head = Plus(dev.sq_head, 1) /\ dev'.sq_head \in Slot
      /\ dev'.cq_tail = dev.cq_tail /\ dev.sq_head # sq.tail
  BY Mod, <1>0, SMTT(30) DEF Fetch, SqInv, CqInv, CqType
<1>2. /\ Lag(dev.sq_head) \in Nat \ {0} /\ Lag(dev.sq_head)' = Lag(dev.sq_head) - 1
  BY <1>0, <1>1, HeadUp, SMTT(30) DEF Lag, Fetch
<1>3. \A i : Posted(i)' <=> Posted(i)
  BY <1>1 DEF Posted, Fetch
<1>4. CqInv'
  BY NextCqInv, Zenon DEF Next, SqInv
<1>5. /\ sent \in Seq(Command) /\ Len(sent) = Lag(dev.sq_head) /\ sent # <<>>
      /\ sent' = Tail(sent) /\ sent' \in Seq(Command) /\ Len(sent') = Len(sent) - 1
      /\ \A k \in 1 .. Len(sent') : sent'[k] = sent[k + 1]
  BY <1>2 DEF SqInv, SqType, SqSlots, Fetch
<1>6. SqType'
  <2>1. Plus(dev.sq_head, 0) = dev.sq_head
    BY <1>0, NvmeAssumption, SMTT(30) DEF Plus, Slot
  <2>2. 1 \in 1 .. Len(sent) /\ 1 - 1 = 0
    BY <1>2, <1>5, SMTT(30)
  <2>3. sent[1] = sq_ring[Plus(dev.sq_head, 1 - 1)]
    BY <2>2 DEF SqInv, SqSlots
  <2>4. sq_ring[dev.sq_head] \in Command
    BY <2>1, <2>2, <2>3, <1>5, SMTT(30)
  <2> QED
    BY <2>4, <1>5, SMTT(30) DEF SqInv, SqType, Fetch
<1>7. SqOrder'
  <2>1. \A i \in Slot : Lag(cq_ring[i].sq_head) \in Nat /\ Lag(cq_ring[i].sq_head)' = Lag(cq_ring[i].sq_head)
    BY <1>0, DistNat, SMTT(30) DEF Lag, Fetch
  <2>2. Lag(sq.head) \in Nat /\ Lag(sq.head)' = Lag(sq.head)
    BY <1>0, DistNat, SMTT(30) DEF Lag, Fetch
  <2>3. Lag(dev.sq_head)' <= Lag(sq.head)'
    BY <2>2, <1>2, SMTT(30) DEF SqInv, SqOrder
  <2>4. \A i \in Slot : Posted(i)' =>
          /\ Lag(dev.sq_head)' <= Lag(cq_ring[i].sq_head)'
          /\ Lag(cq_ring[i].sq_head)' <= Lag(sq.head)'
    BY <2>1, <2>2, <1>2, <1>3, SMTT(30) DEF SqInv, SqOrder
  <2>5. ASSUME NEW i \in Slot, NEW j \in Slot, Posted(i)', Posted(j)',
               (Dist(cq.head, i) <= Dist(cq.head, j))'
        PROVE  Lag(cq_ring[j].sq_head)' <= Lag(cq_ring[i].sq_head)'
    BY <2>1, <2>5, <1>3, SMTT(30) DEF SqInv, SqOrder, Fetch
  <2> QED
    BY <2>3, <2>4, <2>5, SMTT(30) DEF SqOrder
<1>8. SqSlots'
  <2>1. ASSUME NEW k \in 1 .. Len(sent')
        PROVE  sent'[k] = sq_ring[Plus(dev'.sq_head, k - 1)]
    <3>1. k + 1 \in 1 .. Len(sent) /\ k \in Nat /\ (k + 1) - 1 = k /\ k >= 1
      BY <1>5, <1>2, SMTT(30)
    <3>2. k \in Slot
      BY <3>1, SqFields, <1>5, NvmeAssumption, SMTT(30) DEF Slot
    <3>3. sent[k + 1] = sq_ring[Plus(dev.sq_head, k)]
      BY <3>1 DEF SqInv, SqSlots
    <3>4. Plus(dev'.sq_head, k - 1) = Plus(dev.sq_head, k)
      <4>1. k \in Slot /\ k >= 1 /\ dev.sq_head \in Slot
        BY <3>1, <3>2, <1>0, SMTT(30)
      <4>2. Plus(Plus(dev.sq_head, 1), k - 1) = Plus(dev.sq_head, k)
        BY <4>1, PlusPlus, Zenon
      <4> QED
        BY <4>2, <1>1, Zenon
    <3> QED
      BY <3>3, <3>4, <1>5, SMTT(30)
  <2> QED
    BY <2>1, <1>2, <1>5, SMTT(30) DEF SqSlots, Plus, Fetch
<1>9. inflight' # <<>>
  BY DEF Fetch, SqInv, SqType
<1> QED
  BY <1>4, <1>6, <1>7, <1>8, <1>9, SMTT(30) DEF SqInv, SqCredit

LEMMA PostedUp ==
  \A head, tail, i \in Slot : Plus(tail, 1) # head =>
    /\ Dist(head, i) < Dist(head, Plus(tail, 1)) <=> Dist(head, i) < Dist(head, tail) \/ i = tail
    /\ ~(Dist(head, tail) < Dist(head, tail))
    /\ Dist(head, i) < Dist(head, tail) => i # tail
    /\ Plus(i, 1) = Plus(tail, 1) => i = tail
  BY NvmeAssumption, SMTT(60) DEF Slot, Dist, Plus

LEMMA CompleteSqInv ==
  ASSUME SqInv, NEW n \in DOMAIN inflight, NEW error \in BOOLEAN, Complete(n, error)
  PROVE  SqInv'
<1>0. /\ sq.head \in Slot /\ sq.tail \in Slot /\ dev.sq_head \in Slot
      /\ cq.head \in Slot /\ dev.cq_tail \in Slot
      /\ \A i \in Slot : cq_ring[i].sq_head \in Slot
  BY SqFields
<1>1. /\ dev'.sq_head = dev.sq_head /\ dev'.cq_tail = Plus(dev.cq_tail, 1)
      /\ Plus(dev.cq_tail, 1) # cq.head /\ UNCHANGED <<sq, cq, sq_ring, sent>>
      /\ cq_ring' = [cq_ring EXCEPT ![dev.cq_tail] =
                      [phase |-> dev.phase, sq_head |-> dev.sq_head, error |-> error]]
  BY Mod, <1>0, SMTT(30) DEF Complete, SqInv, CqInv, CqType
<1>2. \A i \in Slot : Posted(i)' <=> Posted(i) \/ i = dev.cq_tail
  BY <1>0, <1>1, PostedUp, SMTT(30) DEF Posted
<1>3. ~Posted(dev.cq_tail)
  BY <1>0, DistNat, SMTT(30) DEF Posted
<1>4. /\ \A i \in Slot : i # dev.cq_tail => cq_ring'[i].sq_head = cq_ring[i].sq_head
      /\ cq_ring'[dev.cq_tail].sq_head = dev.sq_head
  BY <1>0, <1>1, Zenon DEF SqInv, CqInv, CqType
<1>5. CqInv'
  BY NextCqInv DEF Next, SqInv
<1>6. SqType'
  <2>1. RemoveAt(inflight, n) \in Seq(Command)
    BY SMTT(30) DEF SqInv, SqType, RemoveAt
  <2> QED
    BY <2>1, <1>1, Zenon DEF SqInv, SqType, Complete
<1>7. SqOrder'
  <2>1. \A i \in Slot : Lag(cq_ring[i].sq_head) \in Nat
    BY <1>0, DistNat, Zenon DEF Lag
  <2>2. Lag(sq.head) \in Nat /\ Lag(dev.sq_head) \in Nat /\ Lag(dev.sq_head) <= Lag(sq.head)
    BY <1>0, DistNat, SMTT(30) DEF Lag, SqInv, SqOrder
  <2>3. \A i \in Slot : Posted(i)' =>
          /\ Lag(dev.sq_head) <= Dist(cq_ring'[i].sq_head, sq.tail)
          /\ Dist(cq_ring'[i].sq_head, sq.tail) <= Lag(sq.head)
    <3> SUFFICES ASSUME NEW i \in Slot, Posted(i)'
                 PROVE  /\ Lag(dev.sq_head) <= Dist(cq_ring'[i].sq_head, sq.tail)
                        /\ Dist(cq_ring'[i].sq_head, sq.tail) <= Lag(sq.head)
      OBVIOUS
    <3>1. CASE i = dev.cq_tail
      BY <3>1, <2>2, <1>4, SMTT(30) DEF Lag
    <3>2. CASE i # dev.cq_tail
      BY <3>2, <1>2, <1>4, Zenon DEF Lag, SqInv, SqOrder
    <3> QED
      BY <3>1, <3>2, Zenon
  <2>4. ASSUME NEW i \in Slot, NEW j \in Slot, Posted(i)', Posted(j)',
               Dist(cq.head, i) <= Dist(cq.head, j)
        PROVE  Dist(cq_ring'[j].sq_head, sq.tail) <= Dist(cq_ring'[i].sq_head, sq.tail)
    <3>1. CASE j = dev.cq_tail
      BY <3>1, <2>3, <2>4, <1>4, SMTT(30) DEF Lag
    <3>2. CASE j # dev.cq_tail /\ i # dev.cq_tail
      BY <3>2, <2>4, <1>2, <1>4, SMTT(30) DEF Lag, SqInv, SqOrder
    <3>3. CASE j # dev.cq_tail /\ i = dev.cq_tail
      <4>1. Dist(cq.head, j) < Dist(cq.head, dev.cq_tail)
        BY <3>3, <2>4, <1>2, Zenon DEF Posted
      <4> QED
        BY <4>1, <3>3, <2>4, <1>0, DistNat, SMTT(30)
    <3> QED
      BY <3>1, <3>2, <3>3, Zenon
  <2> QED
    BY <2>2, <2>3, <2>4, <1>1, Zenon DEF SqOrder, Lag
<1>8. SqSlots'
  BY <1>1, Zenon DEF SqInv, SqSlots, Lag, Dist, Plus
<1>9. SqCredit'
  <2>1. cq'.head # dev'.cq_tail
    BY <1>1, Zenon
  <2>2. \A i \in Slot : Plus(i, 1) = dev'.cq_tail => cq_ring'[i].sq_head = dev'.sq_head
    BY <1>0, <1>1, <1>4, PostedUp, SMTT(30)
  <2> QED
    BY <2>1, <2>2, SMTT(30) DEF SqCredit, Plus
<1> QED
  BY <1>5, <1>6, <1>7, <1>8, <1>9, Zenon DEF SqInv

LEMMA PostedDown ==
  \A head, tail, i \in Slot : head # tail /\ Dist(Plus(head, 1), i) < Dist(Plus(head, 1), tail) =>
    Dist(head, i) < Dist(head, tail) /\ i # head
  BY NvmeAssumption, SMTT(60) DEF Slot, Dist, Plus

LEMMA PollSqInv ==
  ASSUME SqInv, poll_io_completion
  PROVE  SqInv'
<1>0. /\ sq.head \in Slot /\ sq.tail \in Slot /\ dev.sq_head \in Slot
      /\ cq.head \in Slot /\ dev.cq_tail \in Slot
      /\ \A i \in Slot : cq_ring[i].sq_head \in Slot
  BY SqFields
<1>1. /\ cq'.head = Plus(cq.head, 1) /\ cq'.head \in Slot /\ cq.head # dev.cq_tail
      /\ sq'.head = cq_ring[cq.head].sq_head /\ sq'.tail = sq.tail
      /\ UNCHANGED <<sq_ring, cq_ring, dev, inflight, sent>>
  BY Mod, <1>0, CqInvPhase, SMTT(30) DEF poll_io_completion, advance_head, PhaseExact, SqInv, SqType
<1>2. \A i \in Slot : Posted(i)' => Posted(i) /\ i # cq.head
  BY <1>0, <1>1, PostedDown, Zenon DEF Posted
<1>3. Posted(cq.head) /\ Dist(cq.head, cq.head) = 0
  <2>1. Dist(cq.head, cq.head) = 0
    BY <1>0, NvmeAssumption, SMTT(30) DEF Dist, Slot
  <2> QED
    BY <2>1, <1>0, <1>1, HeadUp, SMTT(30) DEF Posted
<1>4. CqInv'
  BY NextCqInv DEF Next, SqInv
<1>5. SqType'
  BY <1>0, <1>1, ZenonT(30) DEF SqInv, SqType, poll_io_completion
<1>6. SqOrder'
  <2>1. \A i \in Slot : Posted(i) => Lag(cq_ring[i].sq_head) <= Lag(cq_ring[cq.head].sq_head)
    <3>1. \A i \in Slot : Dist(cq.head, cq.head) <= Dist(cq.head, i)
      BY <1>0, <1>3, DistNat, SMTT(30)
    <3> QED
      BY <3>1, <1>0, <1>3, SMTT(30) DEF SqInv, SqOrder
  <2>2. Lag(dev.sq_head) <= Lag(cq_ring[cq.head].sq_head)
    BY <1>0, <1>3, Zenon DEF SqInv, SqOrder
  <2>3. \A i \in Slot : Posted(i) => Lag(dev.sq_head) <= Lag(cq_ring[i].sq_head)
    BY DEF SqInv, SqOrder
  <2>4. ASSUME NEW i \in Slot, NEW j \in Slot, Posted(i)', Posted(j)',
               Dist(cq'.head, i) <= Dist(cq'.head, j)
        PROVE  Lag(cq_ring[j].sq_head) <= Lag(cq_ring[i].sq_head)
    <3>1. Dist(cq'.head, i) = Dist(cq.head, i) - 1 /\ Dist(cq'.head, j) = Dist(cq.head, j) - 1
      BY <2>4, <1>0, <1>1, <1>2, HeadUp, SMTT(30)
    <3>2. Dist(cq.head, i) <= Dist(cq.head, j)
      BY <3>1, <2>4, <1>0, DistNat, SMTT(30)
    <3> QED
      BY <3>2, <2>4, <1>2, Zenon DEF SqInv, SqOrder
  <2> QED
    BY <2>1, <2>2, <2>3, <2>4, <1>1, <1>2, SMTT(30) DEF SqOrder, Lag
<1>7. SqSlots'
  BY <1>1, Zenon DEF SqInv, SqSlots, Lag, Dist, Plus
<1>8. SqCredit'
  <2> SUFFICES ASSUME inflight = <<>>
               PROVE  /\ cq'.head = dev.cq_tail => sq'.head = dev.sq_head
                      /\ \A i \in Slot : Posted(i)' /\ Plus(i, 1) = dev.cq_tail =>
                           cq_ring[i].sq_head = dev.sq_head
    BY <1>1 DEF SqCredit, Plus
  <2> QED
    BY <1>0, <1>1, <1>2, <1>3, Zenon DEF SqInv, SqCredit
<1> QED
  BY <1>4, <1>5, <1>6, <1>7, <1>8, Zenon DEF SqInv

LEMMA NextSqInv == SqInv /\ [Next]_vars => SqInv'
<1> SUFFICES ASSUME SqInv, [Next]_vars PROVE SqInv'
  OBVIOUS
<1>1. CASE UNCHANGED <<sq, cq, sq_ring, cq_ring, dev, inflight, sent>>
  BY <1>1, SMTT(30) DEF SqInv, CqInv, CqType, SqType, SqOrder, SqSlots, SqCredit, Lag, Posted, Dist, Plus
<1>2. ASSUME NEW kind \in {"read", "write"}, NEW l \in Lba, submit_io_command(kind, l),
             UNCHANGED <<cq, cq_ring, dev, inflight>>
      PROVE  SqInv'
  <2>1. CASE is_full(sq)
    BY <2>1, <1>2, <1>1, SMTT(30) DEF submit_io_command
  <2>2. CASE ~is_full(sq)
    BY <2>2, <1>2, SubmitSqInv, SMTT(30) DEF submit_io_command, Command
  <2> QED
    BY <2>1, <2>2, SMTT(30)
<1>3. ASSUME NEW l \in Lba, read_sector(l) PROVE SqInv'
  BY <1>3, <1>2, SMTT(30) DEF read_sector
<1>4. ASSUME NEW l \in Lba, NEW v \in Value, write_sector(l, v) PROVE SqInv'
  BY <1>4, <1>2, SMTT(30) DEF write_sector
<1>5. CASE poll_timeout
  BY <1>5, <1>1, SMTT(30) DEF poll_timeout
<1>6. CASE UNCHANGED vars
  BY <1>6, <1>1 DEF vars
<1> QED
  BY <1>3, <1>4, <1>5, <1>6, PollSqInv, FetchSqInv, CompleteSqInv, SMTT(30) DEF Next

LEMMA SqInvAlways == Spec => []SqInv
  BY InitSqInv, NextSqInv, PTL DEF Spec

\* The driver's full test, on a head it learns only from completions, keeps it from
\* overwriting a command the device has not fetched.
THEOREM SlotsAreKept == Spec => []SlotsKept
<1>1. SqInv => SlotsKept
  <2> SUFFICES ASSUME SqInv PROVE SlotsKept
    OBVIOUS
  <2>1. dev.sq_head \in Slot /\ sq.tail \in Slot /\ Len(sent) \in Slot
    BY SqFields, Zenon
  <2>2. (sq.tail - dev.sq_head + entries) % entries = Len(sent)
    BY <2>1, Mod, Zenon DEF SqInv, SqSlots, Lag
  <2>3. ASSUME NEW k \in 1 .. Len(sent)
        PROVE  sq_ring[(dev.sq_head + k - 1) % entries] = sent[k]
    <3>1. k - 1 \in Slot /\ dev.sq_head + k - 1 = dev.sq_head + (k - 1)
      BY <2>1, NvmeAssumption, SMTT(30) DEF Slot
    <3>2. (dev.sq_head + (k - 1)) % entries = Plus(dev.sq_head, k - 1)
      BY <3>1, <2>1, Mod, Zenon
    <3> QED
      BY <3>1, <3>2, Zenon DEF SqInv, SqSlots
  <2>4. sent = [k \in 1 .. Len(sent) |-> sent[k]]
    BY SMTT(30) DEF SqInv, SqType
  <2> QED
    BY <2>2, <2>3, <2>4, Zenon DEF SlotsKept, Between
<1> QED
  BY <1>1, SqInvAlways, PTL

\* Every submission the device consumed is credited back to the driver by the time
\* it has consumed every completion, in whatever order they were posted.
THEOREM NoPhantom == Spec => []NoPhantomFill
<1>1. SqInv => NoPhantomFill
  <2> SUFFICES ASSUME SqInv, sent = <<>>, inflight = <<>>, cq.head = dev.cq_tail
               PROVE  sq.head = sq.tail
    BY DEF NoPhantomFill
  <2>1. Dist(dev.sq_head, sq.tail) = 0
    BY DEF SqInv, SqSlots, Lag
  <2>2. dev.sq_head = sq.tail
    BY <2>1, SqFields, HeadUp
  <2> QED
    BY <2>2 DEF SqInv, SqCredit
<1> QED
  BY <1>1, SqInvAlways, PTL

-----------------------------------------------------------------------------
(***************************************************************************)
(* The data.  No completion names the command it is for, and all share the *)
(* bounce buffer; what makes an answer true is that, until an operation    *)
(* times out, the one in progress is the only command anywhere: in the     *)
(* ring, at the device, or in the one completion not yet consumed.         *)
(***************************************************************************)
DataType ==
  /\ media \in [Lba -> Value] /\ bounce \in Value
  /\ op \in Command \union {Idle}
  /\ timeouts \in 0 .. MaxTimeouts

\* Nothing is posted that the driver has not consumed.
NonePosted == cq.head = dev.cq_tail

Quiet == sent = <<>> /\ inflight = <<>> /\ NonePosted

OnlyOp ==
  \/ sent = <<op>> /\ inflight = <<>> /\ NonePosted
  \/ sent = <<>> /\ inflight = <<op>> /\ NonePosted
  \/ /\ sent = <<>> /\ inflight = <<>>
     /\ dev.cq_tail = Plus(cq.head, 1)
     /\ ~cq_ring[cq.head].error => media[op.lba] = bounce

InTime ==
  timeouts = 0 =>
    /\ op = Idle => Quiet /\ AnswerTrue
    /\ op # Idle => OnlyOp /\ ~answer.ok

DataInv == SqInv /\ DataType /\ InTime

LEMMA NotIdle == \A c \in Command : c # Idle /\ c.kind \in {"read", "write"} /\ c.lba \in Lba
<1> SUFFICES ASSUME NEW c \in Command
             PROVE  c # Idle /\ c.kind \in {"read", "write"} /\ c.lba \in Lba
  OBVIOUS
<1>1. c.kind \in {"read", "write"} /\ c.lba \in Lba
  BY DEF Command
<1>2. Idle.kind = "none"
  BY DEF Idle, NoCommand
<1> QED
  BY <1>1, <1>2

LEMMA InitDataInv == Init => DataInv
<1> SUFFICES ASSUME Init PROVE DataInv
  OBVIOUS
<1>1. SqInv
  BY InitSqInv
<1>2. DataType
  BY NvmeAssumption DEF Init, DataType
<1>3. InTime
  BY DEF Init, InTime, Quiet, NonePosted, AnswerTrue, NoAnswer
<1> QED
  BY <1>1, <1>2, <1>3, SMTT(30) DEF DataInv

LEMMA SubmitDataInv ==
  ASSUME DataInv, SqInv', NEW kind \in {"read", "write"}, NEW l \in Lba, op = Idle,
         submit_io_command(kind, l), bounce' \in Value,
         UNCHANGED <<cq, cq_ring, dev, inflight, media, timeouts>>
  PROVE  DataInv'
<1> DEFINE cmd == [kind |-> kind, lba |-> l]
<1>1. cmd \in Command /\ cmd # Idle
  BY NotIdle DEF Command
<1>2. answer' = NoAnswer /\ NoAnswer.ok = FALSE
  BY DEF submit_io_command, NoAnswer
<1>3. CASE is_full(sq)
  <2>1. UNCHANGED <<op, sent>>
    BY <1>3 DEF submit_io_command
  <2>2. DataType'
    BY <2>1 DEF DataInv, DataType
  <2>3. InTime'
    BY <1>2, <2>1, SMTT(30) DEF DataInv, InTime, Quiet, NonePosted, AnswerTrue
  <2> QED
    BY <2>2, <2>3 DEF DataInv
<1>4. CASE ~is_full(sq)
  <2>1. op' = cmd /\ sent' = Append(sent, cmd)
    BY <1>4 DEF submit_io_command
  <2> HIDE DEF cmd
  <2>2. DataType'
    BY <1>1, <2>1 DEF DataInv, DataType
  <2>3. timeouts = 0 => sent' = <<op'>> /\ inflight' = <<>> /\ NonePosted'
    BY <2>1 DEF DataInv, InTime, Quiet, NonePosted
  <2>4. InTime'
    BY <1>1, <1>2, <2>1, <2>3, SMTT(30) DEF InTime, OnlyOp
  <2> QED
    BY <2>2, <2>4 DEF DataInv
<1> QED
  BY <1>3, <1>4

LEMMA PollDataInv ==
  ASSUME DataInv, SqInv', poll_io_completion
  PROVE  DataInv'
<1>1. /\ op # Idle /\ op' = Idle /\ cq.head # dev.cq_tail
      /\ answer' = Result(~cq_ring[cq.head].error)
      /\ UNCHANGED <<dev, inflight, media, bounce, timeouts, sent>>
  BY CqInvPhase DEF poll_io_completion, PhaseExact, DataInv, SqInv
<1>2. cq'.head = Plus(cq.head, 1)
  <2>1. cq.head \in Slot
    BY SqFields DEF DataInv
  <2> QED
    BY <2>1, Mod DEF poll_io_completion, advance_head
<1>3. DataType'
  BY <1>1 DEF DataInv, DataType
<1>4. InTime'
  <2> SUFFICES ASSUME timeouts = 0
               PROVE  Quiet' /\ AnswerTrue'
    BY <1>1 DEF InTime
  <2>1. /\ sent = <<>> /\ inflight = <<>> /\ dev.cq_tail = Plus(cq.head, 1)
        /\ ~cq_ring[cq.head].error => media[op.lba] = bounce
    BY <1>1 DEF DataInv, InTime, OnlyOp, NonePosted
  <2>2. Quiet'
    BY <1>1, <1>2, <2>1 DEF Quiet, NonePosted
  <2>3. /\ answer'.ok = ~cq_ring[cq.head].error
        /\ answer'.lba = op.lba /\ answer'.value = bounce
    BY <1>1 DEF Result
  <2>4. AnswerTrue'
    BY <1>1, <2>1, <2>3, Zenon DEF AnswerTrue
  <2> QED
    BY <2>2, <2>4
<1> QED
  BY <1>3, <1>4 DEF DataInv

LEMMA FetchDataInv ==
  ASSUME DataInv, SqInv', Fetch
  PROVE  DataInv'
<1>1. /\ inflight' = Append(inflight, sq_ring[dev.sq_head]) /\ sent' = Tail(sent)
      /\ UNCHANGED <<cq, media, bounce, op, answer, timeouts>>
  BY DEF Fetch
<1>2. dev'.cq_tail = dev.cq_tail
  BY DEF Fetch, DataInv, SqInv, CqInv, CqType
<1>3. sent # <<>> /\ sq_ring[dev.sq_head] = sent[1]
  <2>1. dev.sq_head \in Slot /\ sq.tail \in Slot /\ dev.sq_head # sq.tail
    BY SqFields DEF DataInv, Fetch
  <2>2. Len(sent) \in Nat \ {0}
    BY <2>1, HeadUp DEF DataInv, SqInv, SqSlots, Lag
  <2>3. sent[1] = sq_ring[Plus(dev.sq_head, 1 - 1)]
    BY <2>2 DEF DataInv, SqInv, SqSlots
  <2>4. Plus(dev.sq_head, 1 - 1) = dev.sq_head
    BY <2>1, NvmeAssumption, SMTT(30) DEF Plus, Slot
  <2> QED
    BY <2>2, <2>3, <2>4, SMTT(30)
<1>4. DataType'
  BY <1>1 DEF DataInv, DataType
<1>5. InTime'
  <2> SUFFICES ASSUME timeouts = 0
               PROVE  op # Idle /\ OnlyOp' /\ ~answer.ok
    BY <1>1 DEF InTime
  <2>1. op # Idle /\ ~answer.ok /\ sent = <<op>> /\ inflight = <<>> /\ NonePosted
    BY <1>3 DEF DataInv, InTime, Quiet, OnlyOp
  <2>2. sent' = <<>> /\ inflight' = <<op>> /\ NonePosted'
    BY <1>1, <1>2, <1>3, <2>1 DEF NonePosted
  <2> QED
    BY <1>1, <2>1, <2>2 DEF OnlyOp
<1> QED
  BY <1>4, <1>5 DEF DataInv

LEMMA CompleteDataInv ==
  ASSUME DataInv, SqInv', NEW n \in DOMAIN inflight, NEW error \in BOOLEAN, Complete(n, error)
  PROVE  DataInv'
<1> DEFINE cmd == inflight[n]
<1>1. /\ inflight' = RemoveAt(inflight, n)
      /\ media' = IF cmd.kind = "write" /\ ~error THEN [media EXCEPT ![cmd.lba] = bounce] ELSE media
      /\ bounce' = IF cmd.kind = "read" /\ ~error THEN media[cmd.lba] ELSE bounce
      /\ UNCHANGED <<cq, op, answer, timeouts, sent>>
  BY DEF Complete
<1>2. dev'.cq_tail = Plus(dev.cq_tail, 1)
  BY Mod, SqFields, SMTT(30) DEF Complete, DataInv, SqInv, CqInv, CqType
<1>3. cq_ring'[dev.cq_tail].error = error
  BY SqFields, SMTT(30) DEF Complete, DataInv, SqInv, CqInv, CqType
<1>4. cmd \in Command /\ cmd.kind \in {"read", "write"} /\ cmd.lba \in Lba
  <2>1. cmd \in Command
    BY DEF DataInv, SqInv, SqType
  <2> QED
    BY <2>1, NotIdle
<1>5. /\ media' \in [Lba -> Value] /\ bounce' \in Value
      /\ ~error => media'[cmd.lba] = bounce'
  BY <1>1, <1>4 DEF DataInv, DataType
<1>6. DataType'
  BY <1>1, <1>5 DEF DataInv, DataType
<1>7. InTime'
  <2> SUFFICES ASSUME timeouts = 0
               PROVE  op # Idle /\ OnlyOp' /\ ~answer.ok
    BY <1>1 DEF InTime
  <2>1. inflight # <<>>
    OBVIOUS
  <2>2. op # Idle /\ ~answer.ok /\ sent = <<>> /\ inflight = <<op>> /\ NonePosted
    BY <2>1 DEF DataInv, InTime, Quiet, OnlyOp
  <2>3. n = 1 /\ cmd = op /\ inflight' = <<>>
    BY <1>1, <2>2 DEF RemoveAt
  <2>4. dev'.cq_tail = Plus(cq.head, 1) /\ cq_ring'[cq.head].error = error
    BY <1>2, <1>3, <2>2 DEF NonePosted
  <2>5. ~error => media'[op.lba] = bounce'
    BY <1>5, <2>3
  <2> HIDE DEF cmd
  <2>6. OnlyOp'
    BY <1>1, <2>2, <2>3, <2>4, <2>5, SMTT(30) DEF OnlyOp, Plus
  <2> QED
    BY <2>2, <2>6
<1> QED
  BY <1>6, <1>7 DEF DataInv

LEMMA NextDataInv == DataInv /\ [Next]_vars => DataInv'
<1> SUFFICES ASSUME DataInv, [Next]_vars PROVE DataInv'
  OBVIOUS
<1>0. SqInv'
  BY NextSqInv DEF DataInv
<1>1. CASE UNCHANGED vars
  BY <1>0, <1>1 DEF vars, DataInv, DataType, InTime, Quiet, NonePosted, OnlyOp, AnswerTrue, Plus
<1>2. ASSUME NEW l \in Lba, read_sector(l) PROVE DataInv'
  <2>1. op = Idle /\ submit_io_command("read", l) /\ bounce' \in Value
        /\ UNCHANGED <<cq, cq_ring, dev, inflight, media, timeouts>>
    BY <1>2 DEF read_sector, DataInv, DataType
  <2> QED
    BY <1>0, <2>1, SubmitDataInv
<1>3. ASSUME NEW l \in Lba, NEW v \in Value, write_sector(l, v) PROVE DataInv'
  <2>1. op = Idle /\ submit_io_command("write", l) /\ bounce' \in Value
        /\ UNCHANGED <<cq, cq_ring, dev, inflight, media, timeouts>>
    BY <1>3 DEF write_sector
  <2> QED
    BY <1>0, <2>1, SubmitDataInv
<1>4. CASE poll_timeout
  <2>1. timeouts' = timeouts + 1 /\ timeouts < MaxTimeouts /\ op' = Idle
        /\ UNCHANGED <<media, bounce>>
    BY <1>4 DEF poll_timeout
  <2>2. DataType'
    BY <2>1, NvmeAssumption DEF DataInv, DataType
  <2>3. timeouts' # 0
    BY <2>1 DEF DataInv, DataType
  <2> QED
    BY <1>0, <2>2, <2>3 DEF DataInv, InTime
<1>5. CASE poll_io_completion
  BY <1>0, <1>5, PollDataInv
<1>6. CASE Fetch
  BY <1>0, <1>6, FetchDataInv
<1>7. ASSUME NEW k \in DOMAIN inflight, NEW error \in BOOLEAN, Complete(k, error) PROVE DataInv'
  BY <1>0, <1>7, CompleteDataInv, SMTT(30)
<1> QED
  BY <1>1, <1>2, <1>3, <1>4, <1>5, <1>6, <1>7, Zenon DEF Next

LEMMA DataInvAlways == Spec => []DataInv
  BY InitDataInv, NextDataInv, PTL DEF Spec

\* As long as no operation has timed out, read_sector and write_sector that return
\* Ok have done their work, although nothing ties a completion to its command.
THEOREM AnswersAreTrueInTime == Spec => []AnswerTrueInTime
<1>1. DataInv => AnswerTrueInTime
  BY DEF DataInv, InTime, AnswerTrueInTime, AnswerTrue
<1> QED
  BY <1>1, DataInvAlways, PTL

\* Positions, phases and slots of both rings stay in range for rings of any size,
\* and what the device fetches is always a command.
THEOREM NvmeTypeCorrect == Spec => []TypeOK
<1>1. DataInv => TypeOK
  BY DEF DataInv, DataType, SqInv, CqInv, CqType, SqType, TypeOK
<1> QED
  BY <1>1, DataInvAlways, PTL
=============================================================================
