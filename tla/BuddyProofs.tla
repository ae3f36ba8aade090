---------------------------- MODULE BuddyProofs ----------------------------
(***************************************************************************)
(* Proofs about Buddy, for any memory map, any number of frames and of     *)
(* orders: the free lists are exact, and callers see what Frames promises. *)
(***************************************************************************)
EXTENDS BuddyLemmas, FiniteSetTheorems

(***************************************************************************)
(* The inductive invariant.  The block a call in progress works on is in   *)
(* limbo: on no list, whatever the bitmap says of it.                      *)
(***************************************************************************)
Limbo(j) == IF j = Idle THEN {} ELSE FramesOf(<<j.a, j.o>>)
Avail(u, j) == (Frame \ u) \union Limbo(j)
Pending(rs) == UNION {rs[k][1] .. rs[k][2] - 1 : k \in DOMAIN rs}
HeldFrames(h) == UNION {FramesOf(blk) : blk \in h}

Block(a, o) ==
  a \in Frame \ {0} /\ o \in Order /\ a % Size[o] = 0 /\ FramesOf(<<a, o>>) \subseteq Frame

MergeJob(a, o) == [pc |-> "merge", a |-> a, o |-> o]
SplitJob(a, o, order) == [pc |-> "split", a |-> a, o |-> o, order |-> order]

JobOK(j, u) ==
  \/ j = Idle
  \/ \E a, o : j = MergeJob(a, o) /\ Block(a, o)
  \/ \E a, o, order :
       /\ j = SplitJob(a, o, order) /\ order \in Order /\ order <= o
       /\ Block(a, o) /\ FramesOf(<<a, o>>) \cap u = {}

HeldOK(h) ==
  /\ \A blk \in h : \E a, o : blk = <<a, o>> /\ Block(a, o)
  /\ \A p, q \in h : p # q => FramesOf(p) \cap FramesOf(q) = {}

RangesOK(rs) ==
  /\ rs \in Seq(Nat \X Nat)
  /\ \A i \in DOMAIN rs : 0 < rs[i][1] /\ rs[i][2] <= total_frames
  /\ \A i, j \in DOMAIN rs :
       i # j => (rs[i][1] .. rs[i][2] - 1) \cap (rs[j][1] .. rs[j][2] - 1) = {}

\* Every usable frame is available, held or still to be added.
Shared(avail, hf, pf) ==
  /\ avail \union hf \union pf = Pending(Ranges)
  /\ avail \cap hf = {} /\ avail \cap pf = {} /\ hf \cap pf = {}

Inv ==
  /\ Heap(free_lists, mem, (Frame \ used) \ Limbo(job))
  /\ used \subseteq Frame
  /\ free_frames = Cardinality(Avail(used, job))
  /\ JobOK(job, used)
  /\ HeldOK(held)
  /\ RangesOK(ranges)
  /\ Shared(Avail(used, job), HeldFrames(held), Pending(ranges))

LEMMA Finite ==
  IsFiniteSet(Frame) /\ Cardinality(Frame) = total_frames
<1> DEFINE e == total_frames - 1
<1>1. 0 \in Int /\ e \in Int /\ ~(0 > e) /\ e - 0 + 1 = total_frames
  BY BuddyAssumption
<1>2. Frame = 0 .. e
  BY DEF Frame
<1> HIDE DEF e
<1>3. IsFiniteSet(0 .. e) /\ Cardinality(0 .. e) = IF 0 > e THEN 0 ELSE e - 0 + 1
  BY <1>1, FS_Interval, Zenon
<1> QED
  BY <1>1, <1>2, <1>3, Zenon

\* A block has Size[o] frames.
LEMMA CardBlock ==
  ASSUME NEW a \in Nat, NEW o \in 0 .. MAX_ORDER
  PROVE  IsFiniteSet(FramesOf(<<a, o>>)) /\ Cardinality(FramesOf(<<a, o>>)) = Size[o]
<1>1. Size[o] \in Nat \ {0}
  BY SizeFacts
<1> DEFINE e == a + Size[o] - 1
<1>2. e \in Int /\ a \in Int /\ ~(a > e) /\ e - a + 1 = Size[o]
  BY <1>1
<1>3. FramesOf(<<a, o>>) = a .. e
  BY DEF FramesOf
<1> HIDE DEF e
<1>4. IsFiniteSet(a .. e) /\ Cardinality(a .. e) = IF a > e THEN 0 ELSE e - a + 1
  BY <1>2, FS_Interval, Zenon
<1> QED
  BY <1>2, <1>3, <1>4, Zenon

LEMMA CardAdd ==
  ASSUME NEW A, IsFiniteSet(A), NEW a \in Nat, NEW o \in 0 .. MAX_ORDER,
         A \cap FramesOf(<<a, o>>) = {}
  PROVE  Cardinality(A \union FramesOf(<<a, o>>)) = Cardinality(A) + Size[o]
<1>1. IsFiniteSet(FramesOf(<<a, o>>)) /\ Cardinality(FramesOf(<<a, o>>)) = Size[o]
  BY CardBlock
<1>2. Cardinality({}) = 0 /\ Cardinality(A) \in Nat /\ Size[o] \in Nat
  BY FS_EmptySet, FS_CardinalityType, SizeFacts
<1>3. Cardinality(A \union FramesOf(<<a, o>>)) =
        Cardinality(A) + Cardinality(FramesOf(<<a, o>>)) - Cardinality(A \cap FramesOf(<<a, o>>))
  BY <1>1, FS_Union, Zenon
<1> QED
  BY <1>1, <1>2, <1>3, SMTT(30)

LEMMA InvInit == Init => Inv
<1> SUFFICES ASSUME Init PROVE Inv
  OBVIOUS
<1>1. /\ free_lists = [o \in Order |-> 0] /\ used = Frame /\ free_frames = 0
      /\ mem = [f \in Frame |-> [next |-> 0, prev |-> 0]] /\ ranges = Ranges
      /\ job = Idle /\ held = {}
  BY DEF Init, new
<1>2. (Frame \ used) \ Limbo(job) = {} /\ Avail(used, job) = {}
  BY <1>1 DEF Limbo, Avail
<1>3. Heap(free_lists, mem, {})
  <2> DEFINE ord == [f \in Frame |-> 0]
  <2>1. LinkedTypes({}, ord, ord, free_lists, mem)
    BY <1>1, Indices DEF LinkedTypes, Node
  <2>2. Links({}, ord, ord, free_lists, mem)
    <3> HIDE DEF ord
    <3> QED
      BY <1>1, <2>1 DEF Links, Forward, Backward, Headed, Ranked
  <2>3. Tiles({}, ord, {})
    BY DEF Tiles
  <2> QED
    BY <2>2, <2>3, Zenon DEF Heap
<1>4. free_frames = Cardinality({})
  BY <1>1, FS_EmptySet
<1>5. HeldFrames(held) = {} /\ HeldOK(held)
  BY <1>1 DEF HeldFrames, HeldOK
<1>6. RangesOK(ranges)
  BY <1>1, BuddyAssumption DEF RangesOK
<1>7. Shared({}, {}, Pending(ranges))
  BY <1>1 DEF Shared
<1>8. JobOK(job, used)
  BY <1>1, Zenon DEF JobOK
<1> QED
  BY <1>1, <1>2, <1>3, <1>4, <1>5, <1>6, <1>7, <1>8, Zenon DEF Inv

LEMMA JobFields ==
  ASSUME NEW a, NEW o, NEW order
  PROVE  /\ MergeJob(a, o) # Idle /\ SplitJob(a, o, order) # Idle
         /\ MergeJob(a, o).pc = "merge" /\ MergeJob(a, o).a = a /\ MergeJob(a, o).o = o
         /\ SplitJob(a, o, order).pc = "split" /\ SplitJob(a, o, order).a = a
         /\ SplitJob(a, o, order).o = o /\ SplitJob(a, o, order).order = order
<1>1. /\ MergeJob(a, o).pc = "merge" /\ MergeJob(a, o).a = a /\ MergeJob(a, o).o = o
  BY DEF MergeJob
<1>2. /\ SplitJob(a, o, order).pc = "split" /\ SplitJob(a, o, order).a = a
      /\ SplitJob(a, o, order).o = o /\ SplitJob(a, o, order).order = order
  BY DEF SplitJob
<1>3. Idle.pc = "idle"
  BY DEF Idle
<1> QED
  BY <1>1, <1>2, <1>3

LEMMA JobCases ==
  ASSUME NEW j, NEW u, JobOK(j, u)
  PROVE  /\ j # Idle => j.pc \in {"merge", "split"} /\ Block(j.a, j.o)
         /\ j.pc = "merge" => j = MergeJob(j.a, j.o) /\ j # Idle
         /\ j.pc = "split" => /\ j = SplitJob(j.a, j.o, j.order) /\ j # Idle
                              /\ j.order \in Order /\ j.order <= j.o
                              /\ FramesOf(<<j.a, j.o>>) \cap u = {}
<1>0. Idle.pc = "idle"
  BY DEF Idle
<1>1. CASE j = Idle
  BY <1>0, <1>1
<1>2. CASE \E a, o : j = MergeJob(a, o) /\ Block(a, o)
  <2>1. PICK a, o : j = MergeJob(a, o) /\ Block(a, o)
    BY <1>2, Zenon
  <2>2. j # Idle /\ j.pc = "merge" /\ j.a = a /\ j.o = o
    BY <2>1, JobFields
  <2> QED
    BY <2>1, <2>2
<1>3. CASE \E a, o, order :
            /\ j = SplitJob(a, o, order) /\ order \in Order /\ order <= o
            /\ Block(a, o) /\ FramesOf(<<a, o>>) \cap u = {}
  <2>1. PICK a, o, order :
            /\ j = SplitJob(a, o, order) /\ order \in Order /\ order <= o
            /\ Block(a, o) /\ FramesOf(<<a, o>>) \cap u = {}
    BY <1>3, Zenon
  <2>2. j # Idle /\ j.pc = "split" /\ j.a = a /\ j.o = o /\ j.order = order
    BY <2>1, JobFields
  <2> QED
    BY <2>1, <2>2
<1> QED
  BY <1>1, <1>2, <1>3, Zenon DEF JobOK

LEMMA JobMake ==
  ASSUME NEW a, NEW o, Block(a, o), NEW u
  PROVE  /\ JobOK(MergeJob(a, o), u) /\ Limbo(MergeJob(a, o)) = FramesOf(<<a, o>>)
         /\ \A order \in Order : order <= o /\ FramesOf(<<a, o>>) \cap u = {} =>
              /\ JobOK(SplitJob(a, o, order), u)
              /\ Limbo(SplitJob(a, o, order)) = FramesOf(<<a, o>>)
<1>1. JobOK(MergeJob(a, o), u)
  BY Zenon DEF JobOK
<1>2. ASSUME NEW order \in Order, order <= o, FramesOf(<<a, o>>) \cap u = {}
      PROVE  JobOK(SplitJob(a, o, order), u)
  BY <1>2, Zenon DEF JobOK
<1>3. \A order : /\ Limbo(MergeJob(a, o)) = FramesOf(<<a, o>>)
                 /\ Limbo(SplitJob(a, o, order)) = FramesOf(<<a, o>>)
  BY JobFields DEF Limbo
<1> QED
  BY <1>1, <1>2, <1>3, Zenon

LEMMA InvMerge == Inv /\ merge => Inv'
<1> SUFFICES ASSUME Inv, merge PROVE Inv'
  OBVIOUS
<1> DEFINE a == job.a
           o == job.o
           b == BuddyOf(a, o)
           m == IF b < a THEN b ELSE a
           F == (Frame \ used) \ FramesOf(<<a, o>>)
<1>1. /\ job.pc = "merge" /\ o < MAX_ORDER - 1 /\ FramesOf(<<b, o>>) \subseteq Frame \ used
      /\ pop_from_list(b, o) /\ job' = MergeJob(m, o + 1)
      /\ UNCHANGED <<used, free_frames, ranges, held, reply>>
  BY DEF merge, MergeWith, block_on_free_list, is_block_free, MergeJob
<1>2. job = MergeJob(a, o) /\ Block(a, o) /\ Limbo(job) = FramesOf(<<a, o>>)
  BY <1>1, JobCases, JobMake DEF Inv
<1>3. /\ a \in Nat /\ a \in Frame \ {0} /\ o \in Order /\ a % Size[o] = 0
      /\ FramesOf(<<a, o>>) \subseteq Frame /\ o \in 0 .. MAX_ORDER - 1 /\ o + 1 \in Order
  BY <1>1, <1>2, Indices, Zenon DEF Block
<1>4. /\ m % Size[o + 1] = 0 /\ m \in Nat
      /\ (a = m /\ b = m + Size[o]) \/ (b = m /\ a = m + Size[o])
  BY <1>3, BuddyHalves, Zenon
<1> HIDE DEF a, o, b, m
<1>5. /\ FramesOf(<<m, o + 1>>) = FramesOf(<<a, o>>) \union FramesOf(<<b, o>>)
      /\ FramesOf(<<a, o>>) \cap FramesOf(<<b, o>>) = {}
  <2>1. /\ FramesOf(<<m, o + 1>>) = FramesOf(<<m, o>>) \union FramesOf(<<m + Size[o], o>>)
        /\ FramesOf(<<m, o>>) \cap FramesOf(<<m + Size[o], o>>) = {}
    BY <1>3, <1>4, Halves, ZenonT(30)
  <2> QED
    BY <1>4, <2>1
<1>6. Heap(free_lists, mem, F)
  BY <1>2, Zenon DEF Inv
<1>7. FramesOf(<<a, o>>) \cap F = {} /\ FramesOf(<<b, o>>) \subseteq F
  BY <1>1, <1>5
<1>8. /\ b \in Frame \ {0}
      /\ Heap(PopHeads(free_lists, mem, b, o), PopNodes(mem, b), F \ FramesOf(<<b, o>>))
  <2> HIDE DEF F
  <2> QED
    BY <1>1, <1>3, <1>6, <1>7, HeapMerge, Zenon DEF b
<1>9. Block(m, o + 1)
  BY <1>1, <1>3, <1>4, <1>5, <1>8 DEF Block
<1>10. JobOK(job', used') /\ Limbo(job') = FramesOf(<<m, o + 1>>)
  BY <1>1, <1>9, JobMake, Zenon
<1>11. /\ (Frame \ used') \ Limbo(job') = F \ FramesOf(<<b, o>>)
       /\ Avail(used', job') = Avail(used, job)
  BY <1>1, <1>2, <1>5, <1>10 DEF Avail
<1>12. free_lists' = PopHeads(free_lists, mem, b, o) /\ mem' = PopNodes(mem, b)
  BY <1>1 DEF pop_from_list, PopHeads, PopNodes
<1>13. Heap(free_lists', mem', (Frame \ used') \ Limbo(job'))
  BY <1>8, <1>11, <1>12, Zenon
<1>14. used' = used /\ free_frames' = free_frames /\ ranges' = ranges /\ held' = held
  BY <1>1
<1> QED
  BY <1>10, <1>11, <1>13, <1>14, Zenon DEF Inv

LEMMA InvLink == Inv /\ link => Inv'
<1> SUFFICES ASSUME Inv, link PROVE Inv'
  OBVIOUS
<1> DEFINE a == job.a
           o == job.o
           b == BuddyOf(a, o)
           F == (Frame \ used) \ FramesOf(<<a, o>>)
<1>1. /\ job.pc = "merge" /\ ~MergeWith(b)
      /\ push_to_list(a, o) /\ job' = Idle /\ used' = used \ FramesOf(<<a, o>>)
      /\ UNCHANGED <<free_frames, ranges, held, reply>>
  BY DEF link
<1>2. job = MergeJob(a, o) /\ Block(a, o) /\ Limbo(job) = FramesOf(<<a, o>>)
  BY <1>1, JobCases, JobMake DEF Inv
<1>3. /\ a \in Nat /\ a \in Frame \ {0} /\ o \in Order /\ a % Size[o] = 0
      /\ FramesOf(<<a, o>>) \subseteq Frame
  BY <1>2, Indices, Zenon DEF Block
<1>4. o < MAX_ORDER - 1 => ~(FramesOf(<<b, o>>) \subseteq F /\ Linked(free_lists, mem, b, o))
  BY <1>1 DEF MergeWith, block_on_free_list, is_block_free, Linked
<1>5. free_lists' = PushHeads(free_lists, a, o) /\ mem' = PushNodes(mem, free_lists[o], a)
  BY <1>1 DEF push_to_list, PushHeads, PushNodes
<1> HIDE DEF a, o
<1>6. Heap(free_lists, mem, F) /\ FramesOf(<<a, o>>) \cap F = {}
  BY <1>2, Zenon DEF Inv
<1>7. Heap(free_lists', mem', F \union FramesOf(<<a, o>>))
  <2> HIDE DEF F
  <2> QED
    BY <1>3, <1>4, <1>5, <1>6, HeapLink, Zenon
<1>8. used \subseteq Frame /\ Limbo(job') = {}
  BY <1>1 DEF Inv, Limbo
<1>9. /\ (Frame \ used') \ Limbo(job') = F \union FramesOf(<<a, o>>)
      /\ Avail(used', job') = Avail(used, job) /\ used' \subseteq Frame
  BY <1>1, <1>2, <1>3, <1>8, Zenon DEF Avail
<1>10. free_frames' = free_frames /\ ranges' = ranges /\ held' = held
  BY <1>1
<1>11. JobOK(job', used')
  BY <1>1, Zenon DEF JobOK
<1> QED
  BY <1>7, <1>9, <1>10, <1>11, Zenon DEF Inv

LEMMA InvSplit == Inv /\ split => Inv'
<1> SUFFICES ASSUME Inv, split PROVE Inv'
  OBVIOUS
<1> DEFINE a == job.a
           o == job.o
           p == job.o - 1
           b == a + Size[p]
           F == (Frame \ used) \ FramesOf(<<a, o>>)
<1>1. /\ job.pc = "split" /\ o > job.order /\ push_to_list(b, p) /\ job' = [job EXCEPT !.o = p]
      /\ UNCHANGED <<used, free_frames, ranges, held, reply>>
  BY DEF split
<1>2. /\ job = SplitJob(a, o, job.order) /\ Block(a, o) /\ Limbo(job) = FramesOf(<<a, o>>)
      /\ job.order \in Order /\ FramesOf(<<a, o>>) \cap used = {}
  <2>1. JobOK(job, used)
    BY Zenon DEF Inv
  <2>2. /\ job = SplitJob(a, o, job.order) /\ Block(a, o) /\ job # Idle
        /\ job.order \in Order /\ FramesOf(<<a, o>>) \cap used = {}
    BY <1>1, <2>1, JobCases, Zenon
  <2> QED
    BY <2>2, Zenon DEF Limbo
<1>3. /\ a \in Nat /\ a \in Frame \ {0} /\ o \in Order /\ a % Size[o] = 0
      /\ FramesOf(<<a, o>>) \subseteq Frame
  BY <1>2, Indices, Zenon DEF Block
<1>4. /\ p \in 0 .. MAX_ORDER - 1 /\ p \in 0 .. MAX_ORDER /\ p \in Order /\ p + 1 = o
      /\ job.order <= p
  BY <1>1, <1>2, <1>3, Indices DEF Order
<1>5. job' = SplitJob(a, p, job.order)
  BY <1>1, <1>2 DEF SplitJob
<1> HIDE DEF p, o, a
<1>6. Size[p] \in Nat \ {0} /\ b \in Nat /\ b # 0
  BY <1>3, <1>4, SizeFacts
<1>7. /\ a % Size[p] = 0 /\ b % Size[p] = 0 /\ BuddyOf(b, p) = a
      /\ FramesOf(<<a, o>>) = FramesOf(<<a, p>>) \union FramesOf(<<b, p>>)
      /\ FramesOf(<<a, p>>) \cap FramesOf(<<b, p>>) = {}
  <2>1. a % Size[p + 1] = 0 /\ FramesOf(<<a, o>>) = FramesOf(<<a, p + 1>>)
    BY <1>3, <1>4, Zenon
  <2> QED
    BY <1>3, <1>4, <2>1, Halves, Zenon
<1>8. free_lists' = PushHeads(free_lists, b, p) /\ mem' = PushNodes(mem, free_lists[p], b)
  BY <1>1 DEF push_to_list, PushHeads, PushNodes
<1> HIDE DEF b
<1>9. a \in FramesOf(<<a, p>>) /\ b \in FramesOf(<<b, p>>)
  BY <1>3, <1>4, <1>6, FirstFrame
<1>10. b \in Frame \ {0} /\ Block(a, p)
  BY <1>3, <1>4, <1>6, <1>7, <1>9 DEF Block
<1>11. ~(FramesOf(<<a, p>>) \subseteq F) /\ FramesOf(<<b, p>>) \cap F = {}
  BY <1>7, <1>9
<1>12. Heap(free_lists, mem, F)
  BY <1>2, Zenon DEF Inv
<1>13. Heap(free_lists', mem', F \union FramesOf(<<b, p>>))
  <2> HIDE DEF F
  <2>1. ~(FramesOf(<<BuddyOf(b, p), p>>) \subseteq F)
    BY <1>7, <1>11, Zenon
  <2> QED
    BY <1>4, <1>7, <1>8, <1>10, <1>11, <1>12, <2>1, HeapLink, Zenon
<1>14. used' = used /\ free_frames' = free_frames /\ ranges' = ranges /\ held' = held
  BY <1>1
<1>15. FramesOf(<<a, p>>) \cap used' = {}
  BY <1>2, <1>7, <1>14
<1>16. JobOK(job', used') /\ Limbo(job') = FramesOf(<<a, p>>)
  BY <1>2, <1>4, <1>5, <1>10, <1>15, JobMake, Zenon
<1>17. /\ (Frame \ used') \ Limbo(job') = F \union FramesOf(<<b, p>>)
       /\ Avail(used', job') = Avail(used, job)
  BY <1>2, <1>3, <1>7, <1>14, <1>16 DEF Avail
<1>18. Heap(free_lists', mem', (Frame \ used') \ Limbo(job'))
  BY <1>13, <1>17, Zenon
<1> QED
  BY <1>14, <1>16, <1>17, <1>18, Zenon DEF Inv

\* The usable frames are frames, without frame 0.
LEMMA UsableFrames ==
  ASSUME NEW avail, NEW hf, NEW pf, Shared(avail, hf, pf)
  PROVE  avail \subseteq Frame /\ hf \subseteq Frame \ {0} /\ pf \subseteq Frame \ {0}
<1>1. ASSUME NEW k \in DOMAIN Ranges PROVE Ranges[k][1] .. Ranges[k][2] - 1 \subseteq Frame \ {0}
  <2>1. /\ Ranges[k] \in Nat \X Nat /\ 0 < Ranges[k][1] /\ Ranges[k][2] <= total_frames
        /\ total_frames \in Nat
    BY BuddyAssumption
  <2> QED
    BY <2>1 DEF Frame
<1>2. Pending(Ranges) \subseteq Frame \ {0}
  BY <1>1, Zenon DEF Pending
<1> QED
  BY <1>2 DEF Shared

LEMMA HeldChange ==
  ASSUME NEW h, HeldOK(h)
  PROVE  /\ \A blk : HeldFrames(h \union {blk}) = HeldFrames(h) \union FramesOf(blk)
         /\ \A blk \in h : /\ HeldFrames(h \ {blk}) = HeldFrames(h) \ FramesOf(blk)
                           /\ FramesOf(blk) \subseteq HeldFrames(h)
                           /\ HeldOK(h \ {blk})
         /\ \A a, o : Block(a, o) /\ FramesOf(<<a, o>>) \cap HeldFrames(h) = {}
                       => HeldOK(h \union {<<a, o>>})
<1>1. \A blk : HeldFrames(h \union {blk}) = HeldFrames(h) \union FramesOf(blk)
  BY DEF HeldFrames
<1>2. \A p, q \in h : p # q => FramesOf(p) \cap FramesOf(q) = {}
  BY DEF HeldOK
<1>3. ASSUME NEW blk \in h
      PROVE  /\ HeldFrames(h \ {blk}) = HeldFrames(h) \ FramesOf(blk)
             /\ FramesOf(blk) \subseteq HeldFrames(h)
  BY <1>2 DEF HeldFrames
<1>4. ASSUME NEW blk \in h PROVE HeldOK(h \ {blk})
  BY DEF HeldOK
<1>5. ASSUME NEW a, NEW o, Block(a, o), FramesOf(<<a, o>>) \cap HeldFrames(h) = {}
      PROVE  HeldOK(h \union {<<a, o>>})
  <2>1. \A blk \in h \union {<<a, o>>} : \E c, p : blk = <<c, p>> /\ Block(c, p)
    BY <1>5, Zenon DEF HeldOK
  <2>2. \A p \in h : FramesOf(p) \cap FramesOf(<<a, o>>) = {}
    BY <1>5, <1>3, Zenon
  <2>3. \A p, q \in h \union {<<a, o>>} : p # q => FramesOf(p) \cap FramesOf(q) = {}
    BY <1>2, <2>2
  <2> QED
    BY <2>1, <2>3, Zenon DEF HeldOK
<1> QED
  BY <1>1, <1>3, <1>4, <1>5, Zenon

LEMMA InvGrant == Inv /\ grant => Inv'
<1> SUFFICES ASSUME Inv, grant PROVE Inv'
  OBVIOUS
<1> DEFINE a == job.a
           o == job.o
           Fr == FramesOf(<<a, o>>)
<1>1. PICK junk \in Junk :
      /\ job.pc = "split" /\ o = job.order
      /\ used' = used \union (Fr \cap Frame) /\ free_frames' = free_frames - Size[o]
      /\ mem' = [f \in Frame |-> IF f \in Fr THEN junk ELSE mem[f]]
      /\ held' = held \union {<<a, o>>} /\ job' = Idle
      /\ UNCHANGED <<free_lists, ranges>>
  BY DEF grant
<1>2. JobOK(job, used) /\ used \subseteq Frame /\ HeldOK(held) /\ RangesOK(ranges)
  BY Zenon DEF Inv
<1>3. Block(a, o) /\ job # Idle /\ Fr \cap used = {}
  BY <1>1, <1>2, JobCases, Zenon
<1>4. Limbo(job) = Fr
  BY <1>3, Zenon DEF Limbo
<1>5. /\ a \in Nat /\ o \in 0 .. MAX_ORDER /\ Fr \subseteq Frame
  BY <1>3, Indices, Zenon DEF Block
<1>6. /\ Heap(free_lists, mem, (Frame \ used) \ Fr) /\ free_frames = Cardinality(Avail(used, job))
      /\ Shared(Avail(used, job), HeldFrames(held), Pending(ranges))
  BY <1>4, Zenon DEF Inv
<1> HIDE DEF Fr
<1>7. Limbo(job') = {} /\ JobOK(job', used')
  BY <1>1, Zenon DEF Limbo, JobOK
<1>8. /\ (Frame \ used') \ Limbo(job') = (Frame \ used) \ Fr
      /\ Avail(used, job) = Avail(used', job') \union Fr
      /\ Avail(used', job') \cap Fr = {} /\ Avail(used', job') \subseteq Frame
      /\ used' \subseteq Frame
  BY <1>1, <1>2, <1>3, <1>4, <1>5, <1>7 DEF Avail
<1>9. Heap(free_lists', mem', (Frame \ used') \ Limbo(job'))
  <2>1. mem \in [Frame -> Node]
    BY <1>6 DEF Heap, Links, LinkedTypes
  <2>2. junk \in Node
    BY BuddyAssumption DEF Node
  <2>3. mem' \in [Frame -> Node]
    BY <1>1, <2>1, <2>2
  <2>4. \A f \in (Frame \ used) \ Fr : mem'[f] = mem[f]
    BY <1>1
  <2>5. Heap(free_lists, mem', (Frame \ used) \ Fr)
    BY <1>6, <2>3, <2>4, HeapScribble, Zenon
  <2> QED
    BY <1>1, <1>8, <2>5
<1>10. free_frames' = Cardinality(Avail(used', job'))
  <2>1. IsFiniteSet(Avail(used', job')) /\ Cardinality(Avail(used', job')) \in Nat
    BY <1>8, Finite, FS_Subset, FS_CardinalityType, Zenon
  <2>2. Cardinality(Avail(used, job)) = Cardinality(Avail(used', job')) + Size[o]
    <3>1. Avail(used', job') \cap FramesOf(<<a, o>>) = {}
      BY <1>8, Zenon DEF Fr
    <3>2. Cardinality(Avail(used', job') \union FramesOf(<<a, o>>)) =
            Cardinality(Avail(used', job')) + Size[o]
      BY <1>5, <2>1, <3>1, CardAdd, Zenon
    <3> QED
      BY <1>8, <3>2, Zenon DEF Fr
  <2>3. Size[o] \in Nat
    BY <1>5, SizeFacts
  <2> QED
    BY <1>1, <1>6, <2>1, <2>2, <2>3
<1>11. Fr \cap HeldFrames(held) = {} /\ Fr \cap Pending(ranges) = {}
  BY <1>6, <1>8 DEF Shared
<1>12. HeldOK(held') /\ HeldFrames(held') = HeldFrames(held) \union Fr
  BY <1>1, <1>2, <1>3, <1>11, HeldChange, Zenon DEF Fr
<1>13. Shared(Avail(used', job'), HeldFrames(held'), Pending(ranges'))
  <2>1. ranges' = ranges
    BY <1>1
  <2> QED
    BY <1>6, <1>8, <1>11, <1>12, <2>1 DEF Shared
<1> QED
  BY <1>1, <1>2, <1>7, <1>8, <1>9, <1>10, <1>12, <1>13, Zenon DEF Inv

\* The list alloc_block takes from.
LEMMA SourceFacts ==
  ASSUME NEW order \in 0 .. MAX_ORDER
  PROVE  \/ Source(order) = MAX_ORDER /\ \A o \in Order : o >= order => free_lists[o] = 0
         \/ /\ Source(order) \in Order /\ Source(order) # MAX_ORDER
            /\ order <= Source(order) /\ order \in Order
            /\ free_lists[Source(order)] # 0
<1> DEFINE os == {o \in Order : o >= order /\ free_lists[o] # 0}
<1>1. CASE os = {}
  BY <1>1 DEF Source
<1>2. CASE os # {}
  <2>1. \E o \in os : \A p \in os : o <= p
    <3>1. os \subseteq Nat
      BY Indices, Zenon
    <3>2. PICK o \in os : \A p \in os : ~(<<p, o>> \in OpToRel(<, Nat))
      <4> HIDE DEF os
      <4> QED
        BY <1>2, <3>1, WFMin, NatLessThanWellFounded, ZenonT(30)
    <3>3. \A p \in os : ~(p < o)
      <4> HIDE DEF os
      <4> QED
        BY <3>1, <3>2, Zenon DEF OpToRel
    <3> QED
      BY <3>1, <3>3
  <2>2. Source(order) = CHOOSE o \in os : \A p \in os : o <= p
    BY <1>2 DEF Source
  <2>3. Source(order) \in os
    <3> HIDE DEF os
    <3> QED
      BY <2>1, <2>2
  <2>4. /\ Source(order) \in Order /\ Source(order) >= order /\ free_lists[Source(order)] # 0
    BY <2>3
  <2> QED
    BY <2>4, BuddyAssumption DEF Order
<1> QED
  BY <1>1, <1>2

LEMMA InvAllocate ==
  ASSUME NEW order \in 0 .. MAX_ORDER, Inv, allocate_contiguous_frames(order)
  PROVE  Inv'
<1>1. job = Idle /\ alloc_block(order) /\ UNCHANGED <<used, free_frames, ranges, held>>
  BY DEF allocate_contiguous_frames, Callable
<1>2. Limbo(job) = {}
  BY <1>1 DEF Limbo
<1>3. CASE Source(order) = MAX_ORDER
  <2>1. UNCHANGED <<free_lists, used, free_frames, mem, ranges, job, held>>
    BY <1>1, <1>3 DEF alloc_block
  <2> QED
    BY <2>1 DEF Inv
<1>4. CASE Source(order) # MAX_ORDER
  <2> DEFINE o == Source(order)
             a == free_lists[o]
  <2>1. o \in Order /\ order <= o /\ order \in Order /\ a # 0
    BY <1>4, SourceFacts
  <2>2. pop_from_list(a, o) /\ job' = SplitJob(a, o, order)
    BY <1>1, <1>4 DEF alloc_block, SplitJob
  <2>3. free_lists' = PopHeads(free_lists, mem, a, o) /\ mem' = PopNodes(mem, a)
    BY <2>2 DEF pop_from_list, PopHeads, PopNodes
  <2>4. Heap(free_lists, mem, Frame \ used)
    BY <1>2 DEF Inv
  <2> HIDE DEF o
  <2>5. /\ a \in Frame \ {0} /\ a % Size[o] = 0 /\ FramesOf(<<a, o>>) \subseteq Frame \ used
        /\ Heap(free_lists', mem', (Frame \ used) \ FramesOf(<<a, o>>))
    BY <2>1, <2>3, <2>4, HeapTake, Zenon
  <2> HIDE DEF a
  <2>6. Block(a, o) /\ FramesOf(<<a, o>>) \cap used' = {}
    BY <1>1, <2>1, <2>5 DEF Block
  <2>7. JobOK(job', used') /\ Limbo(job') = FramesOf(<<a, o>>)
    BY <2>1, <2>2, <2>6, JobMake, Zenon
  <2>8. used' = used /\ free_frames' = free_frames /\ ranges' = ranges /\ held' = held
    BY <1>1
  <2>9. Avail(used', job') = Avail(used, job)
    BY <1>2, <2>5, <2>7, <2>8 DEF Avail
  <2>10. Heap(free_lists', mem', (Frame \ used') \ Limbo(job'))
    BY <2>5, <2>7, <2>8, Zenon
  <2> QED
    BY <2>7, <2>8, <2>9, <2>10, Zenon DEF Inv
<1> QED
  BY <1>3, <1>4

\* free_block of a block that is not available puts it in limbo.
LEMMA BeginFree ==
  ASSUME Inv, job = Idle, NEW a, NEW o, Block(a, o), FramesOf(<<a, o>>) \cap Avail(used, job) = {},
         free_block(a, o), UNCHANGED <<free_lists, used, mem>>
  PROVE  /\ Heap(free_lists', mem', (Frame \ used') \ Limbo(job'))
         /\ used' \subseteq Frame
         /\ free_frames' = Cardinality(Avail(used', job'))
         /\ JobOK(job', used')
         /\ Avail(used', job') = Avail(used, job) \union FramesOf(<<a, o>>)
<1> DEFINE Fr == FramesOf(<<a, o>>)
<1>1. a \in Nat /\ o \in 0 .. MAX_ORDER /\ Fr \subseteq Frame
  BY Indices DEF Block
<1>2. a \in Fr
  BY <1>1, FirstFrame
<1>3. Limbo(job) = {} /\ Avail(used, job) = Frame \ used /\ used' = used
  BY DEF Limbo, Avail
<1>4. job' = MergeJob(a, o) /\ free_frames' = free_frames + Size[o]
  BY <1>1, <1>2, <1>3 DEF free_block, is_block_free, MergeJob
<1>5. JobOK(job', used') /\ Limbo(job') = Fr
  BY <1>4, JobMake, Zenon
<1> HIDE DEF Fr
<1>6. Fr \cap (Frame \ used) = {}
  BY <1>3, Zenon DEF Fr
<1>7. (Frame \ used') \ Limbo(job') = (Frame \ used) \ Limbo(job)
  BY <1>3, <1>5, <1>6
<1>8. Avail(used', job') = Avail(used, job) \union Fr
  BY <1>3, <1>5 DEF Avail
<1>9. Heap(free_lists, mem, (Frame \ used) \ Limbo(job)) /\ used \subseteq Frame
      /\ free_frames = Cardinality(Avail(used, job))
  BY Zenon DEF Inv
<1>10. Heap(free_lists', mem', (Frame \ used') \ Limbo(job'))
  BY <1>7, <1>9
<1>11. Cardinality(Avail(used, job) \union FramesOf(<<a, o>>))
         = Cardinality(Avail(used, job)) + Size[o]
  <2>1. Avail(used, job) \subseteq Frame
    BY <1>3
  <2>2. IsFiniteSet(Avail(used, job))
    BY <2>1, Finite, FS_Subset, Zenon
  <2>3. Avail(used, job) \cap FramesOf(<<a, o>>) = {}
    BY <1>3, <1>6 DEF Fr
  <2> QED
    BY <1>1, <2>2, <2>3, CardAdd, Zenon
<1>12. free_frames' = Cardinality(Avail(used', job'))
  BY <1>4, <1>8, <1>9, <1>11, Zenon DEF Fr
<1> QED
  BY <1>3, <1>5, <1>8, <1>9, <1>10, <1>12, Zenon DEF Fr

LEMMA InvDeallocate ==
  ASSUME NEW blk \in held, Inv, deallocate_contiguous_frames(blk)
  PROVE  Inv'
<1>1. /\ job = Idle /\ free_block(blk[1], blk[2]) /\ held' = held \ {blk}
      /\ UNCHANGED <<free_lists, used, mem>> /\ ranges' = ranges
  BY DEF deallocate_contiguous_frames, Callable
<1>2. /\ HeldOK(held) /\ RangesOK(ranges)
      /\ Shared(Avail(used, job), HeldFrames(held), Pending(ranges))
  BY Zenon DEF Inv
<1>3. PICK a, o : blk = <<a, o>> /\ Block(a, o)
  BY <1>2, Zenon DEF HeldOK
<1>4. /\ HeldFrames(held \ {blk}) = HeldFrames(held) \ FramesOf(blk)
      /\ FramesOf(blk) \subseteq HeldFrames(held) /\ HeldOK(held \ {blk})
  BY <1>2, HeldChange, Zenon
<1>5. FramesOf(<<a, o>>) \cap Avail(used, job) = {} /\ free_block(a, o)
  BY <1>1, <1>2, <1>3, <1>4 DEF Shared
<1>6. /\ Heap(free_lists', mem', (Frame \ used') \ Limbo(job'))
      /\ used' \subseteq Frame
      /\ free_frames' = Cardinality(Avail(used', job'))
      /\ JobOK(job', used')
      /\ Avail(used', job') = Avail(used, job) \union FramesOf(<<a, o>>)
  BY <1>1, <1>3, <1>5, BeginFree, Zenon
<1>7. Shared(Avail(used', job'), HeldFrames(held'), Pending(ranges'))
  BY <1>1, <1>2, <1>3, <1>4, <1>6, Zenon DEF Shared
<1> QED
  BY <1>1, <1>2, <1>4, <1>6, <1>7, Zenon DEF Inv

LEMMA InvHalve ==
  ASSUME NEW blk \in held, Inv, Halve(blk)
  PROVE  Inv'
<1>1. /\ blk[2] > 0
      /\ held' = (held \ {blk}) \union {<<blk[1], blk[2] - 1>>,
                                          <<blk[1] + Size[blk[2] - 1], blk[2] - 1>>}
      /\ UNCHANGED <<free_lists, used, free_frames, mem, ranges, job>>
  BY DEF Halve
<1>2. HeldOK(held)
  BY Zenon DEF Inv
<1>3. PICK a, o : blk = <<a, o>> /\ Block(a, o)
  BY <1>2, Zenon DEF HeldOK
<1> DEFINE p == o - 1
           b == a + Size[p]
           h == held \ {blk}
<1>4. /\ a \in Nat /\ a \in Frame \ {0} /\ o \in Order /\ a % Size[o] = 0
      /\ FramesOf(<<a, o>>) \subseteq Frame
  BY <1>3, Indices DEF Block
<1>5. /\ p \in 0 .. MAX_ORDER - 1 /\ p \in 0 .. MAX_ORDER /\ p \in Order /\ p + 1 = o
  BY <1>1, <1>3, <1>4, Indices DEF Order
<1>6. held' = (h \union {<<a, p>>}) \union {<<b, p>>}
  BY <1>1, <1>3
<1> HIDE DEF p
<1>7. Size[p] \in Nat \ {0} /\ b \in Nat /\ b # 0
  BY <1>4, <1>5, SizeFacts
<1>8. /\ a % Size[p] = 0 /\ b % Size[p] = 0
      /\ FramesOf(<<a, o>>) = FramesOf(<<a, p>>) \union FramesOf(<<b, p>>)
      /\ FramesOf(<<a, p>>) \cap FramesOf(<<b, p>>) = {}
  <2>1. a % Size[p + 1] = 0 /\ FramesOf(<<a, o>>) = FramesOf(<<a, p + 1>>)
    BY <1>4, <1>5, Zenon
  <2> QED
    BY <1>4, <1>5, <2>1, Halves, Zenon
<1> HIDE DEF b
<1>9. b \in FramesOf(<<b, p>>)
  BY <1>5, <1>7, FirstFrame
<1>10. Block(a, p) /\ Block(b, p)
  BY <1>4, <1>5, <1>7, <1>8, <1>9 DEF Block
<1>11. /\ HeldFrames(h) = HeldFrames(held) \ FramesOf(<<a, o>>)
       /\ FramesOf(<<a, o>>) \subseteq HeldFrames(held) /\ HeldOK(h)
  BY <1>2, <1>3, HeldChange, Zenon
<1> HIDE DEF h
<1>12. FramesOf(<<a, p>>) \cap HeldFrames(h) = {} /\ FramesOf(<<b, p>>) \cap HeldFrames(h) = {}
  BY <1>8, <1>11
<1> DEFINE h2 == h \union {<<a, p>>}
<1>13. HeldOK(h2) /\ HeldFrames(h2) = HeldFrames(h) \union FramesOf(<<a, p>>)
  BY <1>10, <1>11, <1>12, HeldChange, Zenon
<1> HIDE DEF h2
<1>14. FramesOf(<<b, p>>) \cap HeldFrames(h2) = {}
  BY <1>8, <1>12, <1>13
<1>15. /\ HeldOK(h2 \union {<<b, p>>})
       /\ HeldFrames(h2 \union {<<b, p>>}) = HeldFrames(h2) \union FramesOf(<<b, p>>)
  BY <1>10, <1>13, <1>14, HeldChange, Zenon
<1>16. HeldOK(held') /\ HeldFrames(held') = HeldFrames(held)
  BY <1>6, <1>8, <1>11, <1>13, <1>15, Zenon DEF h2
<1>17. /\ free_lists' = free_lists /\ used' = used /\ free_frames' = free_frames /\ mem' = mem
       /\ ranges' = ranges /\ job' = job
  BY <1>1
<1> QED
  BY <1>16, <1>17, Zenon DEF Inv

\* add_range frees aligned blocks inside the range.
LEMMA OrderFits ==
  ASSUME NEW a \in Nat, NEW end \in Nat, a < end
  PROVE  BlockOrder(a, end) \in Order /\ Fits(a, BlockOrder(a, end), end)
<1> DEFINE Good(o) == \A p \in 1 .. o : Fits(a, p, end)
           Last(o) == o = MAX_ORDER - 1 \/ ~Fits(a, o + 1, end)
<1>1. \E o \in Order : Good(o) /\ Last(o)
  <2> SUFFICES ASSUME \A o \in Order : Good(o) => ~Last(o) PROVE FALSE
    OBVIOUS
  <2> DEFINE S == {n \in Nat : n \in Order => Good(n)}
  <2>1. 0 \in S
    OBVIOUS
  <2>2. ASSUME NEW n \in Nat, n \in S PROVE n + 1 \in S
    <3> SUFFICES ASSUME n + 1 \in Order PROVE Good(n + 1)
      OBVIOUS
    <3>1. n \in Order
      BY BuddyAssumption DEF Order
    <3>2. Good(n) /\ Fits(a, n + 1, end)
      BY <2>2, <3>1
    <3>3. \A p \in 1 .. n + 1 : p = n + 1 \/ p \in 1 .. n
      OBVIOUS
    <3> QED
      BY <3>2, <3>3
  <2>3. \A n \in Nat : n \in S
    <3> HIDE DEF S
    <3> QED
      BY <2>1, <2>2, Induction
  <2>4. MAX_ORDER - 1 \in Order /\ MAX_ORDER - 1 \in Nat
    BY BuddyAssumption DEF Order
  <2> QED
    BY <2>3, <2>4
<1>2. BlockOrder(a, end) = CHOOSE o \in Order : Good(o) /\ Last(o)
  BY DEF BlockOrder
<1> HIDE DEF Last
<1>3. BlockOrder(a, end) \in Order /\ Good(BlockOrder(a, end))
  <2> HIDE DEF Good
  <2> QED
    BY <1>1, <1>2, Zenon
<1>4. CASE BlockOrder(a, end) = 0
  <2>1. Size[0] = 1 /\ a % 1 = 0
    BY SizeFacts
  <2> QED
    BY <1>3, <1>4, <2>1 DEF Fits
<1>5. CASE BlockOrder(a, end) # 0
  <2> DEFINE o == BlockOrder(a, end)
  <2>1. o \in Nat
    BY <1>3, Indices, Zenon
  <2> HIDE DEF o
  <2>2. o # 0
    BY <1>5 DEF o
  <2>3. o \in 1 .. o
    BY <2>1, <2>2
  <2> QED
    BY <1>3, <2>3 DEF o
<1> QED
  BY <1>4, <1>5

\* Taking frames off the front of the first range.
LEMMA PendingFirst ==
  ASSUME NEW rs, RangesOK(rs), rs # <<>>, NEW c \in Nat, rs[1][1] <= c, c <= rs[1][2]
  PROVE  LET rs2 == [rs EXCEPT ![1] = <<c, rs[1][2]>>] IN
         /\ RangesOK(rs2)
         /\ rs[1][1] .. c - 1 \subseteq Pending(rs)
         /\ Pending(rs2) = Pending(rs) \ (rs[1][1] .. c - 1)
<1> DEFINE end == rs[1][2]
           a == rs[1][1]
           rs2 == [rs EXCEPT ![1] = <<c, end>>]
           I(s, i) == s[i][1] .. s[i][2] - 1
<1>1. rs \in Seq(Nat \X Nat) /\ 1 \in DOMAIN rs
  BY DEF RangesOK
<1>2. a \in Nat /\ end \in Nat
  BY <1>1
<1>3. rs2 \in Seq(Nat \X Nat) /\ DOMAIN rs2 = DOMAIN rs
  BY <1>1, <1>2
<1>4. /\ rs2[1][1] = c /\ rs2[1][2] = end
      /\ \A i \in DOMAIN rs : i # 1 => rs2[i] = rs[i]
  BY <1>1
<1> HIDE DEF rs2
<1>5. /\ I(rs2, 1) = I(rs, 1) \ (a .. c - 1) /\ a .. c - 1 \subseteq I(rs, 1)
      /\ \A i \in DOMAIN rs : i # 1 => I(rs2, i) = I(rs, i)
  BY <1>2, <1>4
<1>6. \A i, j \in DOMAIN rs : i # j => I(rs, i) \cap I(rs, j) = {}
  BY DEF RangesOK
<1>7. \A i \in DOMAIN rs : 0 < rs2[i][1] /\ rs2[i][2] <= total_frames
  BY <1>1, <1>2, <1>4 DEF RangesOK
<1>8. /\ Pending(rs) = UNION {I(rs, k) : k \in DOMAIN rs}
      /\ Pending(rs2) = UNION {I(rs2, k) : k \in DOMAIN rs2}
  BY DEF Pending
<1> HIDE DEF I
<1>9. \A i, j \in DOMAIN rs : i # j => I(rs2, i) \cap I(rs2, j) = {}
  BY <1>5, <1>6
<1>10. RangesOK(rs2)
  BY <1>3, <1>7, <1>9, Zenon DEF RangesOK, I
<1>11. a .. c - 1 \subseteq Pending(rs)
  BY <1>1, <1>5, <1>8
<1>12. \A i \in DOMAIN rs : i # 1 => I(rs, i) \cap (a .. c - 1) = {}
  BY <1>1, <1>5, <1>6
<1>13. Pending(rs2) = Pending(rs) \ (a .. c - 1)
  <2>1. ASSUME NEW f \in Pending(rs2) PROVE f \in Pending(rs) \ (a .. c - 1)
    <3>1. PICK i \in DOMAIN rs : f \in I(rs2, i)
      BY <1>3, <1>8
    <3>2. f \in I(rs, i) /\ f \notin a .. c - 1
      BY <1>5, <1>12, <3>1
    <3> QED
      BY <1>8, <3>2
  <2>2. ASSUME NEW f \in Pending(rs), f \notin a .. c - 1 PROVE f \in Pending(rs2)
    <3>1. PICK i \in DOMAIN rs : f \in I(rs, i)
      BY <1>8
    <3>2. f \in I(rs2, i)
      BY <1>5, <2>2, <3>1
    <3> QED
      BY <1>3, <1>8, <3>2
  <2> QED
    BY <2>1, <2>2
<1> QED
  BY <1>10, <1>11, <1>13, Zenon DEF rs2

\* Dropping a first range that is used up.
LEMMA PendingTail ==
  ASSUME NEW rs, RangesOK(rs), rs # <<>>, rs[1][1] >= rs[1][2]
  PROVE  RangesOK(Tail(rs)) /\ Pending(Tail(rs)) = Pending(rs)
<1> DEFINE I(s, i) == s[i][1] .. s[i][2] - 1
<1>1. rs \in Seq(Nat \X Nat) /\ 1 \in DOMAIN rs /\ DOMAIN rs = 1 .. Len(rs) /\ Len(rs) \in Nat
  BY DEF RangesOK
<1>2. /\ Tail(rs) \in Seq(Nat \X Nat) /\ DOMAIN Tail(rs) = 1 .. Len(rs) - 1
      /\ \A i \in DOMAIN Tail(rs) : i + 1 \in DOMAIN rs /\ Tail(rs)[i] = rs[i + 1]
  <2>1. rs # <<>> /\ Len(rs) - 1 \in Nat
    BY <1>1
  <2>2. Tail(rs) \in Seq(Nat \X Nat) /\ Len(Tail(rs)) = Len(rs) - 1
    BY <1>1, <2>1
  <2>3. DOMAIN Tail(rs) = 1 .. Len(rs) - 1
    BY <2>2
  <2>4. ASSUME NEW i \in 1 .. Len(rs) - 1 PROVE i + 1 \in DOMAIN rs /\ Tail(rs)[i] = rs[i + 1]
    BY <1>1, <2>1
  <2> QED
    BY <2>2, <2>3, <2>4, Zenon
<1>3. I(rs, 1) = {}
  <2>1. rs[1][1] \in Nat /\ rs[1][2] \in Nat
    BY <1>1
  <2> QED
    BY <2>1
<1>4. \A i \in DOMAIN Tail(rs) : I(Tail(rs), i) = I(rs, i + 1)
  BY <1>2
<1>5. \A i, j \in DOMAIN rs : i # j => I(rs, i) \cap I(rs, j) = {}
  BY DEF RangesOK
<1>6. \A i \in DOMAIN Tail(rs) : 0 < Tail(rs)[i][1] /\ Tail(rs)[i][2] <= total_frames
  BY <1>2 DEF RangesOK
<1>7. /\ Pending(rs) = UNION {I(rs, k) : k \in DOMAIN rs}
      /\ Pending(Tail(rs)) = UNION {I(Tail(rs), k) : k \in DOMAIN Tail(rs)}
  BY DEF Pending
<1>8. \A i \in DOMAIN rs : i = 1 \/ (i - 1 \in DOMAIN Tail(rs) /\ (i - 1) + 1 = i)
  BY <1>1, <1>2, SMTT(30)
<1> HIDE DEF I
<1>9. \A i, j \in DOMAIN Tail(rs) : i # j => I(Tail(rs), i) \cap I(Tail(rs), j) = {}
  <2>1. \A i, j \in DOMAIN Tail(rs) : i # j => i + 1 # j + 1
    BY <1>2
  <2> QED
    BY <1>2, <1>4, <1>5, <2>1
<1>10. RangesOK(Tail(rs))
  BY <1>2, <1>6, <1>9, Zenon DEF RangesOK, I
<1>11. Pending(Tail(rs)) \subseteq Pending(rs)
  BY <1>2, <1>4, <1>7
<1>12. ASSUME NEW f \in Pending(rs) PROVE f \in Pending(Tail(rs))
  <2>1. PICK i \in DOMAIN rs : f \in I(rs, i)
    BY <1>7
  <2>2. i - 1 \in DOMAIN Tail(rs) /\ I(Tail(rs), i - 1) = I(rs, i)
    BY <1>3, <1>4, <1>8, <2>1
  <2> QED
    BY <1>7, <2>1, <2>2
<1> QED
  BY <1>10, <1>11, <1>12, Zenon

LEMMA InvAddRange == Inv /\ add_range => Inv'
<1> SUFFICES ASSUME Inv, add_range PROVE Inv'
  OBVIOUS
<1> DEFINE a == ranges[1][1]
           end == ranges[1][2]
           o == BlockOrder(a, end)
<1>1. /\ job = Idle /\ ranges # <<>>
      /\ IF a >= end \/ a >= total_frames
         THEN /\ ranges' = Tail(ranges)
              /\ UNCHANGED <<free_frames, job>>
         ELSE /\ ranges' = [ranges EXCEPT ![1] = <<a + Size[o], end>>]
              /\ free_block(a, o)
      /\ UNCHANGED <<free_lists, used, mem, held>>
  BY DEF add_range
<1>2. /\ HeldOK(held) /\ RangesOK(ranges)
      /\ Shared(Avail(used, job), HeldFrames(held), Pending(ranges))
  BY Zenon DEF Inv
<1>3. /\ a \in Nat /\ end \in Nat /\ 0 < a /\ end <= total_frames /\ total_frames \in Nat
  BY <1>1, <1>2, BuddyAssumption DEF RangesOK
<1> HIDE DEF o
<1>4. CASE a >= end
  <2>1. ranges' = Tail(ranges) /\ UNCHANGED <<free_frames, job>>
    BY <1>1, <1>4
  <2>2. RangesOK(ranges') /\ Pending(ranges') = Pending(ranges)
    BY <1>1, <1>2, <1>4, <2>1, PendingTail
  <2>3. /\ free_lists' = free_lists /\ used' = used /\ free_frames' = free_frames /\ mem' = mem
        /\ held' = held /\ job' = job
    BY <1>1, <2>1
  <2> QED
    BY <2>2, <2>3, Zenon DEF Inv
<1>5. CASE ~(a >= end)
  <2>1. a < end /\ ~(a >= total_frames)
    BY <1>3, <1>5
  <2>2. o \in Order /\ Fits(a, o, end)
    BY <1>3, <2>1, OrderFits DEF o
  <2>3. ranges' = [ranges EXCEPT ![1] = <<a + Size[o], end>>] /\ free_block(a, o)
    BY <1>1, <1>5, <2>1
  <2> DEFINE c == a + Size[o]
  <2>4. Size[o] \in Nat \ {0} /\ c \in Nat /\ a <= c /\ c <= end /\ a % Size[o] = 0
    BY <1>3, <2>2, SizeFacts, Indices DEF Fits
  <2>5. FramesOf(<<a, o>>) = a .. c - 1
    BY <1>3, <2>4 DEF FramesOf
  <2> HIDE DEF c
  <2>6. /\ RangesOK(ranges') /\ FramesOf(<<a, o>>) \subseteq Pending(ranges)
        /\ Pending(ranges') = Pending(ranges) \ FramesOf(<<a, o>>)
    BY <1>1, <1>2, <2>3, <2>4, <2>5, PendingFirst, Zenon DEF c
  <2>7. a \in FramesOf(<<a, o>>)
    BY <1>3, <2>2, FirstFrame, Indices
  <2>8. Block(a, o)
    <3>1. Pending(ranges) \subseteq Frame \ {0}
      BY <1>2, UsableFrames, Zenon
    <3> QED
      BY <2>2, <2>4, <2>6, <2>7, <3>1 DEF Block
  <2>9. FramesOf(<<a, o>>) \cap Avail(used, job) = {}
    BY <1>2, <2>6 DEF Shared
  <2>10. /\ Heap(free_lists', mem', (Frame \ used') \ Limbo(job'))
         /\ used' \subseteq Frame
         /\ free_frames' = Cardinality(Avail(used', job'))
         /\ JobOK(job', used')
         /\ Avail(used', job') = Avail(used, job) \union FramesOf(<<a, o>>)
    BY <1>1, <2>3, <2>8, <2>9, BeginFree, Zenon
  <2>11. held' = held
    BY <1>1
  <2>12. Shared(Avail(used', job'), HeldFrames(held'), Pending(ranges'))
    BY <1>2, <2>6, <2>10, <2>11 DEF Shared
  <2> QED
    BY <1>2, <2>6, <2>10, <2>11, <2>12, Zenon DEF Inv
<1> QED
  BY <1>4, <1>5

LEMMA InvStep == Inv /\ [Next]_vars => Inv'
<1> SUFFICES ASSUME Inv, [Next]_vars PROVE Inv'
  OBVIOUS
<1>1. CASE UNCHANGED vars
  BY <1>1 DEF Inv, vars
<1>2. ASSUME NEW a \in Frame, NEW o \in Order, DoubleFree(a, o) PROVE Inv'
  <2>1. UNCHANGED <<free_lists, used, free_frames, mem, ranges, job, held>>
    BY <1>2 DEF DoubleFree, free_block
  <2> QED
    BY <2>1 DEF Inv
<1> QED
  BY <1>1, <1>2, InvAddRange, InvMerge, InvLink, InvSplit, InvGrant, InvAllocate, InvDeallocate,
     InvHalve, Zenon DEF Next

-----------------------------------------------------------------------------
(***************************************************************************)
(* Types.                                                                  *)
(***************************************************************************)

LEMMA InvTypes == Inv => TypeOK
<1> SUFFICES ASSUME Inv PROVE TypeOK
  OBVIOUS
<1>1. /\ Heap(free_lists, mem, (Frame \ used) \ Limbo(job))
      /\ used \subseteq Frame /\ free_frames = Cardinality(Avail(used, job))
      /\ JobOK(job, used) /\ HeldOK(held)
      /\ Shared(Avail(used, job), HeldFrames(held), Pending(ranges))
  BY Zenon DEF Inv
<1>2. free_lists \in [Order -> Frame] /\ mem \in [Frame -> Node]
  BY <1>1, Zenon DEF Heap, Links, LinkedTypes
<1>3. free_frames \in 0 .. total_frames
  <2>1. Avail(used, job) \subseteq Frame
    BY <1>1, UsableFrames, Zenon
  <2>2. Avail(used, job) \in SUBSET Frame
    BY <2>1
  <2>3. IsFiniteSet(Avail(used, job)) /\ Cardinality(Avail(used, job)) <= Cardinality(Frame)
    BY <2>2, Finite, FS_Subset, Zenon
  <2>4. Cardinality(Avail(used, job)) \in Nat
    BY <2>3, FS_CardinalityType, Zenon
  <2> QED
    BY <1>1, <2>3, <2>4, Finite, BuddyAssumption
<1>4. job # Idle => job.o \in Order /\ FramesOf(<<job.a, job.o>>) \subseteq Frame
  BY <1>1, JobCases, Zenon DEF Block
<1>5. \A blk \in held : blk[2] \in Order /\ FramesOf(blk) \subseteq Frame
  <2> SUFFICES ASSUME NEW blk \in held PROVE blk[2] \in Order /\ FramesOf(blk) \subseteq Frame
    OBVIOUS
  <2>1. PICK a, o : blk = <<a, o>> /\ Block(a, o)
    BY <1>1, Zenon DEF HeldOK
  <2> QED
    BY <2>1 DEF Block
<1> QED
  BY <1>1, <1>2, <1>3, <1>4, <1>5 DEF TypeOK, Node

\* List heads, bitmap and count stay in range whatever the order of calls, and every
\* block a call works on or a caller holds lies within memory (buddy.rs).
THEOREM BuddyTypeCorrect == Spec => []TypeOK
<1>1. Init => Inv
  BY InvInit
<1>2. Inv /\ [Next]_vars => Inv'
  BY InvStep
<1>3. Inv => TypeOK
  BY InvTypes
<1> QED
  BY <1>1, <1>2, <1>3, PTL DEF Spec

-----------------------------------------------------------------------------
(***************************************************************************)
(* Refinement.                                                             *)
(***************************************************************************)

LEMMA AbstractFree ==
  /\ \A blk : Abstract!FramesOf(blk) = FramesOf(blk)
  /\ Abstract!Free = Pending(Ranges) \ HeldFrames(held)
  /\ Abstract!NoReply = NoReply
<1>1. \A blk : Abstract!FramesOf(blk) = FramesOf(blk)
  BY DEF Abstract!FramesOf, FramesOf
<1>2. Abstract!Free = Pending(Ranges) \ HeldFrames(held)
  BY <1>1, Zenon DEF Abstract!Free, Pending, HeldFrames
<1> QED
  BY <1>1, <1>2, Zenon DEF Abstract!NoReply, NoReply

\* A granted block is one of the candidates.
LEMMA GrantStep ==
  ASSUME Inv, grant
  PROVE  Abstract!Next
<1> DEFINE a == job.a
           o == job.o
           Fr == FramesOf(<<a, o>>)
<1>1. /\ job.pc = "split" /\ o = job.order
      /\ held' = held \union {<<a, o>>} /\ reply' = <<o, a>>
  BY DEF grant
<1>2. JobOK(job, used) /\ Shared(Avail(used, job), HeldFrames(held), Pending(ranges))
  BY Zenon DEF Inv
<1>3. Block(a, o) /\ job # Idle
  BY <1>1, <1>2, JobCases, Zenon
<1>4. Fr \subseteq Avail(used, job)
  BY <1>3 DEF Limbo, Avail
<1>5. a \in Nat /\ o \in 0 .. MAX_ORDER /\ a % Size[o] = 0
  BY <1>3, Indices, Zenon DEF Block
<1>6. a \in Fr
  BY <1>5, FirstFrame
<1> HIDE DEF a, o
<1>7. Fr \subseteq Pending(Ranges) \ HeldFrames(held)
  <2> HIDE DEF Fr
  <2> QED
    BY <1>2, <1>4 DEF Shared
<1>8. a \in Abstract!Candidates(o)
  BY <1>5, <1>6, <1>7, AbstractFree, Zenon DEF Abstract!Candidates
<1>9. Abstract!Grant(o)
  BY <1>1, <1>8, Zenon DEF Abstract!Grant
<1> QED
  BY <1>5, <1>9, Zenon DEF Abstract!Next

\* A refused request is one that no free block could serve.
LEMMA AllocateStep ==
  ASSUME Inv, NEW order \in 0 .. MAX_ORDER, allocate_contiguous_frames(order)
  PROVE  Abstract!Next \/ UNCHANGED <<held, reply>>
<1>1. job = Idle /\ ranges = <<>> /\ alloc_block(order) /\ held' = held
  BY DEF allocate_contiguous_frames, Callable
<1>2. CASE Source(order) # MAX_ORDER
  BY <1>1, <1>2 DEF alloc_block
<1>3. CASE Source(order) = MAX_ORDER
  <2>1. reply' = <<order, 0>> /\ \A o \in Order : o >= order => free_lists[o] = 0
    BY <1>1, <1>3, SourceFacts, BuddyAssumption DEF alloc_block, Order
  <2>2. order >= MAX_ORDER \/ Abstract!Candidates(order) = {}
    <3> SUFFICES ASSUME ~(order >= MAX_ORDER), NEW a \in Abstract!Candidates(order) PROVE FALSE
      OBVIOUS
    <3>1. order \in Order
      BY BuddyAssumption DEF Order
    <3>2. Limbo(job) = {} /\ Pending(ranges) = {}
      BY <1>1 DEF Limbo, Pending
    <3>3. /\ Heap(free_lists, mem, Frame \ used)
          /\ Shared(Frame \ used, HeldFrames(held), {})
      BY <3>2 DEF Inv, Avail
    <3>4. /\ a \in Pending(Ranges) \ HeldFrames(held) /\ a % Size[order] = 0
          /\ FramesOf(<<a, order>>) \subseteq Pending(Ranges) \ HeldFrames(held)
      BY AbstractFree, Zenon DEF Abstract!Candidates
    <3>5. Pending(Ranges) \ HeldFrames(held) = Frame \ used
      BY <3>3 DEF Shared
    <3>6. a \in Nat
      BY <3>4, <3>5, Indices, Zenon
    <3>7. FramesOf(<<a, order>>) \subseteq Frame \ used /\ a % Size[order] = 0
      BY <3>4, <3>5, Zenon
    <3> QED
      BY <2>1, <3>1, <3>3, <3>6, <3>7, HeapRefuse, Zenon
  <2>3. Abstract!Refuse(order)
    BY <1>1, <2>1, <2>2, Zenon DEF Abstract!Refuse
  <2> QED
    BY <2>3, Zenon DEF Abstract!Next
<1> QED
  BY <1>2, <1>3

LEMMA StepSimulation == Inv /\ [Next]_vars => [Abstract!Next]_<<held, reply>>
<1> SUFFICES ASSUME Inv, [Next]_vars PROVE Abstract!Next \/ UNCHANGED <<held, reply>>
  OBVIOUS
<1>1. CASE UNCHANGED vars \/ add_range \/ merge \/ link \/ split
  BY <1>1 DEF vars, add_range, merge, link, split
<1>2. CASE grant
  BY <1>2, GrantStep
<1>3. ASSUME NEW order \in 0 .. MAX_ORDER, allocate_contiguous_frames(order)
      PROVE  Abstract!Next \/ UNCHANGED <<held, reply>>
  BY <1>3, AllocateStep
<1>4. ASSUME NEW blk \in held, deallocate_contiguous_frames(blk)
      PROVE  Abstract!Next
  <2>1. held' = held \ {blk} /\ reply' = NoReply
    BY <1>4 DEF deallocate_contiguous_frames
  <2>2. Abstract!Return(blk)
    BY <2>1, AbstractFree, Zenon DEF Abstract!Return
  <2> QED
    BY <2>2, Zenon DEF Abstract!Next
<1>5. ASSUME NEW blk \in held, Halve(blk)
      PROVE  Abstract!Next
  <2>1. Abstract!Halve(blk)
    BY <1>5, AbstractFree, Zenon DEF Halve, Abstract!Halve
  <2> QED
    BY <2>1, Zenon DEF Abstract!Next
<1>6. ASSUME NEW a \in Frame, NEW o \in Order, DoubleFree(a, o)
      PROVE  Abstract!Next
  <2>1. reply' = NoReply /\ UNCHANGED held
    BY <1>6 DEF DoubleFree
  <2> QED
    BY <2>1, AbstractFree, Zenon DEF Abstract!Next
<1> QED
  BY <1>1, <1>2, <1>3, <1>4, <1>5, <1>6, Zenon DEF Next

\* Callers see only grants of aligned usable blocks that nobody holds, and a refusal
\* only when there is none, over every sequence of allocations and returns
\* (allocate_contiguous_frames and deallocate_contiguous_frames in memory.rs).
THEOREM BuddyImplementsFrames == Spec => ImplementsFrames
<1>1. Init => Abstract!Init
  BY Zenon DEF Init, new, Abstract!Init, NoReply, Abstract!NoReply
<1>2. Init => Inv
  BY InvInit
<1>3. Inv /\ [Next]_vars => Inv'
  BY InvStep
<1>4. Inv /\ [Next]_vars => [Abstract!Next]_<<held, reply>>
  BY StepSimulation
<1> QED
  BY <1>1, <1>2, <1>3, <1>4, PTL DEF Spec, ImplementsFrames, Abstract!Spec

-----------------------------------------------------------------------------
(***************************************************************************)
(* The lists as ListsExact walks them.                                     *)
(***************************************************************************)

\* What follows block a in a list.
After(m, a) == IF a = 0 THEN 0 ELSE m[a].next

\* The equations of Walk have a solution.
LEMMA WalkDef ==
  ASSUME NEW o
  PROVE  /\ Walk(o) = [k \in 0 .. total_frames |->
                        IF k = 0 THEN free_lists[o] ELSE After(mem, Walk(o)[k - 1])]
<1> DEFINE Chain(f, N) ==
             f = [k \in 0 .. N |-> IF k = 0 THEN free_lists[o] ELSE After(mem, f[k - 1])]
           S == {N \in Nat : \E f : Chain(f, N)}
<1>1. 0 \in S
  <2> DEFINE f == [k \in 0 .. 0 |-> free_lists[o]]
  <2>1. Chain(f, 0)
    OBVIOUS
  <2> HIDE DEF f, Chain
  <2> QED
    BY <2>1
<1>2. ASSUME NEW N \in Nat, N \in S PROVE N + 1 \in S
  <2>1. PICK f : Chain(f, N)
    BY <1>2
  <2> DEFINE g == [k \in 0 .. N + 1 |-> IF k = N + 1 THEN After(mem, f[N]) ELSE f[k]]
  <2>2. ASSUME NEW k \in 0 .. N + 1
        PROVE  g[k] = IF k = 0 THEN free_lists[o] ELSE After(mem, g[k - 1])
    <3>1. CASE k = N + 1
      <4>1. k - 1 = N /\ N \in 0 .. N + 1 /\ N # N + 1 /\ k # 0
        BY <3>1
      <4> QED
        BY <3>1, <4>1
    <3>2. CASE k # N + 1 /\ k # 0
      <4>1. k \in 0 .. N /\ k - 1 \in 0 .. N + 1 /\ k - 1 # N + 1
        BY <3>2
      <4>2. f[k] = After(mem, f[k - 1])
        BY <2>1, <3>2, <4>1
      <4> QED
        BY <3>2, <4>1, <4>2
    <3>3. CASE k = 0
      <4>1. 0 \in 0 .. N /\ 0 # N + 1
        OBVIOUS
      <4>2. f[0] = free_lists[o]
        BY <2>1, <4>1
      <4> QED
        BY <3>3, <4>1, <4>2
    <3> QED
      BY <3>1, <3>2, <3>3
  <2>3. g = [k \in 0 .. N + 1 |-> g[k]]
    OBVIOUS
  <2> HIDE DEF g
  <2>4. Chain(g, N + 1)
    BY <2>2, <2>3, Zenon
  <2>5. N + 1 \in Nat
    OBVIOUS
  <2> HIDE DEF Chain
  <2> QED
    BY <2>4, <2>5
<1>3. total_frames \in S
  <2> HIDE DEF S
  <2> QED
    BY <1>1, <1>2, Induction, BuddyAssumption, Zenon
<1>4. \E f : Chain(f, total_frames)
  BY <1>3
<1>5. Walk(o) = CHOOSE f : Chain(f, total_frames)
  BY DEF Walk, After
<1> HIDE DEF Chain
<1>6. Chain(Walk(o), total_frames)
  BY <1>4, <1>5, Zenon
<1> QED
  BY <1>6, Zenon DEF Chain

\* A walk meets the blocks of a list in the order of their ranks, all of them, and
\* comes to the end.
LEMMA WalkMeets ==
  ASSUME NEW L, NEW ord, NEW rank, Links(L, ord, rank, free_lists, mem), NEW o \in Order
  PROVE  /\ \A k \in 0 .. total_frames :
              Walk(o)[k] # 0 => Walk(o)[k] \in L /\ ord[Walk(o)[k]] = o
         /\ Walk(o)[total_frames] = 0
         /\ \A a \in L : ord[a] = o => \E k \in 0 .. total_frames : Walk(o)[k] = a
<1> DEFINE w == Walk(o)
           h == free_lists[o]
           r == rank[h]
           At(k) == IF h # 0 /\ k <= r
                    THEN w[k] \in L /\ ord[w[k]] = o /\ rank[w[k]] = r - k
                    ELSE w[k] = 0
           S == {k \in Nat : k <= total_frames => At(k)}
<1>0. /\ total_frames \in Nat \ {0} /\ L \subseteq Frame \ {0} /\ rank \in [Frame -> Nat]
      /\ h \in Frame /\ r \in Nat
  BY BuddyAssumption DEF Links, LinkedTypes
<1>1. \A k \in 0 .. total_frames : w[k] = IF k = 0 THEN h ELSE After(mem, w[k - 1])
  <2>1. w = [k \in 0 .. total_frames |-> IF k = 0 THEN h ELSE After(mem, w[k - 1])]
    BY WalkDef, Zenon
  <2> HIDE DEF w
  <2> QED
    BY <2>1, Zenon
<1> HIDE DEF w
<1>2. h # 0 => h \in L /\ ord[h] = o
  BY Zenon DEF Links, Headed
<1>3. \A a \in L : IF mem[a].next = 0 THEN rank[a] = 0
                   ELSE /\ mem[a].next \in L /\ ord[mem[a].next] = ord[a]
                        /\ rank[a] = rank[mem[a].next] + 1
  BY DEF Links, Forward
<1>4. \A a \in L : rank[a] \in Nat /\ a # 0
  BY <1>0
<1> HIDE DEF r, h
<1>5. 0 \in S
  <2>1. w[0] = h
    BY <1>0, <1>1
  <2> QED
    BY <1>0, <1>2, <2>1 DEF r
<1>6. ASSUME NEW k \in Nat, k \in S PROVE k + 1 \in S
  <2> SUFFICES ASSUME k + 1 <= total_frames PROVE At(k + 1)
    OBVIOUS
  <2>1. At(k)
    BY <1>0, <1>6
  <2>2. w[k + 1] = After(mem, w[k])
    <3>1. k + 1 \in 0 .. total_frames /\ k + 1 # 0 /\ (k + 1) - 1 = k
      BY <1>0
    <3> QED
      BY <1>1, <3>1
  <2>3. CASE h # 0 /\ k <= r
    <3>1. w[k] \in L /\ ord[w[k]] = o /\ rank[w[k]] = r - k /\ w[k] # 0
      BY <1>4, <2>1, <2>3
    <3>2. w[k + 1] = mem[w[k]].next
      BY <2>2, <3>1 DEF After
    <3>3. IF w[k + 1] = 0 THEN rank[w[k]] = 0
          ELSE w[k + 1] \in L /\ ord[w[k + 1]] = o /\ rank[w[k]] = rank[w[k + 1]] + 1
      BY <1>3, <3>1, <3>2
    <3>4. CASE w[k + 1] = 0
      BY <1>0, <3>1, <3>3, <3>4
    <3>5. CASE w[k + 1] # 0
      <4>1. w[k + 1] \in L /\ ord[w[k + 1]] = o /\ rank[w[k + 1]] \in Nat
            /\ r - k = rank[w[k + 1]] + 1
        BY <1>4, <3>1, <3>3, <3>5
      <4>2. k + 1 <= r /\ rank[w[k + 1]] = r - (k + 1)
        BY <1>0, <4>1
      <4> QED
        BY <2>3, <4>1, <4>2
    <3> QED
      BY <3>4, <3>5
  <2>4. CASE ~(h # 0 /\ k <= r)
    <3>1. w[k + 1] = 0
      BY <2>1, <2>2, <2>4 DEF After
    <3>2. ~(h # 0 /\ k + 1 <= r)
      BY <1>0, <2>4
    <3> QED
      BY <3>1, <3>2
  <2> QED
    BY <2>3, <2>4
<1>7. \A k \in 0 .. total_frames : At(k)
  <2>1. \A k \in Nat : k \in S
    <3> HIDE DEF S
    <3> QED
      BY <1>5, <1>6, Induction
  <2>2. \A k \in 0 .. total_frames : k \in Nat /\ k <= total_frames
    BY <1>0
  <2> HIDE DEF At
  <2> QED
    BY <2>1, <2>2
<1>8. h # 0 => r < total_frames
  <2> SUFFICES ASSUME h # 0, ~(r < total_frames) PROVE FALSE
    OBVIOUS
  <2> DEFINE D == 0 .. total_frames
             met == [k \in D |-> w[k]]
  <2>1. \A k \in D : w[k] \in L /\ rank[w[k]] = r - k
    BY <1>0, <1>7
  <2>2. met \in [D -> Frame]
    BY <1>0, <2>1
  <2>3. IsFiniteSet(D) /\ Cardinality(D) = total_frames + 1
    BY <1>0, FS_Interval
  <2>4. IsFiniteSet(Frame) /\ Cardinality(Frame) < Cardinality(D)
    BY <1>0, <2>3, Finite
  <2>5. \E x, y \in D : x # y /\ met[x] = met[y]
    <3> HIDE DEF D, met
    <3> QED
      BY <2>2, <2>3, <2>4, FS_PigeonHole, Zenon
  <2>6. PICK x \in D, y \in D : x # y /\ w[x] = w[y]
    BY <2>5
  <2> QED
    BY <1>0, <2>1, <2>6
<1>9. \A k \in 0 .. total_frames : w[k] # 0 => w[k] \in L /\ ord[w[k]] = o
  BY <1>7
<1>10. w[total_frames] = 0
  BY <1>0, <1>7, <1>8
<1>11. ASSUME NEW a \in L, ord[a] = o PROVE \E k \in 0 .. total_frames : w[k] = a
  <2>1. h # 0 /\ rank[a] <= r
    BY <1>11 DEF Links, Headed, h, r
  <2>2. rank[a] \in Nat
    BY <1>4
  <2>3. r - rank[a] \in 0 .. total_frames /\ r - rank[a] <= r /\ r - (r - rank[a]) = rank[a]
    BY <1>0, <1>8, <2>1, <2>2
  <2> DEFINE k == r - rank[a]
  <2> HIDE DEF k
  <2>4. k \in 0 .. total_frames /\ w[k] \in L /\ ord[w[k]] = o /\ rank[w[k]] = rank[a]
    BY <1>7, <2>1, <2>3 DEF k
  <2>5. w[k] = a
    BY <1>11, <2>4 DEF Links, Ranked
  <2> QED
    BY <2>4, <2>5
<1> QED
  BY <1>9, <1>10, <1>11 DEF w

LEMMA ListedBlocks ==
  ASSUME NEW L, NEW ord, NEW rank, Links(L, ord, rank, free_lists, mem)
  PROVE  \A a, o : <<a, o>> \in Listed <=> a \in L /\ o = ord[a]
<1>1. L \subseteq Frame \ {0} /\ ord \in [Frame -> Order]
  BY DEF Links, LinkedTypes
<1>2. ASSUME NEW a, NEW o, <<a, o>> \in Listed PROVE a \in L /\ o = ord[a]
  <2>1. PICK k \in 0 .. total_frames, p \in Order : <<a, o>> = <<Walk(p)[k], p>>
    BY <1>2 DEF Listed
  <2>2. a = Walk(o)[k] /\ o \in Order
    BY <2>1
  <2>3. a # 0
    BY <1>2, <2>2 DEF Listed
  <2> QED
    BY <2>2, <2>3, WalkMeets
<1>3. ASSUME NEW a \in L PROVE <<a, ord[a]>> \in Listed
  <2>1. ord[a] \in Order /\ a # 0
    BY <1>1
  <2>2. PICK k \in 0 .. total_frames : Walk(ord[a])[k] = a
    BY <2>1, WalkMeets
  <2>3. <<a, ord[a]>> \notin {<<0, o>> : o \in Order}
    BY <2>1
  <2>4. <<a, ord[a]>> \in {<<Walk(o)[k2], o>> : k2 \in 0 .. total_frames, o \in Order}
    BY <2>1, <2>2
  <2> QED
    BY <2>3, <2>4 DEF Listed
<1> QED
  BY <1>2, <1>3, Zenon

LEMMA ListedPairs == \A blk \in Listed : blk = <<blk[1], blk[2]>>
BY DEF Listed

LEMMA InvListsExact == Inv => ListsExact
<1> SUFFICES ASSUME Inv, job = Idle PROVE ListsExact
  BY Zenon DEF ListsExact
<1>1. Limbo(job) = {} /\ Avail(used, job) = Frame \ used
  BY DEF Limbo, Avail
<1>2. Heap(free_lists, mem, Frame \ used) /\ free_frames = Cardinality(Frame \ used)
  BY <1>1 DEF Inv
<1>3. PICK L, ord, rank : Links(L, ord, rank, free_lists, mem) /\ Tiles(L, ord, Frame \ used)
  BY <1>2, Zenon DEF Heap
<1>4. \A a, o : <<a, o>> \in Listed <=> a \in L /\ o = ord[a]
  BY <1>3, ListedBlocks, Zenon
<1>5. \A blk \in Listed : blk = <<blk[1], blk[2]>> /\ blk[1] \in L /\ blk[2] = ord[blk[1]]
  BY <1>4, ListedPairs
<1>6. \A o \in Order : Walk(o)[total_frames] = 0
  BY <1>3, WalkMeets, Zenon
<1>7. ASSUME NEW blk \in Listed
      PROVE  LET prev == mem[blk[1]].prev
             IN  /\ blk[1] % Size[blk[2]] = 0
                 /\ IF prev = 0 THEN free_lists[blk[2]] = blk[1]
                    ELSE <<prev, blk[2]>> \in Listed /\ mem[prev].next = blk[1]
                 /\ blk[2] < MAX_ORDER - 1 => <<BuddyOf(blk[1], blk[2]), blk[2]>> \notin Listed
  <2> DEFINE a == blk[1]
             o == blk[2]
             prev == mem[a].prev
  <2>1. a \in L /\ o = ord[a]
    BY <1>5, Zenon
  <2> HIDE DEF a, o
  <2>2. a % Size[o] = 0
    BY <1>3, <2>1, Zenon DEF Tiles
  <2>3. IF prev = 0 THEN free_lists[o] = a
        ELSE prev \in L /\ ord[prev] = o /\ mem[prev].next = a
    BY <1>3, <2>1, Zenon DEF Links, Backward
  <2>4. IF prev = 0 THEN free_lists[o] = a ELSE <<prev, o>> \in Listed /\ mem[prev].next = a
    <3> HIDE DEF prev
    <3> QED
      BY <1>4, <2>3
  <2>5. o < MAX_ORDER - 1 => <<BuddyOf(a, o), o>> \notin Listed
    BY <1>3, <1>4, <2>1 DEF Tiles
  <2> QED
    BY <2>2, <2>4, <2>5 DEF a, o
<1>8. ASSUME NEW p \in Listed, NEW q \in Listed PROVE p = q \/ FramesOf(p) \cap FramesOf(q) = {}
  <2>1. /\ p = <<p[1], ord[p[1]]>> /\ p[1] \in L
        /\ q = <<q[1], ord[q[1]]>> /\ q[1] \in L
    BY <1>5
  <2>2. CASE p[1] = q[1]
    BY <2>1, <2>2
  <2>3. CASE p[1] # q[1]
    <3>1. FramesOf(<<p[1], ord[p[1]]>>) \cap FramesOf(<<q[1], ord[q[1]]>>) = {}
      BY <1>3, <2>1, <2>3, Zenon DEF Tiles
    <3> QED
      BY <2>1, <3>1
  <2> QED
    BY <2>2, <2>3
<1>9. UNION {FramesOf(blk) : blk \in Listed} = Frame \ used
  <2>1. ASSUME NEW blk \in Listed PROVE FramesOf(blk) \subseteq Frame \ used
    <3>1. blk = <<blk[1], ord[blk[1]]>> /\ blk[1] \in L
      BY <1>5
    <3>2. FramesOf(<<blk[1], ord[blk[1]]>>) \subseteq Frame \ used
      BY <1>3, <3>1, Zenon DEF Tiles
    <3> QED
      BY <3>1, <3>2
  <2>2. ASSUME NEW f \in Frame \ used PROVE \E blk \in Listed : f \in FramesOf(blk)
    <3>1. PICK a \in L : f \in FramesOf(<<a, ord[a]>>)
      BY <1>3, Zenon DEF Tiles
    <3>2. <<a, ord[a]>> \in Listed
      BY <1>4, Zenon
    <3> QED
      BY <3>1, <3>2, Zenon
  <2> QED
    BY <2>1, <2>2
<1> QED
  BY <1>2, <1>6, <1>7, <1>8, <1>9, Zenon DEF ListsExact

\* Between two calls the lists threaded through the free frames are exact: they end,
\* are doubly linked, and hold the frames the bitmap calls free as disjoint aligned
\* blocks, with every pair of buddies merged (free_block and alloc_block).
THEOREM ListsStayExact == Spec => []ListsExact
<1>1. Init => Inv
  BY InvInit
<1>2. Inv /\ [Next]_vars => Inv'
  BY InvStep
<1>3. Inv => ListsExact
  BY InvListsExact
<1> QED
  BY <1>1, <1>2, <1>3, PTL DEF Spec
=============================================================================
