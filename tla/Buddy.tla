------------------------------- MODULE Buddy -------------------------------
(***************************************************************************)
(* The buddy allocator of kernel/src/memory/buddy.rs with the callers in   *)
(* kernel/src/memory.rs.  A call holds BUDDY_ALLOCATORS from its start to  *)
(* its end: `job' is the call in progress, whose loops take a step per     *)
(* turn, and the next call begins when it is done.  Addresses are frame    *)
(* numbers.  The free lists are linked through the free frames themselves: *)
(* `mem' holds the first two words of every frame, which are a list node   *)
(* while a free block starts there and whatever the last holder wrote      *)
(* otherwise.                                                              *)
(***************************************************************************)
EXTENDS Integers, Sequences, FiniteSets

CONSTANTS
  total_frames,
  MAX_ORDER,     \* 12 in the code
  Ranges,        \* the sequence of <<start, end>> given to add_range
  Junk           \* nodes that the bytes left behind by a holder may look like

\* The memory map lists usable regions once, total_frames ends the last of them, and
\* the boot allocator's cursor has passed frame 0.
ASSUME BuddyAssumption ==
  /\ total_frames \in Nat \ {0} /\ MAX_ORDER \in Nat \ {0}
  /\ Ranges \in Seq(Nat \X Nat)
  /\ \A i \in DOMAIN Ranges : 0 < Ranges[i][1] /\ Ranges[i][2] <= total_frames
  /\ \A i, j \in DOMAIN Ranges :
       i # j => (Ranges[i][1] .. Ranges[i][2] - 1) \cap (Ranges[j][1] .. Ranges[j][2] - 1) = {}
  /\ Junk \subseteq [next : Nat, prev : Nat]

VARIABLES
  free_lists,   \* the heads, by order; 0 ends a list
  used,         \* the frames whose bit is set in the bitmap
  free_frames,
  mem,
  ranges,       \* what init_buddy_allocator has still to add
  job,          \* the call in progress
  held,         \* blocks in the hands of callers: <<first frame, order>>
  reply         \* answer to the last call: <<order, first frame>>, 0 for None

vars == <<free_lists, used, free_frames, mem, ranges, job, held, reply>>

NoReply == <<0, 0>>  \* of a call that returns nothing
Idle == [pc |-> "idle"]

Frame == 0 .. total_frames - 1
Order == 0 .. MAX_ORDER - 1

\* 1 << order
Size[o \in 0 .. MAX_ORDER] == IF o = 0 THEN 1 ELSE 2 * Size[o - 1]
FramesOf(blk) == blk[1] .. blk[1] + Size[blk[2]] - 1

\* Everything starts out used, and the lists are empty.
new ==
  /\ free_lists = [o \in Order |-> 0]
  /\ used = Frame
  /\ free_frames = 0

\* init_buddy_allocator, before it adds the ranges.
Init ==
  /\ new
  /\ mem = [f \in Frame |-> [next |-> 0, prev |-> 0]]
  /\ ranges = Ranges
  /\ job = Idle
  /\ held = {}
  /\ reply = NoReply

-----------------------------------------------------------------------------
\* Lists and the bitmap.

push_to_list(a, o) ==
  LET next == free_lists[o] IN
  /\ free_lists' = [free_lists EXCEPT ![o] = a]
  /\ mem' = [f \in Frame |->
       [next |-> IF f = a THEN next ELSE mem[f].next,
        prev |-> IF f = next /\ next # 0 THEN a ELSE IF f = a THEN 0 ELSE mem[f].prev]]

pop_from_list(a, o) ==
  LET next == mem[a].next
      prev == mem[a].prev
  IN  /\ free_lists' = IF prev = 0 THEN [free_lists EXCEPT ![o] = next] ELSE free_lists
      /\ mem' = [f \in Frame |->
           [next |-> IF f = prev /\ prev # 0 THEN next ELSE mem[f].next,
            prev |-> IF f = next /\ next # 0 THEN prev ELSE mem[f].prev]]

\* Mutant: only the first frame is looked at.
is_block_free_base(a, o) == a \in Frame \ used

is_block_free(a, o) == FramesOf(<<a, o>>) \subseteq Frame \ used

block_on_free_list(a, o) ==
  /\ is_block_free(a, o)
  /\ mem[a].next \in Frame
  /\ mem[a].prev \in Frame
  /\ IF mem[a].prev = 0 THEN free_lists[o] = a ELSE mem[mem[a].prev].next = a

-----------------------------------------------------------------------------
\* free_block.

\* addr ^ (1 << order), in frames.
BuddyOf(a, o) == IF (a \div Size[o]) % 2 = 0 THEN a + Size[o] ELSE a - Size[o]

\* Mutant: a block that is free already is put on a list again.
free_block_twice(a, o) ==
  /\ free_frames' = free_frames + Size[o]
  /\ job' = [pc |-> "merge", a |-> a, o |-> o]

\* Up to its loop.
free_block(a, o) ==
  IF is_block_free(a, o) THEN UNCHANGED <<free_frames, job>>
  ELSE /\ free_frames' = free_frames + Size[o]
       /\ job' = [pc |-> "merge", a |-> a, o |-> o]

MergeWith(other) ==
  /\ job.o < MAX_ORDER - 1
  /\ block_on_free_list(other, job.o)

\* A turn of the loop.
merge ==
  LET other == BuddyOf(job.a, job.o) IN
  /\ job.pc = "merge"
  /\ MergeWith(other)
  /\ pop_from_list(other, job.o)
  /\ job' = [pc |-> "merge", a |-> IF other < job.a THEN other ELSE job.a, o |-> job.o + 1]
  /\ UNCHANGED <<used, free_frames, ranges, held, reply>>

\* After the loop.
link ==
  /\ job.pc = "merge"
  /\ ~MergeWith(BuddyOf(job.a, job.o))
  /\ push_to_list(job.a, job.o)
  /\ used' = used \ FramesOf(<<job.a, job.o>>)
  /\ job' = Idle
  /\ UNCHANGED <<free_frames, ranges, held, reply>>

-----------------------------------------------------------------------------
\* alloc_block.

\* The list it takes from: the first that is not empty, MAX_ORDER if none.
Source(order) ==
  LET os == {o \in Order : o >= order /\ free_lists[o] # 0}
  IN  IF os = {} THEN MAX_ORDER ELSE CHOOSE o \in os : \A p \in os : o <= p

\* Up to its inner loop.
alloc_block(order) ==
  LET o == Source(order) IN
  IF o = MAX_ORDER
  THEN /\ reply' = <<order, 0>>
       /\ UNCHANGED <<free_lists, mem, job>>
  ELSE /\ pop_from_list(free_lists[o], o)
       /\ job' = [pc |-> "split", a |-> free_lists[o], o |-> o, order |-> order]
       /\ UNCHANGED reply

\* Mutant: the upper half is given up.
split_lost ==
  /\ job.pc = "split"
  /\ job.o > job.order
  /\ job' = [job EXCEPT !.o = job.o - 1]
  /\ UNCHANGED <<free_lists, mem, used, free_frames, ranges, held, reply>>

\* A turn of the loop: the upper half goes on a list.
split ==
  /\ job.pc = "split"
  /\ job.o > job.order
  /\ push_to_list(job.a + Size[job.o - 1], job.o - 1)
  /\ job' = [job EXCEPT !.o = job.o - 1]
  /\ UNCHANGED <<used, free_frames, ranges, held, reply>>

\* After the loop.  The new holder overwrites its frames with something, some time
\* before it returns them; nothing reads them until then.
grant ==
  LET blk == <<job.a, job.order>> IN
  /\ job.pc = "split"
  /\ job.o = job.order
  /\ used' = used \union (FramesOf(blk) \cap Frame)
  /\ free_frames' = free_frames - Size[job.order]
  /\ \E junk \in Junk :
       mem' = [f \in Frame |-> IF f \in FramesOf(blk) THEN junk ELSE mem[f]]
  /\ held' = held \union {blk}
  /\ reply' = <<job.order, job.a>>
  /\ job' = Idle
  /\ UNCHANGED <<free_lists, ranges>>

-----------------------------------------------------------------------------
\* Calls.

\* The order of the block add_range frees at a: the largest that is aligned and fits.
Fits(a, o, end) == a % Size[o] = 0 /\ a + Size[o] <= end
BlockOrder(a, end) ==
  CHOOSE o \in Order : /\ \A p \in 1 .. o : Fits(a, p, end)
                       /\ o = MAX_ORDER - 1 \/ ~Fits(a, o + 1, end)

\* A turn of the loop of add_range, or the return from it.
add_range ==
  LET a == ranges[1][1]
      end == ranges[1][2]
      o == BlockOrder(a, end)
  IN  /\ job = Idle
      /\ ranges # <<>>
      /\ IF a >= end \/ a >= total_frames
         THEN /\ ranges' = Tail(ranges)
              /\ UNCHANGED <<free_frames, job>>
         ELSE /\ ranges' = [ranges EXCEPT ![1] = <<a + Size[o], end>>]
              /\ free_block(a, o)
      /\ UNCHANGED <<free_lists, used, mem, held, reply>>

\* The lock is free, and init_buddy_allocator has returned.
Callable == job = Idle /\ ranges = <<>>

allocate_contiguous_frames(order) ==
  /\ Callable
  /\ alloc_block(order)
  /\ UNCHANGED <<used, free_frames, ranges, held>>

deallocate_contiguous_frames(blk) ==
  /\ Callable
  /\ free_block(blk[1], blk[2])
  /\ held' = held \ {blk}
  /\ reply' = NoReply
  /\ UNCHANGED <<free_lists, used, mem, ranges>>

\* Its holder will return a block in two halves.
Halve(blk) ==
  /\ blk[2] > 0
  /\ held' = (held \ {blk}) \union {<<blk[1], blk[2] - 1>>,
                                     <<blk[1] + Size[blk[2] - 1], blk[2] - 1>>}
  /\ reply' = NoReply
  /\ UNCHANGED <<free_lists, used, free_frames, mem, ranges, job>>

\* A block is returned once more while all of it is free.
DoubleFree(a, o) ==
  /\ Callable
  /\ a % Size[o] = 0
  /\ is_block_free(a, o)
  /\ free_block(a, o)
  /\ reply' = NoReply
  /\ UNCHANGED <<free_lists, used, mem, ranges, held>>

Next ==
  \/ add_range \/ merge \/ link \/ split \/ grant
  \/ \E o \in 0 .. MAX_ORDER : allocate_contiguous_frames(o)
  \/ \E blk \in held : deallocate_contiguous_frames(blk)
  \/ \E blk \in held : Halve(blk)
  \/ \E a \in Frame, o \in Order : DoubleFree(a, o)

Spec == Init /\ [][Next]_vars

-----------------------------------------------------------------------------
\* Properties.

\* List heads, bitmap and count stay in range, a call in progress works on a block of
\* a usable order, and callers hold such blocks.
TypeOK ==
  /\ free_lists \in [Order -> Frame]
  /\ used \subseteq Frame
  /\ free_frames \in 0 .. total_frames
  /\ mem \in [Frame -> [next : Nat, prev : Nat]]
  /\ job # Idle => job.o \in Order /\ FramesOf(<<job.a, job.o>>) \subseteq Frame
  /\ \A blk \in held : blk[2] \in Order /\ FramesOf(blk) \subseteq Frame

\* The frames met when following a list for as long as there are frames.
Walk(o) ==
  LET at[k \in 0 .. total_frames] ==
        IF k = 0 THEN free_lists[o]
        ELSE IF at[k - 1] = 0 THEN 0 ELSE mem[at[k - 1]].next
  IN  at

Listed == {<<Walk(o)[k], o>> : k \in 0 .. total_frames, o \in Order} \ {<<0, o>> : o \in Order}

\* Splitting, merging and unlinking through nodes kept in the free frames never go
\* wrong.  Between two calls every list ends and is doubly linked, its blocks are
\* aligned to their order and disjoint, together they are exactly the frames the
\* bitmap calls free, free_frames counts those, and no two free buddies are left
\* unmerged.
ListsExact ==
  job = Idle =>
    /\ \A o \in Order : Walk(o)[total_frames] = 0
    /\ \A blk \in Listed :
         LET prev == mem[blk[1]].prev
         IN  /\ blk[1] % Size[blk[2]] = 0
             /\ IF prev = 0 THEN free_lists[blk[2]] = blk[1]
                ELSE <<prev, blk[2]>> \in Listed /\ mem[prev].next = blk[1]
             /\ blk[2] < MAX_ORDER - 1 => <<BuddyOf(blk[1], blk[2]), blk[2]>> \notin Listed
    /\ \A p, q \in Listed : p = q \/ FramesOf(p) \cap FramesOf(q) = {}
    /\ UNION {FramesOf(blk) : blk \in Listed} = Frame \ used
    /\ free_frames = Cardinality(Frame \ used)

\* The callers see an allocator that grants aligned blocks nobody else holds and
\* refuses only when there is none: no order of calls loses a frame, splits one
\* away for good or hands it out twice.
Abstract == INSTANCE Frames WITH
  Usable <- UNION {Ranges[k][1] .. Ranges[k][2] - 1 : k \in DOMAIN Ranges}
ImplementsFrames == Abstract!Spec
=============================================================================
