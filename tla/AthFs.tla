------------------------------- MODULE AthFs -------------------------------
(***************************************************************************)
(* The copy-on-write core of AthFS, kernel/src/athfs.rs: block allocation, *)
(* reference counts, extent leaves, the undo journal, snapshots, and the   *)
(* recovery that mount runs after a crash.                                 *)
(*                                                                         *)
(* Every operation holds the ATHFS lock from start to end, so operations   *)
(* do not interleave: what can happen between two of an operation's block  *)
(* writes is a crash.  An operation is therefore the sequence of block     *)
(* writes that the code would make from the present disk.  It is computed  *)
(* by operators that thread a record through the code's calls (Put appends *)
(* a write), queued in `pending', and carried out one write at a time;     *)
(* Crash drops what is left of it together with everything in RAM.         *)
(*                                                                         *)
(* A block write is atomic here, and devices do not fail.  Blocks 0 to 8   *)
(* hold metadata, are never allocated or freed, and have no bitmap bit or  *)
(* count in the model.  Directories fit in one block and a file's leaf is  *)
(* a function from logical blocks to physical blocks, 0 for a hole.        *)
(***************************************************************************)
EXTENDS Integers, Sequences, FiniteSets, SequencesExt

CONSTANTS
  Block,                \* data blocks: a set of numbers above 8
  Name,                 \* names of files in the root directory
  Inode,                \* inode numbers that allocate_inode may hand out
  Logical,              \* logical blocks of a file: 0 .. n
  Value,                \* what a data block may hold
  MAX_SNAPSHOTS,        \* slots of the snapshot table (16 in the code)
  MAX_JOURNAL_ENTRIES,  \* slots of the journal (64 in the code)
  LEAF_ENTRIES,         \* extents that fit in a leaf (127 in the code)
  Scenario              \* what may happen: which operations on which names, how
                        \* long files get, and how many snapshots (at a time),
                        \* rollbacks and crashes there are

VARIABLES
  disk,      \* block number -> contents
  sb,        \* the mounted superblock's snapshot_count
  pending,   \* block writes that the operation in progress has yet to make
  mounted,   \* ATHFS is Some
  scenario,  \* the member of Scenario this behaviour belongs to
  crashes,   \* crashes so far
  rollbacks, \* rollbacks so far
  may,       \* contents acceptable if the operation stops here
  must,      \* contents acceptable once it has finished
  frozen     \* slot -> contents of the files when its snapshot was taken

vars == <<disk, sb, pending, mounted, scenario, crashes, rollbacks, may, must, frozen>>

-----------------------------------------------------------------------------
\* Layout and contents.

Superblock == 0
inode_bitmap_block == 1
block_bitmap_block == 2
inode_table_block == 3
refcount_block == 4
snapshot_block == 5
journal_block == 6
root_inode == 0

Slot == 1 .. MAX_SNAPSHOTS
JSlot == 1 .. MAX_JOURNAL_ENTRIES

\* `root' is btree_root; INODE_FLAG_BTREE is set exactly when it is not 0.
\* `direct' is direct_blocks[0], `size' counts blocks (directory entries for
\* the root directory).
DiskInode == [size |-> 0, root |-> 0, direct |-> 0]
SnapshotEntry ==
  [active |-> FALSE, id |-> 0, bitmap |-> 0, root |-> DiskInode, itable |-> 0, ibitmap |-> 0]
JournalEntry == [seq |-> 0, inode |-> 0, idx |-> 0, old |-> 0, new |-> 0]

\* What a data block can hold.
Data(v) == [kind |-> "data", v |-> v]
Leaf(e) == [kind |-> "leaf", ext |-> e]
Dir(es) == [kind |-> "dir", ents |-> es]
Frozen(x) == [kind |-> "frozen", copy |-> x]
Blank == [kind |-> "blank"]

BlockMin(S) == CHOOSE b \in S : \A c \in S : b <= c

-----------------------------------------------------------------------------
(* An operation in progress: the disk as it will be after the writes made  *)
(* so far, those writes, the snapshot_count in RAM, the caller's copy of   *)
(* the inode, the last block allocated or found, the journal slot, the     *)
(* blocks written by write_at, and whether the calls so far succeeded.     *)

Start(d, c, ino) ==
  [d |-> d, w |-> <<>>, sb |-> c, ino |-> ino, b |-> 0, j |-> 0, n |-> 0, ok |-> TRUE]

Put(s, at, v) ==
  [s EXCEPT !.d[at] = v, !.w = Append(@, [at |-> at, val |-> v])]

Fail(s) == [s EXCEPT !.ok = FALSE]

\* The code goes on only if a call has succeeded; else it returns, or cleans up.
Then(s, Step(_)) == IF s.ok THEN Step(s) ELSE s
Attempt(s, Step(_), Cleanup(_)) == IF s.ok THEN Step(s) ELSE Cleanup(s)

bitmap(s) == s.d[block_bitmap_block]
refcount(s) == s.d[refcount_block]
journal(s) == s.d[journal_block]

\* The superblock is flushed here too; only free_blocks has changed in it, which
\* the model does not keep.
allocate_block(s) ==
  LET free == Block \ bitmap(s)
      Take(b) ==
        [Put(Put(s, block_bitmap_block, bitmap(s) \union {b}),
             refcount_block, [refcount(s) EXCEPT ![b] = 1]) EXCEPT !.b = b]
  IN  IF free = {} THEN Fail(s) ELSE Take(BlockMin(free))

free_block(s, b) ==
  IF b \notin Block THEN s
  ELSE LET c == Put(s, block_bitmap_block, bitmap(s) \ {b})
       IN  Put(c, refcount_block, [refcount(c) EXCEPT ![b] = 0])

dec_refcount(s, b) ==
  Put(s, refcount_block, [refcount(s) EXCEPT ![b] = IF @ > 0 THEN @ - 1 ELSE 0])

read_refcount(s, b) == IF b \in Block THEN refcount(s)[b] ELSE 1

write_inode(s, id) ==
  Put(s, inode_table_block, [s.d[inode_table_block] EXCEPT ![id] = s.ino])

\* Release the live reference of a block whose contents have moved.
Release(s, b) ==
  LET d == dec_refcount(s, b)
  IN  IF read_refcount(d, b) = 0 THEN free_block(d, b) ELSE d

-----------------------------------------------------------------------------
\* Extents.

leaf(d, b) ==
  IF b \in Block /\ d[b].kind = "leaf" THEN d[b].ext ELSE [l \in Logical |-> 0]

lookup_extent(d, ino, l) ==
  IF ino.root # 0 THEN leaf(d, ino.root)[l] ELSE IF l = 0 THEN ino.direct ELSE 0

\* Mutant: a shared leaf is written in place.
write_btree_node_in_place(s, e) == Put(s, s.ino.root, Leaf(e))

write_btree_node_cow(s, e) ==
  IF read_refcount(s, s.ino.root) <= 1 THEN Put(s, s.ino.root, Leaf(e))
  ELSE Then(allocate_block(s), LAMBDA a :
         dec_refcount([Put(a, a.b, Leaf(e)) EXCEPT !.ino.root = a.b], s.ino.root))

insert_into_node(s, l, b) ==
  LET e == leaf(s.d, s.ino.root)
      full == Cardinality({k \in Logical : e[k] # 0}) >= LEAF_ENTRIES
  IN  IF e[l] = 0 /\ full THEN Fail(s)
      ELSE write_btree_node_cow(s, [k \in Logical |-> IF k = l THEN b ELSE e[k]])

insert_extent(s, l, b) ==
  LET migrated == [k \in Logical |-> IF k = 0 THEN s.ino.direct ELSE 0]
  IN  IF s.ino.root # 0 THEN insert_into_node(s, l, b)
      ELSE Then(allocate_block(s), LAMBDA a :
             insert_into_node([Put(a, a.b, Leaf(migrated)) EXCEPT !.ino.root = a.b,
                                                                  !.ino.direct = 0], l, b))

-----------------------------------------------------------------------------
\* The journal and the journaled copy-on-write paths.

journal_begin(s, id, l, old, new) ==
  LET empty == {k \in JSlot : journal(s)[k].seq = 0}
      k == BlockMin(empty)
      e == [seq |-> 1, inode |-> id, idx |-> l, old |-> old, new |-> new]
  IN  IF empty = {} THEN Fail(s)
      ELSE [Put(s, journal_block, [journal(s) EXCEPT ![k] = e]) EXCEPT !.j = k]

journal_commit(s, k) ==
  Put(s, journal_block, [journal(s) EXCEPT ![k] = JournalEntry])

cow_diverge_extent_journaled(s, id, l, old, v) ==
  Then(allocate_block(s), LAMBDA a :
    Attempt(journal_begin(a, id, l, old, a.b),
      LAMBDA jb :
        Attempt(insert_extent(Put(jb, a.b, v), l, a.b),
          LAMBDA x : Release(journal_commit(write_inode(x, id), jb.j), old),
          LAMBDA x : Fail(free_block(journal_commit(x, jb.j), a.b))),
      LAMBDA jb : Fail(free_block(jb, a.b))))

\* One turn of write_at's loop: the block to write, then in place or diverged.
WriteBlock(s, id, l, v) ==
  LET Find(e) == IF e # 0 THEN [s EXCEPT !.b = e]
                 ELSE Then(allocate_block(s), LAMBDA a :
                        [insert_extent(a, l, a.b) EXCEPT !.b = a.b])
      Fill(t) == IF read_refcount(t, t.b) > 1
                 THEN cow_diverge_extent_journaled(t, id, l, t.b, v)
                 ELSE Put(t, t.b, v)
      Count(u) == [u EXCEPT !.n = @ + 1,
                            !.ino.size = IF id # root_inode /\ @ <= l THEN l + 1 ELSE @]
  IN  IF s.ok THEN Then(Then(Find(lookup_extent(s.d, s.ino, l)), Fill), Count) ELSE s

\* Mutant: the inode is left in RAM.
write_at_unsaved(d, c, id, l, h, v) ==
  LET s == Start(d, c, d[inode_table_block][id])
  IN  FoldLeft(LAMBDA u, k : WriteBlock(u, id, k, v), s, [k \in 1 .. h - l + 1 |-> l + k - 1])

\* write_at and write_inode_bytes_at over the blocks from l to h.
write_at(d, c, id, l, h, v) ==
  LET s == Start(d, c, d[inode_table_block][id])
      Save(t) == IF t.n > 0 THEN write_inode(t, id) ELSE t
  IN  Save(FoldLeft(LAMBDA u, k : WriteBlock(u, id, k, v), s,
                    [k \in 1 .. h - l + 1 |-> l + k - 1]))

\* cow_write_block on direct_blocks[0], the path of directories.
cow_write_block(s, id, v) ==
  LET old == s.ino.direct
      Move(t, b) == write_inode([Put(t, b, v) EXCEPT !.ino.direct = b], id)
  IN  IF old # 0 /\ read_refcount(s, old) <= 1 THEN Put(s, old, v)
      ELSE Then(allocate_block(s), LAMBDA a :
             IF old = 0 THEN Move(a, a.b)
             ELSE Attempt(journal_begin(a, id, 0, old, a.b),
                    LAMBDA jb : Release(journal_commit(Move(jb, a.b), jb.j), old),
                    LAMBDA jb : Fail(free_block(jb, a.b))))

-----------------------------------------------------------------------------
\* Names.

entries(d, b) == IF b \in Block /\ d[b].kind = "dir" THEN d[b].ents ELSE <<>>

\* find_flat_inode_on: only direct_blocks are searched.  0 when there is none.
find_flat_inode_on(d, it, n) ==
  LET es == entries(d, it[root_inode].direct)
      hits == {k \in DOMAIN es : k <= it[root_inode].size /\ es[k].inode # 0 /\ es[k].name = n}
  IN  IF hits = {} THEN 0 ELSE es[BlockMin(hits)].inode

find_or_create_file_on(d, c, n) ==
  LET it == d[inode_table_block]
      root == it[root_inode]
      free == Inode \ d[inode_bitmap_block]
      id == BlockMin(free)
      s == Put(Start(d, c, DiskInode), inode_bitmap_block, d[inode_bitmap_block] \union {id})
      made == [write_inode(s, id) EXCEPT !.ino = root]
      old == entries(d, root.direct)
      es == [k \in 1 .. root.size + 1 |->
               IF k > root.size THEN [name |-> n, inode |-> id]
               ELSE IF k \in DOMAIN old THEN old[k] ELSE [name |-> n, inode |-> 0]]
  IN  IF free = {} THEN Fail(Start(d, c, root))
      ELSE Then(cow_write_block(made, root_inode, Dir(es)), LAMBDA named :
             write_inode([named EXCEPT !.ino.size = root.size + 1], root_inode))

\* The entry delete_file clears: it reads the directory through its extents.
Entry(d, n) ==
  LET root == d[inode_table_block][root_inode]
      es == entries(d, lookup_extent(d, root, 0))
  IN  {k \in DOMAIN es : k <= root.size /\ es[k].inode # 0 /\ es[k].name = n}

\* delete_file: clear the entry with a write_at on the root directory.
delete_file(d, c, n) ==
  LET root == d[inode_table_block][root_inode]
      es == entries(d, lookup_extent(d, root, 0))
      k == BlockMin(Entry(d, n))
  IN  write_at(d, c, root_inode, 0, 0, Dir([es EXCEPT ![k].inode = 0]))

-----------------------------------------------------------------------------
\* Snapshots.

snapshots(d) == d[snapshot_block]
FreeSlot(d) == {k \in Slot : ~snapshots(d)[k].active}
SlotOf(d, id) == {k \in Slot : snapshots(d)[k].active /\ snapshots(d)[k].id = id}

\* Add n to the count of every block of S, never below 0.
Bump(rc, S, n) ==
  [b \in Block |-> IF b \in S THEN (IF rc[b] + n > 0 THEN rc[b] + n ELSE 0) ELSE rc[b]]

\* Allocate a block and store a frozen copy of x in it.
Store(s, x) == Then(allocate_block(s), LAMBDA a : Put(a, a.b, Frozen(x)))

create_snapshot(d, c) ==
  LET k == BlockMin(FreeSlot(d))
      List(s, e) ==
        [Put(Put(Put(s, refcount_block, Bump(refcount(s), d[block_bitmap_block], 1)),
                 snapshot_block, [snapshots(d) EXCEPT ![k] = e]),
             Superblock, c + 1) EXCEPT !.sb = c + 1]
  IN  Then(Store(Start(d, c, DiskInode), d[block_bitmap_block]), LAMBDA bblk :
        Then(Store(bblk, d[inode_table_block]), LAMBDA itblk :
          Then(Store(itblk, d[inode_bitmap_block]), LAMBDA ibblk :
            List(ibblk, [active |-> TRUE, id |-> c + 1, bitmap |-> bblk.b,
                         itable |-> itblk.b, ibitmap |-> ibblk.b,
                         root |-> d[inode_table_block][root_inode]]))))

\* The bitmap, inode table or inode bitmap that a snapshot kept in block b; when
\* b has been given to someone else since, its bytes are taken for `default'.
Kept(d, b, default) == IF d[b].kind = "frozen" THEN d[b].copy ELSE default

rollback_to_snapshot(d, c, id) ==
  LET e == snapshots(d)[BlockMin(SlotOf(d, id))]
      cur == d[block_bitmap_block]
      snap == Kept(d, e.bitmap, {})
      rc == Bump(Bump(d[refcount_block], cur \ snap, -1), snap \ cur, 1)
      s1 == Put(Start(d, c, DiskInode), refcount_block, rc)
      s2 == Put(s1, block_bitmap_block, snap)
      s3 == Put(s2, inode_table_block, Kept(d, e.itable, d[inode_table_block]))
      s4 == Put(s3, inode_bitmap_block, Kept(d, e.ibitmap, d[inode_bitmap_block]))
  IN  write_inode([s4 EXCEPT !.ino = e.root], root_inode)

\* Mutant: the snapshot's references are kept.
delete_snapshot_kept(d, c, id) ==
  LET k == BlockMin(SlotOf(d, id))
      e == snapshots(d)[k]
      s1 == Start(d, c, DiskInode)
      s2 == free_block(free_block(free_block(s1, e.bitmap), e.itable), e.ibitmap)
      s3 == Put(s2, snapshot_block, [snapshots(d) EXCEPT ![k] = SnapshotEntry])
      n == IF c > 0 THEN c - 1 ELSE 0
  IN  [Put(s3, Superblock, n) EXCEPT !.sb = n]

delete_snapshot(d, c, id) ==
  LET k == BlockMin(SlotOf(d, id))
      e == snapshots(d)[k]
      s1 == Put(Start(d, c, DiskInode), refcount_block,
                Bump(d[refcount_block], Kept(d, e.bitmap, {}), -1))
      s2 == free_block(free_block(free_block(s1, e.bitmap), e.itable), e.ibitmap)
      s3 == Put(s2, snapshot_block, [snapshots(d) EXCEPT ![k] = SnapshotEntry])
      n == IF c > 0 THEN c - 1 ELSE 0
  IN  [Put(s3, Superblock, n) EXCEPT !.sb = n]

-----------------------------------------------------------------------------
\* Recovery: undo every journal entry that was not cleared.

\* Mutant: the new block is freed while the inode still points at it.
Revert_nothing(s, e) == s

\* Point the inode's extent back at the old block if the write had moved it.
Revert(s, e) ==
  LET ino == s.d[inode_table_block][e.inode]
      t == [s EXCEPT !.ino = ino]
      x == insert_extent(t, e.idx, e.old)
  IN  IF ino.root # 0
      THEN IF lookup_extent(s.d, ino, e.idx) = e.new THEN write_inode(x, e.inode) ELSE s
      ELSE IF e.idx = 0 /\ ino.direct = e.new
           THEN write_inode([t EXCEPT !.ino.direct = e.old], e.inode)
           ELSE s

Undo(s, k) ==
  LET e == journal(s)[k]
  IN  IF e.seq = 0 THEN s ELSE free_block(Revert(s, e), e.new)

replay_journal(d, c) ==
  LET s == FoldLeft(Undo, Start(d, c, DiskInode), [k \in JSlot |-> k])
      dirty == \E k \in JSlot : d[journal_block][k].seq # 0
  IN  IF dirty THEN Put(s, journal_block, [k \in JSlot |-> JournalEntry]) ELSE s

-----------------------------------------------------------------------------
(* What a user sees: for every name, <<>> when there is no such file, and  *)
(* else <<contents>>, the sequence of its blocks.  A hole reads as zeros,  *)
(* and a block that is not file data as Garbage.                           *)

Zeros == "zeros"
Garbage == "garbage"

ReadBlock(d, ino, l) ==
  LET b == lookup_extent(d, ino, l)
  IN  IF b = 0 THEN Zeros ELSE IF d[b].kind = "data" THEN d[b].v ELSE Garbage

read_at(d, it, n) ==
  LET id == find_flat_inode_on(d, it, n)
  IN  IF id = 0 THEN <<>>
      ELSE << [k \in 1 .. it[id].size |-> ReadBlock(d, it[id], k - 1)] >>

Contents(d, it) == [n \in Name |-> read_at(d, it, n)]
Live == Contents(disk, disk[inode_table_block])

\* The files as a rollback to the snapshot in slot k would show them.
SnapContents(k) ==
  LET e == snapshots(disk)[k]
  IN  Contents(disk, Kept(disk, e.itable, [i \in Inode \union {root_inode} |-> DiskInode]))

-----------------------------------------------------------------------------
\* Actions.

Idle == mounted /\ pending = <<>>

\* format, with nothing in the file system.
Init ==
  /\ disk = [b \in 0 .. 6 |->
               CASE b = Superblock -> 0
                 [] b = inode_bitmap_block -> {}
                 [] b = block_bitmap_block -> {}
                 [] b = inode_table_block -> [i \in Inode \union {root_inode} |-> DiskInode]
                 [] b = refcount_block -> [c \in Block |-> 0]
                 [] b = snapshot_block -> [k \in Slot |-> SnapshotEntry]
                 [] b = journal_block -> [k \in JSlot |-> JournalEntry]]
            @@ [b \in Block |-> Blank]
  /\ sb = 0
  /\ pending = <<>>
  /\ mounted = TRUE
  /\ scenario \in Scenario
  /\ crashes = 0
  /\ rollbacks = 0
  /\ may = {Live}
  /\ must = {Live}
  /\ frozen = [k \in Slot |-> Live]

\* Queue the writes of an operation that may leave the contents in `stop' when a
\* crash cuts it short, and in `finish' when it ends.
Begin(op, s, stop, finish) ==
  /\ Idle
  /\ op \in scenario.ops
  /\ pending' = s.w
  /\ sb' = s.sb
  /\ may' = IF s.w = <<>> THEN finish ELSE stop
  /\ must' = finish
  /\ UNCHANGED <<disk, mounted, scenario, crashes>>

Create(n) ==
  LET s == find_or_create_file_on(disk, sb, n)
      new == [Live EXCEPT ![n] = << <<>> >>]
  IN  /\ n \in scenario.names
      /\ find_flat_inode_on(disk, disk[inode_table_block], n) = 0
      /\ Begin("create", s, {Live, new}, IF s.ok THEN {new} ELSE {Live})
      /\ UNCHANGED <<rollbacks, frozen>>

\* The contents once the blocks from l up to k, k excluded, hold v.
Written(c, n, l, k, v) ==
  LET old == c[n][1]
      len == IF k > Len(old) THEN k ELSE Len(old)
      new == [i \in 1 .. len |->
                IF i > l /\ i <= k THEN v ELSE IF i <= Len(old) THEN old[i] ELSE Zeros]
  IN  IF k = l THEN c ELSE [c EXCEPT ![n] = <<new>>]

WriteFile(n, l, h, v) ==
  LET id == find_flat_inode_on(disk, disk[inode_table_block], n)
      s == write_at(disk, sb, id, l, h, Data(v))
  IN  /\ id # 0
      /\ h < scenario.length
      /\ l <= disk[inode_table_block][id].size \/ "sparse" \in scenario.ops
      /\ Begin("write", s, {Written(Live, n, l, k, v) : k \in l .. h + 1},
               {Written(Live, n, l, l + s.n, v)})
      /\ UNCHANGED <<rollbacks, frozen>>

DeleteFile(n) ==
  LET s == delete_file(disk, sb, n)
      gone == [Live EXCEPT ![n] = <<>>]
  IN  /\ Entry(disk, n) # {}
      /\ Begin("unlink", s, {Live, gone}, IF s.n = 1 THEN {gone} ELSE {Live})
      /\ UNCHANGED <<rollbacks, frozen>>

snapshot_create ==
  /\ FreeSlot(disk) # {}
  /\ Cardinality(Slot \ FreeSlot(disk)) < scenario.snapshots
  /\ Begin("snapshot", create_snapshot(disk, sb), {Live}, {Live})
  /\ frozen' = [frozen EXCEPT ![BlockMin(FreeSlot(disk))] = Live]
  /\ UNCHANGED rollbacks

snapshot_restore(id) ==
  /\ SlotOf(disk, id) # {}
  /\ rollbacks < scenario.rollbacks
  /\ LET then == frozen[BlockMin(SlotOf(disk, id))]
     IN  Begin("rollback", rollback_to_snapshot(disk, sb, id), {Live, then}, {then})
  /\ rollbacks' = rollbacks + 1
  /\ UNCHANGED frozen

snapshot_delete(id) ==
  /\ SlotOf(disk, id) # {}
  /\ Begin("delete", delete_snapshot(disk, sb, id), {Live}, {Live})
  /\ UNCHANGED <<rollbacks, frozen>>

\* The next block write of the operation in progress reaches the disk.
write_block ==
  /\ pending # <<>>
  /\ disk' = [disk EXCEPT ![Head(pending).at] = Head(pending).val]
  /\ pending' = Tail(pending)
  /\ may' = IF Tail(pending) = <<>> THEN must ELSE may
  /\ UNCHANGED <<sb, mounted, scenario, crashes, rollbacks, must, frozen>>

Crash ==
  /\ mounted
  /\ crashes < scenario.crashes
  /\ mounted' = FALSE
  /\ pending' = <<>>
  /\ sb' = 0
  /\ crashes' = crashes + 1
  /\ must' = may
  /\ UNCHANGED <<disk, scenario, rollbacks, may, frozen>>

\* mount: read the superblock, then undo what the journal still holds.
mount ==
  /\ ~mounted
  /\ mounted' = TRUE
  /\ sb' = disk[Superblock]
  /\ pending' = replay_journal(disk, disk[Superblock]).w
  /\ UNCHANGED <<disk, scenario, crashes, rollbacks, may, must, frozen>>

Next ==
  \/ \E n \in Name : Create(n)
  \/ \E n \in Name, l, h \in Logical, v \in Value : l <= h /\ WriteFile(n, l, h, v)
  \/ \E n \in Name : DeleteFile(n)
  \/ snapshot_create
  \/ \E id \in 1 .. MAX_SNAPSHOTS + 1 : snapshot_restore(id)
  \/ \E id \in 1 .. MAX_SNAPSHOTS + 1 : snapshot_delete(id)
  \/ write_block
  \/ Crash
  \/ mount

Spec == Init /\ [][Next]_vars

-----------------------------------------------------------------------------
\* Properties.

\* The blocks of metadata hold what they should: used blocks and counts are of data
\* blocks, pointers lead to data blocks or nowhere, and nothing is written while
\* the file system is not mounted.
TypeOK ==
  /\ disk[Superblock] \in 0 .. MAX_SNAPSHOTS + 1 + crashes
  /\ disk[inode_bitmap_block] \subseteq Inode
  /\ disk[block_bitmap_block] \subseteq Block
  /\ \A i \in DOMAIN disk[inode_table_block] :
       /\ disk[inode_table_block][i].size \in 0 .. Cardinality(Logical)
       /\ {disk[inode_table_block][i].root, disk[inode_table_block][i].direct} \subseteq Block \union {0}
  /\ disk[refcount_block] \in [Block -> 0 .. MAX_SNAPSHOTS + 1 + crashes]
  /\ \A k \in Slot \ FreeSlot(disk) :
       {snapshots(disk)[k].bitmap, snapshots(disk)[k].itable, snapshots(disk)[k].ibitmap} \subseteq Block
  /\ \A k \in JSlot : {journal([d |-> disk])[k].old, journal([d |-> disk])[k].new} \subseteq Block \union {0}
  /\ \A b \in Block : disk[b].kind \in {"blank", "data", "leaf", "dir", "frozen"}
  /\ mounted \in BOOLEAN
  /\ ~mounted => pending = <<>>

\* Whenever no operation is running, the files hold what the operations so far
\* promised: a finished operation has had its effect (write_at exactly for the
\* blocks it counted in its return value, a rollback the contents frozen by the
\* snapshot), one that a crash cut short has had it for some of its blocks or
\* not at all, and nothing else has changed, whatever blocks were reallocated.
LiveIntact == Idle => Live \in must

\* Where the files keep their blocks: <<inode, logical block, block>>, with -1 for
\* the leaf itself.
Pointers ==
  LET it == disk[inode_table_block]
      ids == {root_inode} \union {find_flat_inode_on(disk, it, n) : n \in Name}
      ps == {<<i, l, lookup_extent(disk, it[i], l)>> : i \in ids, l \in Logical}
            \union {<<i, -1, it[i].root>> : i \in ids}
  IN  {p \in ps : p[3] # 0}

\* Whenever no operation is running, every block a file points at is marked used and
\* counted, so that allocate_block cannot hand it out, and no two pointers of the
\* live files meet in one block; a replay that frees the speculative block of a
\* torn write must have moved the pointer off it first.
LiveHeld ==
  Idle => /\ \A p \in Pointers : /\ p[3] \in disk[block_bitmap_block]
                                 /\ disk[refcount_block][p[3]] > 0
          /\ \A p, q \in Pointers : p[3] = q[3] => p = q

\* "Freeze the current filesystem state": until the first rollback, every active
\* snapshot shows the files as they were when it was taken, whatever copy-on-write
\* has done since, and whatever write a crash has torn.
SnapshotKept ==
  Idle /\ rollbacks = 0 =>
    \A k \in Slot \ FreeSlot(disk) : SnapContents(k) = frozen[k]

\* The same until the first crash.
SnapshotIntact == crashes = 0 => SnapshotKept

\* Blocks that some active snapshot needs: its own copies and those it froze.
SnapBlocks ==
  UNION {{snapshots(disk)[k].bitmap, snapshots(disk)[k].itable, snapshots(disk)[k].ibitmap}
           \union Kept(disk, snapshots(disk)[k].bitmap, {}) : k \in Slot \ FreeSlot(disk)}

\* Without crashes and rollbacks, a block stays marked used only while the files or
\* a snapshot need it.
Reclaimed ==
  Idle /\ crashes = 0 /\ rollbacks = 0 =>
    disk[block_bitmap_block] \subseteq {p[3] : p \in Pointers} \union SnapBlocks
=============================================================================
