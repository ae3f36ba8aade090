\* A snapshot, a write that a crash tears, and another write.
SPECIFICATION Spec
CONSTANTS
  fileA = fileA
  fileB = fileB
  Block <- MCBlock
  Name = {fileA, fileB}
  Inode <- MCInode
  Logical <- MCLogical
  Value = {v1, v2}
  MAX_SNAPSHOTS = 2
  MAX_JOURNAL_ENTRIES = 1
  LEAF_ENTRIES = 2
  Scenario <- MCTorn
SYMMETRY Symmetry
INVARIANTS
  SnapshotKept
