\* Crashes, snapshots, deletions and a rollback, each with writes in between.
SPECIFICATION Spec
CONSTANTS
  fileA = fileA
  fileB = fileB
  Block <- MCBlock
  Name = {fileA, fileB}
  Inode <- MCInode
  Logical <- MCLogical
  Value = {v1, v2}
  MAX_SNAPSHOTS = 2
  MAX_JOURNAL_ENTRIES = 1
  LEAF_ENTRIES = 2
  Scenario <- MCScenario
SYMMETRY Symmetry
INVARIANTS
  TypeOK
  LiveHeld
  
  SnapshotIntact
