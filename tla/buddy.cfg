\* Eight frames, orders 0 to 2, a hole, and frame 0 left out.
SPECIFICATION Spec
CONSTANTS
  total_frames = 8
  MAX_ORDER = 3
  Ranges <- MCRanges
  Junk <- MCJunk
INVARIANTS
  TypeOK
  ListsExact

  
