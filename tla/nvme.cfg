\* Rings of three slots, three commands that complete late.
SPECIFICATION Spec
CONSTANTS
  entries = 3
  Lba = {l1}
  Value = {v1, v2}
  MaxTimeouts = 3
SYMMETRY Symmetry
INVARIANTS
  TypeOK
  PhaseExact
  SlotsKept
  NoPhantomFill
  AnswerTrueInTime
