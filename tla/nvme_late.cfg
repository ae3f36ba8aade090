\* Two sectors, two commands that complete late.
SPECIFICATION Spec
CONSTANTS
  entries = 3
  Lba = {l1, l2}
  Value = {v1, v2}
  MaxTimeouts = 2
SYMMETRY Symmetry
INVARIANTS
  AnswerTrue
