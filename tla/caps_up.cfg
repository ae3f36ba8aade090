\* One CPU, three tasks that may exit.
SPECIFICATION Spec
CONSTANTS
  Task = {a, b, d}
  Mortal = {b, d}
  READ = READ
  GRANT = GRANT
  Right = {GRANT}
  RangeFlavor = {"Mmio"}
  ExactFlavor = {"Channel"}
  AddrMax = 4
  RootCap <- MCRootCap
  Seeded = {a}
  Offset = {0}
  Length = {0}
  NCpu = 1
  MaxHandle = 2
  None = None
SYMMETRY TaskSymmetry
INVARIANTS
  ParentHeld
