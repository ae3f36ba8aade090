\* Two CPUs, two tasks, sub-ranges and exits: what a chain of grants can hold.
SPECIFICATION Spec
CONSTANTS
  Task = {a, b}
  Mortal = {b}
  READ = READ
  GRANT = GRANT
  Right = {READ, GRANT}
  RangeFlavor = {"Mmio"}
  ExactFlavor = {"Channel"}
  AddrMax = 4
  RootCap <- MCRootCaps
  Seeded = {a}
  Offset = {0, 1}
  Length = {0, 1, 4}
  NCpu = 2
  MaxHandle = 2
  None = None
INVARIANTS
  TypeOK
  NoAmplification
