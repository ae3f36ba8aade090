\* A deadline task, a Normal task and one that changes its class.
SPECIFICATION FairSpec
CONSTANTS
  edf = edf
  Task = {edf, m, n}
  Games = {edf}
  Deadlined = {edf}
  Movable = {m}
  MaxChange = 1
  period_us <- MCPeriod
  deadline_us <- MCDeadline
  DL_STARVATION_LIMIT = 2
  THROTTLE_RATIO = 2
  MAX_VRUNTIME = 1
  MaxAge = 3
  MaxCredit = 1
  None = None
INVARIANTS
  TypeOK
  QueuesSorted
PROPERTIES
  NormalServed
  DeadlineServed
