\* Two CPUs, two tasks: the context-switch protocol under every interleaving.
SPECIFICATION FairSpec
CONSTANTS
  Cpu = {c0, c1}
  Bsp = c0
  Task = {t1, t2}
  Event = {e}
  None = None
INVARIANTS
  TypeOK
  OneOwner
  StackSafety
  QueuedReady
  IdleReady
PROPERTIES
  NoLostWake
  ParentWoken
