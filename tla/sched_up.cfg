\* One CPU, three tasks: sys_wait and kill without a second CPU to race them.
SPECIFICATION Spec
CONSTANTS
  Cpu = {c0}
  Bsp = c0
  Task = {t1, t2, t3}
  Event = {e}
  None = None
SYMMETRY TaskSymmetry
INVARIANTS
  NoForgottenParent
PROPERTIES
  NoResurrection
