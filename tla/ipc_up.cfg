\* One CPU, two tasks and the interrupt, two messages told apart.
SPECIFICATION Spec
CONSTANTS
  user_init = user_init
  Task = {user_init, b}
  Irq = Irq
  Pinned = {user_init}
  Writers = {b}
  Creators = {b}
  RootChan <- MCRootChan
  Msg = {m1, m2}
  NoMsg = NoMsg
  IPC_BUFFER_SIZE = 2
  MaxChan = 2
  NCpu = 1
SYMMETRY Symmetry
INVARIANTS
  TypeOK
  NoLostWakeup
PROPERTIES
  ImplementsFifo
