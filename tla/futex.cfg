\* One CPU: three tasks share a word, and one of them joins another.
SPECIFICATION FairSpec
CONSTANTS
  t1 = t1
  t2 = t2
  t3 = t3
  Task = {t1, t2, t3}
  Word = {"f"}
  Tid <- MCTid
  Joiner <- MCJoiner
  NCpu = 1
  MaxStray = 1
INVARIANTS
  TypeOK
  NoStrandedWaiter

  
CHECK_DEADLOCK FALSE
