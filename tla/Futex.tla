------------------------------- MODULE Futex -------------------------------
(***************************************************************************)
(* The futex table (kernel/src/sync.rs) with its system calls: the native  *)
(* SYS_FUTEX that blocks and is re-executed on wake, and the Linux call    *)
(* that registers and yields once (kernel/src/linux_syscall.rs).  Blocking *)
(* is one step: Sched shows that the wake paths find a task that has begun *)
(* to block.  A call between two critical sections holds its CPU, so at    *)
(* most NCpu tasks are inside one; on one CPU a call is not interrupted.   *)
(* FUTEX_MANAGER stays locked while a wake unblocks the tasks it drained.  *)
(***************************************************************************)
EXTENDS Integers, Sequences, FiniteSets, SequencesExt

CONSTANTS
  Task,
  Word,       \* physical addresses of ordinary futex words
  Tid,        \* Tid[t]: the clear_child_tid word of t
  Joiner,     \* Joiner[t]: the task that may join t
  NCpu,
  MaxStray    \* bound on the wakes by task id that have another cause

ASSUME FutexAssumption == IsFiniteSet(Task) /\ NCpu \in Nat \ {0} /\ MaxStray \in Nat

VARIABLES
  word,           \* the value of every futex word
  waiting_tasks,  \* per word, the waiters in FIFO order
  pc,             \* what a task is doing
  want,           \* the word a wait is for, with the value it expects
  todo,           \* the drained tasks a wake has still to unblock
  strays

vars == <<word, waiting_tasks, pc, want, todo, strays>>

Tids == {Tid[t] : t \in Task}
Key == Word \union Tids
Value == {0, 1}

\* A tid word is 1 until its task exits.
Init ==
  /\ word = [a \in Key |-> IF a \in Tids THEN 1 ELSE 0]
  /\ waiting_tasks = [a \in Key |-> <<>>]
  /\ pc = [t \in Task |-> "user"]
  /\ want = [t \in Task |-> <<CHOOSE a \in Key : TRUE, 0>>]
  /\ todo = [t \in Task |-> <<>>]
  /\ strays = 0

InCall == {t \in Task : pc[t] \in {"prepared", "clearing", "waking", "leaving"}}
FreeCpu(t) == Cardinality(InCall \ {t}) < NCpu
TableFree == \A t \in Task : pc[t] \notin {"waking", "leaving"}

\* Whoever may wait on a word: anyone, or the joiner of the task whose tid it is.
May(t, a) == a \in Word \/ \E u \in Task \ {t} : Tid[u] = a /\ Joiner[u] = t

-----------------------------------------------------------------------------
\* The table.

register(a, t) == waiting_tasks' = [waiting_tasks EXCEPT ![a] = Append(@, t)]

drain(a, count) ==
  LET n == IF count < Len(waiting_tasks[a]) THEN count ELSE Len(waiting_tasks[a])
  IN  SubSeq(waiting_tasks[a], 1, n)

\* Mutant: whoever is first in the queue is removed.
deregister_first(a, t) ==
  IF waiting_tasks[a] = <<>> THEN UNCHANGED waiting_tasks
  ELSE waiting_tasks' = [waiting_tasks EXCEPT ![a] = Tail(@)]

deregister(a, t) ==
  LET at == {i \in DOMAIN waiting_tasks[a] : waiting_tasks[a][i] = t}
  IN  IF at = {} THEN UNCHANGED waiting_tasks
      ELSE waiting_tasks' = [waiting_tasks EXCEPT ![a] =
             RemoveAt(@, CHOOSE i \in at : \A j \in at : i <= j)]

\* Compare and register under one hold of the table; `parked' is what follows.
wait(a, val, t, parked) ==
  IF word[a] = val
  THEN register(a, t) /\ pc' = [pc EXCEPT ![t] = parked]
  ELSE pc' = [pc EXCEPT ![t] = "user"] /\ UNCHANGED waiting_tasks

-----------------------------------------------------------------------------
\* User code.

Store(t, a, v) ==
  /\ pc[t] = "user" /\ FreeCpu(t)
  /\ word' = [word EXCEPT ![a] = v]
  /\ UNCHANGED <<waiting_tasks, pc, want, todo, strays>>

\* System calls.

futex_prepare_wait(t, a, v) ==
  /\ pc[t] \in {"user", "retry"}
  /\ pc[t] = "retry" => want[t] = <<a, v>>
  /\ FreeCpu(t) /\ TableFree
  /\ want' = [want EXCEPT ![t] = <<a, v>>]
  /\ wait(a, v, t, "prepared")
  /\ UNCHANGED <<word, todo, strays>>

\* block_current_task(BlockedOnFutex); on wake the call is executed again.
block_current_task(t) ==
  /\ pc[t] = "prepared"
  /\ pc' = [pc EXCEPT ![t] = "asleep"]
  /\ UNCHANGED <<word, waiting_tasks, want, todo, strays>>

futex_wait(t, a, v) ==
  /\ pc[t] = "user" /\ FreeCpu(t) /\ TableFree
  /\ want' = [want EXCEPT ![t] = <<a, v>>]
  /\ wait(a, v, t, "yielded")
  /\ UNCHANGED <<word, todo, strays>>

\* The rest of futex_wait, when yield_task returns.
futex_wait_yielded(t) ==
  /\ pc[t] = "yielded" /\ FreeCpu(t) /\ TableFree
  /\ deregister(want[t][1], t)
  /\ pc' = [pc EXCEPT ![t] = "user"]
  /\ UNCHANGED <<word, want, todo, strays>>

\* Mutant: the lock is kept although nobody waits.
Drain_kept(t, a, count, with, without) ==
  LET drained == drain(a, count)
  IN  /\ waiting_tasks' = [waiting_tasks EXCEPT
           ![a] = SubSeq(@, Len(drained) + 1, Len(@))]
      /\ todo' = [todo EXCEPT ![t] = drained]
      /\ pc' = [pc EXCEPT ![t] = with]

\* Take up to count waiters off the queue; the lock is kept until all are unblocked.
Drain(t, a, count, with, without) ==
  LET drained == drain(a, count)
  IN  /\ waiting_tasks' = [waiting_tasks EXCEPT
           ![a] = SubSeq(@, Len(drained) + 1, Len(@))]
      /\ todo' = [todo EXCEPT ![t] = drained]
      /\ pc' = [pc EXCEPT ![t] = IF drained = <<>> THEN without ELSE with]

futex_wake(t, a, count) ==
  /\ pc[t] = "user" /\ FreeCpu(t) /\ TableFree
  /\ Drain(t, a, count, "waking", "user")
  /\ UNCHANGED <<word, want, strays>>

unblock_futex_waiter(t) ==
  /\ pc[t] \in {"waking", "leaving"}
  /\ todo' = [todo EXCEPT ![t] = Tail(@)]
  /\ LET p == Head(todo[t])
         done == IF pc[t] = "waking" THEN "user" ELSE "gone"
     IN  pc' = [u \in Task |->
           IF u = p /\ pc[p] = "asleep" THEN "retry"
           ELSE IF u = t /\ Len(todo[t]) = 1 THEN done ELSE pc[u]]
  /\ UNCHANGED <<word, waiting_tasks, want, strays>>

\* Mutant: the tid word is cleared and nobody is woken.
clear_child_tid_wake_none(t) ==
  /\ pc[t] = "clearing" /\ TableFree
  /\ pc' = [pc EXCEPT ![t] = "gone"]
  /\ UNCHANGED <<word, waiting_tasks, want, todo, strays>>

\* clear_child_tid_on_exit: the word is zeroed, then one waiter is woken.
clear_child_tid_store(t) ==
  /\ pc[t] = "user" /\ FreeCpu(t)
  /\ word' = [word EXCEPT ![Tid[t]] = 0]
  /\ pc' = [pc EXCEPT ![t] = "clearing"]
  /\ UNCHANGED <<waiting_tasks, want, todo, strays>>

clear_child_tid_wake(t) ==
  /\ pc[t] = "clearing" /\ TableFree
  /\ Drain(t, Tid[t], 1, "leaving", "gone")
  /\ UNCHANGED <<word, want, strays>>

\* kill_task of a task that is not on a CPU: dropped, and left in the table.
kill_parked(t, victim) ==
  /\ pc[t] = "user" /\ FreeCpu(t) /\ t # victim
  /\ pc[victim] \in {"asleep", "retry", "yielded"}
  /\ pc' = [pc EXCEPT ![victim] = "gone"]
  /\ UNCHANGED <<word, waiting_tasks, want, todo, strays>>

\* wake_thread, from outside the table (a GPU fence, a PCIe error).
wake_thread(t) ==
  /\ strays < MaxStray
  /\ strays' = strays + 1
  /\ pc[t] = "asleep"
  /\ pc' = [pc EXCEPT ![t] = "retry"]
  /\ UNCHANGED <<word, waiting_tasks, want, todo>>

Next ==
  \E t \in Task :
    \/ \E a \in Word, v \in Value : Store(t, a, v)
    \/ \E a \in Key, v \in Value :
         May(t, a) /\ (a \in Tids => v = 1)
         /\ (futex_prepare_wait(t, a, v) \/ futex_wait(t, a, v))
    \/ block_current_task(t)
    \/ futex_wait_yielded(t)
    \/ \E a \in Word, count \in 1 .. 2 : futex_wake(t, a, count)
    \/ unblock_futex_waiter(t)
    \/ clear_child_tid_store(t)
    \/ clear_child_tid_wake(t)
    \/ \E u \in Task : kill_parked(t, u)
    \/ wake_thread(t)

Spec == Init /\ [][Next]_vars

(***************************************************************************)
(* A call that has begun goes on: interrupts are off and the locks it      *)
(* waits for are held for a bounded time.                                  *)
(***************************************************************************)
FairSpec ==
  /\ Spec
  /\ \A t \in Task :
       /\ WF_vars(block_current_task(t))
       /\ WF_vars(unblock_futex_waiter(t))
       /\ SF_vars(clear_child_tid_wake(t))

-----------------------------------------------------------------------------
\* Properties.

\* Every variable has its type, and the table is locked by a wake exactly as long as
\* that has drained waiters to unblock.
TypeOK ==
  /\ word \in [Key -> Value]
  /\ waiting_tasks \in [Key -> Seq(Task)]
  /\ pc \in [Task -> {"user", "retry", "prepared", "asleep", "yielded", "waking",
                      "clearing", "leaving", "gone"}]
  /\ want \in [Task -> Key \X Value]
  /\ todo \in [Task -> Seq(Task)]
  /\ \A t \in Task : (todo[t] # <<>>) <=> pc[t] \in {"waking", "leaving"}

Queued(t, a) == \E i \in DOMAIN waiting_tasks[a] : waiting_tasks[a][i] = t
Drained(t) == \E u \in Task : \E i \in DOMAIN todo[u] : todo[u][i] = t

\* No waiter is stranded: a task asleep on a word is in its queue, or in the
\* hands of a wake that is about to unblock it.  A wake that meets the waiter
\* between its registration and its block would leave it asleep and unlisted.
NoStrandedWaiter ==
  \A t \in Task : pc[t] = "asleep" => Queued(t, want[t][1]) \/ Drained(t)

\* pthread_join returns: a task asleep on a tid word that its thread has cleared
\* on exit is woken, whatever else is woken, killed or waited for meanwhile.
JoinReturns ==
  \A t \in Task :
    (pc[t] = "asleep" /\ want[t][1] \in Tids /\ word[want[t][1]] = 0)
      ~> pc[t] # "asleep"

\* The number a wake returns is the number of tasks it wakes: it never spends
\* its count on entries of the queue that no longer stand for a waiter.
WakeCounts ==
  \A t \in Task : \A i \in DOMAIN todo[t] :
    pc[todo[t][i]] \in {"prepared", "asleep", "yielded"}
=============================================================================
