---------------------------- MODULE FutexProofs -----------------------------
(***************************************************************************)
(* Proofs about Futex: on any number of CPUs every variable keeps its type *)
(* and the table is locked by a wake exactly as long as that has waiters   *)
(* left to unblock; on one CPU no waiter is stranded.                      *)
(***************************************************************************)
EXTENDS Futex, FiniteSetTheorems, SequenceTheorems, WellFoundedInduction, TLAPS

\* t occurs in s.
In(t, s) == \E i \in DOMAIN s : s[i] = t

LEMMA InAppend ==
  ASSUME NEW s \in Seq(Task), NEW t \in Task, NEW u \in Task
  PROVE  In(u, Append(s, t)) <=> In(u, s) \/ u = t
<1>1. /\ Len(Append(s, t)) = Len(s) + 1 /\ Append(s, t)[Len(s) + 1] = t
      /\ \A i \in 1 .. Len(s) : Append(s, t)[i] = s[i]
      /\ DOMAIN s = 1 .. Len(s) /\ DOMAIN Append(s, t) = 1 .. Len(s) + 1 /\ Len(s) \in Nat
  OBVIOUS
<1>2. \A i \in 1 .. Len(s) + 1 : i \in 1 .. Len(s) \/ i = Len(s) + 1
  BY <1>1
<1>3. /\ \A i \in 1 .. Len(s) : i \in 1 .. Len(s) + 1
      /\ Len(s) + 1 \in 1 .. Len(s) + 1
  BY <1>1
<1> QED
  BY <1>1, <1>2, <1>3, Zenon DEF In

\* Cutting a sequence in two loses nothing.
LEMMA InCut ==
  ASSUME NEW s \in Seq(Task), NEW n \in 0 .. Len(s), NEW u \in Task, In(u, s)
  PROVE  In(u, SubSeq(s, 1, n)) \/ In(u, SubSeq(s, n + 1, Len(s)))
<1>1. PICK i \in 1 .. Len(s) : s[i] = u
  BY DEF In
<1>2. CASE i <= n
  <2>1. i \in DOMAIN SubSeq(s, 1, n) /\ SubSeq(s, 1, n)[i] = u
    BY <1>1, <1>2
  <2> QED
    BY <2>1 DEF In
<1>3. CASE i > n
  <2>1. i - n \in DOMAIN SubSeq(s, n + 1, Len(s)) /\ SubSeq(s, n + 1, Len(s))[i - n] = u
    BY <1>1, <1>3
  <2> QED
    BY <2>1, ZenonT(30) DEF In
<1> QED
  BY <1>2, <1>3

LEMMA InTail ==
  ASSUME NEW s \in Seq(Task), s # <<>>, NEW u \in Task, In(u, s)
  PROVE  u = Head(s) \/ In(u, Tail(s))
<1>1. PICK i \in 1 .. Len(s) : s[i] = u
  BY DEF In
<1>2. CASE i > 1
  <2>1. i - 1 \in DOMAIN Tail(s) /\ Tail(s)[i - 1] = u
    BY <1>1, <1>2
  <2> QED
    BY <2>1, ZenonT(30) DEF In
<1> QED
  BY <1>1, <1>2

LEMMA RemoveAtEntries ==
  ASSUME NEW s \in Seq(Task), NEW k \in 1 .. Len(s)
  PROVE  /\ RemoveAt(s, k) \in Seq(Task) /\ Len(RemoveAt(s, k)) = Len(s) - 1
         /\ \A j \in 1 .. k - 1 : RemoveAt(s, k)[j] = s[j]
         /\ \A j \in k .. Len(s) - 1 : RemoveAt(s, k)[j] = s[j + 1]
<1> DEFINE a == SubSeq(s, 1, k - 1)
           b == SubSeq(s, k + 1, Len(s))
<1>1. /\ a \in Seq(Task) /\ Len(a) = k - 1 /\ \A j \in 1 .. k - 1 : a[j] = s[j]
      /\ b \in Seq(Task) /\ Len(b) = Len(s) - k /\ \A j \in 1 .. Len(s) - k : b[j] = s[k + j]
  OBVIOUS
<1>2. RemoveAt(s, k) = a \o b
  BY DEF RemoveAt
<1> HIDE DEF a, b
<1>3. /\ a \o b \in Seq(Task) /\ Len(a \o b) = Len(a) + Len(b)
      /\ \A j \in 1 .. Len(a) + Len(b) : (a \o b)[j] = IF j <= Len(a) THEN a[j] ELSE b[j - Len(a)]
  BY <1>1, ConcatProperties, ZenonT(30)
<1>4. \A j \in k .. Len(s) - 1 : j \in 1 .. Len(a) + Len(b) /\ ~(j <= Len(a))
        /\ j - Len(a) \in 1 .. Len(s) - k /\ k + (j - Len(a)) = j + 1
  BY <1>1
<1>5. \A j \in 1 .. k - 1 : j \in 1 .. Len(a) + Len(b) /\ j <= Len(a)
  BY <1>1
<1>6. \A j \in k .. Len(s) - 1 : (a \o b)[j] = s[j + 1]
  BY <1>1, <1>3, <1>4, Zenon
<1>7. \A j \in 1 .. k - 1 : (a \o b)[j] = s[j]
  BY <1>1, <1>3, <1>5, Zenon
<1>8. Len(a) + Len(b) = Len(s) - 1
  BY <1>1
<1> QED
  BY <1>2, <1>3, <1>6, <1>7, <1>8, SMTT(30)

\* Removing an entry of one task leaves those of the others.
LEMMA InRemove ==
  ASSUME NEW s \in Seq(Task), NEW k \in 1 .. Len(s), NEW u \in Task, In(u, s), s[k] # u
  PROVE  In(u, RemoveAt(s, k))
<1>1. PICK i \in 1 .. Len(s) : s[i] = u
  BY DEF In
<1>a. /\ RemoveAt(s, k) \in Seq(Task) /\ Len(RemoveAt(s, k)) = Len(s) - 1
      /\ \A j \in 1 .. k - 1 : RemoveAt(s, k)[j] = s[j]
      /\ \A j \in k .. Len(s) - 1 : RemoveAt(s, k)[j] = s[j + 1]
  BY RemoveAtEntries
<1>2. CASE i < k
  <2>1. i \in DOMAIN RemoveAt(s, k) /\ RemoveAt(s, k)[i] = u
    BY <1>1, <1>2, <1>a, SMTT(30)
  <2> QED
    BY <2>1 DEF In
<1>3. CASE i > k
  <2>1. i - 1 \in DOMAIN RemoveAt(s, k) /\ RemoveAt(s, k)[i - 1] = u
    BY <1>1, <1>3, <1>a
  <2> QED
    BY <2>1 DEF In
<1> QED
  BY <1>1, <1>2, <1>3

-----------------------------------------------------------------------------
(***************************************************************************)
(* Types, on any number of CPUs.                                           *)
(***************************************************************************)
Pc == {"user", "retry", "prepared", "asleep", "yielded", "waking", "clearing", "leaving", "gone"}

\* What leaves the queue is in the hands of the wake.
LEMMA DrainKeeps ==
  ASSUME NEW s \in Seq(Task), NEW count \in Nat, NEW d,
         d = SubSeq(s, 1, IF count < Len(s) THEN count ELSE Len(s))
  PROVE  /\ d \in Seq(Task) /\ SubSeq(s, Len(d) + 1, Len(s)) \in Seq(Task)
         /\ \A u \in Task : In(u, s) => In(u, d) \/ In(u, SubSeq(s, Len(d) + 1, Len(s)))
<1> DEFINE n == IF count < Len(s) THEN count ELSE Len(s)
<1>1. n \in 0 .. Len(s) /\ d = SubSeq(s, 1, n)
  OBVIOUS
<1> HIDE DEF n
<1>2. d \in Seq(Task) /\ Len(d) = n /\ SubSeq(s, n + 1, Len(s)) \in Seq(Task)
  BY <1>1
<1> QED
  BY <1>1, <1>2, InCut, SMTT(30)

LEMMA TypeFields ==
  ASSUME TypeOK
  PROVE  /\ word \in [Key -> Value] /\ waiting_tasks \in [Key -> Seq(Task)]
         /\ pc \in [Task -> Pc] /\ want \in [Task -> Key \X Value]
         /\ todo \in [Task -> Seq(Task)] /\ \A t \in Task : want[t][1] \in Key
         /\ \A t \in Task : (todo[t] # <<>>) <=> pc[t] \in {"waking", "leaving"}
<1>1. /\ word \in [Key -> Value] /\ waiting_tasks \in [Key -> Seq(Task)]
      /\ pc \in [Task -> Pc] /\ want \in [Task -> Key \X Value]
      /\ todo \in [Task -> Seq(Task)]
      /\ \A t \in Task : (todo[t] # <<>>) <=> pc[t] \in {"waking", "leaving"}
  BY Zenon DEF TypeOK, Pc
<1> QED
  BY <1>1

LEMMA OwnStepType ==
  ASSUME TypeOK, NEW t \in Task, UNCHANGED <<waiting_tasks, want, todo>>,
         NEW next \in Pc, pc' = [pc EXCEPT ![t] = next],
         word' \in [Key -> Value],
         pc[t] \notin {"waking", "leaving"}, next \notin {"waking", "leaving"}
  PROVE  TypeOK'
  BY TypeFields DEF TypeOK, Pc

LEMMA WaitStepType ==
  ASSUME TypeOK, NEW t \in Task, NEW a \in Key, NEW v \in Value,
         NEW parked \in {"prepared", "yielded"},
         wait(a, v, t, parked), want' = [want EXCEPT ![t] = <<a, v>>], UNCHANGED <<word, todo>>,
         pc[t] \notin {"waking", "leaving"}
  PROVE  TypeOK'
<1>1. PICK next \in {parked, "user"} : pc' = [pc EXCEPT ![t] = next]
  BY DEF wait
<1>2. waiting_tasks' \in [Key -> Seq(Task)]
  <2>1. CASE word[a] = v
    <3>1. waiting_tasks' = [waiting_tasks EXCEPT ![a] = Append(waiting_tasks[a], t)]
      BY <2>1, SMTT(30) DEF wait, register
    <3> QED
      BY <3>1, TypeFields, SMTT(30)
  <2>2. CASE word[a] # v
    BY <2>2, TypeFields DEF wait
  <2> QED
    BY <2>1, <2>2
<1>3. \A u \in Task : pc'[u] = IF u = t THEN next ELSE pc[u]
  BY <1>1, TypeFields, SMTT(30)
<1>4. pc' \in [Task -> Pc] /\ want' \in [Task -> Key \X Value]
  BY <1>1, TypeFields, SMTT(30) DEF Pc
<1>5. \A u \in Task : (todo'[u] # <<>>) <=> pc'[u] \in {"waking", "leaving"}
  <2>1. next \notin {"waking", "leaving"}
    OBVIOUS
  <2> QED
    BY <1>3, <2>1, TypeFields, ZenonT(30)
<1> QED
  BY <1>2, <1>4, <1>5, TypeFields, SMTT(30) DEF TypeOK, Pc

LEMMA DrainStepType ==
  ASSUME TypeOK, NEW t \in Task, NEW a \in Key, NEW count \in Nat,
         NEW with \in {"waking", "leaving"}, NEW without \in {"user", "gone"},
         Drain(t, a, count, with, without), UNCHANGED <<word, want>>,
         pc[t] \in {"user", "clearing"}
  PROVE  TypeOK'
<1> DEFINE s == waiting_tasks[a]
           d == drain(a, count)
           r == SubSeq(s, Len(d) + 1, Len(s))
<1>1. d \in Seq(Task) /\ r \in Seq(Task)
  <2>1. s \in Seq(Task) /\ d = SubSeq(s, 1, IF count < Len(s) THEN count ELSE Len(s))
    BY TypeFields DEF drain
  <2> HIDE DEF s, d
  <2> QED
    BY <2>1, DrainKeeps, ZenonT(30)
<1>2. /\ waiting_tasks' = [waiting_tasks EXCEPT ![a] = r] /\ todo' = [todo EXCEPT ![t] = d]
      /\ pc' = [pc EXCEPT ![t] = IF d = <<>> THEN without ELSE with]
  BY DEF Drain
<1> HIDE DEF d, r, s
<1>3. \A u \in Task : /\ todo'[u] = IF u = t THEN d ELSE todo[u]
                      /\ pc'[u] = IF u # t THEN pc[u] ELSE IF d = <<>> THEN without ELSE with
  BY <1>2, TypeFields
<1>4. /\ waiting_tasks' \in [Key -> Seq(Task)] /\ todo' \in [Task -> Seq(Task)]
      /\ pc' \in [Task -> Pc]
  BY <1>1, <1>2, TypeFields, SMTT(30) DEF Pc
<1>5. \A u \in Task : (todo'[u] # <<>>) <=> pc'[u] \in {"waking", "leaving"}
  BY <1>3, TypeFields, ZenonT(30)
<1> QED
  BY <1>4, <1>5, TypeFields, SMTT(30) DEF TypeOK, Pc

\* What a wake has still to unblock while it goes on.
LEMMA UnblockFacts ==
  ASSUME TypeOK, NEW t \in Task, unblock_futex_waiter(t)
  PROVE  /\ todo[t] \in Seq(Task) /\ todo[t] # <<>> /\ Head(todo[t]) \in Task
         /\ Tail(todo[t]) \in Seq(Task) /\ (Tail(todo[t]) = <<>> <=> Len(todo[t]) = 1)
<1>1. todo[t] \in Seq(Task) /\ todo[t] # <<>>
  BY TypeFields DEF unblock_futex_waiter
<1>2. \A s \in Seq(Task) : s # <<>> =>
        Head(s) \in Task /\ Tail(s) \in Seq(Task) /\ (Tail(s) = <<>> <=> Len(s) = 1)
  <2> SUFFICES ASSUME NEW s \in Seq(Task), s # <<>>
               PROVE  Head(s) \in Task /\ Tail(s) \in Seq(Task) /\ (Tail(s) = <<>> <=> Len(s) = 1)
    OBVIOUS
  <2>1. Len(s) \in Nat /\ Len(s) >= 1 /\ Tail(s) \in Seq(Task) /\ Len(Tail(s)) = Len(s) - 1
    OBVIOUS
  <2>2. Tail(s) = <<>> <=> Len(Tail(s)) = 0
    BY <2>1, EmptySeq, Zenon
  <2> QED
    BY <2>1, <2>2
<1> QED
  BY <1>1, <1>2

LEMMA UnblockStepType ==
  ASSUME TypeOK, NEW t \in Task, unblock_futex_waiter(t)
  PROVE  TypeOK'
<1> DEFINE p == Head(todo[t])
           done == IF pc[t] = "waking" THEN "user" ELSE "gone"
<1>1. /\ todo[t] \in Seq(Task) /\ todo[t] # <<>> /\ p \in Task
      /\ Tail(todo[t]) \in Seq(Task) /\ (Tail(todo[t]) = <<>> <=> Len(todo[t]) = 1)
  BY UnblockFacts
<1>2. /\ todo' = [todo EXCEPT ![t] = Tail(todo[t])]
      /\ pc' = [u \in Task |-> IF u = p /\ pc[p] = "asleep" THEN "retry"
                               ELSE IF u = t /\ Len(todo[t]) = 1 THEN done ELSE pc[u]]
      /\ UNCHANGED <<word, waiting_tasks, want>> /\ pc[t] \in {"waking", "leaving"}
  BY DEF unblock_futex_waiter
<1> HIDE DEF p
<1>3. /\ \A u \in Task : todo'[u] = IF u = t THEN Tail(todo[t]) ELSE todo[u]
      /\ \A u \in Task : pc'[u] = IF u = p /\ pc[p] = "asleep" THEN "retry"
                                  ELSE IF u = t /\ Len(todo[t]) = 1 THEN done ELSE pc[u]
  BY <1>2, TypeFields, SMTT(30)
<1>4. todo' \in [Task -> Seq(Task)]
  BY <1>1, <1>2, TypeFields
<1>5. \A u \in Task : pc'[u] \in Pc
  BY <1>3, TypeFields, ZenonT(30) DEF Pc
<1>6. pc' \in [Task -> Pc]
  BY <1>2, <1>5
<1>7. \A u \in Task : (todo'[u] # <<>>) <=> pc'[u] \in {"waking", "leaving"}
  <2> SUFFICES ASSUME NEW u \in Task
               PROVE  (todo'[u] # <<>>) <=> pc'[u] \in {"waking", "leaving"}
    OBVIOUS
  <2>1. (todo[u] # <<>>) <=> pc[u] \in {"waking", "leaving"}
    BY TypeFields
  <2>2. CASE u = t
    BY <2>2, <1>1, <1>2, <1>3, ZenonT(30)
  <2>3. CASE u # t
    BY <2>1, <2>3, <1>3
  <2> QED
    BY <2>2, <2>3
<1> QED
  BY <1>2, <1>4, <1>6, <1>7, TypeFields, ZenonT(30) DEF TypeOK, Pc

\* Only an entry of its own is taken out of the queue.
LEMMA DeregisterKeeps ==
  ASSUME TypeOK, NEW t \in Task, NEW a \in Key, deregister(a, t)
  PROVE  /\ waiting_tasks' \in [Key -> Seq(Task)]
         /\ \A b \in Key, u \in Task :
              u # t /\ In(u, waiting_tasks[b]) => In(u, waiting_tasks'[b])
<1>1. waiting_tasks[a] \in Seq(Task)
  BY TypeFields
<1> DEFINE at == {i \in DOMAIN waiting_tasks[a] : waiting_tasks[a][i] = t}
           k == CHOOSE i \in at : \A j \in at : i <= j
<1>2. CASE at = {}
  BY <1>2, <1>1, TypeFields, SMTT(30) DEF deregister
<1>3. CASE at # {}
  <2>1. waiting_tasks' = [waiting_tasks EXCEPT ![a] = RemoveAt(waiting_tasks[a], k)]
    BY <1>3, <1>1 DEF deregister
  <2>2. k \in at
    <3>1. at \subseteq Nat
      BY <1>1
    <3> HIDE DEF at
    <3>2. PICK i \in at : \A j \in at : ~(<<j, i>> \in OpToRel(<, Nat))
      BY <3>1, <1>3, WFMin, NatLessThanWellFounded, ZenonT(30)
    <3>3. ASSUME NEW j \in at PROVE i <= j
      <4>1. i \in Nat /\ j \in Nat
        BY <3>1
      <4>2. j < i => <<j, i>> \in OpToRel(<, Nat)
        BY <4>1, Zenon DEF OpToRel
      <4>3. ~(j < i)
        BY <4>2, <3>2, Zenon
      <4> QED
        BY <4>1, <4>3
    <3> QED
      BY <3>3
  <2> HIDE DEF k
  <2>3. k \in 1 .. Len(waiting_tasks[a]) /\ waiting_tasks[a][k] = t
    BY <2>2, <1>1
  <2>4. RemoveAt(waiting_tasks[a], k) \in Seq(Task)
    BY <2>3, <1>1, RemoveAtEntries, SMTT(30)
  <2>5. \A u \in Task : u # t /\ In(u, waiting_tasks[a]) => In(u, RemoveAt(waiting_tasks[a], k))
    BY <2>3, <1>1, InRemove, SMTT(30)
  <2>6. \A b \in Key : waiting_tasks'[b] = IF b = a THEN RemoveAt(waiting_tasks[a], k) ELSE waiting_tasks[b]
    BY <2>1, TypeFields
  <2> QED
    BY <2>1, <2>4, <2>5, <2>6, TypeFields, ZenonT(30)
<1> QED
  BY <1>2, <1>3, SMTT(30)

LEMMA InitTypeOK == Init => TypeOK
<1> SUFFICES ASSUME Init PROVE TypeOK
  OBVIOUS
<1>1. ASSUME NEW t \in Task PROVE (CHOOSE a \in Key : TRUE) \in Key
  BY DEF Key, Tids
<1>2. want \in [Task -> Key \X Value]
  BY <1>1 DEF Init, Value
<1>3. \A t \in Task : pc[t] = "user" /\ todo[t] = <<>>
  BY DEF Init
<1> QED
  BY <1>2, <1>3, SMTT(30) DEF Init, TypeOK, Value

LEMMA NextTypeOK == TypeOK /\ [Next]_vars => TypeOK'
<1> SUFFICES ASSUME TypeOK, [Next]_vars PROVE TypeOK'
  OBVIOUS
<1>1. CASE UNCHANGED vars
  BY <1>1, SMTT(30) DEF vars, TypeOK
<1>2. ASSUME NEW t \in Task, NEW a \in Word, NEW v \in Value, Store(t, a, v) PROVE TypeOK'
  <2>1. word' \in [Key -> Value] /\ pc[t] = "user" /\ pc' = [pc EXCEPT ![t] = "user"]
        /\ UNCHANGED <<waiting_tasks, want, todo>>
    BY <1>2, TypeFields DEF Store, Key
  <2> QED
    BY <2>1, OwnStepType, ZenonT(30) DEF Pc
<1>3. ASSUME NEW t \in Task, NEW a \in Key, NEW v \in Value,
             futex_prepare_wait(t, a, v) \/ futex_wait(t, a, v)
      PROVE  TypeOK'
  <2>1. PICK parked \in {"prepared", "yielded"} : wait(a, v, t, parked)
    BY <1>3 DEF futex_prepare_wait, futex_wait
  <2>2. want' = [want EXCEPT ![t] = <<a, v>>]
        /\ UNCHANGED <<word, todo>> /\ pc[t] \notin {"waking", "leaving"}
    BY <1>3 DEF futex_prepare_wait, futex_wait
  <2> QED
    BY <2>1, <2>2, WaitStepType, ZenonT(30)
<1>4. ASSUME NEW t \in Task, block_current_task(t) PROVE TypeOK'
  BY <1>4, OwnStepType, TypeFields, ZenonT(30) DEF block_current_task, Pc
<1>5. ASSUME NEW t \in Task, futex_wait_yielded(t) PROVE TypeOK'
  <2>1. pc[t] = "yielded" /\ pc' = [pc EXCEPT ![t] = "user"] /\ UNCHANGED <<word, want, todo>>
    BY <1>5 DEF futex_wait_yielded
  <2>2. waiting_tasks' \in [Key -> Seq(Task)]
    BY <1>5, TypeFields, DeregisterKeeps, SMTT(30) DEF futex_wait_yielded
  <2> QED
    BY <2>1, <2>2, TypeFields, SMTT(30) DEF TypeOK, Pc
<1>6. ASSUME NEW t \in Task, NEW a \in Word, NEW count \in 1 .. 2, futex_wake(t, a, count) PROVE TypeOK'
  <2>1. Drain(t, a, count, "waking", "user") /\ UNCHANGED <<word, want>> /\ pc[t] = "user"
    BY <1>6 DEF futex_wake
  <2>2. a \in Key /\ count \in Nat
    BY SMTT(30) DEF Key
  <2> QED
    BY <2>1, <2>2, DrainStepType
<1>7. ASSUME NEW t \in Task, unblock_futex_waiter(t) PROVE TypeOK'
  BY <1>7, UnblockStepType
<1>8. ASSUME NEW t \in Task, clear_child_tid_store(t) PROVE TypeOK'
  <2>1. word' \in [Key -> Value] /\ pc[t] = "user" /\ pc' = [pc EXCEPT ![t] = "clearing"]
        /\ UNCHANGED <<waiting_tasks, want, todo>>
    BY <1>8, TypeFields, ZenonT(30) DEF clear_child_tid_store, Value
  <2> QED
    BY <2>1, OwnStepType, ZenonT(30) DEF Pc
<1>9. ASSUME NEW t \in Task, clear_child_tid_wake(t) PROVE TypeOK'
  <2>1. Drain(t, Tid[t], 1, "leaving", "gone") /\ UNCHANGED <<word, want>> /\ pc[t] = "clearing"
    BY <1>9 DEF clear_child_tid_wake
  <2>2. Tid[t] \in Key /\ 1 \in Nat
    BY DEF Key, Tids
  <2> QED
    BY <2>1, <2>2, DrainStepType
<1>10. ASSUME NEW t \in Task, NEW u \in Task, kill_parked(t, u) PROVE TypeOK'
  BY <1>10, OwnStepType, TypeFields, ZenonT(30) DEF kill_parked, Pc
<1>11. ASSUME NEW t \in Task, wake_thread(t) PROVE TypeOK'
  BY <1>11, OwnStepType, TypeFields, ZenonT(30) DEF wake_thread, Pc
<1> QED
  BY <1>1, <1>2, <1>3, <1>4, <1>5, <1>6, <1>7, <1>8, <1>9, <1>10, <1>11, ZenonT(30) DEF Next

\* On any number of CPUs, for any number of tasks and words: the futex table is
\* locked by a wake exactly as long as that has drained waiters left to unblock.
THEOREM FutexTypeCorrect == Spec => []TypeOK
  BY InitTypeOK, NextTypeOK, PTL DEF Spec

-----------------------------------------------------------------------------
(***************************************************************************)
(* One CPU.  Whoever is inside a call is alone there, so a waiter that has *)
(* registered and not blocked is still registered when it blocks; and only *)
(* a wake, which unblocks what it takes, removes another task's entry.     *)
(***************************************************************************)
Calling == {"prepared", "clearing", "waking", "leaving"}

Listed(t) == In(t, waiting_tasks[want[t][1]]) \/ \E u \in Task : In(t, todo[u])

UpInv ==
  /\ TypeOK
  /\ \A t, u \in Task : pc[t] \in Calling /\ pc[u] \in Calling => t = u
  /\ \A t \in Task : pc[t] \in {"prepared", "asleep"} => Listed(t)

LEMMA Alone ==
  ASSUME NCpu = 1, NEW t \in Task, FreeCpu(t), NEW u \in Task, u # t
  PROVE  pc[u] \notin Calling
<1>1. IsFiniteSet(InCall \ {t})
  BY FutexAssumption, FS_Subset DEF InCall
<1>2. /\ Cardinality(InCall \ {t}) \in Nat
      /\ Cardinality(InCall \ {t}) = 0 <=> InCall \ {t} = {}
  BY <1>1, FS_CardinalityType, FS_EmptySet, SMTT(30)
<1>3. InCall \ {t} = {}
  BY <1>2 DEF FreeCpu
<1> QED
  BY <1>3 DEF InCall, Calling

LEMMA Fields ==
  ASSUME UpInv
  PROVE  /\ word \in [Key -> Value] /\ waiting_tasks \in [Key -> Seq(Task)]
         /\ pc \in [Task -> Pc] /\ want \in [Task -> Key \X Value]
         /\ todo \in [Task -> Seq(Task)] /\ \A t \in Task : want[t][1] \in Key
         /\ \A t \in Task : (todo[t] # <<>>) <=> pc[t] \in {"waking", "leaving"}
  BY TypeFields DEF UpInv

\* A step of t that touches neither the queues nor the wakes.
LEMMA OwnStep ==
  ASSUME UpInv, TypeOK', NEW t \in Task, UNCHANGED <<waiting_tasks, want, todo>>,
         NEW next \in Pc, pc' = [pc EXCEPT ![t] = next],
         word' \in [Key -> Value],
         pc[t] \notin {"waking", "leaving"}, next \notin {"waking", "leaving"},
         next \in Calling => pc[t] \in Calling \/ \A u \in Task : u # t => pc[u] \notin Calling,
         next \in {"prepared", "asleep"} => pc[t] \in {"prepared", "asleep"}
  PROVE  UpInv'
<1>2. \A u \in Task : pc'[u] = IF u = t THEN next ELSE pc[u]
  BY Fields
<1>3. \A u, v \in Task : pc'[u] \in Calling /\ pc'[v] \in Calling => u = v
  BY <1>2 DEF UpInv
<1>4. \A u \in Task : Listed(u)' <=> Listed(u)
  BY DEF Listed
<1>5. \A u \in Task : pc'[u] \in {"prepared", "asleep"} => Listed(u)'
  BY <1>2, <1>4, SMTT(30) DEF UpInv
<1> QED
  BY <1>3, <1>5, SMTT(30) DEF UpInv

LEMMA WaitStep ==
  ASSUME UpInv, TypeOK', NEW t \in Task, NEW a \in Key, NEW v \in Value,
         NEW parked \in {"prepared", "yielded"},
         wait(a, v, t, parked), want' = [want EXCEPT ![t] = <<a, v>>], UNCHANGED <<word, todo>>,
         pc[t] \notin {"waking", "leaving"},
         \A u \in Task : u # t => pc[u] \notin Calling
  PROVE  UpInv'
<1>1. PICK next \in {parked, "user"} : pc' = [pc EXCEPT ![t] = next]
  BY DEF wait
<1>2. /\ waiting_tasks' \in [Key -> Seq(Task)]
      /\ \A b \in Key, u \in Task : In(u, waiting_tasks[b]) => In(u, waiting_tasks'[b])
      /\ next = "prepared" => In(t, waiting_tasks'[a])
  <2>1. CASE word[a] = v
    <3>1. waiting_tasks' = [waiting_tasks EXCEPT ![a] = Append(waiting_tasks[a], t)]
      BY <2>1, SMTT(30) DEF wait, register
    <3>2. \A u \in Task : In(u, Append(waiting_tasks[a], t)) <=> In(u, waiting_tasks[a]) \/ u = t
      BY Fields, InAppend, SMTT(30)
    <3>3. \A b \in Key : waiting_tasks'[b] = IF b = a THEN Append(waiting_tasks[a], t) ELSE waiting_tasks[b]
      BY <3>1, Fields
    <3> QED
      BY <3>1, <3>2, <3>3, Fields, SMTT(30)
  <2>2. CASE word[a] # v
    <3>1. pc' = [pc EXCEPT ![t] = "user"] /\ UNCHANGED waiting_tasks
      BY <2>2 DEF wait
    <3>2. next = "user"
      BY <1>1, <3>1, Fields, SMTT(30)
    <3> QED
      BY <3>1, <3>2, Fields, SMTT(30)
  <2> QED
    BY <2>1, <2>2
<1>3. \A u \in Task : /\ pc'[u] = IF u = t THEN next ELSE pc[u]
                      /\ want'[u] = IF u = t THEN <<a, v>> ELSE want[u]
  BY <1>1, Fields, SMTT(30)
<1>5. \A u, w \in Task : pc'[u] \in Calling /\ pc'[w] \in Calling => u = w
  BY <1>3 DEF UpInv
<1>6. \A u \in Task : pc'[u] \in {"prepared", "asleep"} => Listed(u)'
  <2> SUFFICES ASSUME NEW u \in Task, pc'[u] \in {"prepared", "asleep"}
               PROVE  In(u, waiting_tasks'[want'[u][1]]) \/ \E w \in Task : In(u, todo[w])
    BY DEF Listed, In
  <2>1. CASE u = t
    BY <2>1, <1>1, <1>2, <1>3, SMTT(30)
  <2>2. CASE u # t
    BY <2>2, <1>2, <1>3, Fields, ZenonT(30) DEF UpInv, Listed
  <2> QED
    BY <2>1, <2>2, SMTT(30)
<1> QED
  BY <1>5, <1>6, SMTT(30) DEF UpInv

LEMMA DrainStep ==
  ASSUME UpInv, TypeOK', NEW t \in Task, NEW a \in Key, NEW count \in Nat,
         NEW with \in {"waking", "leaving"}, NEW without \in {"user", "gone"},
         Drain(t, a, count, with, without), UNCHANGED <<word, want>>,
         pc[t] \in {"user", "clearing"},
         \A u \in Task : u # t => pc[u] \notin Calling
  PROVE  UpInv'
<1> DEFINE s == waiting_tasks[a]
           d == drain(a, count)
           r == SubSeq(s, Len(d) + 1, Len(s))
<1>1. /\ d \in Seq(Task) /\ r \in Seq(Task)
      /\ \A u \in Task : In(u, s) => In(u, d) \/ In(u, r)
  <2>1. s \in Seq(Task) /\ d = SubSeq(s, 1, IF count < Len(s) THEN count ELSE Len(s))
    BY Fields DEF drain
  <2> HIDE DEF s, d
  <2> QED
    BY <2>1, DrainKeeps, ZenonT(30)
<1>2. /\ waiting_tasks' = [waiting_tasks EXCEPT ![a] = r] /\ todo' = [todo EXCEPT ![t] = d]
      /\ pc' = [pc EXCEPT ![t] = IF d = <<>> THEN without ELSE with]
  BY DEF Drain
<1> HIDE DEF d, r, s
<1>3. /\ \A b \in Key : waiting_tasks'[b] = IF b = a THEN r ELSE waiting_tasks[b]
      /\ \A u \in Task : /\ todo'[u] = IF u = t THEN d ELSE todo[u]
                         /\ pc'[u] = IF u # t THEN pc[u] ELSE IF d = <<>> THEN without ELSE with
  BY <1>2, Fields
<1>5. \A u, w \in Task : pc'[u] \in Calling /\ pc'[w] \in Calling => u = w
  BY <1>3
<1>6. \A u \in Task : pc'[u] \in {"prepared", "asleep"} => Listed(u)'
  <2> SUFFICES ASSUME NEW u \in Task, pc'[u] \in {"prepared", "asleep"}
               PROVE  In(u, waiting_tasks'[want[u][1]]) \/ \E w \in Task : In(u, todo'[w])
    BY DEF Listed, In
  <2>1. u # t /\ pc[u] = pc'[u] /\ want[u][1] \in Key
    BY <1>3, Fields, ZenonT(30)
  <2>2. Listed(u)
    BY <2>1 DEF UpInv
  <2>3. CASE In(u, waiting_tasks[want[u][1]])
    BY <2>1, <2>3, <1>1, <1>3 DEF s
  <2>4. ASSUME NEW w \in Task, In(u, todo[w]) PROVE In(u, todo'[w])
    <3>1. todo[t] = <<>>
      BY Fields, ZenonT(30)
    <3>2. ~In(u, <<>>)
      BY DEF In
    <3> QED
      BY <2>4, <3>1, <3>2, <1>3, SMTT(30)
  <2> QED
    BY <2>2, <2>3, <2>4 DEF Listed
<1> QED
  BY <1>5, <1>6 DEF UpInv

LEMMA UnblockStep ==
  ASSUME UpInv, TypeOK', NEW t \in Task, unblock_futex_waiter(t)
  PROVE  UpInv'
<1> DEFINE p == Head(todo[t])
           done == IF pc[t] = "waking" THEN "user" ELSE "gone"
<1>1. /\ todo[t] \in Seq(Task) /\ todo[t] # <<>> /\ p \in Task
      /\ Tail(todo[t]) \in Seq(Task) /\ (Tail(todo[t]) = <<>> <=> Len(todo[t]) = 1)
  BY UnblockFacts DEF UpInv, p
<1>2. /\ todo' = [todo EXCEPT ![t] = Tail(todo[t])]
      /\ pc' = [u \in Task |-> IF u = p /\ pc[p] = "asleep" THEN "retry"
                               ELSE IF u = t /\ Len(todo[t]) = 1 THEN done ELSE pc[u]]
      /\ UNCHANGED <<word, waiting_tasks, want>> /\ pc[t] \in {"waking", "leaving"}
  BY DEF unblock_futex_waiter
<1> HIDE DEF p
<1>3. /\ \A u \in Task : todo'[u] = IF u = t THEN Tail(todo[t]) ELSE todo[u]
      /\ \A u \in Task : pc'[u] = IF u = p /\ pc[p] = "asleep" THEN "retry"
                                  ELSE IF u = t /\ Len(todo[t]) = 1 THEN done ELSE pc[u]
  BY <1>2, Fields, SMTT(30)
<1>5. \A u \in Task : u # t => pc[u] \notin Calling
  BY <1>2 DEF UpInv, Calling
<1>6. \A u, w \in Task : pc'[u] \in Calling /\ pc'[w] \in Calling => u = w
  BY <1>3, <1>5 DEF Calling
<1>7. \A u \in Task : pc'[u] \in {"prepared", "asleep"} => Listed(u)'
  <2> SUFFICES ASSUME NEW u \in Task, pc'[u] \in {"prepared", "asleep"}
               PROVE  In(u, waiting_tasks[want[u][1]]) \/ \E w \in Task : In(u, todo'[w])
    BY <1>2 DEF Listed, In
  <2>1. pc[u] = "asleep" /\ u # p
    BY <1>2, <1>3, <1>5 DEF Calling
  <2>2. Listed(u)
    BY <2>1 DEF UpInv
  <2>3. ASSUME NEW w \in Task, In(u, todo[w]) PROVE In(u, todo'[w])
    <3>1. CASE w = t
      BY <3>1, <2>1, <2>3, <1>1, <1>3, InTail, SMTT(30) DEF p
    <3>2. CASE w # t
      BY <3>2, <2>3, <1>3, SMTT(30)
    <3> QED
      BY <3>1, <3>2, SMTT(30)
  <2> QED
    BY <2>2, <2>3, SMTT(30) DEF Listed
<1> QED
  BY <1>6, <1>7 DEF UpInv

LEMMA DeregisterStep ==
  ASSUME UpInv, TypeOK', NEW t \in Task, futex_wait_yielded(t)
  PROVE  UpInv'
<1> DEFINE a == want[t][1]
<1>1. /\ pc[t] = "yielded" /\ pc' = [pc EXCEPT ![t] = "user"] /\ UNCHANGED <<word, want, todo>>
      /\ deregister(a, t) /\ a \in Key /\ waiting_tasks[a] \in Seq(Task)
  BY Fields DEF futex_wait_yielded
<1> HIDE DEF a
<1>2. /\ waiting_tasks' \in [Key -> Seq(Task)]
      /\ \A b \in Key, u \in Task : u # t /\ In(u, waiting_tasks[b]) => In(u, waiting_tasks'[b])
  BY <1>1, DeregisterKeeps DEF UpInv
<1>3. \A u \in Task : pc'[u] = IF u = t THEN "user" ELSE pc[u]
  BY <1>1, Fields
<1>5. \A u, w \in Task : pc'[u] \in Calling /\ pc'[w] \in Calling => u = w
  BY <1>3 DEF UpInv, Calling
<1>6. \A u \in Task : pc'[u] \in {"prepared", "asleep"} => Listed(u)'
  <2> SUFFICES ASSUME NEW u \in Task, pc'[u] \in {"prepared", "asleep"}
               PROVE  In(u, waiting_tasks'[want[u][1]]) \/ \E w \in Task : In(u, todo[w])
    BY <1>1 DEF Listed, In
  <2>1. u # t /\ Listed(u)
    BY <1>3 DEF UpInv
  <2> QED
    BY <2>1, <1>2, Fields, SMTT(30) DEF Listed
<1> QED
  BY <1>5, <1>6 DEF UpInv

LEMMA InitUpInv == Init => UpInv
<1> SUFFICES ASSUME Init PROVE UpInv
  OBVIOUS
<1>3. \A t \in Task : pc[t] = "user" /\ todo[t] = <<>>
  BY DEF Init
<1>4. TypeOK
  BY InitTypeOK
<1> QED
  BY <1>3, <1>4 DEF UpInv, Calling

LEMMA NextUpInv ==
  ASSUME NCpu = 1, UpInv, [Next]_vars
  PROVE  UpInv'
<1>0. TypeOK'
  BY NextTypeOK DEF UpInv
<1>1. CASE UNCHANGED vars
  BY <1>1, SMTT(30) DEF vars, UpInv, TypeOK, Listed, In
<1>2. ASSUME NEW t \in Task, NEW a \in Word, NEW v \in Value, Store(t, a, v) PROVE UpInv'
  <2>1. word' \in [Key -> Value] /\ pc[t] = "user" /\ pc' = [pc EXCEPT ![t] = "user"]
        /\ UNCHANGED <<waiting_tasks, want, todo>>
    BY <1>2, Fields DEF Store, Key
  <2> QED
    BY <1>0, <2>1, OwnStep, ZenonT(30) DEF Pc, Calling
<1>3. ASSUME NEW t \in Task, NEW a \in Key, NEW v \in Value, futex_prepare_wait(t, a, v) PROVE UpInv'
  <2>1. \A u \in Task : u # t => pc[u] \notin Calling
    BY <1>3, Alone DEF futex_prepare_wait
  <2>2. wait(a, v, t, "prepared") /\ want' = [want EXCEPT ![t] = <<a, v>>]
        /\ UNCHANGED <<word, todo>> /\ pc[t] \notin {"waking", "leaving"}
    BY <1>3 DEF futex_prepare_wait
  <2> QED
    BY <1>0, <2>1, <2>2, WaitStep, ZenonT(30)
<1>4. ASSUME NEW t \in Task, NEW a \in Key, NEW v \in Value, futex_wait(t, a, v) PROVE UpInv'
  <2>1. \A u \in Task : u # t => pc[u] \notin Calling
    BY <1>4, Alone DEF futex_wait
  <2>2. wait(a, v, t, "yielded") /\ want' = [want EXCEPT ![t] = <<a, v>>]
        /\ UNCHANGED <<word, todo>> /\ pc[t] \notin {"waking", "leaving"}
    BY <1>4 DEF futex_wait
  <2> QED
    BY <1>0, <2>1, <2>2, WaitStep, ZenonT(30)
<1>5. ASSUME NEW t \in Task, block_current_task(t) PROVE UpInv'
  BY <1>0, <1>5, OwnStep, Fields, ZenonT(30) DEF block_current_task, Pc, Calling
<1>6. ASSUME NEW t \in Task, futex_wait_yielded(t) PROVE UpInv'
  BY <1>0, <1>6, DeregisterStep
<1>7. ASSUME NEW t \in Task, NEW a \in Word, NEW count \in 1 .. 2, futex_wake(t, a, count) PROVE UpInv'
  <2>1. \A u \in Task : u # t => pc[u] \notin Calling
    BY <1>7, Alone DEF futex_wake
  <2>2. Drain(t, a, count, "waking", "user") /\ UNCHANGED <<word, want>> /\ pc[t] = "user"
    BY <1>7 DEF futex_wake
  <2>3. a \in Key /\ count \in Nat
    BY SMTT(30) DEF Key
  <2> QED
    BY <1>0, <2>1, <2>2, <2>3, DrainStep, SMTT(30)
<1>8. ASSUME NEW t \in Task, unblock_futex_waiter(t) PROVE UpInv'
  BY <1>0, <1>8, UnblockStep
<1>9. ASSUME NEW t \in Task, clear_child_tid_store(t) PROVE UpInv'
  <2>1. \A u \in Task : u # t => pc[u] \notin Calling
    BY <1>9, Alone DEF clear_child_tid_store
  <2>2. word' \in [Key -> Value] /\ pc[t] = "user" /\ pc' = [pc EXCEPT ![t] = "clearing"]
        /\ UNCHANGED <<waiting_tasks, want, todo>>
    BY <1>9, Fields, ZenonT(30) DEF clear_child_tid_store, Value
  <2> QED
    BY <1>0, <2>1, <2>2, OwnStep, ZenonT(30) DEF Pc
<1>10. ASSUME NEW t \in Task, clear_child_tid_wake(t) PROVE UpInv'
  <2>1. Drain(t, Tid[t], 1, "leaving", "gone") /\ UNCHANGED <<word, want>> /\ pc[t] = "clearing"
    BY <1>10 DEF clear_child_tid_wake
  <2>2. \A u \in Task : u # t => pc[u] \notin Calling
    BY <2>1 DEF UpInv, Calling
  <2>3. Tid[t] \in Key /\ 1 \in Nat
    BY DEF Key, Tids
  <2> QED
    BY <1>0, <2>1, <2>2, <2>3, DrainStep
<1>11. ASSUME NEW t \in Task, NEW u \in Task, kill_parked(t, u) PROVE UpInv'
  BY <1>0, <1>11, OwnStep, Fields, ZenonT(30) DEF kill_parked, Pc, Calling
<1>12. ASSUME NEW t \in Task, wake_thread(t) PROVE UpInv'
  BY <1>0, <1>12, OwnStep, Fields, ZenonT(30) DEF wake_thread, Pc, Calling
<1> QED
  BY <1>1, <1>2, <1>3, <1>4, <1>5, <1>6, <1>7, <1>8, <1>9, <1>10, <1>11, <1>12, ZenonT(30) DEF Next

\* On one CPU no waiter is stranded, for any number of tasks and words: whoever
\* sleeps on a futex is in its queue or about to be unblocked.
THEOREM WaitersListed ==
  ASSUME NCpu = 1
  PROVE  Spec => []NoStrandedWaiter
<1>1. Init => UpInv
  BY InitUpInv
<1>2. UpInv /\ [Next]_vars => UpInv'
  BY NextUpInv
<1>3. UpInv => NoStrandedWaiter
  BY DEF UpInv, NoStrandedWaiter, Listed, Queued, Drained, In
<1> QED
  BY <1>1, <1>2, <1>3, PTL DEF Spec
=============================================================================
