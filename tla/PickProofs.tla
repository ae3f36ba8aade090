----------------------------- MODULE PickProofs -----------------------------
(***************************************************************************)
(* Proofs about Pick, for any number of tasks, any periods and deadlines:  *)
(* a task is in one place, and the queues stay sorted.                     *)
(***************************************************************************)
EXTENDS Pick, SequenceTheorems, WellFoundedInduction, TLAPS

(***************************************************************************)
(* Sequences: an entry put in at a position, and one taken out.            *)
(***************************************************************************)
Ins(q, i, t) ==
  [j \in 1 .. Len(q) + 1 |-> IF j < i THEN q[j] ELSE IF j = i THEN t ELSE q[j - 1]]

Del(q, i) == [j \in 1 .. Len(q) - 1 |-> IF j < i THEN q[j] ELSE q[j + 1]]

\* In every position before another, the pair is in R.
Sorted(q, R) == \A i, j \in DOMAIN q : i < j => <<q[i], q[j]>> \in R

LEMMA SeqFun == \A s \in Seq(Task) : s = [j \in 1 .. Len(s) |-> s[j]]
  BY LenProperties, Zenon

LEMMA InRange ==
  ASSUME NEW f, NEW x \in DOMAIN f
  PROVE  f[x] \in Range(f)
  BY Zenon DEF Range

LEMMA AppendIns ==
  ASSUME NEW q \in Seq(Task), NEW t \in Task
  PROVE  Append(q, t) = Ins(q, Len(q) + 1, t)
<1>1. /\ Append(q, t) \in Seq(Task) /\ Len(Append(q, t)) = Len(q) + 1 /\ Len(q) \in Nat
      /\ \A j \in 1 .. Len(q) + 1 : Append(q, t)[j] = IF j <= Len(q) THEN q[j] ELSE t
  OBVIOUS
<1>2. \A j \in 1 .. Len(q) + 1 : Append(q, t)[j] =
        IF j < Len(q) + 1 THEN q[j] ELSE IF j = Len(q) + 1 THEN t ELSE q[j - 1]
  BY <1>1
<1>3. Append(q, t) = [j \in 1 .. Len(q) + 1 |-> Append(q, t)[j]]
  BY <1>1, SeqFun, Zenon
<1> QED
  BY <1>2, <1>3 DEF Ins

LEMMA InsertAtIns ==
  ASSUME NEW q \in Seq(Task), NEW t \in Task, NEW i \in 1 .. Len(q)
  PROVE  InsertAt(q, i, t) = Ins(q, i, t)
<1> DEFINE a == SubSeq(q, 1, i - 1)
           b == SubSeq(q, i, Len(q))
           c == a \o <<t>>
           r == c \o b
<1>1. /\ a \in Seq(Task) /\ Len(a) = i - 1 /\ \A j \in 1 .. i - 1 : a[j] = q[j]
      /\ b \in Seq(Task) /\ Len(b) = Len(q) - i + 1
      /\ \A j \in 1 .. Len(q) - i + 1 : b[j] = q[i + j - 1]
      /\ <<t>> \in Seq(Task) /\ Len(<<t>>) = 1 /\ <<t>>[1] = t
      /\ Len(q) \in Nat
  OBVIOUS
<1> HIDE DEF a, b
<1>2. /\ c \in Seq(Task) /\ Len(c) = i
      /\ \A j \in 1 .. i : c[j] = IF j < i THEN q[j] ELSE t
  <2>1. /\ c \in Seq(Task) /\ Len(c) = Len(a) + Len(<<t>>)
        /\ \A j \in 1 .. Len(a) + Len(<<t>>) :
             c[j] = IF j <= Len(a) THEN a[j] ELSE <<t>>[j - Len(a)]
    BY <1>1, ConcatProperties, ZenonT(30)
  <2> HIDE DEF c
  <2> QED
    BY <1>1, <2>1
<1> HIDE DEF c
<1>3. /\ r \in Seq(Task) /\ Len(r) = Len(c) + Len(b)
      /\ \A j \in 1 .. Len(c) + Len(b) :
           r[j] = IF j <= Len(c) THEN c[j] ELSE b[j - Len(c)]
  BY <1>1, <1>2, ConcatProperties, ZenonT(30)
<1> HIDE DEF r
<1>4. Len(c) + Len(b) = Len(q) + 1
  BY <1>1, <1>2
<1>5. \A j \in 1 .. Len(q) + 1 : r[j] =
        IF j < i THEN q[j] ELSE IF j = i THEN t ELSE q[j - 1]
  <2> SUFFICES ASSUME NEW j \in 1 .. Len(q) + 1
               PROVE  r[j] = IF j < i THEN q[j] ELSE IF j = i THEN t ELSE q[j - 1]
    OBVIOUS
  <2>1. CASE j <= i
    BY <2>1, <1>2, <1>3, <1>4
  <2>2. CASE j > i
    <3>1. j - i \in 1 .. Len(q) - i + 1 /\ i + (j - i) - 1 = j - 1
      BY <2>2, <1>1
    <3>2. r[j] = b[j - i]
      BY <2>2, <1>2, <1>3, <1>4
    <3> QED
      BY <2>2, <3>1, <3>2, <1>1
  <2> QED
    BY <2>1, <2>2, <1>1
<1>6. InsertAt(q, i, t) = r
  BY DEF InsertAt, a, b, c, r
<1>7. r = [j \in 1 .. Len(q) + 1 |-> r[j]]
  BY <1>3, <1>4, SeqFun, Zenon
<1> QED
  BY <1>5, <1>6, <1>7 DEF Ins

LEMMA RemoveAtDel ==
  ASSUME NEW q \in Seq(Task), NEW i \in 1 .. Len(q)
  PROVE  RemoveAt(q, i) = Del(q, i)
<1> DEFINE a == SubSeq(q, 1, i - 1)
           b == SubSeq(q, i + 1, Len(q))
           r == a \o b
<1>1. /\ a \in Seq(Task) /\ Len(a) = i - 1 /\ \A j \in 1 .. i - 1 : a[j] = q[j]
      /\ b \in Seq(Task) /\ Len(b) = Len(q) - i /\ \A j \in 1 .. Len(q) - i : b[j] = q[i + j]
      /\ Len(q) \in Nat
  OBVIOUS
<1> HIDE DEF a, b
<1>2. /\ r \in Seq(Task) /\ Len(r) = Len(a) + Len(b)
      /\ \A j \in 1 .. Len(a) + Len(b) : r[j] = IF j <= Len(a) THEN a[j] ELSE b[j - Len(a)]
  BY <1>1, ConcatProperties, ZenonT(30)
<1> HIDE DEF r
<1>3. /\ Len(a) + Len(b) = Len(q) - 1 /\ Len(a) = i - 1 /\ Len(q) \in Nat /\ i \in Nat
  BY <1>1
<1>a. /\ \A j \in 1 .. i - 1 : a[j] = q[j]
      /\ \A j \in 1 .. Len(q) - i : b[j] = q[i + j]
  BY <1>1
<1>4. \A j \in 1 .. Len(q) - 1 : r[j] = IF j < i THEN q[j] ELSE q[j + 1]
  <2> SUFFICES ASSUME NEW j \in 1 .. Len(q) - 1
               PROVE  r[j] = IF j < i THEN q[j] ELSE q[j + 1]
    OBVIOUS
  <2>1. CASE j < i
    <3>1. j \in 1 .. i - 1 /\ j \in 1 .. Len(a) + Len(b) /\ j <= Len(a)
      BY <2>1, <1>3
    <3>2. r[j] = q[j]
      BY <3>1, <1>2, <1>a, Zenon
    <3> QED
      BY <2>1, <3>2
  <2>2. CASE j >= i
    <3>1. j - (i - 1) \in 1 .. Len(q) - i /\ i + (j - (i - 1)) = j + 1
      BY <2>2, <1>3
    <3>2. j \in 1 .. Len(a) + Len(b) /\ ~(j <= Len(a)) /\ ~(j < i)
      BY <2>2, <1>3
    <3>3. r[j] = b[j - (i - 1)]
      BY <3>2, <1>2, <1>3, Zenon
    <3>4. r[j] = q[j + 1]
      BY <3>1, <3>3, <1>a, Zenon
    <3> QED
      BY <3>2, <3>4, Zenon
  <2> QED
    BY <2>1, <2>2, <1>1
<1>5. RemoveAt(q, i) = r
  BY DEF RemoveAt, a, b, r
<1>6. r = [j \in 1 .. Len(q) - 1 |-> r[j]]
  BY <1>2, <1>3, SeqFun, Zenon
<1> QED
  BY <1>4, <1>5, <1>6 DEF Del

LEMMA TailDel ==
  ASSUME NEW q \in Seq(Task), q # <<>>
  PROVE  Tail(q) = Del(q, 1) /\ Head(q) = q[1] /\ 1 \in 1 .. Len(q)
<1>1. /\ Tail(q) \in Seq(Task) /\ Len(Tail(q)) = Len(q) - 1 /\ Len(q) \in Nat /\ Len(q) >= 1
      /\ \A j \in 1 .. Len(q) - 1 : Tail(q)[j] = q[j + 1]
      /\ Head(q) = q[1]
  OBVIOUS
<1>2. \A j \in 1 .. Len(q) - 1 : Tail(q)[j] = IF j < 1 THEN q[j] ELSE q[j + 1]
  BY <1>1
<1>3. Tail(q) = [j \in 1 .. Len(q) - 1 |-> Tail(q)[j]]
  BY <1>1, SeqFun, Zenon
<1> QED
  BY <1>1, <1>2, <1>3 DEF Del

LEMMA InsFacts ==
  ASSUME NEW q \in Seq(Task), NEW t \in Task, NEW i \in 1 .. Len(q) + 1
  PROVE  /\ Ins(q, i, t) \in Seq(Task) /\ DOMAIN Ins(q, i, t) = 1 .. Len(q) + 1
         /\ Range(Ins(q, i, t)) = Range(q) \cup {t}
         /\ IsInjective(q) /\ t \notin Range(q) => IsInjective(Ins(q, i, t))
<1> DEFINE r == Ins(q, i, t)
<1>1. /\ DOMAIN r = 1 .. Len(q) + 1 /\ Len(q) \in Nat /\ DOMAIN q = 1 .. Len(q)
      /\ r = [j \in 1 .. Len(q) + 1 |-> IF j < i THEN q[j] ELSE IF j = i THEN t ELSE q[j - 1]]
      /\ \A j \in 1 .. Len(q) + 1 : r[j] = IF j < i THEN q[j] ELSE IF j = i THEN t ELSE q[j - 1]
      /\ \A j \in 1 .. Len(q) : q[j] \in Task
  BY DEF Ins
<1> HIDE DEF r
<1>2. \A j \in 1 .. Len(q) + 1 : r[j] \in Task
  BY <1>1
<1>3. r \in Seq(Task)
  <2>1. r \in [1 .. Len(q) + 1 -> Task]
    BY <1>1, <1>2
  <2> QED
    BY <1>1, <2>1, IsASeq
<1>4. Range(r) = Range(q) \cup {t}
  <2>1. ASSUME NEW j \in 1 .. Len(q) + 1 PROVE r[j] \in Range(q) \cup {t}
    <3>1. \/ j \in DOMAIN q /\ r[j] = q[j]
          \/ r[j] = t
          \/ j - 1 \in DOMAIN q /\ r[j] = q[j - 1]
      BY <1>1
    <3> QED
      BY <3>1, InRange
  <2>2. ASSUME NEW j \in 1 .. Len(q) PROVE q[j] \in Range(r)
    <3>1. PICK k \in DOMAIN r : r[k] = q[j]
      <4>1. CASE j < i
        <5>1. j \in DOMAIN r /\ r[j] = q[j]
          BY <4>1, <1>1
        <5> QED
          BY <5>1
      <4>2. CASE j >= i
        <5>1. j + 1 \in DOMAIN r /\ r[j + 1] = q[j]
          BY <4>2, <1>1
        <5> QED
          BY <5>1
      <4> QED
        BY <4>1, <4>2, <1>1
    <3> QED
      BY <3>1, InRange
  <2>3. t \in Range(r)
    <3>1. i \in DOMAIN r /\ r[i] = t
      BY <1>1
    <3> QED
      BY <3>1, InRange
  <2>4. Range(r) \subseteq Range(q) \cup {t}
    BY <1>1, <2>1 DEF Range
  <2>5. Range(q) \subseteq Range(r)
    BY <1>1, <2>2 DEF Range
  <2> QED
    BY <2>3, <2>4, <2>5
<1>5. ASSUME IsInjective(q), t \notin Range(q) PROVE IsInjective(r)
  <2> SUFFICES ASSUME NEW j \in 1 .. Len(q) + 1, NEW k \in 1 .. Len(q) + 1, r[j] = r[k]
               PROVE  j = k
    BY <1>1 DEF IsInjective
  <2>1. \A m, n \in 1 .. Len(q) : q[m] = q[n] => m = n
    BY <1>1, <1>5, SMTT(30) DEF IsInjective
  <2>2. \A m \in 1 .. Len(q) : q[m] # t
    BY <1>1, <1>5, InRange
  <2> DEFINE at(n) == IF n < i THEN n ELSE n - 1
  <2>3. \A n \in 1 .. Len(q) + 1 : n # i => at(n) \in 1 .. Len(q) /\ r[n] = q[at(n)]
    BY <1>1
  <2>4. r[i] = t
    BY <1>1
  <2>5. j # i /\ k # i => at(j) = at(k)
    BY <2>1, <2>3
  <2>6. j = i <=> k = i
    BY <2>2, <2>3, <2>4
  <2> QED
    BY <2>5, <2>6, <1>1
<1> QED
  BY <1>1, <1>3, <1>4, <1>5 DEF r

LEMMA DelFacts ==
  ASSUME NEW q \in Seq(Task), NEW i \in 1 .. Len(q)
  PROVE  /\ Del(q, i) \in Seq(Task) /\ DOMAIN Del(q, i) = 1 .. Len(q) - 1
         /\ IsInjective(q) => /\ IsInjective(Del(q, i))
                              /\ Range(Del(q, i)) = Range(q) \ {q[i]}
<1> DEFINE r == Del(q, i)
<1>1. /\ DOMAIN r = 1 .. Len(q) - 1 /\ Len(q) \in Nat /\ DOMAIN q = 1 .. Len(q)
      /\ r = [j \in 1 .. Len(q) - 1 |-> IF j < i THEN q[j] ELSE q[j + 1]]
      /\ \A j \in 1 .. Len(q) - 1 : r[j] = IF j < i THEN q[j] ELSE q[j + 1]
      /\ \A j \in 1 .. Len(q) : q[j] \in Task
  BY DEF Del
<1> HIDE DEF r
<1>2. r \in Seq(Task)
  <2>1. r \in [1 .. Len(q) - 1 -> Task] /\ Len(q) - 1 \in Nat
    BY <1>1
  <2> QED
    BY <1>1, <2>1, IsASeq
<1>3. ASSUME IsInjective(q) PROVE IsInjective(r) /\ Range(r) = Range(q) \ {q[i]}
  <2>1. \A m, n \in 1 .. Len(q) : q[m] = q[n] => m = n
    BY <1>1, <1>3 DEF IsInjective
  <2>2. IsInjective(r)
    <3> SUFFICES ASSUME NEW j \in 1 .. Len(q) - 1, NEW k \in 1 .. Len(q) - 1, r[j] = r[k]
                 PROVE  j = k
      BY <1>1, Zenon DEF IsInjective
    <3> QED
      BY <1>1, <2>1
  <2>3. ASSUME NEW j \in 1 .. Len(q) - 1 PROVE r[j] \in Range(q) \ {q[i]}
    <3>1. PICK k \in 1 .. Len(q) : k # i /\ r[j] = q[k]
      <4>1. CASE j < i
        BY <4>1, <1>1
      <4>2. CASE j >= i
        <5>1. j + 1 \in 1 .. Len(q) /\ j + 1 # i /\ r[j] = q[j + 1]
          BY <4>2, <1>1
        <5> QED
          BY <5>1
      <4> QED
        BY <4>1, <4>2, <1>1
    <3> QED
      BY <3>1, <2>1, <1>1, InRange
  <2>4. ASSUME NEW j \in 1 .. Len(q), j # i PROVE q[j] \in Range(r)
    <3>1. CASE j < i
      <4>1. j \in DOMAIN r /\ r[j] = q[j]
        BY <3>1, <1>1
      <4> QED
        BY <4>1, InRange
    <3>2. CASE j > i
      <4>1. j - 1 \in DOMAIN r /\ r[j - 1] = q[j]
        BY <3>2, <1>1
      <4> QED
        BY <4>1, InRange
    <3> QED
      BY <2>4, <3>1, <3>2, <1>1
  <2>5. Range(r) \subseteq Range(q) \ {q[i]}
    BY <1>1, <2>3 DEF Range
  <2>6. Range(q) \ {q[i]} \subseteq Range(r)
    BY <1>1, <2>4 DEF Range
  <2> QED
    BY <2>2, <2>5, <2>6
<1> QED
  BY <1>1, <1>2, <1>3 DEF r

LEMMA InsSorted ==
  ASSUME NEW q \in Seq(Task), NEW t \in Task, NEW i \in 1 .. Len(q) + 1, NEW R,
         Sorted(q, R),
         \A j \in 1 .. Len(q) : j < i => <<q[j], t>> \in R,
         \A j \in 1 .. Len(q) : j >= i => <<t, q[j]>> \in R
  PROVE  Sorted(Ins(q, i, t), R)
<1> DEFINE r == Ins(q, i, t)
<1>1. /\ DOMAIN r = 1 .. Len(q) + 1 /\ Len(q) \in Nat /\ DOMAIN q = 1 .. Len(q)
      /\ \A j \in 1 .. Len(q) + 1 : r[j] = IF j < i THEN q[j] ELSE IF j = i THEN t ELSE q[j - 1]
  BY DEF Ins
<1> HIDE DEF r
<1> SUFFICES ASSUME NEW j \in 1 .. Len(q) + 1, NEW k \in 1 .. Len(q) + 1, j < k
             PROVE  <<r[j], r[k]>> \in R
  BY <1>1 DEF Sorted, r
<1>2. \A m, n \in 1 .. Len(q) : m < n => <<q[m], q[n]>> \in R
  BY <1>1, SMTT(30) DEF Sorted
<1>3. CASE k < i
  <2>1. j \in 1 .. Len(q) /\ k \in 1 .. Len(q) /\ r[j] = q[j] /\ r[k] = q[k]
    BY <1>1, <1>3
  <2> QED
    BY <2>1, <1>2
<1>4. CASE k = i
  <2>1. j \in 1 .. Len(q) /\ r[j] = q[j] /\ r[k] = t /\ j < i
    BY <1>1, <1>4
  <2> QED
    BY <2>1
<1>5. CASE k > i
  <2>1. k - 1 \in 1 .. Len(q) /\ r[k] = q[k - 1] /\ k - 1 >= i
    BY <1>1, <1>5
  <2>2. CASE j < i
    <3>1. j \in 1 .. Len(q) /\ r[j] = q[j] /\ j < k - 1
      BY <1>1, <1>5, <2>2
    <3> QED
      BY <2>1, <3>1, <1>2
  <2>3. CASE j = i
    BY <1>1, <2>1, <2>3
  <2>4. CASE j > i
    <3>1. j - 1 \in 1 .. Len(q) /\ r[j] = q[j - 1] /\ j - 1 < k - 1
      BY <1>1, <2>4
    <3> QED
      BY <2>1, <3>1, <1>2
  <2> QED
    BY <2>2, <2>3, <2>4
<1> QED
  BY <1>3, <1>4, <1>5

LEMMA DelSorted ==
  ASSUME NEW q \in Seq(Task), NEW i \in 1 .. Len(q), NEW R, Sorted(q, R)
  PROVE  Sorted(Del(q, i), R)
<1> DEFINE r == Del(q, i)
           at(j) == IF j < i THEN j ELSE j + 1
<1>1. /\ DOMAIN r = 1 .. Len(q) - 1 /\ Len(q) \in Nat /\ DOMAIN q = 1 .. Len(q)
      /\ \A j \in 1 .. Len(q) - 1 : r[j] = q[at(j)] /\ at(j) \in 1 .. Len(q)
      /\ \A j, k \in 1 .. Len(q) - 1 : j < k => at(j) < at(k)
  BY DEF Del
<1> HIDE DEF r, at
<1>2. \A m, n \in 1 .. Len(q) : m < n => <<q[m], q[n]>> \in R
  BY <1>1, Zenon DEF Sorted
<1>3. \A j, k \in 1 .. Len(q) - 1 : j < k => <<r[j], r[k]>> \in R
  BY <1>1, <1>2
<1> QED
  BY <1>1, <1>3 DEF Sorted, r

-----------------------------------------------------------------------------
(***************************************************************************)
(* The queues.  A deadline that has passed so long ago that its age is no  *)
(* longer counted is earlier than any whose period is running, so it may   *)
(* stay where it is; and the first entry later than a task has only later  *)
(* ones behind it, as far as their periods are running.                    *)
(***************************************************************************)
Edf(d) == {p \in Task \X Task : ~needs_new_period(p[2], d) =>
             absolute_deadline(p[1], d) <= absolute_deadline(p[2], d)}

ByVruntime(v) == {p \in Task \X Task : v[p[1]] <= v[p[2]]}

Records == [Task -> {None} \cup Record]
Vruntimes == [Task -> 0..MAX_VRUNTIME]
Runqueue == [deadline : Seq(Task), game : Seq(Task), normal : Seq(Task)]

QueueInv(q, d, v) ==
  /\ q \in Runqueue
  /\ IsInjective(q.deadline) /\ IsInjective(q.game) /\ IsInjective(q.normal)
  /\ \A t \in Range(q.deadline) : d[t] # None
  /\ Sorted(q.deadline, Edf(d))
  /\ Sorted(q.normal, ByVruntime(v))

LEMMA MinFirst ==
  ASSUME NEW I, I \subseteq Nat, I # {}
  PROVE  Min(I) \in I /\ \A j \in I : Min(I) <= j
<1>1. PICK i \in I : \A j \in I : ~(<<j, i>> \in OpToRel(<, Nat))
  BY WFMin, NatLessThanWellFounded, ZenonT(30)
<1>2. ASSUME NEW j \in I PROVE i <= j
  <2>1. i \in Nat /\ j \in Nat
    OBVIOUS
  <2>2. j < i => <<j, i>> \in OpToRel(<, Nat)
    BY <2>1, Zenon DEF OpToRel
  <2>3. ~(j < i)
    BY <2>2, <1>1, Zenon
  <2> QED
    BY <2>1, <2>3
<1> QED
  BY <1>2, Zenon DEF Min

\* The position of the first entry in I, or the one after the last.
LEMMA FirstPosition ==
  ASSUME NEW q \in Seq(Task), NEW t \in Task, NEW I \in SUBSET (1 .. Len(q)), NEW r,
         r = LET i == IF I # {} THEN Min(I) ELSE 0
             IN  IF i = 0 THEN Append(q, t) ELSE InsertAt(q, i, t)
  PROVE  \E i \in 1 .. Len(q) + 1 :
           /\ r = Ins(q, i, t)
           /\ \A j \in 1 .. Len(q) : j < i => j \notin I
           /\ i \in 1 .. Len(q) => i \in I
<1>0. Len(q) \in Nat
  OBVIOUS
<1>1. CASE I = {}
  <2>1. r = Ins(q, Len(q) + 1, t) /\ Len(q) + 1 \in 1 .. Len(q) + 1
        /\ Len(q) + 1 \notin 1 .. Len(q)
    BY <1>0, <1>1, AppendIns
  <2> QED
    BY <1>1, <2>1
<1>2. CASE I # {}
  <2>a. I \subseteq Nat
    BY <1>0
  <2>b. Min(I) \in I /\ \A j \in I : Min(I) <= j
    BY <1>2, <2>a, MinFirst, Zenon
  <2>1. Min(I) \in I /\ (\A j \in I : Min(I) <= j) /\ Min(I) \in 1 .. Len(q)
    BY <2>b, Zenon
  <2>2. Min(I) # 0 /\ Min(I) \in 1 .. Len(q) + 1
    BY <1>0, <2>1
  <2>3. r = Ins(q, Min(I), t)
    BY <1>2, <2>1, <2>2, InsertAtIns
  <2>4. \A j \in 1 .. Len(q) : j < Min(I) => j \notin I
    BY <1>0, <2>1
  <2> QED
    BY <2>1, <2>2, <2>3, <2>4
<1> QED
  BY <1>1, <1>2

LEMMA InsertNormal ==
  ASSUME NEW q \in Seq(Task), NEW t \in Task, NEW v
  PROVE  \E i \in 1 .. Len(q) + 1 :
           /\ insert_normal_sorted(q, t, v) = Ins(q, i, t)
           /\ \A j \in 1 .. Len(q) : j < i => ~(v[q[j]] > v[t])
           /\ i \in 1 .. Len(q) => v[q[i]] > v[t]
<1> DEFINE I == {i \in 1 .. Len(q) : v[q[i]] > v[t]}
           r == insert_normal_sorted(q, t, v)
<1>1. r = LET i == IF I # {} THEN Min(I) ELSE 0
          IN  IF i = 0 THEN Append(q, t) ELSE InsertAt(q, i, t)
  BY DEF insert_normal_sorted, InsertBefore, SelectInSeq
<1>2. I \in SUBSET (1 .. Len(q))
  OBVIOUS
<1>3. \A j \in 1 .. Len(q) : j \in I <=> v[q[j]] > v[t]
  OBVIOUS
<1> HIDE DEF I, r
<1>4. PICK i \in 1 .. Len(q) + 1 : /\ r = Ins(q, i, t)
                                   /\ \A j \in 1 .. Len(q) : j < i => j \notin I
                                   /\ i \in 1 .. Len(q) => i \in I
  BY <1>1, <1>2, FirstPosition
<1> QED
  BY <1>3, <1>4, Zenon DEF r

LEMMA InsertDeadline ==
  ASSUME NEW q \in Seq(Task), NEW t \in Task, NEW d
  PROVE  \E i \in 1 .. Len(q) + 1 :
           /\ insert_deadline_sorted(q, t, d) = Ins(q, i, t)
           /\ \A j \in 1 .. Len(q) : j < i =>
                ~(d[q[j]] = None \/ absolute_deadline(q[j], d) > absolute_deadline(t, d))
           /\ i \in 1 .. Len(q) =>
                d[q[i]] = None \/ absolute_deadline(q[i], d) > absolute_deadline(t, d)
<1> DEFINE later(j) == d[q[j]] = None \/ absolute_deadline(q[j], d) > absolute_deadline(t, d)
           I == {i \in 1 .. Len(q) : later(i)}
           r == insert_deadline_sorted(q, t, d)
<1>1. r = LET i == IF I # {} THEN Min(I) ELSE 0
          IN  IF i = 0 THEN Append(q, t) ELSE InsertAt(q, i, t)
  BY DEF insert_deadline_sorted, InsertBefore, SelectInSeq
<1>2. I \in SUBSET (1 .. Len(q))
  OBVIOUS
<1> HIDE DEF later
<1>3. \A j \in 1 .. Len(q) : j \in I <=> later(j)
  OBVIOUS
<1> HIDE DEF I, r
<1>4. PICK i \in 1 .. Len(q) + 1 : /\ r = Ins(q, i, t)
                                   /\ \A j \in 1 .. Len(q) : j < i => j \notin I
                                   /\ i \in 1 .. Len(q) => i \in I
  BY <1>1, <1>2, FirstPosition
<1> QED
  BY <1>3, <1>4, Zenon DEF r, later

LEMMA SortedAt ==
  ASSUME NEW q \in Seq(Task), NEW R, Sorted(q, R), NEW i \in 1 .. Len(q), NEW j \in 1 .. Len(q),
         i < j
  PROVE  <<q[i], q[j]>> \in R
<1>1. DOMAIN q = 1 .. Len(q)
  OBVIOUS
<1> QED
  BY <1>1, Zenon DEF Sorted

LEMMA RecordFacts ==
  ASSUME NEW d \in Records, NEW t \in Task, d[t] # None
  PROVE  /\ d[t] \in Record /\ d[t].age \in Nat /\ d[t].age <= MaxAge
         /\ deadline_us[t] \in Nat /\ period_us[t] \in Nat \ {0}
         /\ absolute_deadline(t, d) \in Int
<1>1. d[t] \in Record
  BY DEF Records
<1>2. d[t].age \in Nat /\ d[t].age <= MaxAge
  BY <1>1, PickAssumption DEF Record
<1>3. deadline_us[t] \in Nat /\ period_us[t] \in Nat \ {0}
  BY PickAssumption, SMTT(30)
<1> QED
  BY <1>1, <1>2, <1>3 DEF absolute_deadline

\* A task joins the queue of its class, which it is not in, and no other.
LEMMA EnqueueKeeps ==
  ASSUME NEW q, NEW d \in Records, NEW v \in Vruntimes, NEW t \in Task, QueueInv(q, d, v),
         t \notin Range(q.deadline), t \notin Range(q.game), t \notin Range(q.normal),
         NEW r, r = enqueue(q, t, d, v)
  PROVE  /\ QueueInv(r, d, v)
         /\ \/ /\ Range(r.deadline) = Range(q.deadline) \cup {t}
               /\ Range(r.game) = Range(q.game) /\ Range(r.normal) = Range(q.normal)
            \/ /\ Range(r.game) = Range(q.game) \cup {t}
               /\ Range(r.deadline) = Range(q.deadline) /\ Range(r.normal) = Range(q.normal)
            \/ /\ Range(r.normal) = Range(q.normal) \cup {t}
               /\ Range(r.deadline) = Range(q.deadline) /\ Range(r.game) = Range(q.game)
<1>0. q \in Runqueue /\ q.deadline \in Seq(Task) /\ q.game \in Seq(Task) /\ q.normal \in Seq(Task)
  BY DEF QueueInv, Runqueue
<1>1. CASE priority[t] = "Game" /\ d[t] # None
  <2>1. r = [q EXCEPT !.deadline = insert_deadline_sorted(q.deadline, t, d)]
    BY <1>1 DEF enqueue
  <2> DEFINE s == q.deadline
  <2>2. PICK i \in 1 .. Len(s) + 1 :
          /\ insert_deadline_sorted(s, t, d) = Ins(s, i, t)
          /\ \A j \in 1 .. Len(s) : j < i =>
               ~(d[s[j]] = None \/ absolute_deadline(s[j], d) > absolute_deadline(t, d))
          /\ i \in 1 .. Len(s) =>
               d[s[i]] = None \/ absolute_deadline(s[i], d) > absolute_deadline(t, d)
    BY <1>0, InsertDeadline, Zenon
  <2>3. /\ Ins(s, i, t) \in Seq(Task) /\ Range(Ins(s, i, t)) = Range(s) \cup {t}
        /\ IsInjective(Ins(s, i, t))
    BY <1>0, InsFacts DEF QueueInv
  <2>4. /\ r \in Runqueue /\ r.deadline = Ins(s, i, t) /\ r.game = q.game /\ r.normal = q.normal
    BY <1>0, <2>1, <2>2, <2>3, Zenon DEF Runqueue
  <2>5. \A j \in 1 .. Len(s) : s[j] \in Task /\ s[j] \in Range(s) /\ d[s[j]] \in Record
    <3>1. \A j \in 1 .. Len(s) : s[j] \in Task /\ s[j] \in Range(s)
      BY <1>0, InRange
    <3>2. \A j \in 1 .. Len(s) : d[s[j]] # None
      BY <3>1 DEF QueueInv
    <3> QED
      BY <3>1, <3>2 DEF Records
  <2>6. \A j \in 1 .. Len(s) : absolute_deadline(s[j], d) \in Int
    BY <2>5, PickAssumption, RecordFacts, Zenon
  <2>7. absolute_deadline(t, d) \in Int
    BY <1>1, RecordFacts, SMTT(30)
  <2>8. \A j \in 1 .. Len(s) : j < i => <<s[j], t>> \in Edf(d)
    BY <2>2, <2>5, <2>6, <2>7, SMTT(30) DEF Edf
  <2>9. ASSUME NEW j \in 1 .. Len(s), j >= i PROVE <<t, s[j]>> \in Edf(d)
    <3>1. i \in 1 .. Len(s) /\ absolute_deadline(s[i], d) > absolute_deadline(t, d)
      <4>1. i \in 1 .. Len(s)
        BY <1>0, <2>9
      <4>2. d[s[i]] # None
        BY <4>1, <2>5, PickAssumption
      <4> QED
        BY <4>1, <4>2, <2>2
    <3> SUFFICES ASSUME ~needs_new_period(s[j], d)
                 PROVE  absolute_deadline(t, d) <= absolute_deadline(s[j], d)
      BY <2>5 DEF Edf
    <3>2. i < j => <<s[i], s[j]>> \in Edf(d)
      BY <1>0, <3>1, SortedAt DEF QueueInv
    <3>3. i < j => absolute_deadline(s[i], d) <= absolute_deadline(s[j], d)
      BY <3>2 DEF Edf
    <3> HIDE DEF s
    <3> QED
      BY <3>1, <3>3, <2>6, <2>7, <2>9, SMTT(30)
  <2>10. Sorted(r.deadline, Edf(d))
    BY <1>0, <2>4, <2>8, <2>9, InsSorted, Zenon DEF QueueInv
  <2>11. \A u \in Range(r.deadline) : d[u] # None
    BY <1>1, <2>3, <2>4 DEF QueueInv
  <2> QED
    BY <2>3, <2>4, <2>10, <2>11, SMTT(30) DEF QueueInv
<1>2. CASE priority[t] = "Game" /\ d[t] = None
  <2>1. r = [q EXCEPT !.game = Append(q.game, t)]
    BY <1>2 DEF enqueue
  <2>2. /\ Append(q.game, t) \in Seq(Task) /\ Range(Append(q.game, t)) = Range(q.game) \cup {t}
        /\ IsInjective(Append(q.game, t))
    <3>1. Append(q.game, t) = Ins(q.game, Len(q.game) + 1, t)
      BY <1>0, AppendIns
    <3>2. Len(q.game) + 1 \in 1 .. Len(q.game) + 1
      BY <1>0
    <3>3. IsInjective(q.game) /\ t \notin Range(q.game)
      BY DEF QueueInv
    <3> HIDE DEF QueueInv
    <3> QED
      BY <1>0, <3>1, <3>2, <3>3, InsFacts
  <2>3. /\ r \in Runqueue /\ r.game = Append(q.game, t)
        /\ r.deadline = q.deadline /\ r.normal = q.normal
    BY <1>0, <2>1, <2>2, Zenon DEF Runqueue
  <2> QED
    BY <2>2, <2>3, Zenon DEF QueueInv
<1>3. CASE priority[t] # "Game"
  <2>1. r = [q EXCEPT !.normal = insert_normal_sorted(q.normal, t, v)]
    BY <1>3 DEF enqueue
  <2> DEFINE s == q.normal
  <2>2. PICK i \in 1 .. Len(s) + 1 :
          /\ insert_normal_sorted(s, t, v) = Ins(s, i, t)
          /\ \A j \in 1 .. Len(s) : j < i => ~(v[s[j]] > v[t])
          /\ i \in 1 .. Len(s) => v[s[i]] > v[t]
    BY <1>0, InsertNormal, Zenon
  <2>3. /\ Ins(s, i, t) \in Seq(Task) /\ Range(Ins(s, i, t)) = Range(s) \cup {t}
        /\ IsInjective(Ins(s, i, t))
    BY <1>0, InsFacts DEF QueueInv
  <2>4. /\ r \in Runqueue /\ r.normal = Ins(s, i, t) /\ r.game = q.game /\ r.deadline = q.deadline
    BY <1>0, <2>1, <2>2, <2>3, Zenon DEF Runqueue
  <2>5. (\A j \in 1 .. Len(s) : s[j] \in Task /\ v[s[j]] \in Int) /\ v[t] \in Int
    BY <1>0 DEF Vruntimes
  <2>6. \A j \in 1 .. Len(s) : j < i => <<s[j], t>> \in ByVruntime(v)
    BY <2>2, <2>5, SMTT(30) DEF ByVruntime
  <2>7. ASSUME NEW j \in 1 .. Len(s), j >= i PROVE <<t, s[j]>> \in ByVruntime(v)
    <3>1. i \in 1 .. Len(s) /\ v[s[i]] > v[t]
      BY <1>0, <2>2, <2>7
    <3>2. i < j => <<s[i], s[j]>> \in ByVruntime(v)
      BY <1>0, <3>1, SortedAt DEF QueueInv
    <3>3. i < j => v[s[i]] <= v[s[j]]
      BY <3>2 DEF ByVruntime
    <3>4. v[t] <= v[s[j]]
      <4> HIDE DEF s
      <4> QED
        BY <3>1, <3>3, <2>5, <2>7
    <3> QED
      BY <3>4, <2>5 DEF ByVruntime
  <2>8. Sorted(r.normal, ByVruntime(v))
    BY <1>0, <2>4, <2>6, <2>7, InsSorted, Zenon DEF QueueInv
  <2> QED
    BY <2>3, <2>4, <2>8 DEF QueueInv
<1> QED
  BY <1>1, <1>2, <1>3, SMTT(90)

\* What happens to the records of tasks outside the queues is of no account.
LEMMA RecordsKeep ==
  ASSUME NEW q, NEW d, NEW v, QueueInv(q, d, v), NEW e, NEW w,
         \A t \in Range(q.deadline) : e[t] = d[t],
         \A t \in Range(q.normal) : w[t] = v[t]
  PROVE  QueueInv(q, e, w)
<1>1. q.deadline \in Seq(Task) /\ q.normal \in Seq(Task)
  BY DEF QueueInv, Runqueue
<1>2. /\ \A i \in DOMAIN q.deadline : q.deadline[i] \in Task /\ e[q.deadline[i]] = d[q.deadline[i]]
      /\ \A i \in DOMAIN q.normal : q.normal[i] \in Task /\ w[q.normal[i]] = v[q.normal[i]]
  BY <1>1, InRange
<1>3. Sorted(q.deadline, Edf(e))
  BY <1>2 DEF QueueInv, Sorted, Edf, needs_new_period, absolute_deadline
<1>4. Sorted(q.normal, ByVruntime(w))
  BY <1>2 DEF QueueInv, Sorted, ByVruntime
<1> QED
  BY <1>3, <1>4 DEF QueueInv

-----------------------------------------------------------------------------
(***************************************************************************)
(* The queues with no task in two of them.                                 *)
(***************************************************************************)
Tasks(q) == Range(q.deadline) \cup Range(q.game) \cup Range(q.normal)

QInv(q, d, v) ==
  /\ QueueInv(q, d, v)
  /\ Range(q.deadline) \cap Range(q.game) = {}
  /\ Range(q.deadline) \cap Range(q.normal) = {}
  /\ Range(q.game) \cap Range(q.normal) = {}

LEMMA Enqueued ==
  ASSUME NEW q, NEW d \in Records, NEW v \in Vruntimes, NEW t \in Task, QInv(q, d, v),
         t \notin Tasks(q), NEW r, r = enqueue(q, t, d, v)
  PROVE  QInv(r, d, v) /\ Tasks(r) = Tasks(q) \cup {t}
<1>1. /\ QueueInv(q, d, v)
      /\ t \notin Range(q.deadline) /\ t \notin Range(q.game) /\ t \notin Range(q.normal)
  BY Zenon DEF QInv, Tasks
<1>2. /\ QueueInv(r, d, v)
      /\ \/ /\ Range(r.deadline) = Range(q.deadline) \cup {t}
            /\ Range(r.game) = Range(q.game) /\ Range(r.normal) = Range(q.normal)
         \/ /\ Range(r.game) = Range(q.game) \cup {t}
            /\ Range(r.deadline) = Range(q.deadline) /\ Range(r.normal) = Range(q.normal)
         \/ /\ Range(r.normal) = Range(q.normal) \cup {t}
            /\ Range(r.deadline) = Range(q.deadline) /\ Range(r.game) = Range(q.game)
  BY <1>1, EnqueueKeeps, SMTT(30)
<1> HIDE DEF QueueInv, Range
<1> QED
  BY <1>1, <1>2 DEF QInv, Tasks

Drop(q, c, i) == [q EXCEPT ![c] = Del(q[c], i)]

\* An entry leaves its queue.
LEMMA Dequeued ==
  ASSUME NEW q, NEW d, NEW v, QInv(q, d, v), NEW c, c \in {"deadline", "game", "normal"},
         NEW i, i \in 1 .. Len(q[c])
  PROVE  /\ QInv(Drop(q, c, i), d, v) /\ q[c][i] \in Task /\ q[c][i] \in Tasks(q)
         /\ Tasks(Drop(q, c, i)) = Tasks(q) \ {q[c][i]}
<1> DEFINE r == Drop(q, c, i)
<1>0. QueueInv(q, d, v)
  BY DEF QInv
<1>1. q \in Runqueue /\ q[c] \in Seq(Task) /\ IsInjective(q[c])
  BY <1>0 DEF QueueInv, Runqueue
<1>2. /\ Del(q[c], i) \in Seq(Task) /\ IsInjective(Del(q[c], i))
      /\ Range(Del(q[c], i)) = Range(q[c]) \ {q[c][i]}
  BY <1>1, DelFacts, Zenon
<1>3. /\ r \in Runqueue
      /\ \A e \in {"deadline", "game", "normal"} : r[e] = IF e = c THEN Del(q[c], i) ELSE q[e]
  BY <1>1, <1>2, SMTT(30) DEF Drop, Runqueue
<1> HIDE DEF r
<1>4. \A e \in {"deadline", "game", "normal"} :
        Range(r[e]) = IF e = c THEN Range(q[e]) \ {q[c][i]} ELSE Range(q[e])
  <2> SUFFICES ASSUME NEW e \in {"deadline", "game", "normal"}
               PROVE  Range(r[e]) = IF e = c THEN Range(q[e]) \ {q[c][i]} ELSE Range(q[e])
    BY Zenon
  <2>1. CASE e = c
    <3>1. r[e] = Del(q[c], i)
      BY <1>3, <2>1, Zenon
    <3>2. Range(r[e]) = Range(q[c]) \ {q[c][i]}
      BY <1>2, <3>1
    <3>3. q[e] = q[c]
      BY <2>1
    <3> HIDE DEF Range
    <3> QED
      BY <2>1, <3>2, <3>3
  <2>2. CASE e # c
    <3>1. r[e] = q[e]
      BY <1>3, <2>2, Zenon
    <3> QED
      BY <2>2, <3>1
  <2> QED
    BY <2>1, <2>2
<1>5. \A R : Sorted(q[c], R) => Sorted(Del(q[c], i), R)
  BY <1>1, DelSorted
<1>6. q[c][i] \in Task /\ q[c][i] \in Range(q[c])
  BY <1>1, InRange
<1>7. QueueInv(r, d, v)
  <2>1. \A e \in {"deadline", "game", "normal"} : IsInjective(r[e])
    BY <1>2, <1>3, <1>0, Zenon DEF QueueInv
  <2>2. Sorted(r["deadline"], Edf(d)) /\ Sorted(r["normal"], ByVruntime(v))
    BY <1>3, <1>5, <1>0, Zenon DEF QueueInv
  <2>3. \A t \in Range(r["deadline"]) : d[t] # None
    BY <1>4, <1>0, SMTT(30) DEF QueueInv
  <2> QED
    BY <1>3, <2>1, <2>2, <2>3, <1>0, Zenon DEF QueueInv
<1> DEFINE x == q[c][i]
<1> HIDE DEF x
<1>8. /\ Range(r["deadline"]) = IF c = "deadline" THEN Range(q["deadline"]) \ {x}
                               ELSE Range(q["deadline"])
      /\ Range(r["game"]) = IF c = "game" THEN Range(q["game"]) \ {x} ELSE Range(q["game"])
      /\ Range(r["normal"]) = IF c = "normal" THEN Range(q["normal"]) \ {x}
                             ELSE Range(q["normal"])
      /\ x \in Range(q[c])
  BY <1>4, <1>6 DEF x
<1> HIDE DEF Range
<1>9. /\ QInv(r, d, v) /\ x \in Tasks(q) /\ Tasks(r) = Tasks(q) \ {x}
  <2>1. CASE c = "deadline"
    BY <1>7, <1>8, <2>1, SMTT(90) DEF QInv, Tasks
  <2>2. CASE c = "game"
    BY <1>7, <1>8, <2>2, SMTT(30) DEF QInv, Tasks
  <2>3. CASE c = "normal"
    BY <1>7, <1>8, <2>3 DEF QInv, Tasks
  <2> QED
    BY <2>1, <2>2, <2>3, SMTT(30)
<1> QED
  BY <1>6, <1>9 DEF x, r

LEMMA RecordsKeepQ ==
  ASSUME NEW q, NEW d, NEW v, QInv(q, d, v), NEW e, NEW w,
         \A t \in Tasks(q) : e[t] = d[t] /\ w[t] = v[t]
  PROVE  QInv(q, e, w)
<1>1. /\ \A t \in Range(q.deadline) : e[t] = d[t]
      /\ \A t \in Range(q.normal) : w[t] = v[t]
  BY Zenon DEF Tasks
<1>2. QueueInv(q, e, w)
  BY <1>1, RecordsKeep, Zenon DEF QInv
<1> QED
  BY <1>2, Zenon DEF QInv

-----------------------------------------------------------------------------
(***************************************************************************)
(* pick_next.                                                              *)
(***************************************************************************)
GameModes == [active : BOOLEAN, phase : 0..(THROTTLE_RATIO - 1), credit : 0..MaxCredit]

FirstRunnable(q, d) == SelectInSeq(q, LAMBDA t : Runnable(t, d))

LEMMA SelectedPosition ==
  ASSUME NEW q \in Seq(Task), NEW d, FirstRunnable(q, d) # 0
  PROVE  FirstRunnable(q, d) \in 1 .. Len(q)
<1> DEFINE i == FirstRunnable(q, d)
<1> DEFINE I == {k \in 1 .. Len(q) : Runnable(q[k], d)}
<1>1. i = IF I # {} THEN Min(I) ELSE 0
  BY DEF FirstRunnable, SelectInSeq
<1>2. I \subseteq 1 .. Len(q) /\ I \subseteq Nat
  OBVIOUS
<1> HIDE DEF I, i
<1>3. I # {} /\ i = Min(I)
  BY <1>1 DEF i
<1>4. Min(I) \in I
  BY <1>2, <1>3, MinFirst, Zenon
<1> QED
  BY <1>2, <1>3, <1>4, Zenon DEF i

LEMMA WakeRecord ==
  ASSUME NEW d \in Records, NEW t \in Task, d[t] # None
  PROVE  /\ [d EXCEPT ![t] = wake(@)] \in Records
         /\ \A u \in Task \ {t} : [d EXCEPT ![t] = wake(@)][u] = d[u]
<1>0. d[t] \in Record
  BY DEF Records
<1>a. 0 \in 0..MaxAge
  BY PickAssumption
<1>1. wake(d[t]) \in Record
  BY <1>0, <1>a, Zenon DEF wake, Record
<1> QED
  BY <1>1 DEF Records

LEMMA ChargeType ==
  ASSUME NEW g \in GameModes, can_run_background(g)
  PROVE  charge_background(g) \in GameModes
<1>1. g.active => g.credit > 0
  BY DEF can_run_background
<1>2. MaxCredit \in Nat
  BY PickAssumption
<1> QED
  BY <1>1, <1>2 DEF charge_background, GameModes

LEMMA TickType ==
  ASSUME NEW g \in GameModes
  PROVE  tick(g) \in GameModes
<1>1. MaxCredit \in Nat /\ THROTTLE_RATIO \in Nat /\ THROTTLE_RATIO > 0
  BY PickAssumption
<1>2. (g.phase + 1) % THROTTLE_RATIO \in 0..(THROTTLE_RATIO - 1)
  BY <1>1 DEF GameModes
<1> DEFINE p == (g.phase + 1) % THROTTLE_RATIO
           c == IF g.phase + 1 = THROTTLE_RATIO /\ g.credit < MaxCredit
                THEN g.credit + 1 ELSE g.credit
<1>3. c \in 0..MaxCredit
  BY <1>1 DEF GameModes
<1>4. tick(g) = IF ~g.active THEN g ELSE [g EXCEPT !.phase = p, !.credit = c]
  BY DEF tick
<1> HIDE DEF p, c
<1> QED
  BY <1>2, <1>3, <1>4, Zenon DEF GameModes, p

\* No task, and nothing changes; or one task, which leaves its queue, and only its
\* deadline record may change.
LEMMA Picked ==
  ASSUME NEW d \in Records, NEW v, NEW g \in GameModes, QInv(rq, d, v),
         streak \in 0..DL_STARVATION_LIMIT, NEW n, n = pick_next(d, g)
  PROVE  /\ n.dl \in Records /\ n.gm \in GameModes /\ n.streak \in 0..DL_STARVATION_LIMIT
         /\ QInv(n.rq, n.dl, v)
         /\ \/ n.task = None /\ n.rq = rq /\ n.dl = d
            \/ /\ n.task \in Task /\ n.task \in Tasks(rq) /\ Tasks(n.rq) = Tasks(rq) \ {n.task}
               /\ \A u \in Task \ {n.task} : n.dl[u] = d[u]
<1>0. /\ rq \in Runqueue /\ rq.deadline \in Seq(Task) /\ rq.game \in Seq(Task)
      /\ rq.normal \in Seq(Task)
      /\ \A t \in Range(rq.deadline) : d[t] # None
  BY DEF QInv, QueueInv, Runqueue
<1>a. DL_STARVATION_LIMIT \in Nat \ {0}
  BY PickAssumption
<1> DEFINE i == IF force_normal THEN 0
                ELSE SelectInSeq(rq.deadline, LAMBDA t : Runnable(t, d))
           str == IF force_normal THEN 0 ELSE streak
<1>b. str \in 0..DL_STARVATION_LIMIT
  BY <1>a
<1>1. CASE i # 0
  <2> DEFINE t == rq.deadline[i]
             r == [rq EXCEPT !.deadline = RemoveAt(rq.deadline, i)]
             e == IF d[t] # None /\ needs_new_period(t, d)
                  THEN [d EXCEPT ![t] = wake(@)] ELSE d
  <2>1. n = [task |-> t, rq |-> r, dl |-> e, gm |-> g, streak |-> starve_streak]
    BY <1>1, Zenon DEF pick_next
  <2>2. ~force_normal /\ i \in 1 .. Len(rq.deadline)
    <3>1. ~force_normal /\ i = FirstRunnable(rq.deadline, d)
      BY <1>1 DEF FirstRunnable
    <3> HIDE DEF i
    <3> QED
      BY <1>0, <1>1, <3>1, SelectedPosition
  <2> HIDE DEF i
  <2>3. r = Drop(rq, "deadline", i)
    BY <1>0, <2>2, RemoveAtDel DEF Drop
  <2> HIDE DEF r
  <2>4. /\ QInv(r, d, v) /\ t \in Task /\ t \in Tasks(rq) /\ Tasks(r) = Tasks(rq) \ {t}
    <3>1. /\ QInv(r, d, v) /\ rq["deadline"][i] \in Task /\ rq["deadline"][i] \in Tasks(rq)
          /\ Tasks(r) = Tasks(rq) \ {rq["deadline"][i]}
      BY <2>2, <2>3, Dequeued
    <3> QED
      BY <2>2, <3>1
  <2>5. t \in Range(rq.deadline)
    BY <1>0, <2>2, InRange
  <2> HIDE DEF t
  <2>6. e \in Records /\ \A u \in Task \ {t} : e[u] = d[u]
    BY <2>4, WakeRecord
  <2> HIDE DEF e
  <2>7. \A u \in Tasks(r) : e[u] = d[u]
    <3>1. Tasks(r) \subseteq Task \ {t}
      <4>1. Tasks(rq) \subseteq Task
        BY <1>0, RangeOfSeq DEF Tasks
      <4> QED
        BY <2>4, <4>1
    <3> QED
      BY <3>1, <2>6
  <2>8. QInv(r, e, v)
    BY <2>4, <2>7, RecordsKeepQ, Zenon
  <2>9. starve_streak \in 0..DL_STARVATION_LIMIT
    BY <1>a, <2>2, SMTT(30) DEF starve_streak, force_normal
  <2> QED
    BY <2>1, <2>4, <2>6, <2>8, <2>9
<1>2. CASE i = 0 /\ rq.game # <<>>
  <2> DEFINE t == Head(rq.game)
             r == [rq EXCEPT !.game = Tail(rq.game)]
  <2>1. n = [task |-> t, rq |-> r, dl |-> d, gm |-> g, streak |-> 0]
    BY <1>2, Zenon DEF pick_next
  <2>2. Tail(rq.game) = Del(rq.game, 1) /\ t = rq.game[1] /\ 1 \in 1 .. Len(rq.game)
    BY <1>0, <1>2, TailDel, Zenon
  <2>3. r = Drop(rq, "game", 1)
    BY <2>2, Zenon DEF Drop
  <2> HIDE DEF r, t
  <2>4. /\ QInv(r, d, v) /\ t \in Task /\ t \in Tasks(rq) /\ Tasks(r) = Tasks(rq) \ {t}
    <3>1. /\ QInv(r, d, v) /\ rq["game"][1] \in Task /\ rq["game"][1] \in Tasks(rq)
          /\ Tasks(r) = Tasks(rq) \ {rq["game"][1]}
      BY <2>2, <2>3, Dequeued
    <3> QED
      BY <2>2, <3>1
  <2> QED
    BY <1>a, <2>1, <2>4, SMTT(30)
<1>3. CASE i = 0 /\ rq.game = <<>> /\ can_run_background(g) /\ rq.normal # <<>>
  <2> DEFINE t == Head(rq.normal)
             r == [rq EXCEPT !.normal = Tail(rq.normal)]
  <2>1. n = [task |-> t, rq |-> r, dl |-> d, gm |-> charge_background(g), streak |-> 0]
    BY <1>3, Zenon DEF pick_next
  <2>2. Tail(rq.normal) = Del(rq.normal, 1) /\ t = rq.normal[1] /\ 1 \in 1 .. Len(rq.normal)
    BY <1>0, <1>3, TailDel, Zenon
  <2>3. r = Drop(rq, "normal", 1)
    BY <2>2, Zenon DEF Drop
  <2> HIDE DEF r, t
  <2>4. /\ QInv(r, d, v) /\ t \in Task /\ t \in Tasks(rq) /\ Tasks(r) = Tasks(rq) \ {t}
    <3>1. /\ QInv(r, d, v) /\ rq["normal"][1] \in Task /\ rq["normal"][1] \in Tasks(rq)
          /\ Tasks(r) = Tasks(rq) \ {rq["normal"][1]}
      BY <2>2, <2>3, Dequeued
    <3> QED
      BY <2>2, <3>1
  <2>5. charge_background(g) \in GameModes
    BY <1>3, ChargeType
  <2> QED
    BY <1>a, <2>1, <2>4, <2>5
<1>4. CASE i = 0 /\ rq.game = <<>> /\ ~(can_run_background(g) /\ rq.normal # <<>>)
  <2>1. n = [task |-> None, rq |-> rq, dl |-> d, gm |-> g, streak |-> str]
    BY <1>4 DEF pick_next
  <2> HIDE DEF str
  <2> QED
    BY <1>b, <2>1
<1> QED
  BY <1>1, <1>2, <1>3, <1>4, SMTT(30)

-----------------------------------------------------------------------------
(***************************************************************************)
(* Time passes: deadlines move together, until one is no longer counted.   *)
(***************************************************************************)
Older(d) == [t \in Task |-> IF d[t] = None \/ d[t].age = MaxAge THEN d[t]
                            ELSE [d[t] EXCEPT !.age = @ + 1]]

Due(d, t) == [d EXCEPT ![t] = [age |-> MaxAge, done |-> TRUE]]

LEMMA EdfPair ==
  ASSUME NEW e, NEW t \in Task, NEW u \in Task
  PROVE  <<t, u>> \in Edf(e) <=>
           (~(e[u].age >= period_us[u]) => deadline_us[t] - e[t].age <= deadline_us[u] - e[u].age)
  BY DEF Edf, needs_new_period, absolute_deadline

\* An age that is no longer counted puts the deadline before any whose period is
\* running.
LEMMA Saturated ==
  ASSUME NEW e \in Records, NEW t \in Task, NEW u \in Task, e[t] # None, e[u] # None,
         e[t].age = MaxAge
  PROVE  <<t, u>> \in Edf(e)
<1>1. /\ e[u].age \in Nat /\ deadline_us[t] \in Nat /\ deadline_us[u] \in Nat
      /\ period_us[u] \in Nat
  BY RecordFacts
<1>2. deadline_us[t] + period_us[u] <= MaxAge /\ MaxAge \in Nat
  BY PickAssumption
<1> QED
  BY <1>1, <1>2 DEF Edf, needs_new_period, absolute_deadline

LEMMA OlderRecord ==
  ASSUME NEW d \in Records, NEW t \in Task
  PROVE  /\ Older(d) \in Records
         /\ d[t] # None =>
              /\ Older(d)[t] # None
              /\ Older(d)[t].age = IF d[t].age = MaxAge THEN MaxAge ELSE d[t].age + 1
<1>1. ASSUME NEW u \in Task, d[u] # None, d[u].age # MaxAge
      PROVE  /\ [d[u] EXCEPT !.age = @ + 1] \in Record
             /\ [d[u] EXCEPT !.age = @ + 1].age = d[u].age + 1
  <2>1. d[u] \in Record
    BY <1>1, RecordFacts
  <2>2. d[u].age + 1 \in 0..MaxAge
    BY <1>1, RecordFacts, PickAssumption
  <2> QED
    BY <2>1, <2>2, Zenon DEF Record
<1>2. \A u \in Task : Older(d)[u] = IF d[u] = None \/ d[u].age = MaxAge THEN d[u]
                                    ELSE [d[u] EXCEPT !.age = @ + 1]
  BY DEF Older
<1>3. \A u \in Task : Older(d)[u] \in {None} \cup Record
  <2> TAKE u \in Task
  <2>1. d[u] \in {None} \cup Record
    BY DEF Records
  <2> QED
    BY <1>1, <1>2, <2>1, Zenon
<1>4. Older(d) \in Records
  BY <1>3 DEF Older, Records
<1>5. ASSUME d[t] # None PROVE Older(d)[t] # None
  <2>1. None \notin Record
    BY PickAssumption
  <2> QED
    BY <1>1, <1>2, <1>5, <2>1, Zenon
<1>6. ASSUME d[t] # None
      PROVE  Older(d)[t].age = IF d[t].age = MaxAge THEN MaxAge ELSE d[t].age + 1
  <2>1. CASE d[t].age = MaxAge
    BY <1>2, <1>6, <2>1, Zenon
  <2>2. CASE d[t].age # MaxAge
    BY <1>1, <1>2, <1>6, <2>2, Zenon
  <2> QED
    BY <2>1, <2>2
<1> QED
  BY <1>4, <1>5, <1>6

LEMMA OlderPair ==
  ASSUME NEW d \in Records, NEW t \in Task, NEW u \in Task, d[t] # None, d[u] # None,
         <<t, u>> \in Edf(d)
  PROVE  <<t, u>> \in Edf(Older(d))
<1> DEFINE e == Older(d)
<1>1. /\ e \in Records /\ e[t] # None /\ e[u] # None
      /\ e[t].age = IF d[t].age = MaxAge THEN MaxAge ELSE d[t].age + 1
      /\ e[u].age = IF d[u].age = MaxAge THEN MaxAge ELSE d[u].age + 1
  BY OlderRecord
<1> HIDE DEF e
<1>2. CASE d[t].age = MaxAge
  BY <1>1, <1>2, Saturated, SMTT(30) DEF e
<1>3. CASE d[t].age # MaxAge
  <2>1. /\ d[t].age \in Nat /\ d[u].age \in Nat /\ deadline_us[t] \in Nat
        /\ deadline_us[u] \in Nat /\ period_us[u] \in Nat
    BY RecordFacts
  <2>2. period_us[u] <= MaxAge /\ MaxAge \in Nat
    BY <2>1, PickAssumption
  <2>3. ~(d[u].age >= period_us[u]) =>
          deadline_us[t] - d[t].age <= deadline_us[u] - d[u].age
    BY DEF Edf, needs_new_period, absolute_deadline
  <2>4. ~(e[u].age >= period_us[u]) =>
          deadline_us[t] - e[t].age <= deadline_us[u] - e[u].age
    BY <1>1, <1>3, <2>1, <2>2, <2>3
  <2> QED
    BY <2>4 DEF e, Edf, needs_new_period, absolute_deadline
<1> QED
  BY <1>2, <1>3

LEMMA OlderKeeps ==
  ASSUME NEW q, NEW d \in Records, NEW v, QInv(q, d, v)
  PROVE  QInv(q, Older(d), v)
<1>1. QueueInv(q, d, v) /\ q.deadline \in Seq(Task)
  BY DEF QInv, QueueInv, Runqueue
<1>2. \A i \in DOMAIN q.deadline : q.deadline[i] \in Task /\ d[q.deadline[i]] # None
  BY <1>1, InRange DEF QueueInv
<1>3. \A t \in Range(q.deadline) : Older(d)[t] # None
  BY <1>1, RangeOfSeq, OlderRecord DEF QueueInv
<1>4. Sorted(q.deadline, Edf(Older(d)))
  <2> SUFFICES ASSUME NEW i \in DOMAIN q.deadline, NEW j \in DOMAIN q.deadline, i < j
               PROVE  <<q.deadline[i], q.deadline[j]>> \in Edf(Older(d))
    BY Zenon DEF Sorted
  <2>1. <<q.deadline[i], q.deadline[j]>> \in Edf(d)
    BY <1>1, Zenon DEF QueueInv, Sorted
  <2> QED
    BY <1>2, <2>1, OlderPair, Zenon
<1> QED
  BY <1>1, <1>3, <1>4, Zenon DEF QInv, QueueInv

LEMMA DueKeeps ==
  ASSUME NEW q, NEW d \in Records, NEW v, NEW x \in Task, QInv(q, d, v)
  PROVE  Due(d, x) \in Records /\ QInv(q, Due(d, x), v)
<1> DEFINE e == Due(d, x)
<1>1. QueueInv(q, d, v) /\ q.deadline \in Seq(Task)
  BY DEF QInv, QueueInv, Runqueue
<1>2. \A i \in DOMAIN q.deadline : q.deadline[i] \in Task /\ d[q.deadline[i]] # None
  BY <1>1, InRange DEF QueueInv
<1>3. /\ [age |-> MaxAge, done |-> TRUE] \in Record
      /\ [age |-> MaxAge, done |-> TRUE] # None
      /\ [age |-> MaxAge, done |-> TRUE].age = MaxAge
  <2>1. MaxAge \in 0..MaxAge /\ None \notin Record
    BY PickAssumption
  <2>2. [age |-> MaxAge, done |-> TRUE] \in Record
    BY <2>1, Zenon DEF Record
  <2> QED
    BY <2>1, <2>2, Zenon
<1>4. /\ e \in Records /\ e[x] = [age |-> MaxAge, done |-> TRUE]
      /\ \A t \in Task \ {x} : e[t] = d[t]
  BY <1>3, Zenon DEF Records, Due
<1> HIDE DEF e
<1>5. \A t \in Task : d[t] # None => e[t] # None
  BY <1>3, <1>4, Zenon
<1>6. Sorted(q.deadline, Edf(e))
  <2> SUFFICES ASSUME NEW i \in DOMAIN q.deadline, NEW j \in DOMAIN q.deadline, i < j
               PROVE  <<q.deadline[i], q.deadline[j]>> \in Edf(e)
    BY Zenon DEF Sorted
  <2> DEFINE t == q.deadline[i]
             u == q.deadline[j]
  <2>1. <<t, u>> \in Edf(d)
    BY <1>1, Zenon DEF QueueInv, Sorted
  <2>2. t \in Task /\ u \in Task /\ e[t] # None /\ e[u] # None
    BY <1>2, <1>5, Zenon
  <2> SUFFICES <<t, u>> \in Edf(e)
    OBVIOUS
  <2> HIDE DEF t, u
  <2>3. CASE t = x
    <3>1. e[t].age = MaxAge
      BY <1>3, <1>4, <2>3
    <3> QED
      BY <1>4, <2>2, <3>1, Saturated, Zenon
  <2>4. CASE u = x
    <3>1. MaxAge >= period_us[u]
      <4>1. /\ period_us[u] \in Nat /\ deadline_us[u] \in Nat /\ MaxAge \in Nat
            /\ deadline_us[u] + period_us[u] <= MaxAge
        BY <2>2, PickAssumption, SMTT(30)
      <4> QED
        BY <4>1
    <3>2. e[u].age = MaxAge
      BY <1>3, <1>4, <2>4
    <3> QED
      BY <2>2, <3>1, <3>2, EdfPair, SMTT(30)
  <2>5. CASE t # x /\ u # x
    <3>1. e[t] = d[t] /\ e[u] = d[u]
      BY <1>4, <2>2, <2>5
    <3> QED
      BY <2>1, <2>2, <3>1, EdfPair, SMTT(30)
  <2> QED
    BY <2>3, <2>4, <2>5
<1>7. \A t \in Range(q.deadline) : e[t] # None
  BY <1>1, <1>5, RangeOfSeq DEF QueueInv
<1>8. QInv(q, e, v)
  BY <1>1, <1>6, <1>7, Zenon DEF QInv, QueueInv
<1> QED
  BY <1>4, <1>8, SMTT(90) DEF e

-----------------------------------------------------------------------------
(***************************************************************************)
(* The invariant: the types, the queues, and where the other tasks are.    *)
(***************************************************************************)
Types ==
  /\ current \in Task \cup {None}
  /\ blocked \subseteq Task /\ unborn \subseteq Task
  /\ priority \in [Task -> {"Game", "Normal"}]
  /\ deadline \in Records /\ vruntime \in Vruntimes /\ game_mode \in GameModes
  /\ streak \in 0..DL_STARVATION_LIMIT /\ changes \in 0..MaxChange

Apart(Q, B, U, c) ==
  /\ Q \cap B = {} /\ Q \cap U = {} /\ B \cap U = {}
  /\ c \notin Q /\ c \notin B /\ c \notin U

PickInv ==
  /\ Types
  /\ QInv(rq, deadline, vruntime)
  /\ Apart(Tasks(rq), blocked, unborn, current)

LEMMA PickInvType == PickInv => TypeOK
<1> SUFFICES ASSUME PickInv PROVE TypeOK
  BY SMTT(30)
<1>1. /\ rq \in Runqueue /\ DOMAIN rq = {"deadline", "game", "normal"}
      /\ IsInjective(rq.deadline) /\ IsInjective(rq.game) /\ IsInjective(rq.normal)
  BY DEF PickInv, QInv, QueueInv, Runqueue
<1>2. \A c \in DOMAIN rq : IsInjective(rq[c])
  BY <1>1
<1> DEFINE D == Range(rq.deadline)
           G == Range(rq.game)
           N == Range(rq.normal)
<1>3. /\ D \cap G = {} /\ D \cap N = {} /\ G \cap N = {}
      /\ Apart(D \cup G \cup N, blocked, unborn, current)
  BY DEF PickInv, QInv, Tasks
<1>4. /\ DOMAIN Place = {"deadline", "game", "normal", "blocked", "unborn", "current"}
      /\ Place["deadline"] = D /\ Place["game"] = G /\ Place["normal"] = N
      /\ Place["blocked"] = blocked /\ Place["unborn"] = unborn /\ Place["current"] = {current}
  BY DEF Place
<1> HIDE DEF D, G, N
<1>5. \A p, q \in DOMAIN Place : p # q => Place[p] \cap Place[q] = {}
  <2> SUFFICES ASSUME NEW p \in DOMAIN Place, NEW q \in DOMAIN Place, p # q
               PROVE  Place[p] \cap Place[q] = {}
    OBVIOUS
  <2>1. CASE p = "deadline"
    BY <1>3, <1>4, <2>1 DEF Apart
  <2>2. CASE p = "game"
    BY <1>3, <1>4, <2>2 DEF Apart
  <2>3. CASE p = "normal"
    BY <1>3, <1>4, <2>3 DEF Apart
  <2>4. CASE p = "blocked"
    BY <1>3, <1>4, <2>4 DEF Apart
  <2>5. CASE p = "unborn"
    BY <1>3, <1>4, <2>5 DEF Apart
  <2>6. CASE p = "current"
    BY <1>3, <1>4, <2>6 DEF Apart
  <2> QED
    BY <1>4, <2>1, <2>2, <2>3, <2>4, <2>5, <2>6, SMTT(30)
<1> QED
  BY <1>1, <1>2, <1>5 DEF PickInv, Types, TypeOK, Runqueue, Records, Vruntimes, GameModes

LEMMA InitPickInv == Init => PickInv
<1> SUFFICES ASSUME Init PROVE PickInv
  OBVIOUS
<1>1. /\ DL_STARVATION_LIMIT \in Nat /\ THROTTLE_RATIO \in Nat /\ THROTTLE_RATIO > 0
      /\ MAX_VRUNTIME \in Nat /\ MaxCredit \in Nat /\ MaxChange \in Nat /\ None \notin Task
  BY PickAssumption
<1>2. Types
  BY <1>1 DEF Init, Types, Records, Vruntimes, GameModes
<1>3. /\ rq \in Runqueue /\ rq.deadline = <<>> /\ rq.game = <<>> /\ rq.normal = <<>>
  BY DEF Init, Runqueue
<1>4. Range(<<>>) = {} /\ IsInjective(<<>>) /\ \A R : Sorted(<<>>, R)
  BY DEF Range, IsInjective, Sorted
<1>5. QInv(rq, deadline, vruntime) /\ Tasks(rq) = {}
  BY <1>3, <1>4 DEF QInv, QueueInv, Tasks
<1> QED
  BY <1>1, <1>2, <1>5 DEF PickInv, Apart, Init

-----------------------------------------------------------------------------
(***************************************************************************)
(* The steps.                                                              *)
(***************************************************************************)
LEMMA YieldKeeps ==
  ASSUME PickInv, yield_task
  PROVE  PickInv'
<1> DEFINE t == current
           d == IF t # None /\ deadline[t] # None
                THEN [deadline EXCEPT ![t] = finish(@)] ELSE deadline
           v == IF t # None /\ priority[t] = "Normal" /\ vruntime[t] < MAX_VRUNTIME
                THEN [vruntime EXCEPT ![t] = @ + 1] ELSE vruntime
<1>1. PICK n \in {pick_next(d, tick(game_mode))} :
        /\ deadline' = n.dl /\ vruntime' = v
        /\ game_mode' = n.gm /\ streak' = n.streak
        /\ current' = IF n.task = None THEN t ELSE n.task
        /\ rq' = IF n.task = None \/ t = None THEN n.rq
                 ELSE enqueue(n.rq, t, n.dl, v)
        /\ UNCHANGED <<blocked, unborn, priority, changes>>
  BY DEF yield_task
<1>2. /\ Types /\ QInv(rq, deadline, vruntime) /\ t \notin Tasks(rq)
      /\ Apart(Tasks(rq), blocked, unborn, t)
  BY DEF PickInv, Apart
<1>3. d \in Records /\ \A u \in Tasks(rq) : d[u] = deadline[u]
  <2>1. CASE t # None /\ deadline[t] # None
    <3>1. t \in Task /\ deadline \in Records
      BY <1>2, <2>1 DEF Types
    <3>2. deadline[t] \in Record
      BY <2>1, <3>1, RecordFacts
    <3>3. finish(deadline[t]) \in Record
      BY <3>2, Zenon DEF finish, Record
    <3>4. d = [deadline EXCEPT ![t] = finish(deadline[t])]
      BY <2>1
    <3> HIDE DEF d, t
    <3>5. Tasks(rq) \subseteq Task
      BY <1>2, RangeOfSeq DEF QInv, QueueInv, Runqueue, Tasks
    <3> QED
      BY <1>2, <3>1, <3>3, <3>4, <3>5 DEF Records
  <2>2. CASE ~(t # None /\ deadline[t] # None)
    BY <1>2, <2>2 DEF Types
  <2> QED
    BY <2>1, <2>2
<1>4. v \in Vruntimes /\ \A u \in Tasks(rq) : v[u] = vruntime[u]
  <2>1. MAX_VRUNTIME \in Nat
    BY PickAssumption
  <2>2. Tasks(rq) \subseteq Task
    BY <1>2, RangeOfSeq, SMTT(30) DEF QInv, QueueInv, Runqueue, Tasks
  <2> QED
    BY <1>2, <2>1, <2>2 DEF Types, Vruntimes
<1> HIDE DEF d, v
<1>5. QInv(rq, d, v)
  <2>1. \A u \in Tasks(rq) : d[u] = deadline[u] /\ v[u] = vruntime[u]
    BY <1>3, <1>4, Zenon
  <2>2. QInv(rq, deadline, vruntime)
    BY <1>2, Zenon
  <2> QED
    BY <2>1, <2>2, RecordsKeepQ, Zenon
<1>6. /\ n.dl \in Records /\ n.gm \in GameModes /\ n.streak \in 0..DL_STARVATION_LIMIT
      /\ QInv(n.rq, n.dl, v)
      /\ \/ n.task = None /\ n.rq = rq /\ n.dl = d
         \/ /\ n.task \in Task /\ n.task \in Tasks(rq) /\ Tasks(n.rq) = Tasks(rq) \ {n.task}
            /\ \A u \in Task \ {n.task} : n.dl[u] = d[u]
  <2>1. tick(game_mode) \in GameModes
    BY <1>2, TickType DEF Types
  <2>2. n = pick_next(d, tick(game_mode)) /\ streak \in 0..DL_STARVATION_LIMIT
    BY <1>2, SMTT(30) DEF Types
  <2> QED
    BY <1>3, <1>5, <2>1, <2>2, Picked, SMTT(90)
<1>7. Types'
  BY <1>1, <1>2, <1>4, <1>6, SMTT(90) DEF Types
<1>8. CASE n.task = None
  <2>1. current' = t /\ rq' = rq /\ n.dl = d
    <3>1. n.task \notin Task
      BY <1>8, PickAssumption
    <3> QED
      BY <1>1, <1>6, <1>8, <3>1, SMTT(90)
  <2>2. QInv(rq', deadline', vruntime')
    BY <1>1, <1>5, <2>1, SMTT(30)
  <2>3. Apart(Tasks(rq'), blocked', unborn', current')
    BY <1>1, <1>2, <2>1
  <2> QED
    BY <1>7, <2>2, <2>3, SMTT(30) DEF PickInv
<1>9. CASE n.task # None
  <2>1. /\ n.task \in Task /\ n.task \in Tasks(rq) /\ Tasks(n.rq) = Tasks(rq) \ {n.task}
        /\ current' = n.task
    BY <1>1, <1>6, <1>9, SMTT(90)
  <2>2. CASE t = None
    <3>1. rq' = n.rq
      BY <1>1, <2>2, SMTT(30)
    <3>2. QInv(rq', deadline', vruntime')
      BY <1>1, <1>6, <3>1, SMTT(90)
    <3>3. Apart(Tasks(rq'), blocked', unborn', current')
      <4> HIDE DEF Tasks
      <4> QED
        BY <1>1, <1>2, <2>1, <3>1, SMTT(30) DEF Apart
    <3> QED
      BY <1>7, <3>2, <3>3 DEF PickInv
  <2>3. CASE t # None
    <3>1. rq' = enqueue(n.rq, t, n.dl, v)
      BY <1>1, <1>9, <2>3
    <3>2. t \in Task /\ t \notin Tasks(n.rq)
      BY <1>2, <2>1, <2>3, SMTT(30) DEF Types
    <3>3. QInv(rq', n.dl, v) /\ Tasks(rq') = Tasks(n.rq) \cup {t}
      <4> HIDE DEF t
      <4> QED
        BY <1>4, <1>6, <3>1, <3>2, Enqueued, SMTT(90)
    <3>4. QInv(rq', deadline', vruntime')
      BY <1>1, <3>3
    <3>5. Apart(Tasks(rq'), blocked', unborn', current')
      BY <1>1, <1>2, <2>1, <3>3, SMTT(30) DEF Apart
    <3> QED
      BY <1>7, <3>4, <3>5 DEF PickInv
  <2> QED
    BY <2>2, <2>3, SMTT(30)
<1> QED
  BY <1>8, <1>9, SMTT(30)

\* The part that block_current_task and exit_current_task share.
LEMMA PickedNow ==
  ASSUME PickInv, NEW n, n = pick_next(deadline, game_mode)
  PROVE  /\ n.dl \in Records /\ n.gm \in GameModes /\ n.streak \in 0..DL_STARVATION_LIMIT
         /\ QInv(n.rq, n.dl, vruntime)
         /\ n.task \in Task \cup {None}
         /\ Tasks(n.rq) \subseteq Tasks(rq)
         /\ n.task # None => n.task \in Tasks(rq) /\ n.task \notin Tasks(n.rq)
<1>1. /\ deadline \in Records /\ game_mode \in GameModes /\ QInv(rq, deadline, vruntime)
      /\ streak \in 0..DL_STARVATION_LIMIT
  BY DEF PickInv, Types
<1>2. /\ n.dl \in Records /\ n.gm \in GameModes /\ n.streak \in 0..DL_STARVATION_LIMIT
      /\ QInv(n.rq, n.dl, vruntime)
      /\ \/ n.task = None /\ n.rq = rq /\ n.dl = deadline
         \/ /\ n.task \in Task /\ n.task \in Tasks(rq) /\ Tasks(n.rq) = Tasks(rq) \ {n.task}
            /\ \A u \in Task \ {n.task} : n.dl[u] = deadline[u]
  BY <1>1, Picked, SMTT(30)
<1> QED
  BY <1>2

LEMMA NoneInNoQueue ==
  ASSUME PickInv
  PROVE  None \notin Tasks(rq) /\ Tasks(rq) \subseteq Task /\ None \notin Task
<1>1. Tasks(rq) \subseteq Task
  BY RangeOfSeq DEF PickInv, QInv, QueueInv, Runqueue, Tasks
<1> QED
  BY <1>1, PickAssumption

LEMMA BlockKeeps ==
  ASSUME PickInv, block_current_task
  PROVE  PickInv'
<1>1. PICK n \in {pick_next(deadline, game_mode)} : switch_away(n, n.dl)
  BY DEF block_current_task
<1>2. /\ current # None /\ blocked' = blocked \cup {current}
      /\ current' = n.task /\ rq' = n.rq
      /\ deadline' = n.dl /\ game_mode' = n.gm /\ streak' = n.streak
      /\ UNCHANGED <<unborn, priority, vruntime, changes>>
  BY <1>1 DEF block_current_task, switch_away
<1>3. /\ n.dl \in Records /\ n.gm \in GameModes /\ n.streak \in 0..DL_STARVATION_LIMIT
      /\ QInv(n.rq, n.dl, vruntime)
      /\ n.task \in Task \cup {None}
      /\ Tasks(n.rq) \subseteq Tasks(rq)
      /\ n.task # None => n.task \in Tasks(rq) /\ n.task \notin Tasks(n.rq)
  BY PickedNow
<1>4. Types'
  BY <1>2, <1>3, SMTT(90) DEF PickInv, Types
<1>5. QInv(rq', deadline', vruntime')
  BY <1>2, <1>3, SMTT(90)
<1>6. Apart(Tasks(rq'), blocked', unborn', current')
  <2>1. Apart(Tasks(rq), blocked, unborn, current) /\ current \in Task
        /\ blocked \subseteq Task /\ unborn \subseteq Task
    BY <1>2 DEF PickInv, Types
  <2>2. Tasks(rq') = Tasks(n.rq)
    BY <1>2, SMTT(30)
  <2> QED
    BY <1>2, <1>3, <2>1, <2>2, NoneInNoQueue, SMTT(30) DEF Apart
<1> QED
  BY <1>4, <1>5, <1>6 DEF PickInv

LEMMA ExitKeeps ==
  ASSUME PickInv, exit_current_task
  PROVE  PickInv'
<1>1. PICK n \in {pick_next(deadline, game_mode)} :
        switch_away(n, [n.dl EXCEPT ![current] = None])
  BY DEF exit_current_task
<1>2. /\ current # None /\ blocked' = blocked
      /\ current' = n.task /\ rq' = n.rq
      /\ deadline' = [n.dl EXCEPT ![current] = None]
      /\ game_mode' = n.gm /\ streak' = n.streak
      /\ UNCHANGED <<unborn, priority, vruntime, changes>>
  BY <1>1, SMTT(30) DEF exit_current_task, switch_away
<1>3. /\ n.dl \in Records /\ n.gm \in GameModes /\ n.streak \in 0..DL_STARVATION_LIMIT
      /\ QInv(n.rq, n.dl, vruntime)
      /\ n.task \in Task \cup {None}
      /\ Tasks(n.rq) \subseteq Tasks(rq)
      /\ n.task # None => n.task \in Tasks(rq) /\ n.task \notin Tasks(n.rq)
  BY PickedNow
<1>a. /\ Apart(Tasks(rq), blocked, unborn, current) /\ current \in Task
      /\ blocked \subseteq Task /\ unborn \subseteq Task
      /\ Tasks(rq) \subseteq Task
  BY <1>2, NoneInNoQueue, SMTT(90) DEF PickInv, Types
<1>b. /\ deadline' \in Records
      /\ \A u \in Task \ {current} : deadline'[u] = n.dl[u]
  BY <1>2, <1>3, <1>a, SMTT(90) DEF Records
<1>4. Types'
  BY <1>2, <1>3, <1>b, SMTT(90) DEF PickInv, Types
<1>5. QInv(rq', deadline', vruntime')
  <2>1. \A u \in Tasks(n.rq) : deadline'[u] = n.dl[u] /\ vruntime'[u] = vruntime[u]
    BY <1>2, <1>3, <1>a, <1>b, SMTT(90) DEF Apart
  <2>2. QInv(n.rq, deadline', vruntime')
    BY <1>3, <2>1, RecordsKeepQ, Zenon
  <2> QED
    BY <1>2, <2>2, SMTT(90)
<1>6. Apart(Tasks(rq'), blocked', unborn', current')
  <2>2. Tasks(rq') = Tasks(n.rq)
    BY <1>2
  <2> QED
    BY <1>2, <1>3, <1>a, <2>2, NoneInNoQueue, SMTT(90) DEF Apart
<1> QED
  BY <1>4, <1>5, <1>6 DEF PickInv

LEMMA UnblockKeeps ==
  ASSUME PickInv, NEW t \in Task, unblock(t)
  PROVE  PickInv'
<1>1. /\ t \in blocked /\ blocked' = blocked \ {t}
      /\ rq' = enqueue(rq, t, deadline, vruntime)
      /\ UNCHANGED <<current, unborn, priority, deadline, vruntime, game_mode, streak, changes>>
  BY DEF unblock
<1>2. /\ Types /\ QInv(rq, deadline, vruntime) /\ deadline \in Records /\ vruntime \in Vruntimes
      /\ Apart(Tasks(rq), blocked, unborn, current) /\ t \notin Tasks(rq)
  BY <1>1 DEF PickInv, Types, Apart
<1>3. QInv(rq', deadline, vruntime) /\ Tasks(rq') = Tasks(rq) \cup {t}
  BY <1>1, <1>2, Enqueued, SMTT(30)
<1>4. Types'
  BY <1>1, <1>2 DEF Types
<1>5. QInv(rq', deadline', vruntime')
  BY <1>1, <1>3, SMTT(30)
<1>6. Apart(Tasks(rq'), blocked', unborn', current')
  BY <1>1, <1>2, <1>3, SMTT(90) DEF Apart
<1> QED
  BY <1>4, <1>5, <1>6, SMTT(30) DEF PickInv

LEMMA SpawnKeeps ==
  ASSUME PickInv, NEW t \in Task, spawn(t)
  PROVE  PickInv'
<1> DEFINE d == [deadline EXCEPT ![t] = IF t \in Deadlined
                   THEN [age |-> 0, done |-> FALSE] ELSE None]
<1>1. /\ t \in unborn /\ unborn' = unborn \ {t} /\ deadline' = d
      /\ rq' = enqueue(rq, t, d, vruntime)
      /\ UNCHANGED <<current, blocked, priority, vruntime, game_mode, streak, changes>>
  BY SMTT(30) DEF spawn
<1>2. /\ Types /\ QInv(rq, deadline, vruntime) /\ deadline \in Records /\ vruntime \in Vruntimes
      /\ Apart(Tasks(rq), blocked, unborn, current) /\ t \notin Tasks(rq)
      /\ Tasks(rq) \subseteq Task
  BY <1>1, NoneInNoQueue DEF PickInv, Types, Apart
<1>3. d \in Records /\ \A u \in Task \ {t} : d[u] = deadline[u]
  <2>1. 0 \in 0..MaxAge
    BY PickAssumption
  <2>2. [age |-> 0, done |-> FALSE] \in Record
    BY <2>1, Zenon DEF Record
  <2> DEFINE x == IF t \in Deadlined THEN [age |-> 0, done |-> FALSE] ELSE None
  <2>3. x \in {None} \cup Record
    BY <2>2
  <2> HIDE DEF x
  <2>4. d = [deadline EXCEPT ![t] = x]
    BY DEF x
  <2> HIDE DEF d
  <2> QED
    BY <1>2, <2>3, <2>4, SMTT(30) DEF Records
<1> HIDE DEF d
<1>4. QInv(rq, d, vruntime)
  <2>1. \A u \in Tasks(rq) : d[u] = deadline[u] /\ vruntime[u] = vruntime[u]
    BY <1>2, <1>3, SMTT(90)
  <2> QED
    BY <1>2, <2>1, RecordsKeepQ, Zenon
<1>5. QInv(rq', d, vruntime) /\ Tasks(rq') = Tasks(rq) \cup {t}
  BY <1>1, <1>2, <1>3, <1>4, Enqueued, SMTT(30)
<1>6. Types'
  BY <1>1, <1>2, <1>3, SMTT(30) DEF Types
<1>7. QInv(rq', deadline', vruntime')
  BY <1>1, <1>5, SMTT(30)
<1>8. Apart(Tasks(rq'), blocked', unborn', current')
  BY <1>1, <1>2, <1>5, SMTT(30) DEF Apart
<1> QED
  BY <1>6, <1>7, <1>8 DEF PickInv

LEMMA SetPriorityKeeps ==
  ASSUME PickInv, NEW t \in Task, NEW p \in {"Game", "Normal"}, set_priority(t, p)
  PROVE  PickInv'
<1>1. /\ changes < MaxChange /\ changes' = changes + 1 /\ MaxChange \in Nat
      /\ priority' = [priority EXCEPT ![t] = p]
      /\ UNCHANGED <<current, rq, blocked, unborn, vruntime, game_mode, streak, deadline>>
  BY PickAssumption DEF set_priority, Change
<1>2. Types'
  BY <1>1 DEF PickInv, Types
<1>3. QInv(rq', deadline', vruntime') /\ Apart(Tasks(rq'), blocked', unborn', current')
  BY <1>1 DEF PickInv
<1> QED
  BY <1>2, <1>3, SMTT(30) DEF PickInv

LEMMA ConfigureKeeps ==
  ASSUME PickInv, NEW t \in Task, configure_deadline(t)
  PROVE  PickInv'
<1>1. /\ changes < MaxChange /\ changes' = changes + 1 /\ MaxChange \in Nat
      /\ priority' = [priority EXCEPT ![t] = "Game"] /\ deadline' = Due(deadline, t)
      /\ UNCHANGED <<current, rq, blocked, unborn, vruntime, game_mode, streak>>
  BY PickAssumption DEF configure_deadline, Change, Due
<1>2. Due(deadline, t) \in Records /\ QInv(rq, Due(deadline, t), vruntime)
  BY DueKeeps, SMTT(30) DEF PickInv, Types
<1>3. Types'
  BY <1>1, <1>2, SMTT(30) DEF PickInv, Types
<1>4. QInv(rq', deadline', vruntime') /\ Apart(Tasks(rq'), blocked', unborn', current')
  BY <1>1, <1>2, SMTT(30) DEF PickInv
<1> QED
  BY <1>3, <1>4, SMTT(30) DEF PickInv

LEMMA ElapseKeeps ==
  ASSUME PickInv, Elapse
  PROVE  PickInv'
<1>1. /\ deadline' = Older(deadline)
      /\ UNCHANGED <<current, rq, blocked, unborn, priority, vruntime, game_mode, streak, changes>>
  BY DEF Elapse, Older
<1>2. deadline \in Records /\ QInv(rq, Older(deadline), vruntime)
  BY OlderKeeps DEF PickInv, Types
<1>3. Older(deadline) \in Records
  <2>1. CASE Task = {}
    BY <2>1, SMTT(30) DEF Older, Records
  <2>2. CASE Task # {}
    BY <1>2, <2>2, OlderRecord, SMTT(30)
  <2> QED
    BY <2>1, <2>2
<1>4. Types'
  BY <1>1, <1>3 DEF PickInv, Types
<1>5. QInv(rq', deadline', vruntime') /\ Apart(Tasks(rq'), blocked', unborn', current')
  BY <1>1, <1>2 DEF PickInv
<1> QED
  BY <1>4, <1>5 DEF PickInv

LEMMA GameModeKeeps ==
  ASSUME PickInv, enter_game_mode \/ exit_game_mode
  PROVE  PickInv'
<1>1. /\ \/ game_mode' = [active |-> TRUE, phase |-> 0, credit |-> 0]
         \/ game_mode' = [active |-> FALSE, phase |-> 0, credit |-> 0]
      /\ UNCHANGED <<current, rq, blocked, unborn, priority, deadline, vruntime, streak, changes>>
  BY DEF enter_game_mode, exit_game_mode
<1>2. game_mode' \in GameModes
  <2>1. 0 \in 0..(THROTTLE_RATIO - 1) /\ 0 \in 0..MaxCredit
    BY PickAssumption
  <2>2. \A b \in BOOLEAN : [active |-> b, phase |-> 0, credit |-> 0] \in GameModes
    BY <2>1, Zenon DEF GameModes
  <2> QED
    BY <1>1, <2>2, Zenon
<1>3. Types'
  BY <1>1, <1>2, SMTT(30) DEF PickInv, Types
<1>4. QInv(rq', deadline', vruntime') /\ Apart(Tasks(rq'), blocked', unborn', current')
  BY <1>1 DEF PickInv
<1> QED
  BY <1>3, <1>4, SMTT(30) DEF PickInv

LEMMA NextPickInv == PickInv /\ [Next]_vars => PickInv'
<1> SUFFICES ASSUME PickInv, [Next]_vars PROVE PickInv'
  OBVIOUS
<1>1. CASE UNCHANGED vars
  <2>1. Types'
    BY <1>1 DEF PickInv, Types, vars
  <2>a. UNCHANGED <<rq, deadline, vruntime, blocked, unborn, current>>
    BY <1>1 DEF vars
  <2>2. QInv(rq', deadline', vruntime') /\ Apart(Tasks(rq'), blocked', unborn', current')
    BY <2>a DEF PickInv
  <2> QED
    BY <2>1, <2>2, SMTT(30) DEF PickInv
<1>2. CASE yield_task
  BY <1>2, YieldKeeps
<1>3. CASE block_current_task
  BY <1>3, BlockKeeps, SMTT(30)
<1>4. CASE exit_current_task
  BY <1>4, ExitKeeps
<1>5. CASE Elapse
  BY <1>5, ElapseKeeps
<1>6. CASE enter_game_mode \/ exit_game_mode
  BY <1>6, GameModeKeeps
<1>7. ASSUME NEW t \in Task, spawn(t) PROVE PickInv'
  BY <1>7, SpawnKeeps
<1>8. ASSUME NEW t \in Task, unblock(t) PROVE PickInv'
  BY <1>8, UnblockKeeps, SMTT(30)
<1>9. ASSUME NEW t \in Task, configure_deadline(t) PROVE PickInv'
  BY <1>9, ConfigureKeeps
<1>10. ASSUME NEW t \in Task, NEW p \in {"Game", "Normal"}, set_priority(t, p) PROVE PickInv'
  BY <1>10, SetPriorityKeeps
<1> QED
  BY <1>1, <1>2, <1>3, <1>4, <1>5, <1>6, <1>7, <1>8, <1>9, <1>10, SMTT(30) DEF Next

LEMMA PickInvSorted == PickInv => QueuesSorted
<1> SUFFICES ASSUME PickInv PROVE QueuesSorted
  OBVIOUS
<1> DEFINE p == rq.deadline
           q == rq.normal
<1>1. /\ p \in Seq(Task) /\ q \in Seq(Task)
      /\ Sorted(p, Edf(deadline)) /\ Sorted(q, ByVruntime(vruntime))
  BY DEF PickInv, QInv, QueueInv, Runqueue
<1> HIDE DEF p, q
<1>2. \A i, j \in DOMAIN p : i < j /\ ~needs_new_period(p[j], deadline) =>
        absolute_deadline(p[i], deadline) <= absolute_deadline(p[j], deadline)
  BY <1>1, Zenon DEF Sorted, Edf
<1>3. \A i, j \in DOMAIN q : i < j => vruntime[q[i]] <= vruntime[q[j]]
  BY <1>1, Zenon DEF Sorted, ByVruntime
<1> QED
  BY <1>2, <1>3, Zenon DEF QueuesSorted, p, q

\* The switches, wake-ups, spawns and exits of scheduler.rs keep every task in one
\* place, on the CPU, in one of the three queues once, blocked or unborn, and the
\* starvation streak within its limit, whatever the tasks and their parameters.
THEOREM PickTypeCorrect == Spec => []TypeOK
<1>1. Init => PickInv
  BY InitPickInv
<1>2. PickInv /\ [Next]_vars => PickInv'
  BY NextPickInv
<1>3. PickInv => TypeOK
  BY PickInvType, SMTT(30)
<1> QED
  BY <1>1, <1>2, <1>3, PTL DEF Spec

\* insert_deadline_sorted and insert_normal_sorted find their queue sorted at every
\* call and leave it so: no wake, preemption, passage of time or change of class in
\* between puts a later running deadline, or a larger vruntime, ahead.
THEOREM QueuesStaySorted == Spec => []QueuesSorted
<1>1. Init => PickInv
  BY InitPickInv
<1>2. PickInv /\ [Next]_vars => PickInv'
  BY NextPickInv
<1>3. PickInv => QueuesSorted
  BY PickInvSorted
<1> QED
  BY <1>1, <1>2, <1>3, PTL DEF Spec
=============================================================================
