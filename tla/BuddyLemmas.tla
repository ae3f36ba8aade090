---------------------------- MODULE BuddyLemmas ----------------------------
(***************************************************************************)
(* What Buddy's arithmetic on blocks and its operations on lists do, for   *)
(* any number of frames and of orders.                                     *)
(***************************************************************************)
EXTENDS Buddy, WellFoundedInduction, TLAPS

(***************************************************************************)
(* Sizes and aligned blocks.                                               *)
(***************************************************************************)

\* A set with 0 and every successor has every natural number.
LEMMA Induction ==
  ASSUME NEW S, 0 \in S, \A n \in Nat : n \in S => n + 1 \in S
  PROVE  \A n \in Nat : n \in S
<1> SUFFICES ASSUME Nat \ S # {} PROVE FALSE
  OBVIOUS
<1>1. PICK i \in Nat \ S : \A j \in Nat \ S : ~(<<j, i>> \in OpToRel(<, Nat))
  BY WFMin, NatLessThanWellFounded, ZenonT(30)
<1>2. i # 0 /\ i \in Nat
  BY <1>1, Zenon
<1>3. i - 1 \in Nat /\ i - 1 < i /\ (i - 1) + 1 = i
  BY <1>2
<1>4. <<i - 1, i>> \in OpToRel(<, Nat)
  BY <1>2, <1>3, Zenon DEF OpToRel
<1>5. i - 1 \in S
  BY <1>1, <1>3, <1>4, Zenon
<1> QED
  BY <1>1, <1>3, <1>5, Zenon

\* The equations of Size have a solution.
LEMMA SizeDef ==
  Size = [o \in 0 .. MAX_ORDER |-> IF o = 0 THEN 1 ELSE 2 * Size[o - 1]]
<1> DEFINE S == {n \in Nat : \E f \in [0 .. n -> Nat] :
                     f = [o \in 0 .. n |-> IF o = 0 THEN 1 ELSE 2 * f[o - 1]]}
<1>1. 0 \in S
  <2>1. [o \in 0 .. 0 |-> 1] \in [0 .. 0 -> Nat]
    OBVIOUS
  <2> DEFINE f == [o \in 0 .. 0 |-> 1]
  <2>2. f = [o \in 0 .. 0 |-> IF o = 0 THEN 1 ELSE 2 * f[o - 1]]
    OBVIOUS
  <2> QED
    BY <2>1, <2>2, Zenon
<1>2. ASSUME NEW n \in Nat, n \in S PROVE n + 1 \in S
  <2>1. PICK f \in [0 .. n -> Nat] : f = [o \in 0 .. n |-> IF o = 0 THEN 1 ELSE 2 * f[o - 1]]
    BY <1>2
  <2> DEFINE g == [o \in 0 .. n + 1 |-> IF o = n + 1 THEN 2 * f[n] ELSE f[o]]
  <2>2. g \in [0 .. n + 1 -> Nat]
    BY <2>1
  <2>3. ASSUME NEW o \in 0 .. n + 1 PROVE g[o] = IF o = 0 THEN 1 ELSE 2 * g[o - 1]
    BY <2>1
  <2> HIDE DEF g
  <2>4. g = [o \in 0 .. n + 1 |-> IF o = 0 THEN 1 ELSE 2 * g[o - 1]]
    BY <2>2, <2>3
  <2>5. n + 1 \in Nat
    OBVIOUS
  <2> QED
    BY <2>2, <2>4, <2>5, Zenon
<1>3. MAX_ORDER \in S
  <2> HIDE DEF S
  <2> QED
    BY <1>1, <1>2, Induction, BuddyAssumption, Zenon
<1>4. \E f : f = [o \in 0 .. MAX_ORDER |-> IF o = 0 THEN 1 ELSE 2 * f[o - 1]]
  BY <1>3
<1> QED
  BY <1>4, Zenon DEF Size

\* 1 << order is positive and doubles with the order.
LEMMA SizeFacts ==
  /\ Size[0] = 1
  /\ \A o \in 0 .. MAX_ORDER : Size[o] \in Nat \ {0}
  /\ \A o \in 0 .. MAX_ORDER - 1 : Size[o + 1] = 2 * Size[o]
<1>0. MAX_ORDER \in Nat
  BY BuddyAssumption
<1>1. /\ Size[0] = 1
      /\ \A o \in 0 .. MAX_ORDER - 1 : Size[o + 1] = 2 * Size[o]
  BY <1>0, SizeDef
<1> DEFINE S == {n \in Nat : n <= MAX_ORDER => Size[n] \in Nat \ {0}}
<1>2. 0 \in S
  BY <1>1
<1>3. ASSUME NEW n \in Nat, n \in S PROVE n + 1 \in S
  BY <1>0, <1>1, <1>3
<1>4. \A n \in Nat : n \in S
  <2> HIDE DEF S
  <2> QED
    BY <1>2, <1>3, Induction
<1> QED
  BY <1>0, <1>1, <1>4

\* A larger size is a multiple of a smaller one.
LEMMA SizeMultiple ==
  ASSUME NEW p \in 0 .. MAX_ORDER, NEW q \in 0 .. MAX_ORDER, p <= q
  PROVE  \E k \in Nat \ {0} : Size[q] = k * Size[p]
<1>0. MAX_ORDER \in Nat
  BY BuddyAssumption
<1> DEFINE S == {n \in Nat : p + n <= MAX_ORDER => \E k \in Nat \ {0} : Size[p + n] = k * Size[p]}
<1>1. 0 \in S
  BY SizeFacts
<1>2. ASSUME NEW n \in Nat, n \in S PROVE n + 1 \in S
  <2> SUFFICES ASSUME p + n + 1 <= MAX_ORDER
               PROVE  \E k \in Nat \ {0} : Size[p + n + 1] = k * Size[p]
    BY <1>0
  <2>1. PICK k \in Nat \ {0} : Size[p + n] = k * Size[p]
    BY <1>0, <1>2
  <2>2. Size[p + n + 1] = 2 * Size[p + n]
    BY <1>0, SizeFacts
  <2>3. Size[p] \in Nat
    BY SizeFacts
  <2>4. Size[p + n + 1] = (2 * k) * Size[p]
    BY <2>1, <2>2, <2>3
  <2> QED
    BY <2>4
<1>3. \A n \in Nat : n \in S
  <2> HIDE DEF S
  <2> QED
    BY <1>1, <1>2, Induction
<1>4. q - p \in S /\ p + (q - p) = q /\ q <= MAX_ORDER
  BY <1>0, <1>3
<1>5. \E k \in Nat \ {0} : Size[p + (q - p)] = k * Size[p]
  BY <1>4
<1> QED
  BY <1>4, <1>5, Zenon

\* Arithmetic the provers find only on its own.
LEMMA Assoc ==
  ASSUME NEW x \in Nat, NEW y \in Nat, NEW z \in Nat
  PROVE  x * (y * z) = (x * y) * z /\ (x + y) * z = x * z + y * z /\ x * y \in Nat
OBVIOUS

LEMMA Cancel ==
  ASSUME NEW m \in Nat, NEW i \in Nat, NEW s \in Nat \ {0}
  PROVE  /\ m * s < i * s + s => m <= i
         /\ m * s < i * s => m < i
OBVIOUS

LEMMA Monotone ==
  ASSUME NEW m \in Nat, NEW i \in Nat, NEW s \in Nat \ {0}
  PROVE  /\ m < i => m * s + s <= i * s
         /\ m <= i => m * s <= i * s
OBVIOUS

LEMMA Quotient ==
  ASSUME NEW i \in Nat, NEW s \in Nat \ {0}
  PROVE  (i * s) % s = 0 /\ (i * s) \div s = i
OBVIOUS

LEMMA Parity ==
  ASSUME NEW i \in Nat
  PROVE  /\ i % 2 = 0 => \E j \in Nat : i = 2 * j
         /\ i % 2 # 0 => \E j \in Nat : i = 2 * j + 1
OBVIOUS

LEMMA Double ==
  ASSUME NEW j \in Nat, NEW s \in Nat
  PROVE  (2 * j) * s = j * (2 * s) /\ (2 * j + 1) * s = (2 * j) * s + s
OBVIOUS

LEMMA Multiple ==
  ASSUME NEW a \in Nat, NEW s \in Nat \ {0}
  PROVE  a % s = 0 <=> \E i \in Nat : a = i * s /\ a \div s = i
<1>1. ASSUME a % s = 0 PROVE \E i \in Nat : a = i * s /\ a \div s = i
  <2>1. PICK i \in Int : a = i * s
    BY <1>1
  <2>2. i \in Nat /\ a \div s = i
    BY <2>1
  <2> QED
    BY <2>1, <2>2
<1>2. ASSUME NEW i \in Nat, a = i * s PROVE a % s = 0
  BY <1>2
<1> QED
  BY <1>1, <1>2

\* Of two runs of multiples of s that meet, the one of one multiple is in the other.
LEMMA Within ==
  ASSUME NEW s \in Nat \ {0}, NEW i \in Nat, NEW j \in Nat, NEW k \in Nat, NEW f \in Int,
         i * s <= f, f < i * s + s, j * (k * s) <= f, f < j * (k * s) + k * s
  PROVE  j * (k * s) <= i * s /\ i * s + s <= j * (k * s) + k * s
<1> DEFINE m == j * k
           n == m + k
<1>1. m \in Nat /\ n \in Nat /\ j * (k * s) = m * s /\ n * s = m * s + k * s
  BY Assoc
<1>2. m * s < i * s + s /\ i * s < n * s
  BY <1>1
<1> HIDE DEF m, n
<1>3. m <= i /\ i < n
  BY <1>1, <1>2, Cancel
<1>4. m * s <= i * s /\ i * s + s <= n * s
  BY <1>1, <1>3, Monotone
<1> QED
  BY <1>1, <1>4

\* Of two aligned blocks that meet, the one of the lower order is in the other.
LEMMA Nested ==
  ASSUME NEW a \in Nat, NEW b \in Nat, NEW p \in 0 .. MAX_ORDER, NEW q \in 0 .. MAX_ORDER,
         p <= q, a % Size[p] = 0, b % Size[q] = 0,
         FramesOf(<<a, p>>) \cap FramesOf(<<b, q>>) # {}
  PROVE  FramesOf(<<a, p>>) \subseteq FramesOf(<<b, q>>)
<1> DEFINE s == Size[p]
<1>1. s \in Nat \ {0} /\ Size[q] \in Nat \ {0}
  BY SizeFacts
<1>2. PICK k \in Nat \ {0} : Size[q] = k * s
  BY SizeMultiple
<1>3. PICK i \in Nat : a = i * s
  BY <1>1, Multiple, Zenon
<1>4. PICK j \in Nat : b = j * (k * s)
  BY <1>1, <1>2, Multiple, Zenon
<1>5. PICK f : f \in FramesOf(<<a, p>>) /\ f \in FramesOf(<<b, q>>)
  OBVIOUS
<1>6. f \in Int /\ a <= f /\ f < a + s /\ b <= f /\ f < b + Size[q]
  BY <1>1, <1>5 DEF FramesOf
<1>7. b <= a /\ a + s <= b + Size[q]
  BY <1>1, <1>2, <1>3, <1>4, <1>6, Within, Zenon
<1> QED
  BY <1>1, <1>7 DEF FramesOf

\* Doubles: what the buddy's number is, and that of the pair.
LEMMA Pair ==
  ASSUME NEW a \in Nat, NEW s \in Nat \ {0}
  PROVE  /\ a % (2 * s) = 0 =>
              /\ a % s = 0 /\ (a + s) % s = 0
              /\ (a \div s) % 2 = 0 /\ ((a + s) \div s) % 2 = 1
         /\ a % s = 0 /\ (a \div s) % 2 = 0 => a % (2 * s) = 0
         /\ a % s = 0 /\ (a \div s) % 2 # 0 => a - s \in Nat /\ (a - s) % (2 * s) = 0
<1>0. 2 * s \in Nat \ {0} /\ s \in Nat
  OBVIOUS
<1>1. ASSUME a % (2 * s) = 0
      PROVE  /\ a % s = 0 /\ (a + s) % s = 0
             /\ (a \div s) % 2 = 0 /\ ((a + s) \div s) % 2 = 1
  <2>1. PICK j \in Nat : a = j * (2 * s)
    BY <1>0, <1>1, Multiple, Zenon
  <2>2. a = (2 * j) * s /\ a + s = (2 * j + 1) * s
    BY <1>0, <2>1, Double, Zenon
  <2>3. 2 * j \in Nat /\ 2 * j + 1 \in Nat /\ (2 * j) % 2 = 0 /\ (2 * j + 1) % 2 = 1
    OBVIOUS
  <2> QED
    BY <2>2, <2>3, Quotient, Zenon
<1>2. ASSUME a % s = 0, (a \div s) % 2 = 0 PROVE a % (2 * s) = 0
  <2>1. PICK i \in Nat : a = i * s /\ a \div s = i
    BY <1>2, Multiple, Zenon
  <2>2. PICK j \in Nat : i = 2 * j
    BY <1>2, <2>1, Parity, Zenon
  <2>3. a = j * (2 * s)
    BY <1>0, <2>1, <2>2, Double, Zenon
  <2> QED
    BY <1>0, <2>3, Quotient, Zenon
<1>3. ASSUME a % s = 0, (a \div s) % 2 # 0 PROVE a - s \in Nat /\ (a - s) % (2 * s) = 0
  <2>1. PICK i \in Nat : a = i * s /\ a \div s = i
    BY <1>3, Multiple, Zenon
  <2>2. PICK j \in Nat : i = 2 * j + 1
    BY <1>3, <2>1, Parity, Zenon
  <2>3. a = j * (2 * s) + s /\ j * (2 * s) \in Nat
    BY <1>0, <2>1, <2>2, Double, Assoc
  <2> DEFINE c == j * (2 * s)
  <2>4. c % (2 * s) = 0
    BY <1>0, Quotient, Zenon
  <2>5. a = c + s /\ c \in Nat
    BY <2>3
  <2> HIDE DEF c
  <2>6. a - s = c
    BY <2>5
  <2> QED
    BY <2>4, <2>5, <2>6, Zenon
<1> QED
  BY <1>1, <1>2, <1>3, Zenon

\* The two halves of an aligned block are aligned, and each is the other's buddy.
LEMMA Halves ==
  ASSUME NEW a \in Nat, NEW o \in 0 .. MAX_ORDER - 1, a % Size[o + 1] = 0
  PROVE  /\ a % Size[o] = 0 /\ (a + Size[o]) % Size[o] = 0
         /\ BuddyOf(a, o) = a + Size[o] /\ BuddyOf(a + Size[o], o) = a
         /\ FramesOf(<<a, o + 1>>) = FramesOf(<<a, o>>) \union FramesOf(<<a + Size[o], o>>)
         /\ FramesOf(<<a, o>>) \cap FramesOf(<<a + Size[o], o>>) = {}
<1>0. MAX_ORDER \in Nat
  BY BuddyAssumption
<1>1. Size[o] \in Nat \ {0} /\ Size[o + 1] = 2 * Size[o]
  BY <1>0, SizeFacts
<1>2. /\ a % Size[o] = 0 /\ (a + Size[o]) % Size[o] = 0
      /\ (a \div Size[o]) % 2 = 0 /\ ((a + Size[o]) \div Size[o]) % 2 = 1
  BY <1>1, Pair, Zenon
<1>3. (a + Size[o]) - Size[o] = a /\ 1 # 0
  BY <1>1
<1>4. BuddyOf(a, o) = a + Size[o] /\ BuddyOf(a + Size[o], o) = a
  BY <1>2, <1>3, Zenon DEF BuddyOf
<1>5. /\ FramesOf(<<a, o + 1>>) = FramesOf(<<a, o>>) \union FramesOf(<<a + Size[o], o>>)
      /\ FramesOf(<<a, o>>) \cap FramesOf(<<a + Size[o], o>>) = {}
  BY <1>1 DEF FramesOf
<1> QED
  BY <1>2, <1>4, <1>5

\* A block and its buddy are the halves of an aligned block.
LEMMA BuddyHalves ==
  ASSUME NEW a \in Nat, NEW o \in 0 .. MAX_ORDER - 1, a % Size[o] = 0
  PROVE  LET b == BuddyOf(a, o)
             m == IF b < a THEN b ELSE a
         IN  /\ b \in Nat /\ m \in Nat /\ m % Size[o + 1] = 0
             /\ (a = m /\ b = m + Size[o]) \/ (b = m /\ a = m + Size[o])
<1>0. MAX_ORDER \in Nat
  BY BuddyAssumption
<1>1. Size[o] \in Nat \ {0} /\ Size[o + 1] = 2 * Size[o]
  BY <1>0, SizeFacts
<1>2. CASE (a \div Size[o]) % 2 = 0
  <2>1. a % (2 * Size[o]) = 0
    BY <1>1, <1>2, Pair, Zenon
  <2>2. BuddyOf(a, o) = a + Size[o]
    BY <1>2, Zenon DEF BuddyOf
  <2>3. a + Size[o] \in Nat /\ (IF a + Size[o] < a THEN a + Size[o] ELSE a) = a
    BY <1>1
  <2> DEFINE b == BuddyOf(a, o)
             m == IF b < a THEN b ELSE a
  <2>4. b = a + Size[o] /\ m = a
    BY <2>2, <2>3
  <2> SUFFICES /\ b \in Nat /\ m \in Nat /\ m % Size[o + 1] = 0
               /\ (a = m /\ b = m + Size[o]) \/ (b = m /\ a = m + Size[o])
    BY Zenon
  <2> HIDE DEF b, m
  <2>5. a % Size[o + 1] = 0
    BY <1>1, <2>1, Zenon
  <2>6. m % Size[o + 1] = 0
    BY <2>4, <2>5, Zenon
  <2>7. b \in Nat /\ m \in Nat /\ a = m /\ b = m + Size[o]
    BY <2>3, <2>4, Zenon
  <2> QED
    BY <2>6, <2>7, Zenon
<1>3. CASE (a \div Size[o]) % 2 # 0
  <2>1. (a - Size[o]) % (2 * Size[o]) = 0 /\ a - Size[o] \in Nat
    BY <1>1, <1>3, Pair, Zenon
  <2>2. BuddyOf(a, o) = a - Size[o]
    BY <1>3, Zenon DEF BuddyOf
  <2>3. a - Size[o] < a /\ a = (a - Size[o]) + Size[o]
    BY <1>1
  <2> QED
    BY <1>1, <2>1, <2>2, <2>3, Zenon
<1> QED
  BY <1>2, <1>3

-----------------------------------------------------------------------------
(***************************************************************************)
(* The lists.  L is the set of listed blocks, by first frame, ord their    *)
(* orders, and rank their distances from the ends of the lists.            *)
(***************************************************************************)
Node == [next : Nat, prev : Nat]

LinkedTypes(L, ord, rank, heads, m) ==
  /\ L \subseteq Frame \ {0}
  /\ ord \in [Frame -> Order] /\ rank \in [Frame -> Nat]
  /\ heads \in [Order -> Frame] /\ m \in [Frame -> Node]

Forward(L, ord, rank, m) ==
  \A a \in L : LET next == m[a].next IN
    IF next = 0 THEN rank[a] = 0
    ELSE next \in L /\ ord[next] = ord[a] /\ rank[a] = rank[next] + 1 /\ m[next].prev = a

Backward(L, ord, heads, m) ==
  \A a \in L : LET prev == m[a].prev IN
    IF prev = 0 THEN heads[ord[a]] = a
    ELSE prev \in L /\ ord[prev] = ord[a] /\ m[prev].next = a

Headed(L, ord, rank, heads, m) ==
  /\ \A o \in Order :
       heads[o] # 0 => heads[o] \in L /\ ord[heads[o]] = o /\ m[heads[o]].prev = 0
  /\ \A a \in L : heads[ord[a]] # 0 /\ rank[a] <= rank[heads[ord[a]]]

Ranked(L, ord, rank) ==
  \A a, b \in L : ord[a] = ord[b] /\ rank[a] = rank[b] => a = b

Links(L, ord, rank, heads, m) ==
  /\ LinkedTypes(L, ord, rank, heads, m)
  /\ Forward(L, ord, rank, m)
  /\ Backward(L, ord, heads, m)
  /\ Headed(L, ord, rank, heads, m)
  /\ Ranked(L, ord, rank)

\* What push_to_list and pop_from_list make of heads and nodes.
PushHeads(heads, a, o) == [heads EXCEPT ![o] = a]
PushNodes(m, h, a) ==
  [f \in Frame |->
    [next |-> IF f = a THEN h ELSE m[f].next,
     prev |-> IF f = h /\ h # 0 THEN a ELSE IF f = a THEN 0 ELSE m[f].prev]]

PopHeads(heads, m, a, o) ==
  IF m[a].prev = 0 THEN [heads EXCEPT ![o] = m[a].next] ELSE heads
PopNodes(m, a) ==
  [f \in Frame |->
    [next |-> IF f = m[a].prev /\ m[a].prev # 0 THEN m[a].next ELSE m[f].next,
     prev |-> IF f = m[a].next /\ m[a].next # 0 THEN m[a].prev ELSE m[f].prev]]

\* push_to_list puts a block in front.
LEMMA PushLinks ==
  ASSUME NEW L, NEW ord, NEW rank, NEW heads, NEW m, Links(L, ord, rank, heads, m),
         NEW a \in Frame \ {0}, a \notin L, NEW o \in Order
  PROVE  \E rank2 : Links(L \union {a}, [ord EXCEPT ![a] = o], rank2,
                          PushHeads(heads, a, o), PushNodes(m, heads[o], a))
<1> DEFINE h == heads[o]
           heads2 == PushHeads(heads, a, o)
           m2 == PushNodes(m, h, a)
           L2 == L \union {a}
           ord2 == [ord EXCEPT ![a] = o]
           r == IF h = 0 THEN 0 ELSE rank[h] + 1
           rank2 == [rank EXCEPT ![a] = r]
<1> USE DEF Node
<1>1. /\ LinkedTypes(L, ord, rank, heads, m) /\ Forward(L, ord, rank, m)
      /\ Backward(L, ord, heads, m) /\ Headed(L, ord, rank, heads, m) /\ Ranked(L, ord, rank)
  BY DEF Links
<1>2. /\ L \subseteq Frame \ {0} /\ 0 \notin L /\ a \in Frame /\ a # 0 /\ Frame \subseteq Nat
      /\ ord \in [Frame -> Order] /\ rank \in [Frame -> Nat]
      /\ heads \in [Order -> Frame] /\ m \in [Frame -> Node]
  <2>1. Frame \subseteq Nat
    BY DEF Frame
  <2> QED
    BY <1>1, <2>1 DEF LinkedTypes
<1>3. h \in Frame /\ h # a /\ (h # 0 => h \in L /\ ord[h] = o /\ m[h].prev = 0)
  BY <1>1, <1>2 DEF Headed
<1>4. r \in Nat /\ \A b \in L : ord[b] = o => h # 0 /\ rank[b] < r
  <2>1. \A b \in L : ord[b] = o => h # 0 /\ rank[b] <= rank[h]
    BY <1>1 DEF Headed
  <2>2. rank[h] \in Nat /\ \A b \in L : rank[b] \in Nat
    BY <1>2, <1>3, Zenon
  <2> HIDE DEF h
  <2> QED
    BY <2>1, <2>2
<1>5. /\ ord2 \in [Frame -> Order] /\ ord2[a] = o /\ \A b \in L : ord2[b] = ord[b]
      /\ rank2 \in [Frame -> Nat] /\ rank2[a] = r /\ \A b \in L : rank2[b] = rank[b]
  BY <1>2, <1>4
<1>6. /\ heads2 \in [Order -> Frame] /\ heads2[o] = a /\ \A p \in Order \ {o} : heads2[p] = heads[p]
  BY <1>2 DEF PushHeads
<1>7. /\ m2 \in [Frame -> Node] /\ m2[a].next = h /\ m2[a].prev = 0
      /\ \A b \in L : m2[b].next = m[b].next /\ m2[b].prev = IF b = h THEN a ELSE m[b].prev
  BY <1>2, <1>3, Zenon DEF PushNodes
<1> HIDE DEF ord2, rank2, r, h, heads2, m2
<1>8. LinkedTypes(L2, ord2, rank2, heads2, m2)
  BY <1>2, <1>5, <1>6, <1>7 DEF LinkedTypes
<1>9. Forward(L2, ord2, rank2, m2)
  <2> SUFFICES ASSUME NEW b \in L2, m2[b].next # 0 \/ rank2[b] # 0
               PROVE  LET next == m2[b].next IN
                      /\ next # 0
                      /\ next \in L2 /\ ord2[next] = ord2[b] /\ rank2[b] = rank2[next] + 1
                      /\ m2[next].prev = b
    BY DEF Forward
  <2>1. CASE b = a
    BY <1>2, <1>3, <1>5, <1>7, <2>1 DEF r
  <2>2. CASE b # a
    <3>1. b \in L /\ m[b].next # 0 /\ m[b].next \in L
      BY <1>1, <1>5, <1>7, <2>2 DEF Forward
    <3>2. /\ ord[m[b].next] = ord[b] /\ rank[b] = rank[m[b].next] + 1
          /\ m[m[b].next].prev = b
      BY <1>1, <3>1 DEF Forward
    <3>3. m[b].next # h
      BY <1>2, <1>3, <3>1, <3>2
    <3> DEFINE n == m[b].next
    <3>4. /\ m2[b].next = n /\ n # 0 /\ n \in L /\ b \in L /\ n # h
          /\ ord[n] = ord[b] /\ rank[b] = rank[n] + 1 /\ m[n].prev = b
      BY <1>7, <3>1, <3>2, <3>3
    <3> HIDE DEF n
    <3>5. n \in L2 /\ ord2[n] = ord2[b] /\ rank2[b] = rank2[n] + 1
      BY <1>5, <3>4
    <3>6. m2[n].prev = b
      BY <1>7, <3>4
    <3> QED
      BY <3>4, <3>5, <3>6, Zenon
  <2> QED
    BY <2>1, <2>2
<1>10. Backward(L2, ord2, heads2, m2)
  <2> SUFFICES ASSUME NEW b \in L2
               PROVE  LET prev == m2[b].prev IN
                      IF prev = 0 THEN heads2[ord2[b]] = b
                      ELSE prev \in L2 /\ ord2[prev] = ord2[b] /\ m2[prev].next = b
    BY DEF Backward
  <2>1. CASE b = a
    BY <1>5, <1>6, <1>7, <2>1
  <2>2. CASE b # a /\ b = h
    BY <1>2, <1>3, <1>5, <1>7, <2>2
  <2>3. CASE b # a /\ b # h
    <3>1. b \in L /\ m2[b].prev = m[b].prev
      BY <1>7, <2>3
    <3>2. CASE m[b].prev = 0
      <4>1. heads[ord[b]] = b /\ ord[b] \in Order
        BY <1>1, <1>2, <3>1, <3>2 DEF Backward
      <4>2. ord[b] # o
        BY <2>3, <4>1 DEF h
      <4> QED
        BY <1>5, <1>6, <3>1, <3>2, <4>1, <4>2
    <3>3. CASE m[b].prev # 0
      <4>1. m[b].prev \in L /\ ord[m[b].prev] = ord[b] /\ m[m[b].prev].next = b
        BY <1>1, <3>1, <3>3 DEF Backward
      <4> DEFINE p == m[b].prev
      <4>2. /\ m2[b].prev = p /\ p # 0 /\ p \in L /\ b \in L
            /\ ord[p] = ord[b] /\ m[p].next = b
        BY <3>1, <3>3, <4>1
      <4> HIDE DEF p
      <4> QED
        BY <1>5, <1>7, <4>2
    <3> QED
      BY <3>2, <3>3
  <2> QED
    BY <2>1, <2>2, <2>3
<1>11. Headed(L2, ord2, rank2, heads2, m2)
  <2>1. ASSUME NEW p \in Order, heads2[p] # 0
        PROVE  heads2[p] \in L2 /\ ord2[heads2[p]] = p /\ m2[heads2[p]].prev = 0
    <3>1. CASE p = o
      BY <1>5, <1>6, <1>7, <3>1
    <3>2. CASE p # o
      <4>1. /\ heads2[p] = heads[p] /\ heads[p] \in L /\ ord[heads[p]] = p
            /\ m[heads[p]].prev = 0
        BY <1>1, <1>6, <2>1, <3>2 DEF Headed
      <4>2. heads[p] # h
        BY <1>2, <1>3, <3>2, <4>1
      <4> QED
        BY <1>5, <1>7, <4>1, <4>2
    <3> QED
      BY <3>1, <3>2
  <2>2. ASSUME NEW b \in L2
        PROVE  heads2[ord2[b]] # 0 /\ rank2[b] <= rank2[heads2[ord2[b]]]
    <3>1. CASE b = a
      BY <1>2, <1>4, <1>5, <1>6, <3>1
    <3>2. CASE b # a /\ ord[b] = o
      BY <1>2, <1>4, <1>5, <1>6, <3>2
    <3>3. CASE b # a /\ ord[b] # o
      <4>1. /\ b \in L /\ ord[b] \in Order /\ heads[ord[b]] # 0
            /\ rank[b] <= rank[heads[ord[b]]] /\ heads[ord[b]] \in L
        BY <1>1, <1>2, <3>3 DEF Headed
      <4> QED
        BY <1>5, <1>6, <3>3, <4>1
    <3> QED
      BY <3>1, <3>2, <3>3
  <2> QED
    BY <2>1, <2>2 DEF Headed
<1>12. Ranked(L2, ord2, rank2)
  <2> SUFFICES ASSUME NEW b \in L2, NEW c \in L2, ord2[b] = ord2[c], rank2[b] = rank2[c]
               PROVE  b = c
    BY DEF Ranked
  <2>1. CASE b \in L /\ c \in L
    BY <1>1, <1>5, <2>1 DEF Ranked
  <2>2. ASSUME NEW d \in L, ord2[d] = o PROVE rank2[d] # r
    BY <1>2, <1>4, <1>5, <2>2
  <2> QED
    BY <1>5, <2>1, <2>2
<1> QED
  BY <1>8, <1>9, <1>10, <1>11, <1>12 DEF Links, ord2, heads2, m2, h

\* pop_from_list takes out a block, wherever in its list it is.
LEMMA PopLinks ==
  ASSUME NEW L, NEW ord, NEW rank, NEW heads, NEW m, Links(L, ord, rank, heads, m),
         NEW a \in L, NEW o \in Order, ord[a] = o
  PROVE  \E rank2 : Links(L \ {a}, ord, rank2, PopHeads(heads, m, a, o), PopNodes(m, a))
<1> DEFINE heads2 == PopHeads(heads, m, a, o)
           m2 == PopNodes(m, a)
           n == m[a].next
           p == m[a].prev
           L2 == L \ {a}
           rank2 == [f \in Frame |-> IF f \in L /\ ord[f] = o /\ rank[f] > rank[a]
                                      THEN rank[f] - 1 ELSE rank[f]]
<1> USE DEF Node
<1>1. /\ LinkedTypes(L, ord, rank, heads, m) /\ Forward(L, ord, rank, m)
      /\ Backward(L, ord, heads, m) /\ Headed(L, ord, rank, heads, m) /\ Ranked(L, ord, rank)
  BY DEF Links
<1>2. /\ L \subseteq Frame \ {0} /\ 0 \notin L /\ a \in Frame /\ a # 0
      /\ ord \in [Frame -> Order] /\ rank \in [Frame -> Nat]
      /\ heads \in [Order -> Frame] /\ m \in [Frame -> Node]
      /\ \A b \in L : b \in Frame /\ rank[b] \in Nat /\ ord[b] \in Order
  BY <1>1 DEF LinkedTypes
<1>3. IF n = 0 THEN rank[a] = 0
      ELSE n \in L /\ ord[n] = o /\ rank[a] = rank[n] + 1 /\ m[n].prev = a
  BY <1>1 DEF Forward
<1>4. IF p = 0 THEN heads[o] = a ELSE p \in L /\ ord[p] = o /\ m[p].next = a
  BY <1>1 DEF Backward
<1>5. p # 0 => rank[p] = rank[a] + 1 /\ heads[o] # a
  <2>1. p # 0 => m[p].next = a /\ a # 0 /\ p \in L
    BY <1>2, <1>4
  <2>2. p # 0 => rank[p] = rank[a] + 1
    BY <1>1, <2>1 DEF Forward
  <2>3. heads[o] = a => p = 0
    BY <1>1, <1>2 DEF Headed
  <2> QED
    BY <2>2, <2>3
<1>6. n # a /\ p # a
  BY <1>2, <1>3, <1>4, <1>5
<1>7. /\ rank2 \in [Frame -> Nat]
      /\ \A b \in L : rank2[b] = IF ord[b] = o /\ rank[b] > rank[a] THEN rank[b] - 1 ELSE rank[b]
  BY <1>2
<1>8. n \in Frame /\ p \in Frame
  <2>1. n # 0 => n \in Frame
    BY <1>2, <1>3
  <2>2. p # 0 => p \in Frame
    BY <1>2, <1>4
  <2>3. 0 \in Frame
    BY BuddyAssumption DEF Frame
  <2> QED
    BY <2>1, <2>2, <2>3
<1>9. /\ m2 \in [Frame -> Node]
      /\ \A b \in L :
           /\ m2[b].next = IF b = p THEN n ELSE m[b].next
           /\ m2[b].prev = IF b = n THEN p ELSE m[b].prev
  <2>1. n \in Nat /\ p \in Nat
    BY <1>2
  <2> QED
    BY <1>2, <2>1 DEF PopNodes
<1>10. /\ heads2 \in [Order -> Frame]
       /\ p = 0 => heads2[o] = n
       /\ \A q \in Order : p # 0 \/ q # o => heads2[q] = heads[q]
  BY <1>2, <1>8 DEF PopHeads
<1> HIDE DEF n, p, rank2, heads2, m2
<1>11. ASSUME NEW b \in L2
       PROVE  b # p => m[b].next # a
  BY <1>1, <1>2 DEF Forward, p
<1>12. ASSUME NEW b \in L2
       PROVE  b # n => m[b].prev # a
  BY <1>1, <1>2 DEF Backward, n
<1>13. ASSUME NEW b \in L2, ord[b] = o PROVE rank[b] # rank[a]
  BY <1>1, <1>13 DEF Ranked
<1>14. LinkedTypes(L2, ord, rank2, heads2, m2)
  BY <1>2, <1>7, <1>9, <1>10 DEF LinkedTypes
<1>15. Forward(L2, ord, rank2, m2)
  <2> SUFFICES ASSUME NEW b \in L2
               PROVE  LET next == m2[b].next IN
                      IF next = 0 THEN rank2[b] = 0
                      ELSE /\ next \in L2 /\ ord[next] = ord[b] /\ rank2[b] = rank2[next] + 1
                           /\ m2[next].prev = b
    BY DEF Forward
  <2>1. CASE b = p
    <3>1. m2[b].next = n /\ ord[b] = o /\ rank[b] = rank[a] + 1
      BY <1>2, <1>4, <1>5, <1>9, <2>1
    <3>2. rank2[b] = rank[a]
      BY <1>2, <1>7, <3>1
    <3>3. n # 0 => n \in L2 /\ rank2[n] = rank[n] /\ m2[n].prev = b
      BY <1>2, <1>3, <1>6, <1>7, <1>9, <2>1
    <3> QED
      BY <1>3, <3>1, <3>2, <3>3
  <2>2. CASE b # p
    <3> DEFINE c == m[b].next
    <3>1. m2[b].next = c /\ c # a
      BY <1>9, <1>11, <2>2
    <3>2. IF c = 0 THEN rank[b] = 0
          ELSE c \in L /\ ord[c] = ord[b] /\ rank[b] = rank[c] + 1 /\ m[c].prev = b
      BY <1>1 DEF Forward
    <3> HIDE DEF c
    <3>3. CASE c = 0
      BY <1>2, <1>7, <3>1, <3>2, <3>3, SMTT(30)
    <3>4. CASE c # 0
      <4>1. c \in L2 /\ c # n
        BY <1>3, <3>1, <3>2, <3>4
      <4>2. m2[c].prev = b
        BY <1>9, <3>2, <3>4, <4>1
      <4>3. ord[c] = o => rank[c] # rank[a]
        BY <1>13, <4>1
      <4>4. rank2[b] = rank2[c] + 1
        <5>1. rank[a] \in Nat /\ rank[b] \in Nat /\ rank[c] \in Nat
          BY <1>2, <4>1
        <5>2. /\ rank2[b] = IF ord[b] = o /\ rank[b] > rank[a] THEN rank[b] - 1 ELSE rank[b]
              /\ rank2[c] = IF ord[c] = o /\ rank[c] > rank[a] THEN rank[c] - 1 ELSE rank[c]
          BY <1>7, <4>1
        <5>3. ord[c] = ord[b] /\ rank[b] = rank[c] + 1
          BY <3>2, <3>4
        <5> QED
          BY <4>3, <5>1, <5>2, <5>3
      <4> QED
        BY <3>1, <3>2, <3>4, <4>1, <4>2, <4>4, Zenon
    <3> QED
      BY <3>3, <3>4
  <2> QED
    BY <2>1, <2>2
<1>16. Backward(L2, ord, heads2, m2)
  <2> SUFFICES ASSUME NEW b \in L2
               PROVE  LET prev == m2[b].prev IN
                      IF prev = 0 THEN heads2[ord[b]] = b
                      ELSE prev \in L2 /\ ord[prev] = ord[b] /\ m2[prev].next = b
    BY DEF Backward
  <2>1. CASE b = n
    <3>1. m2[b].prev = p /\ ord[b] = o
      BY <1>2, <1>3, <1>9, <2>1
    <3>2. p # 0 => p \in L2 /\ m2[p].next = b
      BY <1>4, <1>6, <1>9, <2>1
    <3> QED
      BY <1>4, <1>10, <2>1, <3>1, <3>2
  <2>2. CASE b # n
    <3> DEFINE c == m[b].prev
    <3>1. m2[b].prev = c /\ c # a
      BY <1>9, <1>12, <2>2
    <3>2. IF c = 0 THEN heads[ord[b]] = b
          ELSE c \in L /\ ord[c] = ord[b] /\ m[c].next = b
      BY <1>1 DEF Backward
    <3> HIDE DEF c
    <3>3. CASE c = 0
      <4>1. p # 0 \/ ord[b] # o
        BY <1>4, <3>2, <3>3
      <4> QED
        BY <1>2, <1>10, <3>1, <3>2, <3>3, <4>1
    <3>4. CASE c # 0
      <4>1. c \in L2 /\ c # p
        BY <1>4, <3>1, <3>2, <3>4
      <4>2. m2[c].next = b
        BY <1>9, <3>2, <3>4, <4>1
      <4> QED
        BY <3>1, <3>2, <3>4, <4>1, <4>2, Zenon
    <3> QED
      BY <3>3, <3>4
  <2> QED
    BY <2>1, <2>2
<1>17. Headed(L2, ord, rank2, heads2, m2)
  <2>1. ASSUME NEW q \in Order, heads2[q] # 0
        PROVE  heads2[q] \in L2 /\ ord[heads2[q]] = q /\ m2[heads2[q]].prev = 0
    <3>1. CASE q = o /\ p = 0
      <4>1. heads2[q] = n /\ n # 0
        BY <1>10, <2>1, <3>1
      <4> QED
        BY <1>3, <1>6, <1>9, <3>1, <4>1
    <3>2. CASE q # o \/ p # 0
      <4> DEFINE h == heads[q]
      <4>1. heads2[q] = h /\ h \in L /\ ord[h] = q /\ m[h].prev = 0
        BY <1>1, <1>10, <2>1, <3>2 DEF Headed
      <4>2. h # a
        BY <1>5, <3>2, <4>1
      <4> HIDE DEF h
      <4>3. h # n
        BY <1>2, <1>3, <4>1
      <4>4. m2[h].prev = 0
        BY <1>9, <4>1, <4>3
      <4> QED
        BY <4>1, <4>2, <4>4
    <3> QED
      BY <3>1, <3>2
  <2>2. ASSUME NEW b \in L2
        PROVE  heads2[ord[b]] # 0 /\ rank2[b] <= rank2[heads2[ord[b]]]
    <3> DEFINE h == heads[ord[b]]
    <3>1. /\ ord[b] \in Order /\ h # 0 /\ rank[b] <= rank[h] /\ h \in L
          /\ ord[h] = ord[b] /\ rank[b] \in Nat /\ rank[h] \in Nat /\ rank[a] \in Nat
      BY <1>1, <1>2 DEF Headed
    <3>2. ord[b] = o /\ p = 0 => h = a
      BY <1>4
    <3>3. ord[b] = o /\ p # 0 => h # a
      BY <1>5
    <3>4. ord[b] # o \/ p # 0 => heads2[ord[b]] = h
      BY <1>10, <3>1
    <3>5. ord[b] = o => rank[b] # rank[a]
      BY <1>13
    <3> HIDE DEF h
    <3>6. CASE ord[b] # o
      BY <1>7, <3>1, <3>4, <3>6
    <3>7. CASE ord[b] = o /\ p = 0
      <4>1. rank[b] < rank[a] /\ rank2[b] = rank[b]
        BY <1>7, <3>1, <3>2, <3>5, <3>7
      <4>2. n # 0 /\ heads2[ord[b]] = n /\ n \in L /\ rank[n] = rank[a] - 1 /\ rank[n] \in Nat
        BY <1>2, <1>3, <1>10, <3>1, <3>7, <4>1
      <4>3. rank2[n] = rank[n]
        BY <1>7, <3>1, <4>2
      <4> QED
        BY <3>1, <4>1, <4>2, <4>3
    <3>8. CASE ord[b] = o /\ p # 0
      <4>1. rank[h] # rank[a] /\ rank[a] <= rank[h]
        <5>1. h \in L2
          BY <3>1, <3>3, <3>8
        <5>2. rank[a] <= rank[h]
          BY <1>1, <3>8 DEF Headed, h
        <5> QED
          BY <1>13, <3>1, <3>8, <5>1, <5>2
      <4>2. rank2[h] = rank[h] - 1
        BY <1>7, <3>1, <3>8, <4>1
      <4> QED
        BY <1>7, <3>1, <3>4, <3>8, <4>1, <4>2
    <3> QED
      BY <3>6, <3>7, <3>8
  <2> QED
    BY <2>1, <2>2 DEF Headed
<1>18. Ranked(L2, ord, rank2)
  <2> SUFFICES ASSUME NEW b \in L2, NEW c \in L2, ord[b] = ord[c], rank2[b] = rank2[c]
               PROVE  b = c
    BY DEF Ranked
  <2>1. /\ rank[b] \in Nat /\ rank[c] \in Nat /\ rank[a] \in Nat
        /\ ord[b] = o => rank[b] # rank[a]
        /\ ord[c] = o => rank[c] # rank[a]
    BY <1>2, <1>13
  <2>2. rank[b] = rank[c]
    BY <1>7, <2>1
  <2> QED
    BY <1>1, <2>2 DEF Ranked
<1> QED
  BY <1>14, <1>15, <1>16, <1>17, <1>18 DEF Links, heads2, m2

-----------------------------------------------------------------------------
(***************************************************************************)
(* The listed blocks tile a set F of frames, with no two buddies apart.    *)
(***************************************************************************)
Tiles(L, ord, F) ==
  /\ \A a \in L : a % Size[ord[a]] = 0 /\ FramesOf(<<a, ord[a]>>) \subseteq F
  /\ \A f \in F : \E a \in L : f \in FramesOf(<<a, ord[a]>>)
  /\ \A a, b \in L : a # b => FramesOf(<<a, ord[a]>>) \cap FramesOf(<<b, ord[b]>>) = {}
  /\ \A a, b \in L : ord[a] = ord[b] /\ ord[a] < MAX_ORDER - 1 => b # BuddyOf(a, ord[a])

\* A block begins with its first frame.
LEMMA FirstFrame ==
  ASSUME NEW a \in Nat, NEW o \in 0 .. MAX_ORDER
  PROVE  a \in FramesOf(<<a, o>>)
BY SizeFacts DEF FramesOf

\* addr ^ (1 << order) is its own inverse.
LEMMA BuddyBack ==
  ASSUME NEW a \in Nat, NEW o \in 0 .. MAX_ORDER - 1, a % Size[o] = 0
  PROVE  /\ BuddyOf(a, o) \in Nat /\ BuddyOf(a, o) % Size[o] = 0
         /\ BuddyOf(BuddyOf(a, o), o) = a
<1> DEFINE b == BuddyOf(a, o)
           m == IF b < a THEN b ELSE a
<1>1. /\ b \in Nat /\ m \in Nat /\ m % Size[o + 1] = 0
      /\ (a = m /\ b = m + Size[o]) \/ (b = m /\ a = m + Size[o])
  BY BuddyHalves, Zenon
<1> SUFFICES b \in Nat /\ b % Size[o] = 0 /\ BuddyOf(b, o) = a
  OBVIOUS
<1> HIDE DEF b, m
<1>2. /\ m % Size[o] = 0 /\ (m + Size[o]) % Size[o] = 0
      /\ BuddyOf(m, o) = m + Size[o] /\ BuddyOf(m + Size[o], o) = m
  BY <1>1, Halves, Zenon
<1> QED
  BY <1>1, <1>2, Zenon

\* Two blocks of one order are the same if one is in the other.
LEMMA SameBlock ==
  ASSUME NEW a \in Nat, NEW b \in Nat, NEW o \in 0 .. MAX_ORDER,
         FramesOf(<<a, o>>) \subseteq FramesOf(<<b, o>>)
  PROVE  a = b
<1>1. Size[o] \in Nat \ {0}
  BY SizeFacts
<1>2. a \in FramesOf(<<a, o>>) /\ a + Size[o] - 1 \in FramesOf(<<a, o>>)
  BY <1>1 DEF FramesOf
<1>3. a \in FramesOf(<<b, o>>) /\ a + Size[o] - 1 \in FramesOf(<<b, o>>)
  BY <1>2
<1> QED
  BY <1>1, <1>3 DEF FramesOf

\* A block is part of a listed one.
Listing(L, ord, a, o) ==
  \E b \in L : o <= ord[b] /\ FramesOf(<<a, o>>) \subseteq FramesOf(<<b, ord[b]>>)

\* Every aligned block of listed frames is in one listed block.
LEMMA Covering ==
  ASSUME NEW L \in SUBSET Frame, NEW ord \in [Frame -> Order], NEW F, Tiles(L, ord, F),
         NEW o \in Order, NEW a \in Nat, a % Size[o] = 0, FramesOf(<<a, o>>) \subseteq F
  PROVE  Listing(L, ord, a, o)
<1> DEFINE S == {n \in Nat : n \in Order =>
                   \A c \in Nat : c % Size[n] = 0 /\ FramesOf(<<c, n>>) \subseteq F
                                  => Listing(L, ord, c, n)}
<1>0. /\ MAX_ORDER \in Nat \ {0} /\ 0 \in Order /\ Order \subseteq 0 .. MAX_ORDER
      /\ Order = 0 .. MAX_ORDER - 1 /\ Frame \subseteq Nat
  BY BuddyAssumption DEF Order, Frame
<1>1. 0 \in S
  <2> SUFFICES ASSUME NEW c \in Nat, FramesOf(<<c, 0>>) \subseteq F PROVE Listing(L, ord, c, 0)
    OBVIOUS
  <2>1. c \in FramesOf(<<c, 0>>) /\ FramesOf(<<c, 0>>) = {c}
    BY <1>0, SizeFacts DEF FramesOf
  <2>2. PICK b \in L : c \in FramesOf(<<b, ord[b]>>)
    BY <2>1 DEF Tiles
  <2>3. 0 <= ord[b]
    BY <1>0
  <2> QED
    BY <2>1, <2>2, <2>3, Zenon DEF Listing
<1>2. ASSUME NEW n \in Nat, n \in S PROVE n + 1 \in S
  <2> SUFFICES ASSUME n + 1 \in Order, NEW c \in Nat, c % Size[n + 1] = 0,
                      FramesOf(<<c, n + 1>>) \subseteq F
               PROVE  Listing(L, ord, c, n + 1)
    <3>1. n + 1 \in Nat
      OBVIOUS
    <3> QED
      BY <3>1, Zenon
  <2>1. n \in Order /\ n < MAX_ORDER - 1 /\ n \in 0 .. MAX_ORDER /\ n + 1 \in 0 .. MAX_ORDER
    BY <1>0
  <2> DEFINE d == c + Size[n]
  <2>2. /\ c % Size[n] = 0 /\ d % Size[n] = 0 /\ d \in Nat
        /\ BuddyOf(c, n) = d
        /\ FramesOf(<<c, n + 1>>) = FramesOf(<<c, n>>) \union FramesOf(<<d, n>>)
    <3>1. n \in 0 .. MAX_ORDER - 1 /\ Size[n] \in Nat
      BY <1>0, <2>1, SizeFacts
    <3>2. d \in Nat
      BY <3>1
    <3> QED
      BY <3>1, <3>2, Halves, ZenonT(30)
  <2> HIDE DEF d
  <2>3. PICK b1 \in L : n <= ord[b1] /\ FramesOf(<<c, n>>) \subseteq FramesOf(<<b1, ord[b1]>>)
    BY <1>2, <2>1, <2>2, Zenon DEF Listing
  <2>4. PICK b2 \in L : n <= ord[b2] /\ FramesOf(<<d, n>>) \subseteq FramesOf(<<b2, ord[b2]>>)
    BY <1>2, <2>1, <2>2, Zenon DEF Listing
  <2>5. c \in FramesOf(<<c, n>>) /\ d \in FramesOf(<<d, n>>)
    BY <2>1, <2>2, FirstFrame
  <2>6. ASSUME NEW b \in L, n + 1 <= ord[b], NEW f, f \in FramesOf(<<c, n + 1>>),
               f \in FramesOf(<<b, ord[b]>>)
        PROVE  Listing(L, ord, c, n + 1)
    <3>1. b \in Nat /\ ord[b] \in 0 .. MAX_ORDER /\ b % Size[ord[b]] = 0
      BY <1>0, Zenon DEF Tiles
    <3>2. FramesOf(<<c, n + 1>>) \subseteq FramesOf(<<b, ord[b]>>)
      BY <2>1, <2>6, <3>1, Nested, Zenon
    <3> QED
      BY <2>6, <3>2, Zenon DEF Listing
  <2>7. ASSUME NEW b \in L, NEW e \in Nat, e % Size[n] = 0, ord[b] = n, e \in FramesOf(<<e, n>>),
               FramesOf(<<e, n>>) \subseteq FramesOf(<<b, ord[b]>>)
        PROVE  b = e
    BY <1>0, <2>1, <2>7, SameBlock, Zenon
  <2>8. CASE n + 1 <= ord[b1]
    BY <2>2, <2>3, <2>5, <2>6, <2>8
  <2>9. CASE n + 1 <= ord[b2]
    BY <2>2, <2>4, <2>5, <2>6, <2>9
  <2>10. CASE ~(n + 1 <= ord[b1]) /\ ~(n + 1 <= ord[b2])
    <3>1. ord[b1] = n /\ ord[b2] = n
      <4>1. ord[b1] \in Nat /\ ord[b2] \in Nat
        BY <1>0
      <4> QED
        BY <2>3, <2>4, <2>10, <4>1
    <3>2. b1 = c /\ b2 = d
      BY <2>2, <2>3, <2>4, <2>5, <2>7, <3>1
    <3> QED
      BY <2>1, <2>2, <3>1, <3>2 DEF Tiles
  <2> QED
    BY <2>8, <2>9, <2>10
<1>3. \A n \in Nat : n \in S
  <2> HIDE DEF S
  <2> QED
    BY <1>1, <1>2, Induction
<1>4. o \in Nat /\ o \in S
  BY <1>0, <1>3
<1> QED
  BY <1>4

LEMMA TilesAdd ==
  ASSUME NEW L \in SUBSET Frame, NEW ord \in [Frame -> Order], NEW F, Tiles(L, ord, F),
         NEW a \in Frame, NEW o \in Order, a % Size[o] = 0, FramesOf(<<a, o>>) \cap F = {},
         o < MAX_ORDER - 1 => ~(BuddyOf(a, o) \in L /\ ord[BuddyOf(a, o)] = o)
  PROVE  /\ a \notin L
         /\ Tiles(L \union {a}, [ord EXCEPT ![a] = o], F \union FramesOf(<<a, o>>))
<1> DEFINE L2 == L \union {a}
           ord2 == [ord EXCEPT ![a] = o]
           A == FramesOf(<<a, o>>)
<1>0. /\ Frame \subseteq Nat /\ Order \subseteq 0 .. MAX_ORDER
      /\ \A p \in Order : p < MAX_ORDER - 1 => p \in 0 .. MAX_ORDER - 1
  BY BuddyAssumption DEF Frame, Order
<1>1. \A b \in L : /\ b \in FramesOf(<<b, ord[b]>>) /\ FramesOf(<<b, ord[b]>>) \subseteq F
                    /\ b % Size[ord[b]] = 0 /\ ord[b] \in Order /\ b \in Nat
  BY <1>0, FirstFrame, Zenon DEF Tiles
<1>2. a \in A
  BY <1>0, FirstFrame
<1>3. a \notin L
  BY <1>1, <1>2, Zenon
<1>4. ord2[a] = o /\ \A b \in L : ord2[b] = ord[b]
  BY <1>3
<1>5. \A b \in L2 : b % Size[ord2[b]] = 0 /\ FramesOf(<<b, ord2[b]>>) \subseteq F \union A
  <2> HIDE DEF ord2
  <2> QED
    BY <1>1, <1>4
<1>6. \A f \in F \union A : \E b \in L2 : f \in FramesOf(<<b, ord2[b]>>)
  <2> HIDE DEF ord2
  <2> QED
    BY <1>4, Zenon DEF Tiles
<1>7. \A b, c \in L2 : b # c => FramesOf(<<b, ord2[b]>>) \cap FramesOf(<<c, ord2[c]>>) = {}
  <2> HIDE DEF ord2
  <2> QED
    BY <1>1, <1>4 DEF Tiles
<1>8. ASSUME NEW b \in L2, NEW c \in L2, ord2[b] = ord2[c], ord2[b] < MAX_ORDER - 1
      PROVE  c # BuddyOf(b, ord2[b])
  <2> HIDE DEF ord2
  <2>1. CASE b \in L /\ c \in L
    BY <1>4, <1>8, <2>1 DEF Tiles
  <2>2. CASE b = a /\ c \in L
    BY <1>4, <1>8, <2>2, Zenon
  <2>3. CASE c = a /\ b \in L
    <3>1. ord[b] = o /\ o \in 0 .. MAX_ORDER - 1 /\ o < MAX_ORDER - 1
      BY <1>0, <1>4, <1>8, <2>3
    <3>2. BuddyOf(BuddyOf(b, o), o) = b
      BY <1>1, <2>3, <3>1, BuddyBack, Zenon
    <3> QED
      BY <1>4, <2>3, <3>1, <3>2, Zenon
  <2>4. CASE b = a /\ c = a
    <3>1. o \in 0 .. MAX_ORDER - 1 /\ a \in Nat
      BY <1>0, <1>4, <1>8, <2>4
    <3>2. Size[o] \in Nat \ {0}
      BY <3>1, <1>0, SizeFacts
    <3>3. BuddyOf(a, o) # a
      BY <3>1, <3>2 DEF BuddyOf
    <3> QED
      BY <1>4, <2>4, <3>3, Zenon
  <2> QED
    BY <2>1, <2>2, <2>3, <2>4
<1> HIDE DEF ord2, L2, A
<1>9. Tiles(L2, ord2, F \union A)
  BY <1>5, <1>6, <1>7, <1>8, Zenon DEF Tiles
<1> QED
  BY <1>3, <1>9 DEF ord2, L2, A

LEMMA TilesRemove ==
  ASSUME NEW L \in SUBSET Frame, NEW ord \in [Frame -> Order], NEW F, Tiles(L, ord, F),
         NEW a \in L
  PROVE  Tiles(L \ {a}, ord, F \ FramesOf(<<a, ord[a]>>))
<1> DEFINE Fr(b) == FramesOf(<<b, ord[b]>>)
<1>1. /\ \A b \in L : b % Size[ord[b]] = 0 /\ Fr(b) \subseteq F
      /\ \A f \in F : \E b \in L : f \in Fr(b)
      /\ \A b, c \in L : b # c => Fr(b) \cap Fr(c) = {}
      /\ \A b, c \in L : ord[b] = ord[c] /\ ord[b] < MAX_ORDER - 1 => c # BuddyOf(b, ord[b])
  BY DEF Tiles
<1> HIDE DEF Fr
<1>2. \A b \in L \ {a} : b % Size[ord[b]] = 0 /\ Fr(b) \subseteq F \ Fr(a)
  BY <1>1
<1>3. \A f \in F \ Fr(a) : \E b \in L \ {a} : f \in Fr(b)
  BY <1>1
<1>4. \A b, c \in L \ {a} : b # c => Fr(b) \cap Fr(c) = {}
  BY <1>1
<1>5. \A b, c \in L \ {a} : ord[b] = ord[c] /\ ord[b] < MAX_ORDER - 1 => c # BuddyOf(b, ord[b])
  BY <1>1
<1> QED
  BY <1>2, <1>3, <1>4, <1>5, Zenon DEF Tiles, Fr

-----------------------------------------------------------------------------
(***************************************************************************)
(* The free memory: well-formed lists whose blocks tile F.                 *)
(***************************************************************************)
Heap(heads, m, F) ==
  \E L, ord, rank : Links(L, ord, rank, heads, m) /\ Tiles(L, ord, F)

\* What block_on_free_list reads in the lists.
Linked(heads, m, a, o) ==
  /\ m[a].next \in Frame
  /\ m[a].prev \in Frame
  /\ IF m[a].prev = 0 THEN heads[o] = a ELSE m[m[a].prev].next = a

LEMMA Indices ==
  /\ Frame \subseteq Nat /\ 0 \in Frame /\ 0 \in Order
  /\ Order \subseteq 0 .. MAX_ORDER /\ MAX_ORDER \in Nat \ {0}
  /\ \A o \in Order : o \in Nat /\ o < MAX_ORDER /\ (o < MAX_ORDER - 1 => o + 1 \in Order)
  /\ \A o \in Order : o \in 0 .. MAX_ORDER - 1 /\ o + 1 \in 0 .. MAX_ORDER
BY BuddyAssumption DEF Frame, Order

\* A free block whose buddy is in limbo is listed as it is: were it part of a larger
\* listed block, so would the buddy be.
LEMMA BuddyListed ==
  ASSUME NEW L \in SUBSET Frame, NEW ord \in [Frame -> Order], NEW F, Tiles(L, ord, F),
         NEW a \in Nat, NEW o \in Order, a % Size[o] = 0, o < MAX_ORDER - 1,
         FramesOf(<<a, o>>) \cap F = {}, FramesOf(<<BuddyOf(a, o), o>>) \subseteq F
  PROVE  BuddyOf(a, o) \in L /\ ord[BuddyOf(a, o)] = o
<1> DEFINE b == BuddyOf(a, o)
           m == IF b < a THEN b ELSE a
<1>1. /\ o \in Nat /\ o \in 0 .. MAX_ORDER /\ o \in 0 .. MAX_ORDER - 1 /\ o + 1 \in 0 .. MAX_ORDER
      /\ o + 1 \in Order
  BY Indices
<1>2. /\ b \in Nat /\ m \in Nat /\ m % Size[o + 1] = 0
      /\ (a = m /\ b = m + Size[o]) \/ (b = m /\ a = m + Size[o])
  BY <1>1, BuddyHalves, Zenon
<1>3. b % Size[o] = 0 /\ FramesOf(<<b, o>>) \subseteq F
  BY <1>1, BuddyBack, Zenon
<1> HIDE DEF b, m
<1>4. FramesOf(<<m, o + 1>>) = FramesOf(<<a, o>>) \union FramesOf(<<b, o>>)
  <2>1. FramesOf(<<m, o + 1>>) = FramesOf(<<m, o>>) \union FramesOf(<<m + Size[o], o>>)
    BY <1>1, <1>2, Halves, Zenon
  <2>2. CASE a = m /\ b = m + Size[o]
    BY <2>1, <2>2
  <2>3. CASE b = m /\ a = m + Size[o]
    BY <2>1, <2>3
  <2> QED
    BY <1>2, <2>2, <2>3, Zenon
<1>5. PICK c \in L : o <= ord[c] /\ FramesOf(<<b, o>>) \subseteq FramesOf(<<c, ord[c]>>)
  <2>1. b \in Nat /\ b % Size[o] = 0 /\ FramesOf(<<b, o>>) \subseteq F
    BY <1>2, <1>3, Zenon
  <2>2. Listing(L, ord, b, o)
    BY <2>1, Covering, Zenon
  <2> QED
    BY <2>2, Zenon DEF Listing
<1>6. /\ c \in Nat /\ ord[c] \in Order /\ ord[c] \in Nat /\ ord[c] \in 0 .. MAX_ORDER
      /\ c % Size[ord[c]] = 0 /\ FramesOf(<<c, ord[c]>>) \subseteq F
  BY Indices, Zenon DEF Tiles
<1>7. a \in FramesOf(<<a, o>>) /\ b \in FramesOf(<<b, o>>)
  BY <1>1, <1>2, FirstFrame
<1>8. ord[c] = o
  <2> SUFFICES ASSUME o + 1 <= ord[c] PROVE FALSE
    BY <1>1, <1>5, <1>6
  <2>1. FramesOf(<<m, o + 1>>) \cap FramesOf(<<c, ord[c]>>) # {}
    BY <1>4, <1>5, <1>7, Zenon
  <2>2. FramesOf(<<m, o + 1>>) \subseteq FramesOf(<<c, ord[c]>>)
    BY <1>1, <1>2, <1>6, <2>1, Nested, Zenon
  <2> QED
    BY <1>4, <1>6, <1>7, <2>2
<1>9. b = c
  BY <1>1, <1>2, <1>5, <1>6, <1>8, SameBlock
<1> QED
  BY <1>8, <1>9 DEF b

\* merge takes the buddy off its list.
LEMMA HeapMerge ==
  ASSUME NEW heads, NEW m, NEW F, Heap(heads, m, F),
         NEW a \in Nat, NEW o \in Order, a % Size[o] = 0, o < MAX_ORDER - 1,
         FramesOf(<<a, o>>) \cap F = {}, FramesOf(<<BuddyOf(a, o), o>>) \subseteq F
  PROVE  /\ BuddyOf(a, o) \in Frame \ {0}
         /\ Heap(PopHeads(heads, m, BuddyOf(a, o), o), PopNodes(m, BuddyOf(a, o)),
                 F \ FramesOf(<<BuddyOf(a, o), o>>))
<1>1. PICK L, ord, rank : Links(L, ord, rank, heads, m) /\ Tiles(L, ord, F)
  BY Zenon DEF Heap
<1>2. L \subseteq Frame \ {0} /\ L \in SUBSET Frame /\ ord \in [Frame -> Order]
  BY <1>1 DEF Links, LinkedTypes
<1>3. BuddyOf(a, o) \in L /\ ord[BuddyOf(a, o)] = o
  BY <1>1, <1>2, BuddyListed, ZenonT(30)
<1>4. PICK rank2 : Links(L \ {BuddyOf(a, o)}, ord, rank2,
                         PopHeads(heads, m, BuddyOf(a, o), o), PopNodes(m, BuddyOf(a, o)))
  BY <1>1, <1>3, PopLinks, Zenon
<1>5. Tiles(L \ {BuddyOf(a, o)}, ord, F \ FramesOf(<<BuddyOf(a, o), ord[BuddyOf(a, o)]>>))
  BY <1>1, <1>2, <1>3, TilesRemove, Zenon
<1>6. Tiles(L \ {BuddyOf(a, o)}, ord, F \ FramesOf(<<BuddyOf(a, o), o>>))
  BY <1>3, <1>5, Zenon
<1>7. BuddyOf(a, o) \in Frame \ {0}
  BY <1>2, <1>3, Zenon
<1> QED
  BY <1>4, <1>6, <1>7, Zenon DEF Heap

\* link and split put a block on a list whose buddy is not on it.
LEMMA HeapLink ==
  ASSUME NEW heads, NEW m, NEW F, Heap(heads, m, F),
         NEW a \in Frame \ {0}, NEW o \in Order, a % Size[o] = 0,
         FramesOf(<<a, o>>) \cap F = {},
         o < MAX_ORDER - 1 => ~(/\ FramesOf(<<BuddyOf(a, o), o>>) \subseteq F
                                /\ Linked(heads, m, BuddyOf(a, o), o))
  PROVE  Heap(PushHeads(heads, a, o), PushNodes(m, heads[o], a), F \union FramesOf(<<a, o>>))
<1>1. PICK L, ord, rank : Links(L, ord, rank, heads, m) /\ Tiles(L, ord, F)
  BY Zenon DEF Heap
<1>2. L \subseteq Frame \ {0} /\ L \in SUBSET Frame /\ ord \in [Frame -> Order]
  BY <1>1 DEF Links, LinkedTypes
<1>3. ASSUME NEW b \in L, ord[b] = o
      PROVE  FramesOf(<<b, o>>) \subseteq F /\ Linked(heads, m, b, o)
  <2>1. FramesOf(<<b, o>>) \subseteq F
    BY <1>1, <1>3, Zenon DEF Tiles
  <2>2. m[b].next \in Frame
    BY <1>1, <1>2, <1>3, Indices, Zenon DEF Links, Forward
  <2>3. IF m[b].prev = 0 THEN heads[o] = b ELSE m[b].prev \in L /\ m[m[b].prev].next = b
    BY <1>1, <1>3, Zenon DEF Links, Backward
  <2>4. m[b].prev \in Frame
    BY <1>2, <2>3, Indices, Zenon
  <2> QED
    BY <2>1, <2>2, <2>3, <2>4, Zenon DEF Linked
<1>4. o < MAX_ORDER - 1 => ~(BuddyOf(a, o) \in L /\ ord[BuddyOf(a, o)] = o)
  BY <1>3, Zenon
<1>5. a \in Frame
  OBVIOUS
<1>6. /\ a \notin L
      /\ Tiles(L \union {a}, [ord EXCEPT ![a] = o], F \union FramesOf(<<a, o>>))
  BY <1>1, <1>2, <1>4, <1>5, TilesAdd, Zenon
<1>7. \E rank2 : Links(L \union {a}, [ord EXCEPT ![a] = o], rank2,
                       PushHeads(heads, a, o), PushNodes(m, heads[o], a))
  BY <1>1, <1>6, PushLinks, Zenon
<1> QED
  BY <1>6, <1>7, Zenon DEF Heap

\* alloc_block takes the first block of a list.
LEMMA HeapTake ==
  ASSUME NEW heads, NEW m, NEW F, Heap(heads, m, F), NEW o \in Order, heads[o] # 0
  PROVE  /\ heads[o] \in Frame \ {0} /\ heads[o] % Size[o] = 0
         /\ FramesOf(<<heads[o], o>>) \subseteq F
         /\ Heap(PopHeads(heads, m, heads[o], o), PopNodes(m, heads[o]),
                 F \ FramesOf(<<heads[o], o>>))
<1>1. PICK L, ord, rank : Links(L, ord, rank, heads, m) /\ Tiles(L, ord, F)
  BY Zenon DEF Heap
<1>2. L \subseteq Frame \ {0} /\ L \in SUBSET Frame /\ ord \in [Frame -> Order]
  BY <1>1 DEF Links, LinkedTypes
<1>3. heads[o] \in L /\ ord[heads[o]] = o
  BY <1>1, Zenon DEF Links, Headed
<1>4. PICK rank2 : Links(L \ {heads[o]}, ord, rank2,
                         PopHeads(heads, m, heads[o], o), PopNodes(m, heads[o]))
  BY <1>1, <1>3, PopLinks, Zenon
<1>5. Tiles(L \ {heads[o]}, ord, F \ FramesOf(<<heads[o], ord[heads[o]]>>))
  BY <1>1, <1>2, <1>3, TilesRemove, Zenon
<1>6. Tiles(L \ {heads[o]}, ord, F \ FramesOf(<<heads[o], o>>))
  BY <1>3, <1>5, Zenon
<1>7. heads[o] % Size[o] = 0 /\ FramesOf(<<heads[o], o>>) \subseteq F
  BY <1>1, <1>3, Zenon DEF Tiles
<1>8. heads[o] \in Frame \ {0}
  BY <1>2, <1>3, Zenon
<1> QED
  BY <1>4, <1>6, <1>7, <1>8, Zenon DEF Heap

\* alloc_block finds nothing only when there is nothing.
LEMMA HeapRefuse ==
  ASSUME NEW heads, NEW m, NEW F, Heap(heads, m, F), NEW order \in Order,
         \A o \in Order : o >= order => heads[o] = 0,
         NEW a \in Nat, a % Size[order] = 0
  PROVE  ~(FramesOf(<<a, order>>) \subseteq F)
<1> SUFFICES ASSUME FramesOf(<<a, order>>) \subseteq F PROVE FALSE
  OBVIOUS
<1>1. PICK L, ord, rank : Links(L, ord, rank, heads, m) /\ Tiles(L, ord, F)
  BY Zenon DEF Heap
<1>2. L \in SUBSET Frame /\ ord \in [Frame -> Order]
  BY <1>1 DEF Links, LinkedTypes
<1>3. PICK b \in L : order <= ord[b]
  BY <1>1, <1>2, Covering, Zenon DEF Listing
<1>4. ord[b] \in Order /\ heads[ord[b]] # 0
  BY <1>1, <1>2, Zenon DEF Links, Headed
<1>5. ord[b] >= order
  BY <1>3, <1>4, Indices
<1> QED
  BY <1>4, <1>5

\* What a holder writes to its frames leaves the lists alone.
LEMMA HeapScribble ==
  ASSUME NEW heads, NEW m, NEW F, Heap(heads, m, F),
         NEW m2 \in [Frame -> Node], \A f \in F : m2[f] = m[f]
  PROVE  Heap(heads, m2, F)
<1>1. PICK L, ord, rank : Links(L, ord, rank, heads, m) /\ Tiles(L, ord, F)
  BY Zenon DEF Heap
<1>2. /\ L \subseteq Frame \ {0} /\ ord \in [Frame -> Order] /\ rank \in [Frame -> Nat]
      /\ heads \in [Order -> Frame]
  BY <1>1, Zenon DEF Links, LinkedTypes
<1>3. ASSUME NEW a \in L PROVE m2[a] = m[a]
  <2>1. a \in FramesOf(<<a, ord[a]>>)
    BY <1>2, FirstFrame, Indices, Zenon
  <2> QED
    BY <1>1, <2>1 DEF Tiles
<1>4. Forward(L, ord, rank, m2)
  <2>1. Forward(L, ord, rank, m)
    BY <1>1 DEF Links
  <2> QED
    BY <1>3, <2>1 DEF Forward
<1>5. Backward(L, ord, heads, m2)
  <2>1. Backward(L, ord, heads, m)
    BY <1>1 DEF Links
  <2> QED
    BY <1>3, <2>1 DEF Backward
<1>6. Headed(L, ord, rank, heads, m2)
  <2>1. Headed(L, ord, rank, heads, m)
    BY <1>1 DEF Links
  <2> QED
    BY <1>3, <2>1 DEF Headed
<1>7. Links(L, ord, rank, heads, m2)
  BY <1>1, <1>2, <1>4, <1>5, <1>6, Zenon DEF Links, LinkedTypes
<1> QED
  BY <1>1, <1>7, Zenon DEF Heap
=============================================================================
