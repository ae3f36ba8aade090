----------------------------- MODULE IpcProofs ------------------------------
(***************************************************************************)
(* Proofs about Ipc: type correctness, the refinement of Fifo, and that on *)
(* one CPU no wakeup is lost.                                              *)
(***************************************************************************)
EXTENDS Ipc, SequenceTheorems, FiniteSetTheorems, TLAPS

N == IPC_BUFFER_SIZE
Slots == 0..(N - 1)

(***************************************************************************)
(* The tail is where head and len put it, and channels not yet created are *)
(* empty: what makes a ring readable as a queue.                           *)
(***************************************************************************)
RingInv ==
  /\ TypeOK
  /\ channels \subseteq 1..(next_chan_id - 1)
  /\ \A c \in Chan : /\ tail[c] = (head[c] + len[c]) % N
                     /\ c >= next_chan_id => len[c] = 0

-----------------------------------------------------------------------------
(* Indices modulo the ring size. *)

LEMMA ModSmall ==
  ASSUME NEW a \in Slots
  PROVE  a % N = a
  BY IpcAssumption, Z3 DEF N, Slots

LEMMA ModWrap ==
  ASSUME NEW a \in Slots
  PROVE  (a + N) % N = a
  BY IpcAssumption, Z3 DEF N, Slots

LEMMA ModIndex ==
  ASSUME NEW h \in Slots, NEW j \in 0..N
  PROVE  /\ (h + j) % N = IF h + j < N THEN h + j ELSE h + j - N
         /\ (h + j) % N \in Slots
<1>n. N \in Nat \ {0}
  BY IpcAssumption DEF N
<1>1. CASE h + j < N
  BY <1>1, <1>n, ModSmall, Z3 DEF Slots
<1>2. CASE ~(h + j < N)
  <2>1. h + j - N \in Slots
    BY <1>2, <1>n, Z3 DEF Slots
  <2>2. h + j = (h + j - N) + N
    BY <1>n, Z3 DEF Slots
  <2>3. ((h + j - N) + N) % N = h + j - N
    BY <2>1, ModWrap
  <2> QED
    BY <1>2, <2>1, <2>2, <2>3
<1> QED
  BY <1>1, <1>2

LEMMA RingSeqType ==
  ASSUME NEW b \in [Slots -> Msg \cup {NoMsg}], NEW h \in Slots, NEW l \in 0..N
  PROVE  /\ RingSeq(b, h, l) \in Seq(Msg \cup {NoMsg})
         /\ Len(RingSeq(b, h, l)) = l
         /\ \A i \in 1..l : RingSeq(b, h, l)[i] = b[(h + i - 1) % N]
<1>n. N \in Nat \ {0}
  BY IpcAssumption DEF N
<1>1. ASSUME NEW i \in 1..l
      PROVE  b[(h + i - 1) % N] \in Msg \cup {NoMsg}
  <2>1. i - 1 \in 0..N /\ h + i - 1 = h + (i - 1)
    BY <1>n, Z3 DEF Slots
  <2>2. (h + (i - 1)) % N \in Slots
    BY <2>1, ModIndex
  <2> QED
    BY <2>1, <2>2
<1>2. RingSeq(b, h, l) \in [1..l -> Msg \cup {NoMsg}]
  BY <1>1 DEF RingSeq, N
<1>3. l \in Nat
  BY <1>n
<1> QED
  BY <1>2, <1>3 DEF RingSeq, N

-----------------------------------------------------------------------------
(***************************************************************************)
(* Writing at the tail of a ring that is not full appends to the queue;    *)
(* advancing the head of one that is not empty takes its first message.    *)
(***************************************************************************)
LEMMA RingPush ==
  ASSUME NEW b \in [Slots -> Msg \cup {NoMsg}], NEW h \in Slots,
         NEW l \in 0..(N - 1), NEW m \in Msg
  PROVE  RingSeq([b EXCEPT ![(h + l) % N] = m], h, l + 1)
           = Append(RingSeq(b, h, l), m)
<1> DEFINE k == (h + l) % N
           b2 == [b EXCEPT ![k] = m]
           s == RingSeq(b, h, l)
           s2 == RingSeq(b2, h, l + 1)
<1>n. N \in Nat \ {0} /\ l \in 0..N /\ l + 1 \in 0..N /\ l \in Nat
  BY IpcAssumption, Z3 DEF N
<1>k. k \in Slots /\ k = IF h + l < N THEN h + l ELSE h + l - N
  BY <1>n, ModIndex
<1>b. b2 \in [Slots -> Msg \cup {NoMsg}]
  BY <1>k
<1>1. /\ s \in Seq(Msg \cup {NoMsg}) /\ Len(s) = l
      /\ \A i \in 1..l : s[i] = b[(h + i - 1) % N]
  BY <1>n, RingSeqType, Zenon
<1>2. /\ s2 \in Seq(Msg \cup {NoMsg}) /\ Len(s2) = l + 1
      /\ \A i \in 1..(l + 1) : s2[i] = b2[(h + i - 1) % N]
  BY <1>n, <1>b, RingSeqType, ZenonT(60)
<1> HIDE DEF b2, s, s2, k
<1>3. ASSUME NEW i \in 1..l
      PROVE  s2[i] = s[i]
  <2>1. i - 1 \in 0..N /\ h + i - 1 = h + (i - 1) /\ i \in 1..(l + 1) /\ i - 1 < l
    BY <1>n, Z3 DEF Slots
  <2>2. /\ (h + (i - 1)) % N \in Slots
        /\ (h + (i - 1)) % N = IF h + (i - 1) < N THEN h + (i - 1)
                                                 ELSE h + (i - 1) - N
    BY <2>1, ModIndex
  <2>3. (h + (i - 1)) % N # k
    BY <2>1, <2>2, <1>k, <1>n, Z3 DEF Slots
  <2>4. b2[(h + (i - 1)) % N] = b[(h + (i - 1)) % N]
    BY <2>2, <2>3 DEF b2
  <2> QED
    BY <1>1, <1>2, <2>1, <2>4
<1>4. s2[l + 1] = m
  <2>1. l + 1 \in 1..(l + 1) /\ h + (l + 1) - 1 = h + l
    BY <1>n, Z3 DEF Slots
  <2>2. s2[l + 1] = b2[k]
    BY <1>2, <2>1 DEF k
  <2> QED
    BY <2>2, <1>k DEF b2
<1>5. s2 = Append(s, m)
  <2>1. Append(s, m) \in Seq(Msg \cup {NoMsg}) /\ Len(Append(s, m)) = l + 1
    BY <1>1
  <2>2. \A i \in 1..(l + 1) : Append(s, m)[i] = IF i = l + 1 THEN m ELSE s[i]
    BY <1>1
  <2>3. ASSUME NEW i \in 1..(l + 1)
        PROVE  s2[i] = Append(s, m)[i]
    <3>1. CASE i = l + 1
      BY <3>1, <2>2, <1>4, <1>n, Zenon
    <3>2. CASE i # l + 1
      <4>1. i \in 1..l
        BY <3>2, <1>n
      <4> QED
        BY <4>1, <3>2, <2>2, <1>3, Zenon
    <3> QED
      BY <3>1, <3>2, Zenon
  <2> QED
    BY <1>2, <2>1, <2>3
<1> QED
  BY <1>5, Zenon DEF s, s2, b2, k

LEMMA RingPop ==
  ASSUME NEW b \in [Slots -> Msg \cup {NoMsg}], NEW h \in Slots, NEW l \in 1..N
  PROVE  /\ RingSeq(b, h, l) # <<>>
         /\ Head(RingSeq(b, h, l)) = b[h]
         /\ Tail(RingSeq(b, h, l)) = RingSeq(b, (h + 1) % N, l - 1)
<1> DEFINE g == (h + 1) % N
           s == RingSeq(b, h, l)
           s2 == RingSeq(b, g, l - 1)
<1>n. N \in Nat \ {0} /\ l \in 0..N /\ l - 1 \in 0..N /\ l \in Nat \ {0} /\ 1 \in 0..N
  BY IpcAssumption, Z3 DEF N
<1>g. g \in Slots /\ g = IF h + 1 < N THEN h + 1 ELSE h + 1 - N
  BY <1>n, ModIndex
<1>1. /\ s \in Seq(Msg \cup {NoMsg}) /\ Len(s) = l
      /\ \A i \in 1..l : s[i] = b[(h + i - 1) % N]
  BY <1>n, RingSeqType
<1>2. /\ s2 \in Seq(Msg \cup {NoMsg}) /\ Len(s2) = l - 1
      /\ \A i \in 1..(l - 1) : s2[i] = b[(g + i - 1) % N]
  BY <1>n, <1>g, RingSeqType, Zenon
<1> HIDE DEF s, s2, g
<1>3. s # <<>> /\ Head(s) = s[1]
  BY <1>1, <1>n
<1>4. s[1] = b[h]
  <2>1. 1 \in 1..l /\ h + 1 - 1 = h
    BY <1>n, Z3 DEF Slots
  <2>2. h % N = h
    BY ModSmall
  <2> QED
    BY <1>1, <2>1, <2>2
<1>5. ASSUME NEW i \in 1..(l - 1)
      PROVE  s2[i] = s[i + 1]
  <2>1. /\ i \in 0..N /\ i - 1 \in 0..N /\ i + 1 \in 1..l
        /\ h + (i + 1) - 1 = h + i /\ g + i - 1 = g + (i - 1)
    BY <1>n, <1>g, Z3 DEF Slots
  <2>2. (h + i) % N = IF h + i < N THEN h + i ELSE h + i - N
    BY <2>1, ModIndex
  <2>3. (g + (i - 1)) % N = IF g + (i - 1) < N THEN g + (i - 1) ELSE g + (i - 1) - N
    BY <2>1, <1>g, ModIndex, Zenon
  <2>4. (h + i) % N = (g + (i - 1)) % N
    BY <2>2, <2>3, <1>g, <1>n, <2>1, Z3 DEF Slots
  <2> QED
    BY <1>1, <1>2, <2>1, <2>4, SMTT(30)
<1>6. Tail(s) = s2
  <2>1. Tail(s) \in Seq(Msg \cup {NoMsg}) /\ Len(Tail(s)) = l - 1
    BY <1>1, <1>3
  <2>2. \A i \in 1..(l - 1) : Tail(s)[i] = s[i + 1]
    BY <1>1, <1>3, <1>n
  <2> QED
    BY <1>2, <1>5, <2>1, <2>2, SMTT(30)
<1> QED
  BY <1>3, <1>4, <1>6 DEF s, s2, g

-----------------------------------------------------------------------------
(* The ring invariant. *)

LEMMA InitRingInv == Init => RingInv
<1> SUFFICES ASSUME Init PROVE RingInv
  OBVIOUS
<1>n. N \in Nat \ {0} /\ 0 \in Slots /\ 0 \in 0..N /\ KEYBOARD_CHANNEL \in Chan
  BY IpcAssumption DEF N, Slots, Chan, KEYBOARD_CHANNEL
<1>1. EmptyRing \in [Slots -> Msg \cup {NoMsg}]
  BY DEF EmptyRing, Slots, N
<1>2. TypeOK
  BY <1>n, <1>1, IpcAssumption
  DEF Init, TypeOK, Slots, N, Chan, Proc, Pc, SYSTEM_OWNER, KEYBOARD_CHANNEL
<1>3. \A c \in Chan : tail[c] = (head[c] + len[c]) % N
  <2>1. (0 + 0) % N = 0
    BY <1>n, ModSmall
  <2> QED
    BY <2>1 DEF Init
<1> QED
  BY <1>2, <1>3 DEF RingInv, Init, KEYBOARD_CHANNEL

\* What a successful ring operation does to the ring fields.
LEMMA SendRing ==
  ASSUME RingInv, NEW c \in Chan, NEW m \in Msg, c < next_chan_id,
         send(c, m), UNCHANGED <<head, next_chan_id>>
  PROVE  /\ buffer' \in [Chan -> [Slots -> Msg \cup {NoMsg}]]
         /\ tail' \in [Chan -> Slots] /\ len' \in [Chan -> 0..N]
         /\ \A d \in Chan : /\ tail'[d] = (head'[d] + len'[d]) % N
                            /\ d >= next_chan_id' => len'[d] = 0
<1>t. /\ buffer \in [Chan -> [Slots -> Msg \cup {NoMsg}]]
      /\ head \in [Chan -> Slots] /\ tail \in [Chan -> Slots]
      /\ len \in [Chan -> 0..N] /\ next_chan_id \in Nat
      /\ \A d \in Chan : /\ tail[d] = (head[d] + len[d]) % N
                         /\ d >= next_chan_id => len[d] = 0
  BY IpcAssumption, SMTT(30) DEF RingInv, TypeOK, Slots, N
<1>n. N \in Nat \ {0} /\ 1 \in 0..N /\ Chan \subseteq Nat
  BY IpcAssumption DEF N, Chan
<1>l. len[c] \in 0..(N - 1) /\ len[c] + 1 \in 0..N /\ len[c] \in 0..N
  BY <1>t, <1>n DEF send, N
<1>1. /\ (tail[c] + 1) % N \in Slots
      /\ (tail[c] + 1) % N = IF tail[c] + 1 < N THEN tail[c] + 1
                                               ELSE tail[c] + 1 - N
  BY <1>t, <1>n, ModIndex
<1>2. /\ (head[c] + len[c]) % N = IF head[c] + len[c] < N THEN head[c] + len[c]
                                 ELSE head[c] + len[c] - N
      /\ (head[c] + (len[c] + 1)) % N
           = IF head[c] + (len[c] + 1) < N THEN head[c] + (len[c] + 1)
             ELSE head[c] + (len[c] + 1) - N
  BY <1>t, <1>l, ModIndex
<1>h. head[c] \in Slots /\ tail[c] = (head[c] + len[c]) % N
  BY <1>t
<1>3. (tail[c] + 1) % N = (head[c] + (len[c] + 1)) % N
  BY <1>h, <1>1, <1>2, <1>l, <1>n, SMTT(30) DEF Slots
<1>4. buffer' \in [Chan -> [Slots -> Msg \cup {NoMsg}]]
  BY <1>t DEF send
<1>5. tail' \in [Chan -> Slots] /\ len' \in [Chan -> 0..N]
  BY <1>t, <1>1, <1>l DEF send, N
<1>6. ASSUME NEW d \in Chan
      PROVE  /\ tail'[d] = (head'[d] + len'[d]) % N
             /\ d >= next_chan_id' => len'[d] = 0
  <2>1. CASE d = c
    BY <2>1, <1>t, <1>3, <1>n DEF send, N
  <2>2. CASE d # c
    BY <2>2, <1>t DEF send
  <2> QED
    BY <2>1, <2>2
<1> QED
  BY <1>4, <1>5, <1>6

LEMMA RecvRing ==
  ASSUME RingInv, NEW t \in Task, NEW c \in Chan, c < next_chan_id,
         try_recv(t, c), UNCHANGED <<tail, next_chan_id>>
  PROVE  /\ head' \in [Chan -> Slots] /\ len' \in [Chan -> 0..N]
         /\ got' \in [Task -> Msg \cup {NoMsg}]
         /\ \A d \in Chan : /\ tail'[d] = (head'[d] + len'[d]) % N
                            /\ d >= next_chan_id' => len'[d] = 0
<1>t. /\ buffer \in [Chan -> [Slots -> Msg \cup {NoMsg}]]
      /\ head \in [Chan -> Slots] /\ tail \in [Chan -> Slots]
      /\ len \in [Chan -> 0..N] /\ next_chan_id \in Nat
      /\ got \in [Task -> Msg \cup {NoMsg}]
      /\ \A d \in Chan : /\ tail[d] = (head[d] + len[d]) % N
                         /\ d >= next_chan_id => len[d] = 0
  BY IpcAssumption, SMTT(30) DEF RingInv, TypeOK, Slots, N
<1>n. N \in Nat \ {0} /\ 1 \in 0..N /\ Chan \subseteq Nat
  BY IpcAssumption DEF N, Chan
<1>l. len[c] \in 1..N /\ len[c] - 1 \in 0..N /\ len[c] \in 0..N
  BY <1>t, <1>n DEF try_recv, N
<1> DEFINE g == (head[c] + 1) % N
<1>1. g \in Slots /\ g = IF head[c] + 1 < N THEN head[c] + 1 ELSE head[c] + 1 - N
  BY <1>t, <1>n, ModIndex
<1> HIDE DEF g
<1>2. /\ (head[c] + len[c]) % N = IF head[c] + len[c] < N THEN head[c] + len[c]
                                 ELSE head[c] + len[c] - N
      /\ (g + (len[c] - 1)) % N
           = IF g + (len[c] - 1) < N THEN g + (len[c] - 1)
             ELSE g + (len[c] - 1) - N
  BY <1>t, <1>l, <1>1, ModIndex, Zenon
<1>h. head[c] \in Slots /\ tail[c] = (head[c] + len[c]) % N
  BY <1>t
<1>3. tail[c] = (g + (len[c] - 1)) % N
  <2>1. CASE head[c] + 1 < N
    BY <2>1, <1>h, <1>1, <1>2, <1>l, <1>n, Z3 DEF Slots
  <2>2. CASE ~(head[c] + 1 < N)
    <3>1. head[c] + 1 = N /\ g = 0
      BY <2>2, <1>h, <1>1, <1>n, Z3 DEF Slots
    <3> QED
      BY <3>1, <1>h, <1>2, <1>l, <1>n, Z3 DEF Slots
  <2> QED
    BY <2>1, <2>2
<1>4. head' \in [Chan -> Slots] /\ len' \in [Chan -> 0..N]
  BY <1>t, <1>1, <1>l DEF try_recv, N, g
<1>5. got' \in [Task -> Msg \cup {NoMsg}]
  BY <1>t DEF try_recv
<1>6. ASSUME NEW d \in Chan
      PROVE  /\ tail'[d] = (head'[d] + len'[d]) % N
             /\ d >= next_chan_id' => len'[d] = 0
  <2>1. CASE d = c
    BY <2>1, <1>t, <1>3, <1>n, SMTT(30) DEF try_recv, N, g
  <2>2. CASE d # c
    BY <2>2, <1>t DEF try_recv
  <2> QED
    BY <2>1, <2>2
<1> QED
  BY <1>4, <1>5, <1>6

\* A step that leaves the ring fields alone, and may destroy channels.
LEMMA RingFrame ==
  ASSUME RingInv, channels' \subseteq channels,
         UNCHANGED <<owner_pid, buffer, head, tail, len, next_chan_id, got>>,
         pc' \in [Proc -> Pc], arg' \in [Proc -> Chan],
         msg' \in [Proc -> Msg \cup {NoMsg}]
  PROVE  RingInv'
  BY DEF RingInv, TypeOK

LEMMA NextRingInv == RingInv /\ [Next]_vars => RingInv'
<1> SUFFICES ASSUME RingInv, [Next]_vars PROVE RingInv'
  OBVIOUS
<1> USE IpcAssumption DEF N, Slots
<1>t. TypeOK /\ channels \subseteq 1..(next_chan_id - 1) /\ next_chan_id \in Nat
  BY SMTT(30) DEF RingInv, TypeOK
<1>1. ASSUME NEW t \in Task, NEW c \in Chan, NEW m \in Msg, SYS_SEND(t, c, m)
      PROVE  RingInv'
  <2>1. CASE CanSend(c)
    <3>1. send(c, m) /\ UNCHANGED <<head, next_chan_id, channels, owner_pid, got>>
      BY <1>1, <2>1 DEF SYS_SEND
    <3>2. /\ pc' \in [Proc -> Pc] /\ arg' \in [Proc -> Chan]
          /\ msg' \in [Proc -> Msg \cup {NoMsg}]
      BY <1>1, <1>t, <2>1, Zenon DEF SYS_SEND, TypeOK, Proc, Pc
    <3>3. c < next_chan_id
      BY <1>1 DEF SYS_SEND
    <3> QED
      BY <3>1, <3>2, <3>3, <1>t, SendRing, Zenon DEF RingInv, TypeOK
  <2>2. CASE ~CanSend(c)
    <3>1. UNCHANGED <<channels, owner_pid, buffer, head, tail, len,
                      next_chan_id, got>>
      BY <1>1, <2>2 DEF SYS_SEND
    <3>2. pc' \in [Proc -> Pc] /\ arg' \in [Proc -> Chan]
      BY <1>1, <2>2, <1>t DEF SYS_SEND, TypeOK, Proc, Pc
    <3>3. msg' \in [Proc -> Msg \cup {NoMsg}]
      BY <1>1, <2>2, <1>t, SMTT(30) DEF SYS_SEND, TypeOK, Proc
    <3> QED
      BY <3>1, <3>2, <3>3, RingFrame
  <2> QED
    BY <2>1, <2>2
<1>2. ASSUME NEW t \in Task, NEW c \in Chan, SYS_RECV(t, c)
      PROVE  RingInv'
  <2>1. CASE CanRecv(c)
    <3>1. try_recv(t, c) /\ UNCHANGED <<tail, next_chan_id, channels, owner_pid,
                                       buffer, msg>>
      BY <1>2, <2>1 DEF SYS_RECV
    <3>2. pc' \in [Proc -> Pc] /\ arg' \in [Proc -> Chan]
      BY <1>2, <1>t, <2>1, Zenon DEF SYS_RECV, TypeOK, Proc, Pc
    <3>3. c < next_chan_id
      BY <1>2 DEF SYS_RECV
    <3> QED
      BY <3>1, <3>2, <3>3, <1>t, RecvRing, Zenon DEF RingInv, TypeOK
  <2>2. CASE ~CanRecv(c)
    BY <1>2, <2>2, <1>t, Zenon DEF SYS_RECV, RingInv, TypeOK, Proc, Pc
  <2> QED
    BY <2>1, <2>2
<1>3. ASSUME NEW m \in Msg, keyboard_interrupt_handler(m)
      PROVE  RingInv'
  <2>1. /\ pc' \in [Proc -> Pc] /\ arg' \in [Proc -> Chan]
        /\ KEYBOARD_CHANNEL \in Chan
        /\ UNCHANGED <<head, next_chan_id, channels, owner_pid, got, msg>>
    BY <1>3, <1>t DEF keyboard_interrupt_handler, TypeOK, Proc, Pc,
                      KEYBOARD_CHANNEL, Chan
  <2>2. CASE send(KEYBOARD_CHANNEL, m)
    <3>1. KEYBOARD_CHANNEL < next_chan_id
      BY <2>2, <1>t DEF send
    <3> QED
      BY <2>1, <2>2, <3>1, <1>t, SendRing, Zenon DEF RingInv, TypeOK
  <2>3. CASE UNCHANGED <<buffer, tail, len>>
    BY <2>1, <2>3, <1>t, SMTT(30) DEF RingInv, TypeOK
  <2> QED
    BY <1>3, <2>2, <2>3 DEF keyboard_interrupt_handler
<1>4. ASSUME NEW p \in Proc, create_channel_owned(p)
      PROVE  RingInv'
  <2>1. next_chan_id \in Chan
    BY <1>4, <1>t DEF create_channel_owned, TypeOK, Chan
  <2>2. /\ channels' \subseteq Chan /\ channels' \subseteq 1..(next_chan_id' - 1)
        /\ next_chan_id' \in 1..(MaxChan + 1)
    <3>1. /\ channels' = channels \cup {next_chan_id}
          /\ next_chan_id' = next_chan_id + 1 /\ next_chan_id <= MaxChan
      BY <1>4 DEF create_channel_owned
    <3>2. channels \subseteq Chan /\ next_chan_id \in 1..(MaxChan + 1)
      BY <1>t DEF TypeOK
    <3>3. channels' \subseteq Chan
      BY <2>1, <3>1, <3>2
    <3>4. channels' \subseteq 1..(next_chan_id' - 1)
      BY <1>t, <3>1, <3>2
    <3>5. next_chan_id' \in 1..(MaxChan + 1)
      BY <3>1, <3>2
    <3> QED
      BY <3>3, <3>4, <3>5, Zenon
  <2>3. owner_pid' \in [Chan -> Task \cup {SYSTEM_OWNER}]
    BY <1>4, <1>t, Zenon DEF create_channel_owned, TypeOK, Proc, SYSTEM_OWNER
  <2>4. \A c \in Chan : c >= next_chan_id' => len'[c] = 0
    BY <1>4, <1>t DEF create_channel_owned, RingInv, Chan
  <2> QED
    BY <1>4, <1>t, <2>2, <2>3, <2>4, SMTT(30) DEF create_channel_owned, RingInv, TypeOK
<1>5. ASSUME NEW p \in Proc, unblock(p)
      PROVE  RingInv'
  <2>1. pc' \in [Proc -> Pc]
    BY <1>5, <1>t DEF unblock, TypeOK, Pc
  <2>2. arg' \in [Proc -> Chan]
    BY <1>5, <1>t, SMTT(30) DEF unblock, TypeOK, KEYBOARD_CHANNEL, Chan
  <2> QED
    BY <1>5, <2>1, <2>2, Zenon DEF unblock, ring, RingInv, TypeOK
<1>6. ASSUME NEW t \in Task, block_current_task(t)
      PROVE  RingInv'
  <2>1. pc' \in [Proc -> Pc]
    BY <1>6, <1>t, Zenon DEF block_current_task, TypeOK, Pc
  <2> QED
    BY <1>6, <2>1 DEF block_current_task, ring, RingInv, TypeOK
<1>7. ASSUME NEW t \in Task, cleanup_task_channels(t) \/ drop(t)
      PROVE  RingInv'
  <2>1. pc' \in [Proc -> Pc] /\ channels' \subseteq channels
    BY <1>7, <1>t DEF cleanup_task_channels, drop, TypeOK, Pc
  <2>2. UNCHANGED <<owner_pid, buffer, head, tail, len, next_chan_id, arg,
                    msg, got>>
    BY <1>7 DEF cleanup_task_channels, drop
  <2> QED
    BY <2>1, <2>2, <1>t, RingFrame DEF TypeOK
<1>8. CASE UNCHANGED vars
  BY <1>8 DEF vars, RingInv, TypeOK
<1> QED
  BY <1>1, <1>2, <1>3, <1>4, <1>5, <1>6, <1>7, <1>8, SMTT(30) DEF Next

(* The fields of every ring agree with one another: the tail is len slots    *)
(* past the head, under every interleaving of send and try_recv.            *)
THEOREM IpcRingInv == Spec => []RingInv
  BY InitRingInv, NextRingInv, PTL DEF Spec

(***************************************************************************)
(* Type correctness, the ring indices included: head, tail and len stay    *)
(* within the ring for every ring size.                                    *)
(***************************************************************************)
THEOREM IpcTypeCorrect == Spec => []TypeOK
<1>1. RingInv => TypeOK
  BY DEF RingInv
<1> QED
  BY <1>1, IpcRingInv, PTL
-----------------------------------------------------------------------------
(* The refinement of Fifo. *)

queueBar == [c \in Chan |-> Queue(c)]

LEMMA QueueOf ==
  ASSUME RingInv, NEW c \in channels
  PROVE  /\ queueBar[c] = RingSeq(buffer[c], head[c], len[c])
         /\ queueBar[c] \in Seq(Msg \cup {NoMsg}) /\ Len(queueBar[c]) = len[c]
<1>1. /\ c \in Chan /\ buffer[c] \in [Slots -> Msg \cup {NoMsg}]
      /\ head[c] \in Slots /\ len[c] \in 0..N
  BY DEF RingInv, TypeOK, Slots, N
<1>2. queueBar[c] = RingSeq(buffer[c], head[c], len[c])
  BY <1>1 DEF queueBar, Queue
<1> QED
  BY <1>1, <1>2, RingSeqType

LEMMA SendPuts ==
  ASSUME RingInv, NEW c \in Chan, NEW m \in Msg, send(c, m),
         UNCHANGED <<channels, head, got>>
  PROVE  F!Put(c, m)
<1>t. /\ c \in channels /\ buffer[c] \in [Slots -> Msg \cup {NoMsg}]
      /\ head[c] \in Slots /\ len[c] \in 0..(N - 1)
      /\ tail[c] = (head[c] + len[c]) % N /\ tail[c] \in Slots
      /\ buffer \in [Chan -> [Slots -> Msg \cup {NoMsg}]]
      /\ len \in [Chan -> 0..N]
  BY IpcAssumption, SMTT(30) DEF RingInv, TypeOK, Slots, N, send
<1>1. Len(queueBar[c]) < N
  BY <1>t, QueueOf, IpcAssumption DEF N
<1>2. /\ buffer'[c] = [buffer[c] EXCEPT ![tail[c]] = m] /\ len'[c] = len[c] + 1
      /\ \A d \in Chan : d # c => buffer'[d] = buffer[d] /\ len'[d] = len[d]
  BY <1>t, SMTT(30) DEF send
<1>3. RingSeq(buffer'[c], head'[c], len'[c])
        = Append(RingSeq(buffer[c], head[c], len[c]), m)
  <2>1. head'[c] = head[c] /\ buffer'[c] = [buffer[c] EXCEPT ![(head[c] + len[c]) % N] = m]
    BY <1>t, <1>2, SMTT(30)
  <2>2. RingSeq([buffer[c] EXCEPT ![(head[c] + len[c]) % N] = m], head[c], len[c] + 1)
          = Append(RingSeq(buffer[c], head[c], len[c]), m)
    BY <1>t, RingPush, Zenon
  <2> QED
    BY <2>1, <2>2, <1>2
<1>4. queueBar'[c] = Append(queueBar[c], m)
  BY <1>3, <1>t DEF queueBar, Queue
<1>5. \A d \in Chan : d # c => queueBar'[d] = queueBar[d]
  BY <1>2, Zenon DEF queueBar, Queue, RingSeq
<1>6. queueBar' = [queueBar EXCEPT ![c] = Append(@, m)]
  BY <1>4, <1>5, Zenon DEF queueBar
<1> QED
  BY <1>t, <1>1, <1>6, SMTT(30) DEF F!Put, queueBar, N

LEMMA RecvTakes ==
  ASSUME RingInv, NEW t \in Task, NEW c \in Chan, try_recv(t, c),
         UNCHANGED <<channels, buffer>>
  PROVE  F!Take(t, c)
<1>t. /\ c \in channels /\ buffer[c] \in [Slots -> Msg \cup {NoMsg}]
      /\ head[c] \in Slots /\ len[c] \in 1..N
      /\ head \in [Chan -> Slots] /\ len \in [Chan -> 0..N]
  <2>1. /\ buffer \in [Chan -> [Slots -> Msg \cup {NoMsg}]]
        /\ head \in [Chan -> Slots] /\ len \in [Chan -> 0..N]
    BY DEF RingInv, TypeOK, Slots, N
  <2>2. c \in channels /\ len[c] # 0
    BY DEF try_recv
  <2>3. len[c] \in 1..N
    BY <2>1, <2>2, IpcAssumption, SMTT(30) DEF N
  <2> QED
    BY <2>1, <2>2, <2>3
<1>1. queueBar[c] = RingSeq(buffer[c], head[c], len[c])
  BY <1>t, QueueOf
<1>2. /\ head'[c] = (head[c] + 1) % N /\ len'[c] = len[c] - 1
      /\ \A d \in Chan : d # c => head'[d] = head[d] /\ len'[d] = len[d]
  BY <1>t, SMTT(30) DEF try_recv, N
<1>3. /\ queueBar[c] # <<>> /\ Head(queueBar[c]) = buffer[c][head[c]]
      /\ Tail(queueBar[c]) = RingSeq(buffer[c], (head[c] + 1) % N, len[c] - 1)
  BY <1>t, <1>1, RingPop, SMTT(30)
<1>4. queueBar'[c] = Tail(queueBar[c])
  BY <1>3, <1>2, <1>t, SMTT(30) DEF queueBar, Queue
<1>5. \A d \in Chan : d # c => queueBar'[d] = queueBar[d]
  BY <1>2, Zenon DEF queueBar, Queue, RingSeq
<1>6. queueBar' = [queueBar EXCEPT ![c] = Tail(@)]
  BY <1>4, <1>5, Zenon DEF queueBar
<1>7. got' = [got EXCEPT ![t] = Head(queueBar[c])]
  BY <1>3, Zenon DEF try_recv
<1> QED
  BY <1>t, <1>3, <1>6, <1>7 DEF F!Take, queueBar

LEMMA QueueFrame ==
  ASSUME UNCHANGED <<channels, buffer, head, len, got>>
  PROVE  UNCHANGED F!vars
  BY DEF F!vars, Queue, RingSeq

LEMMA DestroyRefines ==
  ASSUME RingInv, channels' \subseteq channels, UNCHANGED <<buffer, head, len, got>>
  PROVE  F!Destroy(channels \ channels')
<1>1. \A c \in Chan : c \in channels' => queueBar'[c] = queueBar[c]
  BY DEF queueBar, Queue, RingSeq
<1>2. \A c \in Chan : c \notin channels' => queueBar'[c] = <<>>
  BY DEF queueBar, Queue
<1>3. \A c \in Chan : c \notin channels => queueBar[c] = <<>>
  BY DEF queueBar, Queue
<1>4. queueBar' = [c \in Chan |-> IF c \in channels \ channels' THEN <<>>
                                                             ELSE queueBar[c]]
  BY <1>1, <1>2, <1>3 DEF queueBar
<1> QED
  BY <1>4 DEF F!Destroy, queueBar

LEMMA CreateRefines ==
  ASSUME RingInv, NEW p \in Proc, create_channel_owned(p)
  PROVE  next_chan_id \in Chan /\ F!Create(next_chan_id)
<1> DEFINE n == next_chan_id
<1>1. n \in Chan /\ n \notin channels /\ len[n] = 0
  BY IpcAssumption DEF RingInv, TypeOK, create_channel_owned, Chan
<1>2. channels' = channels \cup {n} /\ UNCHANGED <<buffer, head, len, got>>
  BY DEF create_channel_owned
<1>3. queueBar'[n] = <<>>
  <2>1. queueBar'[n] = RingSeq(buffer[n], head[n], 0)
    BY <1>1, <1>2 DEF queueBar, Queue, RingSeq
  <2>2. RingSeq(buffer[n], head[n], 0) = <<>>
    BY DEF RingSeq
  <2> QED
    BY <2>1, <2>2
<1>4. \A c \in Chan : c # n => queueBar'[c] = queueBar[c]
  BY <1>2 DEF queueBar, Queue, RingSeq
<1>5. queueBar' = [queueBar EXCEPT ![n] = <<>>]
  BY <1>1, <1>3, <1>4, Zenon DEF queueBar
<1> QED
  BY <1>1, <1>2, <1>5 DEF F!Create, queueBar

LEMMA NextRefines == RingInv /\ [Next]_vars => [F!Next]_(F!vars)
<1> SUFFICES ASSUME RingInv, [Next]_vars PROVE F!Next \/ UNCHANGED F!vars
  OBVIOUS
<1>1. ASSUME NEW t \in Task, NEW c \in Chan, NEW m \in Msg, SYS_SEND(t, c, m)
      PROVE  F!Next \/ UNCHANGED F!vars
  <2>1. CASE CanSend(c)
    BY <1>1, <2>1, SendPuts DEF SYS_SEND, F!Next
  <2>2. CASE ~CanSend(c)
    BY <1>1, <2>2, QueueFrame DEF SYS_SEND
  <2> QED
    BY <2>1, <2>2
<1>2. ASSUME NEW t \in Task, NEW c \in Chan, SYS_RECV(t, c)
      PROVE  F!Next \/ UNCHANGED F!vars
  <2>1. CASE CanRecv(c)
    BY <1>2, <2>1, RecvTakes DEF SYS_RECV, F!Next
  <2>2. CASE ~CanRecv(c)
    BY <1>2, <2>2, QueueFrame DEF SYS_RECV
  <2> QED
    BY <2>1, <2>2
<1>3. ASSUME NEW m \in Msg, keyboard_interrupt_handler(m)
      PROVE  F!Next \/ UNCHANGED F!vars
  <2>1. KEYBOARD_CHANNEL \in Chan
    BY IpcAssumption DEF KEYBOARD_CHANNEL, Chan
  <2>2. CASE send(KEYBOARD_CHANNEL, m)
    BY <1>3, <2>1, <2>2, SendPuts DEF keyboard_interrupt_handler, F!Next
  <2>3. CASE UNCHANGED <<buffer, tail, len>>
    BY <1>3, <2>3, QueueFrame DEF keyboard_interrupt_handler
  <2> QED
    BY <1>3, <2>2, <2>3 DEF keyboard_interrupt_handler
<1>4. ASSUME NEW p \in Proc, create_channel_owned(p)
      PROVE  F!Next \/ UNCHANGED F!vars
  BY <1>4, CreateRefines DEF F!Next
<1>5. ASSUME NEW p \in Proc, unblock(p)
      PROVE  F!Next \/ UNCHANGED F!vars
  BY <1>5, QueueFrame DEF unblock, ring
<1>6. ASSUME NEW t \in Task, block_current_task(t)
      PROVE  F!Next \/ UNCHANGED F!vars
  BY <1>6, QueueFrame DEF block_current_task, ring
<1>7. ASSUME NEW t \in Task, cleanup_task_channels(t) \/ drop(t)
      PROVE  F!Next \/ UNCHANGED F!vars
  <2>1. channels' \subseteq channels /\ UNCHANGED <<buffer, head, len, got>>
    BY <1>7 DEF cleanup_task_channels, drop
  <2>2. channels \ channels' \in SUBSET Chan
    BY Zenon DEF RingInv, TypeOK
  <2> QED
    BY <2>1, <2>2, DestroyRefines DEF F!Next
<1>8. CASE UNCHANGED vars
  BY <1>8, QueueFrame DEF vars
<1> QED
  BY <1>1, <1>2, <1>3, <1>4, <1>5, <1>6, <1>7, <1>8 DEF Next

(***************************************************************************)
(* For every ring size and any number of tasks and channels, the rings are *)
(* FIFO channels: IpcSystem::send and try_recv neither overwrite, reorder, *)
(* duplicate nor lose a message of a live channel.                         *)
(***************************************************************************)
THEOREM RingsAreQueues == Spec => ImplementsFifo
<1>1. Init => F!Init
  <2> SUFFICES ASSUME Init, NEW c \in Chan PROVE Queue(c) = <<>>
    BY DEF F!Init
  <2>1. len[c] = 0
    BY DEF Init
  <2> QED
    BY <2>1 DEF Queue, RingSeq
<1> QED
  BY <1>1, NextRefines, IpcRingInv, PTL DEF Spec, ImplementsFifo, F!Spec

-----------------------------------------------------------------------------
(***************************************************************************)
(* One CPU.  Whoever is between the two critical sections of its call is   *)
(* alone there, so what it found in the ring still holds when it blocks;   *)
(* and nobody waits for a channel that is yet to be created.               *)
(***************************************************************************)
UpInv ==
  /\ RingInv
  /\ KEYBOARD_CHANNEL < next_chan_id /\ \A p \in Proc : arg[p] < next_chan_id
  /\ \A p, q \in InKernel : p = q
  /\ \A t \in Task : /\ pc[t] = "block_recv" => ~CanRecv(arg[t])
                     /\ pc[t] = "block_send" => ~CanSend(arg[t])
  /\ NoLostWakeup

LEMMA Alone ==
  ASSUME NCpu = 1, FreeCpu
  PROVE  InKernel = {}
<1>1. IsFiniteSet(Proc)
  BY IpcAssumption, FS_AddElement DEF Proc
<1>2. IsFiniteSet(InKernel)
  BY <1>1, FS_Subset DEF InKernel
<1>3. Cardinality(InKernel) \in Nat /\ (Cardinality(InKernel) = 0 <=> InKernel = {})
  BY <1>2, FS_CardinalityType, FS_EmptySet, SMTT(30)
<1> QED
  BY <1>3 DEF FreeCpu

\* With nobody in the kernel, no sleeper could use its channel.
LEMMA QuietSleepers ==
  ASSUME UpInv, InKernel = {}, NEW t \in Task
  PROVE  /\ pc[t] \notin {"block_send", "block_recv", "wake_receivers", "wake_senders"}
         /\ pc[t] = "BlockedOnReceive" => ~CanRecv(arg[t])
         /\ pc[t] = "BlockedOnSend" => ~CanSend(arg[t])
  BY DEF UpInv, NoLostWakeup, InKernel, Proc

LEMMA UpInvNext ==
  ASSUME NCpu = 1, UpInv, [Next]_vars
  PROVE  UpInv'
<1>r. RingInv'
  BY NextRingInv DEF UpInv
<1>t. /\ pc \in [Proc -> Pc] /\ arg \in [Proc -> Chan] /\ len \in [Chan -> 0..N]
      /\ next_chan_id \in Nat /\ Task \subseteq Proc /\ Irq \in Proc /\ Irq \notin Task
      /\ Chan \subseteq Nat /\ N \in Nat
  <2>1. pc \in [Proc -> Pc] /\ arg \in [Proc -> Chan] /\ len \in [Chan -> 0..N]
    BY DEF UpInv, RingInv, TypeOK, N
  <2>2. next_chan_id \in Nat /\ Chan \subseteq Nat /\ N \in Nat
    BY IpcAssumption DEF UpInv, RingInv, TypeOK, N, Chan
  <2> QED
    BY <2>1, <2>2, IpcAssumption DEF Proc
<1>a. KEYBOARD_CHANNEL < next_chan_id /\ \A p \in Proc : arg[p] < next_chan_id
  BY DEF UpInv
<1>1. ASSUME NEW t \in Task, NEW c \in Chan, NEW m \in Msg, SYS_SEND(t, c, m)
      PROVE  UpInv'
  <2>1. InKernel = {}
    BY <1>1, Alone DEF SYS_SEND
  <2>2. /\ c < next_chan_id /\ arg' = [arg EXCEPT ![t] = c]
        /\ UNCHANGED <<channels, next_chan_id>>
    BY <1>1 DEF SYS_SEND
  <2>3. KEYBOARD_CHANNEL < next_chan_id' /\ \A p \in Proc : arg'[p] < next_chan_id'
    BY <2>2, <1>a, <1>t, SMTT(30)
  <2>4. CASE CanSend(c)
    <3>1. /\ pc' = [pc EXCEPT ![t] = "wake_receivers"]
          /\ len' = [len EXCEPT ![c] = @ + 1]
      BY <1>1, <2>4 DEF SYS_SEND, send
    <3>2. InKernel' = {t}
      BY <2>1, <3>1, <1>t, SMTT(30) DEF InKernel
    <3>3. ASSUME NEW u \in Task, pc'[u] \in {"BlockedOnReceive", "BlockedOnSend"}
          PROVE  /\ u # t /\ pc'[u] = pc[u] /\ arg'[u] = arg[u]
      BY <3>1, <3>3, <2>2, <1>t, SMTT(30)
    <3>4. ASSUME NEW u \in Task, pc'[u] = "BlockedOnReceive", CanRecv(arg[u])'
          PROVE  pc'[t] = "wake_receivers" /\ arg'[t] = arg'[u]
      <4>1. pc[u] = "BlockedOnReceive" /\ arg'[u] = arg[u] /\ ~CanRecv(arg[u])
        BY <3>3, <3>4, <2>1, QuietSleepers, SMTT(30)
      <4>2. arg[u] = c
        BY <4>1, <3>4, <3>1, <2>2, <1>t, SMTT(30) DEF CanRecv
      <4> QED
        BY <4>1, <4>2, <3>1, <2>2, <1>t, SMTT(30)
    <3>5. ASSUME NEW u \in Task, pc'[u] = "BlockedOnSend"
          PROVE  ~CanSend(arg[u])'
      <4>1. pc[u] = "BlockedOnSend" /\ arg'[u] = arg[u] /\ ~CanSend(arg[u])
        BY <3>3, <3>5, <2>1, QuietSleepers, SMTT(30)
      <4>2. arg[u] # c
        BY <4>1, <2>4, SMTT(30)
      <4> QED
        BY <4>1, <4>2, <3>1, <2>2, <1>t, SMTT(30) DEF CanSend
    <3>6. NoLostWakeup'
      BY <3>4, <3>5, <1>t, SMTT(30) DEF NoLostWakeup
    <3>7. \A u \in Task : pc'[u] \notin {"block_recv", "block_send"}
      BY <2>1, QuietSleepers, <3>1, <1>t, SMTT(30)
    <3> QED
      BY <1>r, <2>3, <3>2, <3>6, <3>7, SMTT(90) DEF UpInv
  <2>5. CASE ~CanSend(c)
    <3>1. pc' = [pc EXCEPT ![t] = "block_send"] /\ UNCHANGED len
      BY <1>1, <2>5 DEF SYS_SEND
    <3>2. InKernel' = {t}
      BY <2>1, <3>1, <1>t, SMTT(30) DEF InKernel
    <3>3. ASSUME NEW u \in Task
          PROVE  /\ pc'[u] = "BlockedOnReceive" => ~CanRecv(arg[u])'
                 /\ pc'[u] = "BlockedOnSend" => ~CanSend(arg[u])'
      BY <2>1, QuietSleepers, <3>1, <2>2, <1>t, SMTT(30) DEF CanRecv, CanSend
    <3>4. /\ \A w \in Task : pc'[w] # "block_recv"
          /\ \A w \in Task : pc'[w] = "block_send" => w = t
      BY <2>1, QuietSleepers, <3>1, <1>t, SMTT(30)
    <3>5. ~CanSend(arg[t])'
      BY <2>5, <2>2, <3>1, <1>t, SMTT(30) DEF CanSend
    <3>6. NoLostWakeup'
      BY <3>3 DEF NoLostWakeup
    <3>7. ASSUME NEW u \in Task
          PROVE  /\ pc'[u] = "block_recv" => ~CanRecv(arg[u])'
                 /\ pc'[u] = "block_send" => ~CanSend(arg[u])'
      <4>1. CASE u = t
        BY <4>1, <3>4, <3>5, <1>t, SMTT(30)
      <4>2. CASE u # t
        BY <4>2, <3>4
      <4> QED
        BY <4>1, <4>2, SMTT(30)
    <3> QED
      BY <1>r, <2>3, <3>2, <3>6, <3>7, SMTT(90) DEF UpInv
  <2> QED
    BY <2>4, <2>5
<1>2. ASSUME NEW t \in Task, NEW c \in Chan, SYS_RECV(t, c)
      PROVE  UpInv'
  <2>1. InKernel = {}
    BY <1>2, Alone DEF SYS_RECV
  <2>2. /\ c < next_chan_id /\ arg' = [arg EXCEPT ![t] = c]
        /\ UNCHANGED <<channels, next_chan_id>>
    BY <1>2 DEF SYS_RECV
  <2>3. KEYBOARD_CHANNEL < next_chan_id' /\ \A p \in Proc : arg'[p] < next_chan_id'
    BY <2>2, <1>a, <1>t, SMTT(30)
  <2>4. CASE CanRecv(c)
    <3>1. /\ pc' = [pc EXCEPT ![t] = "wake_senders"]
          /\ len' = [len EXCEPT ![c] = @ - 1]
      BY <1>2, <2>4 DEF SYS_RECV, try_recv
    <3>2. InKernel' = {t}
      BY <2>1, <3>1, <1>t, SMTT(30) DEF InKernel
    <3>3. ASSUME NEW u \in Task, pc'[u] \in {"BlockedOnReceive", "BlockedOnSend"}
          PROVE  /\ u # t /\ pc'[u] = pc[u] /\ arg'[u] = arg[u]
      BY <3>1, <3>3, <2>2, <1>t
    <3>4. ASSUME NEW u \in Task, pc'[u] = "BlockedOnSend", CanSend(arg[u])'
          PROVE  pc'[t] = "wake_senders" /\ arg'[t] = arg'[u]
      <4>1. pc[u] = "BlockedOnSend" /\ arg'[u] = arg[u] /\ ~CanSend(arg[u])
        BY <3>3, <3>4, <2>1, QuietSleepers, SMTT(30)
      <4>2. arg[u] = c
        BY <4>1, <3>4, <3>1, <2>2, <1>t, SMTT(30) DEF CanSend
      <4> QED
        BY <4>1, <4>2, <3>1, <2>2, <1>t, SMTT(30)
    <3>5. ASSUME NEW u \in Task, pc'[u] = "BlockedOnReceive"
          PROVE  ~CanRecv(arg[u])'
      <4>1. pc[u] = "BlockedOnReceive" /\ arg'[u] = arg[u] /\ ~CanRecv(arg[u])
        BY <3>3, <3>5, <2>1, QuietSleepers, SMTT(30)
      <4>2. arg[u] # c
        BY <4>1, <2>4, SMTT(30)
      <4> QED
        BY <4>1, <4>2, <3>1, <2>2, <1>t, SMTT(30) DEF CanRecv
    <3>6. NoLostWakeup'
      BY <3>4, <3>5, <1>t DEF NoLostWakeup
    <3>7. \A u \in Task : pc'[u] \notin {"block_recv", "block_send"}
      BY <2>1, QuietSleepers, <3>1, <1>t, SMTT(30)
    <3> QED
      BY <1>r, <2>3, <3>2, <3>6, <3>7, SMTT(90) DEF UpInv
  <2>5. CASE ~CanRecv(c)
    <3>1. pc' = [pc EXCEPT ![t] = "block_recv"] /\ UNCHANGED len
      BY <1>2, <2>5 DEF SYS_RECV
    <3>2. InKernel' = {t}
      BY <2>1, <3>1, <1>t, SMTT(30) DEF InKernel
    <3>3. ASSUME NEW u \in Task
          PROVE  /\ pc'[u] = "BlockedOnReceive" => ~CanRecv(arg[u])'
                 /\ pc'[u] = "BlockedOnSend" => ~CanSend(arg[u])'
      BY <2>1, QuietSleepers, <3>1, <2>2, <1>t, SMTT(30) DEF CanRecv, CanSend
    <3>4. /\ \A w \in Task : pc'[w] # "block_send"
          /\ \A w \in Task : pc'[w] = "block_recv" => w = t
      BY <2>1, QuietSleepers, <3>1, <1>t, SMTT(30)
    <3>5. ~CanRecv(arg[t])'
      BY <2>5, <2>2, <3>1, <1>t, SMTT(30) DEF CanRecv
    <3>6. NoLostWakeup'
      BY <3>3 DEF NoLostWakeup
    <3>7. ASSUME NEW u \in Task
          PROVE  /\ pc'[u] = "block_recv" => ~CanRecv(arg[u])'
                 /\ pc'[u] = "block_send" => ~CanSend(arg[u])'
      <4>1. CASE u = t
        BY <4>1, <3>4, <3>5, <1>t, SMTT(30)
      <4>2. CASE u # t
        BY <4>2, <3>4, SMTT(30)
      <4> QED
        BY <4>1, <4>2, SMTT(30)
    <3> QED
      BY <1>r, <2>3, <3>2, <3>6, <3>7, SMTT(90) DEF UpInv
  <2> QED
    BY <2>4, <2>5
<1>3. ASSUME NEW m \in Msg, keyboard_interrupt_handler(m)
      PROVE  UpInv'
  <2> DEFINE k == KEYBOARD_CHANNEL
  <2>1. InKernel = {}
    BY <1>3, Alone DEF keyboard_interrupt_handler
  <2>2. /\ arg' = [arg EXCEPT ![Irq] = k] /\ pc' = [pc EXCEPT ![Irq] = "wake_receivers"]
        /\ UNCHANGED <<channels, next_chan_id>>
        /\ \/ CanSend(k) /\ len' = [len EXCEPT ![k] = @ + 1]
           \/ UNCHANGED len
    BY <1>3 DEF keyboard_interrupt_handler, send, CanSend
  <2>3. KEYBOARD_CHANNEL < next_chan_id' /\ \A p \in Proc : arg'[p] < next_chan_id'
    BY <2>2, <1>a, <1>t, SMTT(30)
  <2>4. InKernel' = {Irq}
    BY <2>1, <2>2, <1>t DEF InKernel
  <2>5. \A u \in Task : pc'[u] = pc[u] /\ arg'[u] = arg[u]
    BY <2>2, <1>t
  <2>6. ASSUME NEW u \in Task, pc'[u] = "BlockedOnReceive", CanRecv(arg[u])'
        PROVE  pc'[Irq] = "wake_receivers" /\ arg'[Irq] = arg'[u]
    <3>1. ~CanRecv(arg[u]) /\ arg[u] \in Chan
      BY <2>5, <2>6, <2>1, QuietSleepers, <1>t, SMTT(30)
    <3>2. arg[u] = k
      BY <3>1, <2>2, <2>5, <2>6, <1>t, ZenonT(60) DEF CanRecv
    <3> QED
      BY <3>2, <2>2, <2>5, <1>t, SMTT(30)
  <2>7. ASSUME NEW u \in Task, pc'[u] = "BlockedOnSend"
        PROVE  ~CanSend(arg[u])'
    <3>1. ~CanSend(arg[u]) /\ arg[u] \in Chan
      BY <2>5, <2>7, <2>1, QuietSleepers, <1>t
    <3>2. CASE UNCHANGED len
      BY <3>1, <3>2, <2>2, <2>5 DEF CanSend
    <3>3. CASE CanSend(k) /\ len' = [len EXCEPT ![k] = @ + 1]
      <4>1. arg[u] # k
        BY <3>1, <3>3, SMTT(30)
      <4> QED
        BY <4>1, <3>1, <3>3, <2>2, <2>5, <1>t, SMTT(30) DEF CanSend
    <3> QED
      BY <3>2, <3>3, <2>2
  <2>8. NoLostWakeup'
    BY <2>6, <2>7, <1>t, SMTT(90) DEF NoLostWakeup
  <2>9. \A u \in Task : pc'[u] \notin {"block_recv", "block_send"}
    BY <2>1, <2>5, QuietSleepers, SMTT(30)
  <2> QED
    BY <1>r, <2>3, <2>4, <2>8, <2>9, SMTT(30) DEF UpInv
<1>4. ASSUME NEW p \in Proc, create_channel_owned(p)
      PROVE  UpInv'
  <2>1. InKernel = {}
    BY <1>4, Alone DEF create_channel_owned
  <2>2. /\ channels' = channels \cup {next_chan_id} /\ next_chan_id' = next_chan_id + 1
        /\ UNCHANGED <<len, pc, arg>>
    BY <1>4 DEF create_channel_owned
  <2>3. KEYBOARD_CHANNEL < next_chan_id' /\ \A q \in Proc : arg'[q] < next_chan_id'
    <3>1. \A q \in Proc : arg[q] \in Nat /\ arg[q] < next_chan_id
      BY <1>a, <1>t, Zenon
    <3>2. \A q \in Proc : arg'[q] < next_chan_id + 1
      BY <3>1, <2>2, <1>t
    <3> QED
      BY <3>2, <2>2, <1>a, <1>t DEF KEYBOARD_CHANNEL
  <2>4. InKernel' = {}
    BY <2>1, <2>2 DEF InKernel
  <2>5. ASSUME NEW u \in Task
        PROVE  /\ pc'[u] \notin {"block_recv", "block_send"}
               /\ pc'[u] = "BlockedOnReceive" => ~CanRecv(arg[u])'
               /\ pc'[u] = "BlockedOnSend" => ~CanSend(arg[u])'
    <3>1. arg[u] # next_chan_id
      BY <1>a, <1>t
    <3>2. CanRecv(arg[u])' = CanRecv(arg[u]) /\ CanSend(arg[u])' = CanSend(arg[u])
      BY <3>1, <2>2 DEF CanRecv, CanSend
    <3> QED
      BY <3>2, <2>1, <2>2, QuietSleepers
  <2>6. NoLostWakeup'
    BY <2>5, SMTT(30) DEF NoLostWakeup
  <2> QED
    BY <1>r, <2>3, <2>4, <2>5, <2>6, SMTT(90) DEF UpInv
<1>5. ASSUME NEW p \in Proc, unblock(p)
      PROVE  UpInv'
  <2>1. InKernel = {p}
    BY <1>5 DEF unblock, InKernel, UpInv
  <2>2. /\ arg' = [arg EXCEPT ![p] = KEYBOARD_CHANNEL] /\ pc[p] \in {"wake_receivers", "wake_senders"}
        /\ UNCHANGED <<channels, len, next_chan_id>>
    BY <1>5 DEF unblock, ring
  <2>3. KEYBOARD_CHANNEL < next_chan_id' /\ \A q \in Proc : arg'[q] < next_chan_id'
    BY <2>2, <1>a, <1>t
  <2>4. \A q \in Proc : /\ pc'[q] \in {"user", "retry_recv", "retry_send", pc[q]}
                        /\ q = p => pc'[q] = "user"
    BY <1>5 DEF unblock
  <2>5. InKernel' = {}
    BY <2>1, <2>4 DEF InKernel
  <2>6. ASSUME NEW u \in Task, pc'[u] \in {"BlockedOnReceive", "BlockedOnSend"}
        PROVE  /\ pc[u] = pc'[u] /\ u # p /\ arg'[u] = arg[u]
               /\ ~(arg[u] = arg[p] /\ pc[u] = IF pc[p] = "wake_receivers"
                                              THEN "BlockedOnReceive" ELSE "BlockedOnSend")
    <3>1. u # p /\ pc[u] = pc'[u]
      BY <2>4, <2>6, <1>t, SMTT(30)
    <3>2. arg'[u] = arg[u]
      BY <3>1, <2>2, <1>t
    <3>3. ~(arg[u] = arg[p] /\ pc[u] = IF pc[p] = "wake_receivers"
                                     THEN "BlockedOnReceive" ELSE "BlockedOnSend")
      BY <3>1, <2>6, <1>5, <1>t, SMTT(30) DEF unblock
    <3> QED
      BY <3>1, <3>2, <3>3
  <2>7. ASSUME NEW u \in Task, pc'[u] = "BlockedOnReceive"
        PROVE  ~CanRecv(arg[u])'
    <3>1. CASE CanRecv(arg[u])
      <4>1. PICK q \in Proc : pc[q] = "wake_receivers" /\ arg[q] = arg[u]
        BY <3>1, <2>6, <2>7, SMTT(30) DEF UpInv, NoLostWakeup
      <4>2. q = p
        BY <4>1, <2>1, SMTT(30) DEF InKernel
      <4> QED
        BY <4>1, <4>2, <2>6, <2>7, SMTT(30)
    <3>2. CASE ~CanRecv(arg[u])
      BY <3>2, <2>2, <2>6, <2>7, SMTT(30) DEF CanRecv
    <3> QED
      BY <3>1, <3>2, SMTT(30)
  <2>8. ASSUME NEW u \in Task, pc'[u] = "BlockedOnSend"
        PROVE  ~CanSend(arg[u])'
    <3>1. CASE CanSend(arg[u])
      <4>1. PICK q \in Proc : pc[q] = "wake_senders" /\ arg[q] = arg[u]
        BY <3>1, <2>6, <2>8, SMTT(30) DEF UpInv, NoLostWakeup
      <4>2. q = p
        BY <4>1, <2>1, SMTT(30) DEF InKernel
      <4> QED
        BY <4>1, <4>2, <2>6, <2>8, SMTT(90)
    <3>2. CASE ~CanSend(arg[u])
      BY <3>2, <2>2, <2>6, <2>8, SMTT(30) DEF CanSend
    <3> QED
      BY <3>1, <3>2
  <2>9. NoLostWakeup'
    BY <2>7, <2>8 DEF NoLostWakeup
  <2>10. \A u \in Task : pc'[u] \notin {"block_recv", "block_send"}
    BY <2>5, <1>t, SMTT(30) DEF InKernel
  <2> QED
    BY <1>r, <2>3, <2>5, <2>9, <2>10, SMTT(30) DEF UpInv
<1>6. ASSUME NEW t \in Task, block_current_task(t)
      PROVE  UpInv'
  <2>1. InKernel = {t}
    BY <1>6, <1>t DEF block_current_task, InKernel, UpInv
  <2>2. /\ pc[t] \in {"block_send", "block_recv"}
        /\ pc' = [pc EXCEPT ![t] = IF @ = "block_send" THEN "BlockedOnSend"
                                                       ELSE "BlockedOnReceive"]
        /\ UNCHANGED <<channels, len, next_chan_id, arg>>
    BY <1>6 DEF block_current_task, ring
  <2>3. InKernel' = {}
    BY <2>1, <2>2, <1>t DEF InKernel
  <2>4. \A q \in Proc : pc[q] \notin {"wake_receivers", "wake_senders"}
    BY <2>1, <2>2, SMTT(30) DEF InKernel
  <2>5. ASSUME NEW u \in Task
        PROVE  /\ pc'[u] \notin {"block_recv", "block_send"}
               /\ pc'[u] = "BlockedOnReceive" => ~CanRecv(arg[u])
               /\ pc'[u] = "BlockedOnSend" => ~CanSend(arg[u])
    <3>1. CASE u = t
      BY <3>1, <2>2, <1>t, SMTT(30) DEF UpInv
    <3>2. CASE u # t
      <4>1. pc'[u] = pc[u] /\ u \notin InKernel
        BY <3>2, <2>1, <2>2, <1>t, SMTT(30)
      <4> QED
        BY <4>1, <2>4, <1>t, SMTT(30) DEF UpInv, NoLostWakeup, InKernel
    <3> QED
      BY <3>1, <3>2, SMTT(30)
  <2>6. NoLostWakeup'
    BY <2>5, <2>2, SMTT(90) DEF NoLostWakeup, CanRecv, CanSend
  <2> QED
    BY <1>r, <1>a, <2>2, <2>3, <2>5, <2>6, ZenonT(60) DEF UpInv
<1>7. ASSUME NEW t \in Task, cleanup_task_channels(t) \/ drop(t)
      PROVE  UpInv'
  <2>1. InKernel = {}
    BY <1>7, Alone, SMTT(30) DEF cleanup_task_channels, drop
  <2>2. /\ channels' \subseteq channels /\ UNCHANGED <<len, next_chan_id, arg>>
        /\ pc' = [pc EXCEPT ![t] = "dead"] \/ pc' = [pc EXCEPT ![t] = "freed"]
    BY <1>7 DEF cleanup_task_channels, drop
  <2>3. InKernel' = {}
    BY <2>1, <2>2, <1>t, SMTT(30) DEF InKernel
  <2>4. ASSUME NEW u \in Task
        PROVE  /\ pc'[u] \notin {"block_recv", "block_send"}
               /\ pc'[u] = "BlockedOnReceive" => ~CanRecv(arg[u])'
               /\ pc'[u] = "BlockedOnSend" => ~CanSend(arg[u])'
    <3>1. pc'[u] \in {"dead", "freed", pc[u]}
      BY <2>2, <1>t, SMTT(30)
    <3>2. (CanRecv(arg[u])' => CanRecv(arg[u])) /\ (CanSend(arg[u])' => CanSend(arg[u]))
      BY <2>2 DEF CanRecv, CanSend
    <3> QED
      BY <3>1, <3>2, <2>1, QuietSleepers, SMTT(90)
  <2>5. NoLostWakeup'
    BY <2>4, SMTT(30) DEF NoLostWakeup
  <2> QED
    BY <1>r, <1>a, <2>2, <2>3, <2>4, <2>5, ZenonT(60) DEF UpInv
<1>8. CASE UNCHANGED vars
  BY <1>8, <1>r, SMTT(30) DEF vars, UpInv, NoLostWakeup, InKernel, CanRecv, CanSend
<1> QED
  BY <1>1, <1>2, <1>3, <1>4, <1>5, <1>6, <1>7, <1>8, SMTT(30) DEF Next

(***************************************************************************)
(* On one CPU the two critical sections of SYS_SEND and SYS_RECV act as    *)
(* one: no task sleeps beside mail or space unless its wakeup is on the    *)
(* way.  (With a second CPU this fails.)                                   *)
(***************************************************************************)
THEOREM OneCpuNoLostWakeup == ASSUME NCpu = 1 PROVE Spec => []NoLostWakeup
<1>1. Init => UpInv
  <2> SUFFICES ASSUME Init PROVE UpInv
    OBVIOUS
  <2>1. InKernel = {} /\ \A t \in Task : pc[t] = "user"
    BY DEF Init, InKernel, Proc
  <2>2. NoLostWakeup
    BY <2>1 DEF NoLostWakeup
  <2>3. KEYBOARD_CHANNEL < next_chan_id /\ \A p \in Proc : arg[p] < next_chan_id
    BY DEF Init, KEYBOARD_CHANNEL
  <2> QED
    BY <2>1, <2>2, <2>3, InitRingInv DEF UpInv
<1>2. UpInv /\ [Next]_vars => UpInv'
  BY UpInvNext
<1>3. UpInv => NoLostWakeup
  BY DEF UpInv
<1> QED
  BY <1>1, <1>2, <1>3, PTL DEF Spec
=============================================================================
