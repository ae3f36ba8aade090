-------------------------------- MODULE Ipc ---------------------------------
(***************************************************************************)
(* IPC channels (kernel/src/ipc.rs) and the blocking SYS_SEND / SYS_RECV   *)
(* built on them (kernel/src/syscall.rs).  A channel is a ring of          *)
(* IPC_BUFFER_SIZE messages under the IPC lock.  The system calls take     *)
(* that lock for one ring operation, drop it, and then, in a second        *)
(* critical section under SCHEDULER, either wake the other side or block;  *)
(* a task that blocked re-executes the whole call when it is woken.        *)
(*                                                                         *)
(* Blocking is one step here: the window in which a blocking task sits in  *)
(* a switch_stash is the subject of Sched.  The sender that is not a task, *)
(* the PS/2 keyboard handler, is the process Irq; init_ioapic routes it to *)
(* the boot CPU.                                                           *)
(***************************************************************************)
EXTENDS Naturals, FiniteSets, Sequences

CONSTANTS
  Task, Irq,       \* the tasks and the keyboard interrupt handler
  Pinned,          \* the tasks whose affinity is the boot CPU only
  Writers,         \* the tasks that hold a Channel cap with WRITE
  Creators,        \* the owner_pid values create_channel_owned is called with
  RootChan,        \* per task, the channels it holds an underived cap for
  Msg, NoMsg,      \* messages, and Message::default()
  IPC_BUFFER_SIZE, \* 64 in the code
  MaxChan,         \* bound on the channel ids given out
  NCpu             \* online CPUs

KEYBOARD_CHANNEL == 1
SYSTEM_OWNER == Irq
Chan == 1..MaxChan
Proc == Task \cup {Irq}

ASSUME IpcAssumption ==
  /\ IPC_BUFFER_SIZE \in Nat \ {0} /\ MaxChan \in Nat \ {0} /\ NCpu \in Nat
  /\ IsFiniteSet(Task) /\ Irq \notin Task /\ NoMsg \notin Msg
  /\ Pinned \subseteq Task /\ Writers \subseteq Task /\ Creators \subseteq Proc
  /\ RootChan \in [Task -> SUBSET Chan]

VARIABLES
  channels,     \* the live channel ids
  owner_pid, buffer, head, tail, len,  \* struct Channel, per id
  next_chan_id,
  pc,           \* per process: see Pc
  arg,          \* per process, the channel of its call (reset on return)
  msg,          \* per process, the message its blocked SYS_SEND re-sends
  got           \* per task, what its last SYS_RECV returned

ring == <<channels, owner_pid, buffer, head, tail, len, next_chan_id>>
vars == <<channels, owner_pid, buffer, head, tail, len, next_chan_id,
          pc, arg, msg, got>>

\* "block_*" and "wake_*": the IPC lock is dropped and SCHEDULER not yet
\* taken; "retry_*": woken, about to re-execute the call.
Pc == {"user", "block_send", "block_recv", "wake_receivers", "wake_senders",
       "BlockedOnSend", "BlockedOnReceive", "retry_send", "retry_recv",
       "dead", "freed"}

InKernel == {p \in Proc : pc[p] \in {"block_send", "block_recv",
                                     "wake_receivers", "wake_senders"}}

\* System calls and interrupt handlers run with interrupts off.
FreeCpu == Cardinality(InKernel) < NCpu

\* Pinned tasks and the keyboard interrupt share the boot CPU.
BspFree(p) ==
  p \in Pinned \cup {Irq} => InKernel \cap (Pinned \cup {Irq}) = {}

EmptyRing == [i \in 0..(IPC_BUFFER_SIZE - 1) |-> NoMsg]

\* main.rs creates the keyboard channel first.
Init ==
  /\ channels = {KEYBOARD_CHANNEL}
  /\ owner_pid = [c \in Chan |-> SYSTEM_OWNER]
  /\ buffer = [c \in Chan |-> EmptyRing]
  /\ head = [c \in Chan |-> 0]
  /\ tail = [c \in Chan |-> 0]
  /\ len = [c \in Chan |-> 0]
  /\ next_chan_id = KEYBOARD_CHANNEL + 1
  /\ pc = [p \in Proc |-> "user"]
  /\ arg = [p \in Proc |-> KEYBOARD_CHANNEL]
  /\ msg = [p \in Proc |-> NoMsg]
  /\ got = [t \in Task |-> NoMsg]
-----------------------------------------------------------------------------
\* Mutant: the full ring is noticed one message late.
send_overwrite(c, m) ==
  /\ c \in channels /\ len[c] <= IPC_BUFFER_SIZE
  /\ buffer' = [buffer EXCEPT ![c][tail[c]] = m]
  /\ tail' = [tail EXCEPT ![c] = (@ + 1) % IPC_BUFFER_SIZE]
  /\ len' = [len EXCEPT ![c] = @ + 1]

\* Mutant: the tail index is not wrapped.
send_no_wrap(c, m) ==
  /\ c \in channels /\ len[c] # IPC_BUFFER_SIZE
  /\ buffer' = [buffer EXCEPT ![c][tail[c]] = m]
  /\ tail' = [tail EXCEPT ![c] = @ + 1]
  /\ len' = [len EXCEPT ![c] = @ + 1]

\* IpcSystem::send and try_recv when they succeed.
send(c, m) ==
  /\ c \in channels /\ len[c] # IPC_BUFFER_SIZE
  /\ buffer' = [buffer EXCEPT ![c][tail[c]] = m]
  /\ tail' = [tail EXCEPT ![c] = (@ + 1) % IPC_BUFFER_SIZE]
  /\ len' = [len EXCEPT ![c] = @ + 1]

try_recv(t, c) ==
  /\ c \in channels /\ len[c] # 0
  /\ got' = [got EXCEPT ![t] = buffer[c][head[c]]]
  /\ head' = [head EXCEPT ![c] = (@ + 1) % IPC_BUFFER_SIZE]
  /\ len' = [len EXCEPT ![c] = @ - 1]

CanSend(c) == c \in channels /\ len[c] # IPC_BUFFER_SIZE
CanRecv(c) == c \in channels /\ len[c] # 0

create_channel_owned(t) ==
  /\ pc[t] = "user" /\ FreeCpu /\ BspFree(t) /\ t \in Creators
  /\ next_chan_id <= MaxChan
  /\ channels' = channels \cup {next_chan_id}
  /\ owner_pid' = [owner_pid EXCEPT ![next_chan_id] = t]
  /\ next_chan_id' = next_chan_id + 1
  /\ UNCHANGED <<buffer, head, tail, len, pc, arg, msg, got>>

\* The first critical section of SYS_SEND, first time or re-executed.  A full
\* and an invalid channel are the same Err to the handler.
SYS_SEND(t, c, m) ==
  /\ \/ pc[t] = "user" /\ t \in Writers
     \/ pc[t] = "retry_send" /\ c = arg[t] /\ m = msg[t]
  /\ FreeCpu /\ BspFree(t) /\ c < next_chan_id
  /\ arg' = [arg EXCEPT ![t] = c]
  /\ IF CanSend(c)
     THEN /\ send(c, m)
          /\ pc' = [pc EXCEPT ![t] = "wake_receivers"]
          /\ msg' = [msg EXCEPT ![t] = NoMsg]
     ELSE /\ pc' = [pc EXCEPT ![t] = "block_send"]
          /\ msg' = [msg EXCEPT ![t] = m]
          /\ UNCHANGED <<buffer, tail, len>>
  /\ UNCHANGED <<channels, owner_pid, head, next_chan_id, got>>

SYS_RECV(t, c) ==
  /\ \/ pc[t] = "user"
     \/ pc[t] = "retry_recv" /\ c = arg[t]
  /\ FreeCpu /\ BspFree(t) /\ c < next_chan_id
  /\ arg' = [arg EXCEPT ![t] = c]
  /\ IF CanRecv(c)
     THEN /\ try_recv(t, c)
          /\ pc' = [pc EXCEPT ![t] = "wake_senders"]
     ELSE /\ pc' = [pc EXCEPT ![t] = "block_recv"]
          /\ UNCHANGED <<head, len, got>>
  /\ UNCHANGED <<channels, owner_pid, buffer, tail, next_chan_id, msg>>

block_current_task(t) ==
  /\ pc[t] \in {"block_send", "block_recv"}
  /\ pc' = [pc EXCEPT ![t] = IF @ = "block_send" THEN "BlockedOnSend"
                                                 ELSE "BlockedOnReceive"]
  /\ UNCHANGED <<ring, arg, msg, got>>

\* Mutant: one waiter is woken per message, and it need not be the taker.
unblock_one(p) ==
  LET W == {t \in Task : arg[t] = arg[p] /\ pc[t] =
              IF pc[p] = "wake_receivers" THEN "BlockedOnReceive"
                                          ELSE "BlockedOnSend"} IN
  /\ pc[p] \in {"wake_receivers", "wake_senders"}
  /\ pc' = [q \in Proc |->
              CASE q = p -> "user"
                [] W # {} /\ q = CHOOSE w \in W : TRUE ->
                     IF pc[p] = "wake_receivers" THEN "retry_recv"
                                                 ELSE "retry_send"
                [] OTHER -> pc[q]]
  /\ arg' = [arg EXCEPT ![p] = KEYBOARD_CHANNEL]
  /\ UNCHANGED <<ring, msg, got>>

\* unblock_receivers, unblock_senders
unblock(p) ==
  LET W == {t \in Task : arg[t] = arg[p] /\ pc[t] =
              IF pc[p] = "wake_receivers" THEN "BlockedOnReceive"
                                          ELSE "BlockedOnSend"} IN
  /\ pc[p] \in {"wake_receivers", "wake_senders"}
  /\ pc' = [q \in Proc |->
              CASE q = p -> "user"
                [] q \in W -> IF pc[p] = "wake_receivers" THEN "retry_recv"
                                                          ELSE "retry_send"
                [] OTHER -> pc[q]]
  /\ arg' = [arg EXCEPT ![p] = KEYBOARD_CHANNEL]
  /\ UNCHANGED <<ring, msg, got>>

(***************************************************************************)
(* keyboard_interrupt_handler: the scancode is dropped when the ring is    *)
(* full or gone, and when try_lock finds IPC held; the receivers are woken *)
(* in either case.                                                         *)
(***************************************************************************)
keyboard_interrupt_handler(m) ==
  /\ pc[Irq] = "user" /\ FreeCpu /\ BspFree(Irq)
  /\ pc' = [pc EXCEPT ![Irq] = "wake_receivers"]
  /\ arg' = [arg EXCEPT ![Irq] = KEYBOARD_CHANNEL]
  /\ \/ send(KEYBOARD_CHANNEL, m)
     \/ UNCHANGED <<buffer, tail, len>>
  /\ UNCHANGED <<channels, owner_pid, head, next_chan_id, msg, got>>

(***************************************************************************)
(* The two ends of a task.  reclaim_task_resources, on exit or kill,       *)
(* destroys the channels it owns; later Task::drop destroys the channels   *)
(* it holds an underived capability for, whoever owns them.  Neither wakes *)
(* the tasks blocked on them.                                              *)
(***************************************************************************)
cleanup_task_channels(t) ==
  /\ pc[t] \notin {"dead", "freed"} /\ t \notin InKernel /\ FreeCpu
  /\ pc' = [pc EXCEPT ![t] = "dead"]
  /\ channels' = {c \in channels : owner_pid[c] # t}
  /\ UNCHANGED <<owner_pid, buffer, head, tail, len, next_chan_id, arg, msg,
                 got>>

drop(t) ==
  /\ pc[t] = "dead" /\ FreeCpu
  /\ pc' = [pc EXCEPT ![t] = "freed"]
  /\ channels' = channels \ RootChan[t]
  /\ UNCHANGED <<owner_pid, buffer, head, tail, len, next_chan_id, arg, msg,
                 got>>

Next ==
  \/ \E t \in Task :
       \/ \E c \in Chan, m \in Msg : SYS_SEND(t, c, m)
       \/ \E c \in Chan : SYS_RECV(t, c)
       \/ block_current_task(t)
       \/ cleanup_task_channels(t)
       \/ drop(t)
  \/ \E p \in Proc : create_channel_owned(p) \/ unblock(p)
  \/ \E m \in Msg : keyboard_interrupt_handler(m)

Spec == Init /\ [][Next]_vars
-----------------------------------------------------------------------------
TypeOK ==
  /\ channels \subseteq Chan
  /\ owner_pid \in [Chan -> Task \cup {SYSTEM_OWNER}]
  /\ buffer \in [Chan -> [0..(IPC_BUFFER_SIZE - 1) -> Msg \cup {NoMsg}]]
  /\ head \in [Chan -> 0..(IPC_BUFFER_SIZE - 1)]
  /\ tail \in [Chan -> 0..(IPC_BUFFER_SIZE - 1)]
  /\ len \in [Chan -> 0..IPC_BUFFER_SIZE]
  /\ next_chan_id \in 1..(MaxChan + 1)
  /\ pc \in [Proc -> Pc]
  /\ arg \in [Proc -> Chan]
  /\ msg \in [Proc -> Msg \cup {NoMsg}]
  /\ got \in [Task -> Msg \cup {NoMsg}]

(***************************************************************************)
(* The ring read as the queue it stands for.                               *)
(***************************************************************************)
RingSeq(b, h, l) == [i \in 1..l |-> b[(h + i - 1) % IPC_BUFFER_SIZE]]

Queue(c) == IF c \in channels THEN RingSeq(buffer[c], head[c], len[c])
                              ELSE <<>>

F == INSTANCE Fifo WITH Capacity <- IPC_BUFFER_SIZE, open <- channels,
                        queue <- [c \in Chan |-> Queue(c)]

(***************************************************************************)
(* The rings implement FIFO channels: under any interleaving of senders,   *)
(* receivers, interrupts and exits no message is overwritten, reordered,   *)
(* duplicated or lost while its channel lives.                             *)
(***************************************************************************)
ImplementsFifo == F!Spec

(***************************************************************************)
(* Nobody sleeps beside mail: a task blocked on a live channel it could    *)
(* use has a wakeup on its way ("no lost wakeup").                         *)
(***************************************************************************)
NoLostWakeup ==
  \A t \in Task :
    /\ pc[t] = "BlockedOnReceive" /\ CanRecv(arg[t]) =>
         \E p \in Proc : pc[p] = "wake_receivers" /\ arg[p] = arg[t]
    /\ pc[t] = "BlockedOnSend" /\ CanSend(arg[t]) =>
         \E p \in Proc : pc[p] = "wake_senders" /\ arg[p] = arg[t]

(***************************************************************************)
(* A kernel channel is "never swept by per-task cleanup": it outlives the  *)
(* tasks that use it.                                                      *)
(***************************************************************************)
SystemChannelsKept ==
  \A c \in 1..(next_chan_id - 1) :
    owner_pid[c] = SYSTEM_OWNER => c \in channels
=============================================================================
