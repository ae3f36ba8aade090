---------------------------- MODULE SchedProofs ----------------------------
(***************************************************************************)
(* Proofs about Sched, for any number of CPUs, tasks and events.  The      *)
(* inductive invariant adds to the checked ones where a CPU's stack is at  *)
(* each point of the switch (CpuInv), that an unborn task is in no         *)
(* container, and that a blocked task is where the wake paths look.  The   *)
(* last part is about one CPU.                                             *)
(***************************************************************************)
EXTENDS Sched, TLAPS

(* Where a CPU is in the switch fixes whose stack it is on: its current     *)
(* task's outside the switch, the stashed task's until switch_context.      *)
CpuInv ==
  \A c \in Cpu :
    /\ current_task[c] \in Task \cup {c, None}
    /\ idle_task[c] = IF current_task[c] = c THEN None ELSE c
    /\ pc[c] \in {"running", "blocking", "exiting"} =>
         /\ switch_stash[c] = None
         /\ stack[c] = IF current_task[c] = None THEN c ELSE current_task[c]
    /\ pc[c] \in {"switching", "finishing"} => current_task[c] # None
    /\ pc[c] = "switching" =>
         stack[c] = IF switch_stash[c] = None THEN c ELSE switch_stash[c]
    /\ pc[c] = "finishing" => stack[c] = current_task[c]

UnbornNowhere ==
  \A t \in Task : state[t] = "Unborn" =>
    /\ t \notin Filed /\ ~InStash(t)
    /\ \A c \in Cpu : current_task[c] # t

BlockedFindable ==
  \A t \in Task : state[t] = "Blocked" =>
    InStash(t) \/ t \in blocked_tasks \cup freed

IInv ==
  TypeOK /\ OneOwner /\ QueuedReady /\ CpuInv /\ UnbornNowhere /\ BlockedFindable

(* Initially the queues are empty and every CPU is on its idle stack.       *)
LEMMA InitIInv == Init => IInv
<1> SUFFICES ASSUME Init PROVE IInv
  BY Zenon
<1> USE CpuAssumption DEF Init
<1>1. TypeOK  BY Zenon DEF TypeOK, Reason
<1>2. OneOwner  BY Zenon DEF OneOwner, Filed, InStash
<1>3. QueuedReady  BY Zenon DEF QueuedReady
<1>4. CpuInv  BY Zenon DEF CpuInv
<1>5. UnbornNowhere  BY Zenon DEF UnbornNowhere, Filed, InStash
<1>6. BlockedFindable  BY Zenon DEF BlockedFindable
<1>7. QED  BY <1>1, <1>2, <1>3, <1>4, <1>5, <1>6, Zenon DEF IInv

LEMMA SpawnIInv ==
  ASSUME IInv, NEW c \in Cpu, NEW t \in Task, spawn(c, t)
  PROVE  IInv'
<1> USE CpuAssumption DEF IInv, spawn, cpuVars
<1>1. TypeOK'  BY DEF TypeOK
<1>2. OneOwner'  BY DEF OneOwner, Filed, InStash, UnbornNowhere, TypeOK
<1>3. QueuedReady'  BY DEF QueuedReady, TypeOK
<1>4. CpuInv'  BY Zenon DEF CpuInv
<1>5. UnbornNowhere'  BY DEF UnbornNowhere, Filed, InStash, TypeOK
<1>6. BlockedFindable'  BY DEF BlockedFindable, TypeOK, InStash
<1>7. QED  BY <1>1, <1>2, <1>3, <1>4, <1>5, <1>6, Zenon DEF IInv

LEMMA YieldKeepIInv ==
  ASSUME IInv, NEW c \in Cpu, yield_keep(c)
  PROVE  IInv'
<1> USE CpuAssumption DEF IInv, yield_keep, taskVars, queueVars
<1>1. TypeOK'  BY Zenon DEF TypeOK, Reason
<1>2. OneOwner'  BY DEF OneOwner, Filed, InStash, UnbornNowhere, TypeOK, CpuInv
<1>3. QueuedReady'  BY Zenon DEF QueuedReady, TypeOK, OneOwner, Filed, InStash, UnbornNowhere
<1>4. CpuInv'  BY DEF CpuInv, TypeOK
<1>5. UnbornNowhere'  BY DEF UnbornNowhere, Filed, InStash, TypeOK
<1>6. BlockedFindable'  BY Zenon DEF BlockedFindable, TypeOK, InStash, OneOwner, Filed
<1>7. QED  BY <1>1, <1>2, <1>3, <1>4, <1>5, <1>6, Zenon DEF IInv

LEMMA YieldSwitchIInv ==
  ASSUME IInv, NEW c \in Cpu, yield_switch(c)
  PROVE  IInv'
<1> USE CpuAssumption DEF IInv, yield_switch, taskVars
<1>1. TypeOK'  BY DEF TypeOK, Reason
<1>2. OneOwner'  BY DEF OneOwner, Filed, InStash, UnbornNowhere, TypeOK, CpuInv
<1>3. QueuedReady'  BY Zenon DEF QueuedReady, TypeOK, OneOwner, Filed, InStash, UnbornNowhere
<1>4. CpuInv'  BY DEF CpuInv, TypeOK
<1>5. UnbornNowhere'  BY DEF UnbornNowhere, Filed, InStash, TypeOK
<1>6. BlockedFindable'  BY DEF BlockedFindable, TypeOK, CpuInv, InStash, OneOwner, Filed
<1>7. QED  BY <1>1, <1>2, <1>3, <1>4, <1>5, <1>6, Zenon DEF IInv

LEMMA BlockIInv ==
  ASSUME IInv, NEW c \in Cpu, NEW r \in Reason \cup {None}, BlockOn(c, r), pc[c] \in {"running", "blocking"}
  PROVE  IInv'
<1> USE CpuAssumption DEF IInv, BlockOn, SwitchAway
<1>1. TypeOK'  BY DEF TypeOK, Reason
<1>2. OneOwner'  BY DEF OneOwner, Filed, InStash, UnbornNowhere, TypeOK, CpuInv
<1>3. QueuedReady'  BY DEF QueuedReady, TypeOK, OneOwner, Filed, InStash, UnbornNowhere
<1>4. CpuInv'  BY DEF CpuInv, TypeOK
<1>5. UnbornNowhere'  BY DEF UnbornNowhere, Filed, InStash, TypeOK
<1>6. BlockedFindable'  BY DEF BlockedFindable, TypeOK, CpuInv, InStash, OneOwner, Filed
<1>7. QED  BY <1>1, <1>2, <1>3, <1>4, <1>5, <1>6, Zenon DEF IInv

LEMMA SwitchContextIInv ==
  ASSUME IInv, NEW c \in Cpu, switch_context(c)
  PROVE  IInv'
<1> USE CpuAssumption DEF IInv, switch_context, taskVars, queueVars
<1>1. TypeOK'  BY DEF TypeOK, CpuInv
<1>2. OneOwner'  BY DEF OneOwner, Filed, InStash, UnbornNowhere, TypeOK, CpuInv
<1>3. QueuedReady'  BY Zenon DEF QueuedReady, TypeOK, OneOwner, Filed, InStash, UnbornNowhere
<1>4. CpuInv'  BY DEF CpuInv, TypeOK
<1>5. UnbornNowhere'  BY Zenon DEF UnbornNowhere, Filed, InStash, TypeOK
<1>6. BlockedFindable'  BY Zenon DEF BlockedFindable, TypeOK, InStash, OneOwner, Filed
<1>7. QED  BY <1>1, <1>2, <1>3, <1>4, <1>5, <1>6, Zenon DEF IInv

LEMMA FinishIInv ==
  ASSUME IInv, NEW c \in Cpu, finish_task_switch(c)
  PROVE  IInv'
<1> USE CpuAssumption DEF IInv, finish_task_switch, taskVars, queueVars, Wake, WaitersOf, Sleeping, is_blocked
<1>1. TypeOK'  BY DEF TypeOK, Reason
<1>2. OneOwner'  BY DEF OneOwner, Filed, InStash, UnbornNowhere, TypeOK, CpuInv
<1>3. QueuedReady'  BY DEF QueuedReady, TypeOK, OneOwner, Filed, InStash, UnbornNowhere
<1>4. CpuInv'  BY DEF CpuInv, TypeOK
<1>5. UnbornNowhere'  BY DEF UnbornNowhere, Filed, InStash, TypeOK
<1>6. BlockedFindable'  BY DEF BlockedFindable, TypeOK, InStash, OneOwner, Filed
<1>7. QED  BY <1>1, <1>2, <1>3, <1>4, <1>5, <1>6, Zenon DEF IInv

LEMMA UnblockIInv ==
  ASSUME IInv, NEW c \in Cpu, NEW r \in Event, unblock(c, r)
  PROVE  IInv'
<1> USE CpuAssumption DEF IInv, unblock, Wake, WaitersOf, Sleeping, is_blocked, cpuVars
<1>1. TypeOK'  BY Zenon DEF TypeOK, Reason
<1>2. OneOwner'  BY DEF OneOwner, Filed, InStash, UnbornNowhere, TypeOK, CpuInv
<1>3. QueuedReady'  BY Zenon DEF QueuedReady, TypeOK, OneOwner, Filed, InStash, UnbornNowhere
<1>4. CpuInv'  BY Zenon DEF CpuInv, TypeOK
<1>5. UnbornNowhere'  BY Zenon DEF UnbornNowhere, Filed, InStash, TypeOK
<1>6. BlockedFindable'  BY Zenon DEF BlockedFindable, TypeOK, InStash, OneOwner, Filed
<1>7. QED  BY <1>1, <1>2, <1>3, <1>4, <1>5, <1>6, Zenon DEF IInv

LEMMA WakeThreadIInv ==
  ASSUME IInv, NEW c \in Cpu, NEW t \in Task, wake_thread(c, t)
  PROVE  IInv'
<1> USE CpuAssumption DEF IInv, wake_thread, Wake, Sleeping, is_blocked, cpuVars
<1>1. TypeOK'  BY Zenon DEF TypeOK, Reason
<1>2. OneOwner'  BY DEF OneOwner, Filed, InStash, UnbornNowhere, TypeOK, CpuInv
<1>3. QueuedReady'  BY Zenon DEF QueuedReady, TypeOK, OneOwner, Filed, InStash, UnbornNowhere
<1>4. CpuInv'  BY Zenon DEF CpuInv, TypeOK
<1>5. UnbornNowhere'  BY Zenon DEF UnbornNowhere, Filed, InStash, TypeOK
<1>6. BlockedFindable'  BY Zenon DEF BlockedFindable, TypeOK, InStash, OneOwner, Filed
<1>7. QED  BY <1>1, <1>2, <1>3, <1>4, <1>5, <1>6, Zenon DEF IInv

LEMMA ExitIInv ==
  ASSUME IInv, NEW c \in Cpu, exit_current_task(c)
  PROVE  IInv'
<1> USE CpuAssumption DEF IInv, exit_current_task, SwitchAway
<1>1. TypeOK'  BY DEF TypeOK, Reason
<1>2. OneOwner'  BY DEF OneOwner, Filed, InStash, UnbornNowhere, TypeOK, CpuInv
<1>3. QueuedReady'  BY DEF QueuedReady, TypeOK, OneOwner, Filed, InStash, UnbornNowhere
<1>4. CpuInv'  BY DEF CpuInv, TypeOK
<1>5. UnbornNowhere'  BY DEF UnbornNowhere, Filed, InStash, TypeOK
<1>6. BlockedFindable'  BY DEF BlockedFindable, TypeOK, CpuInv, InStash, OneOwner, Filed
<1>7. QED  BY <1>1, <1>2, <1>3, <1>4, <1>5, <1>6, Zenon DEF IInv

LEMMA KillRemoteIInv ==
  ASSUME IInv, NEW c \in Cpu, NEW t \in Task, kill_remote(c, t)
  PROVE  IInv'
<1> USE CpuAssumption DEF IInv, kill_remote, Wake, WaitersOf, Sleeping, is_blocked, cpuVars
<1>1. TypeOK'  BY Zenon DEF TypeOK, Reason
<1>2. OneOwner'  BY DEF OneOwner, Filed, InStash, UnbornNowhere, TypeOK, CpuInv
<1>3. QueuedReady'  BY Zenon DEF QueuedReady, TypeOK, OneOwner, Filed, InStash, UnbornNowhere
<1>4. CpuInv'  BY Zenon DEF CpuInv, TypeOK
<1>5. UnbornNowhere'  BY DEF UnbornNowhere, Filed, InStash, TypeOK
<1>6. BlockedFindable'  BY DEF BlockedFindable, TypeOK, InStash, OneOwner, Filed
<1>7. QED  BY <1>1, <1>2, <1>3, <1>4, <1>5, <1>6, Zenon DEF IInv

LEMMA KillSelfIInv ==
  ASSUME IInv, NEW c \in Cpu, kill_self(c)
  PROVE  IInv'
<1> USE CpuAssumption DEF IInv, kill_self, queueVars
<1>1. TypeOK'  BY Zenon DEF TypeOK, Reason
<1>2. OneOwner'  BY DEF OneOwner, Filed, InStash, UnbornNowhere, TypeOK, CpuInv
<1>3. QueuedReady'  BY Zenon DEF QueuedReady, TypeOK, OneOwner, Filed, InStash, UnbornNowhere
<1>4. CpuInv'  BY DEF CpuInv, TypeOK
<1>5. UnbornNowhere'  BY DEF UnbornNowhere, Filed, InStash, TypeOK
<1>6. BlockedFindable'  BY DEF BlockedFindable, TypeOK, InStash, OneOwner, Filed
<1>7. QED  BY <1>1, <1>2, <1>3, <1>4, <1>5, <1>6, Zenon DEF IInv

LEMMA KillParkedIInv ==
  ASSUME IInv, NEW c \in Cpu, NEW t \in Task, kill_parked(c, t)
  PROVE  IInv'
<1> USE CpuAssumption DEF IInv, kill_parked, Wake, WaitersOf, Sleeping, is_blocked, cpuVars
<1>1. TypeOK'  BY Zenon DEF TypeOK, Reason
<1>2. OneOwner'  BY DEF OneOwner, Filed, InStash, UnbornNowhere, TypeOK, CpuInv
<1>3. QueuedReady'  BY Zenon DEF QueuedReady, TypeOK, OneOwner, Filed, InStash, UnbornNowhere
<1>4. CpuInv'  BY Zenon DEF CpuInv, TypeOK
<1>5. UnbornNowhere'  BY Zenon DEF UnbornNowhere, Filed, InStash, TypeOK
<1>6. BlockedFindable'  BY Zenon DEF BlockedFindable, TypeOK, InStash, OneOwner, Filed
<1>7. QED  BY <1>1, <1>2, <1>3, <1>4, <1>5, <1>6, Zenon DEF IInv

LEMMA WaitReapIInv ==
  ASSUME IInv, NEW c \in Cpu, NEW t \in Task, wait_reap(c, t)
  PROVE  IInv'
<1> USE CpuAssumption DEF IInv, wait_reap, taskVars, cpuVars
<1>1. TypeOK'  BY Zenon DEF TypeOK, Reason
<1>2. OneOwner'  BY DEF OneOwner, Filed, InStash, UnbornNowhere, TypeOK, CpuInv
<1>3. QueuedReady'  BY Zenon DEF QueuedReady, TypeOK, OneOwner, Filed, InStash, UnbornNowhere
<1>4. CpuInv'  BY Zenon DEF CpuInv, TypeOK
<1>5. UnbornNowhere'  BY Zenon DEF UnbornNowhere, Filed, InStash, TypeOK
<1>6. BlockedFindable'  BY Zenon DEF BlockedFindable, TypeOK, InStash, OneOwner, Filed
<1>7. QED  BY <1>1, <1>2, <1>3, <1>4, <1>5, <1>6, Zenon DEF IInv

LEMMA WaitBlockedIInv ==
  ASSUME IInv, NEW c \in Cpu, NEW t \in Task, wait_blocked(c, t)
  PROVE  IInv'
<1> USE CpuAssumption DEF IInv, wait_blocked, taskVars, queueVars
<1>1. TypeOK'  BY Zenon DEF TypeOK, Reason
<1>2. OneOwner'  BY SMTT(30) DEF OneOwner, Filed, InStash, UnbornNowhere, TypeOK, CpuInv
<1>3. QueuedReady'  BY Zenon DEF QueuedReady, TypeOK, OneOwner, Filed, InStash, UnbornNowhere
<1>4. CpuInv'  BY SMTT(30) DEF CpuInv, TypeOK
<1>5. UnbornNowhere'  BY Zenon DEF UnbornNowhere, Filed, InStash, TypeOK
<1>6. BlockedFindable'  BY Zenon DEF BlockedFindable, TypeOK, InStash, OneOwner, Filed
<1>7. QED  BY <1>1, <1>2, <1>3, <1>4, <1>5, <1>6, Zenon DEF IInv

(* Every step of the scheduler preserves the inductive invariant.           *)
LEMMA NextIInv == IInv /\ [Next]_vars => IInv'
<1> SUFFICES ASSUME IInv, [Next]_vars PROVE IInv'
  BY Zenon
<1>1. CASE UNCHANGED vars
  BY <1>1, SMTT(30) DEF IInv, vars, TypeOK, OneOwner, QueuedReady, CpuInv, UnbornNowhere,
     BlockedFindable, Filed, InStash
<1>2. CASE Next
  <2>1. PICK c \in Cpu : \/ CpuStep(c)
                         \/ \E t \in Task : TaskStep(c, t)
                         \/ \E r \in Event : unblock(c, r)
    BY <1>2, Zenon DEF Next
  <2>2. CASE CpuStep(c)
    <3>1. CASE block_current_task_with(c)
      <4>1. pending[c] \in Reason \cup {None} /\ Event \subseteq Reason
        BY Zenon DEF IInv, TypeOK, Reason
      <4>2. QED  BY <3>1, <4>1, BlockIInv, Zenon DEF block_current_task_with
    <3>2. QED
      BY <2>2, <3>1, YieldKeepIInv, YieldSwitchIInv, SwitchContextIInv,
         FinishIInv, ExitIInv, KillSelfIInv, Zenon DEF CpuStep
  <2>3. CASE \E t \in Task : TaskStep(c, t)
    BY <2>3, SpawnIInv, WakeThreadIInv, KillRemoteIInv, KillParkedIInv,
       WaitReapIInv, WaitBlockedIInv, Zenon DEF TaskStep
  <2>4. CASE \E r \in Event : unblock(c, r)
    BY <2>4, UnblockIInv, Zenon
  <2>5. QED  BY <2>1, <2>2, <2>3, <2>4, Zenon
<1>3. QED  BY <1>1, <1>2, Zenon

(* The inductive invariant holds of every behaviour of the scheduler: the   *)
(* place of each task record and stack agrees with where each CPU is in     *)
(* its switch.                                                              *)
THEOREM SpecIInv == Spec => []IInv
BY InitIInv, NextIInv, PTL DEF Spec

(* Every variable of the scheduler keeps its type.                          *)
THEOREM TypeCorrect == Spec => []TypeOK
<1>1. IInv => TypeOK  BY Zenon DEF IInv
<1>2. QED  BY <1>1, SpecIInv, PTL

(* On any number of CPUs a task record is in one container at a time.       *)
THEOREM Ownership == Spec => []OneOwner
<1>1. IInv => OneOwner  BY Zenon DEF IInv
<1>2. QED  BY <1>1, SpecIInv, PTL

(* No kernel stack is executed on by two CPUs, nor by one CPU while its     *)
(* task can be picked, reaped or freed: it is on the stack of its current   *)
(* or of its stashed task, and those have one owner.                        *)
THEOREM StacksSafe == Spec => []StackSafety
<1>1. IInv => StackSafety
  <2> SUFFICES ASSUME IInv PROVE StackSafety
    BY Zenon
  <2> USE CpuAssumption DEF IInv
  <2>1. \A c \in Cpu : \/ stack[c] = c
                       \/ stack[c] \in Task /\ stack[c] = current_task[c]
                       \/ stack[c] \in Task /\ stack[c] = switch_stash[c]
    BY DEF CpuInv, TypeOK
  <2>2. \A c, d \in Cpu : stack[c] = stack[d] => c = d
    BY <2>1, Zenon DEF OneOwner, InStash
  <2>3. \A c \in Cpu : stack[c] \notin Filed
    BY <2>1 DEF OneOwner, Filed, TypeOK
  <2>4. QED  BY <2>2, <2>3, Zenon DEF StackSafety
<1>2. QED  BY <1>1, SpecIInv, PTL

(* Only Ready tasks are queued: enqueue's zombie branch is dead code.       *)
THEOREM OnlyReadyQueued == Spec => []QueuedReady
<1>1. IInv => QueuedReady  BY Zenon DEF IInv
<1>2. QED  BY <1>1, SpecIInv, PTL

(* The expect() on the idle slot in the block and exit paths never fires.   *)
THEOREM IdleAvailable == Spec => []IdleReady
<1>1. IInv => IdleReady
  BY CpuAssumption DEF IInv, CpuInv, IdleReady
<1>2. QED  BY <1>1, SpecIInv, PTL

(* unblock(r) reaches every task that began to block on r, filed or still   *)
(* in mid-switch.                                                           *)
THEOREM WakesReach == Spec => NoLostWake
<1>1. IInv /\ [Next]_vars =>
        [\A c \in Cpu, r \in Event : unblock(c, r) =>
           \A t \in Task \ freed :
             ~(state'[t] = "Blocked" /\ waitOn'[t] = r)]_vars
  BY CpuAssumption DEF IInv, BlockedFindable, unblock, Wake, WaitersOf,
     Sleeping, is_blocked
<1>2. QED  BY <1>1, SpecIInv, PTL DEF Spec, NoLostWake
-----------------------------------------------------------------------------
(***************************************************************************)
(* One CPU: death is final, and no parent is left asleep beside the corpse *)
(* of its child.  With a second CPU both fail, because a task may be       *)
(* killed while it runs and a child may exit between its parent's check    *)
(* and its block.                                                          *)
(***************************************************************************)

\* What sys_wait finds to reap, or comes too late for.
Corpse(t) ==
  t \in dead_tasks \cup freed \/ (t \in blocked_tasks /\ state[t] = "Zombie")

(* A task marked Zombie keeps the CPU only on its way out of kill_task.    *)
OnlyExiting ==
  \A c \in Cpu : current_task[c] \in Task /\ state[current_task[c]] = "Zombie" =>
    pc[c] = "exiting"

(* What sys_wait saw alive is alive when it blocks.                        *)
PendingAlive == \A c \in Cpu : pc[c] = "blocking" => ~Corpse(pending[c])

(* No parent sleeps, filed or still in the stash, for a corpse.            *)
ParentFresh ==
  \A t \in Task : parent[t] # None /\ Sleeping(parent[t]) /\ waitOn[parent[t]] = t =>
    ~Corpse(t)

UpInv == OnlyExiting /\ PendingAlive /\ ParentFresh

(* The one CPU has one current task and one stash.                         *)
LEMMA OneCpu ==
  ASSUME Cpu = {Bsp}
  PROVE  /\ \A c, d \in Cpu : c = d
         /\ \A c \in Cpu : Cpu \ {c} = {}
         /\ \A t : InStash(t) <=> switch_stash[Bsp] = t
BY Zenon DEF InStash

(* At scheduler::init no task exists, let alone a corpse.                  *)
LEMMA InitUpInv == Init => UpInv
<1> SUFFICES ASSUME Init PROVE UpInv
  BY Zenon
<1> USE CpuAssumption DEF Init
<1>1. OnlyExiting  BY Zenon DEF OnlyExiting
<1>2. PendingAlive  BY Zenon DEF PendingAlive
<1>3. ParentFresh  BY Zenon DEF ParentFresh
<1>4. QED  BY <1>1, <1>2, <1>3, Zenon DEF UpInv

(* spawn: the new task was nowhere, and nobody waits for it.               *)
LEMMA SpawnUpInv ==
  ASSUME Cpu = {Bsp}, IInv, UpInv, NEW c \in Cpu, NEW t \in Task, spawn(c, t)
  PROVE  UpInv'
<1> USE CpuAssumption DEF spawn, cpuVars
<1>0. /\ TypeOK /\ OneOwner /\ QueuedReady /\ CpuInv /\ UnbornNowhere /\ BlockedFindable
      /\ OnlyExiting /\ PendingAlive /\ ParentFresh
  BY Zenon DEF IInv, UpInv
<1>1. OnlyExiting'  BY <1>0, Zenon DEF OnlyExiting, TypeOK, UnbornNowhere
<1>2. PendingAlive'  BY <1>0, Zenon DEF PendingAlive, Corpse, TypeOK
<1>3. ParentFresh'
  BY <1>0, SMTT(30) DEF ParentFresh, Corpse, Sleeping, is_blocked, InStash, TypeOK, OneOwner, Filed,
         BlockedFindable, UnbornNowhere
<1>4. QED  BY <1>1, <1>2, <1>3, Zenon DEF UpInv

(* yield_task without a next task moves no task but the idle one.          *)
LEMMA YieldKeepUpInv ==
  ASSUME Cpu = {Bsp}, IInv, UpInv, NEW c \in Cpu, yield_keep(c)
  PROVE  UpInv'
<1> USE CpuAssumption DEF yield_keep, taskVars, queueVars
<1>0. /\ TypeOK /\ OneOwner /\ QueuedReady /\ CpuInv /\ UnbornNowhere /\ BlockedFindable
      /\ OnlyExiting /\ PendingAlive /\ ParentFresh
  BY Zenon DEF IInv, UpInv
<1>1. OnlyExiting'  BY <1>0, Zenon DEF OnlyExiting, TypeOK
<1>2. PendingAlive'  BY <1>0, Zenon DEF PendingAlive, Corpse, TypeOK
<1>3. ParentFresh'
  BY <1>0, SMTT(30) DEF ParentFresh, Corpse, Sleeping, is_blocked, InStash, TypeOK, OneOwner, Filed,
         BlockedFindable
<1>4. QED  BY <1>1, <1>2, <1>3, Zenon DEF UpInv

(* yield_task: the next task was queued, so it is no Zombie.               *)
LEMMA YieldSwitchUpInv ==
  ASSUME Cpu = {Bsp}, IInv, UpInv, NEW c \in Cpu, yield_switch(c)
  PROVE  UpInv'
<1> USE CpuAssumption DEF yield_switch, taskVars
<1>0. /\ TypeOK /\ OneOwner /\ QueuedReady /\ CpuInv /\ UnbornNowhere /\ BlockedFindable
      /\ OnlyExiting /\ PendingAlive /\ ParentFresh
  BY Zenon DEF IInv, UpInv
<1>1. OnlyExiting'  BY <1>0, Zenon DEF OnlyExiting, TypeOK, QueuedReady
<1>2. PendingAlive'  BY <1>0, Zenon DEF PendingAlive, Corpse, TypeOK
<1>3. ParentFresh'
  BY <1>0, SMTT(30) DEF ParentFresh, Corpse, Sleeping, is_blocked, InStash, TypeOK, OneOwner, Filed,
         BlockedFindable
<1>4. QED  BY <1>1, <1>2, <1>3, Zenon DEF UpInv

(* block_current_task_with: what sys_wait chose is still alive.            *)
LEMMA BlockUpInv ==
  ASSUME Cpu = {Bsp}, IInv, UpInv, NEW c \in Cpu, block_current_task_with(c)
  PROVE  UpInv'
<1> USE CpuAssumption DEF block_current_task_with, BlockOn, SwitchAway
<1>0. /\ TypeOK /\ OneOwner /\ QueuedReady /\ CpuInv /\ UnbornNowhere /\ BlockedFindable
      /\ OnlyExiting /\ PendingAlive /\ ParentFresh
  BY Zenon DEF IInv, UpInv
<1>1. OnlyExiting'  BY <1>0, SMTT(30) DEF OnlyExiting, TypeOK, QueuedReady, CpuInv, OneOwner, Filed
<1>2. PendingAlive'  BY <1>0, SMTT(30) DEF PendingAlive, Corpse, TypeOK
<1>3. ParentFresh'
  BY <1>0, SMTT(30) DEF ParentFresh, Corpse, Sleeping, is_blocked, InStash, TypeOK, OneOwner, Filed,
         BlockedFindable, PendingAlive, OnlyExiting
<1>4. QED  BY <1>1, <1>2, <1>3, Zenon DEF UpInv

(* switch_context files nothing.                                           *)
LEMMA SwitchContextUpInv ==
  ASSUME Cpu = {Bsp}, IInv, UpInv, NEW c \in Cpu, switch_context(c)
  PROVE  UpInv'
<1> USE CpuAssumption DEF switch_context, taskVars, queueVars
<1>0. /\ TypeOK /\ OneOwner /\ QueuedReady /\ CpuInv /\ UnbornNowhere /\ BlockedFindable
      /\ OnlyExiting /\ PendingAlive /\ ParentFresh
  BY Zenon DEF IInv, UpInv
<1>1. OnlyExiting'  BY <1>0, Zenon DEF OnlyExiting, TypeOK
<1>2. PendingAlive'  BY <1>0, Zenon DEF PendingAlive, Corpse, TypeOK
<1>3. ParentFresh'
  BY <1>0, SMTT(30) DEF ParentFresh, Corpse, Sleeping, is_blocked, InStash, TypeOK, OneOwner, Filed,
         BlockedFindable
<1>4. QED  BY <1>1, <1>2, <1>3, Zenon DEF UpInv

(* unblock_receivers and its like only take sleepers away.                 *)
LEMMA UnblockUpInv ==
  ASSUME Cpu = {Bsp}, IInv, UpInv, NEW c \in Cpu, NEW r \in Event, unblock(c, r)
  PROVE  UpInv'
<1> USE CpuAssumption DEF unblock, Wake, WaitersOf, cpuVars
<1>0. /\ TypeOK /\ OneOwner /\ QueuedReady /\ CpuInv /\ UnbornNowhere /\ BlockedFindable
      /\ OnlyExiting /\ PendingAlive /\ ParentFresh
  BY Zenon DEF IInv, UpInv
<1>1. OnlyExiting'  BY <1>0, Zenon DEF OnlyExiting, TypeOK
<1>2. PendingAlive'  BY <1>0, Zenon DEF PendingAlive, Corpse, TypeOK
<1>3. ParentFresh'
  BY <1>0, SMTT(30) DEF ParentFresh, Corpse, Sleeping, is_blocked, InStash, TypeOK, OneOwner, Filed,
         BlockedFindable
<1>4. QED  BY <1>1, <1>2, <1>3, Zenon DEF UpInv

(* wake_thread only takes a sleeper away.                                  *)
LEMMA WakeThreadUpInv ==
  ASSUME Cpu = {Bsp}, IInv, UpInv, NEW c \in Cpu, NEW t \in Task, wake_thread(c, t)
  PROVE  UpInv'
<1> USE CpuAssumption DEF wake_thread, Wake, cpuVars
<1>0. /\ TypeOK /\ OneOwner /\ QueuedReady /\ CpuInv /\ UnbornNowhere /\ BlockedFindable
      /\ OnlyExiting /\ PendingAlive /\ ParentFresh
  BY Zenon DEF IInv, UpInv
<1>1. OnlyExiting'  BY <1>0, Zenon DEF OnlyExiting, TypeOK
<1>2. PendingAlive'  BY <1>0, Zenon DEF PendingAlive, Corpse, TypeOK
<1>3. ParentFresh'
  BY <1>0, SMTT(30) DEF ParentFresh, Corpse, Sleeping, is_blocked, InStash, TypeOK, OneOwner, Filed,
         BlockedFindable
<1>4. QED  BY <1>1, <1>2, <1>3, Zenon DEF UpInv

(* exit_current_task: the corpse is in the stash, not yet filed.           *)
LEMMA ExitUpInv ==
  ASSUME Cpu = {Bsp}, IInv, UpInv, NEW c \in Cpu, exit_current_task(c)
  PROVE  UpInv'
<1> USE CpuAssumption DEF exit_current_task, SwitchAway
<1>0. /\ TypeOK /\ OneOwner /\ QueuedReady /\ CpuInv /\ UnbornNowhere /\ BlockedFindable
      /\ OnlyExiting /\ PendingAlive /\ ParentFresh
  BY Zenon DEF IInv, UpInv
<1>1. OnlyExiting'  BY <1>0, SMTT(30) DEF OnlyExiting, TypeOK, QueuedReady, CpuInv, OneOwner, Filed
<1>2. PendingAlive'  BY <1>0, Zenon DEF PendingAlive, Corpse, TypeOK
<1>3. ParentFresh'
  BY <1>0, SMTT(30) DEF ParentFresh, Corpse, Sleeping, is_blocked, InStash, TypeOK, OneOwner, Filed,
         BlockedFindable
<1>4. QED  BY <1>1, <1>2, <1>3, Zenon DEF UpInv

(* kill_task on the caller: marked, and on its way to exit.                *)
LEMMA KillSelfUpInv ==
  ASSUME Cpu = {Bsp}, IInv, UpInv, NEW c \in Cpu, kill_self(c)
  PROVE  UpInv'
<1> USE CpuAssumption DEF kill_self, queueVars
<1>0. /\ TypeOK /\ OneOwner /\ QueuedReady /\ CpuInv /\ UnbornNowhere /\ BlockedFindable
      /\ OnlyExiting /\ PendingAlive /\ ParentFresh
  BY Zenon DEF IInv, UpInv
<1>1. OnlyExiting'  BY <1>0, Zenon DEF OnlyExiting, TypeOK
<1>2. PendingAlive'  BY <1>0, Zenon DEF PendingAlive, Corpse, TypeOK
<1>3. ParentFresh'
  BY <1>0, SMTT(30) DEF ParentFresh, Corpse, Sleeping, is_blocked, InStash, TypeOK, OneOwner, Filed,
         BlockedFindable
<1>4. QED  BY <1>1, <1>2, <1>3, Zenon DEF UpInv

(* kill_task on a parked task wakes whoever waits for it.                  *)
LEMMA KillParkedUpInv ==
  ASSUME Cpu = {Bsp}, IInv, UpInv, NEW c \in Cpu, NEW t \in Task, kill_parked(c, t)
  PROVE  UpInv'
<1> USE CpuAssumption DEF kill_parked, Wake, WaitersOf, cpuVars
<1>0. /\ TypeOK /\ OneOwner /\ QueuedReady /\ CpuInv /\ UnbornNowhere /\ BlockedFindable
      /\ OnlyExiting /\ PendingAlive /\ ParentFresh
  BY Zenon DEF IInv, UpInv
<1>1. OnlyExiting'  BY <1>0, Zenon DEF OnlyExiting, TypeOK
<1>2. PendingAlive'  BY <1>0, Zenon DEF PendingAlive, Corpse, TypeOK
<1>3. ParentFresh'
  BY <1>0, SMTT(30) DEF ParentFresh, Corpse, Sleeping, is_blocked, InStash, TypeOK, OneOwner, Filed,
         BlockedFindable
<1>4. QED  BY <1>1, <1>2, <1>3, Zenon DEF UpInv

(* SYS_WAIT that reaps: the target was a corpse before.                    *)
LEMMA WaitReapUpInv ==
  ASSUME Cpu = {Bsp}, IInv, UpInv, NEW c \in Cpu, NEW t \in Task, wait_reap(c, t)
  PROVE  UpInv'
<1> USE CpuAssumption DEF wait_reap, taskVars, cpuVars
<1>0. /\ TypeOK /\ OneOwner /\ QueuedReady /\ CpuInv /\ UnbornNowhere /\ BlockedFindable
      /\ OnlyExiting /\ PendingAlive /\ ParentFresh
  BY Zenon DEF IInv, UpInv
<1>1. OnlyExiting'  BY <1>0, Zenon DEF OnlyExiting, TypeOK
<1>2. PendingAlive'  BY <1>0, Zenon DEF PendingAlive, Corpse, TypeOK
<1>3. ParentFresh'
  BY <1>0, SMTT(30) DEF ParentFresh, Corpse, Sleeping, is_blocked, InStash, TypeOK, OneOwner, Filed,
         BlockedFindable
<1>4. QED  BY <1>1, <1>2, <1>3, Zenon DEF UpInv

(* SYS_WAIT that goes on to block saw its target alive.                    *)
LEMMA WaitBlockedUpInv ==
  ASSUME Cpu = {Bsp}, IInv, UpInv, NEW c \in Cpu, NEW t \in Task, wait_blocked(c, t)
  PROVE  UpInv'
<1> USE CpuAssumption DEF wait_blocked, taskVars, queueVars
<1>0. /\ TypeOK /\ OneOwner /\ QueuedReady /\ CpuInv /\ UnbornNowhere /\ BlockedFindable
      /\ OnlyExiting /\ PendingAlive /\ ParentFresh
  BY Zenon DEF IInv, UpInv
<1>1. OnlyExiting'  BY <1>0, Zenon DEF OnlyExiting, TypeOK
<1>2. PendingAlive'  BY <1>0, SMTT(30) DEF PendingAlive, Corpse, TypeOK, OneOwner, Filed, QueuedReady
<1>3. ParentFresh'
  BY <1>0, SMTT(30) DEF ParentFresh, Corpse, Sleeping, is_blocked, InStash, TypeOK, OneOwner, Filed,
         BlockedFindable
<1>4. QED  BY <1>1, <1>2, <1>3, Zenon DEF UpInv

(* The only stash is the child's own, so a parent asleep is in             *)
(* blocked_tasks, where parent_alive finds it: the child is filed there    *)
(* and its waiters are woken.                                              *)
LEMMA FinishUpInv ==
  ASSUME Cpu = {Bsp}, IInv, UpInv, NEW c \in Cpu, finish_task_switch(c)
  PROVE  UpInv'
<1> DEFINE t == switch_stash[c]
           Still == UNCHANGED <<state, waitOn>>
           Woken == /\ state' = [u \in Task |-> IF u \in WaitersOf(t) THEN "Ready" ELSE state[u]]
                    /\ waitOn' = [u \in Task |-> IF u \in WaitersOf(t) THEN None ELSE waitOn[u]]
           Dead == t # None /\ state[t] = "Zombie"
<1>1. /\ pc[c] = "finishing" /\ pc' = [pc EXCEPT ![c] = "running"]
      /\ switch_stash' = [switch_stash EXCEPT ![c] = None]
      /\ UNCHANGED <<current_task, pending, parent, freed>>
  BY Zenon DEF finish_task_switch, taskVars, queueVars
<1>2. OnlyExiting /\ ParentFresh /\ TypeOK /\ OneOwner
  BY Zenon DEF IInv, UpInv
<1>3. /\ c = Bsp /\ Cpu \ {c} = {} /\ None \notin Task
      /\ t \in Task \cup {None} /\ t \notin Filed
      /\ \A u : InStash(u) <=> u = t
  BY <1>2, OneCpu, CpuAssumption, Zenon DEF TypeOK, OneOwner
<1>4. \A u \in Task : ~InStash(u)'
  BY <1>1, <1>2, <1>3 DEF InStash, TypeOK
<1>5. \/ /\ Dead /\ parent_alive(c, t) /\ Woken
         /\ blocked_tasks' = (blocked_tasks \cup {t}) \ WaitersOf(t) /\ UNCHANGED dead_tasks
      \/ /\ Dead /\ ~parent_alive(c, t) /\ Still
         /\ dead_tasks' = dead_tasks \cup {t} /\ UNCHANGED blocked_tasks
      \/ /\ ~Dead /\ Still /\ UNCHANGED dead_tasks
         /\ \/ UNCHANGED blocked_tasks
            \/ is_blocked(t) /\ blocked_tasks' = blocked_tasks \cup {t}
  BY Zenon DEF finish_task_switch, taskVars, queueVars, Wake, is_blocked
<1> HIDE DEF t
<1>6. \A u \in Task : state'[u] \in {state[u], "Ready"}
  BY <1>5, Zenon
<1>7. \A u \in Task : Sleeping(u)' => Sleeping(u) /\ waitOn'[u] = waitOn[u]
  BY <1>3, <1>4, <1>5 DEF Sleeping, is_blocked
<1>8. \A u \in Task : Corpse(u)' => Corpse(u) \/ (u = t /\ Dead)
  BY <1>1, <1>5, <1>6, Zenon DEF Corpse, is_blocked
<1>9. Dead => \A p \in Task : p = parent[t] /\ waitOn[p] = t => ~Sleeping(p)'
  <2>1. CASE Woken
    BY <1>7, <2>1, Zenon DEF WaitersOf, Sleeping, is_blocked
  <2>2. CASE Dead /\ ~parent_alive(c, t)
    BY <1>3, <1>7, <2>2, Zenon DEF parent_alive, Sleeping, is_blocked
  <2> QED  BY <1>5, <2>1, <2>2, Zenon
<1>10. OnlyExiting'
  BY <1>1, <1>2, <1>3, <1>6, Zenon DEF OnlyExiting, TypeOK
<1>11. PendingAlive'
  BY <1>1, <1>2, <1>3, Zenon DEF PendingAlive, TypeOK
<1>12. ParentFresh'
  BY <1>1, <1>2, <1>3, <1>7, <1>8, <1>9 DEF ParentFresh, TypeOK
<1> QED  BY <1>10, <1>11, <1>12, Zenon DEF UpInv

(* Every step on the one CPU preserves the invariant; kill_remote, which   *)
(* needs a second one, is none of them.                                    *)
LEMMA NextUpInv ==
  ASSUME Cpu = {Bsp}, IInv, UpInv, [Next]_vars
  PROVE  UpInv'
<1>1. CASE UNCHANGED vars
  <2>1. OnlyExiting /\ PendingAlive /\ ParentFresh
    BY Zenon DEF UpInv
  <2>2. OnlyExiting' /\ PendingAlive'
    BY <1>1, <2>1, Zenon DEF vars, OnlyExiting, PendingAlive, Corpse
  <2>3. ParentFresh'
    BY <1>1, <2>1, Zenon DEF vars, ParentFresh, Corpse, Sleeping, is_blocked, InStash
  <2>4. QED  BY <2>2, <2>3, Zenon DEF UpInv
<1>2. CASE Next
  <2>1. PICK c \in Cpu : \/ CpuStep(c)
                         \/ \E t \in Task : TaskStep(c, t)
                         \/ \E r \in Event : unblock(c, r)
    BY <1>2, Zenon DEF Next
  <2>2. CASE CpuStep(c)
    BY <2>2, YieldKeepUpInv, YieldSwitchUpInv, BlockUpInv, SwitchContextUpInv,
       FinishUpInv, ExitUpInv, KillSelfUpInv, Zenon DEF CpuStep
  <2>3. ASSUME NEW t \in Task, TaskStep(c, t) PROVE UpInv'
    <3>1. ~kill_remote(c, t)
      BY OneCpu, Zenon DEF kill_remote
    <3>2. QED
      BY <2>3, <3>1, SpawnUpInv, WakeThreadUpInv, KillParkedUpInv, WaitReapUpInv,
         WaitBlockedUpInv, Zenon DEF TaskStep
  <2>4. CASE \E r \in Event : unblock(c, r)
    BY <2>4, UnblockUpInv, Zenon
  <2>5. QED  BY <2>1, <2>2, <2>3, <2>4, Zenon
<1>3. QED  BY <1>1, <1>2, Zenon

(* On one CPU no parent sleeps in sys_wait for a child that is a corpse:   *)
(* nothing comes between try_wait_task and block_current_task_with.        *)
THEOREM ParentsNotForgotten ==
  ASSUME Cpu = {Bsp}
  PROVE  Spec => []NoForgottenParent
<1>1. UpInv => NoForgottenParent
  BY Zenon DEF UpInv, ParentFresh, NoForgottenParent, Corpse, Sleeping
<1>2. IInv /\ UpInv /\ [Next]_vars => UpInv'
  BY NextUpInv, Zenon
<1>3. QED  BY <1>1, <1>2, InitUpInv, SpecIInv, PTL DEF Spec

(* On one CPU a task marked Zombie stays one: block_current_task_with,     *)
(* which overwrites the state of the running task, never meets a Zombie.   *)
THEOREM DeathIsFinal ==
  ASSUME Cpu = {Bsp}
  PROVE  Spec => NoResurrection
<1>1. ASSUME IInv, UpInv, [Next]_vars, NEW t \in Task, state[t] = "Zombie"
      PROVE  state'[t] = "Zombie"
  <2>1. CASE UNCHANGED vars
    BY <1>1, <2>1, Zenon DEF vars
  <2>2. CASE Next
    <3>1. PICK c \in Cpu : \/ CpuStep(c)
                           \/ \E u \in Task : TaskStep(c, u)
                           \/ \E r \in Event : unblock(c, r)
      BY <2>2, Zenon DEF Next
    <3>2. state \in [Task -> {"Unborn", "Ready", "Blocked", "Zombie"}]
      BY <1>1, Zenon DEF IInv, TypeOK
    <3>3. ASSUME NEW W, NEW b, Wake(W, state, b), W \subseteq {u \in Task : Sleeping(u)}
          PROVE  state'[t] = "Zombie"
      BY <1>1, <3>3, Zenon DEF Wake, Sleeping, is_blocked
    <3>4. CASE block_current_task_with(c)
      BY <1>1, <3>2, <3>4, CpuAssumption, Zenon DEF block_current_task_with, BlockOn, UpInv, OnlyExiting
    <3>5. CASE finish_task_switch(c)
      <4>1. \/ state' = state
            \/ \E b, r : Wake(WaitersOf(r), state, b)
        BY <3>5, Zenon DEF finish_task_switch, taskVars
      <4>2. QED  BY <1>1, <3>3, <4>1, Zenon DEF WaitersOf
    <3>6. CASE exit_current_task(c) \/ kill_self(c)
      BY <1>1, <3>2, <3>6, Zenon DEF exit_current_task, kill_self
    <3>7. CASE yield_keep(c) \/ yield_switch(c) \/ switch_context(c)
      BY <1>1, <3>7, Zenon DEF yield_keep, yield_switch, switch_context, taskVars
    <3>8. ASSUME NEW u \in Task, TaskStep(c, u) PROVE state'[t] = "Zombie"
      <4>1. CASE spawn(c, u) \/ wait_reap(c, u) \/ wait_blocked(c, u)
        BY <1>1, <3>2, <4>1, Zenon DEF spawn, wait_reap, wait_blocked, taskVars
      <4>2. CASE wake_thread(c, u)
        BY <1>1, <4>2, Zenon DEF wake_thread, Wake, Sleeping, is_blocked
      <4>3. CASE kill_remote(c, u)
        BY <1>1, <3>2, <4>3, Zenon DEF kill_remote
      <4>4. CASE kill_parked(c, u)
        BY <1>1, <3>2, <4>4, Zenon DEF kill_parked, Wake, WaitersOf, Sleeping, is_blocked
      <4>5. QED  BY <3>8, <4>1, <4>2, <4>3, <4>4, Zenon DEF TaskStep
    <3>9. CASE \E r \in Event : unblock(c, r)
      BY <3>3, <3>9, Zenon DEF unblock, WaitersOf
    <3>10. QED  BY <3>1, <3>4, <3>5, <3>6, <3>7, <3>8, <3>9, Zenon DEF CpuStep
  <2>3. QED  BY <1>1, <2>1, <2>2, Zenon
<1>2. IInv /\ UpInv /\ [Next]_vars =>
        [\A t \in Task : state[t] = "Zombie" => state'[t] = "Zombie"]_vars
  BY <1>1, Zenon
<1>3. IInv /\ UpInv /\ [Next]_vars => UpInv'
  BY NextUpInv, Zenon
<1>4. QED  BY <1>2, <1>3, InitUpInv, SpecIInv, PTL DEF Spec, NoResurrection
=============================================================================
