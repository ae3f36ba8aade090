------------------------------- MODULE Sched -------------------------------
(***************************************************************************)
(* Task ownership and the context-switch protocol of the kernel scheduler  *)
(* (kernel/src/scheduler.rs).  Every task record is owned by exactly one   *)
(* of the containers of the global `Scheduler`; a CPU that gives up a task *)
(* parks it in its switch_stash slot, drops the SCHEDULER lock, switches   *)
(* stacks, and only then, on the next task's stack, files the old task     *)
(* where it belongs.  One action is one critical section of SCHEDULER (or  *)
(* the lock-free switch_context between two of them).                      *)
(*                                                                         *)
(* Abstractions.  The per-CPU, per-class run queues are one set: which     *)
(* queued task pick_next returns, from which CPU's queue, is left open     *)
(* (None included: game mode and finished EDF periods make pick_next       *)
(* return None with tasks queued).  The block reasons other than           *)
(* BlockedOnWait are an arbitrary set Event.                               *)
(***************************************************************************)
EXTENDS Naturals, FiniteSets

CONSTANTS
  Cpu,    \* the online CPUs; c also names the idle task made for CPU c
  Bsp,    \* the boot CPU
  Task,   \* ids of the tasks that may be spawned
  Event,  \* what a task can block on besides the exit of another task
  None    \* Option::None

ASSUME CpuAssumption ==
  /\ Bsp \in Cpu
  /\ Cpu \cap Task = {} /\ Cpu \cap Event = {} /\ Task \cap Event = {}
  /\ None \notin Cpu \cup Task \cup Event

VARIABLES
  state,         \* Task.state without its argument; "Unborn" before spawn
  waitOn,        \* the argument of a BlockedOn* state, None otherwise
  parent,        \* Task.parent_id
  current_task,  \* per CPU, None on an AP before its first tick
  switch_stash,  \* per CPU, the outgoing task in mid-switch
  idle_task,     \* per CPU, the slot the idle task is parked in
  idle_ctx,      \* per CPU, what its idle task continues when resumed
  runqueues,     \* the union of all run queues
  blocked_tasks, \* blocked tasks and zombies waiting for a reaper
  dead_tasks,    \* reaped and orphaned corpses waiting to be freed
  freed,         \* tasks dropped: kernel stack and page tables are gone
  reclaimed,     \* tasks reclaim_task_resources was run for
  stack,         \* per CPU, the task whose kernel stack the CPU is on
  pc,            \* per CPU, where it is in the protocol
  pending        \* per CPU, what the system call in progress will block on

vars == <<state, waitOn, parent, current_task, switch_stash, idle_task,
          idle_ctx, runqueues, blocked_tasks, dead_tasks, freed, reclaimed,
          stack, pc, pending>>

taskVars  == <<state, waitOn, parent>>
queueVars == <<runqueues, blocked_tasks, dead_tasks, freed>>
cpuVars   == <<current_task, switch_stash, idle_task, idle_ctx, stack, pc,
               pending>>

Reason == Event \cup Task
-----------------------------------------------------------------------------
(***************************************************************************)
(* scheduler::init: idle0 is the current task of the boot CPU, which is    *)
(* executing the boot sequence; an AP has no current task until its first  *)
(* yield_task and runs on the context its idle task will stand for.  The   *)
(* frame Task::new(idle_thread, ..) made is "fresh" until the CPU's own    *)
(* boot context is saved over it, or until it is resumed.                  *)
(***************************************************************************)
Init ==
  /\ state         = [t \in Task |-> "Unborn"]
  /\ waitOn        = [t \in Task |-> None]
  /\ parent        = [t \in Task |-> None]
  /\ current_task  = [c \in Cpu |-> IF c = Bsp THEN c ELSE None]
  /\ switch_stash  = [c \in Cpu |-> None]
  /\ idle_task     = [c \in Cpu |-> IF c = Bsp THEN None ELSE c]
  /\ idle_ctx      = [c \in Cpu |-> IF c = Bsp THEN "boot" ELSE "fresh"]
  /\ runqueues     = {}
  /\ blocked_tasks = {}
  /\ dead_tasks    = {}
  /\ freed         = {}
  /\ reclaimed     = {}
  /\ stack         = [c \in Cpu |-> c]
  /\ pc            = [c \in Cpu |-> "running"]
  /\ pending       = [c \in Cpu |-> None]

\* Mutant: BlockedOnWait left out of the match.
is_blocked_no_wait(t) == state[t] = "Blocked" /\ waitOn[t] \in Event

\* TaskState::is_blocked
is_blocked(t) == state[t] = "Blocked"

InStash(t) == \E c \in Cpu : switch_stash[c] = t

\* Mutant: a wake path that searches blocked_tasks only.
Sleeping_filed(t) == is_blocked(t) /\ t \in blocked_tasks

\* What a wake path finds: tasks in mid-switch are marked in place, filed
\* ones are moved to a run queue.
Sleeping(t) == is_blocked(t) /\ (InStash(t) \/ t \in blocked_tasks)

WaitersOf(r) == {t \in Task : Sleeping(t) /\ waitOn[t] = r}

\* Mutant: the woken task is enqueued without being removed.
Wake_no_remove(W, st, blocked) ==
  /\ state'  = [t \in Task |-> IF t \in W THEN "Ready" ELSE st[t]]
  /\ waitOn' = [t \in Task |-> IF t \in W THEN None ELSE waitOn[t]]
  /\ blocked_tasks' = blocked

(***************************************************************************)
(* The common body of the wake paths: mark_stash_ready_if for the tasks of *)
(* W in a stash, remove + enqueue for the ones in blocked_tasks.  `st` and *)
(* `blocked` are the values the caller's own assignments left behind.      *)
(***************************************************************************)
Wake(W, st, blocked) ==
  /\ state'  = [t \in Task |-> IF t \in W THEN "Ready" ELSE st[t]]
  /\ waitOn' = [t \in Task |-> IF t \in W THEN None ELSE waitOn[t]]
  /\ blocked_tasks' = blocked \ W
-----------------------------------------------------------------------------
(* spawn: the spawner is the running context of CPU c.                     *)
spawn(c, t) ==
  /\ pc[c] = "running"
  /\ state[t] = "Unborn"
  /\ state' = [state EXCEPT ![t] = "Ready"]
  /\ \E p \in {None} \cup ({current_task[c]} \cap Task) :
       parent' = [parent EXCEPT ![t] = p]
  /\ runqueues' = runqueues \cup {t}
  /\ UNCHANGED <<waitOn, blocked_tasks, dead_tasks, freed, reclaimed, cpuVars>>

(***************************************************************************)
(* The second half of block_current_task_with and exit_current_task: take  *)
(* pick_next's answer, or else the idle task, and leave with the lock      *)
(* dropped but the old stack still in use.  `expect` panics when the idle  *)
(* slot is empty; IdleReady shows that it never is.                        *)
(***************************************************************************)
SwitchAway(c) ==
  /\ switch_stash' = [switch_stash EXCEPT ![c] = current_task[c]]
  /\ \/ \E n \in runqueues :
          /\ current_task' = [current_task EXCEPT ![c] = n]
          /\ runqueues' = runqueues \ {n}
          /\ UNCHANGED <<idle_task, idle_ctx>>
     \/ /\ idle_task[c] # None
        /\ current_task' = [current_task EXCEPT ![c] = idle_task[c]]
        /\ idle_task' = [idle_task EXCEPT ![c] = None]
        /\ idle_ctx' = [idle_ctx EXCEPT
                           ![c] = IF @ = "fresh" THEN "idle_thread" ELSE @]
        /\ UNCHANGED runqueues
  /\ pc' = [pc EXCEPT ![c] = "switching"]
  /\ pending' = [pending EXCEPT ![c] = None]
  /\ UNCHANGED stack

(***************************************************************************)
(* yield_task: pick_next found nothing and the CPU keeps what it runs.  On *)
(* an AP's first tick that is its idle task, taken out of its slot.  The   *)
(* branches for next.id = current_id and for an insane saved stack pointer *)
(* are dead: OneOwner and StackSafety hold for every queued task.          *)
(***************************************************************************)
yield_keep(c) ==
  /\ pc[c] = "running"
  /\ current_task' = [current_task EXCEPT ![c] = IF @ = None THEN c ELSE @]
  /\ idle_task' = [idle_task EXCEPT ![c] = IF current_task[c] = None
                                           THEN None ELSE @]
  /\ idle_ctx' = [idle_ctx EXCEPT ![c] = IF current_task[c] = None
                                         THEN "boot" ELSE @]
  /\ UNCHANGED <<taskVars, queueVars, reclaimed, switch_stash, stack, pc,
                 pending>>

\* Mutant: the outgoing task is re-queued before its stack is left.
yield_switch_requeue(c) ==
  /\ pc[c] = "running"
  /\ \E n \in runqueues :
       /\ current_task' = [current_task EXCEPT ![c] = n]
       /\ runqueues' = (runqueues \ {n}) \cup ({current_task[c]} \cap Task)
  /\ idle_task' = [idle_task EXCEPT ![c] = c]
  /\ pc' = [pc EXCEPT ![c] = "switching"]
  /\ UNCHANGED <<taskVars, blocked_tasks, dead_tasks, freed, reclaimed, stack,
                 pending, switch_stash, idle_ctx>>

\* Mutant: the idle task is stashed like any other.
yield_switch_stash_idle(c) ==
  /\ pc[c] = "running"
  /\ \E n \in runqueues :
       /\ current_task' = [current_task EXCEPT ![c] = n]
       /\ runqueues' = runqueues \ {n}
  /\ switch_stash' = [switch_stash EXCEPT ![c] = current_task[c]]
  /\ pc' = [pc EXCEPT ![c] = "switching"]
  /\ UNCHANGED <<taskVars, blocked_tasks, dead_tasks, freed, reclaimed, stack,
                 pending, idle_task, idle_ctx>>

\* Mutant: the idle task is not put back into its slot.
yield_switch_drop_idle(c) ==
  /\ pc[c] = "running"
  /\ \E n \in runqueues :
       /\ current_task' = [current_task EXCEPT ![c] = n]
       /\ runqueues' = runqueues \ {n}
  /\ switch_stash' = [switch_stash EXCEPT ![c] = IF current_task[c] \in Task
                                                 THEN current_task[c] ELSE None]
  /\ pc' = [pc EXCEPT ![c] = "switching"]
  /\ UNCHANGED <<taskVars, blocked_tasks, dead_tasks, freed, reclaimed, stack,
                 pending, idle_task, idle_ctx>>

(* yield_task with a next task: the idle task goes back to its own slot,   *)
(* any other outgoing task to the stash.                                   *)
yield_switch(c) ==
  /\ pc[c] = "running"
  /\ \E n \in runqueues :
       /\ current_task' = [current_task EXCEPT ![c] = n]
       /\ runqueues' = runqueues \ {n}
  /\ IF current_task[c] \in Task
     THEN /\ switch_stash' = [switch_stash EXCEPT ![c] = current_task[c]]
          /\ UNCHANGED <<idle_task, idle_ctx>>
     ELSE /\ idle_task' = [idle_task EXCEPT ![c] = c]
          /\ idle_ctx' = [idle_ctx EXCEPT
                             ![c] = IF @ = "fresh" THEN "boot" ELSE @]
          /\ UNCHANGED switch_stash
  /\ pc' = [pc EXCEPT ![c] = "switching"]
  /\ UNCHANGED <<taskVars, blocked_tasks, dead_tasks, freed, reclaimed, stack,
                 pending>>

(***************************************************************************)
(* block_current_task_with: the state is overwritten whatever it was.  A   *)
(* system call that decided earlier what to block on (pc "blocking")       *)
(* arrives here in a critical section of its own.                          *)
(***************************************************************************)
BlockOn(c, r) ==
  /\ current_task[c] \in Task
  /\ state' = [state EXCEPT ![current_task[c]] = "Blocked"]
  /\ waitOn' = [waitOn EXCEPT ![current_task[c]] = r]
  /\ SwitchAway(c)
  /\ UNCHANGED <<parent, blocked_tasks, dead_tasks, freed, reclaimed>>

block_current_task_with(c) ==
  \/ pc[c] = "blocking" /\ BlockOn(c, pending[c])
  \/ pc[c] = "running" /\ \E r \in Event : BlockOn(c, r)

(* switch_context: from here on the CPU executes on the next task's stack. *)
switch_context(c) ==
  /\ pc[c] = "switching"
  /\ stack' = [stack EXCEPT ![c] = current_task[c]]
  /\ pc' = [pc EXCEPT ![c] = "finishing"]
  /\ UNCHANGED <<taskVars, queueVars, reclaimed, current_task, switch_stash,
                 idle_task, idle_ctx, pending>>

\* Mutant: a blocked parent is not looked for.
parent_alive_not_blocked(c, t) ==
  LET p == parent[t] IN
  /\ p # None
  /\ \/ \E d \in Cpu : current_task[d] = p
     \/ \E d \in Cpu \ {c} : switch_stash[d] = p /\ state[p] # "Zombie"
     \/ p \in runqueues

(* The liveness test finish_task_switch applies to a zombie's parent; its  *)
(* own stash slot has been emptied by then.                                *)
parent_alive(c, t) ==
  LET p == parent[t] IN
  /\ p # None
  /\ \/ \E d \in Cpu : current_task[d] = p
     \/ p \in blocked_tasks
     \/ \E d \in Cpu \ {c} : switch_stash[d] = p /\ state[p] # "Zombie"
     \/ p \in runqueues

(***************************************************************************)
(* finish_task_switch, on the incoming task's stack: file the outgoing     *)
(* task according to the state it has by now.                              *)
(***************************************************************************)
finish_task_switch(c) ==
  LET t == switch_stash[c] IN
  /\ pc[c] = "finishing"
  /\ pc' = [pc EXCEPT ![c] = "running"]
  /\ switch_stash' = [switch_stash EXCEPT ![c] = None]
  /\ \/ /\ t = None
        /\ UNCHANGED <<taskVars, queueVars>>
     \/ /\ t # None /\ state[t] = "Zombie" /\ parent_alive(c, t)
        /\ LET W == WaitersOf(t) IN
           /\ Wake(W, state, blocked_tasks \cup {t})
           /\ runqueues' = runqueues \cup (W \cap blocked_tasks)
        /\ UNCHANGED <<parent, dead_tasks, freed>>
     \/ /\ t # None /\ state[t] = "Zombie" /\ ~parent_alive(c, t)
        /\ dead_tasks' = dead_tasks \cup {t}
        /\ UNCHANGED <<taskVars, runqueues, blocked_tasks, freed>>
     \/ /\ t # None /\ is_blocked(t)
        /\ blocked_tasks' = blocked_tasks \cup {t}
        /\ UNCHANGED <<taskVars, runqueues, dead_tasks, freed>>
     \/ /\ t # None /\ state[t] # "Zombie" /\ ~is_blocked(t)
        /\ runqueues' = runqueues \cup {t}
        /\ UNCHANGED <<taskVars, blocked_tasks, dead_tasks, freed>>
  /\ UNCHANGED <<reclaimed, current_task, idle_task, idle_ctx, stack, pending>>
-----------------------------------------------------------------------------
(* unblock_receivers, unblock_senders, unblock_irq_waiters.                *)
unblock(c, r) ==
  LET W == WaitersOf(r) IN
  /\ pc[c] = "running"
  /\ Wake(W, state, blocked_tasks)
  /\ runqueues' = runqueues \cup (W \cap blocked_tasks)
  /\ UNCHANGED <<parent, dead_tasks, freed, reclaimed, cpuVars>>

\* Mutant: whatever blocked_tasks holds under the id is made Ready.
wake_thread_any(c, t) ==
  LET W == {t} \cap (blocked_tasks \cup {p \in Task : Sleeping(p)}) IN
  /\ pc[c] = "running"
  /\ Wake(W, state, blocked_tasks)
  /\ runqueues' = runqueues \cup (W \cap blocked_tasks)
  /\ UNCHANGED <<parent, dead_tasks, freed, reclaimed, cpuVars>>

(* wake_thread, unblock_futex_waiter: by task id, whatever it waits for.   *)
wake_thread(c, t) ==
  LET W == {t} \cap {p \in Task : Sleeping(p)} IN
  /\ pc[c] = "running"
  /\ Wake(W, state, blocked_tasks)
  /\ runqueues' = runqueues \cup (W \cap blocked_tasks)
  /\ UNCHANGED <<parent, dead_tasks, freed, reclaimed, cpuVars>>

(***************************************************************************)
(* exit_current_task, called by the running task (SYS_EXIT, a kernel       *)
(* thread's return) or by kill_task for the caller itself.                 *)
(***************************************************************************)
exit_current_task(c) ==
  /\ pc[c] \in {"running", "exiting"}
  /\ current_task[c] \in Task
  /\ state' = [state EXCEPT ![current_task[c]] = "Zombie"]
  /\ waitOn' = [waitOn EXCEPT ![current_task[c]] = None]
  /\ reclaimed' = reclaimed \cup {current_task[c]}
  /\ SwitchAway(c)
  /\ UNCHANGED <<parent, blocked_tasks, dead_tasks, freed>>

(* kill_task, the victim runs on another CPU: it is marked and its         *)
(* resources are taken, and its CPU goes on running it.                    *)
kill_remote(c, t) ==
  LET W == WaitersOf(t) IN
  /\ pc[c] = "running" /\ current_task[c] \in Task
  /\ \E d \in Cpu \ {c} : current_task[d] = t
  /\ Wake(W, [state EXCEPT ![t] = "Zombie"], blocked_tasks)
  /\ runqueues' = runqueues \cup (W \cap blocked_tasks)
  /\ reclaimed' = reclaimed \cup {t}
  /\ UNCHANGED <<parent, dead_tasks, freed, cpuVars>>

(* kill_task, the victim is the caller: exit_current_task follows in a     *)
(* critical section of its own.                                            *)
kill_self(c) ==
  /\ pc[c] = "running"
  /\ current_task[c] \in Task
  /\ state' = [state EXCEPT ![current_task[c]] = "Zombie"]
  /\ waitOn' = [waitOn EXCEPT ![current_task[c]] = None]
  /\ reclaimed' = reclaimed \cup {current_task[c]}
  /\ pc' = [pc EXCEPT ![c] = "exiting"]
  /\ UNCHANGED <<parent, queueVars, current_task, switch_stash, idle_task,
                 idle_ctx, stack, pending>>

\* Mutant: the parents in sys_wait are not woken.
kill_parked_no_wake(c, t) ==
  /\ pc[c] = "running" /\ current_task[c] \in Task
  /\ \A d \in Cpu : current_task[d] # t
  /\ t \in runqueues \cup blocked_tasks
  /\ runqueues' = runqueues \ {t}
  /\ blocked_tasks' = blocked_tasks \ {t}
  /\ freed' = freed \cup {t}
  /\ reclaimed' = reclaimed \cup {t}
  /\ UNCHANGED <<taskVars, dead_tasks, cpuVars>>

(* kill_task, the victim is queued or blocked: it is dropped on the spot.  *)
(* A victim in a stash is not searched for, and the call fails.            *)
kill_parked(c, t) ==
  LET W == WaitersOf(t) \ {t} IN
  /\ pc[c] = "running" /\ current_task[c] \in Task
  /\ \A d \in Cpu : current_task[d] # t
  /\ t \in runqueues \cup blocked_tasks
  /\ Wake(W, state, blocked_tasks \ {t})
  /\ runqueues' = (runqueues \ {t}) \cup (W \cap blocked_tasks)
  /\ freed' = freed \cup {t}
  /\ reclaimed' = reclaimed \cup {t}
  /\ UNCHANGED <<parent, dead_tasks, cpuVars>>

(***************************************************************************)
(* SYS_WAIT: try_wait_task reaps a zombie at once; on a live target the    *)
(* system call goes on to block in a second critical section.  NotFound    *)
(* changes nothing.  Nothing asks that the caller be the parent.           *)
(***************************************************************************)
wait_reap(c, t) ==
  /\ pc[c] = "running" /\ current_task[c] \in Task
  /\ t \in blocked_tasks /\ state[t] = "Zombie"
  /\ blocked_tasks' = blocked_tasks \ {t}
  /\ dead_tasks' = dead_tasks \cup {t}
  /\ UNCHANGED <<taskVars, runqueues, freed, reclaimed, cpuVars>>

wait_blocked(c, t) ==
  /\ pc[c] = "running" /\ current_task[c] \in Task
  /\ \/ t \in blocked_tasks /\ state[t] # "Zombie"
     \/ \E d \in Cpu : current_task[d] = t \/ switch_stash[d] = t
     \/ t \in runqueues
  /\ pc' = [pc EXCEPT ![c] = "blocking"]
  /\ pending' = [pending EXCEPT ![c] = t]
  /\ UNCHANGED <<taskVars, queueVars, reclaimed, current_task, switch_stash,
                 idle_task, idle_ctx, stack>>

(* drain_dead_tasks, one corpse: dropped by a CPU whose idle task executes *)
(* idle_thread, its only caller.                                           *)
drain_dead_tasks(c, t) ==
  /\ pc[c] = "running" /\ current_task[c] = c /\ idle_ctx[c] = "idle_thread"
  /\ t \in dead_tasks
  /\ dead_tasks' = dead_tasks \ {t}
  /\ freed' = freed \cup {t}
  /\ UNCHANGED <<taskVars, runqueues, blocked_tasks, reclaimed, cpuVars>>
-----------------------------------------------------------------------------
CpuStep(c) ==
  \/ yield_keep(c)
  \/ yield_switch(c)
  \/ block_current_task_with(c)
  \/ switch_context(c)
  \/ finish_task_switch(c)
  \/ exit_current_task(c)
  \/ kill_self(c)

TaskStep(c, t) ==
  \/ spawn(c, t)
  \/ wake_thread(c, t)
  \/ kill_remote(c, t)
  \/ kill_parked(c, t)
  \/ wait_reap(c, t)
  \/ wait_blocked(c, t)

Next ==
  \E c \in Cpu :
    \/ CpuStep(c)
    \/ \E t \in Task : TaskStep(c, t)
    \/ \E r \in Event : unblock(c, r)

Spec == Init /\ [][Next]_vars

(***************************************************************************)
(* Fairness: a CPU with interrupts off inside the protocol finishes it     *)
(* (the SCHEDULER spin lock is free between actions), and the periodic     *)
(* LAPIC timer makes a CPU outside it call yield_task.                     *)
(***************************************************************************)
Fairness ==
  \A c \in Cpu :
    /\ WF_vars(switch_context(c))
    /\ WF_vars(finish_task_switch(c))
    /\ WF_vars(pc[c] = "blocking" /\ block_current_task_with(c))
    /\ WF_vars(pc[c] = "exiting" /\ exit_current_task(c))
    /\ WF_vars(yield_keep(c) \/ yield_switch(c))

FairSpec == Spec /\ Fairness

\* As FairSpec, and a CPU that keeps finding a queued task at its ticks
\* switches to one of them.
KillSpec == FairSpec /\ \A c \in Cpu : SF_vars(yield_switch(c))

\* The same system with the corpse drain of the idle thread, run fairly.
DrainSpec ==
  /\ Init
  /\ [][Next \/ \E c \in Cpu, t \in Task : drain_dead_tasks(c, t)]_vars
  /\ Fairness
  /\ \A c \in Cpu, t \in Task : WF_vars(drain_dead_tasks(c, t))
-----------------------------------------------------------------------------
TypeOK ==
  /\ state \in [Task -> {"Unborn", "Ready", "Blocked", "Zombie"}]
  /\ waitOn \in [Task -> Reason \cup {None}]
  /\ parent \in [Task -> Task \cup {None}]
  /\ current_task \in [Cpu -> Task \cup Cpu \cup {None}]
  /\ switch_stash \in [Cpu -> Task \cup {None}]
  /\ idle_task \in [Cpu -> Cpu \cup {None}]
  /\ idle_ctx \in [Cpu -> {"fresh", "boot", "idle_thread"}]
  /\ runqueues \subseteq Task
  /\ blocked_tasks \subseteq Task
  /\ dead_tasks \subseteq Task
  /\ freed \subseteq Task
  /\ reclaimed \subseteq Task
  /\ stack \in [Cpu -> Task \cup Cpu]
  /\ pc \in [Cpu -> {"running", "blocking", "exiting", "switching",
                     "finishing"}]
  /\ pending \in [Cpu -> Reason \cup {None}]

(***************************************************************************)
(* A task record is in one container at a time: what the running-elsewhere *)
(* and in-transit filters of pick_next's stealing scan defend against      *)
(* never happens.                                                          *)
(***************************************************************************)
Filed == runqueues \cup blocked_tasks \cup dead_tasks \cup freed

OneOwner ==
  /\ runqueues \cap (blocked_tasks \cup dead_tasks \cup freed) = {}
  /\ blocked_tasks \cap (dead_tasks \cup freed) = {}
  /\ dead_tasks \cap freed = {}
  /\ \A c \in Cpu :
       /\ {current_task[c], switch_stash[c]} \cap Filed = {}
       /\ current_task[c] \in Task => ~InStash(current_task[c])
  /\ \A c, d \in Cpu : c # d =>
       /\ current_task[c] \in Task => current_task[c] # current_task[d]
       /\ switch_stash[c] \in Task => switch_stash[c] # switch_stash[d]

(***************************************************************************)
(* The context-switch hazard the stash exists for: no two CPUs execute on  *)
(* one kernel stack, and a stack in use belongs to no task that another    *)
(* CPU could pick, reap or free.                                           *)
(***************************************************************************)
StackSafety ==
  /\ \A c, d \in Cpu : stack[c] = stack[d] => c = d
  /\ \A c \in Cpu : stack[c] \notin Filed

(***************************************************************************)
(* "Last-line defense: a Zombie must NEVER reach a runqueue": whatever is  *)
(* queued is Ready, so enqueue's zombie branch is never taken.             *)
(***************************************************************************)
QueuedReady == \A t \in runqueues : state[t] = "Ready"

(***************************************************************************)
(* A task that blocks or exits finds its CPU's idle task in the slot: the  *)
(* expect("No ready tasks and no idle task!") cannot fire, and the stash   *)
(* it is about to overwrite is empty.                                      *)
(***************************************************************************)
IdleReady ==
  \A c \in Cpu : pc[c] \in {"running", "blocking", "exiting"} =>
    /\ switch_stash[c] = None
    /\ current_task[c] \in Task => idle_task[c] # None

(***************************************************************************)
(* No wakeup is lost in the window between the stash and blocked_tasks:    *)
(* after unblock(r) no task that had begun to block on r is still asleep.  *)
(***************************************************************************)
NoLostWake ==
  [][\A c \in Cpu, r \in Event : unblock(c, r) =>
       \A t \in Task \ freed : ~(state'[t] = "Blocked" /\ waitOn'[t] = r)]_vars

(***************************************************************************)
(* No parent sleeps for a child that is already a corpse: sys_wait's check *)
(* and its blocking leave no gap.                                          *)
(***************************************************************************)
NoForgottenParent ==
  \A t \in Task :
    /\ parent[t] # None /\ is_blocked(parent[t]) /\ waitOn[parent[t]] = t
    /\ parent[t] \in blocked_tasks
    => t \notin dead_tasks \cup freed /\ ~(t \in blocked_tasks
                                           /\ state[t] = "Zombie")

(***************************************************************************)
(* The same for any caller of sys_wait, parent of the target or not.       *)
(***************************************************************************)
NoForgottenWaiter ==
  \A p \in blocked_tasks :
    is_blocked(p) => waitOn[p] \notin dead_tasks \cup freed

(***************************************************************************)
(* Death is final: a task marked Zombie is never Ready or Blocked again.   *)
(***************************************************************************)
NoResurrection ==
  [][\A t \in Task : state[t] = "Zombie" => state'[t] = "Zombie"]_vars

(***************************************************************************)
(* A parent asleep in sys_wait when its child leaves the CPU is woken by   *)
(* the finish_task_switch that files the child.                            *)
(***************************************************************************)
ParentWoken ==
  \A p, t \in Task :
    (Sleeping(p) /\ waitOn[p] = t /\ parent[t] = p
      /\ InStash(t) /\ state[t] = "Zombie") ~> ~Sleeping(p)

(***************************************************************************)
(* SYS_KILL ends a task: a CPU does not keep running a killed one.         *)
(***************************************************************************)
KilledStops ==
  \A t \in Task, c \in Cpu :
    (state[t] = "Zombie" /\ current_task[c] = t) ~> current_task[c] # t

(***************************************************************************)
(* The idle thread frees the corpses of dead_tasks: one queued there is    *)
(* dropped unless some CPU finds a task to run.                            *)
(***************************************************************************)
CorpseFreed ==
  \A t \in Task :
    t \in dead_tasks ~>
      (t \in freed \/ \E c \in Cpu : current_task[c] \in Task)
=============================================================================
