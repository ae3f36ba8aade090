-------------------------------- MODULE Pick --------------------------------
(***************************************************************************)
(* Who runs next on a CPU: the three classes of scheduler.rs, deadline     *)
(* tasks in the order of their deadlines, Game tasks in turn, Normal tasks *)
(* by vruntime, with the guard that keeps deadline tasks from starving     *)
(* Normal ones and the throttle of game mode.                              *)
(*                                                                         *)
(* One CPU after boot, so nothing is stolen; a switch is one step, since   *)
(* interrupts are off from pick_next to finish_task_switch (module Sched   *)
(* has its parts).  Time is kept relative to now: a deadline task has the  *)
(* time since its last wake and whether it has finished since.  A period   *)
(* is taken never to start in the microsecond its task finished.           *)
(***************************************************************************)
EXTENDS Integers, SequencesExt

CONSTANTS
  Task,                 \* the tasks, all spawned at run time
  Games,                \* those created with priority Game
  Deadlined,            \* those of them created with a deadline
  period_us, deadline_us,   \* the parameters of a task's DeadlineTask
  DL_STARVATION_LIMIT,
  THROTTLE_RATIO,
  MAX_VRUNTIME,         \* where saturating_add stops
  MaxAge,               \* older wakes are not told apart
  MaxCredit,            \* nor are larger background budgets
  Movable,              \* tasks whose class may be changed
  MaxChange,            \* how often that happens in a behaviour
  None

Record == [age : 0..MaxAge, done : BOOLEAN]

\* A wake is no longer told apart when its deadline has passed that of any task
\* whose period is running.
ASSUME PickAssumption ==
  /\ Deadlined \subseteq Games /\ Games \subseteq Task
  /\ Movable \subseteq Task
  /\ MaxAge \in Nat
  /\ period_us \in [Task -> Nat \ {0}] /\ deadline_us \in [Task -> Nat]
  /\ \A t, u \in Task : deadline_us[t] + period_us[u] <= MaxAge
  /\ None \notin Task \cup Record
  /\ {DL_STARVATION_LIMIT, THROTTLE_RATIO} \subseteq Nat \ {0}
  /\ {MAX_VRUNTIME, MaxCredit, MaxChange} \subseteq Nat

VARIABLES
  current,     \* the task on the CPU, None for the idle task
  rq,          \* Runqueue: the sequences deadline, game and normal
  blocked,     \* blocked_tasks
  unborn,      \* not spawned yet
  priority,    \* Task -> {"Game", "Normal"}
  deadline,    \* Task -> None or [age, done]
  vruntime,
  game_mode,   \* [active, phase, credit]: game_ticks % THROTTLE_RATIO, and
               \* bg_ticks_allowed - bg_ticks_used
  streak,      \* dl_starve_streak
  changes      \* changes of class so far

vars == <<current, rq, blocked, unborn, priority, deadline, vruntime,
          game_mode, streak, changes>>

Init ==
  /\ current = None
  /\ rq = [deadline |-> <<>>, game |-> <<>>, normal |-> <<>>]
  /\ blocked = {} /\ unborn = Task
  /\ priority = [t \in Task |-> IF t \in Games THEN "Game" ELSE "Normal"]
  /\ deadline = [t \in Task |-> None]
  /\ vruntime = [t \in Task |-> 0]
  /\ game_mode = [active |-> FALSE, phase |-> 0, credit |-> 0]
  /\ streak = 0 /\ changes = 0
-----------------------------------------------------------------------------
(* DeadlineTask                                                            *)
wake(d) == [d EXCEPT !.age = 0, !.done = FALSE]
finish(d) == [d EXCEPT !.done = TRUE]
needs_new_period(t, d) == d[t].age >= period_us[t]

\* Mutant: that a new period has begun is not noticed.
Runnable_unfinished(t, d) == d[t] = None \/ ~d[t].done

Runnable(t, d) == d[t] = None \/ needs_new_period(t, d) \/ ~d[t].done

\* absolute_deadline, relative to now.
absolute_deadline(t, d) == deadline_us[t] - d[t].age

\* The position(...) / insert(i) / push_back of the sorted insertions.
InsertBefore(q, t, Later(_)) ==
  LET i == SelectInSeq(q, Later) IN
  IF i = 0 THEN Append(q, t) ELSE InsertAt(q, i, t)

insert_deadline_sorted(q, t, d) ==
  InsertBefore(q, t, LAMBDA u : d[u] = None
                       \/ absolute_deadline(u, d) > absolute_deadline(t, d))

\* Mutant: the task joins at the end, as in the Game queue.
insert_normal_sorted_last(q, t, v) == Append(q, t)

insert_normal_sorted(q, t, v) == InsertBefore(q, t, LAMBDA u : v[u] > v[t])

\* The queues after task t has joined the one of its class.
enqueue(q, t, d, v) ==
  IF priority[t] = "Game" /\ d[t] # None
  THEN [q EXCEPT !.deadline = insert_deadline_sorted(@, t, d)]
  ELSE IF priority[t] = "Game"
  THEN [q EXCEPT !.game = Append(@, t)]
  ELSE [q EXCEPT !.normal = insert_normal_sorted(@, t, v)]

\* GameModeState::tick
tick(g) ==
  IF ~g.active THEN g
  ELSE [g EXCEPT !.phase = (@ + 1) % THROTTLE_RATIO,
                 !.credit = IF g.phase + 1 = THROTTLE_RATIO /\ @ < MaxCredit
                            THEN @ + 1 ELSE @]
can_run_background(g) == ~g.active \/ g.credit > 0
charge_background(g) == IF g.active THEN [g EXCEPT !.credit = @ - 1] ELSE g

\* Mutant: the guard trips one pick too late.
force_normal_late == rq.normal # <<>> /\ streak > DL_STARVATION_LIMIT

force_normal == rq.normal # <<>> /\ streak >= DL_STARVATION_LIMIT

\* Mutant: every pick clears the streak.
starve_streak_cleared == 0

\* dl_starve_streak after a deadline task is picked.
starve_streak == IF rq.normal # <<>> THEN streak + 1 ELSE 0

\* What pick_next returns and leaves behind, from deadline records d and game
\* mode g.
pick_next(d, g) ==
  LET i == IF force_normal THEN 0
           ELSE SelectInSeq(rq.deadline, LAMBDA t : Runnable(t, d))
      none == [task |-> None, rq |-> rq, dl |-> d, gm |-> g,
               streak |-> IF force_normal THEN 0 ELSE streak]
  IN IF i # 0
     THEN LET t == rq.deadline[i] IN
          [none EXCEPT !.task = t,
             !.rq.deadline = RemoveAt(@, i),
             !.dl = IF d[t] # None /\ needs_new_period(t, d)
                    THEN [d EXCEPT ![t] = wake(@)] ELSE d,
             !.streak = starve_streak]
     ELSE IF rq.game # <<>>
     THEN [none EXCEPT !.task = Head(rq.game),
             !.rq.game = Tail(@), !.streak = 0]
     ELSE IF can_run_background(g) /\ rq.normal # <<>>
     THEN [none EXCEPT !.task = Head(rq.normal),
             !.rq.normal = Tail(@), !.gm = charge_background(g), !.streak = 0]
     ELSE none
-----------------------------------------------------------------------------
\* yield_task, from the timer or by choice.  Without a next task the current
\* one stays; otherwise finish_task_switch queues it again.
yield_task ==
  LET t == current
      d == IF t # None /\ deadline[t] # None
           THEN [deadline EXCEPT ![t] = finish(@)] ELSE deadline
      v == IF t # None /\ priority[t] = "Normal" /\ vruntime[t] < MAX_VRUNTIME
           THEN [vruntime EXCEPT ![t] = @ + 1] ELSE vruntime
  IN \E n \in {pick_next(d, tick(game_mode))} :
     /\ deadline' = n.dl /\ vruntime' = v
     /\ game_mode' = n.gm /\ streak' = n.streak
     /\ current' = IF n.task = None THEN t ELSE n.task
     /\ rq' = IF n.task = None \/ t = None THEN n.rq
              ELSE enqueue(n.rq, t, n.dl, v)
     /\ UNCHANGED <<blocked, unborn, priority, changes>>

\* The current task leaves the CPU until it is woken, or for good: neither its
\* period nor its vruntime is accounted for.
switch_away(n, d) ==
  /\ current' = n.task /\ rq' = n.rq
  /\ deadline' = d /\ game_mode' = n.gm /\ streak' = n.streak
  /\ UNCHANGED <<unborn, priority, vruntime, changes>>

block_current_task ==
  /\ current # None
  /\ \E n \in {pick_next(deadline, game_mode)} : switch_away(n, n.dl)
  /\ blocked' = blocked \cup {current}

exit_current_task ==
  /\ current # None
  /\ \E n \in {pick_next(deadline, game_mode)} :
       switch_away(n, [n.dl EXCEPT ![current] = None])
  /\ UNCHANGED blocked

unblock(t) ==
  /\ t \in blocked
  /\ blocked' = blocked \ {t}
  /\ rq' = enqueue(rq, t, deadline, vruntime)
  /\ UNCHANGED <<current, unborn, priority, deadline, vruntime, game_mode,
                 streak, changes>>

\* vruntime starts at min_vruntime, which nothing ever raises above 0.
spawn(t) ==
  LET d == [deadline EXCEPT ![t] = IF t \in Deadlined
              THEN [age |-> 0, done |-> FALSE] ELSE None] IN
  /\ t \in unborn
  /\ unborn' = unborn \ {t}
  /\ deadline' = d
  /\ rq' = enqueue(rq, t, d, vruntime)
  /\ UNCHANGED <<current, blocked, priority, vruntime, game_mode, streak,
                 changes>>

Queued == {Range(rq[c]) : c \in DOMAIN rq}

\* Where the task is queued does not change.
Change(t) ==
  /\ t \in Movable \cap (blocked \cup {current} \cup UNION Queued)
  /\ changes < MaxChange /\ changes' = changes + 1
  /\ UNCHANGED <<current, rq, blocked, unborn, vruntime, game_mode, streak>>

set_priority(t, p) ==
  /\ Change(t)
  /\ priority' = [priority EXCEPT ![t] = p]
  /\ UNCHANGED deadline

\* configure_compositor_deadline and configure_audio_deadline: last_wake is 0,
\* so a period is due at once.
configure_deadline(t) ==
  /\ Change(t)
  /\ priority' = [priority EXCEPT ![t] = "Game"]
  /\ deadline' = [deadline EXCEPT ![t] = [age |-> MaxAge, done |-> TRUE]]

enter_game_mode ==
  /\ game_mode' = [active |-> TRUE, phase |-> 0, credit |-> 0]
  /\ UNCHANGED <<current, rq, blocked, unborn, priority, deadline, vruntime,
                 streak, changes>>

\* The counters are not read again before enter_game_mode resets them.
exit_game_mode ==
  /\ game_mode' = [active |-> FALSE, phase |-> 0, credit |-> 0]
  /\ UNCHANGED <<current, rq, blocked, unborn, priority, deadline, vruntime,
                 streak, changes>>

\* The clock, edf_monotonic_us.
Elapse ==
  /\ deadline' = [t \in Task |->
       IF deadline[t] = None \/ deadline[t].age = MaxAge THEN deadline[t]
       ELSE [deadline[t] EXCEPT !.age = @ + 1]]
  /\ UNCHANGED <<current, rq, blocked, unborn, priority, vruntime, game_mode,
                 streak, changes>>

Next ==
  \/ yield_task \/ block_current_task \/ exit_current_task \/ Elapse
  \/ enter_game_mode \/ exit_game_mode
  \/ \E t \in Task : \/ spawn(t) \/ unblock(t) \/ configure_deadline(t)
                     \/ \E p \in {"Game", "Normal"} : set_priority(t, p)

Spec == Init /\ [][Next]_vars

(***************************************************************************)
(* The timer of the CPU keeps calling yield_task, and the clock advances.  *)
(***************************************************************************)
FairSpec == Spec /\ WF_vars(yield_task) /\ WF_vars(Elapse)
-----------------------------------------------------------------------------
\* Where a task can be.
Place == [deadline |-> Range(rq.deadline), game |-> Range(rq.game),
          normal |-> Range(rq.normal), blocked |-> blocked, unborn |-> unborn,
          current |-> {current}]

(***************************************************************************)
(* Every variable has its type, and a task is in one place: on the CPU, in *)
(* one queue once, blocked or unborn.                                      *)
(***************************************************************************)
TypeOK ==
  /\ current \in Task \cup {None}
  /\ rq \in [deadline : Seq(Task), game : Seq(Task), normal : Seq(Task)]
  /\ \A c \in DOMAIN rq : IsInjective(rq[c])
  /\ blocked \subseteq Task /\ unborn \subseteq Task
  /\ \A p, q \in DOMAIN Place : p # q => Place[p] \cap Place[q] = {}
  /\ priority \in [Task -> {"Game", "Normal"}]
  /\ deadline \in [Task -> {None} \cup Record]
  /\ vruntime \in [Task -> 0..MAX_VRUNTIME]
  /\ game_mode \in [active : BOOLEAN, phase : 0..(THROTTLE_RATIO - 1),
                    credit : 0..MaxCredit]
  /\ streak \in 0..DL_STARVATION_LIMIT
  /\ changes \in 0..MaxChange

(***************************************************************************)
(* pick_next takes the first task it may: among deadline tasks whose       *)
(* period is running an earlier deadline is queued further ahead, and      *)
(* among Normal tasks a smaller vruntime, whatever was woken, preempted or *)
(* moved between the classes in the meantime.                              *)
(***************************************************************************)
QueuesSorted ==
  /\ \A i, j \in DOMAIN rq.deadline :
       LET t == rq.deadline[i]  u == rq.deadline[j] IN
       i < j /\ ~needs_new_period(t, deadline) /\ ~needs_new_period(u, deadline)
         => absolute_deadline(t, deadline) <= absolute_deadline(u, deadline)
  /\ \A i, j \in DOMAIN rq.normal :
       i < j => vruntime[rq.normal[i]] <= vruntime[rq.normal[j]]

(***************************************************************************)
(* "a misbehaving / halted-while-current deadline task can never wedge the *)
(* lower-class queue forever": deadline tasks that block and are woken     *)
(* without ever finishing still leave the CPU to Normal tasks again and    *)
(* again, unless a Game task is queued or game mode is on.                 *)
(***************************************************************************)
NormalServed ==
  \/ []<>(rq.normal = <<>> \/ rq.game # <<>> \/ game_mode.active)
  \/ []<><<\E t \in Range(rq.normal) : t \notin Range(rq'.normal)>>_vars

(***************************************************************************)
(* A deadline task that is queued runs again, in this period or in the     *)
(* next, whatever the other deadline tasks do and however often the guard  *)
(* forces a Normal task.                                                   *)
(***************************************************************************)
DeadlineServed ==
  \A t \in Task : t \in Range(rq.deadline) ~> t \notin Range(rq.deadline)

(***************************************************************************)
(* "the first runnable entry we find is the earliest-deadline ready task": *)
(* no runnable task in front has a deadline behind another's, once its new *)
(* period is started.                                                      *)
(***************************************************************************)
EdfFirst ==
  LET due(t) == IF needs_new_period(t, deadline) THEN deadline_us[t]
                ELSE absolute_deadline(t, deadline)
      q == SelectSeq(rq.deadline, LAMBDA t : Runnable(t, deadline))
  IN \A i \in DOMAIN q : due(q[1]) <= due(q[i])
=============================================================================
