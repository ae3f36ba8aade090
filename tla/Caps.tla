-------------------------------- MODULE Caps --------------------------------
(***************************************************************************)
(* Capability tables, grant and recursive revoke (kernel/src/capability.rs *)
(* and the SYS_CAP_GRANT / SYS_CAP_REVOKE handlers).  Every access to a    *)
(* table goes through the SCHEDULER lock (with_task_by_id,                 *)
(* find_cap_children) and holds it for that access only, so a grant is two *)
(* critical sections and a revoke two per handle of the subtree.           *)
(*                                                                         *)
(* Abstractions.  A rights bitset is a set of rights.  The flavors whose   *)
(* derivation rule is a sub-range are RangeFlavor, all others carry an id  *)
(* that must match (base; Network keeps its port range on a grant and is   *)
(* one of these).  The worklist of revoke is a set.  A task is "listed"    *)
(* (current, queued or blocked), in a switch_stash, or gone.               *)
(***************************************************************************)
EXTENDS Naturals, FiniteSets

CONSTANTS
  Task,         \* task ids
  Mortal,       \* the tasks that may exit
  Right,        \* the rights bits
  GRANT,        \* the one that allows derivation
  RangeFlavor,  \* Mmio, Port
  ExactFlavor,  \* Channel, Irq, Filesystem, Gpu, ...
  AddrMax,      \* the largest address: u64::MAX
  RootCap,      \* the caps the kernel mints
  Seeded,       \* the tasks it mints caps for
  Offset,       \* arguments of SYS_CAP_GRANT: sub-range offsets
  Length,       \*   and lengths (0: keep the parent's)
  NCpu,         \* online CPUs
  MaxHandle,    \* bound on the handles of one table
  None

Flavor == RangeFlavor \cup ExactFlavor
Cap == [flavor : Flavor, base : 0..AddrMax, len : 0..AddrMax,
        rights : SUBSET Right]
Node == Task \X Nat

\* Root regions end below the top of the address space, where
\* saturating_add would no longer tell ends apart.
ASSUME CapsAssumption ==
  /\ AddrMax \in Nat /\ NCpu \in Nat /\ MaxHandle \in Nat
  /\ GRANT \in Right
  /\ RangeFlavor \cap ExactFlavor = {}
  /\ RootCap \subseteq {k \in Cap : k.base + k.len < AddrMax}
  /\ Offset \subseteq Nat /\ Length \subseteq 0..AddrMax
  /\ IsFiniteSet(Task) /\ Mortal \subseteq Task /\ Seeded \subseteq Task
  /\ None \notin Node

VARIABLES
  slots,    \* every table entry: [task, h, cap, by], by the GrantRecord or None
  next,     \* CapTable.next
  where,    \* where the scheduler keeps the task record
  granting, \* grants between their two critical sections
  revoking, \* revokes in progress: [by, root, todo, at]
  minted,   \* history: the caps minted by the kernel
  lineage,  \* history: <<n, a>> when node n was derived, however far, from a
  revoked   \* history: nodes whose revoke has returned Ok

vars == <<slots, next, where, granting, revoking, minted, lineage, revoked>>

Init ==
  /\ slots = {}
  /\ next = [t \in Task |-> 1]
  /\ where = [t \in Task |-> "listed"]
  /\ granting = {}
  /\ revoking = {}
  /\ minted = {}
  /\ lineage = {}
  /\ revoked = {}

NodeOf(s) == <<s.task, s.h>>

\* with_task_by_id finds the task, in a stash too.
found(t) == where[t] # "gone"

\* CPUs held by a system call or by a context switch; system calls run with
\* interrupts off.
Busy == {g.by : g \in granting} \cup {r.by : r \in revoking}
          \cup {t \in Task : where[t] = "stash"}
CanRun(t) == where[t] = "listed" /\ t \notin Busy /\ Cardinality(Busy) < NCpu

\* The bound on handles, grants in flight counted.
Room(t) == next[t] + Cardinality({g \in granting : g.target = t}) <= MaxHandle

\* u64::saturating_add.  Ports add in u32 without saturation: the same verdict
\* for parents that end below AddrMax.
SatAdd(a, b) == IF a + b > AddrMax THEN AddrMax ELSE a + b

\* Mutant: only the start of the range is compared.
is_valid_derivation_no_end(parent, child) ==
  /\ child.flavor = parent.flavor
  /\ child.rights \subseteq parent.rights
  /\ child.base >= parent.base

is_valid_derivation(parent, child) ==
  /\ child.flavor = parent.flavor
  /\ child.rights \subseteq parent.rights
  /\ IF parent.flavor \in RangeFlavor
     THEN /\ child.base >= parent.base
          /\ SatAdd(child.base, child.len) <= SatAdd(parent.base, parent.len)
     ELSE child.base = parent.base

\* The cap SYS_CAP_GRANT synthesises from its arguments.
derived(parent, rights, d0, d1) ==
  IF parent.flavor \in RangeFlavor
  THEN [parent EXCEPT !.base = SatAdd(@, d0), !.len = IF d1 = 0 THEN @ ELSE d1,
                      !.rights = rights]
  ELSE [parent EXCEPT !.rights = rights]

\* insert_root / insert_derived
insert(t, cap, by) ==
  /\ slots' = slots \cup {[task |-> t, h |-> next[t], cap |-> cap, by |-> by]}
  /\ next' = [next EXCEPT ![t] = @ + 1]
-----------------------------------------------------------------------------
\* Mutant: a region is rounded up to the next page.
insert_root_rounded(t, cap) ==
  LET k == [cap EXCEPT !.len = @ + 1] IN
  /\ found(t) /\ Cardinality(Busy) < NCpu /\ Room(t)
  /\ insert(t, k, None)
  /\ minted' = minted \cup {k}
  /\ UNCHANGED <<where, granting, revoking, lineage, revoked>>

insert_root(t, cap) ==
  /\ found(t) /\ Cardinality(Busy) < NCpu /\ Room(t)
  /\ insert(t, cap, None)
  /\ minted' = minted \cup {cap}
  /\ UNCHANGED <<where, granting, revoking, lineage, revoked>>

\* grant, steps 1 to 3, on the parent's slot s.
grant_check(t, s, target, cap) ==
  /\ CanRun(t) /\ s.task = t /\ Room(target)
  /\ GRANT \in s.cap.rights
  /\ is_valid_derivation(s.cap, cap)
  /\ granting' = granting \cup
       {[by |-> t, src |-> NodeOf(s), target |-> target, cap |-> cap]}
  /\ UNCHANGED <<slots, next, where, revoking, minted, lineage, revoked>>

\* grant, step 4: NoSuchTask when the target has died meanwhile.
grant_insert(g) ==
  /\ granting' = granting \ {g}
  /\ IF found(g.target)
     THEN LET n == <<g.target, next[g.target]>> IN
          /\ insert(g.target, g.cap, g.src)
          /\ lineage' = lineage \cup {<<n, g.src>>}
               \cup {<<n, e[2]>> : e \in {p \in lineage : p[1] = g.src}}
     ELSE UNCHANGED <<slots, next, lineage>>
  /\ UNCHANGED <<where, revoking, minted, revoked>>

\* revoke: only the recorded granter may.
revoke_check(t, s) ==
  /\ CanRun(t) /\ found(s.task)
  /\ s.by # None /\ s.by[1] = t
  /\ revoking' = revoking \cup
       {[by |-> t, root |-> NodeOf(s), todo |-> {NodeOf(s)}, at |-> None]}
  /\ UNCHANGED <<slots, next, where, granting, minted, lineage, revoked>>

\* The body of the worklist loop, first critical section.
revoke_remove(r, n) ==
  /\ r.at = None
  /\ slots' = {s \in slots : NodeOf(s) # n \/ ~found(n[1])}
  /\ revoking' = (revoking \ {r}) \cup
       {[r EXCEPT !.todo = @ \ {n}, !.at = n]}
  /\ UNCHANGED <<next, where, granting, minted, lineage, revoked>>

\* Mutant: only the table of the granter is scanned.
find_cap_children_own(n) ==
  {NodeOf(s) : s \in {k \in slots : k.by = n /\ k.task = n[1]}}

\* find_cap_children: the stashes are not scanned.
find_cap_children(n) ==
  {NodeOf(s) : s \in {k \in slots : k.by = n /\ where[k.task] = "listed"}}

\* Second critical section; with nothing left to do revoke returns Ok.
revoke_chase(r) ==
  LET todo == r.todo \cup find_cap_children(r.at) IN
  /\ r.at # None
  /\ revoking' = (revoking \ {r}) \cup
       (IF todo = {} THEN {} ELSE {[r EXCEPT !.todo = todo, !.at = None]})
  /\ revoked' = IF todo = {} THEN revoked \cup {r.root} ELSE revoked
  /\ UNCHANGED <<slots, next, where, granting, minted, lineage>>
-----------------------------------------------------------------------------
(* The scheduler, as far as the lookups can tell (module Sched).           *)
switch_out(t) ==
  /\ CanRun(t)
  /\ where' = [where EXCEPT ![t] = "stash"]
  /\ UNCHANGED <<slots, next, granting, revoking, minted, lineage, revoked>>

finish_task_switch(t) ==
  /\ where[t] = "stash"
  /\ where' = [where EXCEPT ![t] = "listed"]
  /\ UNCHANGED <<slots, next, granting, revoking, minted, lineage, revoked>>

\* The record reaches dead_tasks, where no lookup finds it, and is dropped.
exit(t) ==
  /\ t \in Mortal /\ CanRun(t)
  /\ where' = [where EXCEPT ![t] = "gone"]
  /\ slots' = {s \in slots : s.task # t}
  /\ UNCHANGED <<next, granting, revoking, minted, lineage, revoked>>

Next ==
  \/ \E t \in Task :
       \/ t \in Seeded /\ \E cap \in RootCap : insert_root(t, cap)
       \/ \E s \in slots, u \in Task, rs \in SUBSET Right,
             d0 \in Offset, d1 \in Length :
            grant_check(t, s, u, derived(s.cap, rs, d0, d1))
       \/ \E s \in slots : revoke_check(t, s)
       \/ switch_out(t)
       \/ finish_task_switch(t)
       \/ exit(t)
  \/ \E g \in granting : grant_insert(g)
  \/ \E r \in revoking : \/ revoke_chase(r)
                         \/ \E n \in r.todo : revoke_remove(r, n)

Spec == Init /\ [][Next]_vars
-----------------------------------------------------------------------------
Slot == [task : Task, h : Nat, cap : Cap, by : Node \cup {None}]

RevokeOp == [by : Task, root : Node, todo : SUBSET Node, at : Node \cup {None}]

TypeOK ==
  /\ slots \subseteq Slot
  /\ next \in [Task -> Nat]
  /\ where \in [Task -> {"listed", "stash", "gone"}]
  /\ granting \subseteq [by : Task, src : Node, target : Task, cap : Cap]
  /\ revoking \subseteq RevokeOp
  /\ minted \subseteq RootCap
  /\ lineage \subseteq Node \X Node
  /\ revoked \subseteq Node

(***************************************************************************)
(* What a cap lets its holder do: rights on units of a resource.           *)
(***************************************************************************)
Units(cap) == IF cap.flavor \in RangeFlavor
              THEN {a \in cap.base..(cap.base + cap.len) : a < cap.base + cap.len}
              ELSE {cap.base}
Within(cap, root) ==
  /\ cap.flavor = root.flavor
  /\ cap.rights \subseteq root.rights
  /\ Units(cap) \subseteq Units(root)

(***************************************************************************)
(* However long the chain of grants, and whatever is revoked or exits      *)
(* between the check and the insertion, a table holds no authority beyond  *)
(* some cap the kernel minted.                                             *)
(***************************************************************************)
NoAmplification ==
  \A s \in slots : \E m \in minted : Within(s.cap, m)

(***************************************************************************)
(* A derived cap stays only while the cap it came from does: its granter   *)
(* still holds the source, or has exited, or a revoke is on its way to it. *)
(***************************************************************************)
ParentHeld ==
  \A s \in slots : s.by # None /\ found(s.by[1]) =>
    \/ \E p \in slots : NodeOf(p) = s.by
    \/ \E r \in revoking : r.at = s.by \/ NodeOf(s) \in r.todo

(***************************************************************************)
(* "a revoked authority cannot survive through any descendant it was       *)
(* granted to": once revoke has returned, nothing derived from the revoked *)
(* cap is left in a table.                                                 *)
(***************************************************************************)
RevokeComplete ==
  \A s \in slots, n \in revoked : <<NodeOf(s), n>> \notin lineage
=============================================================================
