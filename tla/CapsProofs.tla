----------------------------- MODULE CapsProofs -----------------------------
(***************************************************************************)
(* Grants never amplify authority: proof for any number of tasks, CPUs,    *)
(* rights and resources.  The invariant has to speak of the grants in      *)
(* flight too: their cap was compared with a parent that may be gone by    *)
(* the time it is inserted.  On one CPU no derived cap outlives its        *)
(* source: proof for any number of tasks and any tree of grants.           *)
(***************************************************************************)
EXTENDS Caps, FiniteSetTheorems, TLAPS

\* A range that ends below the saturation point.
Bounded(cap) == cap.flavor \in RangeFlavor => cap.base + cap.len < AddrMax

Rooted(cap) == cap \in Cap /\ Bounded(cap) /\ \E m \in minted : Within(cap, m)

CapInv ==
  /\ TypeOK
  /\ \A s \in slots : Rooted(s.cap)
  /\ \A g \in granting : Rooted(g.cap)

(* What the subset check of grant accepts is no more than the parent.      *)
LEMMA DerivationWithin ==
  ASSUME NEW p \in Cap, NEW k \in Cap, Bounded(p), is_valid_derivation(p, k)
  PROVE  Within(k, p) /\ Bounded(k)
<1> USE CapsAssumption DEF is_valid_derivation, Bounded, SatAdd, Cap
<1>1. k.flavor = p.flavor /\ k.rights \subseteq p.rights
  OBVIOUS
<1>2. CASE p.flavor \in RangeFlavor
  <2>1. k.base >= p.base /\ k.base + k.len <= p.base + p.len
    BY <1>2
  <2>2. QED  BY <1>1, <1>2, <2>1 DEF Within, Units
<1>3. CASE p.flavor \notin RangeFlavor
  BY <1>1, <1>3 DEF Within, Units
<1>4. QED  BY <1>2, <1>3

LEMMA WithinTransitive ==
  ASSUME NEW k, NEW p, NEW m, Within(k, p), Within(p, m)
  PROVE  Within(k, m)
BY DEF Within

(* The arguments of SYS_CAP_GRANT always synthesise a well-formed cap.     *)
LEMMA DerivedCap ==
  ASSUME NEW p \in Cap, NEW rs \in SUBSET Right, NEW d0 \in Offset,
         NEW d1 \in Length
  PROVE  derived(p, rs, d0, d1) \in Cap
<1>1. SatAdd(p.base, d0) \in 0..AddrMax
  BY CapsAssumption DEF SatAdd, Cap
<1>2. QED  BY <1>1, CapsAssumption, Zenon DEF derived, Cap, Flavor

LEMMA InitCapInv == Init => CapInv
BY CapsAssumption DEF Init, CapInv, TypeOK

(* Minting adds roots and takes none away, so what was rooted stays so.     *)
LEMMA RootedKept ==
  ASSUME minted \subseteq minted', NEW k, Rooted(k)
  PROVE  Rooted(k)'
BY DEF Rooted, Within, Units, Bounded

LEMMA InsertRootCapInv ==
  ASSUME CapInv, NEW t \in Task, NEW cap \in RootCap, insert_root(t, cap)
  PROVE  CapInv'
<1> USE CapsAssumption DEF CapInv, insert_root, insert
<1>1. cap \in Cap /\ Bounded(cap) /\ Within(cap, cap)
  BY DEF Bounded, Within
<1>2. Rooted(cap)'  BY <1>1 DEF Rooted, Within, Units, Bounded
<1>3. TypeOK'  BY <1>1 DEF TypeOK, Slot
<1>4. \A s \in slots' : Rooted(s.cap)'  BY <1>2, RootedKept
<1>5. \A g \in granting' : Rooted(g.cap)'  BY RootedKept
<1>6. QED  BY <1>3, <1>4, <1>5

LEMMA GrantCheckCapInv ==
  ASSUME CapInv, NEW t \in Task, NEW s \in slots, NEW u \in Task,
         NEW k \in Cap, grant_check(t, s, u, k)
  PROVE  CapInv'
<1> USE CapsAssumption DEF CapInv, grant_check
<1>1. Rooted(k)
  <2>1. PICK m \in minted : Within(s.cap, m)  BY DEF Rooted
  <2>2. Within(k, s.cap) /\ Bounded(k)  BY DerivationWithin DEF Rooted
  <2>3. Within(k, m)  BY <2>1, <2>2, WithinTransitive
  <2>4. QED  BY <2>2, <2>3 DEF Rooted
<1>2. TypeOK'  BY DEF TypeOK, Slot, NodeOf, Node
<1>3. \A x \in slots' : Rooted(x.cap)'  BY RootedKept
<1>4. \A g \in granting' : Rooted(g.cap)'  BY <1>1, RootedKept
<1>5. QED  BY <1>2, <1>3, <1>4

LEMMA GrantInsertCapInv ==
  ASSUME CapInv, NEW g \in granting, grant_insert(g)
  PROVE  CapInv'
<1> USE CapsAssumption DEF CapInv, grant_insert, insert
<1>1. g \in [by : Task, src : Node, target : Task, cap : Cap] /\ Rooted(g.cap)
  BY DEF TypeOK
<1>2. lineage' \subseteq Node \X Node
  BY <1>1 DEF TypeOK, Node
<1>3. TypeOK'  BY <1>1, <1>2 DEF TypeOK, Slot
<1>4. \A s \in slots' : Rooted(s.cap)'  BY <1>1, RootedKept
<1>5. \A x \in granting' : Rooted(x.cap)'  BY RootedKept
<1>6. QED  BY <1>3, <1>4, <1>5

LEMMA RevokeOpUpdate ==
  ASSUME NEW r \in RevokeOp, NEW T \in SUBSET Node, NEW n \in Node \cup {None}
  PROVE  [r EXCEPT !.todo = T, !.at = n] \in RevokeOp
BY Zenon DEF RevokeOp

LEMMA RevokeCapInv ==
  ASSUME CapInv,
         \/ \E t \in Task, s \in slots : revoke_check(t, s)
         \/ \E r \in revoking : \E n \in r.todo : revoke_remove(r, n)
         \/ \E r \in revoking : revoke_chase(r)
  PROVE  CapInv'
<1> USE DEF CapInv
<1>1. slots' \subseteq slots /\ UNCHANGED <<next, where, granting, minted, lineage>>
  BY Zenon DEF revoke_check, revoke_remove, revoke_chase
<1>2. TypeOK'
  <2>1. CASE \E t \in Task, s \in slots : revoke_check(t, s)
    BY <2>1 DEF revoke_check, TypeOK, RevokeOp, Slot, NodeOf, Node
  <2>2. CASE \E r \in revoking : \E n \in r.todo : revoke_remove(r, n)
    <3>0. PICK r \in revoking : \E n \in r.todo : revoke_remove(r, n)  BY <2>2
    <3>1. PICK n \in r.todo : revoke_remove(r, n)  BY <3>0
    <3>2. r \in RevokeOp /\ n \in Node /\ r.todo \ {n} \in SUBSET Node
      BY DEF TypeOK, RevokeOp
    <3>3. [r EXCEPT !.todo = r.todo \ {n}, !.at = n] \in RevokeOp
      BY <3>2, RevokeOpUpdate, Zenon
    <3>4. revoking' \subseteq RevokeOp  BY <3>1, <3>3, Zenon DEF revoke_remove, TypeOK
    <3>5. QED  BY <3>1, <3>4, Zenon DEF revoke_remove, TypeOK
  <2>3. CASE \E r \in revoking : revoke_chase(r)
    <3>1. PICK r \in revoking : revoke_chase(r)  BY <2>3
    <3>2. find_cap_children(r.at) \subseteq Node
      BY DEF find_cap_children, TypeOK, Slot, NodeOf, Node
    <3>3. r \in RevokeOp /\ r.todo \cup find_cap_children(r.at) \in SUBSET Node
      BY <3>2 DEF TypeOK, RevokeOp
    <3>4. [r EXCEPT !.todo = r.todo \cup find_cap_children(r.at), !.at = None]
            \in RevokeOp
      BY <3>3, RevokeOpUpdate, Zenon
    <3>5. revoking' \subseteq RevokeOp /\ revoked' \subseteq Node
      BY <3>1, <3>3, <3>4, Zenon DEF revoke_chase, TypeOK, RevokeOp
    <3>6. QED  BY <3>1, <3>5, Zenon DEF revoke_chase, TypeOK
  <2>4. QED  BY <2>1, <2>2, <2>3
<1>3. (\A s \in slots' : Rooted(s.cap)') /\ \A g \in granting' : Rooted(g.cap)'
  BY <1>1, RootedKept
<1>4. QED  BY <1>2, <1>3

LEMMA SchedulerCapInv ==
  ASSUME CapInv, NEW t \in Task,
         switch_out(t) \/ finish_task_switch(t) \/ exit(t)
  PROVE  CapInv'
<1> USE DEF CapInv, switch_out, finish_task_switch, exit
<1>1. TypeOK'  BY DEF TypeOK
<1>2. (\A s \in slots' : Rooted(s.cap)') /\ \A g \in granting' : Rooted(g.cap)'
  BY RootedKept
<1>3. QED  BY <1>1, <1>2

LEMMA NextCapInv == CapInv /\ [Next]_vars => CapInv'
<1> SUFFICES ASSUME CapInv, [Next]_vars PROVE CapInv'
  OBVIOUS
<1>1. CASE UNCHANGED vars
  BY <1>1, Zenon DEF vars, CapInv, TypeOK, Rooted, Within, Units, Bounded
<1>2. CASE \E t \in Task, s \in slots, u \in Task, rs \in SUBSET Right,
             d0 \in Offset, d1 \in Length :
             grant_check(t, s, u, derived(s.cap, rs, d0, d1))
  <2>1. \A s \in slots : s.cap \in Cap  BY DEF CapInv, Rooted
  <2>2. QED  BY <1>2, <2>1, DerivedCap, GrantCheckCapInv
<1>3. CASE Next
  BY <1>2, <1>3, InsertRootCapInv, GrantInsertCapInv, RevokeCapInv,
     SchedulerCapInv, Zenon DEF Next
<1>4. QED  BY <1>1, <1>3

(* However grants, revokes, exits and context switches interleave, no       *)
(* capability table holds more than a cap the kernel minted.                *)
THEOREM GrantsAttenuate == Spec => []NoAmplification
<1>1. CapInv => NoAmplification  BY DEF CapInv, Rooted, NoAmplification
<1>2. QED  BY <1>1, InitCapInv, NextCapInv, PTL DEF Spec

(* Every variable of the capability model keeps its type.                   *)
THEOREM CapsTypeCorrect == Spec => []TypeOK
<1>1. CapInv => TypeOK  BY DEF CapInv
<1>2. QED  BY <1>1, InitCapInv, NextCapInv, PTL DEF Spec

-----------------------------------------------------------------------------
(***************************************************************************)
(* One CPU.  A system call then runs from its first critical section to    *)
(* its last with no other call and no context switch in between, so a      *)
(* grant inserts under a source that is still there, and a revoke finds    *)
(* no table in a stash.                                                    *)
(***************************************************************************)
NoStash == \A t \in Task : where[t] # "stash"

OneAtATime ==
  /\ granting # {} => revoking = {} /\ NoStash
  /\ revoking # {} => granting = {} /\ NoStash
  /\ \A g, h \in granting : g = h
  /\ \A q, r \in revoking : q = r

\* The tables of exited tasks are dropped with them.
TablesFound == \A s \in slots : found(s.task)

SourceHeld ==
  \A g \in granting : found(g.src[1]) => \E p \in slots : NodeOf(p) = g.src

UpInv == CapInv /\ OneAtATime /\ TablesFound /\ SourceHeld /\ ParentHeld

(* A task that gets the only CPU finds no call and no switch in progress.  *)
LEMMA Alone ==
  ASSUME NCpu = 1, TypeOK, Cardinality(Busy) < NCpu
  PROVE  granting = {} /\ revoking = {} /\ NoStash
<1>1. Busy \subseteq Task  BY DEF Busy, TypeOK, RevokeOp
<1>2. IsFiniteSet(Busy)  BY <1>1, CapsAssumption, FS_Subset
<1>3. Cardinality(Busy) = 0  BY <1>2, FS_CardinalityType
<1>4. Busy = {}  BY <1>2, <1>3, FS_EmptySet
<1>5. QED  BY <1>4 DEF Busy, NoStash

LEMMA InitUpInv == Init => UpInv
<1> SUFFICES ASSUME Init PROVE UpInv
  OBVIOUS
<1>1. CapInv  BY InitCapInv
<1>2. QED
  BY <1>1 DEF Init, UpInv, OneAtATime, TablesFound, SourceHeld, ParentHeld, NoStash

LEMMA InsertRootUp ==
  ASSUME NCpu = 1, UpInv, NEW t \in Task, NEW cap, insert_root(t, cap), CapInv'
  PROVE  UpInv'
<1>1. granting = {} /\ revoking = {} /\ NoStash
  BY Alone DEF insert_root, UpInv, CapInv
<1>2. /\ slots' = slots \cup {[task |-> t, h |-> next[t], cap |-> cap, by |-> None]}
      /\ UNCHANGED <<where, granting, revoking>> /\ found(t)
  BY DEF insert_root, insert
<1>3. OneAtATime'  BY <1>1, <1>2 DEF OneAtATime
<1>4. TablesFound'  BY <1>2 DEF UpInv, TablesFound, found
<1>5. SourceHeld'  BY <1>1, <1>2 DEF SourceHeld
<1>6. ParentHeld'  BY <1>1, <1>2 DEF UpInv, ParentHeld, found, NodeOf
<1>7. QED  BY <1>3, <1>4, <1>5, <1>6 DEF UpInv

LEMMA GrantCheckUp ==
  ASSUME NCpu = 1, UpInv, NEW t \in Task, NEW s \in slots, NEW u \in Task,
         NEW k, grant_check(t, s, u, k), CapInv'
  PROVE  UpInv'
<1>1. granting = {} /\ revoking = {} /\ NoStash
  BY Alone DEF grant_check, CanRun, UpInv, CapInv
<1>2. /\ granting' = {[by |-> t, src |-> NodeOf(s), target |-> u, cap |-> k]}
      /\ UNCHANGED <<slots, where, revoking>>
  BY <1>1 DEF grant_check
<1>3. OneAtATime'  BY <1>1, <1>2 DEF OneAtATime, NoStash
<1>4. TablesFound'  BY <1>2 DEF UpInv, TablesFound, found
<1>5. SourceHeld'  BY <1>2 DEF SourceHeld, NodeOf
<1>6. ParentHeld'  BY <1>1, <1>2 DEF UpInv, ParentHeld, found, NodeOf
<1>7. QED  BY <1>3, <1>4, <1>5, <1>6 DEF UpInv

LEMMA GrantInsertUp ==
  ASSUME UpInv, NEW g \in granting, grant_insert(g), CapInv'
  PROVE  UpInv'
<1>1. /\ granting = {g} /\ granting' = {} /\ revoking = {} /\ NoStash
      /\ UNCHANGED <<where, revoking>>
  BY DEF grant_insert, UpInv, OneAtATime
<1>2. OneAtATime' /\ SourceHeld'  BY <1>1 DEF OneAtATime, SourceHeld
<1>3. CASE found(g.target)
  <2> DEFINE new == [task |-> g.target, h |-> next[g.target], cap |-> g.cap, by |-> g.src]
  <2>1. slots' = slots \cup {new}  BY <1>3 DEF grant_insert, insert
  <2>2. TablesFound'  BY <1>1, <1>3, <2>1 DEF UpInv, TablesFound, found
  <2>3. found(g.src[1]) => \E p \in slots : NodeOf(p) = g.src
    BY DEF UpInv, SourceHeld
  <2>4. ParentHeld'
    BY <1>1, <2>1, <2>3 DEF UpInv, ParentHeld, found, NodeOf
  <2>5. QED  BY <1>2, <2>2, <2>4 DEF UpInv
<1>4. CASE ~found(g.target)
  <2>1. slots' = slots  BY <1>4 DEF grant_insert
  <2>2. TablesFound' /\ ParentHeld'
    BY <1>1, <2>1 DEF UpInv, TablesFound, ParentHeld, found, NodeOf
  <2>3. QED  BY <1>2, <2>2 DEF UpInv
<1>5. QED  BY <1>3, <1>4

LEMMA RevokeCheckUp ==
  ASSUME NCpu = 1, UpInv, NEW t \in Task, NEW s \in slots, revoke_check(t, s), CapInv'
  PROVE  UpInv'
<1>1. granting = {} /\ revoking = {} /\ NoStash
  BY Alone DEF revoke_check, CanRun, UpInv, CapInv
<1>2. /\ revoking' = {[by |-> t, root |-> NodeOf(s), todo |-> {NodeOf(s)}, at |-> None]}
      /\ UNCHANGED <<slots, where, granting>>
  BY <1>1 DEF revoke_check
<1>3. OneAtATime'  BY <1>1, <1>2 DEF OneAtATime, NoStash
<1>4. TablesFound' /\ SourceHeld'
  BY <1>1, <1>2 DEF UpInv, TablesFound, SourceHeld, found
<1>5. ParentHeld'  BY <1>1, <1>2 DEF UpInv, ParentHeld, found, NodeOf
<1>6. QED  BY <1>3, <1>4, <1>5 DEF UpInv

(* Removing a cap leaves its children to the revoke that now stands there. *)
LEMMA RevokeRemoveUp ==
  ASSUME UpInv, NEW r \in revoking, NEW n \in r.todo, revoke_remove(r, n), CapInv'
  PROVE  UpInv'
<1> DEFINE q == [r EXCEPT !.todo = @ \ {n}, !.at = n]
<1>1. /\ granting = {} /\ revoking = {r} /\ NoStash /\ revoking' = {q}
      /\ UNCHANGED <<where, granting>>
  BY DEF revoke_remove, UpInv, OneAtATime
<1>2. r \in RevokeOp  BY DEF UpInv, CapInv, TypeOK
<1>3. q.at = n /\ q.todo = r.todo \ {n} /\ r.at = None
  BY <1>2 DEF RevokeOp, revoke_remove
<1>4. slots' = {s \in slots : NodeOf(s) # n \/ ~found(n[1])}
  BY DEF revoke_remove
<1> HIDE DEF q
<1>5. OneAtATime' /\ SourceHeld'
  BY <1>1 DEF OneAtATime, SourceHeld, NoStash
<1>6. TablesFound'  BY <1>1, <1>4 DEF UpInv, TablesFound, found
<1>7. ASSUME NEW s \in slots', s.by # None, found(s.by[1])
      PROVE  (\E p \in slots' : NodeOf(p) = s.by) \/ q.at = s.by \/ NodeOf(s) \in q.todo
  <2>1. s \in slots /\ found(s.task) /\ NodeOf(s)[1] = s.task
    BY <1>4 DEF UpInv, TablesFound, NodeOf
  <2>2. NodeOf(s) # n  BY <1>4, <2>1
  <2>3. \/ \E p \in slots : NodeOf(p) = s.by
        \/ r.at = s.by \/ NodeOf(s) \in r.todo
    BY <1>1, <1>7, <2>1 DEF UpInv, ParentHeld
  <2>4. QED  BY <1>3, <1>4, <1>7, <2>2, <2>3
<1>8. ParentHeld'  BY <1>1, <1>7 DEF ParentHeld, found, NodeOf
<1>9. QED  BY <1>5, <1>6, <1>8 DEF UpInv

(* With no table in a stash the scan finds every child.                    *)
LEMMA RevokeChaseUp ==
  ASSUME UpInv, NEW r \in revoking, revoke_chase(r), CapInv'
  PROVE  UpInv'
<1> DEFINE todo == r.todo \cup find_cap_children(r.at)
           q == [r EXCEPT !.todo = todo, !.at = None]
<1>1. /\ granting = {} /\ revoking = {r} /\ NoStash
      /\ revoking' = IF todo = {} THEN {} ELSE {q}
      /\ UNCHANGED <<slots, where, granting>>
  BY DEF revoke_chase, UpInv, OneAtATime
<1>2. r \in RevokeOp  BY DEF UpInv, CapInv, TypeOK
<1>3. q.todo = todo  BY <1>2 DEF RevokeOp
<1>4. ASSUME NEW s \in slots, r.at = s.by
      PROVE  NodeOf(s) \in todo
  <2>1. where[s.task] = "listed"
    BY <1>1 DEF UpInv, CapInv, TypeOK, Slot, TablesFound, found, NoStash
  <2>2. QED  BY <1>4, <2>1 DEF find_cap_children
<1> HIDE DEF q, todo
<1>5. OneAtATime' /\ SourceHeld' /\ TablesFound'
  BY <1>1 DEF UpInv, OneAtATime, SourceHeld, TablesFound, NoStash, found
<1>6. ASSUME NEW s \in slots, s.by # None, found(s.by[1])
      PROVE  (\E p \in slots : NodeOf(p) = s.by) \/ NodeOf(s) \in todo
  BY <1>1, <1>4, <1>6 DEF UpInv, ParentHeld, todo
<1>7. ParentHeld'  BY <1>1, <1>3, <1>6 DEF ParentHeld, found, NodeOf
<1>8. QED  BY <1>5, <1>7 DEF UpInv

LEMMA SchedulerUp ==
  ASSUME NCpu = 1, UpInv, NEW t \in Task,
         switch_out(t) \/ finish_task_switch(t) \/ exit(t), CapInv'
  PROVE  UpInv'
<1>1. where \in [Task -> {"listed", "stash", "gone"}]  BY DEF UpInv, CapInv, TypeOK
<1>2. CASE switch_out(t) \/ exit(t)
  <2>1. granting = {} /\ revoking = {} /\ UNCHANGED <<granting, revoking>>
    BY <1>2, Alone DEF switch_out, exit, CanRun, UpInv, CapInv
  <2>2. OneAtATime' /\ SourceHeld'  BY <2>1 DEF OneAtATime, SourceHeld
  <2>3. CASE switch_out(t)
    <3>1. slots' = slots /\ \A u \in Task : found(u) <=> found(u)'
      BY <1>1, <2>3 DEF switch_out, CanRun, found
    <3>2. \A s \in slots : s.task \in Task /\ (s.by # None => s.by[1] \in Task)
      BY DEF UpInv, CapInv, TypeOK, Slot, Node
    <3>3. TablesFound'  BY <3>1, <3>2 DEF UpInv, TablesFound
    <3>4. ParentHeld'  BY <2>1, <3>1, <3>2 DEF UpInv, ParentHeld, NodeOf
    <3>5. QED  BY <2>2, <3>3, <3>4 DEF UpInv
  <2>4. CASE exit(t)
    <3>1. /\ slots' = {s \in slots : s.task # t}
          /\ \A u \in Task : found(u)' <=> found(u) /\ u # t
      BY <1>1, <2>4 DEF exit, found
    <3>2. \A s \in slots : s.task \in Task /\ (s.by # None => s.by[1] \in Task)
      BY DEF UpInv, CapInv, TypeOK, Slot, Node
    <3>3. TablesFound'  BY <3>1, <3>2 DEF UpInv, TablesFound
    <3>4. \A p \in slots : NodeOf(p)[1] = p.task  BY DEF NodeOf
    <3>5. ASSUME NEW s \in slots', s.by # None, found(s.by[1])'
          PROVE  \E p \in slots' : NodeOf(p) = s.by
      BY <2>1, <3>1, <3>2, <3>4, <3>5 DEF UpInv, ParentHeld
    <3>6. ParentHeld'  BY <3>5 DEF ParentHeld, NodeOf
    <3>7. QED  BY <2>2, <3>3, <3>6 DEF UpInv
  <2>5. QED  BY <1>2, <2>3, <2>4
<1>3. CASE finish_task_switch(t)
  <2>1. granting = {} /\ revoking = {} /\ UNCHANGED <<slots, granting, revoking>>
    BY <1>3 DEF finish_task_switch, UpInv, OneAtATime, NoStash
  <2>2. \A u \in Task : found(u) <=> found(u)'
    BY <1>1, <1>3 DEF finish_task_switch, found
  <2>3. \A s \in slots : s.task \in Task /\ (s.by # None => s.by[1] \in Task)
    BY DEF UpInv, CapInv, TypeOK, Slot, Node
  <2>4. OneAtATime' /\ SourceHeld'  BY <2>1 DEF OneAtATime, SourceHeld
  <2>5. TablesFound'  BY <2>1, <2>2, <2>3 DEF UpInv, TablesFound
  <2>6. ParentHeld'  BY <2>1, <2>2, <2>3 DEF UpInv, ParentHeld, NodeOf
  <2>7. QED  BY <2>4, <2>5, <2>6 DEF UpInv
<1>4. QED  BY <1>2, <1>3

LEMMA NextUpInv == NCpu = 1 /\ UpInv /\ [Next]_vars => UpInv'
<1> SUFFICES ASSUME NCpu = 1, UpInv, [Next]_vars PROVE UpInv'
  OBVIOUS
<1>1. CapInv'  BY NextCapInv DEF UpInv
<1>2. CASE UNCHANGED vars
  BY <1>1, <1>2 DEF vars, UpInv, OneAtATime, TablesFound, SourceHeld, ParentHeld,
     NoStash, found, NodeOf
<1>3. CASE Next
  <2>1. ASSUME NEW t \in Task, NEW cap \in RootCap, insert_root(t, cap)
        PROVE  UpInv'
    BY <1>1, <2>1, InsertRootUp
  <2>2. ASSUME NEW t \in Task, NEW s \in slots, NEW u \in Task, NEW k,
               grant_check(t, s, u, k)
        PROVE  UpInv'
    BY <1>1, <2>2, GrantCheckUp
  <2>3. ASSUME NEW t \in Task, NEW s \in slots, revoke_check(t, s)
        PROVE  UpInv'
    BY <1>1, <2>3, RevokeCheckUp
  <2>4. ASSUME NEW t \in Task, switch_out(t) \/ finish_task_switch(t) \/ exit(t)
        PROVE  UpInv'
    BY <1>1, <2>4, SchedulerUp
  <2>5. ASSUME NEW g \in granting, grant_insert(g)
        PROVE  UpInv'
    BY <1>1, <2>5, GrantInsertUp
  <2>6. ASSUME NEW r \in revoking, revoke_chase(r)
        PROVE  UpInv'
    BY <1>1, <2>6, RevokeChaseUp
  <2>7. ASSUME NEW r \in revoking, NEW n \in r.todo, revoke_remove(r, n)
        PROVE  UpInv'
    BY <1>1, <2>7, RevokeRemoveUp
  <2>8. QED
    BY <1>3, <2>1, <2>2, <2>3, <2>4, <2>5, <2>6, <2>7 DEF Next
<1>4. QED  BY <1>2, <1>3

(* On one CPU, whatever tree of grants the tasks build and whichever of     *)
(* them exit, a cap whose source is gone is one a revoke is about to take,  *)
(* or its granter has exited: revoke never leaves an orphan behind.         *)
THEOREM ParentHeldOnOneCpu ==
  ASSUME NCpu = 1
  PROVE  Spec => []ParentHeld
<1>1. UpInv => ParentHeld  BY DEF UpInv
<1>2. UpInv /\ [Next]_vars => UpInv'  BY NextUpInv
<1>3. QED  BY <1>1, <1>2, InitUpInv, PTL DEF Spec
=============================================================================
