----------------------------- MODULE StoreProofs -----------------------------
(***************************************************************************)
(* Proofs about Store: no two holders share a file map, hence a checkpoint *)
(* never changes, hence the store implements the store of values.          *)
(***************************************************************************)
EXTENDS Store, TLAPS, SequenceTheorems

IInv == Shape /\ NoSharing /\ Numbered

-----------------------------------------------------------------------------
(***************************************************************************)
(* The slots of a state and what they hold.                                *)
(***************************************************************************)
SlotsAre ==
    /\ \A id \in Id, k \in Nat :
          <<id, k>> \in Slots <=> Exists(id) /\ k <= Len(sprites[id].checkpoints)
    /\ \A c \in Client, k \in Nat : <<c, k>> \in Slots <=> Reading(c) /\ k = 0
    /\ \A s \in Slots : \/ \E id \in Id, k \in Nat : s = <<id, k>>
                        \/ \E c \in Client : s = <<c, 0>>

RefsAre ==
    /\ \A id \in Id : RefAt(<<id, 0>>) = sprites[id].fs
    /\ \A id \in Id, k \in Nat \ {0} :
          RefAt(<<id, k>>) = sprites[id].checkpoints[k].fs
    /\ \A c \in Client : RefAt(<<c, 0>>) = view[c].fs

LEMMA SlotsLemma == Shape => SlotsAre /\ RefsAre
<1>. SUFFICES ASSUME Shape
              PROVE  SlotsAre /\ RefsAre
  OBVIOUS
<1>. DEFINE D == {i \in Id : Exists(i)}
            S(i) == {i} \X (0 .. Len(sprites[i].checkpoints))
            C == {c \in Client : Reading(c)}
<1>1. \A id \in Id : Exists(id) => Len(sprites[id].checkpoints) \in Nat
  BY LenProperties DEF Shape, Sprite, Exists, Absent
<1>2. Slots = (UNION {S(i) : i \in D}) \cup (C \X {0})
  BY DEF Slots
<1>3. \A s : s \in Slots <=> (\E i \in D : s \in S(i)) \/ s \in C \X {0}
  BY <1>2
<1>4. \A i \in D : \A s : s \in S(i) <=>
          \E k \in Nat : k <= Len(sprites[i].checkpoints) /\ s = <<i, k>>
  BY <1>1
<1>5. SlotsAre
  BY <1>1, <1>3, <1>4, StoreAssumption DEF SlotsAre
<1>6. RefsAre
  BY StoreAssumption DEF RefAt, RefsAre
<1>. QED
  BY <1>5, <1>6

LEMMA SlotsLemmaNext == Shape' => SlotsAre' /\ RefsAre'
BY SlotsLemma, PTL

\* The record of a sprite that exists, and each of its checkpoints.
LEMMA SpriteType ==
    ASSUME Shape, NEW id \in Id, Exists(id)
    PROVE  /\ sprites[id] \in Sprite
           /\ sprites[id].fs \in Ref
           /\ sprites[id].checkpoints \in Seq(CheckpointRecord)
           /\ Len(sprites[id].checkpoints) \in Nat
           /\ DOMAIN sprites[id].checkpoints = 1 .. Len(sprites[id].checkpoints)
           /\ \A k \in 1 .. Len(sprites[id].checkpoints) :
                /\ sprites[id].checkpoints[k] \in CheckpointRecord
                /\ sprites[id].checkpoints[k].fs \in Ref
<1>1. sprites[id] \in Sprite
  BY DEF Shape, Exists, Absent
<1>2. /\ sprites[id].fs \in Ref
      /\ sprites[id].checkpoints \in Seq(CheckpointRecord)
  BY <1>1 DEF Sprite
<1>3. /\ Len(sprites[id].checkpoints) \in Nat
      /\ DOMAIN sprites[id].checkpoints = 1 .. Len(sprites[id].checkpoints)
  BY <1>2, LenProperties
<1>4. \A k \in 1 .. Len(sprites[id].checkpoints) :
         sprites[id].checkpoints[k] \in CheckpointRecord
  BY <1>2, ElementOfSeq
<1>. QED
  BY <1>1, <1>2, <1>3, <1>4 DEF CheckpointRecord

LEMMA HeldAreRefs == Shape => Held \subseteq Ref
<1>. SUFFICES ASSUME Shape, NEW s \in Slots
              PROVE  RefAt(s) \in Ref
  BY DEF Held
<1>1. CASE \E c \in Client : s = <<c, 0>>
  <2>. PICK c \in Client : s = <<c, 0>>
    BY <1>1
  <2>1. Reading(c)
    BY SlotsLemma DEF SlotsAre
  <2>2. view[c] \in View
    BY <2>1 DEF Shape, NoView, Reading
  <2>. QED
    BY <2>2, SlotsLemma DEF View, RefsAre
<1>2. CASE \E id \in Id, k \in Nat : s = <<id, k>>
  <2>. PICK id \in Id, k \in Nat : s = <<id, k>>
    BY <1>2
  <2>1. Exists(id) /\ k <= Len(sprites[id].checkpoints)
    BY SlotsLemma DEF SlotsAre
  <2>2. CASE k = 0
    BY <2>1, <2>2, SlotsLemma, SpriteType DEF RefsAre
  <2>3. CASE k # 0
    <3>1. k \in 1 .. Len(sprites[id].checkpoints)
      BY <2>1, <2>3, SpriteType
    <3>2. RefAt(<<id, k>>) = sprites[id].checkpoints[k].fs
      BY <2>3, SlotsLemma DEF RefsAre
    <3>. QED
      BY <2>1, <3>1, <3>2, SpriteType
  <2>. QED
    BY <2>2, <2>3
<1>. QED
  BY <1>1, <1>2, SlotsLemma DEF SlotsAre

LEMMA NewIsFree ==
    ASSUME Shape, Room
    PROVE  New \in Ref /\ New \notin Held
BY HeldAreRefs DEF Room, New

-----------------------------------------------------------------------------
(***************************************************************************)
(* A step that gives a map to at most one slot.                            *)
(***************************************************************************)
OneNew(x) ==
    /\ \A s \in Slots' : s # x => s \in Slots /\ RefAt(s)' = RefAt(s)
    /\ x \in Slots' => \/ RefAt(x)' \notin Held
                       \/ x \in Slots /\ RefAt(x)' = RefAt(x)

LEMMA OneNewKeepsApart ==
    ASSUME NoSharing, NEW x, OneNew(x)
    PROVE  NoSharing'
BY DEF NoSharing, OneNew, Held

-----------------------------------------------------------------------------
(***************************************************************************)
(* Types.                                                                  *)
(***************************************************************************)
LEMMA PartialFcnTypes ==
    ASSUME NEW S, NEW T, NEW f \in PartialFcn(S, T)
    PROVE  /\ \A n \in S, v \in T : Put(f, n, v) \in PartialFcn(S, T)
           /\ \A gone : Drop(f, gone) \in PartialFcn(S, T)
<1>. PICK R \in SUBSET S : f \in [R -> T]
  BY DEF PartialFcn
<1>1. ASSUME NEW n \in S, NEW v \in T
      PROVE  Put(f, n, v) \in PartialFcn(S, T)
  <2>1. Put(f, n, v) \in [R \cup {n} -> T]
    BY DEF Put
  <2>. QED
    BY <2>1 DEF PartialFcn
<1>2. ASSUME NEW gone
      PROVE  Drop(f, gone) \in PartialFcn(S, T)
  <2>1. Drop(f, gone) \in [R \ gone -> T]
    BY DEF Drop
  <2>. QED
    BY <2>1 DEF PartialFcn
<1>. QED
  BY <1>1, <1>2

LEMMA EmptyType ==
    ASSUME NEW S, NEW T
    PROVE  Empty \in PartialFcn(S, T)
<1>1. Empty \in [{} -> T]
  BY DEF Empty
<1>. QED
  BY <1>1 DEF PartialFcn

\* What Change writes is a sprite with the same memory and status.
SameMemory(s, t) ==
    /\ t \in Sprite
    /\ t.status = s.status /\ t.fs = s.fs /\ t.checkpoints = s.checkpoints

LEMMA ConfigureIsChange ==
    ASSUME Shape, NEW id \in Id, Live(id), Configure(id)
    PROVE  \E t : SameMemory(sprites[id], t) /\ Change(id, t)
<1>. DEFINE s == sprites[id]
<1>1. s \in Sprite
  BY SpriteType DEF Live, Exists
<1>. HIDE DEF s
<1>2. /\ s.services \in Services /\ s.tasks \in Tasks
      /\ s = [status |-> s.status, fs |-> s.fs, checkpoints |-> s.checkpoints,
              policy |-> s.policy, services |-> s.services, tasks |-> s.tasks]
  BY <1>1 DEF Sprite
<1>3. /\ \A p \in Policy : SameMemory(s, [s EXCEPT !.policy = p])
      /\ \A f \in Services : SameMemory(s, [s EXCEPT !.services = f])
      /\ \A f \in Tasks : SameMemory(s, [s EXCEPT !.tasks = f])
  BY <1>1 DEF Sprite, SameMemory
<1>4. CASE \E p \in Policy : SetPolicy(id, p)
  BY <1>3, <1>4 DEF SetPolicy, s
<1>5. ASSUME NEW n \in ServiceName, PutService(id, n)
      PROVE  \E t : SameMemory(s, t) /\ Change(id, t)
  <2>. DEFINE f == IF n \in DOMAIN s.services THEN s.services
                   ELSE Put(s.services, n, "stopped")
  <2>1. f \in Services
    BY <1>2, PartialFcnTypes DEF Services
  <2>2. Change(id, [s EXCEPT !.services = f])
    BY <1>5 DEF PutService, s
  <2>. QED
    BY <2>1, <2>2, <1>3
<1>6. ASSUME NEW n \in ServiceName, NEW state \in {"stopped", "running"},
             SetServiceState(id, n, state)
      PROVE  \E t : SameMemory(s, t) /\ Change(id, t)
  <2>1. Put(s.services, n, state) \in Services
    BY <1>2, PartialFcnTypes DEF Services
  <2>2. Change(id, [s EXCEPT !.services = Put(s.services, n, state)])
    BY <1>6 DEF SetServiceState, s
  <2>. QED
    BY <2>1, <2>2, <1>3
<1>7. ASSUME NEW n \in TaskName, NEW e \in Expiry,
             CreateTask(id, n, e) \/ RefreshTask(id, n, e)
      PROVE  \E t : SameMemory(s, t) /\ Change(id, t)
  <2>1. Put(s.tasks, n, e) \in Tasks
    BY <1>2, PartialFcnTypes DEF Tasks
  <2>2. Change(id, [s EXCEPT !.tasks = Put(s.tasks, n, e)])
    BY <1>7 DEF CreateTask, RefreshTask, s
  <2>. QED
    BY <2>1, <2>2, <1>3
<1>8. ASSUME NEW n \in TaskName, ReleaseTask(id, n)
      PROVE  \E t : SameMemory(s, t) /\ Change(id, t)
  <2>1. Drop(s.tasks, {n}) \in Tasks
    BY <1>2, PartialFcnTypes DEF Tasks
  <2>2. Change(id, [s EXCEPT !.tasks = Drop(s.tasks, {n})])
    BY <1>8 DEF ReleaseTask, s
  <2>. QED
    BY <2>1, <2>2, <1>3
<1>. QED
  BY <1>4, <1>5, <1>6, <1>7, <1>8 DEF Configure, s

LEMMA ShapeNext == Shape /\ [Next]_vars => Shape'
<1>. SUFFICES ASSUME Shape, [Next]_vars
              PROVE  Shape'
  OBVIOUS
<1>0. calls + 1 \in Nat
  BY DEF Shape
<1>1. ASSUME NEW id \in Id, Create(id)
      PROVE  Shape'
  <2>1. NewSprite(id) \in Sprite
    BY <1>1, NewIsFree, EmptyType, StoreAssumption
    DEF Create, NewSprite, Sprite, Services, Tasks
  <2>. QED
    BY <1>0, <1>1, <2>1 DEF Create, Shape, Call
<1>2. ASSUME NEW id \in Id, Checkpoint(id)
      PROVE  Shape'
  <2>. DEFINE s == sprites[id]
              cp == [id |-> Len(s.checkpoints) + 1, fs |-> New]
              t == [s EXCEPT !.checkpoints = Append(@, cp)]
  <2>1. s \in Sprite /\ s.checkpoints \in Seq(CheckpointRecord) /\ Len(s.checkpoints) \in Nat
    BY <1>2, SpriteType DEF Checkpoint, Live, Exists
  <2>2. cp \in CheckpointRecord
    BY <1>2, <2>1, NewIsFree DEF Checkpoint, CheckpointRecord
  <2>3. Append(s.checkpoints, cp) \in Seq(CheckpointRecord)
    BY <2>1, <2>2, AppendProperties
  <2>4. t \in Sprite
    <3>. HIDE DEF s, cp
    <3>. QED
      BY <2>1, <2>3 DEF Sprite
  <2>5. sprites' = [sprites EXCEPT ![id] = t]
    BY <1>2 DEF Checkpoint, NextId, Clone
  <2>. HIDE DEF t
  <2>. QED
    BY <1>0, <1>2, <2>4, <2>5 DEF Checkpoint, Copied, Shape, Call
<1>3. ASSUME NEW id \in Id, NEW k \in 1 .. MaxCheckpoints, Restore(id, k)
      PROVE  Shape'
  <2>. DEFINE t == [sprites[id] EXCEPT !.fs = New, !.status = "running"]
  <2>1. t \in Sprite
    BY <1>3, NewIsFree, SpriteType DEF Restore, Live, Exists, Sprite
  <2>2. PICK r : heap' = [heap EXCEPT ![New] = heap[r]]
    BY <1>3 DEF Restore, Copied, Clone
  <2>3. sprites' = [sprites EXCEPT ![id] = t]
    BY <1>3 DEF Restore, Clone
  <2>. HIDE DEF t
  <2>. QED
    BY <1>0, <1>3, <2>1, <2>2, <2>3 DEF Restore, Shape, Call
<1>4. ASSUME NEW id \in Id, Destroy(id)
      PROVE  Shape'
  <2>1. [sprites[id] EXCEPT !.status = "destroyed"] \in Sprite
    BY <1>4, SpriteType DEF Destroy, Live, Exists, Sprite
  <2>. QED
    BY <1>0, <1>4, <2>1 DEF Destroy, Shape, Call
<1>5. ASSUME NEW id \in Id, NEW tree, Modify(id, tree)
      PROVE  Shape'
  BY <1>0, <1>5 DEF Modify, Shape, Call
<1>6. ASSUME NEW id \in Id, Live(id), Configure(id)
      PROVE  Shape'
  <2>. PICK t : SameMemory(sprites[id], t) /\ Change(id, t)
    BY <1>6, ConfigureIsChange
  <2>. QED
    BY <1>0 DEF Change, SameMemory, Shape, Call
<1>7. ASSUME NEW c \in Client, NEW id \in Id, Get(c, id)
      PROVE  Shape'
  <2>. DEFINE v == [status |-> sprites[id].status, fs |-> New,
                    checkpoints |-> Len(sprites[id].checkpoints),
                    config |-> ConfigOf(sprites[id])]
  <2>1. v \in View
    BY <1>7, NewIsFree, SpriteType
    DEF Get, Live, Exists, Sprite, View, Config, ConfigOf
  <2>2. view' = [view EXCEPT ![c] = v]
    BY <1>7 DEF Get, Clone
  <2>. HIDE DEF v
  <2>. QED
    BY <1>0, <1>7, <2>1, <2>2 DEF Get, Copied, Shape, Call
<1>8. ASSUME NEW c \in Client, Reply(c)
      PROVE  Shape'
  BY <1>8 DEF Reply, Shape
<1>9. CASE UNCHANGED vars
  BY <1>9 DEF vars, Shape
<1>. QED
  BY <1>1, <1>2, <1>3, <1>4, <1>5, <1>6, <1>7, <1>8, <1>9
  DEF Next, Exec, WriteFile, RemoveFile

-----------------------------------------------------------------------------
(***************************************************************************)
(* What each step does to the slots and to the maps they hold.             *)
(***************************************************************************)
LEMMA CreateSlots ==
    ASSUME Shape, Shape', NEW id \in Id, Create(id)
    PROVE  OneNew(<<id, 0>>)
<1>1. /\ sprites'[id].checkpoints = <<>> /\ sprites'[id].fs = New
      /\ \A j \in Id \ {id} : sprites'[j] = sprites[j]
      /\ view' = view
  BY DEF Create, NewSprite, Shape
<1>2. ASSUME NEW s \in Slots', s # <<id, 0>>
      PROVE  s \in Slots /\ RefAt(s)' = RefAt(s)
  <2>1. CASE \E j \in Id, k \in Nat : s = <<j, k>>
    <3>. PICK j \in Id, k \in Nat : s = <<j, k>>
      BY <2>1
    <3>1. Exists(j)' /\ k <= Len(sprites'[j].checkpoints)
      BY <1>2, SlotsLemmaNext DEF SlotsAre
    <3>2. j # id
      BY <3>1, <1>1, <1>2
    <3>. QED
      BY <3>1, <3>2, <1>1, SlotsLemma, SlotsLemmaNext DEF SlotsAre, RefsAre, Exists
  <2>2. CASE \E c \in Client : s = <<c, 0>>
    BY <1>1, <1>2, <2>2, SlotsLemma, SlotsLemmaNext DEF SlotsAre, RefsAre, Reading
  <2>. QED
    BY <1>2, <2>1, <2>2, SlotsLemmaNext DEF SlotsAre
<1>3. RefAt(<<id, 0>>)' \notin Held
  BY <1>1, NewIsFree, SlotsLemmaNext DEF Create, RefsAre
<1>. QED
  BY <1>2, <1>3 DEF OneNew

LEMMA CheckpointSlots ==
    ASSUME Shape, Shape', NEW id \in Id, Checkpoint(id),
           NEW n \in Nat, n = Len(sprites[id].checkpoints)
    PROVE  OneNew(<<id, n + 1>>)
<1>. DEFINE x == <<id, n + 1>>
<1>0. /\ Exists(id) /\ Room
      /\ sprites[id].checkpoints \in Seq(CheckpointRecord)
  BY SpriteType DEF Checkpoint, Live, Exists
<1>1. /\ \E cp : /\ cp.fs = New
                 /\ sprites'[id].checkpoints = Append(sprites[id].checkpoints, cp)
      /\ sprites'[id].fs = sprites[id].fs
      /\ sprites'[id].status = sprites[id].status
      /\ \A j \in Id \ {id} : sprites'[j] = sprites[j]
      /\ view' = view
  <2>. DEFINE cp == [id |-> NextId(sprites[id].checkpoints), fs |-> New]
  <2>1. sprites' = [sprites EXCEPT ![id] = [sprites[id] EXCEPT !.checkpoints = Append(@, cp)]]
    BY DEF Checkpoint, Clone
  <2>2. cp.fs = New
    OBVIOUS
  <2>. HIDE DEF cp
  <2>3. sprites[id] \in Sprite
    BY <1>0, SpriteType
  <2>. QED
    BY <2>1, <2>2, <2>3 DEF Checkpoint, Shape, Sprite
<1>2. /\ Len(sprites'[id].checkpoints) = n + 1
      /\ sprites'[id].checkpoints[n + 1].fs = New
      /\ \A k \in 1 .. n : sprites'[id].checkpoints[k] = sprites[id].checkpoints[k]
  BY <1>0, <1>1, AppendProperties
<1>3. ASSUME NEW s \in Slots', s # x
      PROVE  s \in Slots /\ RefAt(s)' = RefAt(s)
  <2>1. CASE \E j \in Id, k \in Nat : s = <<j, k>>
    <3>. PICK j \in Id, k \in Nat : s = <<j, k>>
      BY <2>1
    <3>1. Exists(j)' /\ k <= Len(sprites'[j].checkpoints)
      BY <1>3, SlotsLemmaNext DEF SlotsAre
    <3>2. CASE j # id
      BY <3>1, <3>2, <1>1, SlotsLemma, SlotsLemmaNext DEF SlotsAre, RefsAre, Exists
    <3>3. CASE j = id
      <4>1. k <= n
        BY <1>0, <1>2, <1>3, <3>1, <3>3
      <4>2. s \in Slots
        BY <1>0, <4>1, <3>3, SlotsLemma DEF SlotsAre
      <4>3. CASE k = 0
        BY <1>1, <3>3, <4>2, <4>3, SlotsLemma, SlotsLemmaNext DEF RefsAre
      <4>4. CASE k # 0
        <5>1. k \in 1 .. n /\ k \in Nat \ {0}
          BY <1>0, <4>1, <4>4
        <5>2. RefAt(<<id, k>>)' = sprites'[id].checkpoints[k].fs
          BY <5>1, SlotsLemmaNext DEF RefsAre
        <5>3. RefAt(<<id, k>>) = sprites[id].checkpoints[k].fs
          BY <5>1, SlotsLemma DEF RefsAre
        <5>. QED
          BY <1>2, <3>3, <4>2, <5>1, <5>2, <5>3
      <4>. QED
        BY <4>3, <4>4
    <3>. QED
      BY <3>2, <3>3
  <2>2. CASE \E c \in Client : s = <<c, 0>>
    BY <1>1, <1>3, <2>2, SlotsLemma, SlotsLemmaNext DEF SlotsAre, RefsAre, Reading
  <2>. QED
    BY <1>3, <2>1, <2>2, SlotsLemmaNext DEF SlotsAre
<1>4. RefAt(x)' \notin Held
  <2>1. n + 1 \in Nat \ {0}
    OBVIOUS
  <2>2. RefAt(<<id, n + 1>>)' = sprites'[id].checkpoints[n + 1].fs
    BY <2>1, SlotsLemmaNext DEF RefsAre
  <2>. QED
    BY <1>0, <1>2, <2>2, NewIsFree
<1>. QED
  BY <1>3, <1>4 DEF OneNew

LEMMA RestoreSlots ==
    ASSUME Shape, Shape', NEW id \in Id, NEW k \in 1 .. MaxCheckpoints, Restore(id, k)
    PROVE  OneNew(<<id, 0>>)
<1>0. Exists(id) /\ Room /\ sprites[id] \in Sprite
  BY SpriteType DEF Restore, Live, Exists
<1>1. /\ sprites'[id].fs = New
      /\ sprites'[id].checkpoints = sprites[id].checkpoints
      /\ \A j \in Id \ {id} : sprites'[j] = sprites[j]
      /\ view' = view
  BY <1>0 DEF Restore, Clone, Shape, Sprite
<1>2. ASSUME NEW s \in Slots', s # <<id, 0>>
      PROVE  s \in Slots /\ RefAt(s)' = RefAt(s)
  <2>1. CASE \E j \in Id, m \in Nat : s = <<j, m>>
    <3>. PICK j \in Id, m \in Nat : s = <<j, m>>
      BY <2>1
    <3>1. Exists(j)' /\ m <= Len(sprites'[j].checkpoints)
      BY <1>2, SlotsLemmaNext DEF SlotsAre
    <3>2. CASE j # id
      BY <3>1, <3>2, <1>1, SlotsLemma, SlotsLemmaNext DEF SlotsAre, RefsAre, Exists
    <3>3. CASE j = id
      <4>1. m # 0 /\ s = <<id, m>>
        BY <1>2, <3>3
      <4>2. s \in Slots
        BY <1>0, <1>1, <3>1, <3>3, SlotsLemma DEF SlotsAre
      <4>3. RefAt(<<id, m>>)' = RefAt(<<id, m>>)
        BY <1>1, <4>1, SlotsLemma, SlotsLemmaNext DEF RefsAre
      <4>. QED
        BY <4>1, <4>2, <4>3
    <3>. QED
      BY <3>2, <3>3
  <2>2. CASE \E c \in Client : s = <<c, 0>>
    BY <1>1, <1>2, <2>2, SlotsLemma, SlotsLemmaNext DEF SlotsAre, RefsAre, Reading
  <2>. QED
    BY <1>2, <2>1, <2>2, SlotsLemmaNext DEF SlotsAre
<1>3. RefAt(<<id, 0>>)' \notin Held
  BY <1>0, <1>1, NewIsFree, SlotsLemmaNext DEF RefsAre
<1>. QED
  BY <1>2, <1>3 DEF OneNew

LEMMA GetSlots ==
    ASSUME Shape, Shape', NEW c \in Client, NEW id \in Id, Get(c, id)
    PROVE  OneNew(<<c, 0>>)
<1>1. /\ view'[c].fs = New
      /\ \A d \in Client \ {c} : view'[d] = view[d]
      /\ sprites' = sprites
      /\ Room
  BY DEF Get, Clone, Shape
<1>2. ASSUME NEW s \in Slots', s # <<c, 0>>
      PROVE  s \in Slots /\ RefAt(s)' = RefAt(s)
  <2>1. CASE \E j \in Id, k \in Nat : s = <<j, k>>
    BY <1>1, <1>2, <2>1, SlotsLemma, SlotsLemmaNext DEF SlotsAre, RefsAre, Exists
  <2>2. CASE \E d \in Client : s = <<d, 0>>
    BY <1>1, <1>2, <2>2, SlotsLemma, SlotsLemmaNext DEF SlotsAre, RefsAre, Reading
  <2>. QED
    BY <1>2, <2>1, <2>2, SlotsLemmaNext DEF SlotsAre
<1>3. RefAt(<<c, 0>>)' \notin Held
  BY <1>1, NewIsFree, SlotsLemmaNext DEF RefsAre
<1>. QED
  BY <1>2, <1>3 DEF OneNew

\* The other steps: no slot gets a map.
NothingNew == \A s \in Slots' : s \in Slots /\ RefAt(s)' = RefAt(s)

LEMMA NothingNewKeepsApart ==
    ASSUME NoSharing, NothingNew
    PROVE  NoSharing'
BY DEF NoSharing, NothingNew

LEMMA OtherSlots ==
    ASSUME Shape, Shape',
           \A id \in Id :
              /\ sprites'[id].checkpoints = sprites[id].checkpoints
              /\ sprites'[id].fs = sprites[id].fs
              /\ Exists(id)' = Exists(id),
           \A c \in Client : view'[c] = view[c] \/ ~Reading(c)'
    PROVE  NothingNew
<1>. SUFFICES ASSUME NEW s \in Slots'
              PROVE  s \in Slots /\ RefAt(s)' = RefAt(s)
  BY DEF NothingNew
<1>1. CASE \E j \in Id, k \in Nat : s = <<j, k>>
  BY <1>1, SlotsLemma, SlotsLemmaNext DEF SlotsAre, RefsAre
<1>2. CASE \E c \in Client : s = <<c, 0>>
  BY <1>2, SlotsLemma, SlotsLemmaNext DEF SlotsAre, RefsAre, Reading
<1>. QED
  BY <1>1, <1>2, SlotsLemmaNext DEF SlotsAre

LEMMA ModifySlots ==
    ASSUME Shape, Shape', NEW id \in Id, NEW tree, Modify(id, tree)
    PROVE  NothingNew
BY OtherSlots DEF Modify, Exists

LEMMA ChangeSlots ==
    ASSUME Shape, Shape', NEW id \in Id, NEW t, SameMemory(sprites[id], t), Change(id, t)
    PROVE  NothingNew
<1>1. /\ sprites'[id] = t
      /\ \A j \in Id \ {id} : sprites'[j] = sprites[j]
      /\ view' = view
  BY DEF Change, Shape
<1>. QED
  BY <1>1, OtherSlots DEF SameMemory, Exists

LEMMA DestroySlots ==
    ASSUME Shape, Shape', NEW id \in Id, Destroy(id)
    PROVE  NothingNew
<1>1. sprites[id] \in Sprite
  BY SpriteType DEF Destroy, Live, Exists
<1>2. /\ sprites'[id] = [sprites[id] EXCEPT !.status = "destroyed"]
      /\ \A j \in Id \ {id} : sprites'[j] = sprites[j]
      /\ view' = view
  BY DEF Destroy, Shape
<1>3. /\ sprites'[id].checkpoints = sprites[id].checkpoints
      /\ sprites'[id].fs = sprites[id].fs
      /\ Exists(id)' /\ Exists(id)
  BY <1>1, <1>2 DEF Sprite, Exists
<1>. QED
  BY <1>2, <1>3, OtherSlots DEF Exists

LEMMA ReplySlots ==
    ASSUME Shape, Shape', NEW c \in Client, Reply(c)
    PROVE  NothingNew
<1>1. /\ view'[c] = NoView
      /\ \A d \in Client \ {c} : view'[d] = view[d]
      /\ sprites' = sprites
  BY DEF Reply, Shape
<1>. QED
  BY <1>1, OtherSlots DEF Reading, NoView, Exists

-----------------------------------------------------------------------------
(***************************************************************************)
(* The maps that stay as they are.                                         *)
(***************************************************************************)
MapsKept == \A s \in Slots : heap'[RefAt(s)] = heap[RefAt(s)]

LEMMA NewMapKeeps ==
    ASSUME Shape, Room, NEW v, heap' = [heap EXCEPT ![New] = v]
    PROVE  MapsKept /\ heap'[New] = v
<1>1. \A s \in Slots : RefAt(s) \in Ref /\ RefAt(s) # New
  BY NewIsFree, HeldAreRefs DEF Held
<1>. QED
  BY <1>1, NewIsFree DEF Shape, MapsKept

LEMMA ModifyKeeps ==
    ASSUME Shape, NoSharing, NEW id \in Id, NEW tree, Modify(id, tree)
    PROVE  /\ heap'[sprites[id].fs] = tree
           /\ \A s \in Slots : s # <<id, 0>> => heap'[RefAt(s)] = heap[RefAt(s)]
<1>1. Exists(id) /\ sprites[id].fs \in Ref /\ Len(sprites[id].checkpoints) \in Nat
  BY SpriteType DEF Modify, Live, Exists
<1>2. <<id, 0>> \in Slots /\ RefAt(<<id, 0>>) = sprites[id].fs
  BY <1>1, SlotsLemma DEF SlotsAre, RefsAre
<1>3. \A s \in Slots : s # <<id, 0>> => RefAt(s) # sprites[id].fs
  BY <1>2 DEF NoSharing
<1>4. \A s \in Slots : RefAt(s) \in Ref
  BY HeldAreRefs DEF Held
<1>. QED
  BY <1>1, <1>3, <1>4 DEF Modify, Shape

-----------------------------------------------------------------------------
(***************************************************************************)
(* The inductive invariant.                                                *)
(***************************************************************************)
LEMMA InitIInv == Init => IInv
<1>. SUFFICES ASSUME Init
              PROVE  IInv
  OBVIOUS
<1>1. Shape
  BY DEF Init, Shape
<1>2. Slots = {}
  BY <1>1, SlotsLemma DEF SlotsAre, Init, Exists, Reading, Absent, NoView
<1>. QED
  BY <1>1, <1>2 DEF IInv, NoSharing, Numbered, Init, Exists, Absent

LEMMA NextSharing ==
    ASSUME Shape, Shape', NoSharing, [Next]_vars
    PROVE  NoSharing'
<1>1. ASSUME NEW id \in Id, Create(id)
      PROVE  NoSharing'
  BY <1>1, CreateSlots, OneNewKeepsApart
<1>2. ASSUME NEW id \in Id, Checkpoint(id)
      PROVE  NoSharing'
  <2>1. Len(sprites[id].checkpoints) \in Nat
    BY <1>2, SpriteType DEF Checkpoint, Live, Exists
  <2>. PICK n \in Nat : n = Len(sprites[id].checkpoints)
    BY <2>1
  <2>. QED
    BY <1>2, CheckpointSlots, OneNewKeepsApart
<1>3. ASSUME NEW id \in Id, NEW k \in 1 .. MaxCheckpoints, Restore(id, k)
      PROVE  NoSharing'
  BY <1>3, RestoreSlots, OneNewKeepsApart
<1>4. ASSUME NEW id \in Id, Destroy(id)
      PROVE  NoSharing'
  BY <1>4, DestroySlots, NothingNewKeepsApart
<1>5. ASSUME NEW id \in Id, NEW tree, Modify(id, tree)
      PROVE  NoSharing'
  BY <1>5, ModifySlots, NothingNewKeepsApart
<1>6. ASSUME NEW id \in Id, Live(id), Configure(id)
      PROVE  NoSharing'
  BY <1>6, ConfigureIsChange, ChangeSlots, NothingNewKeepsApart
<1>7. ASSUME NEW c \in Client, NEW id \in Id, Get(c, id)
      PROVE  NoSharing'
  BY <1>7, GetSlots, OneNewKeepsApart
<1>8. ASSUME NEW c \in Client, Reply(c)
      PROVE  NoSharing'
  BY <1>8, ReplySlots, NothingNewKeepsApart
<1>9. CASE UNCHANGED vars
  BY <1>9 DEF vars, NoSharing, Slots, RefAt, Exists, Reading
<1>. QED
  BY <1>1, <1>2, <1>3, <1>4, <1>5, <1>6, <1>7, <1>8, <1>9
  DEF Next, Exec, WriteFile, RemoveFile

(***************************************************************************)
(* What a step does to the checkpoints of a sprite: they go when the name  *)
(* is created anew, a checkpoint adds one, and otherwise they stay.        *)
(***************************************************************************)
LEMMA CheckpointsStep ==
    ASSUME Shape, Shape', [Next]_vars, NEW i \in Id, Exists(i)
    PROVE  /\ Exists(i)'
           /\ \/ sprites'[i].checkpoints = sprites[i].checkpoints
              \/ sprites'[i].checkpoints = <<>>
              \/ \E r : sprites'[i].checkpoints =
                    Append(sprites[i].checkpoints,
                           [id |-> Len(sprites[i].checkpoints) + 1, fs |-> r])
<1>. DEFINE P == /\ Exists(i)'
                 /\ \/ sprites'[i].checkpoints = sprites[i].checkpoints
                    \/ sprites'[i].checkpoints = <<>>
                    \/ \E r : sprites'[i].checkpoints =
                          Append(sprites[i].checkpoints,
                                 [id |-> Len(sprites[i].checkpoints) + 1, fs |-> r])
<1>0. sprites[i] \in Sprite
  BY SpriteType
<1>1. ASSUME NEW id \in Id, Create(id)
      PROVE  P
  BY <1>1 DEF Create, NewSprite, Shape, Exists
<1>2. ASSUME NEW id \in Id, Checkpoint(id)
      PROVE  P
  <2>1. CASE id = i
    <3>. DEFINE cp == [id |-> Len(sprites[i].checkpoints) + 1, fs |-> New]
    <3>1. sprites' = [sprites EXCEPT ![i] =
                        [sprites[i] EXCEPT !.checkpoints = Append(@, cp)]]
      BY <1>2, <2>1 DEF Checkpoint, Clone, NextId
    <3>2. \E r : cp = [id |-> Len(sprites[i].checkpoints) + 1, fs |-> r]
      OBVIOUS
    <3>. HIDE DEF cp
    <3>3. /\ sprites'[i].checkpoints = Append(sprites[i].checkpoints, cp)
          /\ sprites'[i].status = sprites[i].status
      BY <1>0, <3>1 DEF Sprite, Shape
    <3>. QED
      BY <3>2, <3>3 DEF Exists
  <2>2. CASE id # i
    BY <1>2, <2>2 DEF Checkpoint, Shape, Exists
  <2>. QED
    BY <2>1, <2>2
<1>3. ASSUME NEW id \in Id, NEW k \in 1 .. MaxCheckpoints, Restore(id, k)
      PROVE  P
  BY <1>0, <1>3 DEF Restore, Shape, Exists, Sprite
<1>4. ASSUME NEW id \in Id, Destroy(id)
      PROVE  P
  BY <1>0, <1>4 DEF Destroy, Shape, Exists, Sprite
<1>5. ASSUME NEW id \in Id, NEW tree, Modify(id, tree)
      PROVE  P
  BY <1>5 DEF Modify, Exists
<1>6. ASSUME NEW id \in Id, Live(id), Configure(id)
      PROVE  P
  <2>. PICK t : SameMemory(sprites[id], t) /\ Change(id, t)
    BY <1>6, ConfigureIsChange
  <2>. QED
    BY DEF Change, SameMemory, Shape, Exists
<1>7. ASSUME NEW c \in Client, NEW id \in Id, Get(c, id)
      PROVE  P
  BY <1>7 DEF Get, Exists
<1>8. ASSUME NEW c \in Client, Reply(c)
      PROVE  P
  BY <1>8 DEF Reply, Exists
<1>9. CASE UNCHANGED vars
  BY <1>9 DEF vars, Exists
<1>. QED
  BY <1>1, <1>2, <1>3, <1>4, <1>5, <1>6, <1>7, <1>8, <1>9
  DEF Next, Exec, WriteFile, RemoveFile

LEMMA NewSpriteStep ==
    ASSUME Shape, [Next]_vars, NEW i \in Id, ~Exists(i), Exists(i)'
    PROVE  sprites'[i].checkpoints = <<>>
<1>1. ASSUME NEW id \in Id, Create(id)
      PROVE  sprites'[i].checkpoints = <<>>
  BY <1>1 DEF Create, NewSprite, Shape, Exists
<1>2. ASSUME sprites'[i] = sprites[i]
      PROVE  FALSE
  BY <1>2 DEF Exists
<1>3. ASSUME NEW id \in Id, Live(id), NEW s, sprites' = [sprites EXCEPT ![id] = s]
      PROVE  FALSE
  BY <1>2, <1>3 DEF Live, Exists, Shape
<1>4. ASSUME NEW id \in Id, Checkpoint(id)
      PROVE  FALSE
  BY <1>3, <1>4 DEF Checkpoint
<1>5. ASSUME NEW id \in Id, NEW k \in 1 .. MaxCheckpoints, Restore(id, k)
      PROVE  FALSE
  BY <1>3, <1>5 DEF Restore
<1>6. ASSUME NEW id \in Id, Destroy(id)
      PROVE  FALSE
  BY <1>3, <1>6 DEF Destroy
<1>7. ASSUME NEW id \in Id, NEW tree, Modify(id, tree)
      PROVE  FALSE
  BY <1>2, <1>7 DEF Modify
<1>8. ASSUME NEW id \in Id, Live(id), Configure(id)
      PROVE  FALSE
  BY <1>3, <1>8, ConfigureIsChange DEF Change
<1>9. ASSUME NEW c \in Client, (\E id \in Id : Get(c, id)) \/ Reply(c)
      PROVE  FALSE
  BY <1>2, <1>9 DEF Get, Reply
<1>10. CASE UNCHANGED vars
  BY <1>2, <1>10 DEF vars
<1>. QED
  BY <1>1, <1>4, <1>5, <1>6, <1>7, <1>8, <1>9, <1>10
  DEF Next, Exec, WriteFile, RemoveFile

LEMMA NextNumbered ==
    ASSUME Shape, Shape', Numbered, [Next]_vars
    PROVE  Numbered'
<1>. SUFFICES ASSUME NEW i \in Id, Exists(i)',
                     NEW k \in DOMAIN sprites'[i].checkpoints
              PROVE  sprites'[i].checkpoints[k].id = k
  BY DEF Numbered
<1>1. CASE sprites'[i].checkpoints = <<>>
  BY <1>1
<1>2. CASE Exists(i) /\ sprites'[i].checkpoints = sprites[i].checkpoints
  BY <1>2 DEF Numbered
<1>3. ASSUME Exists(i), NEW r,
             sprites'[i].checkpoints =
                Append(sprites[i].checkpoints,
                       [id |-> Len(sprites[i].checkpoints) + 1, fs |-> r])
      PROVE  sprites'[i].checkpoints[k].id = k
  <2>. DEFINE cps == sprites[i].checkpoints
              cp == [id |-> Len(cps) + 1, fs |-> r]
  <2>1. cps \in Seq(CheckpointRecord) /\ DOMAIN cps = 1 .. Len(cps) /\ Len(cps) \in Nat
    BY <1>3, SpriteType
  <2>2. cp.id = Len(cps) + 1
    OBVIOUS
  <2>3. \A m \in 1 .. Len(cps) : cps[m].id = m
    BY <1>3, <2>1 DEF Numbered
  <2>. HIDE DEF cp
  <2>4. sprites'[i].checkpoints = Append(cps, cp)
    BY <1>3 DEF cp
  <2>. HIDE DEF cps
  <2>5. /\ DOMAIN Append(cps, cp) = 1 .. Len(cps) + 1
        /\ Append(cps, cp)[Len(cps) + 1] = cp
        /\ \A m \in 1 .. Len(cps) : Append(cps, cp)[m] = cps[m]
    BY <2>1
  <2>. QED
    BY <2>1, <2>2, <2>3, <2>4, <2>5
<1>. QED
  BY <1>1, <1>2, <1>3, CheckpointsStep, NewSpriteStep

LEMMA NextIInv == IInv /\ [Next]_vars => IInv'
BY ShapeNext, NextSharing, NextNumbered DEF IInv

-----------------------------------------------------------------------------
(***************************************************************************)
(* In every reachable state the store is well shaped (the records, the     *)
(* references), no two holders of files share a map, and v<k> is the k-th  *)
(* checkpoint: what cloneFS in Checkpoint, Restore and Get is for.         *)
(***************************************************************************)
THEOREM Invariant == Spec => []IInv
BY InitIInv, NextIInv, PTL DEF Spec

(***************************************************************************)
(* No step of anybody gives two holders (files, checkpoints, replies) the  *)
(* same map (cloneFS, sprite.go).                                          *)
(***************************************************************************)
THEOREM NothingShared == Spec => []NoSharing
BY Invariant, PTL DEF IInv

(***************************************************************************)
(* The id "v<k>" that a restore looks up always finds the k-th checkpoint  *)
(* (Checkpoint's numbering, sprite.go).                                    *)
(***************************************************************************)
THEOREM CheckpointsNumbered == Spec => []Numbered
BY Invariant, PTL DEF IInv

-----------------------------------------------------------------------------
(***************************************************************************)
(* No step changes a map other than the files of a sprite.                 *)
(***************************************************************************)
LEMMA CheckpointMapsKept ==
    ASSUME Shape, NoSharing, [Next]_vars, NEW i \in Id, NEW k \in Nat \ {0},
           <<i, k>> \in Slots
    PROVE  heap'[RefAt(<<i, k>>)] = heap[RefAt(<<i, k>>)]
<1>. DEFINE P == heap'[RefAt(<<i, k>>)] = heap[RefAt(<<i, k>>)]
<1>1. ASSUME NEW v, Room, heap' = [heap EXCEPT ![New] = v]
      PROVE  P
  BY <1>1, NewMapKeeps DEF MapsKept
<1>2. ASSUME NEW id \in Id, NEW tree, Modify(id, tree)
      PROVE  P
  BY <1>2, ModifyKeeps
<1>3. ASSUME NEW id \in Id, Create(id) \/ Checkpoint(id)
      PROVE  P
  BY <1>1, <1>3 DEF Create, Checkpoint, Copied, Clone
<1>4. ASSUME NEW id \in Id, NEW m \in 1 .. MaxCheckpoints, Restore(id, m)
      PROVE  P
  BY <1>1, <1>4 DEF Restore, Copied, Clone
<1>5. ASSUME NEW c \in Client, NEW id \in Id, Get(c, id)
      PROVE  P
  BY <1>1, <1>5 DEF Get, Copied, Clone
<1>6. ASSUME NEW id \in Id, Live(id), Configure(id)
      PROVE  P
  BY <1>6, ConfigureIsChange DEF Change
<1>7. ASSUME heap' = heap
      PROVE  P
  BY <1>7
<1>. QED
  BY <1>2, <1>3, <1>4, <1>5, <1>6, <1>7
  DEF Next, Exec, WriteFile, RemoveFile, Destroy, Reply, vars

LEMMA FrozenStep ==
    ASSUME Shape, Shape', NoSharing, [Next]_vars, NEW i \in Id, Exists(i),
           NEW k \in DOMAIN sprites[i].checkpoints \cap DOMAIN sprites'[i].checkpoints
    PROVE  heap'[sprites'[i].checkpoints[k].fs] = heap[sprites[i].checkpoints[k].fs]
<1>. DEFINE cps == sprites[i].checkpoints
<1>1. cps \in Seq(CheckpointRecord) /\ DOMAIN cps = 1 .. Len(cps) /\ Len(cps) \in Nat
  BY SpriteType
<1>2. k \in 1 .. Len(cps) /\ k \in Nat \ {0}
  BY <1>1
<1>3. sprites'[i].checkpoints[k] = cps[k]
  <2>1. CASE sprites'[i].checkpoints = <<>>
    BY <2>1
  <2>2. CASE \E cp : sprites'[i].checkpoints = Append(cps, cp)
    <3>. HIDE DEF cps
    <3>. QED
      BY <1>1, <1>2, <2>2
  <2>. QED
    BY <2>1, <2>2, CheckpointsStep
<1>4. <<i, k>> \in Slots /\ RefAt(<<i, k>>) = cps[k].fs
  BY <1>1, <1>2, SlotsLemma DEF SlotsAre, RefsAre
<1>. QED
  BY <1>2, <1>3, <1>4, CheckpointMapsKept

(***************************************************************************)
(* A checkpoint, once made, never changes, whatever is executed, written,  *)
(* restored or read (docs/fidelity.md, checkpoint and restore).            *)
(***************************************************************************)
THEOREM Frozen == Spec => CheckpointsFrozen
<1>1. Shape /\ Shape' /\ NoSharing /\ [Next]_vars =>
        [\A id \in Id : Exists(id) =>
          \A k \in DOMAIN sprites[id].checkpoints \cap DOMAIN sprites'[id].checkpoints :
              heap'[sprites'[id].checkpoints[k].fs] = heap[sprites[id].checkpoints[k].fs]]_vars
  BY FrozenStep
<1>. QED
  BY <1>1, Invariant, PTL DEF Spec, IInv, CheckpointsFrozen

-----------------------------------------------------------------------------
(***************************************************************************)
(* The values of the sprites and replies, and those a step leaves alone.   *)
(***************************************************************************)
LEMMA ValuesAre ==
    /\ \A i \in Id : SpriteValues[i] = IF Live(i) THEN SpriteValue(sprites[i]) ELSE Absent
    /\ SpriteValues = [i \in Id |-> SpriteValues[i]]
    /\ ViewValues = [c \in Client |-> ViewValues[c]]
BY DEF SpriteValues, ViewValues

LEMMA ValuesAreNext ==
    /\ \A i \in Id : SpriteValues'[i] = IF Live(i)' THEN SpriteValue(sprites[i])' ELSE Absent
    /\ SpriteValues' = [i \in Id |-> SpriteValues'[i]]
    /\ ViewValues' = [c \in Client |-> ViewValues'[c]]
BY DEF SpriteValues, ViewValues, Absent

\* The slots of a live sprite, and those of a client that reads.
LEMMA LiveSlots ==
    ASSUME Shape, NEW i \in Id, Live(i)
    PROVE  /\ <<i, 0>> \in Slots /\ RefAt(<<i, 0>>) = sprites[i].fs
           /\ \A k \in DOMAIN sprites[i].checkpoints :
                /\ <<i, k>> \in Slots /\ k \in Nat \ {0}
                /\ RefAt(<<i, k>>) = sprites[i].checkpoints[k].fs
<1>1. Exists(i) /\ Len(sprites[i].checkpoints) \in Nat
      /\ DOMAIN sprites[i].checkpoints = 1 .. Len(sprites[i].checkpoints)
  BY SpriteType DEF Live, Exists
<1>2. \A k \in DOMAIN sprites[i].checkpoints :
         k \in Nat \ {0} /\ k <= Len(sprites[i].checkpoints)
  BY <1>1
<1>. QED
  BY <1>1, <1>2, SlotsLemma DEF SlotsAre, RefsAre

LEMMA SpriteKept ==
    ASSUME Shape, NEW i \in Id, sprites'[i] = sprites[i],
           \A k \in Nat : <<i, k>> \in Slots => heap'[RefAt(<<i, k>>)] = heap[RefAt(<<i, k>>)]
    PROVE  SpriteValues'[i] = SpriteValues[i]
<1>1. Live(i)' = Live(i)
  BY DEF Live
<1>2. CASE ~Live(i)
  BY <1>1, <1>2, ValuesAre, ValuesAreNext
<1>3. CASE Live(i)
  <2>1. heap'[sprites[i].fs] = heap[sprites[i].fs]
    <3>1. <<i, 0>> \in Slots /\ RefAt(<<i, 0>>) = sprites[i].fs
      BY <1>3, LiveSlots
    <3>2. heap'[RefAt(<<i, 0>>)] = heap[RefAt(<<i, 0>>)]
      BY <3>1
    <3>. QED
      BY <3>1, <3>2
  <2>2. \A k \in DOMAIN sprites[i].checkpoints :
           heap'[sprites[i].checkpoints[k].fs] = heap[sprites[i].checkpoints[k].fs]
    <3>. SUFFICES ASSUME NEW k \in DOMAIN sprites[i].checkpoints
                  PROVE  heap'[sprites[i].checkpoints[k].fs] =
                            heap[sprites[i].checkpoints[k].fs]
      OBVIOUS
    <3>1. /\ <<i, k>> \in Slots /\ k \in Nat
          /\ RefAt(<<i, k>>) = sprites[i].checkpoints[k].fs
      BY <1>3, LiveSlots
    <3>2. heap'[RefAt(<<i, k>>)] = heap[RefAt(<<i, k>>)]
      BY <3>1
    <3>. QED
      BY <3>1, <3>2
  <2>3. SpriteValue(sprites[i])' = SpriteValue(sprites[i])
    BY <2>1, <2>2 DEF SpriteValue, ConfigOf
  <2>. QED
    BY <1>1, <1>3, <2>3, ValuesAre, ValuesAreNext
<1>. QED
  BY <1>2, <1>3

LEMMA ViewKept ==
    ASSUME Shape, NEW c \in Client, view'[c] = view[c],
           <<c, 0>> \in Slots => heap'[RefAt(<<c, 0>>)] = heap[RefAt(<<c, 0>>)]
    PROVE  ViewValues'[c] = ViewValues[c]
<1>1. Reading(c)' = Reading(c)
  BY DEF Reading
<1>2. Reading(c) => heap'[view[c].fs] = heap[view[c].fs]
  BY SlotsLemma DEF SlotsAre, RefsAre
<1>. QED
  BY <1>1, <1>2 DEF ViewValues, NoView

\* A sprite takes a new value, nothing else changes.
LEMMA OneSprite ==
    ASSUME NEW i \in Id, NEW v, SpriteValues'[i] = v,
           \A j \in Id \ {i} : SpriteValues'[j] = SpriteValues[j]
    PROVE  SpriteValues' = [SpriteValues EXCEPT ![i] = v]
BY ValuesAre, ValuesAreNext

LEMMA AllViewsKept ==
    ASSUME \A c \in Client : ViewValues'[c] = ViewValues[c]
    PROVE  ViewValues' = ViewValues
BY ValuesAre, ValuesAreNext

\* The fields of a sprite's value.
LEMMA LiveValue ==
    ASSUME Shape, NEW i \in Id, Live(i)
    PROVE  SpriteValues[i] =
             [status |-> "running", fs |-> heap[sprites[i].fs],
              checkpoints |-> [k \in DOMAIN sprites[i].checkpoints |->
                                heap[sprites[i].checkpoints[k].fs]],
              config |-> ConfigOf(sprites[i])]
<1>1. sprites[i] \in Sprite
  BY SpriteType DEF Live, Exists
<1>. QED
  BY <1>1, ValuesAre DEF SpriteValue, Live, Sprite

LEMMA LiveValueNext ==
    ASSUME Shape', NEW i \in Id, Live(i)'
    PROVE  SpriteValues'[i] =
             [status |-> "running", fs |-> heap'[sprites'[i].fs],
              checkpoints |-> [k \in DOMAIN sprites'[i].checkpoints |->
                                heap'[sprites'[i].checkpoints[k].fs]],
              config |-> ConfigOf(sprites'[i])]
<1>1. sprites'[i] \in Sprite
  BY DEF Shape, Live, Exists, Absent
<1>. QED
  BY <1>1, ValuesAreNext DEF SpriteValue, Live, Sprite, ConfigOf

-----------------------------------------------------------------------------
(***************************************************************************)
(* Every step is a step of the store of values.                            *)
(***************************************************************************)
AbstractChange(id) == Values!Change(id) /\ ViewValues' = ViewValues

\* What a new map leaves alone: every value, unless the record changed.
LEMMA NewMapFrame ==
    ASSUME Shape, MapsKept
    PROVE  /\ \A i \in Id : sprites'[i] = sprites[i] => SpriteValues'[i] = SpriteValues[i]
           /\ \A c \in Client : view'[c] = view[c] => ViewValues'[c] = ViewValues[c]
BY SpriteKept, ViewKept DEF MapsKept

LEMMA CreateImplements ==
    ASSUME Shape, Shape', NEW id \in Id, Create(id)
    PROVE  AbstractChange(id)
<1>1. /\ sprites'[id] = NewSprite(id)
      /\ \A j \in Id \ {id} : sprites'[j] = sprites[j]
      /\ view' = view
  BY DEF Create, Shape
<1>2. MapsKept /\ heap'[New] = Empty
  BY NewMapKeeps DEF Create
<1>3. Live(id)'
  BY <1>1 DEF Live, NewSprite
<1>. DEFINE config == ConfigOf(sprites'[id])
<1>4. SpriteValues'[id] =
        [status |-> "running", fs |-> Empty, checkpoints |-> <<>>, config |-> config]
  <2>1. sprites'[id].fs = New /\ sprites'[id].checkpoints = <<>>
    BY <1>1 DEF NewSprite
  <2>2. [k \in DOMAIN sprites'[id].checkpoints |->
            heap'[sprites'[id].checkpoints[k].fs]] = <<>>
    BY <2>1
  <2>. HIDE DEF config
  <2>3. config = ConfigOf(sprites'[id])
    BY DEF config
  <2>. QED
    BY <1>2, <1>3, <2>1, <2>2, <2>3, LiveValueNext
<1>. HIDE DEF config
<1>5. \A j \in Id \ {id} : SpriteValues'[j] = SpriteValues[j]
  BY <1>1, <1>2, NewMapFrame
<1>6. ViewValues' = ViewValues
  BY <1>1, <1>2, NewMapFrame, AllViewsKept
<1>7. SpriteValues' = [SpriteValues EXCEPT ![id] = Values!Fresh(SpriteValues'[id].config)]
  <2>1. SpriteValues'[id] = Values!Fresh(SpriteValues'[id].config)
    BY <1>4 DEF Values!Fresh
  <2>. QED
    BY <1>5, <2>1, OneSprite
<1>8. SpriteValues'[id].status = "running"
  BY <1>4
<1>. QED
  BY <1>6, <1>7, <1>8 DEF AbstractChange, Values!Change, Values!Create

LEMMA CheckpointImplements ==
    ASSUME Shape, Shape', NEW id \in Id, Checkpoint(id)
    PROVE  AbstractChange(id)
<1>. DEFINE s == sprites[id]
            cps == sprites[id].checkpoints
            cp == [id |-> NextId(cps), fs |-> New]
<1>0. /\ Live(id) /\ Exists(id) /\ s \in Sprite
      /\ cps \in Seq(CheckpointRecord) /\ Len(cps) \in Nat /\ DOMAIN cps = 1 .. Len(cps)
  BY SpriteType DEF Checkpoint, Live, Exists
<1>1. /\ sprites'[id] = [s EXCEPT !.checkpoints = Append(cps, cp)]
      /\ \A j \in Id \ {id} : sprites'[j] = sprites[j]
      /\ view' = view
      /\ Room /\ heap' = [heap EXCEPT ![New] = heap[s.fs]]
  BY DEF Checkpoint, Clone, Copied, Shape
<1>2. MapsKept /\ heap'[New] = heap[s.fs]
  BY <1>1, NewMapKeeps
<1>. cp.fs = New
  OBVIOUS
<1>. HIDE DEF cp
<1>3. /\ sprites'[id].status = s.status /\ sprites'[id].fs = s.fs
      /\ sprites'[id].checkpoints = Append(cps, cp)
      /\ ConfigOf(sprites'[id]) = ConfigOf(s)
  BY <1>0, <1>1 DEF Sprite, ConfigOf
<1>4. Live(id)'
  BY <1>0, <1>3 DEF Live
<1>. DEFINE old == [k \in DOMAIN cps |-> heap[cps[k].fs]]
            new == [k \in DOMAIN Append(cps, cp) |-> heap'[Append(cps, cp)[k].fs]]
<1>5. \A k \in DOMAIN cps : heap'[cps[k].fs] = heap[cps[k].fs]
  <2>. SUFFICES ASSUME NEW k \in DOMAIN cps
                PROVE  heap'[cps[k].fs] = heap[cps[k].fs]
    OBVIOUS
  <2>1. <<id, k>> \in Slots /\ RefAt(<<id, k>>) = cps[k].fs
    BY <1>0, LiveSlots
  <2>. QED
    BY <1>2, <2>1 DEF MapsKept
<1>6. new = Append(old, heap[s.fs])
  <2>1. /\ DOMAIN Append(cps, cp) = 1 .. Len(cps) + 1
        /\ Append(cps, cp)[Len(cps) + 1] = cp
        /\ \A m \in 1 .. Len(cps) : Append(cps, cp)[m] = cps[m]
    <3>. HIDE DEF cps
    <3>. QED
      BY <1>0
  <2>2. /\ DOMAIN new = 1 .. Len(cps) + 1
        /\ new[Len(cps) + 1] = heap[s.fs]
        /\ \A m \in 1 .. Len(cps) : new[m] = old[m]
        /\ new = [k \in DOMAIN new |-> new[k]]
    <3>1. DOMAIN new = 1 .. Len(cps) + 1
      BY <2>1
    <3>2. \A m \in 1 .. Len(cps) + 1 : new[m] = heap'[Append(cps, cp)[m].fs]
      BY <3>1
    <3>3. \A m \in 1 .. Len(cps) : old[m] = heap[cps[m].fs] /\ new[m] = heap'[cps[m].fs]
      BY <1>0, <2>1, <3>2
    <3>4. Len(cps) + 1 \in 1 .. Len(cps) + 1
      BY <1>0
    <3>5. new[Len(cps) + 1] = heap[s.fs]
      BY <1>2, <2>1, <3>2, <3>4
    <3>6. \A m \in 1 .. Len(cps) : new[m] = old[m]
      BY <1>0, <1>5, <3>3
    <3>7. new = [k \in DOMAIN new |-> new[k]]
      OBVIOUS
    <3>. QED
      BY <3>1, <3>5, <3>6, <3>7
  <2>3. old \in Seq({heap[cps[k].fs] : k \in DOMAIN cps}) /\ Len(old) = Len(cps)
    BY <1>0, SeqDef
  <2>. HIDE DEF old, new, cps
  <2>4. /\ DOMAIN Append(old, heap[s.fs]) = 1 .. Len(cps) + 1
        /\ Append(old, heap[s.fs])[Len(cps) + 1] = heap[s.fs]
        /\ \A m \in 1 .. Len(cps) : Append(old, heap[s.fs])[m] = old[m]
        /\ Append(old, heap[s.fs]) = [k \in DOMAIN Append(old, heap[s.fs]) |-> Append(old, heap[s.fs])[k]]
    BY <2>3
  <2>5. \A k \in 1 .. Len(cps) + 1 : k = Len(cps) + 1 \/ k \in 1 .. Len(cps)
    BY <1>0 DEF cps
  <2>. QED
    BY <2>2, <2>4, <2>5
<1>. HIDE DEF old, new
<1>a. SpriteValues[id] = [status |-> "running", fs |-> heap[s.fs],
                          checkpoints |-> old, config |-> ConfigOf(s)]
  BY <1>0, LiveValue DEF old
<1>7. SpriteValues'[id] = [SpriteValues[id] EXCEPT !.checkpoints =
                            Append(SpriteValues[id].checkpoints, SpriteValues[id].fs)]
  <2>1. <<id, 0>> \in Slots /\ RefAt(<<id, 0>>) = s.fs
    BY <1>0, LiveSlots
  <2>2. heap'[s.fs] = heap[s.fs]
    BY <1>2, <2>1 DEF MapsKept
  <2>3. SpriteValues'[id] = [status |-> "running", fs |-> heap[s.fs],
                             checkpoints |-> new, config |-> ConfigOf(s)]
    BY <1>3, <1>4, <2>2, LiveValueNext DEF new
  <2>4. [SpriteValues[id] EXCEPT !.checkpoints = new] =
            [status |-> "running", fs |-> heap[s.fs],
             checkpoints |-> new, config |-> ConfigOf(s)]
    BY <1>a
  <2>5. Append(SpriteValues[id].checkpoints, SpriteValues[id].fs) = new
    BY <1>6, <1>a
  <2>. QED
    BY <2>3, <2>4, <2>5, Zenon
<1>8. \A j \in Id \ {id} : SpriteValues'[j] = SpriteValues[j]
  BY <1>1, <1>2, NewMapFrame
<1>9. ViewValues' = ViewValues
  BY <1>1, <1>2, NewMapFrame, AllViewsKept
<1>10. SpriteValues' = [SpriteValues EXCEPT ![id] =
          [SpriteValues[id] EXCEPT !.checkpoints =
              Append(SpriteValues[id].checkpoints, SpriteValues[id].fs)]]
  BY <1>7, <1>8, OneSprite
<1>11. SpriteValues[id].status = "running"
  BY <1>a
<1>. QED
  BY <1>9, <1>10, <1>11
  DEF AbstractChange, Values!Change, Values!Checkpoint, Values!Exists

\* The files of a live sprite change, in place or by a new map.
LEMMA SetImplements ==
    ASSUME Shape, Shape', NEW id \in Id, Live(id), Live(id)',
           sprites'[id].checkpoints = sprites[id].checkpoints,
           ConfigOf(sprites'[id]) = ConfigOf(sprites[id]),
           \A k \in DOMAIN sprites[id].checkpoints :
              heap'[sprites[id].checkpoints[k].fs] = heap[sprites[id].checkpoints[k].fs],
           \A j \in Id \ {id} : SpriteValues'[j] = SpriteValues[j]
    PROVE  /\ Values!Exists(id)
           /\ Values!Set(id, heap'[sprites'[id].fs])
<1>. DEFINE cps == [k \in DOMAIN sprites[id].checkpoints |->
                        heap[sprites[id].checkpoints[k].fs]]
            config == ConfigOf(sprites[id])
            tree == heap'[sprites'[id].fs]
<1>1. SpriteValues[id] = [status |-> "running", fs |-> heap[sprites[id].fs],
                          checkpoints |-> cps, config |-> config]
  BY LiveValue
<1>2. [k \in DOMAIN sprites'[id].checkpoints |-> heap'[sprites'[id].checkpoints[k].fs]] = cps
  OBVIOUS
<1>. HIDE DEF cps, config
<1>3. SpriteValues'[id] = [status |-> "running", fs |-> tree,
                           checkpoints |-> cps, config |-> config]
  BY <1>2, LiveValueNext DEF config
<1>. HIDE DEF tree
<1>4. [SpriteValues[id] EXCEPT !.fs = tree] =
        [status |-> "running", fs |-> tree, checkpoints |-> cps, config |-> config]
  BY <1>1
<1>5. SpriteValues' = [SpriteValues EXCEPT ![id] = [SpriteValues[id] EXCEPT !.fs = tree]]
  BY <1>3, <1>4, OneSprite
<1>6. Values!Exists(id)
  BY <1>1 DEF Values!Exists
<1>. QED
  BY <1>5, <1>6 DEF Values!Set, tree

\* The checkpoints of a live sprite hold what they held.
LEMMA MapsKeptCheckpoints ==
    ASSUME Shape, NEW id \in Id, Live(id),
           \A s \in Slots : s # <<id, 0>> => heap'[RefAt(s)] = heap[RefAt(s)]
    PROVE  \A k \in DOMAIN sprites[id].checkpoints :
              heap'[sprites[id].checkpoints[k].fs] = heap[sprites[id].checkpoints[k].fs]
<1>. SUFFICES ASSUME NEW k \in DOMAIN sprites[id].checkpoints
              PROVE  heap'[sprites[id].checkpoints[k].fs] =
                        heap[sprites[id].checkpoints[k].fs]
  OBVIOUS
<1>1. /\ <<id, k>> \in Slots /\ <<id, k>> # <<id, 0>>
      /\ RefAt(<<id, k>>) = sprites[id].checkpoints[k].fs
  BY LiveSlots
<1>2. heap'[RefAt(<<id, k>>)] = heap[RefAt(<<id, k>>)]
  BY <1>1
<1>. QED
  BY <1>1, <1>2

LEMMA ModifyImplements ==
    ASSUME Shape, Shape', NoSharing, NEW id \in Id, NEW tree, Modify(id, tree)
    PROVE  /\ Values!Exists(id)
           /\ Values!Set(id, tree)
           /\ SpriteValues[id].fs = heap[sprites[id].fs]
           /\ ViewValues' = ViewValues
<1>1. /\ sprites' = sprites /\ view' = view /\ Live(id) /\ Live(id)'
      /\ heap'[sprites'[id].fs] = tree
      /\ \A s \in Slots : s # <<id, 0>> => heap'[RefAt(s)] = heap[RefAt(s)]
  BY ModifyKeeps DEF Modify, Live
<1>2. \A j \in Id \ {id} : SpriteValues'[j] = SpriteValues[j]
  <2>. SUFFICES ASSUME NEW j \in Id \ {id}
                PROVE  SpriteValues'[j] = SpriteValues[j]
    OBVIOUS
  <2>1. \A k \in Nat : <<j, k>> # <<id, 0>>
    OBVIOUS
  <2>. QED
    BY <1>1, <2>1, SpriteKept
<1>3. ViewValues' = ViewValues
  <2>. SUFFICES ASSUME NEW c \in Client
                PROVE  ViewValues'[c] = ViewValues[c]
    BY AllViewsKept
  <2>1. <<c, 0>> # <<id, 0>>
    BY StoreAssumption
  <2>. QED
    BY <1>1, <2>1, ViewKept
<1>4. \A k \in DOMAIN sprites[id].checkpoints :
         heap'[sprites[id].checkpoints[k].fs] = heap[sprites[id].checkpoints[k].fs]
  BY <1>1, MapsKeptCheckpoints
<1>5. Values!Exists(id) /\ Values!Set(id, tree)
  BY <1>1, <1>2, <1>4, SetImplements
<1>6. SpriteValues[id].fs = heap[sprites[id].fs]
  <2>. DEFINE cps == [k \in DOMAIN sprites[id].checkpoints |->
                          heap[sprites[id].checkpoints[k].fs]]
  <2>1. SpriteValues[id] = [status |-> "running", fs |-> heap[sprites[id].fs],
                            checkpoints |-> cps, config |-> ConfigOf(sprites[id])]
    BY <1>1, LiveValue
  <2>. HIDE DEF cps
  <2>. QED
    BY <2>1
<1>. QED
  BY <1>3, <1>5, <1>6

LEMMA RestoreImplements ==
    ASSUME Shape, Shape', NEW id \in Id, NEW k \in 1 .. MaxCheckpoints, Restore(id, k)
    PROVE  AbstractChange(id)
<1>. PICK i \in DOMAIN sprites[id].checkpoints :
            /\ heap' = [heap EXCEPT ![New] = heap[sprites[id].checkpoints[i].fs]]
            /\ sprites' = [sprites EXCEPT ![id] =
                    [sprites[id] EXCEPT !.fs = New, !.status = "running"]]
  BY DEF Restore, Copied, Clone
<1>0. Live(id) /\ Room /\ view' = view /\ sprites[id] \in Sprite
  BY SpriteType DEF Restore, Live, Exists
<1>1. /\ sprites'[id].fs = New
      /\ sprites'[id].status = "running"
      /\ sprites'[id].checkpoints = sprites[id].checkpoints
      /\ ConfigOf(sprites'[id]) = ConfigOf(sprites[id])
      /\ \A j \in Id \ {id} : sprites'[j] = sprites[j]
  BY <1>0 DEF Shape, Sprite, ConfigOf
<1>2. MapsKept /\ heap'[New] = heap[sprites[id].checkpoints[i].fs]
  BY <1>0, NewMapKeeps
<1>3. \A m \in DOMAIN sprites[id].checkpoints :
         heap'[sprites[id].checkpoints[m].fs] = heap[sprites[id].checkpoints[m].fs]
  BY <1>0, <1>2, MapsKeptCheckpoints DEF MapsKept
<1>4. \A j \in Id \ {id} : SpriteValues'[j] = SpriteValues[j]
  BY <1>1, <1>2, NewMapFrame
<1>5. ViewValues' = ViewValues
  BY <1>0, <1>2, NewMapFrame, AllViewsKept
<1>6. Live(id)'
  BY <1>1 DEF Live
<1>7. Values!Exists(id) /\ Values!Set(id, heap'[New])
  BY <1>0, <1>1, <1>3, <1>4, <1>6, SetImplements
<1>8. i \in DOMAIN SpriteValues[id].checkpoints /\ SpriteValues[id].checkpoints[i] = heap'[New]
  <2>. DEFINE cps == [m \in DOMAIN sprites[id].checkpoints |->
                          heap[sprites[id].checkpoints[m].fs]]
  <2>1. SpriteValues[id] = [status |-> "running", fs |-> heap[sprites[id].fs],
                            checkpoints |-> cps, config |-> ConfigOf(sprites[id])]
    BY <1>0, LiveValue
  <2>2. i \in DOMAIN cps /\ cps[i] = heap'[New]
    BY <1>2
  <2>. HIDE DEF cps
  <2>3. SpriteValues[id].checkpoints = cps
    BY <2>1
  <2>. QED
    BY <2>2, <2>3
<1>9. Values!Restore(id)
  BY <1>7, <1>8 DEF Values!Restore
<1>. QED
  BY <1>5, <1>7, <1>9 DEF AbstractChange, Values!Change

\* Nothing changes in memory.
LEMMA SameHeapFrame ==
    ASSUME Shape, heap' = heap
    PROVE  MapsKept
BY DEF MapsKept

LEMMA DestroyImplements ==
    ASSUME Shape, Shape', NEW id \in Id, Destroy(id)
    PROVE  AbstractChange(id)
<1>0. sprites[id] \in Sprite /\ Live(id)
  BY SpriteType DEF Destroy, Live, Exists
<1>1. /\ sprites'[id].status = "destroyed"
      /\ \A j \in Id \ {id} : sprites'[j] = sprites[j]
      /\ view' = view /\ MapsKept
  BY <1>0, SameHeapFrame DEF Destroy, Shape, Sprite
<1>2. SpriteValues'[id] = Absent
  BY <1>1, ValuesAreNext DEF Live
<1>3. SpriteValues' = [SpriteValues EXCEPT ![id] = Absent]
  BY <1>1, <1>2, NewMapFrame, OneSprite
<1>4. ViewValues' = ViewValues
  BY <1>1, NewMapFrame, AllViewsKept
<1>5. SpriteValues[id].status = "running"
  <2>. DEFINE cps == [m \in DOMAIN sprites[id].checkpoints |->
                          heap[sprites[id].checkpoints[m].fs]]
  <2>1. SpriteValues[id] = [status |-> "running", fs |-> heap[sprites[id].fs],
                            checkpoints |-> cps, config |-> ConfigOf(sprites[id])]
    BY <1>0, LiveValue
  <2>. HIDE DEF cps
  <2>. QED
    BY <2>1
<1>. QED
  BY <1>3, <1>4, <1>5
  DEF AbstractChange, Values!Change, Values!Destroy, Values!Exists, Values!Absent, Absent

LEMMA ConfigureImplements ==
    ASSUME Shape, Shape', NEW id \in Id, Live(id), Configure(id)
    PROVE  AbstractChange(id)
<1>. PICK t : SameMemory(sprites[id], t) /\ Change(id, t)
  BY ConfigureIsChange
<1>1. /\ sprites'[id] = t /\ heap' = heap
      /\ \A j \in Id \ {id} : sprites'[j] = sprites[j]
      /\ view' = view /\ MapsKept
  BY SameHeapFrame DEF Change, Shape
<1>2. Live(id)'
  BY <1>1 DEF SameMemory, Live
<1>. DEFINE cps == [m \in DOMAIN sprites[id].checkpoints |->
                        heap[sprites[id].checkpoints[m].fs]]
            new == ConfigOf(t)
            old == ConfigOf(sprites[id])
<1>3. SpriteValues[id] = [status |-> "running", fs |-> heap[sprites[id].fs],
                          checkpoints |-> cps, config |-> old]
  BY LiveValue
<1>4. SpriteValues'[id] = [status |-> "running", fs |-> heap[sprites[id].fs],
                           checkpoints |-> cps, config |-> new]
  <2>1. sprites'[id].fs = sprites[id].fs /\ sprites'[id].checkpoints = sprites[id].checkpoints
    BY <1>1 DEF SameMemory
  <2>2. [m \in DOMAIN sprites'[id].checkpoints |-> heap'[sprites'[id].checkpoints[m].fs]] = cps
    BY <1>1, <2>1
  <2>3. ConfigOf(sprites'[id]) = new
    BY <1>1
  <2>. HIDE DEF cps, new
  <2>. QED
    BY <1>1, <1>2, <2>1, <2>2, <2>3, LiveValueNext
<1>. HIDE DEF cps, new, old
<1>5. [SpriteValues[id] EXCEPT !.config = SpriteValues'[id].config] = SpriteValues'[id]
  BY <1>3, <1>4
<1>6. SpriteValues' = [SpriteValues EXCEPT ![id] =
                        [SpriteValues[id] EXCEPT !.config = SpriteValues'[id].config]]
  <2>1. \A j \in Id \ {id} : SpriteValues'[j] = SpriteValues[j]
    BY <1>1, NewMapFrame
  <2>. QED
    BY <1>5, <2>1, OneSprite
<1>7. ViewValues' = ViewValues
  BY <1>1, NewMapFrame, AllViewsKept
<1>8. SpriteValues[id].status = "running" /\ SpriteValues'[id].status = "running"
  BY <1>3, <1>4
<1>. QED
  BY <1>6, <1>7, <1>8
  DEF AbstractChange, Values!Change, Values!Configure, Values!Exists

LEMMA GetImplements ==
    ASSUME Shape, Shape', NEW c \in Client, NEW id \in Id, Get(c, id)
    PROVE  Values!Get(c) /\ SpriteValues' = SpriteValues
<1>. DEFINE s == sprites[id]
            cps == [m \in DOMAIN s.checkpoints |-> heap[s.checkpoints[m].fs]]
            config == ConfigOf(s)
<1>0. /\ Live(id) /\ s \in Sprite /\ s.checkpoints \in Seq(CheckpointRecord)
      /\ Len(s.checkpoints) \in Nat /\ DOMAIN s.checkpoints = 1 .. Len(s.checkpoints)
      /\ s.status = "running"
  BY SpriteType DEF Get, Live, Exists, Sprite
<1>1. /\ view'[c] = [status |-> "running", fs |-> New,
                     checkpoints |-> Len(s.checkpoints), config |-> config]
      /\ \A d \in Client \ {c} : view'[d] = view[d]
      /\ sprites' = sprites /\ Room
      /\ heap' = [heap EXCEPT ![New] = heap[s.fs]]
  BY <1>0 DEF Get, Clone, Copied, Shape
<1>2. MapsKept /\ heap'[New] = heap[s.fs]
  BY <1>1, NewMapKeeps
<1>3. SpriteValues' = SpriteValues
  BY <1>1, <1>2, NewMapFrame, ValuesAre, ValuesAreNext
<1>4. SpriteValues[id] = [status |-> "running", fs |-> heap[s.fs],
                          checkpoints |-> cps, config |-> config]
  BY <1>0, LiveValue
<1>5. Len(cps) = Len(s.checkpoints)
  BY <1>0
<1>. HIDE DEF cps, config
<1>6. Values!Shown(SpriteValues[id]) =
        [status |-> "running", fs |-> heap[s.fs],
         checkpoints |-> Len(s.checkpoints), config |-> config]
  BY <1>4, <1>5 DEF Values!Shown
<1>7. ViewValues'[c] = Values!Shown(SpriteValues[id])
  <2>1. Reading(c)'
    BY <1>1 DEF Reading
  <2>2. ViewValues'[c] = [view'[c] EXCEPT !.fs = heap'[view'[c].fs]]
    BY <2>1 DEF ViewValues
  <2>. QED
    BY <1>1, <1>2, <1>6, <2>2
<1>8. ViewValues' = [ViewValues EXCEPT ![c] = Values!Shown(SpriteValues[id])]
  <2>1. \A d \in Client \ {c} : ViewValues'[d] = ViewValues[d]
    BY <1>1, <1>2, NewMapFrame
  <2>. QED
    BY <1>7, <2>1, ValuesAre, ValuesAreNext
<1>9. SpriteValues[id].status = "running"
  BY <1>4
<1>. QED
  BY <1>3, <1>8, <1>9 DEF Values!Get, Values!Exists

LEMMA ReplyImplements ==
    ASSUME Shape, Shape', NEW c \in Client, Reply(c)
    PROVE  Values!Reply(c) /\ SpriteValues' = SpriteValues
<1>1. /\ view'[c] = NoView
      /\ \A d \in Client \ {c} : view'[d] = view[d]
      /\ sprites' = sprites /\ MapsKept
  BY SameHeapFrame DEF Reply, Shape
<1>2. ViewValues'[c] = NoView
  BY <1>1 DEF ViewValues, Reading, NoView
<1>3. \A d \in Client \ {c} : ViewValues'[d] = ViewValues[d]
  BY <1>1, NewMapFrame
<1>4. ViewValues' = [ViewValues EXCEPT ![c] = NoView]
  BY <1>2, <1>3, ValuesAre, ValuesAreNext
<1>5. SpriteValues' = SpriteValues
  BY <1>1, NewMapFrame, ValuesAre, ValuesAreNext
<1>. QED
  BY <1>4, <1>5 DEF Values!Reply, Values!NoView, NoView

LEMMA InitImplements == Init => Values!Init
<1>. SUFFICES ASSUME Init
              PROVE  Values!Init
  OBVIOUS
<1>1. \A i \in Id : ~Live(i)
  BY DEF Init, Live, Absent
<1>2. \A c \in Client : ~Reading(c)
  BY DEF Init, Reading, NoView
<1>. QED
  BY <1>1, <1>2
  DEF Values!Init, SpriteValues, ViewValues, Absent, NoView, Values!Absent, Values!NoView

LEMMA NextImplements ==
    ASSUME Shape, Shape', NoSharing, [Next]_vars
    PROVE  [Values!Next]_<<SpriteValues, ViewValues>>
<1>. DEFINE A == [Values!Next]_<<SpriteValues, ViewValues>>
<1>0. ASSUME NEW id \in Id, AbstractChange(id)
      PROVE  A
  BY <1>0 DEF AbstractChange, Values!Next
<1>1. ASSUME NEW id \in Id, Create(id)
      PROVE  A
  BY <1>0, <1>1, CreateImplements
<1>2. ASSUME NEW id \in Id, Checkpoint(id)
      PROVE  A
  BY <1>0, <1>2, CheckpointImplements
<1>3. ASSUME NEW id \in Id, NEW k \in 1 .. MaxCheckpoints, Restore(id, k)
      PROVE  A
  BY <1>0, <1>3, RestoreImplements
<1>4. ASSUME NEW id \in Id, Destroy(id)
      PROVE  A
  BY <1>0, <1>4, DestroyImplements
<1>5. ASSUME NEW id \in Id, NEW cmd \in Command, Exec(id, cmd)
      PROVE  A
  <2>. DEFINE tree == Run(heap[sprites[id].fs], cmd)
  <2>1. Modify(id, tree)
    BY <1>5 DEF Exec
  <2>. HIDE DEF tree
  <2>2. /\ Values!Exists(id) /\ Values!Set(id, tree) /\ ViewValues' = ViewValues
        /\ SpriteValues[id].fs = heap[sprites[id].fs]
    BY <2>1, ModifyImplements
  <2>3. Values!Exec(id, cmd)
    BY <2>2 DEF Values!Exec, tree
  <2>. QED
    BY <1>0, <2>2, <2>3 DEF AbstractChange, Values!Change
<1>6. ASSUME NEW id \in Id, NEW p \in Path, NEW v \in Content, WriteFile(id, p, v)
      PROVE  A
  <2>. DEFINE tree == Put(heap[sprites[id].fs], p, v)
  <2>1. Modify(id, tree)
    BY <1>6 DEF WriteFile
  <2>. HIDE DEF tree
  <2>2. /\ Values!Exists(id) /\ Values!Set(id, tree) /\ ViewValues' = ViewValues
        /\ SpriteValues[id].fs = heap[sprites[id].fs]
    BY <2>1, ModifyImplements
  <2>3. Values!WriteFile(id, p, v)
    BY <2>2 DEF Values!WriteFile, tree
  <2>. QED
    BY <1>0, <2>2, <2>3 DEF AbstractChange, Values!Change
<1>7. ASSUME NEW id \in Id, NEW p \in Path, NEW recursive \in BOOLEAN,
             RemoveFile(id, p, recursive)
      PROVE  A
  <2>. DEFINE gone == IF recursive THEN Below(p) ELSE {p}
              tree == Drop(heap[sprites[id].fs], gone)
  <2>1. Modify(id, tree)
    BY <1>7 DEF RemoveFile
  <2>. HIDE DEF tree
  <2>2. /\ Values!Exists(id) /\ Values!Set(id, tree) /\ ViewValues' = ViewValues
        /\ SpriteValues[id].fs = heap[sprites[id].fs]
    BY <2>1, ModifyImplements
  <2>3. Values!RemoveFile(id, gone)
    BY <2>2 DEF Values!RemoveFile, tree
  <2>4. gone = {p} \/ gone = Below(p)
    OBVIOUS
  <2>. HIDE DEF gone
  <2>5. Values!RemoveFile(id, {p}) \/ Values!RemoveFile(id, Below(p))
    BY <2>3, <2>4
  <2>. QED
    BY <1>0, <2>2, <2>5 DEF AbstractChange, Values!Change
<1>8. ASSUME NEW id \in Id, Live(id), Configure(id)
      PROVE  A
  BY <1>0, <1>8, ConfigureImplements
<1>9. ASSUME NEW c \in Client, NEW id \in Id, Get(c, id)
      PROVE  A
  BY <1>9, GetImplements DEF Values!Next
<1>10. ASSUME NEW c \in Client, Reply(c)
       PROVE  A
  BY <1>10, ReplyImplements DEF Values!Next
<1>11. CASE UNCHANGED vars
  BY <1>11 DEF vars, SpriteValues, ViewValues, SpriteValue, Live, Reading
<1>. QED
  BY <1>1, <1>2, <1>3, <1>4, <1>5, <1>6, <1>7, <1>8, <1>9, <1>10, <1>11 DEF Next

(***************************************************************************)
(* The store behaves as if sprites were values: what is executed in place  *)
(* on shared memory, copied into checkpoints and replies, and restored,    *)
(* is indistinguishable from assigning trees of files (docs/fidelity.md).  *)
(***************************************************************************)
THEOREM Refinement == Spec => Implements
<1>1. Shape /\ Shape' /\ NoSharing /\ [Next]_vars =>
        [Values!Next]_<<SpriteValues, ViewValues>>
  BY NextImplements
<1>. QED
  BY <1>1, InitImplements, Invariant, PTL DEF Spec, IInv, Implements, Values!Spec

=============================================================================
