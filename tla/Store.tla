-------------------------------- MODULE Store --------------------------------
(***************************************************************************)
(* The sprite store of internal/sprite (sprite.go, config.go).             *)
(*                                                                         *)
(* Every method holds the store's mutex from beginning to end, so a method *)
(* is one action.  What can go wrong is memory: a Go map is a reference,   *)
(* exec changes it in place, and a reply is written to the client after    *)
(* the mutex is released.  File maps are therefore references into a heap, *)
(* and what the code copies (cloneFS) is a new reference.                  *)
(*                                                                         *)
(* The policy, the services and the tasks are handed out by value and are  *)
(* values here.  A method called for a sprite that does not exist or was   *)
(* destroyed returns ErrNotFound and changes nothing; so do the ones that  *)
(* only read, other than Get.                                              *)
(***************************************************************************)
EXTENDS Naturals, Sequences, FiniteSets, Files

CONSTANTS
    Id,             \* sprite names
    Client,         \* goroutines that write a reply to GET /v1/sprites/{id}
    Command,        \* command lines clients run
    Policy,         \* network policies
    ServiceName, TaskName, Expiry,
    Ref,            \* references: the memory, as large as is needed
    MaxCalls,       \* bound on calls
    MaxCheckpoints  \* bound on the checkpoints of a sprite

ASSUME StoreAssumption ==
    /\ Client \cap Id = {}
    /\ <<>> \in Policy
    /\ MaxCalls \in Nat /\ MaxCheckpoints \in Nat

VARIABLES
    heap,       \* the file map each reference points to
    sprites,    \* Store.sprites
    view,       \* the View a client has got and not yet written
    calls       \* calls made (bound)

vars == <<heap, sprites, view, calls>>

-----------------------------------------------------------------------------
PartialFcn(S, T) == UNION {[R -> T] : R \in SUBSET S}

Services == PartialFcn(ServiceName, {"stopped", "running"})
Tasks == PartialFcn(TaskName, Expiry)

CheckpointRecord == [id : Nat \ {0}, fs : Ref]

Sprite ==
    [status : {"running", "destroyed"}, fs : Ref,
     checkpoints : Seq(CheckpointRecord),
     policy : Policy, services : Services, tasks : Tasks]

Config == [policy : Policy, services : Services, tasks : Tasks]

View == [status : {"running"}, fs : Ref, checkpoints : Nat, config : Config]

ConfigOf(s) == [policy |-> s.policy, services |-> s.services, tasks |-> s.tasks]

Absent == [status |-> "absent"]     \* not in the map
NoView == [status |-> "none"]       \* a client with no reply to write

Exists(id) == sprites[id].status # "absent"

\* live: a destroyed sprite is as good as absent.
Live(id) == sprites[id].status \notin {"absent", "destroyed"}

Reading(c) == view[c].status # "none"

-----------------------------------------------------------------------------
(***************************************************************************)
(* Every place that holds a file map: <<id, 0>> is the sprite's files,     *)
(* <<id, k>> its k-th checkpoint, <<client, 0>> a reply.                   *)
(***************************************************************************)
Slots ==
    (UNION {{id} \X (0 .. Len(sprites[id].checkpoints)) :
            id \in {i \in Id : Exists(i)}})
    \cup ({c \in Client : Reading(c)} \X {0})

RefAt(slot) ==
    IF slot[1] \in Client THEN view[slot[1]].fs
    ELSE IF slot[2] = 0 THEN sprites[slot[1]].fs
    ELSE sprites[slot[1]].checkpoints[slot[2]].fs

Held == {RefAt(slot) : slot \in Slots}

\* A map that nobody holds yet.
New == CHOOSE r \in Ref : r \notin Held

\* Mistake: the map itself instead of a copy.
CloneNothing(r) == r

(***************************************************************************)
(* cloneFS(r): the new map.  Its contents are those of r (see Copied).     *)
(***************************************************************************)
Clone(r) == New

Copied(r) == heap' = [heap EXCEPT ![Clone(r)] = heap[r]]

Call == calls < MaxCalls /\ calls' = calls + 1

Room == Held # Ref

-----------------------------------------------------------------------------
\* Mistake: the checkpoints of the sprite that had the name are kept.
NewSpriteKept(id) ==
    [status |-> "running", fs |-> New,
     checkpoints |-> IF Exists(id) THEN sprites[id].checkpoints ELSE <<>>,
     policy |-> <<>>, services |-> Empty, tasks |-> Empty]

NewSprite(id) ==
    [status |-> "running", fs |-> New, checkpoints |-> <<>>,
     policy |-> <<>>, services |-> Empty, tasks |-> Empty]

\* Create: overwrites a sprite of that name, whatever its status.
Create(id) ==
    /\ Call /\ Room
    /\ heap' = [heap EXCEPT ![New] = Empty]
    /\ sprites' = [sprites EXCEPT ![id] = NewSprite(id)]
    /\ UNCHANGED view

(***************************************************************************)
(* Exec, WriteFile and Remove change the sprite's map in place.            *)
(***************************************************************************)
Modify(id, tree) ==
    /\ Call /\ Live(id)
    /\ heap' = [heap EXCEPT ![sprites[id].fs] = tree]
    /\ UNCHANGED <<sprites, view>>

Exec(id, cmd) == Modify(id, Run(heap[sprites[id].fs], cmd))

WriteFile(id, p, v) == Modify(id, Put(heap[sprites[id].fs], p, v))

RemoveFile(id, p, recursive) ==
    Modify(id, Drop(heap[sprites[id].fs], IF recursive THEN Below(p) ELSE {p}))

-----------------------------------------------------------------------------
NextId(checkpoints) == Len(checkpoints) + 1

Checkpoint(id) ==
    LET s == sprites[id]
    IN  /\ Call /\ Room /\ Live(id) /\ Len(s.checkpoints) < MaxCheckpoints
        /\ Copied(s.fs)
        /\ sprites' = [sprites EXCEPT ![id] = [s EXCEPT !.checkpoints =
                Append(@, [id |-> NextId(@), fs |-> Clone(s.fs)])]]
        /\ UNCHANGED view

\* The loop's first checkpoint with the id the client gave.
Found(checkpoints, k, i) ==
    /\ i \in DOMAIN checkpoints /\ checkpoints[i].id = k
    /\ \A j \in 1 .. i - 1 : checkpoints[j].id # k

Restore(id, k) ==
    /\ Call /\ Room /\ Live(id)
    /\ \E i \in DOMAIN sprites[id].checkpoints :
         LET cp == sprites[id].checkpoints[i]
         IN  /\ Found(sprites[id].checkpoints, k, i)
             /\ Copied(cp.fs)
             /\ sprites' = [sprites EXCEPT ![id] =
                    [@ EXCEPT !.fs = Clone(cp.fs), !.status = "running"]]
    /\ UNCHANGED view

\* Destroy keeps the record, marked.
Destroy(id) ==
    /\ Call /\ Live(id)
    /\ sprites' = [sprites EXCEPT ![id] = [@ EXCEPT !.status = "destroyed"]]
    /\ UNCHANGED <<heap, view>>

-----------------------------------------------------------------------------
(***************************************************************************)
(* Get makes a View under the mutex; the handler writes it afterwards.     *)
(***************************************************************************)
Get(c, id) ==
    LET s == sprites[id]
    IN  /\ Call /\ Room /\ Live(id) /\ ~Reading(c)
        /\ Copied(s.fs)
        /\ view' = [view EXCEPT ![c] =
                [status |-> s.status, fs |-> Clone(s.fs),
                 checkpoints |-> Len(s.checkpoints), config |-> ConfigOf(s)]]
        /\ UNCHANGED sprites

Reply(c) ==
    /\ Reading(c)
    /\ view' = [view EXCEPT ![c] = NoView]
    /\ UNCHANGED <<heap, sprites, calls>>

-----------------------------------------------------------------------------
(***************************************************************************)
(* The operations of config.go that are not about files.                   *)
(***************************************************************************)
Change(id, s) ==
    /\ Call /\ Live(id)
    /\ sprites' = [sprites EXCEPT ![id] = s]
    /\ UNCHANGED <<heap, view>>

SetPolicy(id, p) == Change(id, [sprites[id] EXCEPT !.policy = p])

\* An update keeps the live state.
PutService(id, n) ==
    LET old == sprites[id].services
    IN  Change(id, [sprites[id] EXCEPT !.services =
            IF n \in DOMAIN old THEN old ELSE Put(old, n, "stopped")])

SetServiceState(id, n, state) ==
    /\ n \in DOMAIN sprites[id].services
    /\ Change(id, [sprites[id] EXCEPT !.services = Put(@, n, state)])

CreateTask(id, n, expire) ==
    Change(id, [sprites[id] EXCEPT !.tasks = Put(@, n, expire)])

RefreshTask(id, n, expire) ==
    /\ n \in DOMAIN sprites[id].tasks
    /\ Change(id, [sprites[id] EXCEPT !.tasks = Put(@, n, expire)])

ReleaseTask(id, n) ==
    /\ n \in DOMAIN sprites[id].tasks
    /\ Change(id, [sprites[id] EXCEPT !.tasks = Drop(@, {n})])

Configure(id) ==
    \/ \E p \in Policy : SetPolicy(id, p)
    \/ \E n \in ServiceName :
          PutService(id, n)
          \/ \E state \in {"stopped", "running"} : SetServiceState(id, n, state)
    \/ \E n \in TaskName :
          \/ \E e \in Expiry : CreateTask(id, n, e) \/ RefreshTask(id, n, e)
          \/ ReleaseTask(id, n)

-----------------------------------------------------------------------------
Init ==
    /\ heap = [r \in Ref |-> Empty]
    /\ sprites = [id \in Id |-> Absent]
    /\ view = [c \in Client |-> NoView]
    /\ calls = 0

Next ==
    \/ \E id \in Id :
          \/ Create(id) \/ Checkpoint(id) \/ Destroy(id)
          \/ \E cmd \in Command : Exec(id, cmd)
          \/ \E p \in Path : \/ \E v \in Content : WriteFile(id, p, v)
                             \/ \E recursive \in BOOLEAN : RemoveFile(id, p, recursive)
          \/ \E k \in 1 .. MaxCheckpoints : Restore(id, k)
          \/ Live(id) /\ Configure(id)
    \/ \E c \in Client : Reply(c) \/ \E id \in Id : Get(c, id)

Spec == Init /\ [][Next]_vars

-----------------------------------------------------------------------------
\* The types the proofs use; what a map holds is for TLC.
Shape ==
    /\ heap = [r \in Ref |-> heap[r]]
    /\ sprites \in [Id -> Sprite \cup {Absent}]
    /\ view \in [Client -> View \cup {NoView}]
    /\ calls \in Nat

TypeOK == Shape /\ heap \in [Ref -> Tree]

(***************************************************************************)
(* A sprite, each of its checkpoints and each reply being written have a   *)
(* map of their own, also across sprites ("callers receive copies so that  *)
(* concurrent reads and writes never share mutable memory", sprite.go).    *)
(***************************************************************************)
NoSharing == \A s, t \in Slots : RefAt(s) = RefAt(t) => s = t

(***************************************************************************)
(* The id a client restores by finds the checkpoint that was given it:     *)
(* v<k> is the k-th checkpoint.                                            *)
(***************************************************************************)
Numbered ==
    \A id \in Id : Exists(id) =>
        \A k \in DOMAIN sprites[id].checkpoints : sprites[id].checkpoints[k].id = k

(***************************************************************************)
(* "Mutating the filesystem after a checkpoint does not change what a      *)
(* later restore rewinds to" (docs/fidelity.md).                           *)
(***************************************************************************)
CheckpointsFrozen ==
    [][\A id \in Id : Exists(id) =>
          \A k \in DOMAIN sprites[id].checkpoints \cap DOMAIN sprites'[id].checkpoints :
              heap'[sprites'[id].checkpoints[k].fs] = heap[sprites[id].checkpoints[k].fs]]_vars

(***************************************************************************)
(* The store implements the store of values.                               *)
(***************************************************************************)
SpriteValue(s) ==
    [status |-> s.status, fs |-> heap[s.fs],
     checkpoints |-> [k \in DOMAIN s.checkpoints |-> heap[s.checkpoints[k].fs]],
     config |-> ConfigOf(s)]

SpriteValues ==
    [id \in Id |-> IF Live(id) THEN SpriteValue(sprites[id]) ELSE Absent]

ViewValues ==
    [c \in Client |-> IF Reading(c) THEN [view[c] EXCEPT !.fs = heap[@]] ELSE NoView]

Values == INSTANCE SpriteStore WITH sprite <- SpriteValues, view <- ViewValues

Implements == Values!Spec
=============================================================================
