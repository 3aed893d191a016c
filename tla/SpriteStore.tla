----------------------------- MODULE SpriteStore -----------------------------
(***************************************************************************)
(* What the sprite store promises (docs/fidelity.md): sprites are values.  *)
(* A checkpoint is the value the files had, a restore brings that value    *)
(* back, a reply shows a sprite as it was at one instant, and the network  *)
(* policy, services and tasks live apart from the files.  What a command   *)
(* does to the files is a parameter.                                       *)
(***************************************************************************)
EXTENDS Naturals, Sequences

CONSTANTS
    Id,         \* sprite names
    Client,     \* goroutines that write a reply
    Path, Content, Command,
    Empty,              \* the empty file system
    Run(_, _),          \* a file system after a command line
    Put(_, _, _),       \* after a write
    Drop(_, _),         \* without some paths
    Below(_)            \* a path and those under it

VARIABLES
    sprite,     \* the sprites
    view        \* the reply a client has got and not yet written

Absent == [status |-> "absent"]     \* no such sprite, or a destroyed one
NoView == [status |-> "none"]

Exists(id) == sprite[id].status # "absent"

Fresh(config) ==
    [status |-> "running", fs |-> Empty, checkpoints |-> <<>>, config |-> config]

Set(id, fs) == sprite' = [sprite EXCEPT ![id] = [@ EXCEPT !.fs = fs]]

Init ==
    /\ sprite = [id \in Id |-> Absent]
    /\ view = [c \in Client |-> NoView]

Create(id) ==
    /\ sprite'[id].status = "running"
    /\ sprite' = [sprite EXCEPT ![id] = Fresh(sprite'[id].config)]

Exec(id, cmd) == Set(id, Run(sprite[id].fs, cmd))

WriteFile(id, p, v) == Set(id, Put(sprite[id].fs, p, v))

RemoveFile(id, gone) == Set(id, Drop(sprite[id].fs, gone))

Checkpoint(id) ==
    sprite' = [sprite EXCEPT ![id] =
                [sprite[id] EXCEPT !.checkpoints = Append(@, sprite[id].fs)]]

Restore(id) ==
    \E k \in DOMAIN sprite[id].checkpoints : Set(id, sprite[id].checkpoints[k])

Destroy(id) == sprite' = [sprite EXCEPT ![id] = Absent]

\* Policy, services and tasks may change in any way; nothing else does.
Configure(id) ==
    /\ sprite'[id].status = "running"
    /\ sprite' = [sprite EXCEPT ![id] = [@ EXCEPT !.config = sprite'[id].config]]

Change(id) ==
    \/ Create(id)
    \/ /\ Exists(id)
       /\ \/ \E cmd \in Command : Exec(id, cmd)
          \/ \E p \in Path : \E v \in Content : WriteFile(id, p, v)
          \/ \E p \in Path : RemoveFile(id, {p}) \/ RemoveFile(id, Below(p))
          \/ Checkpoint(id) \/ Restore(id) \/ Destroy(id) \/ Configure(id)

\* What GET /v1/sprites/{id} answers: the files and the list of checkpoints.
Shown(s) ==
    [status |-> s.status, fs |-> s.fs, checkpoints |-> Len(s.checkpoints),
     config |-> s.config]

Get(c) ==
    \E id \in Id : /\ Exists(id)
                   /\ view' = [view EXCEPT ![c] = Shown(sprite[id])]

Reply(c) == view' = [view EXCEPT ![c] = NoView]

Next ==
    \/ \E id \in Id : Change(id) /\ UNCHANGED view
    \/ \E c \in Client : (Get(c) \/ Reply(c)) /\ UNCHANGED sprite

Spec == Init /\ [][Next]_<<sprite, view>>
=============================================================================
