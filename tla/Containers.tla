----------------------------- MODULE Containers -----------------------------
(***************************************************************************)
(* The sprite registry of container mode (internal/server/real.go) and the *)
(* runtimes under it (internal/runtime): create, list, destroy, adoption.  *)
(*                                                                         *)
(* There are two copies of the truth: the containers the daemon (Docker)   *)
(* or the cluster (Kubernetes) holds, and the store's records.  A request  *)
(* is a series of calls to one or the other with nothing held in between,  *)
(* and an action is one such call; a thread is the goroutine that serves a *)
(* request.  The daemon and the cluster are external: a call is carried    *)
(* out at one instant, or fails, before or after it took effect.           *)
(***************************************************************************)
EXTENDS Naturals, FiniteSets

CONSTANTS
    Name,           \* sprite names
    Client,         \* goroutines that serve API requests
    Ops,            \* the requests clients make
    MaxRequests,    \* bound on requests
    MaxFaults,      \* bound on calls that fail and on outside interference
    MaxBoots        \* bound on restarts of spritzer

NoName == "none"
AllOps == {"create", "destroy", "list", "policy", "proxy"}

ASSUME NameAssumption == NoName \notin Name
ASSUME OpsAssumption == Ops \subseteq AllOps
ASSUME BoundsAssumption ==
    MaxRequests \in Nat /\ MaxFaults \in Nat /\ MaxBoots \in Nat

VARIABLES
    kind,       \* the runtime: "docker" or "kubernetes"
    volume,     \* is Docker's agent volume filled?  It outlives spritzer
    once,       \* prepOnce and prepErr
    container,  \* what the daemon or the cluster holds for a name
    record,     \* the store's record: none (or destroyed), plain, with a policy
    pool,       \* is there a pooled transport to the sprite?
    th,         \* the threads
    disturbed,  \* history: requests overlapped, or something failed
    ended,      \* history: a DELETE answered 200 and no create began since
    requests, faults, boots     \* what the environment has used of its bounds

runtime == <<kind, volume, once>>
budget == <<requests, faults, boots>>
vars == <<runtime, container, record, pool, th, disturbed, ended, budget>>

-----------------------------------------------------------------------------
(***************************************************************************)
(* State                                                                   *)
(***************************************************************************)
\* "created": not started (Docker), pending (Kubernetes).  "running": its agent
\* does not answer yet.  "terminating": a pod with a deletion timestamp.
Status == {"none", "created", "running", "ready", "terminating"}

Label ==
    {"idle",
     "prepare", "fill", "inspect", "create", "start",   \* Docker.Create
     "post", "poll",                                    \* Kubernetes.Create
     "ping", "look", "record",                          \* waitForAgent, realCreate
     "lookup", "delete", "gone", "forget", "unrecord",  \* realDestroy
     "list", "each", "add",                             \* realList
     "policy", "known", "pool"}

Codes == {0, 200, 201, 204, 404, 502}

ThreadRecord ==
    [pc : Label, op : AllOps \cup {"none"}, name : Name \cup {NoName},
     code : Codes,              \* the answer; realDestroy's until it is sent
     todo : SUBSET Name,        \* realList's names still to look at
     calm : BOOLEAN]            \* history: it ran alone and nothing failed

Thd(p, op, n, calm) ==
    [pc |-> p, op |-> op, name |-> n, code |-> 0, todo |-> {}, calm |-> calm]

Idle == Thd("idle", "none", NoName, FALSE)

TypeOK ==
    /\ kind \in {"docker", "kubernetes"}
    /\ volume \in BOOLEAN
    /\ once \in {"none", "busy", "ok", "failed"}
    /\ container \in [Name -> Status]
    /\ record \in [Name -> {"none", "plain", "set"}]
    /\ pool \in [Name -> BOOLEAN]
    /\ th \in [Client -> ThreadRecord]
    /\ disturbed \in BOOLEAN
    /\ ended \in [Name -> BOOLEAN]
    /\ requests \in Nat /\ faults \in Nat /\ boots \in Nat

Docker == kind = "docker"
Live(n) == record[n] # "none"
Up == {"running", "ready"}

\* Mistake: Docker lists the running ones only, as it does without all=1.
ListedRunning == {n \in Name : container[n] \in Up}

\* What List returns: stopped containers too, but no pod that is being deleted.
Listed == {n \in Name : container[n] \notin {"none", "terminating"}}

At(c, p) == th[c].pc = p
On(c) == th[c].name
Goto(c, p) == th' = [th EXCEPT ![c].pc = p]
Answer(c, code) ==
    th' = [th EXCEPT ![c] = [Idle EXCEPT !.code = code, !.calm = th[c].calm]]
Fail(c) == th' = [th EXCEPT ![c] = [Idle EXCEPT !.code = 502]]

\* A container in state s after the daemon carried out the call of label p.
Effect(p, s) ==
    CASE p \in {"create", "post"} /\ s = "none" -> "created"
      [] p = "start" /\ s = "created" -> "running"
      [] p = "delete" /\ s # "none" -> IF Docker THEN "none" ELSE "terminating"
      [] OTHER -> s
CarryOut(c) == container' = [container EXCEPT ![On(c)] = Effect(th[c].pc, @)]

Init ==
    /\ kind \in {"docker", "kubernetes"}
    /\ volume = FALSE /\ once = "none"
    /\ container = [n \in Name |-> "none"]
    /\ record = [n \in Name |-> "none"]
    /\ pool = [n \in Name |-> FALSE]
    /\ th = [c \in Client |-> Idle]
    /\ disturbed = FALSE /\ ended = [n \in Name |-> FALSE]
    /\ requests = 0 /\ faults = 0 /\ boots = 0

-----------------------------------------------------------------------------
(***************************************************************************)
(* A request arrives.  It and those under way are no longer alone.         *)
(***************************************************************************)
First(op) ==
    CASE op = "create" -> IF Docker THEN "prepare" ELSE "post"
      [] op = "destroy" -> "lookup"
      [] op = "list" -> "list"
      [] op = "policy" -> "policy"
      [] op = "proxy" -> "known"

Alone(c) == \A d \in Client \ {c} : At(d, "idle")

Begin(c, op, n) ==
    /\ At(c, "idle") /\ requests < MaxRequests
    /\ op = "list" <=> n = NoName
    /\ th' = [d \in Client |-> IF d = c THEN Thd(First(op), op, n, Alone(c))
                                        ELSE [th[d] EXCEPT !.calm = FALSE]]
    /\ disturbed' = (disturbed \/ ~Alone(c))
    /\ ended' = IF op = "create" THEN [ended EXCEPT ![n] = FALSE] ELSE ended
    /\ requests' = requests + 1
    /\ UNCHANGED <<runtime, container, record, pool, faults, boots>>

Local == UNCHANGED <<disturbed, budget>>

\* Mistake: a flag instead of the sync.Once: nobody waits for the first.
PrepareNoWait(c) ==
    /\ At(c, "prepare")
    /\ \/ once = "none" /\ once' = "busy" /\ Goto(c, "fill")
       \/ once \in {"busy", "ok"} /\ Goto(c, "inspect") /\ UNCHANGED once
       \/ once = "failed" /\ Answer(c, 502) /\ UNCHANGED once
    /\ Local /\ UNCHANGED <<kind, volume, container, record, pool, ended>>

(***************************************************************************)
(* Docker.Create.  prepare fills the agent volume through a sync.Once: the *)
(* others wait for the first, and its outcome stays.                       *)
(***************************************************************************)
Prepare(c) ==
    /\ At(c, "prepare")
    /\ \/ once = "none" /\ once' = "busy" /\ Goto(c, "fill")
       \/ once = "ok" /\ Goto(c, "inspect") /\ UNCHANGED once
       \/ once = "failed" /\ Answer(c, 502) /\ UNCHANGED once
    /\ Local /\ UNCHANGED <<kind, volume, container, record, pool, ended>>

Fill(c) ==
    /\ At(c, "fill")
    /\ volume' = TRUE /\ once' = "ok" /\ Goto(c, "inspect")
    /\ Local /\ UNCHANGED <<kind, container, record, pool, ended>>

Inspect(c) ==
    /\ At(c, "inspect")
    /\ Goto(c, CASE container[On(c)] = "none" -> "create"
                 [] container[On(c)] \in Up -> "ping"
                 [] OTHER -> "start")
    /\ Local /\ UNCHANGED <<runtime, container, record, pool, ended>>

\* POST /containers/create: 409 when the name is taken.
CreateContainer(c) ==
    /\ At(c, "create") /\ CarryOut(c)
    /\ IF container[On(c)] = "none" THEN Goto(c, "start") ELSE Answer(c, 502)
    /\ Local /\ UNCHANGED <<runtime, record, pool, ended>>

\* POST start: 304 when it runs already and 404 when it is gone; both are
\* errors to call().
StartContainer(c) ==
    /\ At(c, "start") /\ CarryOut(c)
    /\ IF container[On(c)] = "created" THEN Goto(c, "ping") ELSE Answer(c, 502)
    /\ Local /\ UNCHANGED <<runtime, record, pool, ended>>

\* Mistake: an existing pod is an error.
PostOnce(c) ==
    /\ At(c, "post") /\ CarryOut(c)
    /\ IF container[On(c)] = "none" THEN Goto(c, "poll") ELSE Answer(c, 502)
    /\ Local /\ UNCHANGED <<runtime, record, pool, ended>>

(***************************************************************************)
(* Kubernetes.Create: POST, where a conflict is fine, then poll the pod.   *)
(***************************************************************************)
Post(c) ==
    /\ At(c, "post") /\ CarryOut(c) /\ Goto(c, "poll")
    /\ Local /\ UNCHANGED <<runtime, record, pool, ended>>

Poll(c) ==
    /\ At(c, "poll")
    /\ \/ container[On(c)] \in Up /\ Goto(c, "ping")
       \/ container[On(c)] \in {"none", "terminating"} /\ Answer(c, 502)
    /\ Local /\ UNCHANGED <<runtime, container, record, pool, ended>>

(***************************************************************************)
(* waitForAgent, then realCreate's Get and Create.                         *)
(***************************************************************************)
Ping(c) ==
    /\ At(c, "ping") /\ container[On(c)] = "ready" /\ Goto(c, "look")
    /\ Local /\ UNCHANGED <<runtime, container, record, pool, ended>>

Look(c) ==
    /\ At(c, "look")
    /\ IF Live(On(c)) THEN Answer(c, 201) ELSE Goto(c, "record")
    /\ Local /\ UNCHANGED <<runtime, container, record, pool, ended>>

Record(c) ==
    /\ At(c, "record") /\ Answer(c, 201)
    /\ record' = [record EXCEPT ![On(c)] = "plain"]
    /\ Local /\ UNCHANGED <<runtime, container, pool, ended>>

(***************************************************************************)
(* realDestroy.  Its answer is settled in parts: Get decides what a        *)
(* missing container means, Delete can turn it into an error.              *)
(***************************************************************************)
Settle(c, p, code) ==
    th' = [th EXCEPT ![c] = [@ EXCEPT !.pc = p, !.code = code]]

Lookup(c) ==
    /\ At(c, "lookup")
    /\ Settle(c, "delete", IF Live(On(c)) THEN 200 ELSE 404)
    /\ Local /\ UNCHANGED <<runtime, container, record, pool, ended>>

\* Mistake: nobody waits until the pod is gone.
DeleteNoWait(c) ==
    /\ At(c, "delete") /\ CarryOut(c)
    /\ IF container[On(c)] = "none" THEN Goto(c, "forget")
       ELSE Settle(c, "forget", 200)
    /\ Local /\ UNCHANGED <<runtime, record, pool, ended>>

Delete(c) ==
    /\ At(c, "delete") /\ CarryOut(c)
    /\ IF container[On(c)] = "none" THEN Goto(c, "forget")
       ELSE Settle(c, IF Docker THEN "forget" ELSE "gone", 200)
    /\ Local /\ UNCHANGED <<runtime, record, pool, ended>>

\* Kubernetes.Delete polls until the pod is gone.
Gone(c) ==
    /\ At(c, "gone") /\ container[On(c)] = "none" /\ Goto(c, "forget")
    /\ Local /\ UNCHANGED <<runtime, container, record, pool, ended>>

Forget(c) ==
    /\ At(c, "forget")
    /\ pool' = [pool EXCEPT ![On(c)] = FALSE]
    /\ IF th[c].code = 200 THEN Goto(c, "unrecord") ELSE Answer(c, th[c].code)
    /\ Local /\ UNCHANGED <<runtime, container, record, ended>>

Creating(n) == \E d \in Client : th[d].op = "create" /\ On(d) = n

Unrecord(c) ==
    /\ At(c, "unrecord") /\ Answer(c, 200)
    /\ record' = [record EXCEPT ![On(c)] = "none"]
    /\ ended' = [ended EXCEPT ![On(c)] = ~Creating(On(c))]
    /\ Local /\ UNCHANGED <<runtime, container, pool>>

(***************************************************************************)
(* realList: the containers at one instant, then Get and Create for each.  *)
(***************************************************************************)
List(c) ==
    /\ At(c, "list")
    /\ th' = [th EXCEPT ![c] = [@ EXCEPT !.pc = "each", !.todo = Listed]]
    /\ Local /\ UNCHANGED <<runtime, container, record, pool, ended>>

Each(c) ==
    /\ At(c, "each")
    /\ \/ th[c].todo = {} /\ Answer(c, 200)
       \/ \E n \in th[c].todo :
            th' = [th EXCEPT ![c] =
                     IF Live(n) THEN [@ EXCEPT !.todo = th[c].todo \ {n}]
                                ELSE [@ EXCEPT !.pc = "add", !.name = n]]
    /\ Local /\ UNCHANGED <<runtime, container, record, pool, ended>>

Add(c) ==
    /\ At(c, "add")
    /\ record' = [record EXCEPT ![On(c)] = "plain"]
    /\ th' = [th EXCEPT ![c] = [@ EXCEPT !.pc = "each", !.name = NoName,
                                         !.todo = th[c].todo \ {On(c)}]]
    /\ Local /\ UNCHANGED <<runtime, container, pool, ended>>

(***************************************************************************)
(* setPolicy; and a request to a service or to the sprite's URL, which     *)
(* takes a pooled transport after it found the sprite known.               *)
(***************************************************************************)
SetPolicy(c) ==
    /\ At(c, "policy")
    /\ IF Live(On(c)) THEN record' = [record EXCEPT ![On(c)] = "set"] /\ Answer(c, 204)
                      ELSE UNCHANGED record /\ Answer(c, 404)
    /\ Local /\ UNCHANGED <<runtime, container, pool, ended>>

KnownSprite(c) ==
    /\ At(c, "known")
    /\ IF Live(On(c)) THEN Goto(c, "pool") ELSE Answer(c, 404)
    /\ Local /\ UNCHANGED <<runtime, container, record, pool, ended>>

Transport(c) ==
    /\ At(c, "pool") /\ Answer(c, 200)
    /\ pool' = [pool EXCEPT ![On(c)] = TRUE]
    /\ Local /\ UNCHANGED <<runtime, container, record, ended>>

\* Mistake: Delete polls without a deadline.
OverdueNoDelete(c) ==
    \/ At(c, "ping") /\ container[On(c)] # "ready"
    \/ At(c, "poll") /\ container[On(c)] = "created"

(***************************************************************************)
(* A wait that runs into its timeout: the agent does not answer, the pod   *)
(* does not start, the pod does not go.                                    *)
(***************************************************************************)
Overdue(c) ==
    \/ At(c, "ping") /\ container[On(c)] # "ready"
    \/ At(c, "poll") /\ container[On(c)] = "created"
    \/ At(c, "gone") /\ container[On(c)] # "none"

GiveUp(c) ==
    /\ Overdue(c) /\ disturbed' = TRUE
    /\ IF At(c, "gone") THEN Settle(c, "forget", 502) ELSE Fail(c)
    /\ UNCHANGED <<runtime, container, record, pool, ended, budget>>

(***************************************************************************)
(* A call to the daemon or the cluster fails, before or after its effect.  *)
(* inspect takes any failure for a container that does not run; the polls  *)
(* of waitForAgent and of Delete take it for "not yet".                    *)
(***************************************************************************)
Fault(c) ==
    /\ faults < MaxFaults /\ faults' = faults + 1 /\ disturbed' = TRUE
    /\ th[c].pc \in {"fill", "inspect", "create", "start", "post", "poll", "delete", "list"}
    /\ (On(c) \in Name /\ CarryOut(c)) \/ UNCHANGED container
    /\ CASE At(c, "inspect") ->
              th' = [th EXCEPT ![c] = [@ EXCEPT !.pc = "start", !.calm = FALSE]]
         [] At(c, "delete") ->
              th' = [th EXCEPT ![c] = [@ EXCEPT !.pc = "forget", !.code = 502, !.calm = FALSE]]
         [] OTHER -> Fail(c)
    /\ once' = IF At(c, "fill") THEN "failed" ELSE once
    /\ volume' \in IF At(c, "fill") THEN {volume, TRUE} ELSE {volume}
    /\ UNCHANGED <<kind, record, pool, ended, requests, boots>>

(***************************************************************************)
(* The daemon and the cluster.                                             *)
(***************************************************************************)
Becomes(n, s) == container' = [container EXCEPT ![n] = s]

Runtime(n) ==
    /\ \/ ~Docker /\ container[n] = "created" /\ Becomes(n, "running")
       \/ container[n] = "running" /\ (Docker => volume) /\ Becomes(n, "ready")
       \/ container[n] \in Up                    \* its agent ends and is restarted
             /\ Becomes(n, IF Docker THEN "running" ELSE "created")
       \/ container[n] = "terminating" /\ Becomes(n, "none")
    /\ UNCHANGED <<runtime, record, pool, th, disturbed, ended, budget>>

\* Somebody stops or removes a container.
Outside(n) ==
    /\ faults < MaxFaults /\ faults' = faults + 1 /\ disturbed' = TRUE
    /\ container[n] # "none"
    /\ \E s \in IF Docker THEN {"none", "created"} ELSE {"terminating"} : Becomes(n, s)
    /\ th' = [d \in Client |-> [th[d] EXCEPT !.calm = FALSE]]
    /\ UNCHANGED <<runtime, record, pool, ended, requests, boots>>

(***************************************************************************)
(* spritzer ends and starts again: records, transports and requests are    *)
(* lost; Adopt records what the runtime lists, if it lists.                *)
(***************************************************************************)
Restart ==
    /\ boots < MaxBoots /\ boots' = boots + 1
    /\ \E ok \in BOOLEAN :
        /\ record' = [n \in Name |-> IF ok /\ n \in Listed THEN "plain" ELSE "none"]
        /\ disturbed' = (disturbed \/ ~ok)
    /\ once' = "none" /\ pool' = [n \in Name |-> FALSE]
    /\ th' = [c \in Client |-> Idle]
    /\ UNCHANGED <<kind, volume, container, ended, requests, faults>>

ThreadStep(c) ==
    \/ Prepare(c) \/ Fill(c) \/ Inspect(c) \/ CreateContainer(c) \/ StartContainer(c)
    \/ Post(c) \/ Poll(c) \/ Ping(c) \/ Look(c) \/ Record(c)
    \/ Lookup(c) \/ Delete(c) \/ Gone(c) \/ Forget(c) \/ Unrecord(c)
    \/ List(c) \/ Each(c) \/ Add(c)
    \/ SetPolicy(c) \/ KnownSprite(c) \/ Transport(c) \/ GiveUp(c)

Next ==
    \/ \E c \in Client : \/ \E op \in Ops, n \in Name \cup {NoName} : Begin(c, op, n)
                         \/ ThreadStep(c) \/ Fault(c)
    \/ \E n \in Name : Runtime(n) \/ Outside(n)
    \/ Restart

Spec == Init /\ [][Next]_vars

FairSpec == Spec /\ \A c \in Client : WF_vars(ThreadStep(c))

-----------------------------------------------------------------------------
(***************************************************************************)
(* Properties                                                              *)
(***************************************************************************)

(***************************************************************************)
(* A Docker sprite is created only when the agent volume is filled,        *)
(* whoever fills it: otherwise its entry point does not exist.             *)
(***************************************************************************)
FilledFirst ==
    Docker => \A n \in Name : container[n] # "none" => volume

(***************************************************************************)
(* When requests came one at a time and nothing failed, the store knows    *)
(* exactly the sprites that have a container, also after spritzer ended in *)
(* the middle of a request.                                                *)
(***************************************************************************)
Agree ==
    ~disturbed /\ (\A c \in Client : At(c, "idle")) =>
        \A n \in Name : Live(n) <=> container[n] \notin {"none", "terminating"}

\* A request that ran alone, without a failure, gets one of these answers.
Answers(c, op, codes) ==
    /\ th[c].op = op /\ ~At(c, "idle") /\ At(c, "idle")'
    /\ th'[c].calm /\ th'[c].code \in codes

(***************************************************************************)
(* After a DELETE that succeeds or finds nothing, there is no record, no   *)
(* container and no pooled transport left, whatever happened before.       *)
(***************************************************************************)
DestroyedIsGone ==
    [][\A c \in Client : Answers(c, "destroy", {200, 404}) =>
          record'[On(c)] = "none" /\ container'[On(c)] = "none" /\ ~pool'[On(c)]]_vars

(***************************************************************************)
(* A create ends with a known sprite that has a container, also when       *)
(* record or container were there before, and fails only when the volume   *)
(* could not be filled or the pod of before is being deleted.              *)
(***************************************************************************)
CreateWorks ==
    [][\A c \in Client :
        /\ Answers(c, "create", {201}) => record'[On(c)] # "none" /\ On(c) \in Listed
        /\ Answers(c, "create", {502}) =>
              IF Docker THEN once = "failed"
                        ELSE container[On(c)] \in {"none", "terminating"}]_vars

AllKnown == \A n \in Listed : Live(n)

(***************************************************************************)
(* After a list every container it could name is known: a list mends the   *)
(* records that a failed create or a failed adoption left out.             *)
(***************************************************************************)
ListedIsKnown ==
    [][\A c \in Client : Answers(c, "list", {200}) => AllKnown']_vars

(***************************************************************************)
(* The policy of a sprite is replaced by nothing but a restart of spritzer *)
(* or a request that overlapped another one.                               *)
(***************************************************************************)
PolicyKept ==
    [][\A n \in Name : record[n] = "set" /\ record'[n] = "plain" =>
          boots' # boots \/ \E c \in Client : On(c) = n /\ ~th[c].calm]_vars

(***************************************************************************)
(* Every request is answered, also when another one holds prepOnce, the    *)
(* agent never answers or the pod never goes.                              *)
(***************************************************************************)
RequestsReturn == \A c \in Client : ~At(c, "idle") ~> At(c, "idle")

(***************************************************************************)
(* A destroyed sprite is not known again before somebody creates it.       *)
(***************************************************************************)
DestroyedStaysGone == \A n \in Name : ended[n] => ~Live(n)

-----------------------------------------------------------------------------
(***************************************************************************)
(* The inductive invariant.                                                *)
(***************************************************************************)
Stage == [none |-> {"idle"},
          create |-> {"prepare", "fill", "inspect", "create", "start", "post", "poll",
                      "ping", "look", "record"},
          destroy |-> {"lookup", "delete", "gone", "forget", "unrecord"},
          list |-> {"list", "each", "add"},
          policy |-> {"policy"},
          proxy |-> {"known", "pool"}]

\* A thread is in the handler of its request, with a name where that needs one,
\* and on the path of the runtime there is.
Staged(r) ==
    /\ r.pc \in Stage[r.op]
    /\ r.pc \notin {"idle", "list", "each"} => r.name \in Name
    /\ r.pc \in {"prepare", "fill", "inspect", "create", "start"} => Docker
    /\ r.pc \in {"post", "poll", "gone"} => ~Docker

StageInv ==
    /\ Docker => \A n \in Name : container[n] # "terminating"
    /\ \A c \in Client : Staged(th[c])

\* Docker's create goes on from prepare only when the volume is filled.
VolumeInv ==
    /\ once = "ok" => volume
    /\ \A c \in Client : th[c].pc \in {"inspect", "create", "start"} => volume

\* What a request that runs alone knows of its sprite.
Knows(c) ==
    /\ At(c, "create") => container[On(c)] = "none"
    /\ At(c, "start") => container[On(c)] = "created"
    /\ th[c].pc \in {"look", "record"} => On(c) \in Listed
    /\ th[c].pc \in {"record", "add"} => ~Live(On(c))
    /\ At(c, "delete") => th[c].code = 200 \/ (th[c].code = 404 /\ ~Live(On(c)))
    /\ At(c, "gone") => th[c].code = 200
    /\ At(c, "forget") =>
          \/ th[c].code = 502
          \/ /\ container[On(c)] = "none"
             /\ th[c].code = 200 \/ (th[c].code = 404 /\ ~Live(On(c)))
    /\ At(c, "unrecord") => container[On(c)] = "none" /\ ~pool[On(c)]
    /\ th[c].pc \in {"each", "add"} => \A n \in Listed \ th[c].todo : Live(n)

CalmInv == \A c \in Client : th[c].calm => Alone(c) /\ Knows(c)

\* How far record and container of n are apart while nothing was disturbed.
Apart(c, n) ==
    On(c) = n /\ \/ th[c].pc \in {"start", "poll", "ping", "look", "record"}
                       /\ (Live(n) => n \in Listed)
                 \/ th[c].pc \in {"gone", "forget", "unrecord"} /\ n \notin Listed

AgreeInv ==
    ~disturbed =>
        /\ once # "failed"
        /\ \A c \in Client :
            /\ At(c, "idle") \/ th[c].calm
            /\ At(c, "each") => th[c].todo \subseteq Listed
            /\ ~At(c, "add")
            /\ At(c, "forget") => th[c].code # 502
        /\ \A n \in Name : (Live(n) <=> n \in Listed) \/ \E c \in Client : Apart(c, n)

IInv == TypeOK /\ StageInv /\ VolumeInv /\ FilledFirst /\ CalmInv /\ AgreeInv
=============================================================================
