-------------------------- MODULE ContainersProofs --------------------------
(***************************************************************************)
(* Proofs about Containers, for any sprites, clients and bounds, and for   *)
(* both runtimes.                                                          *)
(***************************************************************************)
EXTENDS Containers, TLAPS

(***************************************************************************)
(* The initial state satisfies the inductive invariant.                    *)
(***************************************************************************)
LEMMA InitIInv == Init => IInv
<1> SUFFICES ASSUME Init PROVE IInv
  OBVIOUS
<1>1. TypeOK /\ FilledFirst /\ VolumeInv
  BY DEF Init, TypeOK, FilledFirst, VolumeInv, Idle, Thd, ThreadRecord, Label, Codes, Status
<1>2. StageInv /\ CalmInv /\ AgreeInv
  BY DEF Init, StageInv, Staged, CalmInv, Knows, AgreeInv, Stage, Idle, Thd, At, Live, Listed
<1> QED
  BY <1>1, <1>2 DEF IInv

-----------------------------------------------------------------------------
(***************************************************************************)
(* What the helpers do to the thread that takes a step: only th[c] changes,*)
(* to r.                                                                   *)
(***************************************************************************)
Changes(c, r) ==
    /\ th' \in [Client -> ThreadRecord]
    /\ th'[c] = r
    /\ \A d \in Client \ {c} : th'[d] = th[d]

LEMMA IdleType == Idle \in ThreadRecord
  BY DEF ThreadRecord, Idle, Thd, Label, Codes

LEMMA GotoChanges ==
    ASSUME TypeOK, NEW c \in Client, NEW p \in Label, Goto(c, p)
    PROVE  \E r \in ThreadRecord :
              /\ Changes(c, r) /\ r.pc = p
              /\ r.op = th[c].op /\ r.name = th[c].name /\ r.code = th[c].code
              /\ r.todo = th[c].todo /\ r.calm = th[c].calm
<1>1. [th[c] EXCEPT !.pc = p] \in ThreadRecord
  BY DEF TypeOK, ThreadRecord
<1> QED
  BY <1>1 DEF Goto, TypeOK, ThreadRecord, Changes

LEMMA SettleChanges ==
    ASSUME TypeOK, NEW c \in Client, NEW p \in Label, NEW code \in Codes, Settle(c, p, code)
    PROVE  \E r \in ThreadRecord :
              /\ Changes(c, r) /\ r.pc = p /\ r.code = code
              /\ r.op = th[c].op /\ r.name = th[c].name
              /\ r.todo = th[c].todo /\ r.calm = th[c].calm
<1>1. [th[c] EXCEPT !.pc = p, !.code = code] \in ThreadRecord
  BY DEF TypeOK, ThreadRecord
<1> QED
  BY <1>1 DEF Settle, TypeOK, ThreadRecord, Changes

LEMMA AnswerChanges ==
    ASSUME TypeOK, NEW c \in Client, NEW code \in Codes, Answer(c, code)
    PROVE  \E r \in ThreadRecord :
              /\ Changes(c, r) /\ r.pc = "idle" /\ r.op = "none"
              /\ r.code = code /\ r.calm = th[c].calm
<1>1. [Idle EXCEPT !.code = code, !.calm = th[c].calm] \in ThreadRecord
  BY DEF TypeOK, ThreadRecord, Idle, Thd, Label
<1> QED
  BY <1>1 DEF Answer, TypeOK, ThreadRecord, Changes, Idle, Thd

LEMMA FailChanges ==
    ASSUME TypeOK, NEW c \in Client, Fail(c)
    PROVE  \E r \in ThreadRecord :
              Changes(c, r) /\ r.pc = "idle" /\ r.op = "none" /\ ~r.calm
<1>1. 502 \in Codes /\ Idle.pc = "idle" /\ Idle.op = "none" /\ ~Idle.calm
  BY DEF Codes, Idle, Thd
<1>2. [Idle EXCEPT !.code = 502] \in ThreadRecord
  BY <1>1, IdleType DEF ThreadRecord
<1> QED
  BY <1>1, <1>2, IdleType DEF Fail, TypeOK, ThreadRecord, Changes

(***************************************************************************)
(* The stages of a handler.                                                *)
(***************************************************************************)
LEMMA Stages ==
    /\ \A op \in AllOps \cup {"none"} : Stage[op] \subseteq Label
    /\ \A op \in AllOps \cup {"none"}, p \in {"prepare", "fill", "inspect", "create", "start",
              "post", "poll", "ping", "look", "record"} : p \in Stage[op] <=> op = "create"
    /\ \A op \in AllOps \cup {"none"}, p \in {"lookup", "delete", "gone", "forget", "unrecord"} :
          p \in Stage[op] <=> op = "destroy"
    /\ \A op \in AllOps \cup {"none"}, p \in {"list", "each", "add"} :
          p \in Stage[op] <=> op = "list"
    /\ \A op \in AllOps \cup {"none"} : "policy" \in Stage[op] <=> op = "policy"
    /\ \A op \in AllOps \cup {"none"}, p \in {"known", "pool"} :
          p \in Stage[op] <=> op = "proxy"
    /\ \A op \in AllOps \cup {"none"} : "idle" \in Stage[op] <=> op = "none"
  BY DEF Stage, AllOps, Label

(***************************************************************************)
(* A step of a thread keeps it in the handler of its request.              *)
(***************************************************************************)
LEMMA ThreadStepStaged ==
    ASSUME TypeOK, StageInv, NEW c \in Client, ThreadStep(c)
    PROVE  \E r \in ThreadRecord : Changes(c, r) /\ Staged(r)
<1> USE DEF At, On
<1> DEFINE Moved(p) == \E r \in ThreadRecord :
              /\ Changes(c, r) /\ r.pc = p
              /\ r.op = th[c].op /\ r.name = th[c].name
<1>0. /\ th[c] \in ThreadRecord /\ Staged(th[c])
      /\ th[c].op \in AllOps \cup {"none"}
  BY DEF TypeOK, StageInv, ThreadRecord
<1>1. ASSUME NEW p \in Label, Goto(c, p) PROVE Moved(p)
  BY <1>1, GotoChanges
<1>2. ASSUME NEW p \in Label, NEW code \in Codes, Settle(c, p, code) PROVE Moved(p)
  BY <1>2, SettleChanges
<1>3. ASSUME NEW code \in Codes, Answer(c, code)
      PROVE  \E r \in ThreadRecord : Changes(c, r) /\ Staged(r)
  BY <1>3, AnswerChanges, Stages DEF Staged
<1>4. ASSUME Fail(c) PROVE \E r \in ThreadRecord : Changes(c, r) /\ Staged(r)
  BY <1>4, FailChanges, Stages DEF Staged
<1> HIDE DEF Moved
<1>5. ASSUME NEW p \in Label, Moved(p), p \in Stage[th[c].op], p # "idle",
             p \notin {"list", "each"} => th[c].name \in Name,
             p \in {"prepare", "fill", "inspect", "create", "start"} => Docker,
             p \in {"post", "poll", "gone"} => ~Docker
      PROVE  \E r \in ThreadRecord : Changes(c, r) /\ Staged(r)
  BY <1>5 DEF Moved, Staged
<1>6. \A code \in {200, 201, 204, 404, 502} : code \in Codes
  BY DEF Codes
<1>7. CASE Prepare(c)
  BY <1>0, <1>1, <1>3, <1>5, <1>6, <1>7, Stages DEF Prepare, Staged, Label
<1>8. CASE Fill(c) \/ Inspect(c) \/ CreateContainer(c) \/ StartContainer(c)
  BY <1>0, <1>1, <1>3, <1>5, <1>6, <1>8, Stages
     DEF Fill, Inspect, CreateContainer, StartContainer, Staged, Label
<1>9. CASE Post(c) \/ Poll(c) \/ Ping(c) \/ Look(c) \/ Record(c)
  BY <1>0, <1>1, <1>3, <1>5, <1>6, <1>9, Stages
     DEF Post, Poll, Ping, Look, Record, Staged, Label
<1>10. CASE Lookup(c) \/ Delete(c) \/ Gone(c)
  BY <1>0, <1>1, <1>2, <1>5, <1>6, <1>10, Stages
     DEF Lookup, Delete, Gone, Staged, Label
<1>11. CASE Forget(c) \/ Unrecord(c)
  BY <1>0, <1>1, <1>3, <1>5, <1>6, <1>11, Stages
     DEF Forget, Unrecord, Staged, Label, ThreadRecord
<1>12. CASE SetPolicy(c) \/ KnownSprite(c) \/ Transport(c)
  BY <1>0, <1>1, <1>3, <1>5, <1>6, <1>12, Stages
     DEF SetPolicy, KnownSprite, Transport, Staged, Label
<1>13. CASE GiveUp(c)
  BY <1>0, <1>2, <1>4, <1>5, <1>6, <1>13, Stages
     DEF GiveUp, Overdue, Staged, Label
<1>14. CASE List(c)
  <2> DEFINE r == [th[c] EXCEPT !.pc = "each", !.todo = Listed]
  <2>1. r \in ThreadRecord /\ r.pc = "each" /\ r.op = th[c].op
    BY <1>0 DEF ThreadRecord, Listed, Label
  <2>2. Changes(c, r)
    BY <1>14, <2>1 DEF List, Changes, TypeOK
  <2> HIDE DEF r
  <2>3. Staged(r)
    BY <1>0, <1>14, <2>1, Stages DEF List, Staged
  <2> QED
    BY <2>1, <2>2, <2>3
<1>15. CASE Each(c)
  <2>1. CASE Answer(c, 200)
    BY <1>3, <1>6, <2>1
  <2>2. ASSUME NEW n \in th[c].todo,
               th' = [th EXCEPT ![c] =
                        IF Live(n) THEN [@ EXCEPT !.todo = th[c].todo \ {n}]
                                   ELSE [@ EXCEPT !.pc = "add", !.name = n]]
        PROVE  \E r \in ThreadRecord : Changes(c, r) /\ Staged(r)
    <3> DEFINE r == IF Live(n) THEN [th[c] EXCEPT !.todo = th[c].todo \ {n}]
                               ELSE [th[c] EXCEPT !.pc = "add", !.name = n]
    <3>0. n \in Name /\ th[c].pc = "each"
      BY <1>0, <1>15 DEF ThreadRecord, Each
    <3>1. r \in ThreadRecord /\ r.op = th[c].op
      BY <1>0, <3>0 DEF ThreadRecord, Label
    <3>2. r.pc = "each" \/ (r.pc = "add" /\ r.name \in Name)
      BY <1>0, <3>0 DEF ThreadRecord
    <3>3. Changes(c, r)
      BY <2>2, <3>1 DEF Changes, TypeOK
    <3> HIDE DEF r
    <3>4. Staged(r)
      BY <1>0, <3>0, <3>1, <3>2, Stages DEF Staged
    <3> QED
      BY <3>1, <3>3, <3>4
  <2> QED
    BY <1>15, <2>1, <2>2 DEF Each
<1>16. CASE Add(c)
  <2> DEFINE r == [th[c] EXCEPT !.pc = "each", !.name = NoName,
                                !.todo = th[c].todo \ {On(c)}]
  <2>1. r \in ThreadRecord /\ r.pc = "each" /\ r.op = th[c].op
    BY <1>0 DEF ThreadRecord, Label
  <2>2. Changes(c, r)
    BY <1>16, <2>1 DEF Add, Changes, TypeOK
  <2> HIDE DEF r
  <2>3. Staged(r)
    BY <1>0, <1>16, <2>1, Stages DEF Add, Staged
  <2> QED
    BY <2>1, <2>2, <2>3
<1> QED
  BY <1>7, <1>8, <1>9, <1>10, <1>11, <1>12, <1>13, <1>14, <1>15, <1>16 DEF ThreadStep

(***************************************************************************)
(* What a call does to a container.                                        *)
(***************************************************************************)
LEMMA EffectType ==
    ASSUME NEW p \in Label, NEW s \in Status
    PROVE  Effect(p, s) \in Status /\ (Docker /\ s # "terminating" => Effect(p, s) # "terminating")
  BY DEF Effect, Status

LEMMA CarryOutType ==
    ASSUME TypeOK, StageInv, NEW c \in Client, On(c) \in Name, CarryOut(c)
    PROVE  /\ container' \in [Name -> Status]
           /\ Docker => \A n \in Name : container'[n] # "terminating"
           /\ container'[On(c)] = Effect(th[c].pc, container[On(c)])
           /\ \A n \in Name \ {On(c)} : container'[n] = container[n]
<1>1. th[c].pc \in Label
  BY DEF TypeOK, ThreadRecord
<1> QED
  BY <1>1, EffectType DEF CarryOut, TypeOK, StageInv

\* Is every container as it may be?
ContainersOK ==
    /\ container \in [Name -> Status]
    /\ Docker => \A n \in Name : container[n] # "terminating"

LEMMA ThreadStepContainers ==
    ASSUME TypeOK, StageInv, NEW c \in Client, ThreadStep(c)
    PROVE  ContainersOK'
<1>1. Staged(th[c]) /\ ContainersOK /\ UNCHANGED kind
  BY DEF StageInv, ContainersOK, TypeOK, ThreadStep, Prepare, Fill, Inspect, CreateContainer,
         StartContainer, Post, Poll, Ping, Look, Record, Lookup, Delete, Gone, Forget,
         Unrecord, List, Each, Add, SetPolicy, KnownSprite, Transport, GiveUp, runtime
<1>2. CASE CreateContainer(c) \/ StartContainer(c) \/ Post(c) \/ Delete(c)
  <2>1. On(c) \in Name /\ CarryOut(c)
    BY <1>1, <1>2 DEF CreateContainer, StartContainer, Post, Delete, Staged, At, On
  <2> QED
    BY <1>1, <2>1, CarryOutType DEF ContainersOK, Docker
<1>3. CASE UNCHANGED container
  BY <1>1, <1>3 DEF ContainersOK, Docker
<1> QED
  BY <1>2, <1>3
     DEF ThreadStep, Prepare, Fill, Inspect, Poll, Ping, Look, Record, Lookup, Gone, Forget,
         Unrecord, List, Each, Add, SetPolicy, KnownSprite, Transport, GiveUp

(***************************************************************************)
(* The steps of the threads keep the rest of the state well typed.         *)
(***************************************************************************)
LEMMA ThreadStepType ==
    ASSUME TypeOK, StageInv, NEW c \in Client, ThreadStep(c)
    PROVE  TypeOK' /\ StageInv'
<1>1. PICK r \in ThreadRecord : Changes(c, r) /\ Staged(r)
  BY ThreadStepStaged
<1>2. ContainersOK'
  BY ThreadStepContainers
<1>3. Staged(th[c]) /\ UNCHANGED <<kind, budget>>
  BY DEF StageInv, ThreadStep, Prepare, Fill, Inspect, CreateContainer,
         StartContainer, Post, Poll, Ping, Look, Record, Lookup, Delete, Gone, Forget,
         Unrecord, List, Each, Add, SetPolicy, KnownSprite, Transport, GiveUp, runtime, Local
<1>4. th' \in [Client -> ThreadRecord] /\ \A d \in Client : Staged(th[d])'
  BY <1>1, <1>3 DEF Changes, StageInv, Staged, Docker
<1>5. volume' \in BOOLEAN /\ once' \in {"none", "busy", "ok", "failed"} /\ disturbed' \in BOOLEAN
  <2>1. /\ volume' = volume \/ volume' = TRUE
        /\ disturbed' = disturbed \/ disturbed' = TRUE
        /\ once' = once \/ once' \in {"busy", "ok"}
    BY DEF ThreadStep, Prepare, Fill, Inspect, CreateContainer,
           StartContainer, Post, Poll, Ping, Look, Record, Lookup, Delete, Gone, Forget,
           Unrecord, List, Each, Add, SetPolicy, KnownSprite, Transport, GiveUp, runtime, Local
  <2>2. volume \in BOOLEAN /\ disturbed \in BOOLEAN /\ once \in {"none", "busy", "ok", "failed"}
    BY DEF TypeOK
  <2>3. volume' \in BOOLEAN /\ disturbed' \in BOOLEAN
    BY <2>1, <2>2, Zenon
  <2>4. once' \in {"none", "busy", "ok", "failed"}
    BY <2>1, <2>2
  <2> QED
    BY <2>3, <2>4
<1>6. /\ record' \in [Name -> {"none", "plain", "set"}]
      /\ pool' \in [Name -> BOOLEAN]
      /\ ended' \in [Name -> BOOLEAN]
  BY DEF TypeOK, ThreadStep, Prepare, Fill, Inspect, CreateContainer,
         StartContainer, Post, Poll, Ping, Look, Record, Lookup, Delete, Gone, Forget,
         Unrecord, List, Each, Add, SetPolicy, KnownSprite, Transport, GiveUp
<1> QED
  BY <1>2, <1>3, <1>4, <1>5, <1>6 DEF TypeOK, StageInv, ContainersOK, budget, Docker

LEMMA BeginType ==
    ASSUME TypeOK, StageInv, NEW c \in Client, NEW op \in Ops, NEW n \in Name \cup {NoName},
           Begin(c, op, n)
    PROVE  TypeOK' /\ StageInv'
<1> DEFINE r == Thd(First(op), op, n, Alone(c))
<1>1. op \in AllOps /\ (op # "list" => n \in Name)
  BY OpsAssumption, NameAssumption DEF Begin
<1>2. /\ First(op) \in Stage[op] /\ First(op) \in Label
      /\ First(op) \notin {"idle", "each", "start", "poll", "gone"}
      /\ First(op) \in {"prepare", "fill", "inspect", "create"} => Docker
      /\ First(op) = "post" => ~Docker
      /\ First(op) = "list" <=> op = "list"
  BY <1>1 DEF First, Stage, AllOps, Label
<1>3. Alone(c) \in BOOLEAN
  BY DEF Alone
<1>4. r \in ThreadRecord /\ Staged(r)
  BY <1>1, <1>2, <1>3 DEF Thd, ThreadRecord, Staged, Codes
<1>5. \A d \in Client : /\ [th[d] EXCEPT !.calm = FALSE] \in ThreadRecord
                        /\ Staged([th[d] EXCEPT !.calm = FALSE])
  BY DEF TypeOK, StageInv, ThreadRecord, Staged
<1> HIDE DEF r
<1>6. th' = [d \in Client |-> IF d = c THEN r ELSE [th[d] EXCEPT !.calm = FALSE]]
  BY DEF Begin, r
<1>7. UNCHANGED <<kind, volume, once, container, record, pool, faults, boots>>
  BY DEF Begin, runtime
<1>8. th' \in [Client -> ThreadRecord] /\ \A d \in Client : Staged(th[d])'
  BY <1>4, <1>5, <1>6, <1>7 DEF Staged, Docker
<1>9. requests' \in Nat /\ disturbed' \in BOOLEAN /\ ended' \in [Name -> BOOLEAN]
  BY <1>3 DEF Begin, TypeOK
<1> QED
  BY <1>7, <1>8, <1>9 DEF TypeOK, StageInv, Docker

LEMMA FaultType ==
    ASSUME TypeOK, StageInv, NEW c \in Client, Fault(c)
    PROVE  TypeOK' /\ StageInv'
<1>0. th[c] \in ThreadRecord /\ Staged(th[c]) /\ UNCHANGED kind
  BY DEF TypeOK, StageInv, Fault
<1>1. \E r \in ThreadRecord : Changes(c, r) /\ Staged(r)
  <2>1. CASE Fail(c)
    BY <2>1, FailChanges, Stages DEF Staged
  <2>2. CASE At(c, "inspect")
    <3> DEFINE r == [th[c] EXCEPT !.pc = "start", !.calm = FALSE]
    <3>1. r \in ThreadRecord /\ r.pc = "start" /\ r.op = th[c].op /\ r.name = th[c].name
      BY <1>0 DEF ThreadRecord, Label
    <3>2. Changes(c, r)
      BY <2>2, <3>1 DEF Fault, Changes, TypeOK, At
    <3> HIDE DEF r
    <3> QED
      BY <1>0, <2>2, <3>1, <3>2, Stages DEF Staged, At, ThreadRecord
  <2>3. CASE At(c, "delete")
    <3> DEFINE r == [th[c] EXCEPT !.pc = "forget", !.code = 502, !.calm = FALSE]
    <3>1. r \in ThreadRecord /\ r.pc = "forget" /\ r.op = th[c].op /\ r.name = th[c].name
      <4>1. 502 \in Codes /\ "forget" \in Label
        BY DEF Codes, Label
      <4>2. ASSUME NEW code \in Codes
            PROVE  LET s == [th[c] EXCEPT !.pc = "forget", !.code = code, !.calm = FALSE]
                   IN  s \in ThreadRecord /\ s.pc = "forget" /\ s.op = th[c].op
                          /\ s.name = th[c].name
        BY <1>0, <4>1 DEF ThreadRecord
      <4> QED
        BY <4>1, <4>2
    <3>2. Changes(c, r)
      BY <2>3, <3>1 DEF Fault, Changes, TypeOK, At
    <3> HIDE DEF r
    <3> QED
      BY <1>0, <2>3, <3>1, <3>2, Stages DEF Staged, At, ThreadRecord
  <2> QED
    BY <2>1, <2>2, <2>3 DEF Fault
<1>2. ContainersOK'
  <2>1. ContainersOK
    BY DEF TypeOK, StageInv, ContainersOK
  <2>2. CASE UNCHANGED container
    BY <1>0, <2>1, <2>2 DEF ContainersOK, Docker
  <2>3. CASE On(c) \in Name /\ CarryOut(c)
    BY <1>0, <2>3, CarryOutType DEF ContainersOK, Docker
  <2> QED
    BY <2>2, <2>3 DEF Fault
<1>3. th' \in [Client -> ThreadRecord] /\ \A d \in Client : Staged(th[d])'
  BY <1>0, <1>1 DEF Changes, StageInv, Staged, Docker
<1>4. volume' \in BOOLEAN /\ disturbed' \in BOOLEAN
  BY Zenon DEF Fault, TypeOK
<1>5. /\ once' \in {"none", "busy", "ok", "failed"} /\ faults' \in Nat
      /\ UNCHANGED <<record, pool, ended, requests, boots>>
  BY DEF Fault, TypeOK
<1> QED
  BY <1>0, <1>2, <1>3, <1>4, <1>5 DEF TypeOK, StageInv, ContainersOK, Docker

LEMMA EnvironmentType ==
    ASSUME TypeOK, StageInv,
           Restart \/ \E n \in Name : Runtime(n) \/ Outside(n)
    PROVE  TypeOK' /\ StageInv'
<1>1. CASE Restart
  <2>1. Staged(Idle)
    BY DEF Idle, Thd, Staged, Stage
  <2>2. th' \in [Client -> ThreadRecord] /\ \A d \in Client : Staged(th[d])'
    BY <1>1, <2>1, IdleType DEF Restart, Staged, Docker
  <2>3. /\ record' \in [Name -> {"none", "plain", "set"}]
        /\ pool' \in [Name -> BOOLEAN] /\ disturbed' \in BOOLEAN
        /\ boots' \in Nat /\ once' = "none"
    BY <1>1 DEF Restart, TypeOK
  <2>4. UNCHANGED <<kind, volume, container, ended, requests, faults>>
    BY <1>1 DEF Restart
  <2> QED
    BY <2>2, <2>3, <2>4 DEF TypeOK, StageInv, Docker
<1>2. ASSUME NEW n \in Name, Runtime(n) PROVE TypeOK' /\ StageInv'
  <2>1. /\ container' \in [Name -> Status]
        /\ Docker => \A m \in Name : container'[m] # "terminating"
    BY <1>2 DEF Runtime, Becomes, TypeOK, StageInv, Status, Up
  <2>2. UNCHANGED <<kind, volume, once, record, pool, th, disturbed, ended, requests, faults, boots>>
    BY <1>2 DEF Runtime, runtime, budget
  <2> QED
    BY <2>1, <2>2 DEF TypeOK, StageInv, Docker, Staged
<1>3. ASSUME NEW n \in Name, Outside(n) PROVE TypeOK' /\ StageInv'
  <2>1. /\ container' \in [Name -> Status]
        /\ Docker => \A m \in Name : container'[m] # "terminating"
    BY <1>3 DEF Outside, Becomes, TypeOK, StageInv, Status, Up
  <2>2. UNCHANGED <<kind, volume, once, record, pool, ended, requests, boots>>
    BY <1>3 DEF Outside, runtime
  <2>3. faults' \in Nat /\ disturbed' \in BOOLEAN
    BY <1>3 DEF Outside, TypeOK
  <2>4. \A d \in Client : /\ [th[d] EXCEPT !.calm = FALSE] \in ThreadRecord
                          /\ Staged([th[d] EXCEPT !.calm = FALSE])
    BY DEF TypeOK, StageInv, ThreadRecord, Staged
  <2>5. th' \in [Client -> ThreadRecord] /\ \A d \in Client : Staged(th[d])'
    BY <1>3, <2>2, <2>4 DEF Outside, Staged, Docker
  <2> QED
    BY <2>1, <2>2, <2>3, <2>5 DEF TypeOK, StageInv, Docker
<1> QED
  BY <1>1, <1>2, <1>3

LEMMA NextType == TypeOK /\ StageInv /\ [Next]_vars => TypeOK' /\ StageInv'
<1> SUFFICES ASSUME TypeOK, StageInv, [Next]_vars PROVE TypeOK' /\ StageInv'
  OBVIOUS
<1>1. CASE UNCHANGED vars
  BY <1>1 DEF vars, runtime, budget, TypeOK, StageInv, Staged, Docker
<1> QED
  BY <1>1, ThreadStepType, BeginType, FaultType, EnvironmentType DEF Next

-----------------------------------------------------------------------------
(***************************************************************************)
(* Only Docker's create makes a Docker container, from a filled volume.    *)
(***************************************************************************)
LEMMA ThreadStepVolume ==
    ASSUME TypeOK, StageInv, VolumeInv, FilledFirst, NEW c \in Client, ThreadStep(c)
    PROVE  VolumeInv' /\ FilledFirst'
<1> USE DEF At, On
<1>0. th[c] \in ThreadRecord /\ Staged(th[c]) /\ UNCHANGED kind
  BY DEF TypeOK, StageInv, ThreadStep, Prepare, Fill, Inspect, CreateContainer,
         StartContainer, Post, Poll, Ping, Look, Record, Lookup, Delete, Gone, Forget,
         Unrecord, List, Each, Add, SetPolicy, KnownSprite, Transport, GiveUp, runtime
<1>1. (volume => volume') /\ (once' = "ok" => volume')
  BY DEF VolumeInv, ThreadStep, Prepare, Fill, Inspect, CreateContainer,
         StartContainer, Post, Poll, Ping, Look, Record, Lookup, Delete, Gone, Forget,
         Unrecord, List, Each, Add, SetPolicy, KnownSprite, Transport, GiveUp, runtime
<1>2. \A d \in Client \ {c} : th'[d] = th[d]
  BY ThreadStepStaged DEF Changes
<1>3. th'[c].pc \in {"inspect", "create", "start"} => volume'
  <2>1. ASSUME NEW p \in Label, Goto(c, p) PROVE th'[c].pc = p
    BY <2>1, GotoChanges DEF Changes
  <2>2. ASSUME NEW p \in Label, NEW code \in Codes, Settle(c, p, code) PROVE th'[c].pc = p
    BY <2>2, SettleChanges DEF Changes
  <2>3. ASSUME NEW code \in Codes, Answer(c, code) PROVE th'[c].pc = "idle"
    BY <2>3, AnswerChanges DEF Changes
  <2>4. ASSUME Fail(c) PROVE th'[c].pc = "idle"
    BY <2>4, FailChanges DEF Changes
  <2>5. \A code \in {200, 201, 204, 404, 502} : code \in Codes
    BY DEF Codes
  <2>6. CASE Prepare(c) \/ Fill(c) \/ Inspect(c) \/ CreateContainer(c) \/ StartContainer(c)
    BY <2>1, <2>3, <2>5, <2>6
       DEF Prepare, Fill, Inspect, CreateContainer, StartContainer, VolumeInv, Label, runtime
  <2>7. CASE Post(c) \/ Poll(c) \/ Ping(c) \/ Look(c) \/ Record(c)
    BY <2>1, <2>3, <2>5, <2>7 DEF Post, Poll, Ping, Look, Record, Label
  <2>8. CASE Lookup(c) \/ Delete(c) \/ Gone(c) \/ Unrecord(c) \/ GiveUp(c)
    BY <2>1, <2>2, <2>3, <2>4, <2>5, <2>8
       DEF Lookup, Delete, Gone, Unrecord, GiveUp, Label
  <2>9. CASE Forget(c) \/ SetPolicy(c) \/ KnownSprite(c) \/ Transport(c)
    BY <1>0, <2>1, <2>3, <2>5, <2>9
       DEF Forget, SetPolicy, KnownSprite, Transport, Label, ThreadRecord
  <2>10. CASE List(c) \/ Each(c) \/ Add(c)
    <3>0. CASE List(c)
      <4>1. th'[c] = [th[c] EXCEPT !.pc = "each", !.todo = Listed]
        BY <3>0 DEF List, TypeOK
      <4> QED
        BY <1>0, <4>1 DEF ThreadRecord
    <3>1. CASE Add(c)
      <4>1. th'[c] = [th[c] EXCEPT !.pc = "each", !.name = NoName,
                                   !.todo = th[c].todo \ {On(c)}]
        BY <3>1 DEF Add, TypeOK
      <4> QED
        BY <1>0, <4>1 DEF ThreadRecord
    <3>2. CASE Answer(c, 200)
      BY <2>3, <2>5, <3>2
    <3>3. ASSUME NEW n \in th[c].todo, th[c].pc = "each",
                 th' = [th EXCEPT ![c] =
                          IF Live(n) THEN [@ EXCEPT !.todo = th[c].todo \ {n}]
                                     ELSE [@ EXCEPT !.pc = "add", !.name = n]]
          PROVE  th'[c].pc \in {"each", "add"}
      <4>1. CASE Live(n)
        BY <1>0, <3>3, <4>1 DEF TypeOK, ThreadRecord
      <4>2. CASE ~Live(n)
        BY <1>0, <3>3, <4>2 DEF TypeOK, ThreadRecord
      <4> QED
        BY <4>1, <4>2
    <3> QED
      BY <2>10, <3>0, <3>1, <3>2, <3>3 DEF Each
  <2> QED
    BY <2>6, <2>7, <2>8, <2>9, <2>10 DEF ThreadStep
<1>4. ASSUME Docker, NEW n \in Name, container'[n] # "none" PROVE volume'
  <2>1. CASE container[n] # "none"
    BY <1>1, <1>4, <2>1 DEF FilledFirst
  <2>2. CASE CarryOut(c) /\ container[n] = "none"
    <3>1. container'[n] = Effect(th[c].pc, "none") \/ container'[n] = container[n]
      BY <2>2 DEF CarryOut, TypeOK
    <3>2. th[c].pc \in {"create", "post"}
      BY <1>4, <2>2, <3>1 DEF Effect
    <3> QED
      BY <1>0, <1>1, <1>4, <3>2 DEF Staged, VolumeInv
  <2>3. CASE UNCHANGED container
    BY <1>1, <1>4, <2>3 DEF FilledFirst
  <2> QED
    BY <2>1, <2>2, <2>3 DEF ThreadStep, Prepare, Fill, Inspect, CreateContainer,
         StartContainer, Post, Poll, Ping, Look, Record, Lookup, Delete, Gone, Forget,
         Unrecord, List, Each, Add, SetPolicy, KnownSprite, Transport, GiveUp
<1> QED
  BY <1>0, <1>1, <1>2, <1>3, <1>4 DEF VolumeInv, FilledFirst, Docker

LEMMA NextVolume ==
    TypeOK /\ StageInv /\ VolumeInv /\ FilledFirst /\ [Next]_vars => VolumeInv' /\ FilledFirst'
<1> SUFFICES ASSUME TypeOK, StageInv, VolumeInv, FilledFirst, [Next]_vars
             PROVE  VolumeInv' /\ FilledFirst'
  OBVIOUS
<1> USE DEF At, On
<1>1. CASE UNCHANGED vars
  BY <1>1 DEF vars, runtime, budget, VolumeInv, FilledFirst, Docker
<1>2. ASSUME NEW c \in Client, NEW op \in Ops, NEW n \in Name \cup {NoName}, Begin(c, op, n)
      PROVE  VolumeInv' /\ FilledFirst'
  <2>1. First(op) \notin {"inspect", "create", "start"}
    BY OpsAssumption DEF First, AllOps
  <2>2. \A d \in Client : th'[d].pc = IF d = c THEN First(op) ELSE th[d].pc
    BY <1>2 DEF Begin, Thd, TypeOK, ThreadRecord
  <2> QED
    BY <1>2, <2>1, <2>2 DEF Begin, VolumeInv, FilledFirst, runtime, Docker
<1>3. ASSUME NEW c \in Client, Fault(c) PROVE VolumeInv' /\ FilledFirst'
  <2>0. th[c] \in ThreadRecord /\ Staged(th[c]) /\ UNCHANGED kind
    BY <1>3 DEF TypeOK, StageInv, Fault
  <2>1. (volume => volume') /\ (once' = "ok" => volume')
    BY <1>3 DEF Fault, VolumeInv
  <2>2. /\ \A d \in Client \ {c} : th'[d] = th[d]
        /\ th'[c].pc \in {"inspect", "create", "start"} => At(c, "inspect")
    <3>1. CASE Fail(c)
      BY <3>1, FailChanges DEF Changes
    <3>2. CASE At(c, "inspect")
      BY <1>3, <3>2 DEF Fault, TypeOK
    <3>3. CASE At(c, "delete")
      <4>1. th' = [th EXCEPT ![c] = [@ EXCEPT !.pc = "forget", !.code = 502, !.calm = FALSE]]
        BY <1>3, <3>3 DEF Fault
      <4>2. /\ th'[c] = [th[c] EXCEPT !.pc = "forget", !.code = 502, !.calm = FALSE]
            /\ \A d \in Client \ {c} : th'[d] = th[d]
        BY <4>1 DEF TypeOK
      <4>3. th'[c].pc = "forget"
        BY <2>0, <4>2 DEF ThreadRecord
      <4> QED
        BY <4>2, <4>3
    <3> QED
      BY <1>3, <3>1, <3>2, <3>3 DEF Fault
  <2>3. ASSUME Docker, NEW n \in Name, container'[n] # "none" PROVE volume'
    <3>1. CASE container[n] # "none"
      BY <2>1, <2>3, <3>1 DEF FilledFirst
    <3>2. CASE CarryOut(c) /\ container[n] = "none"
      <4>1. container'[n] = Effect(th[c].pc, "none") \/ container'[n] = container[n]
        BY <3>2 DEF CarryOut, TypeOK
      <4>2. th[c].pc \in {"create", "post"}
        BY <2>3, <3>2, <4>1 DEF Effect
      <4> QED
        BY <2>0, <2>1, <2>3, <4>2 DEF Staged, VolumeInv
    <3> QED
      BY <1>3, <2>3, <3>1, <3>2 DEF Fault
  <2> QED
    BY <2>0, <2>1, <2>2, <2>3 DEF VolumeInv, FilledFirst, Docker
<1>4. ASSUME NEW n \in Name, Runtime(n) \/ Outside(n) PROVE VolumeInv' /\ FilledFirst'
  <2>1. \A m \in Name : container'[m] # "none" => container[m] # "none"
    BY <1>4 DEF Runtime, Outside, Becomes, TypeOK, Up
  <2>2. \A d \in Client : th'[d].pc = th[d].pc
    BY <1>4 DEF Runtime, Outside, TypeOK, ThreadRecord
  <2>3. UNCHANGED <<kind, volume, once>>
    BY <1>4 DEF Runtime, Outside, runtime
  <2> QED
    BY <2>1, <2>2, <2>3 DEF VolumeInv, FilledFirst, Docker
<1>5. CASE Restart
  BY <1>5 DEF Restart, VolumeInv, FilledFirst, Idle, Thd, Docker
<1> QED
  BY <1>1, <1>2, <1>3, <1>4, <1>5, ThreadStepVolume DEF Next

-----------------------------------------------------------------------------
(***************************************************************************)
(* A request that runs alone keeps what it knows, or learns it: nobody     *)
(* else changes record, container or transports.                           *)
(***************************************************************************)
LEMMA CreateKnows ==
    ASSUME TypeOK, StageInv, NEW c \in Client, Knows(c),
           \/ Prepare(c) \/ Fill(c) \/ Inspect(c) \/ CreateContainer(c) \/ StartContainer(c)
           \/ Post(c) \/ Poll(c) \/ Ping(c) \/ Look(c) \/ Record(c)
    PROVE  Knows(c)'
<1> USE DEF At, On
<1>0. th[c] \in ThreadRecord /\ Staged(th[c])
  BY DEF TypeOK, StageInv
<1>1. ASSUME NEW p \in Label, Goto(c, p) PROVE th'[c].pc = p /\ th'[c].name = th[c].name
  BY <1>1, GotoChanges DEF Changes
<1>2. ASSUME NEW code \in Codes, Answer(c, code) PROVE th'[c].pc = "idle"
  BY <1>2, AnswerChanges DEF Changes
<1>3. 201 \in Codes /\ 502 \in Codes
  BY DEF Codes
<1>4. CASE th'[c].pc \in {"idle", "fill", "inspect", "poll", "ping"}
  BY <1>4 DEF Knows
<1>5. CASE Inspect(c)
  <2>1. container[On(c)] \in Status /\ container[On(c)] # "terminating"
    BY <1>0, <1>5 DEF Inspect, Staged, StageInv, TypeOK
  <2>2. \/ th'[c].pc = "create" /\ container[On(c)] = "none"
        \/ th'[c].pc = "start" /\ container[On(c)] = "created"
        \/ th'[c].pc = "ping"
    BY <1>1, <1>5, <2>1 DEF Inspect, Label, Status, Up
  <2>3. th'[c].name = th[c].name /\ UNCHANGED container
    BY <1>1, <1>5 DEF Inspect, Label
  <2> QED
    BY <2>2, <2>3 DEF Knows
<1>6. CASE CreateContainer(c)
  <2>1. CASE container[On(c)] = "none"
    <3>1. th'[c].pc = "start" /\ th'[c].name = th[c].name
      BY <1>1, <1>6, <2>1 DEF CreateContainer, Label
    <3>2. container'[On(c)] = "created"
      BY <1>0, <1>6, <2>1, CarryOutType DEF CreateContainer, Staged, Effect
    <3> QED
      BY <3>1, <3>2 DEF Knows
  <2>2. CASE container[On(c)] # "none"
    BY <1>2, <1>3, <1>4, <1>6, <2>2 DEF CreateContainer
  <2> QED
    BY <2>1, <2>2
<1>7. CASE Ping(c)
  <2>1. th'[c].pc = "look" /\ th'[c].name = th[c].name /\ UNCHANGED container
    BY <1>1, <1>7 DEF Ping, Label
  <2>2. On(c) \in Name /\ container[On(c)] = "ready"
    BY <1>0, <1>7 DEF Ping, Staged
  <2> QED
    BY <2>1, <2>2 DEF Knows, Listed
<1>8. CASE Look(c)
  <2>1. CASE Live(On(c))
    BY <1>2, <1>3, <1>4, <1>8, <2>1 DEF Look
  <2>2. CASE ~Live(On(c))
    <3>1. th'[c].pc = "record" /\ th'[c].name = th[c].name /\ UNCHANGED <<container, record>>
      BY <1>1, <1>8, <2>2 DEF Look, Label
    <3> QED
      BY <1>8, <2>2, <3>1 DEF Look, Knows, Listed, Live
  <2> QED
    BY <2>1, <2>2
<1>9. CASE \/ Prepare(c) \/ Fill(c) \/ StartContainer(c) \/ Post(c) \/ Poll(c) \/ Record(c)
  BY <1>1, <1>2, <1>3, <1>4, <1>9
     DEF Prepare, Fill, StartContainer, Post, Poll, Record, Label
<1> QED
  BY <1>5, <1>6, <1>7, <1>8, <1>9

LEMMA DestroyKnows ==
    ASSUME TypeOK, StageInv, NEW c \in Client, Knows(c),
           Lookup(c) \/ Delete(c) \/ Gone(c) \/ Forget(c) \/ Unrecord(c) \/ GiveUp(c)
    PROVE  Knows(c)'
<1> USE DEF At, On
<1>0. th[c] \in ThreadRecord /\ Staged(th[c])
  BY DEF TypeOK, StageInv
<1>1. ASSUME NEW p \in Label, Goto(c, p)
      PROVE  th'[c].pc = p /\ th'[c].name = th[c].name /\ th'[c].code = th[c].code
  BY <1>1, GotoChanges DEF Changes
<1>2. ASSUME NEW code \in Codes, Answer(c, code) PROVE th'[c].pc = "idle"
  BY <1>2, AnswerChanges DEF Changes
<1>3. ASSUME NEW p \in Label, NEW code \in Codes, Settle(c, p, code)
      PROVE  th'[c].pc = p /\ th'[c].name = th[c].name /\ th'[c].code = code
  BY <1>3, SettleChanges DEF Changes
<1>4. 200 \in Codes /\ 404 \in Codes /\ 502 \in Codes
  BY DEF Codes
<1>5. CASE th'[c].pc = "idle"
  BY <1>5 DEF Knows
<1>6. CASE Lookup(c)
  <2>1. /\ th'[c].pc = "delete" /\ th'[c].name = th[c].name /\ UNCHANGED record
        /\ th'[c].code = 200 \/ (th'[c].code = 404 /\ ~Live(On(c)))
    BY <1>3, <1>4, <1>6 DEF Lookup, Label
  <2> QED
    BY <2>1 DEF Knows, Live
<1>7. CASE Delete(c)
  <2>0. On(c) \in Name /\ CarryOut(c) /\ UNCHANGED record /\ th[c].pc = "delete"
    BY <1>0, <1>7 DEF Delete, Staged
  <2>1. CASE container[On(c)] = "none"
    <3>1. th'[c].pc = "forget" /\ th'[c].name = th[c].name /\ th'[c].code = th[c].code
      BY <1>1, <1>7, <2>1 DEF Delete, Label
    <3>2. container'[On(c)] = "none"
      BY <2>0, <2>1, CarryOutType DEF Effect
    <3> QED
      BY <2>0, <3>1, <3>2 DEF Knows, Live
  <2>2. CASE container[On(c)] # "none" /\ Docker
    <3>1. th'[c].pc = "forget" /\ th'[c].name = th[c].name /\ th'[c].code = 200
      BY <1>3, <1>4, <1>7, <2>2 DEF Delete, Label
    <3>2. container'[On(c)] = "none"
      BY <2>0, <2>2, CarryOutType DEF Effect
    <3> QED
      BY <3>1, <3>2 DEF Knows
  <2>3. CASE container[On(c)] # "none" /\ ~Docker
    <3>1. th'[c].pc = "gone" /\ th'[c].code = 200
      BY <1>3, <1>4, <1>7, <2>3 DEF Delete, Label
    <3> QED
      BY <3>1 DEF Knows
  <2> QED
    BY <2>1, <2>2, <2>3
<1>8. CASE Gone(c)
  <2>1. /\ th'[c].pc = "forget" /\ th'[c].name = th[c].name /\ th'[c].code = 200
        /\ container'[On(c)] = "none"
    BY <1>1, <1>8 DEF Gone, Label, Knows
  <2> QED
    BY <2>1 DEF Knows
<1>9. CASE Forget(c)
  <2>0. On(c) \in Name /\ th[c].code \in Codes
    BY <1>0, <1>9 DEF Forget, Staged, ThreadRecord
  <2>1. CASE th[c].code = 200
    <3>1. /\ th'[c].pc = "unrecord" /\ th'[c].name = th[c].name
          /\ container'[On(c)] = "none" /\ ~pool'[On(c)]
      BY <1>1, <1>9, <2>0, <2>1 DEF Forget, Label, Knows, TypeOK
    <3> QED
      BY <3>1 DEF Knows
  <2>2. CASE th[c].code # 200
    BY <1>2, <1>5, <1>9, <2>0, <2>2 DEF Forget
  <2> QED
    BY <2>1, <2>2
<1>10. CASE Unrecord(c)
  BY <1>2, <1>4, <1>5, <1>10 DEF Unrecord
<1>11. CASE GiveUp(c)
  <2>1. CASE Fail(c)
    BY <1>5, <2>1, FailChanges DEF Changes
  <2>2. CASE Settle(c, "forget", 502)
    <3>1. th'[c].pc = "forget" /\ th'[c].code = 502
      BY <1>3, <1>4, <2>2 DEF Label
    <3> QED
      BY <3>1 DEF Knows
  <2> QED
    BY <1>11, <2>1, <2>2 DEF GiveUp
<1> QED
  BY <1>6, <1>7, <1>8, <1>9, <1>10, <1>11

LEMMA OtherKnows ==
    ASSUME TypeOK, StageInv, NEW c \in Client, Knows(c),
           \/ List(c) \/ Each(c) \/ Add(c)
           \/ SetPolicy(c) \/ KnownSprite(c) \/ Transport(c)
    PROVE  Knows(c)'
<1> USE DEF At, On
<1>0. th[c] \in ThreadRecord /\ Staged(th[c])
  BY DEF TypeOK, StageInv
<1>1. ASSUME NEW p \in Label, Goto(c, p) PROVE th'[c].pc = p
  BY <1>1, GotoChanges DEF Changes
<1>2. ASSUME NEW code \in Codes, Answer(c, code) PROVE th'[c].pc = "idle"
  BY <1>2, AnswerChanges DEF Changes
<1>3. 200 \in Codes /\ 204 \in Codes /\ 404 \in Codes
  BY DEF Codes
<1>4. CASE th'[c].pc \in {"idle", "pool"}
  BY <1>4 DEF Knows
<1>5. CASE SetPolicy(c) \/ KnownSprite(c) \/ Transport(c)
  BY <1>1, <1>2, <1>3, <1>4, <1>5 DEF SetPolicy, KnownSprite, Transport, Label
<1>6. CASE List(c)
  <2>1. th'[c] = [th[c] EXCEPT !.pc = "each", !.todo = Listed] /\ UNCHANGED container
    BY <1>6 DEF List, TypeOK
  <2>2. th'[c].pc = "each" /\ th'[c].todo = Listed
    BY <1>0, <2>1 DEF ThreadRecord
  <2> QED
    BY <2>1, <2>2 DEF Knows, Listed
<1>7. CASE Each(c)
  <2>0. th[c].pc = "each" /\ UNCHANGED <<container, record>>
    BY <1>7 DEF Each
  <2>1. CASE Answer(c, 200)
    BY <1>2, <1>3, <1>4, <2>1
  <2>2. ASSUME NEW n \in th[c].todo,
               th' = [th EXCEPT ![c] =
                        IF Live(n) THEN [@ EXCEPT !.todo = th[c].todo \ {n}]
                                   ELSE [@ EXCEPT !.pc = "add", !.name = n]]
        PROVE  Knows(c)'
    <3>1. CASE Live(n)
      <4>1. th'[c] = [th[c] EXCEPT !.todo = th[c].todo \ {n}]
        BY <2>2, <3>1 DEF TypeOK
      <4>2. th'[c].pc = "each" /\ th'[c].todo = th[c].todo \ {n}
        BY <1>0, <2>0, <4>1 DEF ThreadRecord
      <4> QED
        BY <2>0, <3>1, <4>2 DEF Knows, Listed, Live
    <3>2. CASE ~Live(n)
      <4>1. th'[c] = [th[c] EXCEPT !.pc = "add", !.name = n]
        BY <2>2, <3>2 DEF TypeOK
      <4>2. th'[c].pc = "add" /\ th'[c].todo = th[c].todo /\ th'[c].name = n
        BY <1>0, <2>0, <4>1 DEF ThreadRecord
      <4> QED
        BY <2>0, <3>2, <4>2 DEF Knows, Listed, Live
    <3> QED
      BY <3>1, <3>2
  <2> QED
    BY <1>7, <2>1, <2>2 DEF Each
<1>8. CASE Add(c)
  <2>0. On(c) \in Name /\ UNCHANGED container
    BY <1>0, <1>8 DEF Add, Staged
  <2>1. th'[c] = [th[c] EXCEPT !.pc = "each", !.name = NoName,
                               !.todo = th[c].todo \ {On(c)}]
    BY <1>8 DEF Add, TypeOK
  <2>2. th'[c].pc = "each" /\ th'[c].todo = th[c].todo \ {On(c)}
    BY <1>0, <2>1 DEF ThreadRecord
  <2>3. \A n \in Name : Live(n)' <=> Live(n) \/ n = On(c)
    BY <1>8, <2>0 DEF Add, Live, TypeOK
  <2>4. \A n \in Listed \ th[c].todo : Live(n)
    BY <1>8 DEF Add, Knows
  <2> QED
    BY <2>0, <2>2, <2>3, <2>4 DEF Knows, Listed
<1> QED
  BY <1>5, <1>6, <1>7, <1>8

(***************************************************************************)
(* A step of a thread leaves the others alone, does not make a request     *)
(* calm, and is taken by a thread that is not idle.                        *)
(***************************************************************************)
LEMMA ThreadStepFrame ==
    ASSUME TypeOK, StageInv, NEW c \in Client, ThreadStep(c)
    PROVE  /\ th[c].pc # "idle"
           /\ \A d \in Client \ {c} : th'[d] = th[d]
           /\ th'[c].calm => th[c].calm
           /\ th'[c].calm = th[c].calm \/ disturbed'
<1> USE DEF At, On
<1>0. th[c] \in ThreadRecord /\ Staged(th[c])
  BY DEF TypeOK, StageInv
<1>1. \A d \in Client \ {c} : th'[d] = th[d]
  BY ThreadStepStaged DEF Changes
<1>2. th[c].pc # "idle"
  BY DEF ThreadStep, Prepare, Fill, Inspect, CreateContainer,
         StartContainer, Post, Poll, Ping, Look, Record, Lookup, Delete, Gone, Forget,
         Unrecord, List, Each, Add, SetPolicy, KnownSprite, Transport, GiveUp, Overdue
<1>3. ASSUME NEW p \in Label, Goto(c, p) PROVE th'[c].calm = th[c].calm
  BY <1>3, GotoChanges DEF Changes
<1>4. ASSUME NEW p \in Label, NEW code \in Codes, Settle(c, p, code)
      PROVE  th'[c].calm = th[c].calm
  BY <1>4, SettleChanges DEF Changes
<1>5. ASSUME NEW code \in Codes, Answer(c, code) PROVE th'[c].calm = th[c].calm
  BY <1>5, AnswerChanges DEF Changes
<1>6. ASSUME Fail(c) PROVE ~th'[c].calm
  BY <1>6, FailChanges DEF Changes
<1>7. \A code \in {200, 201, 204, 404, 502} : code \in Codes
  BY DEF Codes
<1>8. CASE \/ Prepare(c) \/ Fill(c) \/ Inspect(c) \/ CreateContainer(c) \/ StartContainer(c)
           \/ Post(c) \/ Poll(c) \/ Ping(c) \/ Look(c) \/ Record(c)
  BY <1>1, <1>2, <1>3, <1>5, <1>7, <1>8
     DEF Prepare, Fill, Inspect, CreateContainer, StartContainer, Post, Poll, Ping, Look,
         Record, Label
<1>9. CASE \/ Lookup(c) \/ Delete(c) \/ Gone(c) \/ Unrecord(c) \/ GiveUp(c)
  BY <1>1, <1>2, <1>3, <1>4, <1>5, <1>6, <1>7, <1>9
     DEF Lookup, Delete, Gone, Unrecord, GiveUp, Label
<1>11. CASE Forget(c) \/ SetPolicy(c) \/ KnownSprite(c) \/ Transport(c)
  <2>1. th[c].code \in Codes
    BY <1>0 DEF ThreadRecord
  <2> QED
    BY <1>1, <1>2, <1>3, <1>5, <1>7, <1>11, <2>1
       DEF Forget, SetPolicy, KnownSprite, Transport, Label
<1>10. CASE List(c) \/ Each(c) \/ Add(c)
  <2>1. CASE List(c)
    <3>1. th'[c] = [th[c] EXCEPT !.pc = "each", !.todo = Listed]
      BY <2>1 DEF List, TypeOK
    <3> QED
      BY <1>0, <1>1, <1>2, <3>1 DEF ThreadRecord
  <2>2. CASE Each(c)
    <3>1. CASE Answer(c, 200)
      BY <1>1, <1>2, <1>5, <1>7, <3>1
    <3>2. ASSUME NEW n \in th[c].todo,
                 th' = [th EXCEPT ![c] =
                          IF Live(n) THEN [@ EXCEPT !.todo = th[c].todo \ {n}]
                                     ELSE [@ EXCEPT !.pc = "add", !.name = n]]
          PROVE  th'[c].calm = th[c].calm
      <4>1. \/ th'[c] = [th[c] EXCEPT !.todo = th[c].todo \ {n}]
            \/ th'[c] = [th[c] EXCEPT !.pc = "add", !.name = n]
        BY <3>2 DEF TypeOK
      <4> QED
        BY <1>0, <4>1 DEF ThreadRecord
    <3> QED
      BY <1>1, <1>2, <2>2, <3>1, <3>2 DEF Each
  <2>3. CASE Add(c)
    <3>1. th'[c] = [th[c] EXCEPT !.pc = "each", !.name = NoName,
                                 !.todo = th[c].todo \ {On(c)}]
      BY <2>3 DEF Add, TypeOK
    <3> QED
      BY <1>0, <1>1, <1>2, <3>1 DEF ThreadRecord
  <2> QED
    BY <1>10, <2>1, <2>2, <2>3
<1> QED
  BY <1>1, <1>2, <1>8, <1>9, <1>10, <1>11 DEF ThreadStep

LEMMA NextCalm == TypeOK /\ StageInv /\ CalmInv /\ [Next]_vars => CalmInv'
<1> SUFFICES ASSUME TypeOK, StageInv, CalmInv, [Next]_vars,
                    NEW c \in Client, th'[c].calm
             PROVE  Alone(c)' /\ Knows(c)'
  BY DEF CalmInv
<1> USE DEF At, On
<1>0. th[c] \in ThreadRecord /\ Staged(th[c])
  BY DEF TypeOK, StageInv
<1>1. CASE UNCHANGED vars
  BY <1>1 DEF vars, CalmInv, Knows, Alone, Live, Listed
<1>2. ASSUME NEW d \in Client, ThreadStep(d) PROVE Alone(c)' /\ Knows(c)'
  <2>1. /\ th[d].pc # "idle" /\ (th'[d].calm => th[d].calm)
        /\ \A e \in Client \ {d} : th'[e] = th[e]
    BY <1>2, ThreadStepFrame
  <2>2. c = d
    BY <2>1 DEF CalmInv, Alone
  <2>3. Alone(c) /\ Knows(c)
    BY <2>1, <2>2 DEF CalmInv
  <2>4. Alone(c)'
    BY <2>1, <2>2, <2>3 DEF Alone
  <2>5. Knows(c)'
    BY <1>2, <2>2, <2>3, CreateKnows, DestroyKnows, OtherKnows DEF ThreadStep
  <2> QED
    BY <2>4, <2>5
<1>3. ASSUME NEW d \in Client, NEW op \in Ops, NEW n \in Name \cup {NoName}, Begin(d, op, n)
      PROVE  Alone(c)' /\ Knows(c)'
  <2>1. c = d
    <3>1. c # d => th'[c] = [th[c] EXCEPT !.calm = FALSE]
      BY <1>3 DEF Begin, TypeOK
    <3> QED
      BY <1>0, <3>1 DEF ThreadRecord
  <2>2. th'[c] = Thd(First(op), op, n, Alone(c))
    BY <1>3, <2>1 DEF Begin, TypeOK
  <2>3. Alone(c)
    BY <2>2 DEF Thd
  <2>4. \A e \in Client \ {c} : th'[e].pc = th[e].pc
    BY <1>3, <2>1 DEF Begin, TypeOK, ThreadRecord
  <2>5. th'[c].pc \in {"prepare", "post", "lookup", "list", "policy", "known"}
    BY <2>2, OpsAssumption DEF Thd, First, AllOps
  <2> QED
    BY <2>3, <2>4, <2>5 DEF Alone, Knows
<1>4. ASSUME NEW d \in Client, Fault(d) PROVE Alone(c)' /\ Knows(c)'
  <2>1. th[d].pc # "idle" /\ \A e \in Client \ {d} : th'[e] = th[e]
    <3>1. CASE Fail(d)
      BY <1>4, <3>1, FailChanges DEF Fault, Changes
    <3>2. CASE ~Fail(d)
      BY <1>4, <3>2 DEF Fault, TypeOK
    <3> QED
      BY <3>1, <3>2
  <2>2. ~th'[d].calm
    <3>1. CASE Fail(d)
      BY <3>1, FailChanges DEF Changes
    <3>2. CASE ~Fail(d)
      <4>1. \/ th'[d] = [th[d] EXCEPT !.pc = "start", !.calm = FALSE]
            \/ th'[d] = [th[d] EXCEPT !.pc = "forget", !.code = 502, !.calm = FALSE]
        BY <1>4, <3>2 DEF Fault, TypeOK
      <4>2. th[d] \in ThreadRecord
        BY DEF TypeOK
      <4> QED
        BY <4>1, <4>2 DEF ThreadRecord
    <3> QED
      BY <3>1, <3>2
  <2>3. c # d /\ th[c].calm
    BY <2>1, <2>2
  <2> QED
    BY <2>1, <2>3 DEF CalmInv, Alone
<1>5. ASSUME NEW n \in Name, Runtime(n) PROVE Alone(c)' /\ Knows(c)'
  <2>1. UNCHANGED <<th, record, pool>>
    BY <1>5 DEF Runtime
  <2>2. Alone(c) /\ Knows(c) /\ Alone(c)'
    BY <2>1 DEF CalmInv, Alone
  <2>3. \A m \in Name : /\ m \in Listed' <=> m \in Listed
                        /\ container[m] = "none" => container'[m] = "none"
                        /\ container[m] = "created" /\ Docker => container'[m] = "created"
    BY <1>5 DEF Runtime, Becomes, TypeOK, Listed, Up
  <2>4. /\ th[c].pc \notin {"idle", "list", "each"} => On(c) \in Name
        /\ At(c, "start") => Docker
        /\ Listed \subseteq Name /\ Listed' \subseteq Name
    BY <1>0 DEF Staged, Listed
  <2>5. Knows(c)'
    BY <2>1, <2>2, <2>3, <2>4 DEF Knows, Live
  <2> QED
    BY <2>2, <2>5
<1>6. ASSUME NEW n \in Name, Outside(n) PROVE FALSE
  <2>1. th'[c] = [th[c] EXCEPT !.calm = FALSE]
    BY <1>6 DEF Outside, TypeOK
  <2> QED
    BY <1>0, <2>1 DEF ThreadRecord
<1>7. CASE Restart
  BY <1>7 DEF Restart, Idle, Thd
<1> QED
  BY <1>1, <1>2, <1>3, <1>4, <1>5, <1>6, <1>7 DEF Next

-----------------------------------------------------------------------------
(***************************************************************************)
(* The step of a request that runs alone leaves record and container       *)
(* together, or as far apart as its place in the handler allows.           *)
(***************************************************************************)
Level(n) == Live(n) <=> n \in Listed

LEMMA CreateLevel ==
    ASSUME TypeOK, StageInv, NEW c \in Client, Knows(c),
           NEW n \in Name, n = th[c].name, Level(n) \/ Apart(c, n), once # "failed",
           \/ Prepare(c) \/ Fill(c) \/ Inspect(c) \/ CreateContainer(c) \/ StartContainer(c)
           \/ Post(c) \/ Poll(c) \/ Ping(c) \/ Look(c) \/ Record(c)
    PROVE  /\ Level(n)' \/ Apart(c, n)'
           /\ \A m \in Name \ {n} : Level(m)' <=> Level(m)
<1> USE DEF At, On
<1>0. th[c] \in ThreadRecord /\ Staged(th[c])
  BY DEF TypeOK, StageInv
<1>1. n = th[c].name
  OBVIOUS
<1>2. ASSUME NEW p \in Label, Goto(c, p) PROVE th'[c].pc = p /\ th'[c].name = n
  BY <1>2, GotoChanges DEF Changes
<1>3. \A m \in Name \ {n} : container'[m] = container[m] /\ record'[m] = record[m]
  BY <1>1, CarryOutType DEF TypeOK, Prepare, Fill, Inspect, CreateContainer, StartContainer,
     Post, Poll, Ping, Look, Record
<1>4. \A m \in Name \ {n} : Level(m)' <=> Level(m)
  BY <1>3 DEF Level, Live, Listed
<1>5. CASE UNCHANGED <<container, record>> /\ Level(n)
  BY <1>4, <1>5 DEF Level, Live, Listed
<1>6. CASE Prepare(c) \/ Fill(c) \/ Inspect(c)
  BY <1>5, <1>6 DEF Prepare, Fill, Inspect, Apart
<1>7. CASE CreateContainer(c)
  <2>1. container[n] = "none"
    BY <1>7 DEF CreateContainer, Knows
  <2>2. th'[c].pc = "start" /\ th'[c].name = n
    BY <1>2, <1>7, <2>1 DEF CreateContainer, Label
  <2>3. container'[n] = "created"
    BY <1>1, <1>7, <2>1, CarryOutType DEF CreateContainer, Effect
  <2> QED
    BY <1>1, <1>4, <2>2, <2>3 DEF Apart, Listed
<1>8. CASE StartContainer(c)
  <2>1. container[n] = "created"
    BY <1>8 DEF StartContainer, Knows
  <2>2. th'[c].pc = "ping" /\ th'[c].name = n
    BY <1>2, <1>8, <2>1 DEF StartContainer, Label
  <2>3. container'[n] = "running"
    BY <1>1, <1>8, <2>1, CarryOutType DEF StartContainer, Effect
  <2> QED
    BY <1>1, <1>4, <2>2, <2>3 DEF Apart, Listed
<1>9. CASE Post(c)
  <2>1. th'[c].pc = "poll" /\ th'[c].name = n
    BY <1>2, <1>9 DEF Post, Label
  <2>2. container[n] = "none" => container'[n] = "created"
    BY <1>1, <1>9, CarryOutType DEF Post, Effect
  <2>3. container[n] # "none" => container'[n] = container[n]
    BY <1>1, <1>9, CarryOutType DEF Post, Effect
  <2>4. Level(n) /\ record' = record
    BY <1>9 DEF Post, Apart
  <2>5. CASE container[n] = "none"
    BY <1>1, <1>4, <2>1, <2>2, <2>5 DEF Apart, Listed
  <2>6. CASE container[n] # "none"
    BY <1>1, <1>4, <2>3, <2>4, <2>6 DEF Level, Live, Listed
  <2> QED
    BY <2>5, <2>6
<1>10. CASE Poll(c)
  <2>1. UNCHANGED <<container, record>> /\ (Level(n) \/ (Live(n) => n \in Listed))
    BY <1>10 DEF Poll, Apart
  <2>2. CASE container[n] \in Up
    <3>1. th'[c].pc = "ping" /\ th'[c].name = n
      BY <1>2, <1>10, <2>2 DEF Poll, Label, Up
    <3> QED
      BY <1>1, <1>4, <2>1, <2>2, <3>1 DEF Apart, Listed, Up
  <2>3. CASE container[n] \in {"none", "terminating"}
    <3>1. Level(n)
      BY <2>1, <2>3 DEF Level, Listed
    <3> QED
      BY <1>5, <2>1, <3>1
  <2> QED
    BY <1>10, <2>2, <2>3 DEF Poll
<1>11. CASE Ping(c)
  <2>1. /\ th'[c].pc = "look" /\ th'[c].name = n
        /\ container[n] = "ready" /\ UNCHANGED container
    BY <1>2, <1>11 DEF Ping, Label
  <2> QED
    BY <1>1, <1>4, <2>1 DEF Apart, Listed
<1>12. CASE Look(c)
  <2>1. n \in Listed /\ UNCHANGED <<container, record>>
    BY <1>12 DEF Look, Knows
  <2>2. CASE Live(n)
    BY <1>5, <2>1, <2>2 DEF Level
  <2>3. CASE ~Live(n)
    <3>1. th'[c].pc = "record" /\ th'[c].name = n
      BY <1>2, <1>12, <2>3 DEF Look, Label
    <3> QED
      BY <1>4, <2>1, <3>1 DEF Apart, Listed
  <2> QED
    BY <2>2, <2>3
<1>13. CASE Record(c)
  <2>1. n \in Listed /\ UNCHANGED container /\ record'[n] = "plain"
    BY <1>1, <1>13 DEF Record, Knows, TypeOK
  <2> QED
    BY <1>4, <2>1 DEF Level, Live, Listed
<1> QED
  BY <1>6, <1>7, <1>8, <1>9, <1>10, <1>11, <1>12, <1>13

LEMMA DestroyLevel ==
    ASSUME TypeOK, StageInv, NEW c \in Client, Knows(c),
           NEW n \in Name, n = th[c].name, Level(n) \/ Apart(c, n), At(c, "forget") => th[c].code # 502,
           Lookup(c) \/ Delete(c) \/ Gone(c) \/ Forget(c) \/ Unrecord(c)
    PROVE  /\ Level(n)' \/ Apart(c, n)'
           /\ \A m \in Name \ {n} : Level(m)' <=> Level(m)
           /\ At(c, "forget")' => th'[c].code # 502
<1> USE DEF At, On
<1>0. th[c] \in ThreadRecord /\ Staged(th[c])
  BY DEF TypeOK, StageInv
<1>1. n = th[c].name
  OBVIOUS
<1>2. ASSUME NEW p \in Label, Goto(c, p)
      PROVE  th'[c].pc = p /\ th'[c].name = n /\ th'[c].code = th[c].code
  BY <1>2, GotoChanges DEF Changes
<1>3. ASSUME NEW p \in Label, NEW code \in Codes, Settle(c, p, code)
      PROVE  th'[c].pc = p /\ th'[c].name = n /\ th'[c].code = code
  BY <1>3, SettleChanges DEF Changes
<1>4. ASSUME NEW code \in Codes, Answer(c, code) PROVE th'[c].pc = "idle"
  BY <1>4, AnswerChanges DEF Changes
<1>5. 200 \in Codes /\ 404 \in Codes /\ 502 \in Codes
  BY DEF Codes
<1>6. \A m \in Name \ {n} : container'[m] = container[m] /\ record'[m] = record[m]
  BY <1>1, CarryOutType DEF TypeOK, Lookup, Delete, Gone, Forget, Unrecord
<1>7. \A m \in Name \ {n} : Level(m)' <=> Level(m)
  BY <1>6 DEF Level, Live, Listed
<1>8. CASE Lookup(c)
  <2>1. th'[c].pc = "delete" /\ UNCHANGED <<container, record>> /\ Level(n)
    BY <1>3, <1>5, <1>8 DEF Lookup, Label, Apart
  <2> QED
    BY <1>7, <2>1 DEF Level, Live, Listed
<1>9. CASE Delete(c)
  <2>1. Level(n) /\ UNCHANGED record /\ th[c].code \in {200, 404}
    BY <1>9 DEF Delete, Apart, Knows
  <2>2. CASE container[n] = "none"
    <3>1. th'[c].pc = "forget" /\ th'[c].code = th[c].code
      BY <1>2, <1>9, <2>2 DEF Delete, Label
    <3>2. container'[n] = container[n]
      BY <1>1, <1>9, <2>2, CarryOutType DEF Delete, Effect
    <3> QED
      BY <1>7, <2>1, <3>1, <3>2 DEF Level, Live, Listed
  <2>3. CASE container[n] # "none"
    <3>1. th'[c].pc \in {"forget", "gone"} /\ th'[c].name = n /\ th'[c].code = 200
      BY <1>3, <1>5, <1>9, <2>3 DEF Delete, Label
    <3>2. container'[n] \in {"none", "terminating"}
      BY <1>1, <1>9, <2>3, CarryOutType DEF Delete, Effect
    <3> QED
      BY <1>7, <3>1, <3>2 DEF Apart, Listed
  <2> QED
    BY <2>2, <2>3
<1>10. CASE Gone(c)
  <2>1. /\ th'[c].pc = "forget" /\ th'[c].name = n /\ th'[c].code = 200
        /\ container'[n] = "none"
    BY <1>2, <1>10 DEF Gone, Label, Knows
  <2> QED
    BY <1>7, <2>1 DEF Apart, Listed
<1>11. CASE Forget(c)
  <2>1. /\ container[n] = "none" /\ UNCHANGED <<container, record>>
        /\ th[c].code = 200 \/ (th[c].code = 404 /\ ~Live(n))
    BY <1>11 DEF Forget, Knows
  <2>2. CASE th[c].code = 200
    <3>1. th'[c].pc = "unrecord" /\ th'[c].name = n
      BY <1>2, <1>11, <2>2 DEF Forget, Label
    <3> QED
      BY <1>7, <2>1, <3>1 DEF Apart, Listed
  <2>3. CASE th[c].code = 404
    <3>1. th'[c].pc = "idle"
      BY <1>4, <1>5, <1>11, <2>3 DEF Forget
    <3> QED
      BY <1>7, <2>1, <2>3, <3>1 DEF Level, Live, Listed
  <2> QED
    BY <2>1, <2>2, <2>3
<1>12. CASE Unrecord(c)
  <2>1. /\ th'[c].pc = "idle" /\ container'[n] = "none" /\ record'[n] = "none"
    BY <1>1, <1>4, <1>5, <1>12 DEF Unrecord, Knows, TypeOK
  <2> QED
    BY <1>7, <2>1 DEF Level, Live, Listed
<1> QED
  BY <1>8, <1>9, <1>10, <1>11, <1>12

LEMMA OtherLevel ==
    ASSUME TypeOK, StageInv, NEW c \in Client, NEW n \in Name, th[c].pc # "add",
           \/ List(c) \/ Each(c) \/ SetPolicy(c) \/ KnownSprite(c) \/ Transport(c)
    PROVE  Level(n)' <=> Level(n)
  BY DEF List, Each, SetPolicy, KnownSprite, Transport, Level, Live, Listed, At, On, TypeOK

(***************************************************************************)
(* A list finds nothing to add while nothing was disturbed.                *)
(***************************************************************************)
LEMMA ListAddsNothing ==
    ASSUME TypeOK, StageInv, NEW c \in Client, \A n \in Name : Level(n),
           At(c, "each") => th[c].todo \subseteq Listed,
           List(c) \/ Each(c)
    PROVE  /\ th'[c].pc \notin {"add", "forget"}
           /\ th'[c].pc = "each" => th'[c].todo \subseteq Listed'
<1> USE DEF At, On
<1>0. th[c] \in ThreadRecord /\ UNCHANGED container
  BY DEF TypeOK, List, Each
<1>1. CASE List(c)
  <2>1. th'[c] = [th[c] EXCEPT !.pc = "each", !.todo = Listed]
    BY <1>1 DEF List, TypeOK
  <2>2. th'[c].pc = "each" /\ th'[c].todo = Listed
    BY <1>0, <2>1 DEF ThreadRecord
  <2> QED
    BY <1>0, <2>2 DEF Listed
<1>2. CASE Each(c)
  <2>0. th[c].pc = "each" /\ th[c].todo \subseteq Listed
    BY <1>2 DEF Each
  <2>1. CASE Answer(c, 200)
    <3>1. 200 \in Codes
      BY DEF Codes
    <3> QED
      BY <2>1, <3>1, AnswerChanges DEF Changes
  <2>2. ASSUME NEW n \in th[c].todo,
               th' = [th EXCEPT ![c] =
                        IF Live(n) THEN [@ EXCEPT !.todo = th[c].todo \ {n}]
                                   ELSE [@ EXCEPT !.pc = "add", !.name = n]]
        PROVE  th'[c].pc = "each" /\ th'[c].todo \subseteq Listed'
    <3>1. Live(n)
      BY <2>0 DEF Level, Listed
    <3>2. th'[c] = [th[c] EXCEPT !.todo = th[c].todo \ {n}]
      BY <2>2, <3>1 DEF TypeOK
    <3>3. th'[c].pc = "each" /\ th'[c].todo = th[c].todo \ {n}
      BY <1>0, <2>0, <3>2 DEF ThreadRecord
    <3> QED
      BY <1>0, <2>0, <3>3 DEF Listed
  <2> QED
    BY <1>2, <2>1, <2>2 DEF Each
<1> QED
  BY <1>1, <1>2

LEMMA ThreadStepAgree ==
    ASSUME TypeOK, StageInv, CalmInv, AgreeInv, NEW c \in Client, ThreadStep(c), ~disturbed'
    PROVE  AgreeInv'
<1> USE DEF At, On
<1>0. th[c] \in ThreadRecord /\ Staged(th[c]) /\ UNCHANGED disturbed
  BY DEF TypeOK, StageInv, ThreadStep, Prepare, Fill, Inspect, CreateContainer,
         StartContainer, Post, Poll, Ping, Look, Record, Lookup, Delete, Gone, Forget,
         Unrecord, List, Each, Add, SetPolicy, KnownSprite, Transport, GiveUp, Local
<1>1. /\ th[c].pc # "idle" /\ th'[c].calm = th[c].calm
      /\ \A d \in Client \ {c} : th'[d] = th[d]
  BY <1>0, ThreadStepFrame
<1>2. /\ th[c].calm /\ Alone(c) /\ Knows(c) /\ ~Add(c) /\ ~GiveUp(c)
  BY <1>0, <1>1 DEF AgreeInv, CalmInv, Add, GiveUp
<1>3. \A d \in Client \ {c} : th[d].pc = "idle" /\ th'[d].pc = "idle"
  BY <1>1, <1>2 DEF Alone
<1>4. \A n \in Name : Level(n) \/ Apart(c, n)
  BY <1>0, <1>3 DEF AgreeInv, Apart, Level
<1>5. \A n \in Name \ {On(c)} : Level(n)
  BY <1>4 DEF Apart
<1>6. once' # "failed"
  BY <1>0 DEF AgreeInv, ThreadStep, Prepare, Fill, Inspect, CreateContainer,
         StartContainer, Post, Poll, Ping, Look, Record, Lookup, Delete, Gone, Forget,
         Unrecord, List, Each, Add, SetPolicy, KnownSprite, Transport, GiveUp, runtime
<1> DEFINE Rest == /\ th'[c].pc = "each" => th'[c].todo \subseteq Listed'
                   /\ th'[c].pc # "add"
                   /\ th'[c].pc = "forget" => th'[c].code # 502
                   /\ \A n \in Name : Level(n)' \/ Apart(c, n)'
<1> HIDE DEF Rest
<1>7. ASSUME NEW p \in Label, Goto(c, p) PROVE th'[c].pc = p
  BY <1>7, GotoChanges DEF Changes
<1>8. ASSUME NEW p \in Label, NEW code \in Codes, Settle(c, p, code) PROVE th'[c].pc = p
  BY <1>8, SettleChanges DEF Changes
<1>9. ASSUME NEW code \in Codes, Answer(c, code) PROVE th'[c].pc = "idle"
  BY <1>9, AnswerChanges DEF Changes
<1>10. \A code \in {200, 201, 204, 404, 502} : code \in Codes
  BY DEF Codes
<1>11. ASSUME \/ Prepare(c) \/ Fill(c) \/ Inspect(c) \/ CreateContainer(c) \/ StartContainer(c)
              \/ Post(c) \/ Poll(c) \/ Ping(c) \/ Look(c) \/ Record(c)
       PROVE  Rest
  <2>1. On(c) \in Name
    BY <1>0, <1>11 DEF Staged, Prepare, Fill, Inspect, CreateContainer, StartContainer, Post,
       Poll, Ping, Look, Record
  <2>2. once # "failed"
    BY <1>0 DEF AgreeInv
  <2>3. \A n \in Name : Level(n)' \/ Apart(c, n)'
    BY <1>2, <1>4, <1>5, <1>11, <2>1, <2>2, CreateLevel
  <2>4. th'[c].pc \notin {"each", "add", "forget"}
    BY <1>7, <1>9, <1>10, <1>11 DEF Prepare, Fill, Inspect, CreateContainer, StartContainer,
       Post, Poll, Ping, Look, Record, Label
  <2> QED
    BY <2>3, <2>4 DEF Rest
<1>12. ASSUME Lookup(c) \/ Delete(c) \/ Gone(c) \/ Forget(c) \/ Unrecord(c) PROVE Rest
  <2>1. On(c) \in Name /\ th[c].code \in Codes
    BY <1>0, <1>12 DEF Staged, Lookup, Delete, Gone, Forget, Unrecord, ThreadRecord
  <2>2. At(c, "forget") => th[c].code # 502
    BY <1>0 DEF AgreeInv
  <2>3. /\ \A n \in Name : Level(n)' \/ Apart(c, n)'
        /\ At(c, "forget")' => th'[c].code # 502
    BY <1>2, <1>4, <1>5, <1>12, <2>1, <2>2, DestroyLevel
  <2>4. th'[c].pc \notin {"each", "add"}
    BY <1>7, <1>8, <1>9, <1>10, <1>12, <2>1 DEF Lookup, Delete, Gone, Forget, Unrecord, Label
  <2> QED
    BY <2>3, <2>4 DEF Rest
<1>13. ASSUME List(c) \/ Each(c) PROVE Rest
  <2>1. \A n \in Name : Level(n) /\ Level(n)'
    BY <1>4, <1>13, OtherLevel DEF Apart, List, Each
  <2>2. At(c, "each") => th[c].todo \subseteq Listed
    BY <1>0 DEF AgreeInv
  <2>3. /\ th'[c].pc \notin {"add", "forget"}
        /\ th'[c].pc = "each" => th'[c].todo \subseteq Listed'
    BY <1>13, <2>1, <2>2, ListAddsNothing
  <2> QED
    BY <2>1, <2>3 DEF Rest
<1>14. ASSUME SetPolicy(c) \/ KnownSprite(c) \/ Transport(c) PROVE Rest
  <2>1. \A n \in Name : Level(n) /\ Level(n)'
    BY <1>4, <1>14, OtherLevel DEF Apart, SetPolicy, KnownSprite, Transport
  <2>2. th'[c].pc \in {"idle", "pool"}
    BY <1>7, <1>9, <1>10, <1>14 DEF SetPolicy, KnownSprite, Transport, Label
  <2> QED
    BY <2>1, <2>2 DEF Rest
<1>15. Rest
  BY <1>2, <1>11, <1>12, <1>13, <1>14 DEF ThreadStep
<1>16. \A d \in Client : \/ th'[d].pc = "idle"
                         \/ d = c /\ th'[d].calm
  BY <1>1, <1>2, <1>3
<1>17. \A n \in Name : Level(n)' \/ \E d \in Client : Apart(d, n)'
  BY <1>15 DEF Rest
<1> QED
  BY <1>6, <1>15, <1>16, <1>17 DEF AgreeInv, Level, Rest

LEMMA NextAgree == TypeOK /\ StageInv /\ CalmInv /\ AgreeInv /\ [Next]_vars => AgreeInv'
<1> SUFFICES ASSUME TypeOK, StageInv, CalmInv, AgreeInv, [Next]_vars, ~disturbed'
             PROVE  AgreeInv'
  BY DEF AgreeInv
<1> USE DEF At, On
<1>1. CASE UNCHANGED vars
  BY <1>1 DEF vars, runtime, AgreeInv, Apart, Live, Listed
<1>2. ASSUME NEW c \in Client, NEW op \in Ops, NEW n \in Name \cup {NoName}, Begin(c, op, n)
      PROVE  AgreeInv'
  <2>1. /\ ~disturbed /\ Alone(c) /\ th[c].pc = "idle"
        /\ UNCHANGED <<once, container, record>>
    BY <1>2 DEF Begin, runtime
  <2>2. \A d \in Client : th[d].pc = "idle"
    BY <2>1 DEF Alone
  <2>3. \A m \in Name : Live(m) <=> m \in Listed
    BY <2>1, <2>2 DEF AgreeInv, Apart
  <2>4. th'[c] = Thd(First(op), op, n, Alone(c))
    BY <1>2 DEF Begin, TypeOK
  <2>5. th'[c].calm /\ th'[c].pc \notin {"each", "add", "forget"}
    BY <2>1, <2>4, OpsAssumption DEF Thd, First, AllOps
  <2>6. \A d \in Client \ {c} : th'[d].pc = "idle"
    BY <1>2, <2>2 DEF Begin, TypeOK, ThreadRecord
  <2>7. \A m \in Name : Live(m)' <=> m \in Listed'
    BY <2>1, <2>3 DEF Live, Listed
  <2>8. once' # "failed"
    BY <2>1 DEF AgreeInv
  <2> QED
    BY <2>5, <2>6, <2>7, <2>8 DEF AgreeInv
<1>3. ASSUME NEW n \in Name, Runtime(n) PROVE AgreeInv'
  <2>1. UNCHANGED <<th, record, once, disturbed>>
    BY <1>3 DEF Runtime, runtime
  <2>2. Listed' = Listed
    BY <1>3 DEF Runtime, Becomes, TypeOK, Listed, Up
  <2> QED
    BY <2>1, <2>2 DEF AgreeInv, Apart, Live
<1>4. CASE Restart
  <2>1. /\ record' = [n \in Name |-> IF n \in Listed THEN "plain" ELSE "none"]
        /\ once' = "none" /\ UNCHANGED container
        /\ \A c \in Client : th'[c].pc = "idle"
    BY <1>4 DEF Restart, Idle, Thd
  <2>2. \A n \in Name : Live(n)' <=> n \in Listed'
    BY <2>1 DEF Live, Listed
  <2> QED
    BY <2>1, <2>2 DEF AgreeInv
<1> QED
  BY <1>1, <1>2, <1>3, <1>4, ThreadStepAgree DEF Next, Fault, Outside

LEMMA InductiveInvariant == Spec => []IInv
<1>1. IInv /\ [Next]_vars => IInv'
  BY NextType, NextVolume, NextCalm, NextAgree DEF IInv
<1> QED
  BY <1>1, InitIInv, PTL DEF Spec

-----------------------------------------------------------------------------
(***************************************************************************)
(* Type correctness.                                                       *)
(***************************************************************************)
THEOREM TypeCorrect == Spec => []TypeOK
<1>1. IInv => TypeOK
  BY DEF IInv
<1> QED
  BY <1>1, InductiveInvariant, PTL

(***************************************************************************)
(* No Docker sprite is ever created before the agent volume is filled,     *)
(* however many first requests arrive at once: prepare's sync.Once.        *)
(***************************************************************************)
THEOREM VolumeFilledFirst == Spec => []FilledFirst
<1>1. IInv => FilledFirst
  BY DEF IInv
<1> QED
  BY <1>1, InductiveInvariant, PTL

(***************************************************************************)
(* With one request at a time and no failure, records and containers are   *)
(* the same sprites between requests, whatever runtime, and however often  *)
(* spritzer is killed: what realCreate, realDestroy and Adopt are for.     *)
(***************************************************************************)
THEOREM RecordsAgree == Spec => []Agree
<1>1. IInv => Agree
  BY DEF IInv, AgreeInv, Agree, Apart, Listed, At, TypeOK
<1> QED
  BY <1>1, InductiveInvariant, PTL

-----------------------------------------------------------------------------
(***************************************************************************)
(* An answer to a calm request is its own thread's step.                   *)
(***************************************************************************)
LEMMA Answering ==
    ASSUME TypeOK, StageInv, CalmInv, [Next]_vars, NEW c \in Client, NEW op, NEW codes,
           Answers(c, op, codes)
    PROVE  ThreadStep(c) /\ Knows(c)
<1> USE DEF At
<1>1. th[c].pc # "idle" /\ th'[c].pc = "idle" /\ th'[c].calm
  BY DEF Answers
<1>2. CASE UNCHANGED vars
  BY <1>1, <1>2 DEF vars
<1>3. ASSUME NEW d \in Client, ThreadStep(d) PROVE ThreadStep(c) /\ Knows(c)
  <2>1. c = d
    BY <1>1, <1>3, ThreadStepFrame
  <2> QED
    BY <1>1, <1>3, <2>1, ThreadStepFrame DEF CalmInv
<1>4. ASSUME NEW d \in Client, NEW o \in Ops, NEW n \in Name \cup {NoName}, Begin(d, o, n)
      PROVE  FALSE
  <2>1. d # c
    BY <1>1, <1>4 DEF Begin
  <2>2. th'[c].pc = th[c].pc
    BY <1>4, <2>1 DEF Begin, TypeOK, ThreadRecord
  <2> QED
    BY <1>1, <2>2
<1>5. ASSUME NEW d \in Client, Fault(d) PROVE FALSE
  <2>1. CASE Fail(d)
    BY <1>1, <2>1, FailChanges DEF Changes
  <2>2. CASE ~Fail(d)
    <3>1. /\ \A e \in Client \ {d} : th'[e] = th[e]
          /\ \/ th'[d] = [th[d] EXCEPT !.pc = "start", !.calm = FALSE]
             \/ th'[d] = [th[d] EXCEPT !.pc = "forget", !.code = 502, !.calm = FALSE]
      BY <1>5, <2>2 DEF Fault, TypeOK
    <3>2. th[d] \in ThreadRecord
      BY DEF TypeOK
    <3>3. th'[d].pc # "idle"
      BY <3>1, <3>2 DEF ThreadRecord
    <3> QED
      BY <1>1, <3>1, <3>3
  <2> QED
    BY <2>1, <2>2
<1>6. ASSUME NEW n \in Name, Runtime(n) \/ Outside(n) PROVE FALSE
  BY <1>1, <1>6 DEF Runtime, Outside, TypeOK, ThreadRecord
<1>7. CASE Restart
  BY <1>1, <1>7 DEF Restart, Idle, Thd
<1> QED
  BY <1>2, <1>3, <1>4, <1>5, <1>6, <1>7 DEF Next

(***************************************************************************)
(* How the requests end.                                                   *)
(***************************************************************************)
LEMMA HowItEnds ==
    ASSUME TypeOK, StageInv, NEW c \in Client, ThreadStep(c),
           th'[c].pc = "idle", th'[c].calm
    PROVE  /\ th[c].op = "create" =>
                \/ (Look(c) /\ Live(On(c)))
                \/ Record(c)
                \/ (Prepare(c) /\ once = "failed")
                \/ (CreateContainer(c) /\ container[On(c)] # "none")
                \/ (StartContainer(c) /\ container[On(c)] # "created")
                \/ (Poll(c) /\ container[On(c)] \in {"none", "terminating"})
           /\ th[c].op = "destroy" => (Forget(c) /\ th[c].code # 200) \/ Unrecord(c)
           /\ th[c].op = "list" => Each(c) /\ th[c].todo = {}
<1> USE DEF At, On
<1>0. th[c] \in ThreadRecord /\ Staged(th[c]) /\ th[c].op \in AllOps \cup {"none"}
  BY DEF TypeOK, StageInv, ThreadRecord
<1>1. ASSUME NEW p \in Label, Goto(c, p) PROVE th'[c].pc = p
  BY <1>1, GotoChanges DEF Changes
<1>2. ASSUME NEW p \in Label, NEW code \in Codes, Settle(c, p, code) PROVE th'[c].pc = p
  BY <1>2, SettleChanges DEF Changes
<1>3. ~Fail(c)
  BY FailChanges DEF Changes
<1>4. \A code \in {200, 201, 204, 404, 502} : code \in Codes
  BY DEF Codes
<1>5. ASSUME th[c].op = "create"
      PROVE  \/ (Look(c) /\ Live(On(c)))
             \/ Record(c)
             \/ (Prepare(c) /\ once = "failed")
             \/ (CreateContainer(c) /\ container[On(c)] # "none")
             \/ (StartContainer(c) /\ container[On(c)] # "created")
             \/ (Poll(c) /\ container[On(c)] \in {"none", "terminating"})
  <2>1. th[c].pc \in Stage["create"]
    BY <1>0, <1>5 DEF Staged
  <2>2. \/ Prepare(c) \/ Fill(c) \/ Inspect(c) \/ CreateContainer(c) \/ StartContainer(c)
        \/ Post(c) \/ Poll(c) \/ Ping(c) \/ Look(c) \/ Record(c) \/ GiveUp(c)
    BY <2>1 DEF Stage, ThreadStep, Lookup, Delete, Gone, Forget, Unrecord, List, Each, Add,
       SetPolicy, KnownSprite, Transport
  <2> QED
    BY <1>1, <1>2, <1>3, <1>4, <2>2
       DEF Prepare, Fill, Inspect, CreateContainer, StartContainer, Post, Poll, Ping, Look,
           GiveUp, Label
<1>6. ASSUME th[c].op = "destroy" PROVE (Forget(c) /\ th[c].code # 200) \/ Unrecord(c)
  <2>1. th[c].pc \in Stage["destroy"]
    BY <1>0, <1>6 DEF Staged
  <2>2. Lookup(c) \/ Delete(c) \/ Gone(c) \/ Forget(c) \/ Unrecord(c) \/ GiveUp(c)
    BY <2>1 DEF Stage, ThreadStep, Prepare, Fill, Inspect, CreateContainer, StartContainer,
       Post, Poll, Ping, Look, Record, List, Each, Add, SetPolicy, KnownSprite, Transport
  <2> QED
    BY <1>1, <1>2, <1>3, <1>4, <2>2 DEF Lookup, Delete, Gone, Forget, GiveUp, Label
<1>7. ASSUME th[c].op = "list" PROVE Each(c) /\ th[c].todo = {}
  <2>1. th[c].pc \in Stage["list"]
    BY <1>0, <1>7 DEF Staged
  <2>2. List(c) \/ Each(c) \/ Add(c)
    BY <2>1 DEF Stage, ThreadStep, Prepare, Fill, Inspect, CreateContainer, StartContainer,
       Post, Poll, Ping, Look, Record, Lookup, Delete, Gone, Forget, Unrecord, SetPolicy,
       KnownSprite, Transport, GiveUp, Overdue
  <2>3. ~List(c)
    <3> SUFFICES ASSUME List(c) PROVE FALSE
      OBVIOUS
    <3>1. th'[c] = [th[c] EXCEPT !.pc = "each", !.todo = Listed]
      BY DEF List, TypeOK
    <3>2. th'[c].pc = "each"
      BY <1>0, <3>1 DEF ThreadRecord
    <3> QED
      BY <3>2
  <2>4. ~Add(c)
    <3> SUFFICES ASSUME Add(c) PROVE FALSE
      OBVIOUS
    <3>1. th' = [th EXCEPT ![c] = [@ EXCEPT !.pc = "each", !.name = NoName,
                                           !.todo = th[c].todo \ {th[c].name}]]
      BY DEF Add
    <3>2. th'[c] = [th[c] EXCEPT !.pc = "each", !.name = NoName,
                                 !.todo = th[c].todo \ {th[c].name}]
      BY <3>1 DEF TypeOK
    <3>3. th'[c].pc = "each"
      BY <1>0, <3>2 DEF ThreadRecord
    <3> QED
      BY <3>3
  <2>5. ASSUME NEW n \in th[c].todo, th[c].pc = "each",
               th' = [th EXCEPT ![c] =
                        IF Live(n) THEN [@ EXCEPT !.todo = th[c].todo \ {n}]
                                   ELSE [@ EXCEPT !.pc = "add", !.name = n]]
        PROVE  FALSE
    <3>1. \/ th'[c] = [th[c] EXCEPT !.todo = th[c].todo \ {n}]
          \/ th'[c] = [th[c] EXCEPT !.pc = "add", !.name = n]
      BY <2>5 DEF TypeOK
    <3>2. th'[c].pc \in {"each", "add"}
      BY <1>0, <2>5, <3>1 DEF ThreadRecord
    <3> QED
      BY <3>2
  <2> QED
    BY <2>2, <2>3, <2>4, <2>5 DEF Each
<1> QED
  BY <1>5, <1>6, <1>7

(***************************************************************************)
(* Whatever state a sprite was in, an undisturbed DELETE that answers 200  *)
(* or 404 leaves no record, no container and no pooled transport: what     *)
(* realDestroy is for, with either runtime.                                *)
(***************************************************************************)
THEOREM DestroyLeavesNothing == Spec => DestroyedIsGone
<1>1. ASSUME IInv, [Next]_vars, NEW c \in Client, Answers(c, "destroy", {200, 404})
      PROVE  record'[On(c)] = "none" /\ container'[On(c)] = "none" /\ ~pool'[On(c)]
  <2>0. TypeOK /\ StageInv /\ CalmInv
    BY <1>1 DEF IInv
  <2>1. ThreadStep(c) /\ Knows(c)
    BY <1>1, <2>0, Answering
  <2>2. th[c].op = "destroy" /\ th'[c].pc = "idle" /\ th'[c].calm /\ th'[c].code \in {200, 404}
    BY <1>1 DEF Answers, At
  <2>3. (Forget(c) /\ th[c].code # 200) \/ Unrecord(c)
    BY <2>0, <2>1, <2>2, HowItEnds
  <2>4. On(c) \in Name
    BY <2>0, <2>3 DEF StageInv, Staged, Forget, Unrecord, At, On
  <2>5. CASE Forget(c) /\ th[c].code # 200
    <3>1. Answer(c, th[c].code) /\ th[c].code \in Codes
      BY <2>0, <2>5 DEF Forget, TypeOK, ThreadRecord
    <3>2. th'[c].code = th[c].code
      BY <2>0, <3>1, AnswerChanges DEF Changes
    <3>3. container[On(c)] = "none" /\ ~Live(On(c))
      BY <2>1, <2>2, <2>5, <3>2 DEF Knows, Forget
    <3>4. ~pool'[On(c)]
      BY <2>0, <2>4, <2>5 DEF Forget, TypeOK
    <3> QED
      BY <2>5, <3>3, <3>4 DEF Forget, Live
  <2>6. CASE Unrecord(c)
    <3>1. container[On(c)] = "none" /\ ~pool[On(c)]
      BY <2>1, <2>6 DEF Knows, Unrecord
    <3>2. record'[On(c)] = "none"
      BY <2>0, <2>4, <2>6 DEF Unrecord, TypeOK
    <3> QED
      BY <2>6, <3>1, <3>2 DEF Unrecord
  <2> QED
    BY <2>3, <2>5, <2>6
<1>2. IInv /\ [Next]_vars =>
        \A c \in Client : Answers(c, "destroy", {200, 404}) =>
          record'[On(c)] = "none" /\ container'[On(c)] = "none" /\ ~pool'[On(c)]
  BY <1>1
<1> QED
  BY <1>2, InductiveInvariant, PTL DEF Spec, DestroyedIsGone

(***************************************************************************)
(* After an undisturbed list, every container it could name is known:      *)
(* realList adds what the store does not have.                             *)
(***************************************************************************)
THEOREM ListMends == Spec => ListedIsKnown
<1>1. ASSUME IInv, [Next]_vars, NEW c \in Client, Answers(c, "list", {200})
      PROVE  AllKnown'
  <2>0. TypeOK /\ StageInv /\ CalmInv
    BY <1>1 DEF IInv
  <2>1. ThreadStep(c) /\ Knows(c)
    BY <1>1, <2>0, Answering
  <2>2. Each(c) /\ th[c].todo = {}
    BY <1>1, <2>0, <2>1, HowItEnds DEF Answers, At
  <2>3. \A n \in Listed : Live(n)
    BY <2>1, <2>2 DEF Knows, Each, At
  <2> QED
    BY <2>2, <2>3 DEF Each, AllKnown, Listed, Live
<1>2. IInv /\ [Next]_vars =>
        \A c \in Client : Answers(c, "list", {200}) => AllKnown'
  BY <1>1
<1> QED
  BY <1>2, InductiveInvariant, PTL DEF Spec, ListedIsKnown

(***************************************************************************)
(* An undisturbed create ends with a known sprite that has a container; it *)
(* fails only when the volume could not be filled or the pod of before is  *)
(* being deleted: realCreate with Docker.Create and Kubernetes.Create.     *)
(***************************************************************************)
THEOREM CreateSucceeds == Spec => CreateWorks
<1> DEFINE Step(c) ==
      /\ Answers(c, "create", {201}) => record'[On(c)] # "none" /\ On(c) \in Listed
      /\ Answers(c, "create", {502}) =>
            IF Docker THEN once = "failed" ELSE container[On(c)] \in {"none", "terminating"}
<1>1. ASSUME IInv, [Next]_vars, NEW c \in Client, Answers(c, "create", {201, 502})
      PROVE  Step(c)
  <2>0. TypeOK /\ StageInv /\ CalmInv
    BY <1>1 DEF IInv
  <2>1. ThreadStep(c) /\ Knows(c)
    BY <1>1, <2>0, Answering
  <2>2. th[c].op = "create" /\ th'[c].pc = "idle" /\ th'[c].calm
    BY <1>1 DEF Answers, At
  <2>3. \/ (Look(c) /\ Live(On(c)))
        \/ Record(c)
        \/ (Prepare(c) /\ once = "failed")
        \/ (CreateContainer(c) /\ container[On(c)] # "none")
        \/ (StartContainer(c) /\ container[On(c)] # "created")
        \/ (Poll(c) /\ container[On(c)] \in {"none", "terminating"})
    BY <2>0, <2>1, <2>2, HowItEnds
  <2>4. 201 \in Codes /\ 502 \in Codes
    BY DEF Codes
  <2>5. ASSUME NEW code \in Codes, Answer(c, code) PROVE th'[c].code = code
    BY <2>0, <2>5, AnswerChanges DEF Changes
  <2>6. ~(CreateContainer(c) /\ container[On(c)] # "none")
        /\ ~(StartContainer(c) /\ container[On(c)] # "created")
    BY <2>1 DEF Knows, CreateContainer, StartContainer
  <2>7. CASE Look(c) /\ Live(On(c))
    <3>1. th'[c].code = 201
      BY <2>4, <2>5, <2>7 DEF Look
    <3>2. On(c) \in Listed /\ record'[On(c)] # "none"
      BY <2>1, <2>7 DEF Knows, Look, Live, At
    <3> QED
      BY <3>1, <3>2 DEF Answers
  <2>8. CASE Record(c)
    <3>1. th'[c].code = 201
      BY <2>4, <2>5, <2>8 DEF Record
    <3>2. On(c) \in Listed /\ record'[On(c)] = "plain"
      BY <2>0, <2>1, <2>8 DEF Knows, Record, At, TypeOK, Listed
    <3> QED
      BY <3>1, <3>2 DEF Answers
  <2>9. CASE Prepare(c) /\ once = "failed"
    <3>1. th'[c].code = 502
      BY <2>4, <2>5, <2>9 DEF Prepare
    <3>2. Docker
      BY <2>0, <2>9 DEF StageInv, Staged, Prepare, At
    <3> QED
      BY <2>9, <3>1, <3>2 DEF Answers
  <2>10. CASE Poll(c) /\ container[On(c)] \in {"none", "terminating"}
    <3>1. th'[c].code = 502
      BY <2>4, <2>5, <2>10 DEF Poll, Up
    <3>2. ~Docker
      BY <2>0, <2>10 DEF StageInv, Staged, Poll, At
    <3> QED
      BY <2>10, <3>1, <3>2 DEF Answers
  <2> QED
    BY <2>3, <2>6, <2>7, <2>8, <2>9, <2>10
<1>2. IInv /\ [Next]_vars => \A c \in Client : Step(c)
  BY <1>1 DEF Answers
<1> QED
  BY <1>2, InductiveInvariant, PTL DEF Spec, CreateWorks

(***************************************************************************)
(* The policy of a sprite is replaced by a restart or by a request that    *)
(* overlapped another one, and by nothing else: realCreate and realList    *)
(* create a record only when Get found none.                               *)
(***************************************************************************)
THEOREM PolicyStays == Spec => PolicyKept
<1>1. ASSUME IInv, [Next]_vars, NEW n \in Name, record[n] = "set", record'[n] = "plain"
      PROVE  boots' # boots \/ \E c \in Client : On(c) = n /\ ~th[c].calm
  <2>0. TypeOK /\ StageInv /\ CalmInv
    BY <1>1 DEF IInv
  <2>1. CASE \E c \in Client : Record(c) \/ Add(c)
    <3>1. PICK c \in Client : Record(c) \/ Add(c)
      BY <2>1
    <3>2. On(c) = n
      BY <1>1, <2>0, <3>1 DEF Record, Add, TypeOK
    <3>3. th[c].calm => ~Live(n)
      BY <2>0, <3>1, <3>2 DEF CalmInv, Knows, Record, Add, At
    <3>4. Live(n)
      BY <1>1 DEF Live
    <3> QED
      BY <3>2, <3>3, <3>4
  <2>2. CASE Restart
    BY <2>0, <2>2 DEF Restart, TypeOK
  <2>3. ASSUME NEW c \in Client, ThreadStep(c), ~Record(c), ~Add(c) PROVE FALSE
    BY <1>1, <2>0, <2>3
       DEF ThreadStep, Prepare, Fill, Inspect, CreateContainer, StartContainer, Post, Poll,
           Ping, Look, Lookup, Delete, Gone, Forget, Unrecord, List, Each, SetPolicy,
           KnownSprite, Transport, GiveUp, TypeOK
  <2>4. record' = record => FALSE
    BY <1>1
  <2> QED
    BY <1>1, <2>1, <2>2, <2>3, <2>4 DEF Next, Begin, Fault, Runtime, Outside, vars
<1>2. IInv /\ [Next]_vars =>
        \A n \in Name : record[n] = "set" /\ record'[n] = "plain" =>
          boots' # boots \/ \E c \in Client : On(c) = n /\ ~th[c].calm
  BY <1>1
<1> QED
  BY <1>2, InductiveInvariant, PTL DEF Spec, PolicyKept
=============================================================================
