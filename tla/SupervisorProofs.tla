-------------------------- MODULE SupervisorProofs --------------------------
(***************************************************************************)
(* Proofs about Supervisor, for any names, clients, definitions and        *)
(* bounds.                                                                 *)
(***************************************************************************)
EXTENDS Supervisor, FiniteSetTheorems, TLAPS

USE DEF files

(***************************************************************************)
(* The initial state satisfies the inductive invariant.                    *)
(***************************************************************************)
LEMMA InitIInv == Init => IInv
<1> SUFFICES ASSUME Init PROVE IInv
  OBVIOUS
<1>1. TypeOK
  BY DEF Init, TypeOK, Service, ThreadState, ThreadRecord, Idle, Thd, NewService, Label
<1>2. PidIsLast /\ OnlyMade /\ DownIsEmpty /\ StopAllOnlyStopping
  BY DEF Init, PidIsLast, OnlyMade, DownIsEmpty, StopAllOnlyStopping,
         NewService, Idle, Thd, Thread
<1>3. OneProcess /\ UnwantedIsBeingStopped /\ WantedIsServed /\ StatusHonest
  BY DEF Init, OneProcess, UnwantedIsBeingStopped, WantedIsServed, StatusHonest,
         NewService, Known
<1> QED
  BY <1>1, <1>2, <1>3 DEF IInv

-----------------------------------------------------------------------------
(***************************************************************************)
(* Type lemmas for what the actions build services and threads from.       *)
(***************************************************************************)
LEMMA NewServiceType ==
    ASSUME NEW d \in Definition \cup {NoDef} PROVE NewService(d) \in Service
  BY DEF NewService, Service

Outcomes == {"ok", "exec", "pipe"}

LEMMA OutcomeCases ==
    ASSUME NEW n, NEW broken, NEW unpiped \in SUBSET broken
    PROVE  /\ Outcome(n, broken, unpiped) \in Outcomes
           /\ n \notin broken => Outcome(n, broken, unpiped) = "ok"
           /\ n \in broken => Outcome(n, broken, unpiped) \in {"exec", "pipe"}
  BY DEF Outcome, Outcomes

LEMMA LaunchedType ==
    ASSUME NEW s \in Service, NEW how \in Outcomes
    PROVE  Launched(s, how) \in Service /\ Started(s, how) \in Service
<1>1. ASSUME NEW r \in Service PROVE Launched(r, how) \in Service
  <2>1. CASE how = "exec"
    BY <1>1, <2>1 DEF Launched, Service
  <2>2. CASE how = "pipe"
    BY <1>1, <2>2 DEF Launched, Service
  <2>3. CASE how = "ok"
    <3>1. r.gen + 1 \in Nat
      BY <1>1 DEF Service
    <3> DEFINE g == r.gen + 1
    <3>2. [r EXCEPT !.status = "running", !.error = "none", !.noPipe = FALSE,
                    !.gen = g, !.pid = g] \in Service
      <4> HIDE DEF g
      <4> QED
        BY <1>1, <3>1 DEF Service, g
    <3> QED
      BY <2>3, <3>2 DEF Launched
  <2> QED
    BY <2>1, <2>2, <2>3 DEF Outcomes
<1>2. [s EXCEPT !.want = TRUE] \in Service
  BY DEF Service
<1> QED
  BY <1>1, <1>2 DEF Started

LEMMA UpdateType ==
    ASSUME NEW s \in Service, NEW d \in Definition \cup {NoDef}
    PROVE  /\ Ended(s) \in Service /\ Ended([s EXCEPT !.want = FALSE]) \in Service
           /\ [s EXCEPT !.want = FALSE, !.status = "stopping"] \in Service
           /\ CrashedNow(s) \in Service
           /\ [s EXCEPT !.def = d] \in Service
  BY DEF Ended, CrashedNow, Service

LEMMA IdleType == Idle \in ThreadState
  BY DEF Idle, Thd, ThreadState, ThreadRecord, Label

LEMMA KnownObject ==
    ASSUME TypeOK, NEW n \in Known
    PROVE  /\ <<n, services[n]>> \in Object
           /\ Obj(n) \in Service
           /\ n \in Name
  BY DEF TypeOK, Known, Object, Obj

LEMMA RegistryType ==
    ASSUME TypeOK, NEW n \in Name
    PROVE  made[n] \in Nat /\ services[n] \in Nat /\ (n \in Known <=> services[n] # 0)
<1>1. services[n] \in Incarnation \cup {0}
  BY DEF TypeOK
<1>2. Incarnation \cup {0} \subseteq Nat
  BY IncarnationAssumption
<1>3. made[n] \in Nat
  BY DEF TypeOK
<1> QED
  BY <1>1, <1>2, <1>3 DEF Known

(***************************************************************************)
(* The fields of a service that had no process, after a launch.            *)
(***************************************************************************)
\* A launch of s that fails leaves r: it records the failure or got no pipes.
FailedTo(s, r) ==
    /\ r.want /\ r.pid = 0 /\ r.gen = s.gen
    /\ \/ r.status = "failed" /\ r.error = "exec"
       \/ r.status = s.status /\ r.noPipe

LEMMA LaunchedFields ==
    ASSUME NEW s \in Service, s.pid = 0, s.want
    PROVE  /\ \A how \in {"exec", "pipe"} : FailedTo(s, Launched(s, how))
           /\ Launched(s, "ok").want /\ Launched(s, "ok").status = "running"
           /\ Launched(s, "ok").pid = s.gen + 1 /\ Launched(s, "ok").gen = s.gen + 1
<1>1. FailedTo(s, Launched(s, "exec"))
  BY DEF Launched, Service, FailedTo
<1>2. FailedTo(s, Launched(s, "pipe"))
  BY DEF Launched, Service, FailedTo
<1> QED
  BY <1>1, <1>2 DEF Launched, Service

LEMMA StartedFields ==
    ASSUME NEW s \in Service, s.pid = 0
    PROVE  /\ \A how \in {"exec", "pipe"} : FailedTo(s, Started(s, how))
           /\ Started(s, "ok").want /\ Started(s, "ok").status = "running"
           /\ Started(s, "ok").pid = s.gen + 1 /\ Started(s, "ok").gen = s.gen + 1
<1> DEFINE w == [s EXCEPT !.want = TRUE]
<1>1. /\ w \in Service /\ w.want /\ w.gen = s.gen /\ w.pid = 0 /\ w.status = s.status
  BY DEF Service
<1>2. \A how : Started(s, how) = Launched(w, how)
  BY DEF Started
<1> HIDE DEF w
<1>3. /\ \A how \in {"exec", "pipe"} : FailedTo(w, Launched(w, how))
      /\ Launched(w, "ok").want /\ Launched(w, "ok").status = "running"
      /\ Launched(w, "ok").pid = w.gen + 1 /\ Launched(w, "ok").gen = w.gen + 1
  BY <1>1, LaunchedFields
<1>4. ASSUME NEW how \in {"exec", "pipe"} PROVE FailedTo(s, Started(s, how))
  BY <1>1, <1>2, <1>3 DEF FailedTo
<1> QED
  BY <1>1, <1>2, <1>3, <1>4

(***************************************************************************)
(* startLocked's effect: who is launched, and that it is well typed.       *)
(***************************************************************************)
LEMMA StartReachedType ==
    ASSUME TypeOK, NEW reached, NEW broken, NEW unpiped \in SUBSET broken,
           StartReached(reached, broken, unpiped)
    PROVE  obj' \in [Object -> Service] /\ live' \subseteq Process
<1>1. \A o \in Object : Started(obj[o], Outcome(o[1], broken, unpiped)) \in Service
  BY LaunchedType, OutcomeCases DEF TypeOK
<1>2. obj' \in [Object -> Service]
  BY <1>1 DEF StartReached, TypeOK
<1>3. ASSUME NEW n \in Known PROVE <<n, services[n], Obj(n).gen + 1>> \in Process
  <2>1. <<n, services[n]>> \in Object /\ Obj(n).gen \in Nat
    BY KnownObject DEF Service
  <2> QED
    BY <2>1 DEF Process, Object
<1> QED
  BY <1>2, <1>3 DEF StartReached, TypeOK

(***************************************************************************)
(* What boot makes of the files.                                           *)
(***************************************************************************)
BootMakes(broken, unpiped) ==
    /\ obj' = [o \in Object |->
                 IF o[1] \in OnDisk /\ o[2] = 1
                 THEN IF o[1] \in BootReached(broken)
                      THEN Started(NewService(disk[o[1]]), Outcome(o[1], broken, unpiped))
                      ELSE NewService(disk[o[1]])
                 ELSE NewService(NoDef)]
    /\ live' = {<<n, 1, 1>> : n \in (BootReached(broken) \cap OnDisk) \ broken}

LEMMA BootChoice ==
    ASSUME Boot
    PROVE  \E broken \in SUBSET (OnDisk \cap Fragile) : \E unpiped \in SUBSET broken :
              BootMakes(broken, unpiped)
  BY DEF Boot, BootMakes

LEMMA GoDownType ==
    ASSUME GoDown
    PROVE  /\ phase' = "down"
           /\ services' \in [Name -> Incarnation \cup {0}]
           /\ made' \in [Name -> Nat]
           /\ obj' \in [Object -> Service]
           /\ th' \in [Thread -> ThreadState]
           /\ live' \subseteq Process /\ gone' \subseteq Process /\ timers' \subseteq Process
  BY NewServiceType, IdleType DEF GoDown

(***************************************************************************)
(* Type correctness is inductive.                                          *)
(***************************************************************************)
LEMMA TypeNext == TypeOK /\ [Next]_vars => TypeOK'
<1> SUFFICES ASSUME TypeOK, [Next]_vars PROVE TypeOK'
  OBVIOUS
<1>1. ASSUME NEW c \in Client, Request(c) PROVE TypeOK'
  <2>1. PICK op \in Ops, n \in Name :
          \E d \in IF op = "put" THEN PutDefs ELSE {NoDef} :
             th' = [th EXCEPT ![c] = Thd(Entry[op], op, n, d)]
    BY <1>1 DEF Request
  <2>2. PICK d \in Definition \cup {NoDef} :
             /\ op = "put" => d \in Definition
             /\ th' = [th EXCEPT ![c] = Thd(Entry[op], op, n, d)]
    BY <2>1, DefsAssumption
  <2>3. op \in AllOps /\ Entry[op] \in Label
    BY OpsAssumption DEF AllOps, Entry, Label
  <2>4. Thd(Entry[op], op, n, d) \in ThreadRecord
    BY <2>2, <2>3 DEF Thd, Idle, ThreadRecord, Label
  <2>5. Thd(Entry[op], op, n, d) \in ThreadState
    <3> DEFINE r == Thd(Entry[op], op, n, d)
    <3>1. r.pc = Entry[op] /\ r.op = op /\ r.name = n /\ r.def = d
      BY DEF Thd
    <3>2. /\ Entry[op] \in {"define", "insert", "install"} => op = "put"
          /\ Entry[op] \in {"stop", "stopping"} => op \in {"stop", "restart"}
          /\ Entry[op] = "delete" => op = "delete"
      BY <2>3 DEF AllOps, Entry
    <3> QED
      BY <2>2, <2>4, <3>1, <3>2 DEF ThreadState, StopThen
  <2>6. th' \in [Thread -> ThreadState]
    BY <2>2, <2>5 DEF TypeOK
  <2> QED
    BY <1>1, <2>6 DEF Request, TypeOK
<1>2. ASSUME NEW t \in Thread, ThreadStep(t) PROVE TypeOK'
  <2> th[t] \in ThreadState
    BY DEF TypeOK
  <2>a. ASSUME Return(t) PROVE th' \in [Thread -> ThreadState]
    BY <2>a, IdleType DEF Return, TypeOK
  <2>b. ASSUME NEW l \in {"start", "remove"}, Goto(t, l), th[t].pc # "idle"
        PROVE th' \in [Thread -> ThreadState]
    BY <2>b DEF Goto, TypeOK, ThreadState, ThreadRecord, Label
  <2>c. ASSUME Stopped(t), th[t].pc \in {"stop", "stopping"}
        PROVE th' \in [Thread -> ThreadState]
    <3>1. CASE StopThen[th[t].op] = "idle"
      BY <2>c, <2>a, <3>1 DEF Stopped
    <3>2. CASE StopThen[th[t].op] # "idle"
      <4>1. Goto(t, StopThen[th[t].op])
        BY <2>c, <3>2 DEF Stopped
      <4>2. th[t].op \in {"restart", "delete", "put"}
        BY <2>c, <3>2 DEF ThreadState, StopThen
      <4>3. CASE th[t].op = "put"
        <5>1. th' = [th EXCEPT ![t].pc = "install"]
          BY <4>1, <4>3 DEF Goto, StopThen
        <5> QED
          BY <5>1, <4>3, <2>c DEF TypeOK, ThreadState, ThreadRecord, Label
      <4>4. CASE th[t].op # "put"
        BY <4>1, <4>2, <4>4, <2>b, <2>c DEF StopThen
      <4> QED
        BY <4>3, <4>4
    <3> QED
      BY <3>1, <3>2
  <2>1. CASE DefineCheck(t)
    <3>1. th[t].name \in Name /\ th[t].def \in Definition
      BY <2>1 DEF DefineCheck, ThreadState
    <3>2. /\ disk' \in [Name -> Definition \cup {NoDef, Torn}]
          /\ meant' \in [Name -> Definition \cup {NoDef, Torn}] /\ faults' \in Nat
      BY <2>1, <3>1 DEF DefineCheck, FileFault, TypeOK
    <3>3. CASE Return(t)
      BY <2>1, <3>2, <3>3, <2>a DEF DefineCheck, TypeOK
    <3>4. CASE th' = [th EXCEPT ![t].pc = IF th[t].name \in Known THEN "stop" ELSE "insert",
                                ![t].old = services[th[t].name]]
      <4>1. services[th[t].name] \in Nat /\ th[t].op = "put" /\ th[t].pc = "define"
        BY <2>1, <3>1, IncarnationAssumption DEF DefineCheck, TypeOK, ThreadState
      <4>2. th' \in [Thread -> ThreadState]
        BY <3>1, <3>4, <4>1 DEF TypeOK, ThreadState, ThreadRecord, Label, StopThen
      <4> QED
        BY <2>1, <3>2, <4>2 DEF DefineCheck, TypeOK
    <3> QED
      BY <2>1, <3>3, <3>4 DEF DefineCheck
  <2>2. CASE DefineInsert(t)
    <3>1. NewService(th[t].def) \in Service
      BY NewServiceType DEF ThreadState, ThreadRecord
    <3>2. th' \in [Thread -> ThreadState]
      BY <2>2, <2>b DEF DefineInsert
    <3> QED
      BY <2>2, <3>1, <3>2, IncarnationAssumption DEF DefineInsert, TypeOK, budget
  <2>3. CASE DefineInstall(t)
    <3>1. obj' \in [Object -> Service]
      BY <2>3, UpdateType DEF DefineInstall, TypeOK, ThreadState, ThreadRecord
    <3>2. th' \in [Thread -> ThreadState]
      BY <2>3, <2>b DEF DefineInstall
    <3> QED
      BY <2>3, <3>1, <3>2 DEF DefineInstall, TypeOK, budget
  <2>4. CASE Start(t)
    <3>1. obj' \in [Object -> Service] /\ live' \subseteq Process
      BY <2>4, StartReachedType DEF Start
    <3>2. th' \in [Thread -> ThreadState]
      BY <2>4, <2>a DEF Start
    <3> QED
      BY <2>4, <3>1, <3>2 DEF Start, TypeOK, budget
  <2>5. CASE StopBegin(t)
    <3>1. obj' \in [Object -> Service]
      <4>1. CASE th[t].name \notin Known
        BY <2>5, <4>1 DEF StopBegin, TypeOK
      <4>2. CASE th[t].name \in Known
        <5>1. /\ <<th[t].name, services[th[t].name]>> \in Object
              /\ obj[<<th[t].name, services[th[t].name]>>] \in Service
          BY <4>2, KnownObject DEF Obj
        <5> QED
          BY <2>5, <4>2, <5>1, UpdateType DEF StopBegin, TypeOK
      <4> QED
        BY <4>1, <4>2
    <3>2. CASE Return(t) \/ Stopped(t)
      BY <2>5, <3>1, <3>2, <2>a, <2>c DEF StopBegin, TypeOK, budget
    <3>3. CASE /\ th[t].name \in Known
               /\ th' = [th EXCEPT ![t].pc = "stopping",
                                   ![t].target = <<services[th[t].name], Obj(th[t].name).pid>>]
      <4>1. <<services[th[t].name], Obj(th[t].name).pid>> \in Nat \X Nat
        BY <3>3, KnownObject, IncarnationAssumption DEF Object, Service
      <4>2. th' \in [Thread -> ThreadState]
        BY <2>5, <3>3, <4>1 DEF StopBegin, TypeOK, ThreadState, ThreadRecord, Label
      <4> QED
        BY <2>5, <3>1, <4>2 DEF StopBegin, TypeOK, budget
    <3> QED
      BY <2>5, <3>2, <3>3 DEF StopBegin, Obj
  <2>6. CASE StopReturn(t)
    <3>1. th' \in [Thread -> ThreadState]
      BY <2>6, <2>c DEF StopReturn
    <3> QED
      BY <2>6, <3>1 DEF StopReturn, TypeOK, budget
  <2>7. CASE DeleteCheck(t)
    <3>1. th' \in [Thread -> ThreadState]
      <4>1. CASE Goto(t, "stop")
        <5>1. th[t].op = "delete"
          BY <2>7 DEF DeleteCheck, ThreadState
        <5> QED
          BY <4>1, <5>1, <2>7 DEF DeleteCheck, Goto, TypeOK, ThreadState, ThreadRecord, Label,
                                  StopThen
      <4> QED
        BY <2>7, <2>a, <4>1 DEF DeleteCheck
    <3> QED
      BY <2>7, <3>1 DEF DeleteCheck, TypeOK, budget
  <2>8. CASE DeleteRemove(t)
    <3>1. th' \in [Thread -> ThreadState]
      BY <2>8, <2>a DEF DeleteRemove
    <3>2. /\ services' \in [Name -> Incarnation \cup {0}] /\ faults' \in Nat
          /\ disk' \in [Name -> Definition \cup {NoDef, Torn}]
          /\ meant' \in [Name -> Definition \cup {NoDef, Torn}]
      BY <2>8 DEF DeleteRemove, Forget, FileFault, TypeOK
    <3> QED
      BY <2>8, <3>1, <3>2 DEF DeleteRemove, TypeOK
  <2>9. CASE Signal(t)
    <3>1. th' \in [Thread -> ThreadState]
      BY <2>9, <2>a DEF Signal
    <3> QED
      BY <2>9, <3>1 DEF Signal, TypeOK, budget
  <2> QED
    BY <1>2, <2>1, <2>2, <2>3, <2>4, <2>5, <2>6, <2>7, <2>8, <2>9 DEF ThreadStep
<1>3. ASSUME NEW t \in Thread, StopKill(t) PROVE TypeOK'
  BY <1>3 DEF StopKill, TypeOK, budget
<1>4. ASSUME NEW t \in Thread, AgentDiesWriting(t) PROVE TypeOK'
  <2>1. /\ disk' \in [Name -> Definition \cup {NoDef, Torn}]
        /\ meant' = disk' /\ lost' \in BOOLEAN
    BY <1>4 DEF AgentDiesWriting, TypeOK
  <2>2. /\ reboots' \in Nat /\ requests' \in Nat /\ crashes' \in Nat /\ faults' \in Nat
        /\ GoDown
    BY <1>4 DEF AgentDiesWriting, FileFault, TypeOK
  <2> QED
    BY <2>1, <2>2, GoDownType DEF TypeOK
<1>5. ASSUME NEW p \in live, Exit(p) PROVE TypeOK'
  BY <1>5 DEF Exit, TypeOK
<1>6. ASSUME NEW p \in gone, Watch(p) PROVE TypeOK'
  <2>0. obj[<<p[1], p[2]>>] \in Service /\ <<p[1], p[2]>> \in Object
    BY DEF TypeOK, Process, Object
  <2>1. obj' \in [Object -> Service]
    BY <1>6, <2>0, UpdateType DEF Watch, TypeOK
  <2> QED
    BY <1>6, <2>1 DEF Watch, TypeOK, budget
<1>7. ASSUME NEW p \in timers, Fire(p) PROVE TypeOK'
  <2>1. obj[<<p[1], p[2]>>] \in Service /\ <<p[1], p[2]>> \in Object
    BY DEF TypeOK, Process, Object
  <2>2. obj' \in [Object -> Service]
    <3>1. \A how \in Outcomes :
             [obj EXCEPT ![<<p[1], p[2]>>] = Launched(@, how)] \in [Object -> Service]
      BY <2>1, LaunchedType DEF TypeOK
    <3> QED
      BY <1>7, <3>1 DEF Fire, TypeOK, Outcomes
  <2>3. <<p[1], p[2], obj[<<p[1], p[2]>>].gen + 1>> \in Process
    BY <2>1 DEF Process, Object, Service
  <2> QED
    BY <1>7, <2>2, <2>3 DEF Fire, TypeOK, budget
<1>8. CASE AgentDies
  BY <1>8, GoDownType, BoundsAssumption DEF AgentDies, LeaveFiles, TypeOK
<1>9. CASE Shutdown
  <2>1. \A n \in Name : Thd("stop", "stopall", n, NoDef) \in ThreadState
    BY DEF Thd, Idle, ThreadState, ThreadRecord, Label, StopThen
  <2>2. th' \in [Thread -> ThreadState]
    BY <1>9, <2>1 DEF Shutdown, TypeOK, Known
  <2> QED
    BY <1>9, <2>2, BoundsAssumption DEF Shutdown, TypeOK
<1>10. CASE RunReturns
  BY <1>10, GoDownType DEF RunReturns, LeaveFiles, TypeOK, budget
<1>11. CASE Boot
  <2>1. services' \in [Name -> Incarnation \cup {0}] /\ made' \in [Name -> Nat]
    BY <1>11, IncarnationAssumption DEF Boot
  <2>2. \A n \in OnDisk : NewService(disk[n]) \in Service
    BY NewServiceType DEF OnDisk, TypeOK
  <2>4. obj' \in [Object -> Service]
    <3>1. PICK broken : \E unpiped \in SUBSET broken : BootMakes(broken, unpiped)
      BY <1>11, BootChoice
    <3>2. PICK unpiped \in SUBSET broken : BootMakes(broken, unpiped)
      BY <3>1
    <3>3. \A o \in Object : o[1] \in OnDisk =>
             /\ NewService(disk[o[1]]) \in Service
             /\ Started(NewService(disk[o[1]]), Outcome(o[1], broken, unpiped)) \in Service
      BY <2>2, LaunchedType, OutcomeCases
    <3> QED
      BY <3>2, <3>3, NewServiceType DEF BootMakes
  <2>5. live' \subseteq Process
    BY <1>11, IncarnationAssumption DEF Boot, Process, OnDisk
  <2> QED
    BY <1>11, <2>1, <2>4, <2>5 DEF Boot, TypeOK, budget
<1>12. CASE UNCHANGED vars
  BY <1>12 DEF vars, TypeOK
<1> QED
  BY <1>1, <1>2, <1>3, <1>4, <1>5, <1>6, <1>7, <1>8, <1>9, <1>10, <1>11, <1>12 DEF Next

-----------------------------------------------------------------------------
(***************************************************************************)
(* A step that touches neither services nor processes, and no thread that  *)
(* waits in Stop, preserves the rest of the invariant.                     *)
(***************************************************************************)
LEMMA SameServices ==
    ASSUME IInv, TypeOK',
           UNCHANGED <<services, made, obj, live, gone, timers, phase>>,
           \A t \in Thread : th[t].pc = "stopping" => th'[t] = th[t],
           \A n \in Name : th[n].pc = "idle" => th'[n].pc = "idle",
           phase # "down"
    PROVE  IInv'
<1>1. UnwantedIsBeingStopped'
  BY DEF IInv, UnwantedIsBeingStopped, Target
<1>2. PidIsLast' /\ OneProcess' /\ StatusHonest'
  BY DEF IInv, PidIsLast, OneProcess, StatusHonest
<1>3. OnlyMade' /\ DownIsEmpty' /\ StopAllOnlyStopping'
  BY DEF IInv, OnlyMade, DownIsEmpty, StopAllOnlyStopping
<1>4. WantedIsServed'
  BY DEF IInv, WantedIsServed, Known, Obj
<1> QED
  BY <1>1, <1>2, <1>3, <1>4 DEF IInv

(***************************************************************************)
(* So does the end of the agent, which leaves no process.                  *)
(***************************************************************************)
LEMMA GoDownIInv == ASSUME TypeOK', GoDown PROVE IInv'
<1>1. /\ \A o \in Object : obj'[o] = NewService(NoDef)
      /\ \A t \in Thread : th'[t] = Idle
      /\ \A n \in Name : services'[n] = 0 /\ made'[n] = 0
      /\ live' = {} /\ gone' = {} /\ timers' = {}
  BY DEF GoDown
<1>2. PidIsLast' /\ OneProcess' /\ StatusHonest' /\ UnwantedIsBeingStopped'
  BY <1>1 DEF PidIsLast, OneProcess, StatusHonest, UnwantedIsBeingStopped, NewService
<1>3. OnlyMade' /\ DownIsEmpty' /\ StopAllOnlyStopping' /\ WantedIsServed'
  BY <1>1 DEF OnlyMade, DownIsEmpty, StopAllOnlyStopping, WantedIsServed, Known,
              Idle, Thd, Thread
<1> QED
  BY <1>2, <1>3 DEF IInv

(***************************************************************************)
(* What the other lemmas need of processes, objects and threads.           *)
(***************************************************************************)
LEMMA ProcessParts ==
    ASSUME TypeOK, NEW p \in live \cup gone \cup timers
    PROVE  /\ p = <<p[1], p[2], p[3]>>
           /\ <<p[1], p[2]>> \in Object
           /\ p[1] \in Name /\ p[2] \in Incarnation /\ p[3] \in Nat \ {0}
           /\ obj[<<p[1], p[2]>>] \in Service
  BY DEF TypeOK, Process, Object

LEMMA ObjectParts ==
    ASSUME TypeOK, NEW o \in Object
    PROVE  /\ o = <<o[1], o[2]>> /\ o[1] \in Name /\ o[2] \in Incarnation
           /\ obj[o] \in Service
  BY DEF TypeOK, Object

(***************************************************************************)
(* Define inserts a new service.                                           *)
(***************************************************************************)
LEMMA InsertIInv ==
    ASSUME IInv, TypeOK', NEW t \in Thread, DefineInsert(t) PROVE IInv'
<1> DEFINE n == th[t].name
           k == made[n] + 1
<1>1. n \in Name /\ th[t].pc = "insert" /\ made[n] \in Nat /\ k \in Incarnation
  BY DEF DefineInsert, IInv, TypeOK, ThreadState
<1>2. /\ made' = [made EXCEPT ![n] = k] /\ services' = [services EXCEPT ![n] = k]
      /\ obj' = [obj EXCEPT ![<<n, k>>] = NewService(th[t].def)]
      /\ th' = [th EXCEPT ![t].pc = "start"]
      /\ UNCHANGED <<phase, live, gone, timers>>
  BY DEF DefineInsert, Goto
<1>3. \A p \in live \cup gone \cup timers : <<p[1], p[2]>> # <<n, k>>
  BY <1>1 DEF IInv, OnlyMade
<1>4. obj'[<<n, k>>] = NewService(th[t].def)
  BY <1>1, <1>2 DEF IInv, TypeOK, Object
<1>5. \A o \in Object : o # <<n, k>> => obj'[o] = obj[o]
  BY <1>2 DEF IInv, TypeOK
<1>6. PidIsLast' /\ StatusHonest'
  BY <1>4, <1>5 DEF IInv, PidIsLast, StatusHonest, NewService
<1>7. OneProcess'
  <2>1. \A p \in live \cup gone : obj'[<<p[1], p[2]>>] = obj[<<p[1], p[2]>>]
    BY <1>3, <1>5, ProcessParts DEF IInv
  <2> QED
    BY <1>2, <1>4, <1>5, <2>1 DEF IInv, OneProcess, NewService
<1>8. UnwantedIsBeingStopped'
  BY <1>1, <1>2, <1>4, <1>5 DEF IInv, TypeOK, UnwantedIsBeingStopped, Target, NewService
<1>9. WantedIsServed'
  <2>1. \A m \in Name : m # n => services'[m] = services[m]
    BY <1>2 DEF IInv, TypeOK
  <2>2. services'[n] = k
    BY <1>1, <1>2 DEF IInv, TypeOK
  <2>3. ASSUME NEW m \in Known' PROVE m = n \/ (m \in Known /\ Obj(m)' = Obj(m))
    BY <1>1, <1>5, <2>1, KnownObject DEF IInv, Known, Obj
  <2> QED
    BY <1>2, <1>4, <2>1, <2>2, <2>3 DEF IInv, WantedIsServed, NewService, Obj
<1>10. OnlyMade' /\ DownIsEmpty' /\ StopAllOnlyStopping'
  <2>1. \A m \in Name : made[m] \in Nat /\ services[m] \in Nat
    BY RegistryType DEF IInv
  <2>2. \A m \in Name : /\ made'[m] = IF m = n THEN k ELSE made[m]
                        /\ services'[m] = IF m = n THEN k ELSE services[m]
    BY <1>1, <1>2 DEF IInv, TypeOK
  <2>3. \A p \in live \cup gone \cup timers : p[1] \in Name /\ p[2] \in Nat
    BY ProcessParts, IncarnationAssumption DEF IInv
  <2>4. OnlyMade'
    BY <1>2, <2>1, <2>2, <2>3 DEF IInv, OnlyMade
  <2> QED
    BY <1>1, <1>2, <2>4 DEF IInv, TypeOK, DownIsEmpty, StopAllOnlyStopping
<1> QED
  BY <1>6, <1>7, <1>8, <1>9, <1>10 DEF IInv

(***************************************************************************)
(* old.def = def touches neither the state nor the process.                *)
(***************************************************************************)
LEMMA InstallIInv ==
    ASSUME IInv, TypeOK', NEW t \in Thread, DefineInstall(t) PROVE IInv'
<1>1. /\ th[t].pc = "install" /\ th' = [th EXCEPT ![t].pc = "start"]
      /\ UNCHANGED <<phase, services, made, live, gone, timers>>
  BY DEF DefineInstall, Goto
<1>2. \A o \in Object :
         /\ obj'[o].pid = obj[o].pid /\ obj'[o].gen = obj[o].gen
         /\ obj'[o].want = obj[o].want /\ obj'[o].status = obj[o].status
         /\ obj'[o].error = obj[o].error /\ obj'[o].noPipe = obj[o].noPipe
  BY DEF DefineInstall, IInv, TypeOK, Service
<1>3. PidIsLast' /\ StatusHonest'
  BY <1>2 DEF IInv, PidIsLast, StatusHonest
<1>4. OneProcess'
  BY <1>1, <1>2, ProcessParts DEF IInv, OneProcess
<1>5. UnwantedIsBeingStopped'
  BY <1>1, <1>2 DEF IInv, TypeOK, UnwantedIsBeingStopped, Target
<1>6. WantedIsServed'
  BY <1>1, <1>2, KnownObject DEF IInv, WantedIsServed, Known, Obj
<1>7. OnlyMade' /\ DownIsEmpty' /\ StopAllOnlyStopping'
  BY <1>1 DEF IInv, TypeOK, OnlyMade, DownIsEmpty, StopAllOnlyStopping
<1> QED
  BY <1>3, <1>4, <1>5, <1>6, <1>7 DEF IInv

(***************************************************************************)
(* startLocked: wantRunning for every service reached, and a process for   *)
(* each that had none.                                                     *)
(***************************************************************************)
LEMMA StartIInv ==
    ASSUME IInv, TypeOK', NEW t \in Thread, Start(t) PROVE IInv'
<1>0. PICK broken \in SUBSET MayBreak : \E unpiped \in SUBSET broken :
         StartReached(Reached(th[t].name, broken), broken, unpiped)
  BY DEF Start
<1>1. PICK unpiped \in SUBSET broken :
         StartReached(Reached(th[t].name, broken), broken, unpiped)
  BY <1>0
<1> DEFINE reached == Reached(th[t].name, broken)
           wanted(o) == o[1] \in reached /\ o[2] = services[o[1]]
           launch == {n \in Known : n \in reached \ broken /\ Obj(n).pid = 0}
<1>2. /\ th[t].pc = "start" /\ th' = [th EXCEPT ![t] = Idle]
      /\ UNCHANGED <<phase, services, made, gone, timers>>
  BY DEF Start, Return
<1>3. /\ \A o \in Object : obj'[o] = IF wanted(o)
                                     THEN Started(obj[o], Outcome(o[1], broken, unpiped))
                                     ELSE obj[o]
      /\ live' = live \cup {<<n, services[n], Obj(n).gen + 1>> : n \in launch}
  BY <1>1 DEF StartReached
<1> HIDE DEF reached
<1>4. \A o \in Object : obj[o] \in Service
  BY ObjectParts DEF IInv
<1>5. \A o \in Object : obj[o].pid # 0 =>
         /\ obj'[o].pid = obj[o].pid /\ obj'[o].gen = obj[o].gen
         /\ obj'[o].status = obj[o].status
         /\ obj'[o].want = (obj[o].want \/ wanted(o))
  BY <1>3, <1>4 DEF Started, Service
<1>6. \A o \in Object : obj[o].pid = 0 /\ ~wanted(o) => obj'[o] = obj[o]
  BY <1>3
<1>7. \A o \in Object : obj[o].pid = 0 /\ wanted(o) /\ o[1] \in broken =>
         FailedTo(obj[o], obj'[o])
  <2> SUFFICES ASSUME NEW o \in Object, obj[o].pid = 0, wanted(o), o[1] \in broken
               PROVE  FailedTo(obj[o], obj'[o])
    OBVIOUS
  <2>1. PICK how \in {"exec", "pipe"} : obj'[o] = Started(obj[o], how)
    BY <1>3, OutcomeCases
  <2> QED
    BY <1>4, <2>1, StartedFields
<1>8. \A o \in Object : obj[o].pid = 0 /\ wanted(o) /\ o[1] \notin broken =>
         /\ obj'[o].pid = obj[o].gen + 1 /\ obj'[o].gen = obj[o].gen + 1
         /\ obj'[o].want /\ obj'[o].status = "running"
  <2> SUFFICES ASSUME NEW o \in Object, obj[o].pid = 0, wanted(o), o[1] \notin broken
               PROVE  /\ obj'[o].pid = obj[o].gen + 1 /\ obj'[o].gen = obj[o].gen + 1
                      /\ obj'[o].want /\ obj'[o].status = "running"
    OBVIOUS
  <2>1. obj[o] \in Service /\ obj'[o] = Started(obj[o], "ok")
    BY <1>3, <1>4, OutcomeCases
  <2> QED
    BY <2>1, StartedFields
<1>9. \A o \in Object : obj[o].pid \in Nat /\ obj[o].gen \in Nat /\ obj[o].want \in BOOLEAN
  BY <1>4 DEF Service
<1>10. PidIsLast' /\ StatusHonest'
  <2> SUFFICES ASSUME NEW o \in Object
               PROVE  /\ obj'[o].pid \in {0, obj'[o].gen}
                      /\ obj'[o].status \in {"running", "stopping"} <=> obj'[o].pid # 0
                      /\ obj'[o].status = "stopped" => ~obj'[o].want \/ obj'[o].noPipe
    BY DEF PidIsLast, StatusHonest
  <2>0. /\ obj[o].pid \in {0, obj[o].gen}
        /\ obj[o].status \in {"running", "stopping"} <=> obj[o].pid # 0
        /\ obj[o].status = "stopped" => ~obj[o].want \/ obj[o].noPipe
    BY DEF IInv, PidIsLast, StatusHonest
  <2>1. CASE obj[o].pid # 0
    BY <2>0, <2>1, <1>5
  <2>2. CASE obj[o].pid = 0 /\ ~wanted(o)
    BY <2>0, <2>2, <1>6
  <2>3. CASE obj[o].pid = 0 /\ wanted(o) /\ o[1] \in broken
    BY <2>0, <2>3, <1>7 DEF FailedTo
  <2>4. CASE obj[o].pid = 0 /\ wanted(o) /\ o[1] \notin broken
    BY <2>0, <2>4, <1>8, <1>9
  <2> QED
    BY <2>1, <2>2, <2>3, <2>4
<1>11. OneProcess'
  <2>1. \A n \in launch : /\ <<n, services[n]>> \in Object
                          /\ obj[<<n, services[n]>>].pid = 0
                          /\ wanted(<<n, services[n]>>) /\ n \notin broken
                          /\ Obj(n) = obj[<<n, services[n]>>]
    BY KnownObject DEF IInv, Obj
  <2>2. ASSUME NEW p \in live' \cup gone' PROVE obj'[<<p[1], p[2]>>].pid = p[3]
    <3>1. CASE p \in live \cup gone
      <4>1. <<p[1], p[2]>> \in Object /\ p[3] # 0 /\ obj[<<p[1], p[2]>>].pid = p[3]
        BY <3>1, ProcessParts DEF IInv, OneProcess
      <4> QED
        BY <4>1, <1>5
    <3>2. CASE p \in {<<n, services[n], Obj(n).gen + 1>> : n \in launch}
      BY <3>2, <2>1, <1>8
    <3> QED
      BY <1>2, <1>3, <3>1, <3>2
  <2>3. live' \cap gone' = {}
    <3>1. \A p \in gone : obj[<<p[1], p[2]>>].pid # 0
      BY ProcessParts DEF IInv, OneProcess
    <3>2. \A n \in launch : <<n, services[n], Obj(n).gen + 1>> \notin gone
      BY <3>1, <2>1
    <3> QED
      BY <1>2, <1>3, <3>2 DEF IInv, OneProcess
  <2>4. ASSUME NEW o \in Object, obj'[o].pid # 0
        PROVE  <<o[1], o[2], obj'[o].pid>> \in live' \cup gone'
    <3>1. CASE obj[o].pid # 0
      BY <3>1, <1>2, <1>3, <1>5 DEF IInv, OneProcess
    <3>2. CASE obj[o].pid = 0
      <4>1. wanted(o) /\ o[1] \notin broken /\ obj'[o].pid = obj[o].gen + 1
        BY <2>4, <3>2, <1>6, <1>7, <1>8 DEF FailedTo
      <4>2. o = <<o[1], services[o[1]]>> /\ o[1] \in Known
        BY <4>1, ObjectParts, IncarnationAssumption DEF IInv, Known
      <4>3. o[1] \in launch /\ Obj(o[1]) = obj[o]
        BY <3>2, <4>1, <4>2 DEF Obj
      <4> QED
        BY <1>3, <4>1, <4>2, <4>3
    <3> QED
      BY <3>1, <3>2
  <2> QED
    BY <2>2, <2>3, <2>4 DEF OneProcess
<1>12. UnwantedIsBeingStopped'
  <2>1. SUFFICES ASSUME NEW o \in Object, ~obj'[o].want, obj'[o].pid # 0
        PROVE  \E u \in Thread : /\ th'[u].pc = "stopping"
                                 /\ Target(u)' = <<o[1], o[2], obj'[o].pid>>
    BY DEF UnwantedIsBeingStopped
  <2>2. obj[o].pid # 0 /\ ~obj[o].want /\ obj'[o].pid = obj[o].pid
    BY <2>1, <1>5, <1>6, <1>7, <1>8, <1>9 DEF FailedTo
  <2>3. PICK u \in Thread : /\ th[u].pc = "stopping"
                            /\ Target(u) = <<o[1], o[2], obj[o].pid>>
    BY <2>2 DEF IInv, UnwantedIsBeingStopped
  <2>4. th'[u] = th[u]
    BY <1>2, <2>3 DEF IInv, TypeOK
  <2> QED
    BY <2>2, <2>3, <2>4 DEF Target
<1>13. WantedIsServed'
  <2>1. SUFFICES ASSUME NEW n \in Known, obj'[<<n, services[n]>>].want,
                        obj'[<<n, services[n]>>].pid = 0,
                        obj'[<<n, services[n]>>].error # "exec",
                        ~obj'[<<n, services[n]>>].noPipe
        PROVE  <<n, services[n], obj'[<<n, services[n]>>].gen>> \in timers
    BY <1>2 DEF WantedIsServed, Known, Obj
  <2>2. <<n, services[n]>> \in Object
    BY KnownObject DEF IInv
  <2>3. obj'[<<n, services[n]>>] = obj[<<n, services[n]>>]
    BY <2>1, <2>2, <1>5, <1>6, <1>7, <1>8, <1>9 DEF FailedTo
  <2> QED
    BY <2>1, <2>2, <2>3 DEF IInv, WantedIsServed, Obj
<1>14. OnlyMade' /\ DownIsEmpty' /\ StopAllOnlyStopping'
  <2>1. ASSUME NEW p \in live' PROVE p[2] <= made[p[1]]
    <3>1. CASE p \in live
      BY <3>1 DEF IInv, OnlyMade
    <3>2. CASE p \in {<<n, services[n], Obj(n).gen + 1>> : n \in launch}
      <4>1. PICK n \in launch : p[1] = n /\ p[2] = services[n]
        BY <3>2
      <4> QED
        BY <4>1 DEF IInv, OnlyMade, Known
    <3> QED
      BY <1>3, <3>1, <3>2
  <2>2. OnlyMade'
    BY <1>2, <2>1 DEF IInv, OnlyMade
  <2>3. phase # "down"
    BY <1>2 DEF IInv, DownIsEmpty
  <2>4. th'[t].pc = "idle" /\ \A u \in Thread : u # t => th'[u] = th[u]
    BY <1>2 DEF IInv, TypeOK, Idle, Thd
  <2> QED
    BY <1>2, <2>2, <2>3, <2>4 DEF IInv, DownIsEmpty, StopAllOnlyStopping, Thread
<1> QED
  BY <1>10, <1>11, <1>12, <1>13, <1>14 DEF IInv

(***************************************************************************)
(* A process dies: of SIGKILL, of a signal, or by itself.                  *)
(***************************************************************************)
LEMMA DiesIInv ==
    ASSUME IInv, TypeOK', NEW p \in live,
           live' = live \ {p}, gone' = gone \cup {p},
           UNCHANGED <<phase, services, made, obj, timers>>,
           \A t \in Thread : th[t].pc = "stopping" => th'[t] = th[t],
           \A n \in Name : th[n].pc = "idle" => th'[n].pc = "idle"
    PROVE  IInv'
<1>1. live' \cup gone' = live \cup gone
  OBVIOUS
<1>2. OneProcess'
  BY <1>1 DEF IInv, OneProcess
<1>3. UnwantedIsBeingStopped'
  BY DEF IInv, UnwantedIsBeingStopped, Target
<1>4. PidIsLast' /\ StatusHonest'
  BY DEF IInv, PidIsLast, StatusHonest
<1>5. WantedIsServed'
  BY DEF IInv, WantedIsServed, Known, Obj
<1>6. OnlyMade' /\ DownIsEmpty' /\ StopAllOnlyStopping'
  BY <1>1 DEF IInv, OnlyMade, DownIsEmpty, StopAllOnlyStopping
<1> QED
  BY <1>2, <1>3, <1>4, <1>5, <1>6 DEF IInv

(***************************************************************************)
(* Stop's first part: a service without a process is stopped at once, for  *)
(* any other the thread becomes the one that waits.                        *)
(***************************************************************************)
LEMMA StopBeginIInv ==
    ASSUME IInv, TypeOK', NEW t \in Thread, StopBegin(t) PROVE IInv'
<1> DEFINE n == th[t].name
           o == <<n, services[n]>>
<1>1. th[t].pc = "stop" /\ UNCHANGED <<phase, services, made, live, gone, timers>>
  BY DEF StopBegin, budget
<1>2. \A u \in Thread : u # t => th'[u] = th[u]
  BY DEF StopBegin, Stopped, Return, Goto, IInv, TypeOK
<1>3. phase # "down"
  BY <1>1 DEF IInv, DownIsEmpty
<1>4. OnlyMade' /\ DownIsEmpty' /\ StopAllOnlyStopping'
  BY <1>1, <1>2, <1>3 DEF IInv, OnlyMade, DownIsEmpty, StopAllOnlyStopping, Thread
<1>5. CASE n \notin Known
  <2>1. th'[t].pc = "idle" /\ UNCHANGED obj
    BY <1>5 DEF StopBegin, Return, IInv, TypeOK, Idle, Thd
  <2> QED
    BY <1>1, <1>2, <1>3, <2>1, SameServices DEF Thread
<1>6. CASE n \in Known
  <2>1. o \in Object /\ obj[o] \in Service
    BY <1>6, KnownObject DEF IInv, Obj
  <2>2. \A x \in Object : x # o => obj'[x] = obj[x]
    BY DEF StopBegin, IInv, TypeOK
  <2>3. /\ obj'[o].pid = obj[o].pid /\ obj'[o].gen = obj[o].gen /\ ~obj'[o].want
        /\ \/ obj[o].pid = 0 /\ obj'[o].status = "stopped"
           \/ /\ obj[o].pid # 0 /\ obj'[o].status = "stopping"
              /\ th'[t].pc = "stopping" /\ th'[t].name = n
              /\ th'[t].target = <<services[n], obj[o].pid>>
    <3>a. CASE obj[o].pid = 0
      <4>1. obj'[o] = Ended([obj[o] EXCEPT !.want = FALSE])
        BY <1>6, <2>1, <3>a DEF StopBegin, IInv, TypeOK
      <4> QED
        BY <2>1, <3>a, <4>1 DEF Ended, Service
    <3>b. CASE obj[o].pid # 0
      <4>1. /\ obj'[o] = [obj[o] EXCEPT !.want = FALSE, !.status = "stopping"]
            /\ th' = [th EXCEPT ![t].pc = "stopping", ![t].target = <<services[n], obj[o].pid>>]
        BY <1>6, <2>1, <3>b DEF StopBegin, IInv, TypeOK
      <4>2. /\ th'[t].pc = "stopping" /\ th'[t].name = n
            /\ th'[t].target = <<services[n], obj[o].pid>>
        <5>1. t \in DOMAIN th /\ th[t] \in ThreadRecord
          BY DEF IInv, TypeOK, ThreadState
        <5> DEFINE g == <<services[n], obj[o].pid>>
        <5>2. th'[t] = [th[t] EXCEPT !.pc = "stopping", !.target = g]
          BY <4>1, <5>1
        <5> HIDE DEF g
        <5>3. th'[t].pc = "stopping" /\ th'[t].name = th[t].name /\ th'[t].target = g
          BY <5>1, <5>2 DEF ThreadRecord
        <5> QED
          BY <5>3 DEF g
      <4> QED
        BY <2>1, <3>b, <4>1, <4>2 DEF Service
    <3> QED
      BY <3>a, <3>b
  <2>5. PidIsLast' /\ StatusHonest'
    BY <2>2, <2>3 DEF IInv, PidIsLast, StatusHonest
  <2>6. OneProcess'
    BY <1>1, <2>2, <2>3, ProcessParts DEF IInv, OneProcess
  <2>7. UnwantedIsBeingStopped'
    <3>1. obj'[o].pid # 0 => th'[t].pc = "stopping" /\ Target(t)' = <<o[1], o[2], obj'[o].pid>>
      BY <2>3 DEF Target
    <3> QED
      BY <1>1, <1>2, <2>2, <3>1 DEF IInv, UnwantedIsBeingStopped, Target
  <2>8. WantedIsServed'
    <3>1. ASSUME NEW m \in Known, m # n PROVE Obj(m)' = Obj(m)
      BY <1>1, <2>2, <3>1, KnownObject DEF IInv, Obj
    <3> QED
      BY <1>1, <2>3, <3>1 DEF IInv, WantedIsServed, Known, Obj
  <2> QED
    BY <1>4, <2>5, <2>6, <2>7, <2>8 DEF IInv
<1> QED
  BY <1>5, <1>6

(***************************************************************************)
(* Stop returns: the launch it waited for has ended, so no service relies  *)
(* on this thread any more.                                                *)
(***************************************************************************)
LEMMA StopReturnIInv ==
    ASSUME IInv, TypeOK', NEW t \in Thread, StopReturn(t) PROVE IInv'
<1>1. /\ th[t].pc = "stopping" /\ Target(t) \notin live \cup gone
      /\ UNCHANGED <<phase, services, made, obj, live, gone, timers>>
  BY DEF StopReturn, Exited, budget
<1>2. \A u \in Thread : u # t => th'[u] = th[u]
  BY DEF StopReturn, Stopped, Return, Goto, IInv, TypeOK
<1>3. UnwantedIsBeingStopped'
  <2> SUFFICES ASSUME NEW o \in Object, ~obj[o].want, obj[o].pid # 0
               PROVE  \E u \in Thread : /\ th'[u].pc = "stopping"
                                        /\ Target(u)' = <<o[1], o[2], obj[o].pid>>
    BY <1>1 DEF UnwantedIsBeingStopped
  <2>1. PICK u \in Thread : /\ th[u].pc = "stopping"
                            /\ Target(u) = <<o[1], o[2], obj[o].pid>>
    BY DEF IInv, UnwantedIsBeingStopped
  <2>2. u # t
    BY <1>1, <2>1 DEF IInv, OneProcess
  <2> QED
    BY <1>2, <2>1, <2>2 DEF Target
<1>4. PidIsLast' /\ OneProcess' /\ StatusHonest'
  BY <1>1 DEF IInv, PidIsLast, OneProcess, StatusHonest
<1>5. WantedIsServed'
  BY <1>1 DEF IInv, WantedIsServed, Known, Obj
<1>6. OnlyMade' /\ DownIsEmpty' /\ StopAllOnlyStopping'
  BY <1>1, <1>2 DEF IInv, OnlyMade, DownIsEmpty, StopAllOnlyStopping, Thread
<1> QED
  BY <1>3, <1>4, <1>5, <1>6 DEF IInv

(***************************************************************************)
(* Delete forgets the name.                                                *)
(***************************************************************************)
LEMMA RemoveIInv ==
    ASSUME IInv, TypeOK', NEW t \in Thread, DeleteRemove(t) PROVE IInv'
<1>1. /\ th[t].pc = "remove" /\ th' = [th EXCEPT ![t] = Idle]
      /\ UNCHANGED <<phase, made, obj, live, gone, timers>>
  BY DEF DeleteRemove, Return, budget
<1>2. \A n \in Name : services'[n] = services[n] \/ services'[n] = 0
  BY DEF DeleteRemove, Forget, IInv, TypeOK
<1>3. /\ \A u \in Thread : u # t => th'[u] = th[u]
      /\ th'[t].pc = "idle" /\ phase # "down"
  BY <1>1 DEF IInv, TypeOK, DownIsEmpty, Idle, Thd
<1>4. UnwantedIsBeingStopped'
  BY <1>1, <1>3 DEF IInv, UnwantedIsBeingStopped, Target
<1>5. PidIsLast' /\ OneProcess' /\ StatusHonest'
  BY <1>1 DEF IInv, PidIsLast, OneProcess, StatusHonest
<1>6. WantedIsServed'
  BY <1>1, <1>2 DEF IInv, WantedIsServed, Known, Obj
<1>7. OnlyMade' /\ DownIsEmpty' /\ StopAllOnlyStopping'
  BY <1>1, <1>2, <1>3, RegistryType
     DEF IInv, OnlyMade, DownIsEmpty, StopAllOnlyStopping, Thread
<1> QED
  BY <1>4, <1>5, <1>6, <1>7 DEF IInv

(***************************************************************************)
(* The waiting goroutine of a launch: the process it waited for was the    *)
(* service's only one, so nothing of the service runs afterwards.          *)
(***************************************************************************)
LEMMA WatchIInv ==
    ASSUME IInv, TypeOK', NEW p \in gone, Watch(p) PROVE IInv'
<1> DEFINE o == <<p[1], p[2]>>
<1>1. /\ gone' = gone \ {p}
      /\ UNCHANGED <<phase, services, made, live, th>>
  BY DEF Watch
<1>2. /\ o \in Object /\ obj[o] \in Service /\ p = <<p[1], p[2], p[3]>>
      /\ p[3] # 0 /\ obj[o].pid = p[3] /\ p \notin live
  BY ProcessParts DEF IInv, OneProcess
<1>3. obj[o].gen = p[3]
  BY <1>2 DEF IInv, PidIsLast
<1>4. /\ obj' = [obj EXCEPT ![o] = IF obj[o].want THEN CrashedNow(obj[o]) ELSE Ended(obj[o])]
      /\ timers' = IF obj[o].want THEN timers \cup {p} ELSE timers
  <2>1. IsLastLaunch(p) /\ (StopAsked(o) <=> ~obj[o].want)
    BY <1>3 DEF IsLastLaunch, StopAsked
  <2> QED
    BY <2>1, <1>2 DEF Watch, IInv, TypeOK
<1>5. \A x \in Object : x # o => obj'[x] = obj[x]
  BY <1>4 DEF IInv, TypeOK
<1>6. /\ obj'[o].pid = 0 /\ obj'[o].gen = p[3] /\ obj'[o].want = obj[o].want
      /\ obj[o].want => obj'[o].status = "failed"
      /\ ~obj[o].want => obj'[o].status = "stopped"
  <2>1. obj'[o] = IF obj[o].want THEN CrashedNow(obj[o]) ELSE Ended(obj[o])
    BY <1>2, <1>4 DEF IInv, TypeOK
  <2> HIDE DEF o
  <2> QED
    BY <2>1, <1>2, <1>3 DEF CrashedNow, Ended, Service
<1>7. \A q \in live' \cup gone' : <<q[1], q[2]>> # o
  <2> SUFFICES ASSUME NEW q \in live \cup gone, q # p, <<q[1], q[2]>> = o
               PROVE  FALSE
    BY <1>1, <1>2
  <2>1. q = <<q[1], q[2], q[3]>> /\ obj[<<q[1], q[2]>>].pid = q[3]
    BY ProcessParts DEF IInv, OneProcess
  <2> QED
    BY <2>1, <1>2
<1>8. OneProcess'
  <2>1. \A q \in live' \cup gone' : <<q[1], q[2]>> \in Object
    BY <1>1, ProcessParts DEF IInv
  <2>2. \A x \in Object : x # o => <<x[1], x[2], obj[x].pid>> # p
    BY <1>2, ObjectParts DEF IInv
  <2> QED
    BY <1>1, <1>5, <1>6, <1>7, <2>1, <2>2 DEF IInv, OneProcess
<1>9. PidIsLast' /\ StatusHonest'
  BY <1>5, <1>6 DEF IInv, PidIsLast, StatusHonest
<1>10. UnwantedIsBeingStopped'
  BY <1>1, <1>5, <1>6 DEF IInv, UnwantedIsBeingStopped, Target
<1>11. WantedIsServed'
  <2>1. Known' = Known
    BY <1>1 DEF Known
  <2>2. ASSUME NEW n \in Known, Obj(n)'.want
        PROVE  (Obj(n).pid # 0 \/ Obj(n).error = "exec" \/ Obj(n).noPipe
                  \/ <<n, services[n], Obj(n).gen>> \in timers)
                => (Obj(n)'.pid # 0 \/ Obj(n)'.error = "exec" \/ Obj(n)'.noPipe
                      \/ <<n, services'[n], Obj(n)'.gen>> \in timers')
    <3>1. CASE <<n, services[n]>> = o
      BY <3>1, <2>2, <1>1, <1>2, <1>4, <1>6 DEF Obj
    <3>2. CASE <<n, services[n]>> # o
      BY <3>2, <1>1, <1>4, <1>5, KnownObject DEF IInv, Obj
    <3> QED
      BY <3>1, <3>2
  <2>3. ASSUME NEW n \in Known, Obj(n)'.want PROVE Obj(n).want
    BY <2>3, <1>1, <1>5, <1>6, KnownObject DEF IInv, Obj
  <2> QED
    BY <2>1, <2>2, <2>3 DEF IInv, WantedIsServed
<1>12. OnlyMade' /\ DownIsEmpty' /\ StopAllOnlyStopping'
  BY <1>1, <1>4 DEF IInv, OnlyMade, DownIsEmpty, StopAllOnlyStopping
<1> QED
  BY <1>8, <1>9, <1>10, <1>11, <1>12 DEF IInv

(***************************************************************************)
(* The restart timer: it launches only an object without a process, and    *)
(* when it leaves the object alone nobody counted on it.                   *)
(***************************************************************************)
LEMMA FireIInv ==
    ASSUME IInv, TypeOK', NEW p \in timers, Fire(p) PROVE IInv'
<1> DEFINE o == <<p[1], p[2]>>
           new == <<p[1], p[2], obj[o].gen + 1>>
<1>1. /\ timers' = timers \ {p}
      /\ UNCHANGED <<phase, services, made, gone, th>>
  BY DEF Fire
<1>2. /\ o \in Object /\ obj[o] \in Service /\ p = <<p[1], p[2], p[3]>>
      /\ obj[o].gen \in Nat
  BY ProcessParts DEF IInv, Service
<1>3. phase # "down" /\ p[2] <= made[p[1]]
  BY DEF IInv, DownIsEmpty, OnlyMade
<1>4. CASE ~StillDue(p) /\ UNCHANGED <<obj, live>>
  <2>1. WantedIsServed'
    <3>1. ASSUME NEW n \in Known, Obj(n).want, Obj(n).pid = 0, Obj(n).error # "exec",
                 ~Obj(n).noPipe
          PROVE  <<n, services[n], Obj(n).gen>> \in timers \ {p}
      <4>1. <<n, services[n], Obj(n).gen>> \in timers
        BY <3>1 DEF IInv, WantedIsServed
      <4>2. <<n, services[n], Obj(n).gen>> # p
        BY <3>1, <1>4 DEF StillDue, IsLastLaunch, Obj
      <4> QED
        BY <4>1, <4>2
    <3> QED
      BY <1>1, <1>4, <3>1 DEF WantedIsServed, Known, Obj
  <2>2. PidIsLast' /\ OneProcess' /\ StatusHonest' /\ UnwantedIsBeingStopped'
    BY <1>1, <1>4
       DEF IInv, PidIsLast, OneProcess, StatusHonest, UnwantedIsBeingStopped, Target
  <2>3. OnlyMade' /\ DownIsEmpty' /\ StopAllOnlyStopping'
    BY <1>1, <1>3, <1>4 DEF IInv, OnlyMade, DownIsEmpty, StopAllOnlyStopping
  <2> QED
    BY <2>1, <2>2, <2>3 DEF IInv
<1>5. ASSUME StillDue(p),
             \/ obj' = [obj EXCEPT ![o] = Launched(@, "ok")] /\ live' = live \cup {new}
             \/ /\ \E how \in {"exec", "pipe"} : obj' = [obj EXCEPT ![o] = Launched(@, how)]
                /\ live' = live
      PROVE  IInv'
  <2>1. obj[o].pid = 0 /\ obj[o].want
    BY <1>5 DEF StillDue
  <2>2. \A x \in Object : x # o => obj'[x] = obj[x]
    BY <1>5 DEF IInv, TypeOK
  <2>3. \A q \in live \cup gone : <<q[1], q[2]>> # o
    BY <2>1, ProcessParts DEF IInv, OneProcess
  <2>4. /\ obj'[o].want
        /\ \/ /\ live' = live \cup {new} /\ obj'[o].status = "running"
              /\ obj'[o].pid = obj[o].gen + 1 /\ obj'[o].gen = obj[o].gen + 1
           \/ live' = live /\ FailedTo(obj[o], obj'[o])
    <3>1. \/ obj'[o] = Launched(obj[o], "ok") /\ live' = live \cup {new}
          \/ /\ \E how \in {"exec", "pipe"} : obj'[o] = Launched(obj[o], how)
             /\ live' = live
      BY <1>2, <1>5 DEF IInv, TypeOK
    <3> DEFINE s == obj[o]
    <3>2. s \in Service /\ s.pid = 0 /\ s.want
      BY <1>2, <2>1
    <3> HIDE DEF o, new, s
    <3>3. /\ Launched(s, "ok").want /\ Launched(s, "ok").status = "running"
          /\ Launched(s, "ok").pid = s.gen + 1 /\ Launched(s, "ok").gen = s.gen + 1
          /\ \A how \in {"exec", "pipe"} : FailedTo(s, Launched(s, how))
      BY <3>2, LaunchedFields
    <3>4. \A how \in {"exec", "pipe"} : Launched(s, how).want
      BY <3>3 DEF FailedTo
    <3> QED
      BY <3>1, <3>3, <3>4 DEF s
  <2>5. PidIsLast' /\ StatusHonest'
    BY <1>2, <2>1, <2>2, <2>4 DEF IInv, PidIsLast, StatusHonest, FailedTo
  <2>6. OneProcess'
    <3>1. \A q \in live \cup gone : obj'[<<q[1], q[2]>>] = obj[<<q[1], q[2]>>]
      BY <2>2, <2>3, ProcessParts DEF IInv
    <3>2. new \notin live \cup gone
      BY <2>3
    <3>3. ASSUME NEW q \in live' \cup gone' PROVE obj'[<<q[1], q[2]>>].pid = q[3]
      <4>1. CASE q \in live \cup gone
        BY <3>1, <4>1 DEF IInv, OneProcess
      <4>2. CASE q \notin live \cup gone
        <5>1. q = new /\ obj'[o].pid = obj[o].gen + 1
          BY <1>1, <2>4, <4>2
        <5> QED
          BY <5>1
      <4> QED
        BY <4>1, <4>2
    <3>4. \A x \in Object : obj'[x].pid # 0 => <<x[1], x[2], obj'[x].pid>> \in live' \cup gone'
      BY <1>1, <2>2, <2>4 DEF IInv, OneProcess, FailedTo
    <3>5. live' \cap gone' = {}
      BY <1>1, <2>4, <3>2 DEF IInv, OneProcess
    <3> QED
      BY <3>3, <3>4, <3>5 DEF OneProcess
  <2>7. UnwantedIsBeingStopped'
    BY <1>1, <2>2, <2>4 DEF IInv, UnwantedIsBeingStopped, Target
  <2>8. WantedIsServed'
    <3>1. ASSUME NEW n \in Known, <<n, services[n]>> # o
          PROVE  Obj(n)' = Obj(n) /\ (<<n, services[n], Obj(n).gen>> # p)
      BY <1>1, <2>2, <3>1, KnownObject DEF IInv, Obj
    <3>2. ASSUME NEW n \in Known, <<n, services[n]>> = o
          PROVE  Obj(n)'.pid # 0 \/ Obj(n)'.error = "exec" \/ Obj(n)'.noPipe
      BY <1>1, <1>2, <2>4, <3>2 DEF Obj, FailedTo
    <3>3. Known' = Known
      BY <1>1 DEF Known
    <3> QED
      BY <1>1, <3>1, <3>2, <3>3 DEF IInv, WantedIsServed
  <2>9. OnlyMade' /\ DownIsEmpty' /\ StopAllOnlyStopping'
    BY <1>1, <1>3, <2>4 DEF IInv, OnlyMade, DownIsEmpty, StopAllOnlyStopping
  <2> QED
    BY <2>5, <2>6, <2>7, <2>8, <2>9 DEF IInv
<1> QED
  BY <1>4, <1>5 DEF Fire

(***************************************************************************)
(* StopAll's goroutines take threads that were idle, so none that waits.   *)
(***************************************************************************)
LEMMA ShutdownIInv ==
    ASSUME IInv, TypeOK', Shutdown PROVE IInv'
<1>1. /\ phase = "up" /\ phase' = "stopping"
      /\ UNCHANGED <<services, made, obj, live, gone, timers>>
  BY DEF Shutdown
<1>2. \A t \in Thread : th[t].pc = "stopping" => th'[t] = th[t]
  <2>1. \A n \in Name : th[n].pc = "idle"
    BY <1>1 DEF IInv, StopAllOnlyStopping
  <2>2. \A t \in Thread : t \notin Known => th'[t] = th[t]
    BY DEF Shutdown
  <2> QED
    BY <2>1, <2>2 DEF Known
<1>3. UnwantedIsBeingStopped'
  BY <1>1, <1>2 DEF IInv, UnwantedIsBeingStopped, Target
<1>4. PidIsLast' /\ OneProcess' /\ StatusHonest'
  BY <1>1 DEF IInv, PidIsLast, OneProcess, StatusHonest
<1>5. WantedIsServed'
  BY <1>1 DEF IInv, WantedIsServed, Known, Obj
<1>6. OnlyMade' /\ DownIsEmpty' /\ StopAllOnlyStopping'
  BY <1>1 DEF IInv, OnlyMade, DownIsEmpty, StopAllOnlyStopping
<1> QED
  BY <1>3, <1>4, <1>5, <1>6 DEF IInv

(***************************************************************************)
(* NewSupervisor begins with nothing that runs, and launches each object   *)
(* once.                                                                   *)
(***************************************************************************)
LEMMA BootIInv ==
    ASSUME IInv, TypeOK', Boot PROVE IInv'
<1> DEFINE loaded(o) == o[1] \in OnDisk /\ o[2] = 1
           new(o) == NewService(disk[o[1]])
<1>1. /\ phase = "down" /\ phase' = "up" /\ UNCHANGED <<gone, timers, th>>
      /\ services' = [n \in Name |-> IF n \in OnDisk THEN 1 ELSE 0] /\ made' = services'
  BY DEF Boot
<1>2. gone' = {} /\ timers' = {} /\ \A t \in Thread : th'[t].pc = "idle"
  BY <1>1 DEF IInv, DownIsEmpty
<1>0. PICK broken \in SUBSET (OnDisk \cap Fragile) :
         \E unpiped \in SUBSET broken : BootMakes(broken, unpiped)
  BY BootChoice
<1>a. PICK unpiped \in SUBSET broken : BootMakes(broken, unpiped)
  BY <1>0
<1>3. /\ obj' = [o \in Object |->
                   IF loaded(o)
                   THEN IF o[1] \in BootReached(broken)
                        THEN Started(new(o), Outcome(o[1], broken, unpiped))
                        ELSE new(o)
                   ELSE NewService(NoDef)]
      /\ live' = {<<n, 1, 1>> : n \in (BootReached(broken) \cap OnDisk) \ broken}
  BY <1>a DEF BootMakes
<1> DEFINE started(o) == loaded(o) /\ o[1] \in BootReached(broken)
<1>4. \A o \in Object : loaded(o) =>
         /\ new(o) \in Service /\ new(o).pid = 0 /\ new(o).gen = 0
         /\ ~new(o).want /\ new(o).status = "stopped"
  BY NewServiceType DEF IInv, TypeOK, OnDisk, NewService
<1> HIDE DEF new
<1>5. \A o \in Object : ~started(o) =>
         /\ obj'[o].pid = 0 /\ ~obj'[o].want /\ obj'[o].status = "stopped"
  BY <1>3, <1>4 DEF NewService
<1>6. \A o \in Object : started(o) /\ o[1] \in broken => FailedTo(new(o), obj'[o])
  <2> SUFFICES ASSUME NEW o \in Object, started(o), o[1] \in broken
               PROVE  FailedTo(new(o), obj'[o])
    OBVIOUS
  <2>1. PICK how \in {"exec", "pipe"} : obj'[o] = Started(new(o), how)
    BY <1>3, OutcomeCases
  <2> QED
    BY <2>1, <1>4, StartedFields
<1>7. \A o \in Object : started(o) /\ o[1] \notin broken =>
         /\ obj'[o].pid = 1 /\ obj'[o].gen = 1 /\ obj'[o].want
         /\ obj'[o].status = "running"
  <2> SUFFICES ASSUME NEW o \in Object, started(o), o[1] \notin broken
               PROVE  /\ obj'[o].pid = 1 /\ obj'[o].gen = 1 /\ obj'[o].want
                      /\ obj'[o].status = "running"
    OBVIOUS
  <2>1. obj'[o] = Started(new(o), "ok")
    BY <1>3, OutcomeCases
  <2>2. new(o) \in Service /\ new(o).pid = 0 /\ new(o).gen + 1 = 1
    BY <1>4
  <2> QED
    BY <2>1, <2>2, StartedFields
<1>8. \A n \in OnDisk : <<n, 1>> \in Object
  BY IncarnationAssumption DEF Object, OnDisk
<1>9. PidIsLast' /\ StatusHonest'
  BY <1>4, <1>5, <1>6, <1>7 DEF PidIsLast, StatusHonest, FailedTo
<1>10. OneProcess'
  <2>1. live' \cap gone' = {}
    BY <1>2
  <2>2. ASSUME NEW p \in live' \cup gone' PROVE obj'[<<p[1], p[2]>>].pid = p[3]
    BY <1>2, <1>3, <1>7, <1>8
  <2>3. ASSUME NEW o \in Object, obj'[o].pid # 0
        PROVE  <<o[1], o[2], obj'[o].pid>> \in live' \cup gone'
    <3>1. started(o) /\ o[1] \notin broken /\ obj'[o].pid = 1
      BY <2>3, <1>5, <1>6, <1>7 DEF FailedTo
    <3> QED
      BY <3>1, <1>3
  <2> QED
    BY <2>1, <2>2, <2>3 DEF OneProcess
<1>11. UnwantedIsBeingStopped'
  BY <1>5, <1>6, <1>7 DEF UnwantedIsBeingStopped, FailedTo
<1>12. WantedIsServed'
  <2>1. ASSUME NEW n \in Known' PROVE n \in OnDisk /\ services'[n] = 1
    BY <1>1 DEF Known
  <2> QED
    BY <2>1, <1>5, <1>6, <1>7, <1>8 DEF WantedIsServed, Obj, FailedTo
<1>13. OnlyMade' /\ DownIsEmpty' /\ StopAllOnlyStopping'
  <2>1. \A n \in Name : services'[n] <= made'[n]
    BY <1>1
  <2>2. \A p \in live' : p[2] <= made'[p[1]]
    BY <1>1, <1>3 DEF OnDisk
  <2> QED
    BY <1>1, <1>2, <2>1, <2>2 DEF OnlyMade, DownIsEmpty, StopAllOnlyStopping, Thread
<1> QED
  BY <1>9, <1>10, <1>11, <1>12, <1>13 DEF IInv

-----------------------------------------------------------------------------
(***************************************************************************)
(* The invariant is inductive.                                             *)
(***************************************************************************)
LEMMA IInvNext == IInv /\ [Next]_vars => IInv'
<1> SUFFICES ASSUME IInv, [Next]_vars PROVE IInv'
  OBVIOUS
<1>1. TypeOK'
  BY TypeNext DEF IInv
<1>2. ASSUME NEW c \in Client, Request(c) PROVE IInv'
  <2>1. /\ UNCHANGED <<services, made, obj, live, gone, timers, phase>>
        /\ th[c].pc = "idle" /\ phase = "up"
        /\ \A t \in Thread : t # c => th'[t] = th[t]
    BY <1>2 DEF Request, IInv, TypeOK
  <2>2. c \notin Name
    BY ActorAssumption
  <2> QED
    BY <1>1, <2>1, <2>2, SameServices DEF Thread
<1>3. ASSUME NEW t \in Thread, ThreadStep(t) PROVE IInv'
  <2> DEFINE others == \A u \in Thread : u # t => th'[u] = th[u]
  <2>1. CASE DefineCheck(t)
    <3>1. /\ UNCHANGED <<services, made, obj, live, gone, timers, phase>>
          /\ th[t].pc = "define" /\ others
      BY <2>1 DEF DefineCheck, Return, IInv, TypeOK, budget
    <3> QED
      BY <1>1, <3>1, SameServices DEF IInv, DownIsEmpty, Thread
  <2>2. CASE DefineInsert(t)
    BY <1>1, <2>2, InsertIInv
  <2>3. CASE DefineInstall(t)
    BY <1>1, <2>3, InstallIInv
  <2>4. CASE Start(t)
    BY <1>1, <2>4, StartIInv
  <2>5. CASE StopBegin(t)
    BY <1>1, <2>5, StopBeginIInv
  <2>6. CASE StopReturn(t)
    BY <1>1, <2>6, StopReturnIInv
  <2>7. CASE DeleteCheck(t)
    <3>1. /\ UNCHANGED <<services, made, obj, live, gone, timers, phase>>
          /\ th[t].pc = "delete" /\ others
      BY <2>7 DEF DeleteCheck, Return, Goto, IInv, TypeOK, budget
    <3> QED
      BY <1>1, <3>1, SameServices DEF IInv, DownIsEmpty, Thread
  <2>8. CASE DeleteRemove(t)
    BY <1>1, <2>8, RemoveIInv
  <2>9. CASE Signal(t)
    <3>1. /\ UNCHANGED <<services, made, obj, timers, phase>>
          /\ th[t].pc = "signal" /\ others /\ th'[t].pc = "idle"
      BY <2>9 DEF Signal, Return, IInv, TypeOK, budget, Idle, Thd
    <3>2. CASE UNCHANGED <<live, gone>>
      BY <1>1, <3>1, <3>2, SameServices DEF IInv, DownIsEmpty, Thread
    <3>3. CASE /\ Current(th[t].name) \in live
               /\ live' = live \ {Current(th[t].name)}
               /\ gone' = gone \cup {Current(th[t].name)}
      <4> DEFINE p == Current(th[t].name)
      <4>1. p \in live /\ live' = live \ {p} /\ gone' = gone \cup {p}
        BY <3>3
      <4>2. /\ \A u \in Thread : th[u].pc = "stopping" => th'[u] = th[u]
            /\ \A m \in Name : th[m].pc = "idle" => th'[m].pc = "idle"
        BY <3>1 DEF Thread
      <4>3. UNCHANGED <<phase, services, made, obj, timers>>
        BY <3>1
      <4> HIDE DEF p
      <4> QED
        BY <1>1, <4>1, <4>2, <4>3, DiesIInv
    <3> QED
      BY <2>9, <3>2, <3>3 DEF Signal
  <2> QED
    BY <1>3, <2>1, <2>2, <2>3, <2>4, <2>5, <2>6, <2>7, <2>8, <2>9 DEF ThreadStep
<1>4. ASSUME NEW t \in Thread, StopKill(t) PROVE IInv'
  <2> DEFINE p == Target(t)
  <2>1. /\ p \in live /\ live' = live \ {p} /\ gone' = gone \cup {p}
        /\ UNCHANGED <<phase, services, made, obj, timers, th>>
    BY <1>4 DEF StopKill
  <2> HIDE DEF p
  <2> QED
    BY <1>1, <2>1, DiesIInv
<1>5. ASSUME NEW p \in live, Exit(p) PROVE IInv'
  BY <1>1, <1>5, DiesIInv DEF Exit
<1>6. ASSUME NEW p \in gone, Watch(p) PROVE IInv'
  BY <1>1, <1>6, WatchIInv
<1>7. ASSUME NEW p \in timers, Fire(p) PROVE IInv'
  BY <1>1, <1>7, FireIInv
<1>8. CASE AgentDies \/ RunReturns \/ \E t \in Thread : AgentDiesWriting(t)
  <2>1. GoDown
    BY <1>8 DEF AgentDies, RunReturns, AgentDiesWriting
  <2> QED
    BY <1>1, <2>1, GoDownIInv
<1>9. CASE Shutdown
  BY <1>1, <1>9, ShutdownIInv
<1>10. CASE Boot
  BY <1>1, <1>10, BootIInv
<1>11. CASE UNCHANGED vars
  <2>1. UNCHANGED <<phase, services, made, obj, live, gone, timers, th>>
    BY <1>11 DEF vars
  <2>2. OneProcess' /\ UnwantedIsBeingStopped' /\ StatusHonest' /\ PidIsLast'
    BY <2>1 DEF IInv, OneProcess, UnwantedIsBeingStopped, StatusHonest, PidIsLast, Target
  <2>3. WantedIsServed' /\ OnlyMade' /\ DownIsEmpty' /\ StopAllOnlyStopping'
    BY <2>1 DEF IInv, WantedIsServed, Known, Obj, OnlyMade, DownIsEmpty,
                StopAllOnlyStopping
  <2> QED
    BY <1>1, <2>2, <2>3 DEF IInv
<1> QED
  BY <1>2, <1>3, <1>4, <1>5, <1>6, <1>7, <1>8, <1>9, <1>10, <1>11 DEF Next

(***************************************************************************)
(* The inductive invariant holds in every reachable state.                 *)
(***************************************************************************)
THEOREM InductiveInvariant == Spec => []IInv
  BY InitIInv, IInvNext, PTL DEF Spec

(***************************************************************************)
(* Every variable keeps its type, whatever names, clients, definitions and *)
(* bounds: services.go never stores a half-built service or thread state.  *)
(***************************************************************************)
THEOREM TypeCorrect == Spec => []TypeOK
<1>1. IInv => TypeOK
  BY DEF IInv
<1> QED
  BY <1>1, InductiveInvariant, PTL

(***************************************************************************)
(* cmd is always the one process of an object that has not been waited     *)
(* for: the guards of startLocked, launchLocked's timer and the waiting    *)
(* goroutine's gen test keep an object from running twice.                 *)
(***************************************************************************)
THEOREM NeverTwoProcesses == Spec => []OneProcess
<1>1. IInv => OneProcess
  BY DEF IInv
<1> QED
  BY <1>1, InductiveInvariant, PTL

(***************************************************************************)
(* A process that Stop was asked to end has a Stop waiting for it: Stop's  *)
(* unlock between its parts does not let one escape.                       *)
(***************************************************************************)
THEOREM UnwantedProcessHasAStop == Spec => []UnwantedIsBeingStopped
<1>1. IInv => UnwantedIsBeingStopped
  BY DEF IInv
<1> QED
  BY <1>1, InductiveInvariant, PTL

(***************************************************************************)
(* A crash is never forgotten: a wanted service runs, could not be         *)
(* executed, or has the restart timer of its last launch.                  *)
(***************************************************************************)
THEOREM CrashHasATimer == Spec => []WantedIsServed
<1>1. IInv => WantedIsServed
  BY DEF IInv
<1> QED
  BY <1>1, InductiveInvariant, PTL

(***************************************************************************)
(* The status that GET reports is the truth about the process, although    *)
(* state, cmd and wantRunning are set at different places.                 *)
(***************************************************************************)
THEOREM StatusIsHonest == Spec => []StatusHonest
<1>1. IInv => StatusHonest
  BY DEF IInv
<1> QED
  BY <1>1, InductiveInvariant, PTL

-----------------------------------------------------------------------------
(***************************************************************************)
(* A launch other than the restart timer's, which asks for a service that  *)
(* is wanted, is one of startLocked or boot.                               *)
(***************************************************************************)
LEMMA OnlyStartLaunches ==
    ASSUME TypeOK, [Next]_vars, phase # "down",
           NEW o \in Object, ~obj[o].want \/ timers' = timers, obj[o].pid = 0, obj'[o].pid # 0
    PROVE  \E t \in Thread : Start(t)
<1> SUFFICES ASSUME \A t \in Thread : ~Start(t) PROVE FALSE
  OBVIOUS
<1> obj[o] \in Service
  BY DEF TypeOK
<1>1. CASE UNCHANGED obj
  BY <1>1
<1>2. CASE GoDown
  BY <1>2 DEF GoDown, NewService
<1>3. ASSUME NEW t \in Thread, DefineInsert(t) PROVE FALSE
  BY <1>3 DEF DefineInsert, NewService, TypeOK
<1>4. ASSUME NEW t \in Thread, DefineInstall(t) PROVE FALSE
  BY <1>4 DEF DefineInstall, Service, TypeOK
<1>5. ASSUME NEW t \in Thread, StopBegin(t) PROVE FALSE
  <2> DEFINE x == <<th[t].name, services[th[t].name]>>
  <2>1. CASE obj[x].pid = 0
    <3>1. o = x => obj'[o] = Ended([obj[o] EXCEPT !.want = FALSE]) \/ obj' = obj
      BY <1>5, <2>1 DEF StopBegin, TypeOK
    <3>2. o # x => obj'[o] = obj[o]
      BY <1>5 DEF StopBegin, TypeOK
    <3> HIDE DEF x
    <3> QED
      BY <3>1, <3>2 DEF Ended, Service
  <2>2. CASE obj[x].pid # 0
    <3>1. o # x
      BY <2>2
    <3> QED
      BY <1>5, <3>1 DEF StopBegin, TypeOK
  <2> QED
    BY <2>1, <2>2
<1>6. ASSUME NEW p \in gone, Watch(p) PROVE FALSE
  <2> DEFINE x == <<p[1], p[2]>>
  <2>1. obj'[o] \in {obj[o], Ended(obj[o]), CrashedNow(obj[o])}
    <3>1. CASE o = x
      BY <1>6, <3>1 DEF Watch, TypeOK
    <3>2. CASE o # x
      BY <1>6, <3>2 DEF Watch, TypeOK
    <3> QED
      BY <3>1, <3>2
  <2> QED
    BY <2>1 DEF Ended, CrashedNow, Service
<1>7. ASSUME NEW p \in timers, Fire(p) PROVE FALSE
  BY <1>7 DEF Fire, StillDue, TypeOK
<1> QED
  BY <1>1, <1>2, <1>3, <1>4, <1>5, <1>6, <1>7
     DEF Next, vars, ThreadStep, Request, DefineCheck, StopReturn, DeleteCheck,
         DeleteRemove, Signal, StopKill, Exit, AgentDies, AgentDiesWriting, RunReturns,
         Shutdown, Boot

(***************************************************************************)
(* A stopped service comes back only by a Start or at boot: the test of    *)
(* wantRunning in launchLocked's timer is what makes a Stop final.         *)
(***************************************************************************)
THEOREM StopIsFinal == Spec => NoUnaskedLaunch
<1> DEFINE step ==
      \A o \in Object :
          ~obj[o].want /\ obj[o].pid = 0 /\ obj'[o].pid # 0 =>
              \/ phase = "down"
              \/ \E t \in Thread : th[t].pc = "start" /\ th'[t].pc = "idle"
<1>1. TypeOK /\ [Next]_vars => step
  <2> SUFFICES ASSUME TypeOK, [Next]_vars, phase # "down", NEW o \in Object,
                      ~obj[o].want, obj[o].pid = 0, obj'[o].pid # 0
               PROVE  \E t \in Thread : th[t].pc = "start" /\ th'[t].pc = "idle"
    OBVIOUS
  <2>1. PICK t \in Thread : Start(t)
    BY OnlyStartLaunches
  <2>2. th[t].pc = "start" /\ th'[t].pc = "idle"
    BY <2>1 DEF Start, Return, TypeOK, Idle, Thd
  <2> QED
    BY <2>2
<1> QED
  BY <1>1, TypeCorrect, PTL DEF Spec, NoUnaskedLaunch

-----------------------------------------------------------------------------
\* Among sets of the elements of a finite set, one has none of the others inside it.
LEMMA SmallestSet ==
    ASSUME NEW S, IsFiniteSet(S), NEW T, T \subseteq SUBSET S, T # {}
    PROVE  \E x \in T : \A y \in T : ~(y \subseteq x /\ y # x)
<1>1. \A y \in T : IsFiniteSet(y)
  BY FS_Subset
<1>2. T \subseteq FiniteSubsetsOf(S)
  BY <1>1 DEF FiniteSubsetsOf
<1>3. IsWellFoundedOn(StrictSubsetOrdering(S), FiniteSubsetsOf(S))
  BY FS_StrictSubsetOrderingWellFounded
<1>4. \E x \in T : \A y \in T : ~ (<<y, x>> \in StrictSubsetOrdering(S))
  BY <1>2, <1>3, WFMin
<1> QED
  BY <1>4 DEF StrictSubsetOrdering

-----------------------------------------------------------------------------
(***************************************************************************)
(* hasCycle.  One step of the walk at <<n, seen>>, given what v says of    *)
(* the places it goes on to; and the walk, which is such a v.              *)
(***************************************************************************)
CycleStep(known, needs, v, at) ==
    \/ at[1] \in at[2]
    \/ \E m \in Range(needs[at[1]]) \cap known : v[<<m, at[2] \cup {at[1]}>>]

CycleVisit(known, needs) ==
    CHOOSE v : v = [at \in known \X SUBSET known |-> CycleStep(known, needs, v, at)]

\* hasCycle of a name is the walk from it with an empty path.
LEMMA HasCycleVisits ==
    ASSUME NEW known, NEW needs, NEW name \in known
    PROVE  HasCycle(known, needs, name) <=> CycleVisit(known, needs)[<<name, {}>>]
BY DEF HasCycle, CycleVisit, CycleStep

\* The walk is defined: a place is true when it is in a set of places each
\* of which is on its own path or goes on to one of the set.
LEMMA CycleVisitStep ==
    ASSUME NEW known, NEW needs, NEW n \in known, NEW seen \in SUBSET known
    PROVE  CycleVisit(known, needs)[<<n, seen>>] <=>
             (\/ n \in seen
              \/ \E m \in Range(needs[n]) \cap known :
                    CycleVisit(known, needs)[<<m, seen \cup {n}>>])
<1> DEFINE Place == known \X SUBSET known
           On(at, P) == \/ at[1] \in at[2]
                        \/ \E m \in Range(needs[at[1]]) \cap known : <<m, at[2] \cup {at[1]}>> \in P
           True(at) == \E P \in SUBSET Place : at \in P /\ \A x \in P : On(x, P)
           V == [at \in Place |-> True(at)]
<1>1. ASSUME NEW x \in known, NEW path \in SUBSET known, NEW m \in known
      PROVE  <<m, path \cup {x}>> \in Place
  OBVIOUS
<1>2. ASSUME NEW at \in Place PROVE V[at] = CycleStep(known, needs, V, at)
  <2>0. at = <<at[1], at[2]>> /\ at[1] \in known /\ at[2] \in SUBSET known
    OBVIOUS
  <2>1. ASSUME True(at) PROVE CycleStep(known, needs, V, at)
    <3>1. PICK P \in SUBSET Place : at \in P /\ \A x \in P : On(x, P)
      BY <2>1
    <3>2. CASE at[1] \in at[2]
      BY <3>2 DEF CycleStep
    <3>3. CASE at[1] \notin at[2]
      <4>1. PICK m \in Range(needs[at[1]]) \cap known : <<m, at[2] \cup {at[1]}>> \in P
        BY <3>1, <3>3
      <4>2. True(<<m, at[2] \cup {at[1]}>>)
        BY <3>1, <4>1
      <4>3. V[<<m, at[2] \cup {at[1]}>>]
        BY <1>1, <2>0, <4>1, <4>2
      <4> HIDE DEF V
      <4> QED
        BY <4>1, <4>3 DEF CycleStep
    <3> QED
      BY <3>2, <3>3
  <2>2. ASSUME CycleStep(known, needs, V, at) PROVE True(at)
    <3>1. CASE at[1] \in at[2]
      <4> {at} \in SUBSET Place /\ at \in {at} /\ \A x \in {at} : On(x, {at})
        BY <3>1
      <4> QED
        OBVIOUS
    <3>2. CASE at[1] \notin at[2]
      <4>1. PICK m \in Range(needs[at[1]]) \cap known : V[<<m, at[2] \cup {at[1]}>>]
        <5> HIDE DEF V
        <5> QED
          BY <2>2, <3>2 DEF CycleStep
      <4>2. True(<<m, at[2] \cup {at[1]}>>)
        BY <1>1, <2>0, <4>1
      <4>3. PICK P \in SUBSET Place : <<m, at[2] \cup {at[1]}>> \in P /\ \A x \in P : On(x, P)
        BY <4>2
      <4> DEFINE Q == P \cup {at}
      <4>4. Q \in SUBSET Place /\ at \in Q /\ \A x \in Q : On(x, Q)
        BY <4>1, <4>3
      <4> QED
        BY <4>4
    <3> QED
      BY <3>1, <3>2
  <2>3. V[at] = True(at)
    OBVIOUS
  <2>4. CycleStep(known, needs, V, at) \in BOOLEAN /\ True(at) \in BOOLEAN
    BY DEF CycleStep
  <2> HIDE DEF V, True
  <2> QED
    BY <2>1, <2>2, <2>3, <2>4
<1>3. V = [at \in Place |-> CycleStep(known, needs, V, at)]
  <2> HIDE DEF True
  <2>1. V = [at \in Place |-> V[at]]
    OBVIOUS
  <2> HIDE DEF V
  <2> QED
    BY <1>2, <2>1
<1> HIDE DEF V
<1> DEFINE v == CycleVisit(known, needs)
<1>4. v = [at \in Place |-> CycleStep(known, needs, v, at)]
  BY <1>3 DEF CycleVisit
<1> HIDE DEF v
<1>5. v[<<n, seen>>] = CycleStep(known, needs, v, <<n, seen>>)
  BY <1>4
<1>6. v[<<n, seen>>] <=>
        (n \in seen \/ \E m \in Range(needs[n]) \cap known : v[<<m, seen \cup {n}>>])
  BY <1>5 DEF CycleStep
<1> QED
  BY <1>6 DEF v

(***************************************************************************)
(* Names each of which needs one of them are caught, from any of them.     *)
(***************************************************************************)
LEMMA CycleCaught ==
    ASSUME NEW known, IsFiniteSet(known), NEW needs, NEW some \in SUBSET known,
           \A n \in some : Range(needs[n]) \cap some # {},
           NEW name \in some
    PROVE  HasCycle(known, needs, name)
<1> DEFINE v == CycleVisit(known, needs)
           Missed(seen) == \E n \in some : ~v[<<n, seen>>]
           Left == {rest \in SUBSET known : Missed(known \ rest)}
<1>2. ASSUME NEW n \in known, NEW seen \in SUBSET known
      PROVE  v[<<n, seen>>] <=> (\/ n \in seen
                                 \/ \E m \in Range(needs[n]) \cap known : v[<<m, seen \cup {n}>>])
  BY CycleVisitStep DEF v
<1> HIDE DEF v
<1>3. Left = {}
  <2> SUFFICES ASSUME Left # {} PROVE FALSE
    OBVIOUS
  <2>1. PICK x \in Left : \A y \in Left : ~(y \subseteq x /\ y # x)
    <3>1. Left \subseteq SUBSET known
      OBVIOUS
    <3> HIDE DEF Left
    <3> QED
      BY <3>1, SmallestSet
  <2> DEFINE seen == known \ x
  <2>2. PICK n \in some : ~v[<<n, seen>>]
    BY <2>1
  <2>3. n \notin seen /\ \A m \in Range(needs[n]) \cap known : ~v[<<m, seen \cup {n}>>]
    <3>1. n \in known /\ seen \in SUBSET known
      OBVIOUS
    <3> HIDE DEF seen
    <3> QED
      BY <3>1, <1>2, <2>2
  <2>4. PICK m \in some : m \in Range(needs[n])
    OBVIOUS
  <2>5. Missed(seen \cup {n})
    BY <2>3, <2>4
  <2>6. seen \cup {n} = known \ (x \ {n}) /\ x \ {n} \in SUBSET known /\ n \in x
    BY <2>3
  <2>7. x \ {n} \in Left
    BY <2>5, <2>6
  <2> QED
    BY <2>1, <2>6, <2>7
<1>4. v[<<name, {}>>]
  <2>1. known \in SUBSET known /\ known \ known = {}
    OBVIOUS
  <2>2. ~Missed({})
    BY <1>3, <2>1
  <2> QED
    BY <2>2
<1> QED
  BY <1>4, HasCycleVisits DEF v

-----------------------------------------------------------------------------
(***************************************************************************)
(* A graph without a cycle stays one: when names go; when a name comes     *)
(* that none of the others needs; when Define finds no way from a name     *)
(* back to it.                                                             *)
(***************************************************************************)
LEMMA AcyclicFewer ==
    ASSUME NEW known, NEW needs, Acyclic(known, needs),
           NEW fewer \in SUBSET known, NEW less,
           \A n \in fewer : less[n] = needs[n]
    PROVE  Acyclic(fewer, less)
BY DEF Acyclic

\* A new definition that needs only names known before closes no cycle.
LEMMA AcyclicNew ==
    ASSUME NEW known, NEW needs, NEW name, NEW more,
           Acyclic(known, needs), \A n \in known : Range(needs[n]) \subseteq known,
           name \notin known, name \notin Range(more[name]),
           \A n \in known : more[n] = needs[n]
    PROVE  Acyclic(known \cup {name}, more)
<1> SUFFICES ASSUME NEW some \in SUBSET (known \cup {name}), some # {}
             PROVE  \E n \in some : Range(more[n]) \cap some = {}
  BY DEF Acyclic
<1>1. CASE some \ {name} = {}
  BY <1>1
<1>2. CASE some \ {name} # {}
  <2>1. PICK n \in some \ {name} : Range(needs[n]) \cap (some \ {name}) = {}
    BY <1>2 DEF Acyclic
  <2> QED
    BY <2>1
<1> QED
  BY <1>1, <1>2

\* A cycle that a redefinition closes goes through the redefined name.
LEMMA AcyclicRedefined ==
    ASSUME NEW known, IsFiniteSet(known), NEW needs, NEW name \in known, NEW new,
           Acyclic(known, needs), ~HasCycle(known, new, name),
           \A n \in known \ {name} : new[n] = needs[n]
    PROVE  Acyclic(known, new)
<1> SUFFICES ASSUME NEW some \in SUBSET known, some # {},
                    \A n \in some : Range(new[n]) \cap some # {}
             PROVE  FALSE
  BY DEF Acyclic
<1>1. name \notin some
  BY CycleCaught
<1> QED
  BY <1>1 DEF Acyclic

(***************************************************************************)
(* And what hasCycle finds is a cycle: each name on the path needs another *)
(* one on it or the one the walk is at, so when that is on the path they   *)
(* are a set in which each needs another.                                  *)
(***************************************************************************)
LEMMA CycleIsReal ==
    ASSUME NEW known, IsFiniteSet(known), NEW needs, Acyclic(known, needs), NEW name \in known
    PROVE  ~HasCycle(known, needs, name)
<1> DEFINE v == CycleVisit(known, needs)
           OnPath(n, seen) ==
             /\ n \in known /\ seen \in SUBSET known /\ v[<<n, seen>>]
             /\ \A x \in seen : Range(needs[x]) \cap (seen \cup {n}) # {}
           Left == {rest \in SUBSET known : \E n \in known : OnPath(n, known \ rest)}
<1>1. ASSUME NEW n \in known, NEW seen \in SUBSET known
      PROVE  v[<<n, seen>>] <=> (\/ n \in seen
                                 \/ \E m \in Range(needs[n]) \cap known : v[<<m, seen \cup {n}>>])
  BY CycleVisitStep DEF v
<1> HIDE DEF v
<1>2. Left = {}
  <2> SUFFICES ASSUME Left # {} PROVE FALSE
    OBVIOUS
  <2>1. PICK rest \in Left : \A y \in Left : ~(y \subseteq rest /\ y # rest)
    <3>1. Left \subseteq SUBSET known
      OBVIOUS
    <3> HIDE DEF Left
    <3> QED
      BY <3>1, SmallestSet
  <2>2. PICK n \in known : OnPath(n, known \ rest)
    OBVIOUS
  <2>3. PICK seen \in SUBSET known : seen = known \ rest
    OBVIOUS
  <2>4. n \notin seen
    <3> SUFFICES ASSUME n \in seen PROVE FALSE
      OBVIOUS
    <3>1. seen # {} /\ \A x \in seen : Range(needs[x]) \cap seen # {}
      BY <2>2, <2>3
    <3> QED
      BY <3>1 DEF Acyclic
  <2>5. PICK m \in Range(needs[n]) \cap known : v[<<m, seen \cup {n}>>]
    BY <1>1, <2>2, <2>3, <2>4
  <2>6. OnPath(m, seen \cup {n})
    BY <2>2, <2>3, <2>5
  <2>7. seen \cup {n} = known \ (rest \ {n}) /\ rest \ {n} \in SUBSET known /\ n \in rest
    BY <2>3, <2>4
  <2>8. rest \ {n} \in Left
    <3>1. OnPath(m, known \ (rest \ {n}))
      BY <2>6, <2>7
    <3> HIDE DEF OnPath
    <3> QED
      BY <2>5, <2>7, <3>1
  <2> QED
    BY <2>1, <2>7, <2>8
<1>3. ASSUME v[<<name, {}>>] PROVE FALSE
  <2>1. OnPath(name, known \ known)
    BY <1>3
  <2>2. known \in Left
    BY <2>1
  <2> QED
    BY <1>2, <2>2
<1> QED
  BY <1>3, HasCycleVisits DEF v

(***************************************************************************)
(* hasCycle, asked about the redefined name alone, finds a cycle exactly   *)
(* when the redefinition of a graph that had none closes one.              *)
(***************************************************************************)
THEOREM CyclesAreFound ==
    ASSUME NEW known, IsFiniteSet(known), NEW needs, NEW name \in known, NEW new,
           Acyclic(known, needs), \A n \in known \ {name} : new[n] = needs[n]
    PROVE  HasCycle(known, new, name) <=> ~Acyclic(known, new)
BY AcyclicRedefined, CycleIsReal

-----------------------------------------------------------------------------
(***************************************************************************)
(* startLocked.  One step of the walk at <<n, i, seen>>, given what v says *)
(* of the places it goes on to; and the walk, which is such a v.           *)
(***************************************************************************)
WalkPlace(known) == known \X (Nat \ {0}) \X SUBSET known

WalkRefused(seen) == [ok |-> FALSE, seen |-> seen, reached |-> {}]

WalkNeed(known, needs, v, at) ==
    LET seen == at[3] \cup {at[1]}
        m == needs[at[1]][at[2]]
    IN  IF m \in known \ seen THEN v[<<m, 1, seen>>] ELSE WalkRefused(seen)

WalkStep(known, needs, broken, v, at) ==
    LET need == WalkNeed(known, needs, v, at)
    IN  IF at[2] > Len(needs[at[1]])
        THEN [ok |-> at[1] \notin broken, seen |-> at[3] \cup {at[1]}, reached |-> {at[1]}]
        ELSE IF need.ok
        THEN [v[<<at[1], at[2] + 1, need.seen>>] EXCEPT !.reached = @ \cup need.reached]
        ELSE need

WalkVisit(known, needs, broken) ==
    CHOOSE v : v = [at \in WalkPlace(known) |-> WalkStep(known, needs, broken, v, at)]

\* startLocked of a name is the walk from its first need, with nothing visited.
LEMMA StartWalkVisits ==
    ASSUME NEW known, NEW needs, NEW broken, NEW name \in known
    PROVE  StartWalk(known, needs, broken, name) = WalkVisit(known, needs, broken)[<<name, 1, {}>>]
BY Zenon DEF StartWalk, WalkVisit, WalkStep, WalkNeed, WalkRefused, WalkPlace

(***************************************************************************)
(* The needs not looked at yet: the rest of n's own, and those of every    *)
(* name not visited.  Each call leaves fewer.                              *)
(***************************************************************************)
WalkEdges(known, needs) == UNION {{m} \X DOMAIN needs[m] : m \in known}

WalkLeft(known, needs, at) ==
    {e \in WalkEdges(known, needs) : IF e[1] = at[1] THEN e[2] >= at[2] ELSE e[1] \notin at[3]}

WalkBefore(known, needs, x, at) ==
    /\ WalkLeft(known, needs, x) \subseteq WalkLeft(known, needs, at)
    /\ WalkLeft(known, needs, x) # WalkLeft(known, needs, at)

\* Finitely many names have finitely many needs.
LEMMA WalkEdgesFinite ==
    ASSUME NEW known, IsFiniteSet(known), NEW needs, NEW S, \A n \in known : needs[n] \in Seq(S)
    PROVE  IsFiniteSet(WalkEdges(known, needs))
<1>1. \A m \in known : IsFiniteSet({m} \X DOMAIN needs[m])
  <2> SUFFICES ASSUME NEW m \in known PROVE IsFiniteSet({m} \X DOMAIN needs[m])
    OBVIOUS
  <2>1. DOMAIN needs[m] = 1 .. Len(needs[m]) /\ Len(needs[m]) \in Nat
    OBVIOUS
  <2>2. IsFiniteSet(1 .. Len(needs[m]))
    BY <2>1, FS_Interval
  <2>3. IsFiniteSet({m})
    BY FS_Singleton
  <2> QED
    BY <2>1, <2>2, <2>3, FS_Product
<1>2. IsFiniteSet({{m} \X DOMAIN needs[m] : m \in known})
  <2> DEFINE f == [m \in known |-> {m} \X DOMAIN needs[m]]
  <2>1. {{m} \X DOMAIN needs[m] : m \in known} = {f[m] : m \in known}
    OBVIOUS
  <2>2. f \in Surjection(known, {f[m] : m \in known})
    <3>1. f \in [known -> {f[m] : m \in known}]
      OBVIOUS
    <3> HIDE DEF f
    <3> QED
      BY <3>1 DEF Surjection
  <2> HIDE DEF f
  <2> QED
    BY <2>1, <2>2, FS_Surjection
<1> QED
  BY <1>1, <1>2, FS_UNION DEF WalkEdges

(***************************************************************************)
(* What the rest of a call returns: whoever it reached has all its needs   *)
(* reached, and none of those failed to launch.                            *)
(***************************************************************************)
WalkSound(known, needs, broken, at, r) ==
    LET n == at[1]
        served(y, i) == \A j \in DOMAIN needs[y] : j >= i => needs[y][j] \in r.reached \ broken
    IN  /\ r \in [ok : BOOLEAN, seen : SUBSET known, reached : SUBSET known]
        /\ at[3] \cup {n} \subseteq r.seen
        /\ r.reached \cap (at[3] \ {n}) = {}
        /\ \A y \in r.reached \ {n} : served(y, 1)
        /\ n \in r.reached => served(n, at[2])
        /\ r.ok => n \in r.reached \ broken

\* An edge is a name and the place of one of its needs.
LEMMA WalkEdgeParts ==
    ASSUME NEW known, NEW needs, NEW S, \A n \in known : needs[n] \in Seq(S),
           NEW e \in WalkEdges(known, needs)
    PROVE  e[1] \in known /\ e[2] \in Nat /\ e[2] >= 1
<1>1. PICK m \in known : e \in {m} \X DOMAIN needs[m]
  BY DEF WalkEdges
<1>2. DOMAIN needs[m] = 1 .. Len(needs[m]) /\ Len(needs[m]) \in Nat
  OBVIOUS
<1> QED
  BY <1>1, <1>2

\* The need a call is about to look at is one of those left.
LEMMA WalkEdge ==
    ASSUME NEW known, NEW needs, NEW S, \A n \in known : needs[n] \in Seq(S),
           NEW n \in known, NEW i \in Nat \ {0}, i <= Len(needs[n]), NEW seen
    PROVE  <<n, i>> \in WalkLeft(known, needs, <<n, i, seen>>)
<1>1. i \in DOMAIN needs[n] /\ i \in Nat
  OBVIOUS
<1>2. <<n, i>> \in {n} \X DOMAIN needs[n]
  BY <1>1
<1>3. <<n, i>> \in WalkEdges(known, needs)
  BY <1>2 DEF WalkEdges
<1> QED
  BY <1>1, <1>3 DEF WalkLeft

\* A call for a need leaves less to look at: the need itself is not looked at again.
LEMMA WalkCallsNeed ==
    ASSUME NEW known, NEW needs, NEW S, \A n \in known : needs[n] \in Seq(S),
           NEW n \in known, NEW i \in Nat \ {0}, i <= Len(needs[n]),
           NEW seen \in SUBSET known,
           NEW m \in known, m \notin seen \cup {n}
    PROVE  /\ <<m, 1, seen \cup {n}>> \in WalkPlace(known)
           /\ WalkBefore(known, needs, <<m, 1, seen \cup {n}>>, <<n, i, seen>>)
<1>1. <<n, i>> \in WalkLeft(known, needs, <<n, i, seen>>)
  BY WalkEdge
<1>2. <<n, i>> \notin WalkLeft(known, needs, <<m, 1, seen \cup {n}>>)
  BY DEF WalkLeft
<1>3. WalkLeft(known, needs, <<m, 1, seen \cup {n}>>)
         \subseteq WalkLeft(known, needs, <<n, i, seen>>)
  BY WalkEdgeParts DEF WalkLeft
<1>4. <<m, 1, seen \cup {n}>> \in WalkPlace(known)
  BY DEF WalkPlace
<1> QED
  BY <1>1, <1>2, <1>3, <1>4 DEF WalkBefore

\* So does the rest of the call, whatever the need has visited.
LEMMA WalkCallsRest ==
    ASSUME NEW known, NEW needs, NEW S, \A n \in known : needs[n] \in Seq(S),
           NEW n \in known, NEW i \in Nat \ {0}, i <= Len(needs[n]),
           NEW seen \in SUBSET known,
           NEW more \in SUBSET known, seen \cup {n} \subseteq more
    PROVE  /\ <<n, i + 1, more>> \in WalkPlace(known)
           /\ WalkBefore(known, needs, <<n, i + 1, more>>, <<n, i, seen>>)
<1>0. i \in Nat /\ i + 1 \in Nat \ {0} /\ ~(i >= i + 1)
  OBVIOUS
<1>1. <<n, i>> \in WalkLeft(known, needs, <<n, i, seen>>)
  BY WalkEdge
<1>2. <<n, i>> \notin WalkLeft(known, needs, <<n, i + 1, more>>)
  BY <1>0 DEF WalkLeft
<1>3. WalkLeft(known, needs, <<n, i + 1, more>>) \subseteq WalkLeft(known, needs, <<n, i, seen>>)
  <2> SUFFICES ASSUME NEW e \in WalkEdges(known, needs),
                      IF e[1] = n THEN e[2] >= i + 1 ELSE e[1] \notin more
               PROVE  IF e[1] = n THEN e[2] >= i ELSE e[1] \notin seen
    BY DEF WalkLeft
  <2>1. e[2] \in Nat
    BY WalkEdgeParts
  <2> QED
    BY <1>0, <2>1
<1> QED
  BY <1>0, <1>1, <1>2, <1>3 DEF WalkBefore, WalkPlace

(***************************************************************************)
(* A step whose calls return what is sound returns what is sound, and it   *)
(* looks at these calls only.                                              *)
(***************************************************************************)
LEMMA WalkStepSound ==
    ASSUME NEW known, NEW needs, NEW S, \A n \in known : needs[n] \in Seq(S), NEW broken,
           NEW v, NEW at \in WalkPlace(known),
           \A x \in WalkPlace(known) :
              WalkBefore(known, needs, x, at) => WalkSound(known, needs, broken, x, v[x])
    PROVE  WalkSound(known, needs, broken, at, WalkStep(known, needs, broken, v, at))
<1> DEFINE n == at[1]
           i == at[2]
           seen == at[3] \cup {n}
           m == needs[n][i]
           need == WalkNeed(known, needs, v, at)
           rest == v[<<n, i + 1, need.seen>>]
           r == WalkStep(known, needs, broken, v, at)
           served(res, y, k) ==
             \A j \in DOMAIN needs[y] : j >= k => needs[y][j] \in res.reached \ broken
<1>0. at = <<n, i, at[3]>> /\ n \in known /\ i \in Nat \ {0} /\ at[3] \in SUBSET known
  BY DEF WalkPlace
<1>1. needs[n] \in Seq(S) /\ Len(needs[n]) \in Nat /\ DOMAIN needs[n] = 1 .. Len(needs[n])
  BY <1>0
<1>2. CASE i > Len(needs[n])
  <2>1. r = [ok |-> n \notin broken, seen |-> seen, reached |-> {n}]
    BY <1>2 DEF WalkStep
  <2>2. \A j \in DOMAIN needs[n] : ~(j >= i)
    BY <1>0, <1>1, <1>2
  <2>3. seen \in SUBSET known /\ {n} \in SUBSET known
    BY <1>0
  <2>4. /\ r \in [ok : BOOLEAN, seen : SUBSET known, reached : SUBSET known]
        /\ r.ok = (n \notin broken) /\ r.seen = seen /\ r.reached = {n}
    BY <2>1, <2>3
  <2> HIDE DEF r
  <2>5. WalkSound(known, needs, broken, at, r)
    BY <2>2, <2>4 DEF WalkSound
  <2> QED
    BY <2>5 DEF r
<1>3. CASE i <= Len(needs[n])
  <2>1. /\ need \in [ok : BOOLEAN, seen : SUBSET known, reached : SUBSET known]
        /\ seen \subseteq need.seen
        /\ need.reached \cap seen = {}
        /\ \A y \in need.reached : served(need, y, 1)
        /\ need.ok => m \in need.reached \ broken
    <3>1. CASE m \in known \ seen
      <4> DEFINE x == <<m, 1, seen>>
      <4>1. x \in WalkPlace(known) /\ WalkBefore(known, needs, x, at)
        BY <1>0, <1>3, <3>1, WalkCallsNeed
      <4>2. need = v[x]
        BY <3>1 DEF WalkNeed
      <4>3. WalkSound(known, needs, broken, x, need)
        BY <4>1, <4>2
      <4>4. x[1] = m /\ x[2] = 1 /\ x[3] = seen
        OBVIOUS
      <4> HIDE DEF x, need
      <4>5. /\ need \in [ok : BOOLEAN, seen : SUBSET known, reached : SUBSET known]
            /\ seen \cup {m} \subseteq need.seen
            /\ need.reached \cap (seen \ {m}) = {}
            /\ \A y \in need.reached \ {m} : served(need, y, 1)
            /\ m \in need.reached => served(need, m, 1)
            /\ need.ok => m \in need.reached \ broken
        BY <4>3, <4>4 DEF WalkSound
      <4> QED
        BY <3>1, <4>5
    <3>2. CASE m \notin known \ seen
      <4>1. need = [ok |-> FALSE, seen |-> seen, reached |-> {}]
        BY <3>2 DEF WalkNeed, WalkRefused
      <4> QED
        BY <1>0, <4>1
    <3> QED
      BY <3>1, <3>2
  <2>2. CASE need.ok
    <3> DEFINE x == <<n, i + 1, need.seen>>
    <3>1. x \in WalkPlace(known) /\ WalkBefore(known, needs, x, at)
      <4>1. need.seen \in SUBSET known /\ at[3] \cup {n} \subseteq need.seen
        BY <2>1
      <4> HIDE DEF need
      <4> QED
        BY <1>0, <1>3, <4>1, WalkCallsRest
    <3>2. WalkSound(known, needs, broken, x, rest)
      BY <3>1
    <3>3. x[1] = n /\ x[2] = i + 1 /\ x[3] = need.seen
      OBVIOUS
    <3>4. r = [rest EXCEPT !.reached = @ \cup need.reached]
      BY <1>0, <1>1, <1>3, <2>2 DEF WalkStep
    <3> HIDE DEF x, need, rest, r
    <3>5. /\ rest \in [ok : BOOLEAN, seen : SUBSET known, reached : SUBSET known]
          /\ need.seen \cup {n} \subseteq rest.seen
          /\ rest.reached \cap (need.seen \ {n}) = {}
          /\ \A y \in rest.reached \ {n} : served(rest, y, 1)
          /\ n \in rest.reached => served(rest, n, i + 1)
          /\ rest.ok => n \in rest.reached \ broken
      BY <3>2, <3>3 DEF WalkSound
    <3>6. /\ r.ok = rest.ok /\ r.seen = rest.seen /\ r.reached = rest.reached \cup need.reached
          /\ r \in [ok : BOOLEAN, seen : SUBSET known, reached : SUBSET known]
      BY <2>1, <3>4, <3>5
    <3>7. \A y \in r.reached \ {n} : served(r, y, 1)
      BY <2>1, <3>5, <3>6
    <3>8. n \in r.reached => served(r, n, i)
      <4>1. SUFFICES ASSUME n \in r.reached, NEW j \in DOMAIN needs[n], j >= i
                     PROVE  needs[n][j] \in r.reached \ broken
        OBVIOUS
      <4>2. n \in rest.reached
        BY <2>1, <3>6, <4>1
      <4>3. CASE j = i
        BY <2>1, <2>2, <3>6, <4>3
      <4>4. CASE j # i
        <5>1. j >= i + 1
          BY <1>0, <1>1, <4>1, <4>4
        <5> QED
          BY <3>5, <3>6, <4>2, <5>1
      <4> QED
        BY <4>3, <4>4
    <3>9. r.reached \cap (at[3] \ {n}) = {} /\ at[3] \cup {n} \subseteq r.seen
      BY <2>1, <3>5, <3>6
    <3>10. r.ok => n \in r.reached \ broken
      BY <3>5, <3>6
    <3>11. WalkSound(known, needs, broken, at, r)
      <4> HIDE DEF served
      <4> QED
        BY <3>6, <3>7, <3>8, <3>9, <3>10 DEF WalkSound, served
    <3> QED
      BY <3>11 DEF r
  <2>3. CASE ~need.ok
    <3>1. r = need
      BY <1>0, <1>1, <1>3, <2>3 DEF WalkStep
    <3>2. WalkSound(known, needs, broken, at, need)
      <4> HIDE DEF need
      <4> QED
        BY <2>1, <2>3 DEF WalkSound
    <3> QED
      BY <3>1, <3>2
  <2> QED
    BY <2>2, <2>3
<1> QED
  BY <1>0, <1>1, <1>2, <1>3

\* A step asks the walk only about places before its own.
LEMMA WalkStepLocal ==
    ASSUME NEW known, NEW needs, NEW S, \A n \in known : needs[n] \in Seq(S), NEW broken,
           NEW v, NEW at \in WalkPlace(known),
           \A x \in WalkPlace(known) :
              WalkBefore(known, needs, x, at) => WalkSound(known, needs, broken, x, v[x]),
           NEW w,
           \A x \in WalkPlace(known) : WalkBefore(known, needs, x, at) => w[x] = v[x]
    PROVE  WalkStep(known, needs, broken, w, at) = WalkStep(known, needs, broken, v, at)
<1> DEFINE n == at[1]
           i == at[2]
           seen == at[3] \cup {n}
           m == needs[n][i]
           need == WalkNeed(known, needs, v, at)
<1>0. at = <<n, i, at[3]>> /\ n \in known /\ i \in Nat \ {0} /\ at[3] \in SUBSET known
  BY DEF WalkPlace
<1>1. needs[n] \in Seq(S) /\ Len(needs[n]) \in Nat
  BY <1>0
<1>2. CASE i > Len(needs[n])
  BY <1>2 DEF WalkStep
<1>3. CASE i <= Len(needs[n])
  <2>1. /\ WalkNeed(known, needs, w, at) = need
        /\ need.ok => need.seen \in SUBSET known /\ seen \subseteq need.seen
    <3>1. CASE m \in known \ seen
      <4> DEFINE x == <<m, 1, seen>>
      <4>1. x \in WalkPlace(known) /\ WalkBefore(known, needs, x, at)
        BY <1>0, <1>3, <3>1, WalkCallsNeed
      <4>2. need = v[x] /\ WalkNeed(known, needs, w, at) = w[x]
        BY <3>1 DEF WalkNeed
      <4>3. WalkSound(known, needs, broken, x, need) /\ w[x] = v[x]
        BY <4>1, <4>2
      <4>4. x[3] = seen /\ x[1] = m
        OBVIOUS
      <4> HIDE DEF x, need
      <4> QED
        BY <4>2, <4>3, <4>4 DEF WalkSound
    <3>2. CASE m \notin known \ seen
      BY <3>2 DEF WalkNeed, WalkRefused
    <3> QED
      BY <3>1, <3>2
  <2>2. CASE need.ok
    <3> DEFINE x == <<n, i + 1, need.seen>>
    <3>1. x \in WalkPlace(known) /\ WalkBefore(known, needs, x, at)
      <4>1. need.seen \in SUBSET known /\ at[3] \cup {n} \subseteq need.seen
        BY <2>1, <2>2
      <4> HIDE DEF need
      <4> QED
        BY <1>0, <1>3, <4>1, WalkCallsRest
    <3>2. w[x] = v[x]
      BY <3>1
    <3> HIDE DEF need
    <3> QED
      BY <1>0, <1>1, <1>3, <2>1, <2>2, <3>2 DEF WalkStep, need
  <2>3. CASE ~need.ok
    <3> HIDE DEF need
    <3> QED
      BY <1>0, <1>1, <1>3, <2>1, <2>3 DEF WalkStep, need
  <2> QED
    BY <2>2, <2>3
<1> QED
  BY <1>0, <1>1, <1>2, <1>3

\* A place before another has fewer needs left to look at.
LEMMA WalkBeforeFewer ==
    ASSUME NEW known, IsFiniteSet(known),
           NEW needs, NEW S, \A n \in known : needs[n] \in Seq(S), NEW at
    PROVE  /\ Cardinality(WalkLeft(known, needs, at)) \in Nat
           /\ Cardinality(WalkLeft(known, needs, at)) <= Cardinality(WalkEdges(known, needs))
           /\ \A x : WalkBefore(known, needs, x, at) =>
                        /\ Cardinality(WalkLeft(known, needs, x)) \in Nat
                        /\ Cardinality(WalkLeft(known, needs, x))
                             < Cardinality(WalkLeft(known, needs, at))
<1>1. IsFiniteSet(WalkEdges(known, needs))
  BY WalkEdgesFinite
<1>2. \A x : WalkLeft(known, needs, x) \in SUBSET WalkEdges(known, needs)
  BY DEF WalkLeft
<1>3. IsFiniteSet(WalkLeft(known, needs, at))
      /\ Cardinality(WalkLeft(known, needs, at)) <= Cardinality(WalkEdges(known, needs))
  BY <1>1, <1>2, FS_Subset
<1>4. Cardinality(WalkLeft(known, needs, at)) \in Nat
  BY <1>3, FS_CardinalityType
<1>5. ASSUME NEW x, WalkBefore(known, needs, x, at)
      PROVE  /\ Cardinality(WalkLeft(known, needs, x)) \in Nat
             /\ Cardinality(WalkLeft(known, needs, x)) < Cardinality(WalkLeft(known, needs, at))
  <2>1. /\ WalkLeft(known, needs, x) \in SUBSET WalkLeft(known, needs, at)
        /\ WalkLeft(known, needs, x) # WalkLeft(known, needs, at)
    BY <1>5 DEF WalkBefore
  <2>2. /\ IsFiniteSet(WalkLeft(known, needs, x))
        /\ Cardinality(WalkLeft(known, needs, x)) <= Cardinality(WalkLeft(known, needs, at))
        /\ Cardinality(WalkLeft(known, needs, x)) # Cardinality(WalkLeft(known, needs, at))
    BY <1>3, <2>1, FS_Subset
  <2>3. Cardinality(WalkLeft(known, needs, x)) \in Nat
    BY <2>2, FS_CardinalityType
  <2> QED
    BY <1>4, <2>2, <2>3
<1> QED
  BY <1>3, <1>4, <1>5

(***************************************************************************)
(* The walk is defined.  For every size, up to that of the whole graph,    *)
(* some function is right wherever no more than so much is left to look    *)
(* at: one more step makes it right one further.                           *)
(***************************************************************************)
LEMMA WalkExists ==
    ASSUME NEW known, IsFiniteSet(known),
           NEW needs, NEW S, \A n \in known : needs[n] \in Seq(S), NEW broken
    PROVE  \E v : v = [at \in WalkPlace(known) |-> WalkStep(known, needs, broken, v, at)]
<1> DEFINE Place == WalkPlace(known)
           E == WalkEdges(known, needs)
           size(at) == Cardinality(WalkLeft(known, needs, at))
           right(f, at) == /\ f[at] = WalkStep(known, needs, broken, f, at)
                           /\ WalkSound(known, needs, broken, at, f[at])
           RightTo(T) == \E f : /\ f = [at \in Place |-> f[at]]
                                /\ \A at \in Place : size(at) <= Cardinality(T) => right(f, at)
           Bad == {T \in SUBSET E : ~RightTo(T)}
<1>1. IsFiniteSet(E)
  BY WalkEdgesFinite
<1>2. \A at \in Place : /\ size(at) \in Nat /\ size(at) <= Cardinality(E)
                        /\ \A x \in Place : WalkBefore(known, needs, x, at) =>
                              size(x) \in Nat /\ size(x) < size(at)
  BY WalkBeforeFewer
<1>3. ASSUME NEW h, NEW k \in Nat, \A at \in Place : size(at) < k => right(h, at)
      PROVE  LET g == [at \in Place |-> WalkStep(known, needs, broken, h, at)]
             IN  \A at \in Place : size(at) <= k => right(g, at)
  <2> DEFINE g == [at \in Place |-> WalkStep(known, needs, broken, h, at)]
  <2> SUFFICES ASSUME NEW at \in Place, size(at) <= k PROVE right(g, at)
    OBVIOUS
  <2>1. \A x \in Place : WalkBefore(known, needs, x, at) => right(h, x)
    <3> HIDE DEF size, right, Place
    <3> QED
      BY <1>2, <1>3
  <2>2. \A x \in Place : WalkBefore(known, needs, x, at) =>
           WalkSound(known, needs, broken, x, h[x]) /\ g[x] = h[x]
    BY <2>1
  <2>3. g[at] = WalkStep(known, needs, broken, h, at)
    OBVIOUS
  <2> HIDE DEF g
  <2>4. WalkSound(known, needs, broken, at, g[at])
    BY <2>2, <2>3, WalkStepSound
  <2>5. WalkStep(known, needs, broken, g, at) = WalkStep(known, needs, broken, h, at)
    BY <2>2, WalkStepLocal
  <2> QED
    BY <2>3, <2>4, <2>5
<1>4. Bad = {}
  <2> SUFFICES ASSUME Bad # {} PROVE FALSE
    OBVIOUS
  <2>1. PICK T \in Bad : \A U \in Bad : ~(U \subseteq T /\ U # T)
    <3>1. Bad \subseteq SUBSET E
      OBVIOUS
    <3> HIDE DEF Bad, E
    <3> QED
      BY <1>1, <3>1, SmallestSet
  <2>2. IsFiniteSet(T) /\ Cardinality(T) \in Nat
    <3>1. T \in SUBSET E
      OBVIOUS
    <3> HIDE DEF E
    <3> QED
      BY <1>1, <3>1, FS_Subset, FS_CardinalityType
  <2>3. \E h : \A at \in Place : size(at) < Cardinality(T) => right(h, at)
    <3>1. CASE T = {}
      <4>1. Cardinality(T) = 0
        BY <3>1, FS_EmptySet
      <4> HIDE DEF size, right, Place
      <4> QED
        BY <1>2, <4>1
    <3>2. ASSUME NEW e \in T
          PROVE  \E h : \A at \in Place : size(at) < Cardinality(T) => right(h, at)
      <4>1. Cardinality(T \ {e}) = Cardinality(T) - 1
        BY <2>2, FS_RemoveElement
      <4>2. RightTo(T \ {e})
        <5>1. T \ {e} \in SUBSET E /\ T \ {e} \notin Bad
          BY <2>1
        <5> QED
          BY <5>1
      <4>3. PICK h : \A at \in Place : size(at) <= Cardinality(T \ {e}) => right(h, at)
        BY <4>2
      <4>4. \A at \in Place : size(at) < Cardinality(T) => size(at) <= Cardinality(T) - 1
        <5> HIDE DEF size, Place
        <5> QED
          BY <1>2, <2>2
      <4> HIDE DEF size, right, Place
      <4> QED
        BY <4>1, <4>3, <4>4
    <3> QED
      BY <3>1, <3>2
  <2>4. PICK h : \A at \in Place : size(at) < Cardinality(T) => right(h, at)
    BY <2>3
  <2> DEFINE g == [at \in Place |-> WalkStep(known, needs, broken, h, at)]
  <2>5. \A at \in Place : size(at) <= Cardinality(T) => right(g, at)
    BY <1>3, <2>2, <2>4
  <2>6. g = [at \in Place |-> g[at]]
    OBVIOUS
  <2> HIDE DEF g, right, size, Place
  <2>7. RightTo(T)
    BY <2>5, <2>6
  <2> QED
    BY <2>7
<1>5. RightTo(E)
  BY <1>4
<1>6. PICK f : /\ f = [at \in Place |-> f[at]]
               /\ \A at \in Place : size(at) <= Cardinality(E) => right(f, at)
  BY <1>5
<1>7. \A at \in Place : f[at] = WalkStep(known, needs, broken, f, at)
  <2>1. \A at \in Place : right(f, at)
    <3> HIDE DEF size, right, Place
    <3> QED
      BY <1>2, <1>6
  <2> QED
    BY <2>1
<1>8. f = [at \in Place |-> WalkStep(known, needs, broken, f, at)]
  BY <1>6, <1>7
<1> QED
  BY <1>8

(***************************************************************************)
(* What holds of a place whenever it holds of those before it holds of     *)
(* every place: among the places where it fails none would be the first.   *)
(***************************************************************************)
LEMMA WalkInduction ==
    ASSUME NEW known, IsFiniteSet(known),
           NEW needs, NEW S, \A n \in known : needs[n] \in Seq(S),
           NEW Good,
           \A at \in WalkPlace(known) :
              (\A x \in WalkPlace(known) : WalkBefore(known, needs, x, at) => x \in Good)
                 => at \in Good
    PROVE  WalkPlace(known) \subseteq Good
<1> DEFINE Wrong == WalkPlace(known) \ Good
           Bad == {WalkLeft(known, needs, x) : x \in Wrong}
<1> SUFFICES ASSUME Wrong # {} PROVE FALSE
  OBVIOUS
<1>1. PICK T \in Bad : \A U \in Bad : ~(U \subseteq T /\ U # T)
  <2>1. IsFiniteSet(WalkEdges(known, needs))
    BY WalkEdgesFinite
  <2>2. Bad \subseteq SUBSET WalkEdges(known, needs)
    BY DEF WalkLeft
  <2>3. Bad # {}
    <3> HIDE DEF Wrong
    <3> QED
      OBVIOUS
  <2> HIDE DEF Bad
  <2> QED
    BY <2>1, <2>2, <2>3, SmallestSet
<1>2. PICK at \in Wrong : T = WalkLeft(known, needs, at)
  OBVIOUS
<1>3. ASSUME NEW x \in Wrong, WalkBefore(known, needs, x, at) PROVE FALSE
  <2>1. WalkLeft(known, needs, x) \in Bad
    OBVIOUS
  <2> QED
    BY <1>1, <1>2, <1>3, <2>1 DEF WalkBefore
<1> QED
  BY <1>3

\* The walk exists, so what a step does is what it does.
LEMMA WalkVisitSteps ==
    ASSUME NEW known, IsFiniteSet(known),
           NEW needs, NEW S, \A n \in known : needs[n] \in Seq(S), NEW broken,
           NEW at \in WalkPlace(known)
    PROVE  WalkVisit(known, needs, broken)[at] =
             WalkStep(known, needs, broken, WalkVisit(known, needs, broken), at)
<1> DEFINE v == WalkVisit(known, needs, broken)
<1>1. v = [x \in WalkPlace(known) |-> WalkStep(known, needs, broken, v, x)]
  BY WalkExists DEF WalkVisit
<1> HIDE DEF v
<1>2. v[at] = WalkStep(known, needs, broken, v, at)
  BY <1>1
<1> QED
  BY <1>2 DEF v

\* What a call of the walk returns is sound.
LEMMA WalkVisitSound ==
    ASSUME NEW known, IsFiniteSet(known),
           NEW needs, NEW S, \A n \in known : needs[n] \in Seq(S), NEW broken,
           NEW at \in WalkPlace(known)
    PROVE  WalkSound(known, needs, broken, at, WalkVisit(known, needs, broken)[at])
<1> DEFINE v == WalkVisit(known, needs, broken)
           Good == {x \in WalkPlace(known) : WalkSound(known, needs, broken, x, v[x])}
<1>1. \A x \in WalkPlace(known) : v[x] = WalkStep(known, needs, broken, v, x)
  BY WalkVisitSteps
<1> HIDE DEF v
<1>2. ASSUME NEW x \in WalkPlace(known),
             \A y \in WalkPlace(known) : WalkBefore(known, needs, y, x) => y \in Good
      PROVE  x \in Good
  <2>1. WalkSound(known, needs, broken, x, WalkStep(known, needs, broken, v, x))
    BY <1>2, WalkStepSound
  <2> QED
    BY <1>1, <2>1
<1>3. WalkPlace(known) \subseteq Good
  <2> HIDE DEF Good
  <2> QED
    BY <1>2, WalkInduction
<1> QED
  BY <1>3 DEF v

(***************************************************************************)
(* Whoever startLocked reaches has all its needs reached and launched.     *)
(***************************************************************************)
LEMMA StartWalkServes ==
    ASSUME NEW known, IsFiniteSet(known),
           NEW needs, NEW S, \A n \in known : needs[n] \in Seq(S), NEW broken, NEW name,
           NEW y \in StartWalk(known, needs, broken, name).reached
    PROVE  /\ y \in known
           /\ Range(needs[y]) \subseteq StartWalk(known, needs, broken, name).reached \ broken
<1>1. CASE name \notin known
  BY <1>1 DEF StartWalk
<1>2. CASE name \in known
  <2> DEFINE at == <<name, 1, {}>>
             r == StartWalk(known, needs, broken, name)
  <2>1. r = WalkVisit(known, needs, broken)[at]
    BY <1>2, StartWalkVisits
  <2>2. at \in WalkPlace(known)
    BY <1>2 DEF WalkPlace
  <2>3. WalkSound(known, needs, broken, at, r)
    BY <2>1, <2>2, WalkVisitSound
  <2>4. at[1] = name /\ at[2] = 1
    OBVIOUS
  <2>5. y \in r.reached
    OBVIOUS
  <2> HIDE DEF r, at
  <2>6. y \in known /\ \A j \in DOMAIN needs[y] : j >= 1 => needs[y][j] \in r.reached \ broken
    BY <2>3, <2>4, <2>5 DEF WalkSound
  <2>7. \A j \in DOMAIN needs[y] : j >= 1
    BY <2>6
  <2>8. Range(needs[y]) \subseteq r.reached \ broken
    BY <2>6, <2>7 DEF Range
  <2> QED
    BY <2>6, <2>8 DEF r
<1> QED
  BY <1>1, <1>2

-----------------------------------------------------------------------------
(***************************************************************************)
(* The walk of a tree is not refused.  A name visited has the one that     *)
(* needs it visited before it, so what is still to be looked at is new.    *)
(***************************************************************************)
TreeSet(needs, some) ==
    /\ \A x \in some : Range(needs[x]) \subseteq some
    /\ \A x, y \in some : \A i \in DOMAIN needs[x], j \in DOMAIN needs[y] :
          needs[x][i] = needs[y][j] => x = y /\ i = j

FromAbove(needs, some, seen) ==
    \A x \in some : \A j \in DOMAIN needs[x] : needs[x][j] \in seen => x \in seen

WalkFits(needs, some, at) ==
    LET n == at[1]
        seen == at[3] \cup {n}
    IN  /\ n \in some /\ seen \subseteq some /\ FromAbove(needs, some, seen)
        /\ \A j \in DOMAIN needs[n] : j >= at[2] => needs[n][j] \notin seen

WalkEnds(needs, some, at, r) ==
    LET n == at[1]
        seen == at[3] \cup {n}
    IN  /\ r.ok /\ seen \subseteq r.seen /\ r.seen \subseteq some
        /\ FromAbove(needs, some, r.seen)
        /\ \A x \in seen \ {n} : \A j \in DOMAIN needs[x] :
              needs[x][j] \in r.seen => needs[x][j] \in seen

\* A step whose calls are not refused is not refused.
LEMMA WalkStepEnds ==
    ASSUME NEW known, NEW needs, NEW S, \A n \in known : needs[n] \in Seq(S), NEW broken,
           NEW v, NEW at \in WalkPlace(known),
           \A x \in WalkPlace(known) :
              v[x] \in [ok : BOOLEAN, seen : SUBSET known, reached : SUBSET known],
           NEW some \in SUBSET known, TreeSet(needs, some), some \cap broken = {},
           WalkFits(needs, some, at),
           \A x \in WalkPlace(known) :
              WalkBefore(known, needs, x, at) /\ WalkFits(needs, some, x) =>
                  WalkEnds(needs, some, x, v[x])
    PROVE  WalkEnds(needs, some, at, WalkStep(known, needs, broken, v, at))
<1> DEFINE n == at[1]
           i == at[2]
           seen == at[3] \cup {n}
           m == needs[n][i]
           need == WalkNeed(known, needs, v, at)
           r == WalkStep(known, needs, broken, v, at)
<1>0. /\ at = <<n, i, at[3]>> /\ n \in known /\ i \in Nat \ {0} /\ at[3] \in SUBSET known
      /\ needs[n] \in Seq(S) /\ Len(needs[n]) \in Nat /\ DOMAIN needs[n] = 1 .. Len(needs[n])
  BY DEF WalkPlace
<1>1. /\ n \in some /\ seen \subseteq some /\ FromAbove(needs, some, seen)
      /\ \A j \in DOMAIN needs[n] : j >= i => needs[n][j] \notin seen
  BY DEF WalkFits
<1>2. CASE i > Len(needs[n])
  <2>1. r.ok = (n \notin broken) /\ r.seen = seen
    BY <1>2 DEF WalkStep
  <2>2. n \notin broken
    BY <1>1
  <2> HIDE DEF r
  <2>3. WalkEnds(needs, some, at, r)
    BY <1>1, <2>1, <2>2 DEF WalkEnds
  <2> QED
    BY <2>3 DEF r
<1>3. CASE i <= Len(needs[n])
  <2>1. i \in DOMAIN needs[n] /\ i + 1 \in Nat /\ i + 1 > i /\ m \in some /\ m \notin seen
    <3>1. i \in DOMAIN needs[n] /\ i >= i
      BY <1>0, <1>3
    <3>2. m \in Range(needs[n])
      BY <3>1 DEF Range
    <3> QED
      BY <1>0, <1>1, <3>1, <3>2 DEF TreeSet
  <2>2. \A x \in some : \A j \in DOMAIN needs[x] : needs[x][j] = m => x = n /\ j = i
    BY <1>1, <2>1 DEF TreeSet
  <2> DEFINE x == <<m, 1, seen>>
             y == <<n, i + 1, need.seen>>
  <2>3. x \in WalkPlace(known) /\ WalkBefore(known, needs, x, at) /\ need = v[x]
    <3>1. m \in known \ seen
      BY <2>1
    <3>2. need = v[x]
      BY <3>1 DEF WalkNeed
    <3>3. x \in WalkPlace(known) /\ WalkBefore(known, needs, x, at)
      BY <1>0, <1>3, <3>1, WalkCallsNeed
    <3> QED
      BY <3>2, <3>3
  <2>4. WalkEnds(needs, some, x, need)
    <3>1. x[1] = m /\ x[2] = 1 /\ x[3] = seen
      OBVIOUS
    <3> HIDE DEF x
    <3>2. FromAbove(needs, some, seen \cup {m})
      BY <1>1, <2>2 DEF FromAbove
    <3>3. \A j \in DOMAIN needs[m] : needs[m][j] \notin seen \cup {m}
      BY <1>1, <2>1, <2>2 DEF FromAbove
    <3>4. WalkFits(needs, some, x)
      BY <1>1, <2>1, <3>1, <3>2, <3>3 DEF WalkFits
    <3> QED
      BY <2>3, <3>4
  <2>5. /\ need.ok /\ seen \cup {m} \subseteq need.seen /\ need.seen \subseteq some
        /\ FromAbove(needs, some, need.seen)
        /\ \A z \in seen : \A j \in DOMAIN needs[z] :
              needs[z][j] \in need.seen => needs[z][j] \in seen \cup {m}
    <3>1. x[1] = m /\ x[2] = 1 /\ x[3] = seen
      OBVIOUS
    <3> HIDE DEF x, need
    <3> QED
      BY <2>1, <2>4, <3>1 DEF WalkEnds
  <2>6. /\ y \in WalkPlace(known) /\ WalkBefore(known, needs, y, at)
        /\ r.ok = v[y].ok /\ r.seen = v[y].seen
    <3>1. need.seen \in SUBSET known /\ at[3] \cup {n} \subseteq need.seen
      BY <2>5
    <3>2. y \in WalkPlace(known) /\ WalkBefore(known, needs, y, at)
      <4> HIDE DEF need
      <4> QED
        BY <1>0, <1>3, <3>1, WalkCallsRest
    <3>3. r = [v[y] EXCEPT !.reached = @ \cup need.reached]
      BY <1>0, <1>3, <2>5 DEF WalkStep
    <3>4. v[y] \in [ok : BOOLEAN, seen : SUBSET known, reached : SUBSET known]
      BY <3>2
    <3> HIDE DEF r, y, need
    <3> QED
      BY <3>2, <3>3, <3>4
  <2>7. WalkEnds(needs, some, y, v[y])
    <3>1. y[1] = n /\ y[2] = i + 1 /\ y[3] = need.seen
      OBVIOUS
    <3> HIDE DEF y, need
    <3>2. need.seen \cup {n} = need.seen
      BY <2>5
    <3>3. \A j \in DOMAIN needs[n] : j >= i + 1 => needs[n][j] \notin need.seen
      <4> SUFFICES ASSUME NEW j \in DOMAIN needs[n], j >= i + 1, needs[n][j] \in need.seen
                   PROVE  FALSE
        OBVIOUS
      <4>1. j # i /\ j >= i
        BY <1>0
      <4>2. needs[n][j] \in seen \cup {m}
        BY <2>5
      <4> QED
        BY <1>1, <2>2, <4>1, <4>2
    <3>4. y[3] \cup {y[1]} = need.seen
      BY <3>1, <3>2
    <3>5. /\ y[1] \in some /\ y[3] \cup {y[1]} \subseteq some
          /\ FromAbove(needs, some, y[3] \cup {y[1]})
      BY <1>1, <2>5, <3>1, <3>4
    <3>6. \A j \in DOMAIN needs[y[1]] : j >= y[2] => needs[y[1]][j] \notin y[3] \cup {y[1]}
      BY <3>1, <3>3, <3>4
    <3>7. WalkFits(needs, some, y)
      BY <3>5, <3>6 DEF WalkFits
    <3> QED
      BY <2>6, <3>7
  <2>8. /\ r.ok /\ need.seen \subseteq r.seen /\ r.seen \subseteq some
        /\ FromAbove(needs, some, r.seen)
        /\ \A z \in need.seen \ {n} : \A j \in DOMAIN needs[z] :
              needs[z][j] \in r.seen => needs[z][j] \in need.seen
    <3>1. y[1] = n /\ y[2] = i + 1 /\ y[3] = need.seen
      OBVIOUS
    <3> HIDE DEF y, need, r
    <3> QED
      BY <2>5, <2>6, <2>7, <3>1 DEF WalkEnds
  <2> HIDE DEF r, need
  <2>9. \A z \in seen \ {n} : \A j \in DOMAIN needs[z] :
           needs[z][j] \in r.seen => needs[z][j] \in seen
    BY <1>1, <2>2, <2>5, <2>8
  <2>10. WalkEnds(needs, some, at, r)
    BY <2>5, <2>8, <2>9 DEF WalkEnds
  <2> QED
    BY <2>10 DEF r
<1> QED
  BY <1>0, <1>2, <1>3

\* So no call of the walk is refused.
LEMMA WalkVisitEnds ==
    ASSUME NEW known, IsFiniteSet(known),
           NEW needs, NEW S, \A n \in known : needs[n] \in Seq(S), NEW broken,
           NEW some \in SUBSET known, TreeSet(needs, some), some \cap broken = {},
           NEW at \in WalkPlace(known), WalkFits(needs, some, at)
    PROVE  WalkEnds(needs, some, at, WalkVisit(known, needs, broken)[at])
<1> DEFINE v == WalkVisit(known, needs, broken)
           Good == {x \in WalkPlace(known) :
                      WalkFits(needs, some, x) => WalkEnds(needs, some, x, v[x])}
<1>1. \A x \in WalkPlace(known) :
        /\ v[x] = WalkStep(known, needs, broken, v, x)
        /\ WalkSound(known, needs, broken, x, v[x])
  BY WalkVisitSteps, WalkVisitSound
<1> HIDE DEF v
<1>2. \A x \in WalkPlace(known) :
        v[x] \in [ok : BOOLEAN, seen : SUBSET known, reached : SUBSET known]
  BY <1>1 DEF WalkSound
<1>3. ASSUME NEW x \in WalkPlace(known), WalkFits(needs, some, x),
             \A y \in WalkPlace(known) : WalkBefore(known, needs, y, x) => y \in Good
      PROVE  WalkEnds(needs, some, x, v[x])
  <2>1. WalkEnds(needs, some, x, WalkStep(known, needs, broken, v, x))
    BY <1>2, <1>3, WalkStepEnds
  <2> QED
    BY <1>1, <2>1
<1>4. \A x \in WalkPlace(known) :
        (\A y \in WalkPlace(known) : WalkBefore(known, needs, y, x) => y \in Good) => x \in Good
  BY <1>3
<1>5. WalkPlace(known) \subseteq Good
  <2> HIDE DEF Good
  <2> QED
    BY <1>4, WalkInduction
<1> QED
  BY <1>5 DEF v

(***************************************************************************)
(* startLocked starts a service whose needs form a tree, if each of them   *)
(* can be executed.                                                        *)
(***************************************************************************)
LEMMA StartWalkTree ==
    ASSUME NEW known, IsFiniteSet(known),
           NEW needs, NEW S, \A n \in known : needs[n] \in Seq(S),
           NEW name, IsTree(known, needs, name)
    PROVE  /\ StartWalk(known, needs, {}, name).ok
           /\ name \in StartWalk(known, needs, {}, name).reached
<1> DEFINE at == <<name, 1, {}>>
           r == StartWalk(known, needs, {}, name)
<1>1. PICK some \in SUBSET known :
        /\ name \in some
        /\ \A x \in some : Range(needs[x]) \subseteq some \ {name}
        /\ \A x, y \in some : \A i \in DOMAIN needs[x], j \in DOMAIN needs[y] :
              needs[x][i] = needs[y][j] => x = y /\ i = j
  BY DEF IsTree
<1>2. TreeSet(needs, some)
  BY <1>1 DEF TreeSet
<1>3. at \in WalkPlace(known) /\ at[1] = name /\ at[2] = 1 /\ at[3] = {} /\ name \in known
  BY <1>1 DEF WalkPlace
<1>4. r = WalkVisit(known, needs, {})[at]
  BY <1>3, StartWalkVisits
<1>5. WalkSound(known, needs, {}, at, r)
  BY <1>3, <1>4, WalkVisitSound
<1> HIDE DEF r, at
<1>6. \A x \in some : \A j \in DOMAIN needs[x] : needs[x][j] # name
  BY <1>1 DEF Range
<1>7. WalkFits(needs, some, at)
  BY <1>1, <1>3, <1>6 DEF WalkFits, FromAbove
<1>8. WalkEnds(needs, some, at, r)
  BY <1>2, <1>3, <1>4, <1>7, WalkVisitEnds
<1>9. r.ok /\ name \in r.reached
  BY <1>3, <1>5, <1>8 DEF WalkEnds, WalkSound
<1> QED
  BY <1>9 DEF r

(***************************************************************************)
(* And only such a service: a name that is needed twice is met again among *)
(* those visited.  What a call that succeeds has reached is new, and each  *)
(* of the needs it went through led to a name of its own.                  *)
(***************************************************************************)
ReachedOnce(needs, n, i, seen, r) ==
    LET new == r.seen \ seen
        used(x, j) == x \in new \cup {n} /\ j \in DOMAIN needs[x] /\ (x = n => j >= i)
    IN  r.ok =>
          /\ r.reached = new \cup {n} /\ seen \subseteq r.seen
          /\ \A x, j : used(x, j) => needs[x][j] \in new
          /\ \A x, j, y, k : used(x, j) /\ used(y, k) /\ needs[x][j] = needs[y][k] =>
                x = y /\ j = k

WalkOnce(needs, at, r) == ReachedOnce(needs, at[1], at[2], at[3] \cup {at[1]}, r)

\* A step puts together what its two calls have reached.
LEMMA WalkStepOnce ==
    ASSUME NEW known, NEW needs, NEW S, \A n \in known : needs[n] \in Seq(S), NEW broken,
           NEW v, NEW at \in WalkPlace(known),
           \A x \in WalkPlace(known) :
              v[x] \in [ok : BOOLEAN, seen : SUBSET known, reached : SUBSET known],
           \A x \in WalkPlace(known) : WalkBefore(known, needs, x, at) => WalkOnce(needs, x, v[x])
    PROVE  WalkOnce(needs, at, WalkStep(known, needs, broken, v, at))
<1> DEFINE n == at[1]
           i == at[2]
           seen == at[3] \cup {n}
           m == needs[n][i]
           need == WalkNeed(known, needs, v, at)
           r == WalkStep(known, needs, broken, v, at)
           used(new, z, l, x, j) == x \in new \cup {z} /\ j \in DOMAIN needs[x] /\ (x = z => j >= l)
<1>0. /\ at = <<n, i, at[3]>> /\ n \in known /\ i \in Nat \ {0} /\ at[3] \in SUBSET known
      /\ needs[n] \in Seq(S) /\ Len(needs[n]) \in Nat /\ DOMAIN needs[n] = 1 .. Len(needs[n])
  BY DEF WalkPlace
<1>1. SUFFICES ASSUME r.ok PROVE WalkOnce(needs, at, r)
  BY DEF WalkOnce, ReachedOnce
<1>2. CASE i > Len(needs[n])
  <2>1. r.seen = seen /\ r.reached = {n}
    BY <1>2 DEF WalkStep
  <2>2. \A j \in DOMAIN needs[n] : ~(j >= i)
    BY <1>0, <1>2
  <2> HIDE DEF r
  <2> QED
    BY <2>1, <2>2 DEF WalkOnce, ReachedOnce
<1>3. CASE i <= Len(needs[n])
  <2> DEFINE x == <<m, 1, seen>>
             y == <<n, i + 1, need.seen>>
  <2>1. need.ok
    BY <1>0, <1>1, <1>3 DEF WalkStep
  <2>2. m \in known \ seen
    BY <2>1 DEF WalkNeed, WalkRefused
  <2>3. x \in WalkPlace(known) /\ WalkBefore(known, needs, x, at) /\ need = v[x]
    <3>1. need = v[x]
      BY <2>2 DEF WalkNeed
    <3> QED
      BY <1>0, <1>3, <2>2, <3>1, WalkCallsNeed
  <2> DEFINE below == need.seen \ (seen \cup {m})
  <2>4. /\ need.reached = below \cup {m} /\ seen \cup {m} \subseteq need.seen
        /\ \A z, j : used(below, m, 1, z, j) => needs[z][j] \in below
        /\ \A z, j, w, k : used(below, m, 1, z, j) /\ used(below, m, 1, w, k)
                              /\ needs[z][j] = needs[w][k] => z = w /\ j = k
    <3>1. x[1] = m /\ x[2] = 1 /\ x[3] = seen
      OBVIOUS
    <3>2. WalkOnce(needs, x, need)
      BY <2>3
    <3> HIDE DEF x, need
    <3> QED
      BY <2>1, <3>1, <3>2 DEF WalkOnce, ReachedOnce
  <2>5. /\ y \in WalkPlace(known) /\ WalkBefore(known, needs, y, at)
        /\ r.ok = v[y].ok /\ r.seen = v[y].seen /\ r.reached = v[y].reached \cup need.reached
    <3>1. need.seen \in SUBSET known /\ at[3] \cup {n} \subseteq need.seen
      <4>1. need \in [ok : BOOLEAN, seen : SUBSET known, reached : SUBSET known]
        BY <2>3
      <4> HIDE DEF need
      <4> QED
        BY <2>4, <4>1
    <3>2. y \in WalkPlace(known) /\ WalkBefore(known, needs, y, at)
      <4> HIDE DEF need
      <4> QED
        BY <1>0, <1>3, <3>1, WalkCallsRest
    <3>3. r = [v[y] EXCEPT !.reached = @ \cup need.reached]
      BY <1>0, <1>3, <2>1 DEF WalkStep
    <3>4. v[y] \in [ok : BOOLEAN, seen : SUBSET known, reached : SUBSET known]
      BY <3>2
    <3> HIDE DEF r, y, need
    <3> QED
      BY <3>2, <3>3, <3>4
  <2> DEFINE after == r.seen \ need.seen
  <2>6. /\ v[y].reached = after \cup {n} /\ need.seen \subseteq r.seen
        /\ \A z, j : used(after, n, i + 1, z, j) => needs[z][j] \in after
        /\ \A z, j, w, k : used(after, n, i + 1, z, j) /\ used(after, n, i + 1, w, k)
                              /\ needs[z][j] = needs[w][k] => z = w /\ j = k
    <3>1. y[1] = n /\ y[2] = i + 1 /\ y[3] \cup {y[1]} = need.seen
      <4> HIDE DEF need
      <4> QED
        BY <2>4
    <3>2. WalkOnce(needs, y, v[y])
      BY <2>5
    <3>3. PICK q : q = v[y]
      OBVIOUS
    <3>4. q.ok /\ q.seen = r.seen
      BY <1>1, <2>5, <3>3
    <3> HIDE DEF y, need, r
    <3>5. ReachedOnce(needs, n, i + 1, need.seen, q)
      BY <3>1, <3>2, <3>3 DEF WalkOnce
    <3>6. /\ q.reached = after \cup {n} /\ need.seen \subseteq r.seen
          /\ \A z, j : used(after, n, i + 1, z, j) => needs[z][j] \in after
          /\ \A z, j, w, k : used(after, n, i + 1, z, j) /\ used(after, n, i + 1, w, k)
                                /\ needs[z][j] = needs[w][k] => z = w /\ j = k
      BY <3>4, <3>5 DEF ReachedOnce
    <3> QED
      BY <3>3, <3>6
  <2> DEFINE new == r.seen \ seen
  <2> HIDE DEF r, need, y, x
  <2>7. new = after \cup below \cup {m} /\ n \notin new
    BY <2>2, <2>4, <2>6
  <2>8. ASSUME NEW z, NEW j, used(new, n, i, z, j)
        PROVE  \/ used(below, m, 1, z, j) /\ needs[z][j] \in below
               \/ used(after, n, i + 1, z, j) /\ needs[z][j] \in after
               \/ z = n /\ j = i
    <3>1. CASE z \in below \cup {m}
      <4>1. needs[z] \in Seq(S) /\ j \in 1 .. Len(needs[z]) /\ Len(needs[z]) \in Nat
        <5>1. z \in known
          BY <1>1, <2>2, <2>5, <2>8, <3>1 DEF r
        <5> QED
          BY <2>8, <5>1
      <4>2. j >= 1
        BY <4>1
      <4> QED
        BY <2>4, <2>8, <3>1, <4>2
    <3>2. CASE z \in after \cup {n}
      <4>1. z = n => j \in Nat
        BY <1>0, <2>8
      <4> QED
        BY <1>0, <2>6, <2>8, <3>2, <4>1
    <3> QED
      BY <2>7, <2>8, <3>1, <3>2
  <2>9. \A z, j : used(new, n, i, z, j) => needs[z][j] \in new
    BY <2>7, <2>8
  <2>10. ASSUME NEW z, NEW j, NEW w, NEW k, used(new, n, i, z, j), used(new, n, i, w, k),
                needs[z][j] = needs[w][k]
         PROVE  z = w /\ j = k
    <3>1. after \cap below = {} /\ m \notin below /\ m \notin after
      BY <2>4
    <3> HIDE DEF after, below
    <3>2. CASE needs[z][j] \in below
      <4>1. used(below, m, 1, z, j) /\ used(below, m, 1, w, k)
        BY <2>8, <2>10, <3>1, <3>2
      <4> QED
        BY <2>4, <2>10, <4>1
    <3>3. CASE needs[z][j] \in after
      <4>1. used(after, n, i + 1, z, j) /\ used(after, n, i + 1, w, k)
        BY <2>8, <2>10, <3>1, <3>3
      <4> QED
        BY <2>6, <2>10, <4>1
    <3>4. CASE needs[z][j] \notin below \cup after
      BY <2>8, <2>10, <3>4
    <3> QED
      BY <3>2, <3>3, <3>4
  <2>11. r.reached = new \cup {n} /\ seen \subseteq r.seen
    BY <2>4, <2>5, <2>6, <2>7
  <2>12. WalkOnce(needs, at, r)
    BY <2>9, <2>10, <2>11 DEF WalkOnce, ReachedOnce
  <2> QED
    BY <2>12 DEF r
<1> QED
  BY <1>0, <1>2, <1>3

\* So it is of every call.
LEMMA WalkVisitOnce ==
    ASSUME NEW known, IsFiniteSet(known),
           NEW needs, NEW S, \A n \in known : needs[n] \in Seq(S), NEW broken,
           NEW at \in WalkPlace(known)
    PROVE  WalkOnce(needs, at, WalkVisit(known, needs, broken)[at])
<1> DEFINE v == WalkVisit(known, needs, broken)
           Good == {x \in WalkPlace(known) : WalkOnce(needs, x, v[x])}
<1>1. \A x \in WalkPlace(known) :
        /\ v[x] = WalkStep(known, needs, broken, v, x)
        /\ WalkSound(known, needs, broken, x, v[x])
  BY WalkVisitSteps, WalkVisitSound
<1> HIDE DEF v
<1>2. \A x \in WalkPlace(known) :
        v[x] \in [ok : BOOLEAN, seen : SUBSET known, reached : SUBSET known]
  BY <1>1 DEF WalkSound
<1>3. ASSUME NEW x \in WalkPlace(known),
             \A y \in WalkPlace(known) : WalkBefore(known, needs, y, x) => y \in Good
      PROVE  x \in Good
  <2>1. WalkOnce(needs, x, WalkStep(known, needs, broken, v, x))
    BY <1>2, <1>3, WalkStepOnce
  <2> QED
    BY <1>1, <2>1
<1>4. WalkPlace(known) \subseteq Good
  <2> HIDE DEF Good
  <2> QED
    BY <1>3, WalkInduction
<1> QED
  BY <1>4 DEF v

\* So the needs of a name whose call succeeds form a tree.
LEMMA CallIsTree ==
    ASSUME NEW known, NEW needs, NEW S, \A n \in known : needs[n] \in Seq(S), NEW broken,
           NEW name \in known, NEW before \in SUBSET known, NEW r, r.ok,
           WalkSound(known, needs, broken, <<name, 1, before>>, r),
           WalkOnce(needs, <<name, 1, before>>, r)
    PROVE  IsTree(known, needs, name)
<1> DEFINE at == <<name, 1, before>>
           seen == before \cup {name}
           new == r.seen \ seen
           used(x, j) == x \in new \cup {name} /\ j \in DOMAIN needs[x] /\ (x = name => j >= 1)
<1>1. at[1] = name /\ at[2] = 1 /\ at[3] = before
  OBVIOUS
<1>2. ReachedOnce(needs, name, 1, seen, r)
  BY <1>1 DEF WalkOnce
<1>3. r.reached \in SUBSET known
  BY DEF WalkSound
<1> HIDE DEF at
<1>4. /\ r.reached = new \cup {name}
      /\ \A x, j : used(x, j) => needs[x][j] \in new
      /\ \A x, j, y, k : used(x, j) /\ used(y, k) /\ needs[x][j] = needs[y][k] =>
            x = y /\ j = k
  <2> HIDE DEF seen
  <2> QED
    BY <1>2 DEF ReachedOnce
<1>5. \A j \in DOMAIN needs[name] : j >= 1
  OBVIOUS
<1>6. \A x \in r.reached : \A j \in DOMAIN needs[x] : used(x, j)
  BY <1>4, <1>5
<1>7. \A x \in r.reached : Range(needs[x]) \subseteq r.reached \ {name}
  BY <1>4, <1>6 DEF Range
<1>8. \A x, y \in r.reached : \A i \in DOMAIN needs[x], j \in DOMAIN needs[y] :
         needs[x][i] = needs[y][j] => x = y /\ i = j
  <2> HIDE DEF used
  <2> QED
    BY <1>4, <1>6
<1> QED
  BY <1>3, <1>4, <1>7, <1>8 DEF IsTree

(***************************************************************************)
(* When every launch succeeds, startLocked starts exactly the services     *)
(* whose needs form a tree.                                                *)
(***************************************************************************)
THEOREM StartedAreTrees ==
    ASSUME NEW known, IsFiniteSet(known),
           NEW needs, NEW S, \A n \in known : needs[n] \in Seq(S), NEW name
    PROVE  StartWalk(known, needs, {}, name).ok <=> IsTree(known, needs, name)
<1> DEFINE at == <<name, 1, {}>>
           r == StartWalk(known, needs, {}, name)
<1>1. IsTree(known, needs, name) => r.ok
  BY StartWalkTree
<1>2. CASE name \notin known
  BY <1>2 DEF StartWalk, IsTree
<1>3. ASSUME r.ok, name \in known PROVE IsTree(known, needs, name)
  <2>1. at \in WalkPlace(known)
    BY <1>3 DEF WalkPlace
  <2>2. r = WalkVisit(known, needs, {})[at]
    BY <1>3, StartWalkVisits
  <2>3. WalkSound(known, needs, {}, at, r) /\ WalkOnce(needs, at, r)
    BY <2>1, <2>2, WalkVisitSound, WalkVisitOnce
  <2> HIDE DEF r
  <2> QED
    BY <1>3, <2>3, CallIsTree
<1> QED
  BY <1>1, <1>2, <1>3

(***************************************************************************)
(* Nor does a walk launch any other service on its way, whether it         *)
(* succeeds or not.                                                        *)
(***************************************************************************)
WalkTrees(known, needs, at, r) ==
    \A y \in r.reached : (y = at[1] => r.ok) /\ (y # at[1] => IsTree(known, needs, y))

LEMMA WalkStepTrees ==
    ASSUME NEW known, NEW needs, NEW S, \A n \in known : needs[n] \in Seq(S),
           NEW v, NEW at \in WalkPlace(known),
           \A x \in WalkPlace(known) :
              WalkSound(known, needs, {}, x, v[x]) /\ WalkOnce(needs, x, v[x]),
           \A x \in WalkPlace(known) :
              WalkBefore(known, needs, x, at) => WalkTrees(known, needs, x, v[x])
    PROVE  WalkTrees(known, needs, at, WalkStep(known, needs, {}, v, at))
<1> DEFINE n == at[1]
           i == at[2]
           seen == at[3] \cup {n}
           m == needs[n][i]
           need == WalkNeed(known, needs, v, at)
           r == WalkStep(known, needs, {}, v, at)
<1> SUFFICES WalkTrees(known, needs, at, r)
  OBVIOUS
<1>0. /\ at = <<n, i, at[3]>> /\ n \in known /\ i \in Nat \ {0} /\ at[3] \in SUBSET known
      /\ needs[n] \in Seq(S) /\ Len(needs[n]) \in Nat
  BY DEF WalkPlace
<1>1. CASE i > Len(needs[n])
  <2>1. r.ok /\ r.reached = {n}
    BY <1>1 DEF WalkStep
  <2> HIDE DEF r
  <2> QED
    BY <2>1 DEF WalkTrees
<1>2. CASE i <= Len(needs[n])
  <2>1. \A y \in need.reached : y # n /\ IsTree(known, needs, y)
    <3>1. CASE m \in known \ seen
      <4> DEFINE x == <<m, 1, seen>>
      <4>1. x \in WalkPlace(known) /\ WalkBefore(known, needs, x, at)
        BY <1>0, <1>2, <3>1, WalkCallsNeed
      <4>2. need = v[x]
        BY <3>1 DEF WalkNeed
      <4>3. /\ WalkSound(known, needs, {}, x, need) /\ WalkOnce(needs, x, need)
            /\ WalkTrees(known, needs, x, need)
        BY <4>1, <4>2
      <4>4. x[1] = m /\ x[3] = seen /\ seen \in SUBSET known /\ n \in seen /\ m # n
        BY <1>0, <3>1
      <4>5. need.ok => IsTree(known, needs, m)
        <5> HIDE DEF need
        <5> QED
          BY <3>1, <4>3, <4>4, CallIsTree
      <4> HIDE DEF x, need, seen
      <4>6. n \notin need.reached
        BY <4>3, <4>4 DEF WalkSound
      <4> QED
        BY <4>3, <4>4, <4>5, <4>6 DEF WalkTrees
    <3>2. CASE m \notin known \ seen
      <4>1. need.reached = {}
        BY <3>2 DEF WalkNeed, WalkRefused
      <4> QED
        BY <4>1
    <3> QED
      BY <3>1, <3>2
  <2>2. CASE ~need.ok
    <3>1. r = need
      BY <1>0, <1>2, <2>2 DEF WalkStep
    <3> HIDE DEF r, need
    <3> QED
      BY <2>1, <3>1 DEF WalkTrees
  <2>3. CASE need.ok
    <3> DEFINE x == <<m, 1, seen>>
               z == <<n, i + 1, need.seen>>
    <3>1. m \in known \ seen
      BY <2>3 DEF WalkNeed, WalkRefused
    <3>2. WalkSound(known, needs, {}, x, need)
      <4>1. need = v[x]
        BY <3>1 DEF WalkNeed
      <4> QED
        BY <1>0, <1>2, <3>1, <4>1, WalkCallsNeed
    <3>3. need.seen \in SUBSET known /\ at[3] \cup {n} \subseteq need.seen
      <4>1. x[1] = m /\ x[3] = seen
        OBVIOUS
      <4> HIDE DEF x, need
      <4> QED
        BY <3>2, <4>1 DEF WalkSound
    <3>4. z \in WalkPlace(known) /\ WalkBefore(known, needs, z, at)
      <4> HIDE DEF need
      <4> QED
        BY <1>0, <1>2, <3>3, WalkCallsRest
    <3>5. /\ r.ok = v[z].ok /\ r.reached = v[z].reached \cup need.reached
      <4>1. r = [v[z] EXCEPT !.reached = @ \cup need.reached]
        BY <1>0, <1>2, <2>3 DEF WalkStep
      <4>2. v[z] \in [ok : BOOLEAN, seen : SUBSET known, reached : SUBSET known]
        BY <3>4 DEF WalkSound
      <4> HIDE DEF r, z, need
      <4> QED
        BY <4>1, <4>2
    <3>6. WalkTrees(known, needs, z, v[z]) /\ z[1] = n
      BY <3>4
    <3> HIDE DEF r, z, need
    <3> QED
      BY <2>1, <3>5, <3>6 DEF WalkTrees
  <2> QED
    BY <2>2, <2>3
<1> QED
  BY <1>0, <1>1, <1>2

\* So every service a walk launches has needs that form a tree.
LEMMA StartWalkTrees ==
    ASSUME NEW known, IsFiniteSet(known),
           NEW needs, NEW S, \A n \in known : needs[n] \in Seq(S), NEW name,
           NEW y \in StartWalk(known, needs, {}, name).reached
    PROVE  IsTree(known, needs, y)
<1> DEFINE v == WalkVisit(known, needs, {})
           Good == {x \in WalkPlace(known) : WalkTrees(known, needs, x, v[x])}
           at == <<name, 1, {}>>
<1>0. name \in known
  BY DEF StartWalk
<1>1. \A x \in WalkPlace(known) :
        /\ v[x] = WalkStep(known, needs, {}, v, x)
        /\ WalkSound(known, needs, {}, x, v[x]) /\ WalkOnce(needs, x, v[x])
  BY WalkVisitSteps, WalkVisitSound, WalkVisitOnce
<1>2. StartWalk(known, needs, {}, name) = v[at]
  BY <1>0, StartWalkVisits
<1> HIDE DEF v
<1>3. ASSUME NEW x \in WalkPlace(known),
             \A z \in WalkPlace(known) : WalkBefore(known, needs, z, x) => z \in Good
      PROVE  x \in Good
  <2>1. WalkTrees(known, needs, x, WalkStep(known, needs, {}, v, x))
    BY <1>1, <1>3, WalkStepTrees
  <2> QED
    BY <1>1, <2>1
<1>4. WalkPlace(known) \subseteq Good
  <2> HIDE DEF Good
  <2> QED
    BY <1>3, WalkInduction
<1>5. at \in WalkPlace(known) /\ at[1] = name
  BY <1>0 DEF WalkPlace
<1>6. WalkTrees(known, needs, at, v[at])
  BY <1>4, <1>5
<1>7. v[at].ok => IsTree(known, needs, name)
  BY <1>2, StartedAreTrees
<1> QED
  BY <1>2, <1>5, <1>6, <1>7 DEF WalkTrees

-----------------------------------------------------------------------------
(***************************************************************************)
(* Only finitely many services are known or on disk: each step changes one *)
(* name, or takes the files' for the services.                             *)
(***************************************************************************)
LEMMA FiniteNext == TypeOK /\ FiniteRegistry /\ [Next]_vars => FiniteRegistry'
<1> SUFFICES ASSUME TypeOK, FiniteRegistry, [Next]_vars PROVE FiniteRegistry'
  OBVIOUS
<1>1. ASSUME NEW n \in Name, \A m \in Name \ {n} : services'[m] = services[m]
      PROVE  IsFiniteSet(Known')
  <2>1. Known' \subseteq Known \cup {n}
    BY <1>1 DEF Known
  <2>2. IsFiniteSet(Known \cup {n})
    BY FS_AddElement DEF FiniteRegistry
  <2> QED
    BY <2>1, <2>2, FS_Subset
<1>2. ASSUME NEW n \in Name, \A m \in Name \ {n} : disk'[m] = disk[m]
      PROVE  IsFiniteSet(OnDisk')
  <2>1. OnDisk' \subseteq OnDisk \cup {n}
    BY <1>2 DEF OnDisk
  <2>2. IsFiniteSet(OnDisk \cup {n})
    BY FS_AddElement DEF FiniteRegistry
  <2> QED
    BY <2>1, <2>2, FS_Subset
<1>3. UNCHANGED services => IsFiniteSet(Known')
  BY DEF Known, FiniteRegistry
<1>4. UNCHANGED disk => IsFiniteSet(OnDisk')
  BY DEF OnDisk, FiniteRegistry
<1>5. GoDown => IsFiniteSet(Known')
  <2>1. GoDown => Known' = {}
    BY DEF GoDown, Known
  <2> QED
    BY <2>1, FS_EmptySet
<1>6. ASSUME NEW t \in Thread, th[t].pc # "idle"
      PROVE  th[t].name \in Name
  BY <1>6 DEF TypeOK, ThreadState
<1>7. ASSUME NEW t \in Thread, ThreadStep(t) PROVE FiniteRegistry'
  <2>1. CASE DefineCheck(t)
    <3>1. th[t].name \in Name /\ UNCHANGED services
      BY <2>1, <1>6 DEF DefineCheck
    <3>2. \A m \in Name \ {th[t].name} : disk'[m] = disk[m]
      BY <2>1 DEF DefineCheck, TypeOK
    <3> QED
      BY <1>2, <1>3, <3>1, <3>2 DEF FiniteRegistry
  <2>2. CASE DefineInsert(t)
    <3>1. th[t].name \in Name /\ UNCHANGED disk
      BY <2>2, <1>6 DEF DefineInsert
    <3>2. \A m \in Name \ {th[t].name} : services'[m] = services[m]
      BY <2>2 DEF DefineInsert, TypeOK
    <3> QED
      BY <1>1, <1>4, <3>1, <3>2 DEF FiniteRegistry
  <2>3. CASE DeleteRemove(t)
    <3>1. th[t].name \in Name
      BY <2>3, <1>6 DEF DeleteRemove
    <3>2. \A m \in Name \ {th[t].name} : services'[m] = services[m] /\ disk'[m] = disk[m]
      BY <2>3 DEF DeleteRemove, Forget, TypeOK
    <3> QED
      BY <1>1, <1>2, <3>1, <3>2 DEF FiniteRegistry
  <2>4. CASE UNCHANGED <<services, disk>>
    BY <2>4, <1>3, <1>4 DEF FiniteRegistry
  <2> QED
    BY <1>7, <2>1, <2>2, <2>3, <2>4
       DEF ThreadStep, DefineInstall, Start, StopBegin, StopReturn, DeleteCheck, Signal
<1>8. ASSUME NEW t \in Thread, AgentDiesWriting(t) PROVE FiniteRegistry'
  <2>1. th[t].name \in Name /\ GoDown
    BY <1>8, <1>6 DEF AgentDiesWriting
  <2>2. \A m \in Name \ {th[t].name} : disk'[m] = disk[m]
    BY <1>8 DEF AgentDiesWriting, TypeOK
  <2> QED
    BY <1>2, <1>5, <2>1, <2>2 DEF FiniteRegistry
<1>9. CASE AgentDies \/ RunReturns
  BY <1>9, <1>4, <1>5 DEF AgentDies, RunReturns, LeaveFiles, FiniteRegistry
<1>10. CASE Boot
  <2>1. Known' = OnDisk /\ UNCHANGED disk
    BY <1>10 DEF Boot, Known, OnDisk
  <2> QED
    BY <1>4, <2>1 DEF FiniteRegistry
<1>11. CASE UNCHANGED <<services, disk>>
  BY <1>11, <1>3, <1>4 DEF FiniteRegistry
<1> QED
  BY <1>7, <1>8, <1>9, <1>10, <1>11
     DEF Next, vars, Request, StopKill, Exit, Watch, Fire, Shutdown

\* At first nothing is known, nor on disk.
LEMMA InitFinite == Init => FiniteRegistry
<1> SUFFICES ASSUME Init PROVE FiniteRegistry
  OBVIOUS
<1>1. Known = {} /\ OnDisk = {}
  BY DEF Init, Known, OnDisk
<1> QED
  BY <1>1, FS_EmptySet DEF FiniteRegistry

\* There are always finitely many services and definition files.
THEOREM RegistryFinite == Spec => []FiniteRegistry
<1>1. TypeOK /\ FiniteRegistry /\ [Next]_vars => FiniteRegistry'
  BY FiniteNext
<1> QED
  BY <1>1, InitFinite, TypeCorrect, PTL DEF Spec

-----------------------------------------------------------------------------
(***************************************************************************)
(* Launches and exits leave the definition of a service alone.             *)
(***************************************************************************)
LEMMA DefFields ==
    ASSUME NEW s \in Service
    PROVE  /\ \A h \in Outcomes : Launched(s, h).def = s.def /\ Started(s, h).def = s.def
           /\ Ended(s).def = s.def /\ CrashedNow(s).def = s.def
           /\ Ended([s EXCEPT !.want = FALSE]).def = s.def
           /\ [s EXCEPT !.want = FALSE, !.status = "stopping"].def = s.def
<1>1. ASSUME NEW r \in Service, NEW how \in Outcomes PROVE Launched(r, how).def = r.def
  BY DEF Launched, Service, Outcomes
<1>2. ASSUME NEW how \in Outcomes PROVE Started(s, how).def = s.def
  <2> DEFINE w == [s EXCEPT !.want = TRUE]
  <2>1. w \in Service /\ w.def = s.def
    BY DEF Service
  <2>2. Started(s, how) \in {w, Launched(w, how)}
    BY DEF Started
  <2> HIDE DEF w
  <2> QED
    BY <1>1, <2>1, <2>2
<1>3. Ended([s EXCEPT !.want = FALSE]).def = s.def
  BY DEF Ended, Service
<1> QED
  BY <1>1, <1>2, <1>3 DEF Ended, CrashedNow, Service

LEMMA StartedDef ==
    ASSUME NEW s \in Service, NEW how \in Outcomes PROVE Started(s, how).def = s.def
BY DefFields

\* Only Define, boot and the end of the agent change definitions.
LEMMA DefKept ==
    ASSUME TypeOK, [Next]_vars, ~GoDown, ~Boot,
           \A t \in Thread : ~DefineInsert(t) /\ ~DefineInstall(t),
           NEW o \in Object
    PROVE  obj'[o].def = obj[o].def
<1> DEFINE s == obj[o]
<1>0. s \in Service
  BY DEF TypeOK
<1>a. /\ \A how \in Outcomes : Launched(s, how).def = s.def /\ Started(s, how).def = s.def
      /\ Ended(s).def = s.def /\ CrashedNow(s).def = s.def
      /\ Ended([s EXCEPT !.want = FALSE]).def = s.def
      /\ [s EXCEPT !.want = FALSE, !.status = "stopping"].def = s.def
  <2> HIDE DEF s
  <2> QED
    BY <1>0, DefFields
<1>1. CASE UNCHANGED obj
  BY <1>1
<1>2. ASSUME NEW t \in Thread, Start(t) PROVE obj'[o].def = obj[o].def
  <2>0. PICK broken \in SUBSET MayBreak : \E unpiped \in SUBSET broken :
           StartReached(Reached(th[t].name, broken), broken, unpiped)
    BY <1>2 DEF Start
  <2>1. PICK unpiped \in SUBSET broken :
           StartReached(Reached(th[t].name, broken), broken, unpiped)
    BY <2>0
  <2>2. obj'[o] \in {obj[o]} \cup {Started(obj[o], how) : how \in Outcomes}
    BY <2>1, OutcomeCases DEF StartReached
  <2> QED
    BY <2>2, <1>a
<1>3. ASSUME NEW t \in Thread, StopBegin(t) PROVE obj'[o].def = obj[o].def
  <2> DEFINE x == <<th[t].name, services[th[t].name]>>
  <2>1. \/ obj'[o] = obj[o]
        \/ obj'[o] = Ended([obj[o] EXCEPT !.want = FALSE])
        \/ obj'[o] = [obj[o] EXCEPT !.want = FALSE, !.status = "stopping"]
    <3>1. CASE o = x
      BY <1>3, <3>1 DEF StopBegin, TypeOK
    <3>2. CASE o # x
      BY <1>3, <3>2 DEF StopBegin, TypeOK
    <3> QED
      BY <3>1, <3>2
  <2> QED
    BY <2>1, <1>a
<1>4. ASSUME NEW p \in gone, Watch(p) PROVE obj'[o].def = obj[o].def
  <2> DEFINE x == <<p[1], p[2]>>
  <2>1. obj'[o] \in {obj[o], Ended(obj[o]), CrashedNow(obj[o])}
    <3>1. CASE o = x
      BY <1>4, <3>1 DEF Watch, TypeOK
    <3>2. CASE o # x
      BY <1>4, <3>2 DEF Watch, TypeOK
    <3> QED
      BY <3>1, <3>2
  <2> QED
    BY <2>1, <1>a
<1>5. ASSUME NEW p \in timers, Fire(p) PROVE obj'[o].def = obj[o].def
  <2> DEFINE x == <<p[1], p[2]>>
  <2>1. obj'[o] \in {obj[o]} \cup {Launched(obj[o], how) : how \in Outcomes}
    <3>1. CASE o = x
      BY <1>5, <3>1 DEF Fire, TypeOK, Outcomes
    <3>2. CASE o # x
      BY <1>5, <3>2 DEF Fire, TypeOK
    <3> QED
      BY <3>1, <3>2
  <2> QED
    BY <2>1, <1>a
<1> QED
  BY <1>1, <1>2, <1>3, <1>4, <1>5
     DEF Next, vars, ThreadStep, Request, DefineCheck, StopReturn, DeleteCheck,
         DeleteRemove, Signal, StopKill, Exit, AgentDies, AgentDiesWriting, RunReturns,
         Shutdown

(***************************************************************************)
(* Every service has a definition.                                         *)
(***************************************************************************)
LEMMA KnownDefinedNext == TypeOK /\ KnownDefined /\ [Next]_vars => KnownDefined'
<1> SUFFICES ASSUME TypeOK, KnownDefined, [Next]_vars PROVE KnownDefined'
  OBVIOUS
<1>1. CASE GoDown
  BY <1>1 DEF GoDown, KnownDefined, Known
<1>2. CASE Boot
  <2> SUFFICES ASSUME NEW n \in Known' PROVE Obj(n)'.def \in Definition
    BY DEF KnownDefined
  <2>1. n \in OnDisk /\ services'[n] = 1
    BY <1>2 DEF Boot, Known
  <2>2. disk[n] \in Definition
    BY <2>1 DEF TypeOK, OnDisk
  <2>3. NewService(disk[n]) \in Service /\ NewService(disk[n]).def = disk[n]
    BY <2>2, NewServiceType DEF NewService
  <2> DEFINE s == NewService(disk[n])
  <2>4. obj'[<<n, 1>>] \in {s} \cup {Started(s, how) : how \in Outcomes}
    <3>1. PICK broken : \E unpiped \in SUBSET broken : BootMakes(broken, unpiped)
      BY <1>2, BootChoice
    <3>2. PICK unpiped \in SUBSET broken : BootMakes(broken, unpiped)
      BY <3>1
    <3>3. \/ obj'[<<n, 1>>] = s
          \/ obj'[<<n, 1>>] = Started(s, Outcome(n, broken, unpiped))
      BY <2>1, <3>2, IncarnationAssumption DEF BootMakes, Object, OnDisk
    <3> HIDE DEF s
    <3> QED
      BY <3>3, OutcomeCases
  <2>5. \A how \in Outcomes : Started(s, how).def = disk[n]
    BY <2>3, DefFields
  <2> QED
    BY <2>1, <2>2, <2>3, <2>4, <2>5 DEF Obj
<1>3. ASSUME NEW t \in Thread, DefineInsert(t) PROVE KnownDefined'
  <2> DEFINE n == th[t].name
             k == made[n] + 1
  <2>1. n \in Name /\ th[t].def \in Definition /\ k \in Incarnation
    BY <1>3 DEF DefineInsert, TypeOK, ThreadState
  <2>2. obj'[<<n, k>>] = NewService(th[t].def) /\ services'[n] = k
    BY <1>3, <2>1 DEF DefineInsert, TypeOK, Object
  <2>3. ASSUME NEW m \in Known', m # n PROVE m \in Known /\ Obj(m)' = Obj(m)
    <3>1. m \in Name /\ services'[m] = services[m] /\ services[m] # 0
      BY <1>3, <2>3 DEF DefineInsert, TypeOK, Known
    <3>2. obj'[<<m, services[m]>>] = obj[<<m, services[m]>>]
      BY <1>3, <2>3, <3>1 DEF DefineInsert, TypeOK, Object
    <3> QED
      BY <3>1, <3>2 DEF Known, Obj
  <2>4. obj'[<<n, services'[n]>>].def \in Definition
    <3> HIDE DEF n, k
    <3> QED
      BY <2>1, <2>2 DEF NewService
  <2>5. ASSUME NEW m \in Known' PROVE Obj(m)'.def \in Definition
    <3>1. CASE m = n
      BY <2>4, <3>1 DEF Obj
    <3>2. CASE m # n
      <4> HIDE DEF n, k
      <4> QED
        BY <2>3, <3>2 DEF KnownDefined
    <3> QED
      BY <3>1, <3>2
  <2> QED
    BY <2>5 DEF KnownDefined
<1>4. ASSUME NEW t \in Thread, DefineInstall(t) PROVE KnownDefined'
  <2>1. th[t].def \in Definition /\ services' = services
    BY <1>4 DEF DefineInstall, TypeOK, ThreadState
  <2>2. ASSUME NEW m \in Known PROVE obj'[<<m, services[m]>>].def \in {Obj(m).def, th[t].def}
    <3>1. <<m, services[m]>> \in Object /\ obj[<<m, services[m]>>] \in Service
      BY KnownObject DEF Obj
    <3> QED
      BY <1>4, <3>1 DEF DefineInstall, TypeOK, Obj, Service
  <2> QED
    BY <2>1, <2>2 DEF KnownDefined, Known, Obj
<1>5. CASE /\ ~GoDown /\ ~Boot
           /\ \A t \in Thread : ~DefineInsert(t) /\ ~DefineInstall(t)
  <2>1. ASSUME NEW n \in Known' PROVE n \in Known /\ services'[n] = services[n]
    <3>1. CASE UNCHANGED services
      BY <3>1 DEF Known
    <3>2. ASSUME NEW t \in Thread, DeleteRemove(t) PROVE n \in Known /\ services'[n] = services[n]
      BY <3>2 DEF DeleteRemove, Forget, TypeOK, Known
    <3> QED
      BY <1>5, <3>1, <3>2
         DEF Next, vars, ThreadStep, Request, DefineCheck, Start, StopBegin, StopReturn,
             DeleteCheck, Signal, StopKill, Exit, Watch, Fire, AgentDies,
             AgentDiesWriting, RunReturns, Shutdown
  <2>2. \A o \in Object : obj'[o].def = obj[o].def
    BY <1>5, DefKept
  <2> QED
    BY <2>1, <2>2, KnownObject DEF KnownDefined, Obj
<1> QED
  BY <1>1, <1>2, <1>3, <1>4, <1>5

\* A known service has a definition, not the null a torn file would leave.
THEOREM ServicesAreDefined == Spec => []KnownDefined
<1>1. Init => KnownDefined
  BY DEF Init, KnownDefined, Known
<1>2. TypeOK /\ KnownDefined /\ [Next]_vars => KnownDefined'
  BY KnownDefinedNext
<1> QED
  BY <1>1, <1>2, TypeCorrect, PTL DEF Spec

-----------------------------------------------------------------------------
\* An agent that is down can only boot.
LEMMA DownOnlyBoots ==
    ASSUME DownIsEmpty, Next, phase = "down" PROVE Boot
<1>1. live = {} /\ gone = {} /\ timers = {} /\ \A t \in Thread : th[t].pc = "idle"
  BY DEF DownIsEmpty
<1>2. ASSUME NEW t \in Thread PROVE ~ThreadStep(t) /\ ~StopKill(t) /\ ~AgentDiesWriting(t)
  BY <1>1 DEF ThreadStep, DefineCheck, DefineInsert, DefineInstall, Start, StopBegin,
              StopReturn, DeleteCheck, DeleteRemove, Signal, StopKill, AgentDiesWriting
<1> QED
  BY <1>1, <1>2 DEF Next, Request, AgentDies, Shutdown, RunReturns

(***************************************************************************)
(* A Start that launches a service launches its needs, unless they run.    *)
(***************************************************************************)
LEMMA StartServesNeeds ==
    ASSUME IInv, FiniteRegistry, KnownDefined, NEW t \in Thread, Start(t),
           NEW n \in Known, Obj(n).pid = 0, Obj(n)'.pid # 0,
           NEW m \in Range(Obj(n)'.def.needs)
    PROVE  Running(m)'
<1>0. PICK broken \in SUBSET MayBreak : \E unpiped \in SUBSET broken :
         StartReached(Reached(th[t].name, broken), broken, unpiped)
  BY DEF Start
<1>1. PICK unpiped \in SUBSET broken :
         StartReached(Reached(th[t].name, broken), broken, unpiped)
  BY <1>0
<1> DEFINE how(x) == Outcome(x, broken, unpiped)
<1>a. \A x : how(x) \in Outcomes /\ (x \notin broken => how(x) = "ok")
  BY OutcomeCases
<1> DEFINE reached == Reached(th[t].name, broken)
<1>2. services' = services
  BY DEF Start
<1>3. \A o \in Object : obj'[o] = IF o[1] \in reached /\ o[2] = services[o[1]]
                                  THEN Started(obj[o], how(o[1]))
                                  ELSE obj[o]
  BY <1>1 DEF StartReached
<1>4. ASSUME NEW x \in Known
      PROVE  /\ <<x, services[x]>> \in Object /\ Obj(x) \in Service /\ x \in Name
             /\ Obj(x)' = IF x \in reached THEN Started(Obj(x), how(x)) ELSE Obj(x)
  <2>1. <<x, services[x]>> \in Object /\ Obj(x) \in Service /\ x \in Name
    BY KnownObject DEF IInv
  <2> HIDE DEF reached, how
  <2> QED
    BY <1>2, <1>3, <2>1 DEF Obj
<1> HIDE DEF how
<1>5. n \in reached /\ Range(Obj(n)'.def.needs) = Range(NeedsOf[n])
  <2>1. n \in reached
    <3> HIDE DEF reached
    <3> QED
      BY <1>4
  <2>2. Obj(n)' = Started(Obj(n), how(n))
    <3> HIDE DEF reached
    <3> QED
      BY <1>4, <2>1
  <2>3. Obj(n)'.def = Obj(n).def
    BY <1>4, <1>a, <2>2, StartedDef
  <2> QED
    BY <2>1, <2>3 DEF NeedsOf
<1>6. \A x \in Known : NeedsOf[x] \in Seq(Name)
  BY DEF KnownDefined, NeedsOf, Definition
<1>7. IsFiniteSet(Known)
  BY DEF FiniteRegistry
<1>8. ASSUME NEW y \in reached PROVE y \in Known /\ Range(NeedsOf[y]) \subseteq reached \ broken
  <2>1. y \in StartWalk(Known, NeedsOf, broken, th[t].name).reached
    BY DEF Reached
  <2> QED
    BY <1>6, <1>7, <2>1, StartWalkServes DEF Reached
<1>9. m \in reached \ broken /\ m \in Known
  BY <1>5, <1>8
<1> HIDE DEF reached
<1>10. Obj(m)' = Started(Obj(m), "ok")
  BY <1>4, <1>9, <1>a
<1>11. Started(Obj(m), "ok").pid # 0
  <2>a. Obj(m) \in Service
    BY <1>4, <1>9
  <2>b. Obj(m).gen \in Nat
    BY <2>a DEF Service
  <2>0. Obj(m) \in Service /\ Obj(m).gen + 1 # 0
    BY <2>a, <2>b
  <2>1. CASE Obj(m).pid = 0
    BY <2>0, <2>1, StartedFields
  <2>2. CASE Obj(m).pid # 0
    BY <2>0, <2>2 DEF Started, Service
  <2> QED
    BY <2>1, <2>2
<1> QED
  BY <1>2, <1>9, <1>10, <1>11 DEF Running, Known

(***************************************************************************)
(* Boot launches a service only with its needs.                            *)
(***************************************************************************)
LEMMA BootServesNeeds ==
    ASSUME IInv, FiniteRegistry, Boot, NEW n \in Name, Running(n)',
           NEW m \in Range(Obj(n)'.def.needs)
    PROVE  Running(m)'
<1> DEFINE new(x) == NewService(disk[x])
           needs == [x \in OnDisk |-> disk[x].needs]
<1>1. \A x \in Name : services'[x] = IF x \in OnDisk THEN 1 ELSE 0
  BY DEF Boot
<1>0. PICK broken \in SUBSET (OnDisk \cap Fragile) :
         \E unpiped \in SUBSET broken : BootMakes(broken, unpiped)
  BY BootChoice
<1>2. PICK unpiped \in SUBSET broken : BootMakes(broken, unpiped)
  BY <1>0
<1> DEFINE how(x) == Outcome(x, broken, unpiped)
<1>a. \A x : how(x) \in Outcomes /\ (x \notin broken => how(x) = "ok")
  BY OutcomeCases
<1>3. ASSUME NEW x \in OnDisk
      PROVE  /\ x \in Name /\ disk[x] \in Definition /\ services'[x] = 1
             /\ new(x) \in Service /\ new(x).pid = 0 /\ new(x).gen = 0 /\ new(x).def = disk[x]
             /\ Obj(x)' = IF x \in BootReached(broken) THEN Started(new(x), how(x))
                          ELSE new(x)
  <2>1. x \in Name /\ disk[x] \in Definition /\ <<x, 1>> \in Object
    BY IncarnationAssumption DEF IInv, TypeOK, OnDisk, Object
  <2>2. new(x) \in Service /\ new(x).pid = 0 /\ new(x).gen = 0 /\ new(x).def = disk[x]
    BY <2>1, NewServiceType DEF NewService
  <2>3. services'[x] = 1
    BY <1>1, <2>1
  <2>4. obj'[<<x, 1>>] = IF x \in BootReached(broken) THEN Started(new(x), how(x))
                         ELSE new(x)
    BY <1>2, <2>1 DEF BootMakes
  <2> QED
    BY <2>1, <2>2, <2>3, <2>4 DEF Obj
<1>4. n \in OnDisk /\ Obj(n)'.pid # 0
  BY <1>1 DEF Running
<1> HIDE DEF new, how
<1>5. n \in BootReached(broken)
  BY <1>3, <1>4
<1>6. Obj(n)'.def = disk[n]
  <2>1. Obj(n)' = Started(new(n), how(n))
    BY <1>3, <1>4, <1>5
  <2>2. new(n) \in Service /\ new(n).def = disk[n]
    BY <1>3, <1>4
  <2> QED
    BY <1>a, <2>1, <2>2, StartedDef
<1>7. PICK z \in OnDisk : n \in StartWalk(OnDisk, needs, broken, z).reached
  BY <1>5 DEF BootReached
<1>8. \A x \in OnDisk : needs[x] \in Seq(Name)
  BY <1>3 DEF Definition
<1>9. m \in Range(needs[n])
  BY <1>4, <1>6
<1> HIDE DEF needs
<1>10. Range(needs[n]) \subseteq StartWalk(OnDisk, needs, broken, z).reached \ broken
  BY <1>7, <1>8, StartWalkServes DEF FiniteRegistry
<1>11. m \in StartWalk(OnDisk, needs, broken, z).reached /\ m \notin broken
  BY <1>9, <1>10
<1>12. m \in OnDisk
  BY <1>8, <1>11, StartWalkServes DEF FiniteRegistry
<1>13. m \in BootReached(broken)
  BY <1>11 DEF BootReached, needs
<1>14. Obj(m)' = Started(new(m), "ok")
  BY <1>3, <1>11, <1>12, <1>13, <1>a
<1>15. Started(new(m), "ok").pid # 0 /\ services'[m] # 0
  <2>1. new(m) \in Service /\ new(m).pid = 0 /\ new(m).gen + 1 = 1 /\ services'[m] = 1
    BY <1>3, <1>12
  <2>2. Started(new(m), "ok").pid = new(m).gen + 1
    BY <2>1, StartedFields
  <2>3. Started(new(m), "ok").pid = 1 /\ services'[m] = 1
    BY <2>1, <2>2
  <2>4. 1 # 0
    OBVIOUS
  <2> QED
    BY <2>3, <2>4, Zenon
<1> QED
  BY <1>14, <1>15 DEF Running

(***************************************************************************)
(* startLocked brings up the needs first: a service that a Start or the    *)
(* boot launches has all its needs running, whatever else happens.         *)
(***************************************************************************)
THEOREM NeedsComeFirst == Spec => NeedsFirst
<1> DEFINE step ==
      timers' = timers =>
         \A n \in Name :
            Running(n)' /\ (phase = "down" \/ obj[<<n, services'[n]>>].pid = 0) =>
                \A m \in Range(Obj(n)'.def.needs) : Running(m)'
<1>1. IInv /\ FiniteRegistry /\ KnownDefined /\ [Next]_vars => step \/ UNCHANGED vars
  <2> SUFFICES ASSUME IInv, FiniteRegistry, KnownDefined, Next, timers' = timers,
                      NEW n \in Name, Running(n)',
                      phase = "down" \/ obj[<<n, services'[n]>>].pid = 0,
                      NEW m \in Range(Obj(n)'.def.needs)
               PROVE  Running(m)'
    OBVIOUS
  <2>1. CASE phase = "down"
    <3>1. Boot
      BY <2>1, DownOnlyBoots DEF IInv
    <3> QED
      BY <3>1, BootServesNeeds
  <2>2. CASE phase # "down"
    <3>1. <<n, services'[n]>> \in Object /\ obj'[<<n, services'[n]>>].pid # 0
      <4>1. TypeOK'
        BY TypeNext DEF IInv
      <4>2. services'[n] \in Incarnation
        BY <4>1 DEF TypeOK, Running
      <4> QED
        BY <4>2 DEF Running, Obj, Object
    <3>2. PICK t \in Thread : Start(t)
      BY <2>2, <3>1, OnlyStartLaunches DEF IInv
    <3>3. services' = services
      BY <3>2 DEF Start
    <3>4. n \in Known /\ Obj(n).pid = 0 /\ Obj(n)'.pid # 0
      BY <2>2, <3>3 DEF Running, Known, Obj
    <3> QED
      BY <3>2, <3>4, StartServesNeeds
  <2> QED
    BY <2>1, <2>2
<1> QED
  BY <1>1, InductiveInvariant, RegistryFinite, ServicesAreDefined, PTL DEF Spec, NeedsFirst

(***************************************************************************)
(* What runs after a boot at which every launch succeeds is what it        *)
(* reached.                                                                *)
(***************************************************************************)
LEMMA BootRunsReached ==
    ASSUME IInv, Fragile = {}, Boot, NEW n \in OnDisk
    PROVE  Running(n)' <=> n \in BootReached({})
<1> DEFINE new == NewService(disk[n])
<1>1. n \in Name /\ services'[n] = 1 /\ <<n, 1>> \in Object
  BY IncarnationAssumption DEF Boot, OnDisk, Object
<1>2. obj'[<<n, 1>>] = IF n \in BootReached({}) THEN Started(new, "ok") ELSE new
  <2>1. PICK broken \in SUBSET (OnDisk \cap Fragile) :
           \E unpiped \in SUBSET broken : BootMakes(broken, unpiped)
    BY BootChoice
  <2>2. PICK unpiped \in SUBSET broken : BootMakes(broken, unpiped)
    BY <2>1
  <2>3. broken = {}
    BY <2>1
  <2>4. Outcome(n, broken, unpiped) = "ok"
    BY <2>3, OutcomeCases
  <2> QED
    BY <1>1, <2>2, <2>3, <2>4 DEF BootMakes
<1>3. new \in Service /\ new.pid = 0 /\ new.gen + 1 = 1
  <2>1. disk[n] \in Definition
    BY <1>1 DEF OnDisk, IInv, TypeOK
  <2> QED
    BY <2>1, NewServiceType DEF NewService
<1> HIDE DEF new
<1>4. Started(new, "ok").pid = 1
  <2>1. Started(new, "ok").pid = new.gen + 1
    BY <1>3, StartedFields
  <2> QED
    BY <1>3, <2>1
<1>5. Obj(n)' = obj'[<<n, 1>>]
  BY <1>1 DEF Obj
<1>6. Running(n)' <=> obj'[<<n, 1>>].pid # 0
  <2>1. 1 # 0
    OBVIOUS
  <2> QED
    BY <1>1, <1>5, <2>1 DEF Running
<1>7. CASE n \in BootReached({})
  <2>1. obj'[<<n, 1>>].pid = 1 /\ 1 # 0
    BY <1>2, <1>4, <1>7
  <2> QED
    BY <1>6, <1>7, <2>1
<1>8. CASE n \notin BootReached({})
  <2>1. obj'[<<n, 1>>].pid = 0
    BY <1>2, <1>3, <1>8
  <2> QED
    BY <1>6, <1>8, <2>1
<1> QED
  BY <1>7, <1>8

\* And it reached what is a tree in the files.
LEMMA BootReachesTrees ==
    ASSUME IInv, FiniteRegistry, NEW n \in OnDisk
    PROVE  n \in BootReached({}) <=> IsTree(OnDisk, [m \in OnDisk |-> disk[m].needs], n)
<1> DEFINE needs == [m \in OnDisk |-> disk[m].needs]
<1>1. \A m \in OnDisk : needs[m] \in Seq(Name)
  BY DEF OnDisk, IInv, TypeOK, Definition
<1> HIDE DEF needs
<1>2. ASSUME IsTree(OnDisk, needs, n) PROVE n \in BootReached({})
  <2>1. n \in StartWalk(OnDisk, needs, {}, n).reached
    BY <1>1, <1>2, StartWalkTree DEF FiniteRegistry
  <2> QED
    BY <2>1 DEF BootReached, needs
<1>3. ASSUME n \in BootReached({}) PROVE IsTree(OnDisk, needs, n)
  <2>1. PICK z \in OnDisk : n \in StartWalk(OnDisk, needs, {}, z).reached
    BY <1>3 DEF BootReached, needs
  <2> QED
    BY <1>1, <2>1, StartWalkTrees DEF FiniteRegistry
<1> QED
  BY <1>2, <1>3 DEF needs

(***************************************************************************)
(* When every launch succeeds, boot starts exactly the services on disk    *)
(* whose needs form a tree, in whatever order the files come and whatever  *)
(* requests and failures wrote them: a service started as a need of        *)
(* another is not started again, nor refused.                              *)
(***************************************************************************)
THEOREM TreesComeUp == Spec => BootStartsTrees
<1> DEFINE step ==
      phase = "down" /\ phase' = "up" /\ Fragile = {} =>
         \A n \in OnDisk :
            Running(n)' <=> IsTree(OnDisk, [m \in OnDisk |-> disk[m].needs], n)
<1>1. IInv /\ FiniteRegistry /\ [Next]_vars => step
  <2> SUFFICES ASSUME IInv, FiniteRegistry, [Next]_vars, phase = "down", phase' = "up",
                      Fragile = {}, NEW n \in OnDisk
               PROVE  Running(n)' <=> IsTree(OnDisk, [m \in OnDisk |-> disk[m].needs], n)
    OBVIOUS
  <2>1. Boot
    <3>1. Next /\ DownIsEmpty
      BY DEF vars, IInv
    <3> QED
      BY <3>1, DownOnlyBoots
  <2> QED
    BY <2>1, BootRunsReached, BootReachesTrees
<1> QED
  BY <1>1, InductiveInvariant, RegistryFinite, PTL DEF Spec, BootStartsTrees

-----------------------------------------------------------------------------
(***************************************************************************)
(* Sound definitions stay sound among fewer names that need no others.     *)
(***************************************************************************)
LEMMA SoundFewer ==
    ASSUME NEW known, NEW def, Sound(known, def), NEW fewer \in SUBSET known, NEW less,
           \A n \in fewer : less[n] = def[n],
           \A n \in fewer : Range(def[n].needs) \subseteq fewer
    PROVE  Sound(fewer, less)
<1>1. \A m, n \in fewer : less[m].port /\ less[n].port => m = n
  BY DEF Sound
<1>2. \A n \in fewer : Range(less[n].needs) \subseteq fewer
  OBVIOUS
<1>3. Acyclic(fewer, [n \in fewer |-> less[n].needs])
  <2> DEFINE big == [n \in known |-> def[n].needs]
             small == [n \in fewer |-> less[n].needs]
  <2>1. Acyclic(known, big)
    BY DEF Sound
  <2>2. \A n \in fewer : small[n] = big[n]
    OBVIOUS
  <2> HIDE DEF big, small
  <2>3. Acyclic(fewer, small)
    BY <2>1, <2>2, AcyclicFewer
  <2> QED
    BY <2>3 DEF small
<1> QED
  BY <1>1, <1>2, <1>3 DEF Sound

\* A definition is neither the absence of one nor a file that does not parse.
LEMMA DefIsFile == ASSUME NEW d \in Definition PROVE d \notin {NoDef, Torn}
<1>1. DOMAIN d = {"needs", "port"}
  BY DEF Definition
<1>2. DOMAIN NoDef = {"file"} /\ DOMAIN Torn = {"file"}
  BY DEF NoDef, Torn
<1>3. "needs" # "file"
  OBVIOUS
<1> QED
  BY <1>1, <1>2, <1>3

\* What is in the files is sound, so it is in the memory that agrees with them.
LEMMA AgreeingIsSound ==
    ASSUME FilesSound, \A n \in Name : MeantAgrees(n), KnownDefined
    PROVE  MemorySound /\ Known = MeantNames
<1> DEFINE mem == [n \in Known |-> Obj(n).def]
<1>1. \A n \in Known : n \in MeantNames /\ mem[n] = meant[n]
  BY DefIsFile DEF MeantAgrees, KnownDefined, MeantNames, Known
<1>2. \A n \in MeantNames : n \in Known
  BY DEF MeantAgrees, MeantNames
<1>3. Known \in SUBSET MeantNames /\ \A n \in Known : mem[n] = meant[n]
  BY <1>1
<1> HIDE DEF mem
<1>4. ASSUME Sound(MeantNames, meant) PROVE Sound(Known, mem)
  <2>1. \A n \in Known : Range(meant[n].needs) \subseteq Known
    BY <1>1, <1>2, <1>4 DEF Sound
  <2> QED
    BY <1>3, <1>4, <2>1, SoundFewer
<1> QED
  BY <1>1, <1>2, <1>4 DEF FilesSound, MemorySound, mem

(***************************************************************************)
(* The checks Define makes keep the files sound when it writes its own.    *)
(***************************************************************************)
LEMMA AcceptedIsSound ==
    ASSUME TypeOK, FiniteRegistry, KnownDefined, FilesSound, \A n \in Name : MeantAgrees(n),
           NEW n \in Name, NEW d \in Definition, Accepted(n, d),
           meant' = [meant EXCEPT ![n] = d], UNCHANGED lost
    PROVE  FilesSound'
<1> DEFINE needs == [m \in Known |-> Obj(m).def.needs]
           after == [m \in MeantNames' |-> meant'[m].needs]
<1> SUFFICES ASSUME ~lost PROVE Sound(MeantNames, meant)'
  BY DEF FilesSound
<1>1. Known = MeantNames /\ MemorySound
  BY AgreeingIsSound
<1>2. \A m \in Known : m \in Name /\ meant[m] = Obj(m).def /\ Obj(m).def \in Definition
  BY DEF MeantAgrees, KnownDefined, Known
<1>3. meant'[n] = d /\ \A m \in Name \ {n} : meant'[m] = meant[m]
  BY DEF TypeOK
<1>4. MeantNames' = Known \cup {n}
  <2>1. d \notin {NoDef, Torn}
    BY DefIsFile
  <2>2. MeantNames' = MeantNames \cup {n}
    BY <1>3, <2>1 DEF MeantNames
  <2> QED
    BY <1>1, <2>2
<1>5. \A x, y \in MeantNames' : meant'[x].port /\ meant'[y].port => x = y
  <2>1. d.port => \A m \in Known \ {n} : ~meant'[m].port
    BY <1>2, <1>3 DEF Accepted, PortFree
  <2>2. \A x, y \in Known : meant[x].port /\ meant[y].port => x = y
    BY <1>1 DEF FilesSound, Sound
  <2> QED
    BY <1>2, <1>4, <1>3, <2>1, <2>2
<1>6. /\ \A m \in MeantNames' : Range(meant'[m].needs) \subseteq MeantNames'
      /\ Acyclic(MeantNames', after)
  <2>1. Range(d.needs) \subseteq Known \ {n}
    BY DEF Accepted, NeedsKnown
  <2>2. /\ \A m \in Known : Range(needs[m]) \subseteq Known
        /\ Acyclic(Known, needs)
    <3>1. /\ \A m \in Known : Range([x \in Known |-> Obj(x).def][m].needs) \subseteq Known
          /\ Acyclic(Known, [m \in Known |-> [x \in Known |-> Obj(x).def][m].needs])
      BY <1>1 DEF MemorySound, Sound
    <3>2. [m \in Known |-> [x \in Known |-> Obj(x).def][m].needs] = needs
      OBVIOUS
    <3> QED
      BY <3>1, <3>2
  <2>3. /\ after[n] = d.needs
        /\ \A m \in Known \ {n} : after[m] = needs[m] /\ meant'[m].needs = needs[m]
    BY <1>2, <1>4, <1>3
  <2>4. \A m \in MeantNames' : Range(meant'[m].needs) \subseteq MeantNames'
    <3> HIDE DEF needs, after
    <3> QED
      BY <1>4, <1>3, <2>1, <2>2, <2>3
  <2>5. CASE n \notin Known
    <3> HIDE DEF needs, after
    <3>1. n \notin Range(after[n]) /\ \A m \in Known : after[m] = needs[m]
      BY <2>1, <2>3, <2>5
    <3>2. Acyclic(Known \cup {n}, after)
      BY <2>2, <2>5, <3>1, AcyclicNew
    <3> QED
      BY <1>4, <2>4, <3>2
  <2>6. CASE n \in Known
    <3> DEFINE new == [NeedsOf EXCEPT ![n] = d.needs]
    <3>1. ~HasCycle(Known, new, n)
      BY <2>6 DEF Accepted, StaysAcyclic
    <3>2. new[n] = d.needs /\ \A m \in Known \ {n} : new[m] = needs[m]
      BY <2>6 DEF NeedsOf
    <3> HIDE DEF needs, after, new
    <3>3. Acyclic(Known, new)
      BY <2>2, <2>6, <3>1, <3>2, AcyclicRedefined DEF FiniteRegistry
    <3>4. Known \in SUBSET Known /\ \A m \in Known : after[m] = new[m]
      BY <2>3, <3>2
    <3>5. Acyclic(Known, after)
      BY <3>3, <3>4, AcyclicFewer
    <3>6. MeantNames' = Known
      BY <1>4, <2>6
    <3> QED
      BY <2>4, <3>5, <3>6
  <2> QED
    BY <2>5, <2>6
<1> QED
  BY <1>5, <1>6 DEF Sound

(***************************************************************************)
(* Who changes the registry: a client, in a Define or a Delete, and no     *)
(* other beside it.                                                        *)
(***************************************************************************)
LEMMA OnlyOneWriter ==
    ASSUME IInv, OneWriter, NamesOnlyStop, NEW t \in Thread, Changing(t)
    PROVE  /\ t \in Client /\ t \notin Name /\ phase # "down"
           /\ \A c \in Client : c # t => ~Changing(c) /\ ~Putting(c)
<1>1. t \in Client /\ t \notin Name
  BY ActorAssumption DEF NamesOnlyStop, Thread, Changing
<1>2. phase # "down"
  BY DEF IInv, DownIsEmpty, Changing
<1>3. \A c \in Client : c # t => ~Changing(c)
  BY <1>1 DEF OneWriter
<1> QED
  BY <1>1, <1>2, <1>3 DEF Putting, Changing

\* A thread in the middle of anything but a Stop is a client.
LEMMA ClientAtWork ==
    ASSUME NamesOnlyStop, NEW t \in Thread, th[t].pc \notin {"idle", "stop", "stopping"}
    PROVE  t \in Client /\ t \notin Name
BY ActorAssumption DEF NamesOnlyStop, Thread

\* Only the name a PUT works on may differ between file and memory.
LEMMA OthersAgree ==
    ASSUME IInv, OneWriter, NamesOnlyStop, FilesAgree, NEW t \in Thread, Changing(t)
    PROVE  /\ \A n \in Name \ {th[t].name} : MeantAgrees(n)
           /\ ~Putting(t) => \A n \in Name : MeantAgrees(n)
BY OnlyOneWriter DEF FilesAgree

(***************************************************************************)
(* Steps that leave the registry's definitions and the files alone.        *)
(***************************************************************************)
LEMMA SameRegistry ==
    ASSUME TypeOK, FilesSound, MemorySound, UNCHANGED <<services, meant, lost>>,
           \A o \in Object : obj'[o].def = obj[o].def
    PROVE  /\ FilesSound' /\ MemorySound' /\ Known' = Known
           /\ \A n \in Name : MeantAgrees(n)' = MeantAgrees(n) /\ Needed(n)' = Needed(n)
<1>1. Known' = Known /\ MeantNames' = MeantNames
  BY DEF Known, MeantNames
<1>2. \A n \in Known : n \in Name /\ Obj(n)'.def = Obj(n).def
  BY KnownObject DEF Obj
<1>3. FilesSound'
  BY <1>1 DEF FilesSound, Sound
<1>4. [n \in Known |-> Obj(n).def]' = [n \in Known |-> Obj(n).def]
  BY <1>1, <1>2
<1>5. MemorySound'
  <2>1. ~lost => Sound(Known', [n \in Known |-> Obj(n).def]')
    BY <1>1, <1>4 DEF MemorySound
  <2> QED
    BY <2>1 DEF MemorySound, Sound
<1>6. \A n \in Name : MeantAgrees(n)' = MeantAgrees(n)
  BY <1>1, <1>2 DEF MeantAgrees
<1>7. \A n \in Name : Needed(n)' = Needed(n)
  BY <1>1, <1>2 DEF Needed
<1> QED
  BY <1>1, <1>3, <1>5, <1>6, <1>7

\* Whoever takes such a step must still know enough.
LEMMA KeptStep ==
    ASSUME IInv, Agreed, UNCHANGED <<services, meant, lost>>, phase = "down" => phase' = "down",
           phase' = "down" => phase = "down" /\ UNCHANGED disk,
           \A o \in Object : obj'[o].def = obj[o].def,
           \A c \in Client : \/ th'[c] = th[c]
                             \/ /\ Putting(c) => Putting(c)' /\ th'[c].name = th[c].name
                                /\ (PutKnows(c) /\ DeleteKnows(c))',
           NamesOnlyStop'
    PROVE  Agreed'
<1>1. /\ FilesSound' /\ MemorySound' /\ Known' = Known
      /\ \A n \in Name : MeantAgrees(n)' = MeantAgrees(n) /\ Needed(n)' = Needed(n)
  BY SameRegistry DEF IInv, Agreed
<1>2. \A c \in Client : Putting(c) => Putting(c)' /\ th'[c].name = th[c].name
  BY DEF Putting
<1>3. FilesAgree'
  BY <1>1, <1>2 DEF Agreed, FilesAgree
<1>4. ASSUME NEW c \in Client, th'[c] = th[c] PROVE (PutKnows(c) /\ DeleteKnows(c))'
  <2>1. PutKnows(c) /\ DeleteKnows(c) /\ Putting(c)' = Putting(c) /\ Changing(c)' = Changing(c)
    BY <1>4 DEF Agreed, Putting, Changing
  <2>2. PutKnows(c)'
    BY <1>1, <1>4, <2>1 DEF PutKnows
  <2>3. Changing(c) => th[c].name \in Name
    <3>1. c \in Thread
      BY DEF Thread
    <3> QED
      BY <3>1 DEF IInv, TypeOK, ThreadState, Changing
  <2>4. Changing(c) /\ th[c].op = "delete" => ~Needed(th[c].name)'
    <3>1. ASSUME NEW n \in Name, Changing(c), th[c].op = "delete", n = th[c].name
          PROVE  ~Needed(n)'
      BY <1>1, <2>1, <3>1 DEF DeleteKnows
    <3> QED
      BY <1>4, <2>3, <3>1
  <2> QED
    BY <1>4, <2>1, <2>2, <2>4 DEF DeleteKnows, Needed
<1> QED
  BY <1>1, <1>3, <1>4 DEF Agreed

\* A client that has returned knows nothing, and need not.
LEMMA ReturnedKnows ==
    ASSUME NEW t, th'[t] = Idle
    PROVE  (PutKnows(t) /\ DeleteKnows(t))' /\ ~Putting(t)'
BY DEF PutKnows, DeleteKnows, Putting, Changing, Idle, Thd

(***************************************************************************)
(* A request arrives: what it is about to do it has still to check.        *)
(***************************************************************************)
LEMMA RequestFields ==
    ASSUME TypeOK, NEW c \in Client, Request(c)
    PROVE  /\ UNCHANGED <<phase, services, files, obj>> /\ th[c].pc = "idle"
           /\ \A u \in Thread : u # c => th'[u] = th[u]
           /\ th'[c].pc \notin {"stopping", "remove", "insert", "install"}
           /\ th'[c].pc = "stop" => th'[c].op \notin {"put", "delete"}
<1>1. PICK op \in Ops, n \in Name, d \in PutDefs \cup {NoDef} :
        th' = [th EXCEPT ![c] = Thd(Entry[op], op, n, d)]
  BY DEF Request
<1>2. /\ UNCHANGED <<phase, services, files, obj>> /\ th[c].pc = "idle"
      /\ \A u \in Thread : u # c => th'[u] = th[u]
      /\ th'[c].pc = Entry[op] /\ th'[c].op = op
  BY <1>1 DEF Request, TypeOK, Thread, Thd
<1>3. /\ Entry[op] \notin {"stopping", "remove", "insert", "install"}
      /\ Entry[op] = "stop" => op \notin {"put", "delete"}
  BY OpsAssumption DEF AllOps, Entry
<1> QED
  BY <1>2, <1>3

LEMMA RequestAgreed ==
    ASSUME IInv, Agreed, NEW c \in Client, Request(c) PROVE Agreed'
<1>1. /\ UNCHANGED <<phase, services, files, obj>> /\ th[c].pc = "idle"
      /\ \A u \in Thread : u # c => th'[u] = th[u]
      /\ th'[c].pc \notin {"stopping", "remove", "insert", "install"}
      /\ th'[c].pc = "stop" => th'[c].op \notin {"put", "delete"}
  BY RequestFields DEF IInv
<1>2. (PutKnows(c) /\ DeleteKnows(c))' /\ ~Putting(c)
  BY <1>1 DEF PutKnows, DeleteKnows, Putting, Changing
<1>3. \A b \in Client : th'[b] = th[b] \/ b = c
  BY <1>1 DEF Thread
<1>4. NamesOnlyStop'
  BY <1>1, ActorAssumption DEF Agreed, NamesOnlyStop, Thread
<1> QED
  BY <1>1, <1>2, <1>3, <1>4, KeptStep

(***************************************************************************)
(* The environment (processes, timers, StopAll's beginning) changes no     *)
(* definition and no client, and makes no service that is not wanted run.  *)
(***************************************************************************)
World ==
    \/ \E t \in Thread : StopKill(t)
    \/ \E p \in live : Exit(p)
    \/ \E p \in gone : Watch(p)
    \/ \E p \in timers : Fire(p)
    \/ Shutdown
    \/ UNCHANGED vars

LEMMA WorldFields ==
    ASSUME TypeOK, NamesOnlyStop, World
    PROVE  /\ UNCHANGED <<services, files>> /\ (phase = "down" <=> phase' = "down")
           /\ \A o \in Object :
                 /\ obj'[o].def = obj[o].def
                 /\ ~obj[o].want => ~obj'[o].want /\ obj'[o].pid \in {0, obj[o].pid}
           /\ \A c \in Client : th'[c] = th[c]
           /\ NamesOnlyStop'
<1>0. ASSUME UNCHANGED th PROVE NamesOnlyStop'
  BY <1>0 DEF NamesOnlyStop
<1>1. CASE UNCHANGED <<phase, services, files, obj, th>>
  BY <1>0, <1>1
<1>2. CASE \E p \in gone : Watch(p)
  <2>0. PICK p \in gone : Watch(p)
    BY <1>2
  <2> DEFINE x == <<p[1], p[2]>>
  <2>1. ASSUME NEW o \in Object
        PROVE  /\ obj'[o].def = obj[o].def
               /\ ~obj[o].want => ~obj'[o].want /\ obj'[o].pid \in {0, obj[o].pid}
    <3>0. obj[o] \in Service
      BY DEF TypeOK
    <3>1. obj'[o] \in {obj[o], Ended(obj[o]), CrashedNow(obj[o])}
      <4>1. CASE o = x
        BY <2>0, <4>1 DEF Watch, TypeOK
      <4>2. CASE o # x
        BY <2>0, <4>2 DEF Watch, TypeOK
      <4> QED
        BY <4>1, <4>2
    <3> QED
      BY <3>0, <3>1 DEF Ended, CrashedNow, Service
  <2>2. UNCHANGED <<phase, services, files, th>>
    BY <2>0 DEF Watch
  <2> QED
    BY <1>0, <2>1, <2>2
<1>3. CASE \E p \in timers : Fire(p)
  <2>0. PICK p \in timers : Fire(p)
    BY <1>3
  <2> DEFINE x == <<p[1], p[2]>>
  <2>1. ASSUME NEW o \in Object
        PROVE  /\ obj'[o].def = obj[o].def
               /\ ~obj[o].want => ~obj'[o].want /\ obj'[o].pid \in {0, obj[o].pid}
    <3>0. obj[o] \in Service
      BY DEF TypeOK
    <3>1. \/ obj'[o] = obj[o]
          \/ obj[o].want /\ obj'[o] \in {Launched(obj[o], how) : how \in Outcomes}
      <4>1. CASE o = x
        BY <2>0, <4>1 DEF Fire, StillDue, TypeOK, Outcomes
      <4>2. CASE o # x
        BY <2>0, <4>2 DEF Fire, TypeOK
      <4> QED
        BY <4>1, <4>2
    <3>2. \A how \in Outcomes : Launched(obj[o], how).def = obj[o].def
      BY <3>0, DefFields
    <3> QED
      BY <3>1, <3>2
  <2>2. UNCHANGED <<phase, services, files, th>>
    BY <2>0 DEF Fire
  <2> QED
    BY <1>0, <2>1, <2>2
<1>4. CASE Shutdown
  <2>1. /\ UNCHANGED <<services, files, obj>> /\ phase = "up" /\ phase' = "stopping"
        /\ th' = [t \in Thread |->
                    IF t \in Known THEN Thd("stop", "stopall", t, NoDef) ELSE th[t]]
    BY <1>4 DEF Shutdown
  <2>2. \A c \in Client : th'[c] = th[c]
    BY <2>1, ActorAssumption DEF Thread, Known
  <2>3. NamesOnlyStop'
    BY <2>1 DEF NamesOnlyStop, Thread, Thd
  <2> QED
    BY <2>1, <2>2, <2>3
<1> QED
  BY <1>1, <1>2, <1>3, <1>4 DEF World, StopKill, Exit, vars

LEMMA WorldAgreed == ASSUME IInv, Agreed, World PROVE Agreed'
<1>1. /\ UNCHANGED <<services, files>> /\ (phase = "down" <=> phase' = "down")
      /\ \A o \in Object : obj'[o].def = obj[o].def
      /\ \A c \in Client : th'[c] = th[c]
      /\ NamesOnlyStop'
  BY WorldFields DEF IInv, Agreed
<1> QED
  BY <1>1, KeptStep

(***************************************************************************)
(* Stop has returned nil: its caller goes on.                              *)
(***************************************************************************)
LEMMA StoppedFields ==
    ASSUME TypeOK, NEW t \in Thread, th[t].pc \in {"stop", "stopping"}, Stopped(t)
    PROVE  /\ \A u \in Thread : u # t => th'[u] = th[u]
           /\ \/ th[t].op \in {"stop", "stopall"} /\ th'[t] = Idle
              \/ /\ th'[t].op = th[t].op /\ th'[t].name = th[t].name
                 /\ th'[t].def = th[t].def /\ th'[t].old = th[t].old
                 /\ \/ th[t].op = "restart" /\ th'[t].pc = "start"
                    \/ th[t].op = "delete" /\ th'[t].pc = "remove"
                    \/ th[t].op = "put" /\ th'[t].pc = "install"
<1>1. th[t] \in ThreadState /\ th[t].op \in {"stop", "stopall", "restart", "delete", "put"}
  BY DEF TypeOK, ThreadState, StopThen
<1>2. \A u \in Thread : u # t => th'[u] = th[u]
  BY DEF Stopped, Return, Goto, TypeOK
<1>3. CASE th[t].op \in {"stop", "stopall"}
  <2>1. th'[t] = Idle
    BY <1>1, <1>3 DEF Stopped, StopThen, Return, TypeOK
  <2> QED
    BY <1>2, <1>3, <2>1
<1>4. CASE th[t].op \in {"restart", "delete", "put"}
  <2>1. th'[t] = [th[t] EXCEPT !.pc = StopThen[th[t].op]]
    BY <1>1, <1>4 DEF Stopped, StopThen, Goto, TypeOK
  <2>2. /\ th[t].op = "restart" => StopThen[th[t].op] = "start"
        /\ th[t].op = "delete" => StopThen[th[t].op] = "remove"
        /\ th[t].op = "put" => StopThen[th[t].op] = "install"
    BY DEF StopThen
  <2>3. /\ th'[t].op = th[t].op /\ th'[t].name = th[t].name
        /\ th'[t].def = th[t].def /\ th'[t].old = th[t].old
        /\ th'[t].pc = StopThen[th[t].op]
    BY <1>1, <2>1 DEF ThreadState, ThreadRecord
  <2> QED
    BY <1>2, <1>4, <2>2, <2>3
<1> QED
  BY <1>1, <1>3, <1>4

LEMMA StoppedKnows ==
    ASSUME TypeOK, UNCHANGED <<services, meant, lost>>, NEW t \in Client,
           th[t].pc \in {"stop", "stopping"}, Stopped(t), PutKnows(t), DeleteKnows(t),
           NEW n \in Name, n = th[t].name, Needed(n)' = Needed(n)
    PROVE  /\ (PutKnows(t) /\ DeleteKnows(t))'
           /\ Putting(t) => Putting(t)' /\ th'[t].name = th[t].name
<1>1. t \in Thread /\ Known' = Known
  BY DEF Thread, Known
<1>2. \/ th[t].op \in {"stop", "stopall"} /\ th'[t] = Idle
      \/ /\ th'[t].op = th[t].op /\ th'[t].name = th[t].name
         /\ th'[t].def = th[t].def /\ th'[t].old = th[t].old
         /\ \/ th[t].op = "restart" /\ th'[t].pc = "start"
            \/ th[t].op = "delete" /\ th'[t].pc = "remove"
            \/ th[t].op = "put" /\ th'[t].pc = "install"
  BY <1>1, StoppedFields
<1>3. CASE th[t].op \in {"stop", "stopall"} /\ th'[t] = Idle
  BY <1>3, ReturnedKnows DEF Putting
<1>4. CASE th[t].op = "restart" /\ th'[t].op = "restart" /\ th'[t].pc = "start"
  BY <1>4 DEF PutKnows, DeleteKnows, Putting, Changing
<1>5. CASE th[t].op = "delete" /\ th'[t].op = "delete" /\ th'[t].pc = "remove"
           /\ th'[t].name = n
  <2>1. ~Needed(n)'
    BY <1>5 DEF DeleteKnows, Changing
  <2>2. DeleteKnows(t)'
    BY <1>5, <2>1 DEF DeleteKnows, Needed
  <2> QED
    BY <1>5, <2>2 DEF PutKnows, Putting
<1>6. CASE /\ th[t].op = "put" /\ th'[t].op = "put" /\ th'[t].pc = "install"
           /\ th'[t].name = th[t].name /\ th'[t].def = th[t].def /\ th'[t].old = th[t].old
  <2>1. Putting(t) /\ th[t].pc # "insert"
    BY <1>6 DEF Putting
  <2> QED
    BY <1>1, <1>6, <2>1 DEF PutKnows, DeleteKnows, Putting, Changing
<1> QED
  BY <1>2, <1>3, <1>4, <1>5, <1>6

(***************************************************************************)
(* Stop's first part, by a client or by StopAll.                           *)
(***************************************************************************)
LEMMA StopBeginFields ==
    ASSUME TypeOK, NEW t \in Thread, StopBegin(t), NEW n \in Name, n = th[t].name
    PROVE  /\ \A o \in Object :
                 /\ obj'[o].def = obj[o].def
                 /\ ~obj[o].want => ~obj'[o].want /\ obj'[o].pid \in {0, obj[o].pid}
                 /\ o # <<n, services[n]>> => obj'[o] = obj[o]
           /\ n \in Known => ~Obj(n)'.want /\ Obj(n)'.pid = Obj(n).pid
<1> DEFINE x == <<n, services[n]>>
<1>1. \A o \in Object : o # x => obj'[o] = obj[o]
  BY DEF StopBegin, TypeOK
<1>2. CASE n \notin Known
  BY <1>2 DEF StopBegin
<1>3. CASE n \in Known
  <2>1. x \in Object /\ obj[x] \in Service /\ Obj(n) = obj[x] /\ services' = services
    BY <1>3, KnownObject DEF Obj, StopBegin
  <2>2. /\ obj'[x].def = obj[x].def /\ ~obj'[x].want /\ obj'[x].pid = obj[x].pid
    <3>1. CASE obj[x].pid = 0
      <4>1. obj'[x] = Ended([obj[x] EXCEPT !.want = FALSE])
        BY <1>3, <2>1, <3>1 DEF StopBegin, TypeOK
      <4> HIDE DEF x
      <4> QED
        BY <2>1, <3>1, <4>1 DEF Ended, Service
    <3>2. CASE obj[x].pid # 0
      <4>1. obj'[x] = [obj[x] EXCEPT !.want = FALSE, !.status = "stopping"]
        BY <1>3, <2>1, <3>2 DEF StopBegin, TypeOK
      <4> HIDE DEF x
      <4> QED
        BY <2>1, <4>1 DEF Service
    <3> QED
      BY <3>1, <3>2
  <2>3. Obj(n)' = obj'[x]
    BY <2>1 DEF Obj
  <2> HIDE DEF x
  <2>4. \A o \in Object :
             /\ obj'[o].def = obj[o].def
             /\ ~obj[o].want => ~obj'[o].want /\ obj'[o].pid \in {0, obj[o].pid}
             /\ o # x => obj'[o] = obj[o]
    BY <1>1, <2>2
  <2>5. ~Obj(n)'.want /\ Obj(n)'.pid = Obj(n).pid
    BY <2>1, <2>2, <2>3
  <2> QED
    BY <2>4, <2>5 DEF x
<1> QED
  BY <1>2, <1>3

\* Where it leaves its thread.
LEMMA StopBeginThread ==
    ASSUME TypeOK, NEW t \in Thread, StopBegin(t), NEW n \in Name, n = th[t].name
    PROVE  /\ UNCHANGED <<phase, services, files>> /\ Known' = Known
           /\ \A u \in Thread : u # t => th'[u] = th[u]
           /\ \/ n \notin Known /\ th'[t] = Idle
              \/ n \in Known /\ Obj(n).pid = 0 /\ Stopped(t)
              \/ /\ n \in Known /\ Obj(n).pid # 0
                 /\ th'[t].pc = "stopping" /\ th'[t].op = th[t].op /\ th'[t].name = n
                 /\ th'[t].def = th[t].def /\ th'[t].old = th[t].old
                 /\ th'[t].target[1] = services[n] /\ th'[t].target[2] = Obj(n).pid
<1>1. /\ UNCHANGED <<phase, services, files>> /\ Known' = Known
      /\ \A u \in Thread : u # t => th'[u] = th[u]
  BY DEF StopBegin, Stopped, Return, Goto, TypeOK, Known
<1>2. th[t] \in ThreadState
  BY DEF TypeOK
<1>3. CASE n \notin Known
  <2>1. th'[t] = Idle
    BY <1>3 DEF StopBegin, Return, TypeOK
  <2> QED
    BY <1>1, <1>3, <2>1
<1>4. CASE n \in Known /\ Obj(n).pid = 0
  <2>1. Stopped(t)
    BY <1>4 DEF StopBegin, Obj
  <2> QED
    BY <1>1, <1>4, <2>1
<1>5. CASE n \in Known /\ Obj(n).pid # 0
  <2>1. th'[t] = [th[t] EXCEPT !.pc = "stopping", !.target = <<services[n], Obj(n).pid>>]
    BY <1>5 DEF StopBegin, Obj, TypeOK
  <2>2. /\ th'[t].pc = "stopping" /\ th'[t].op = th[t].op /\ th'[t].name = n
        /\ th'[t].def = th[t].def /\ th'[t].old = th[t].old
        /\ th'[t].target[1] = services[n] /\ th'[t].target[2] = Obj(n).pid
    BY <1>2, <2>1 DEF ThreadState, ThreadRecord
  <2> QED
    BY <1>1, <1>5, <2>2
<1> QED
  BY <1>3, <1>4, <1>5

\* StopAll's goroutines do nothing but stop.
LEMMA StopAllStops ==
    ASSUME TypeOK, NamesOnlyStop, NEW t \in Name, StopBegin(t) \/ StopReturn(t)
    PROVE  NamesOnlyStop' /\ \A c \in Client : th'[c] = th[c]
<1>0. t \in Thread /\ t \notin Client
  BY ActorAssumption DEF Thread
<1>1. th[t].pc \in {"stop", "stopping"} /\ th[t].op = "stopall"
  BY DEF StopBegin, StopReturn, NamesOnlyStop
<1>2. ASSUME Stopped(t)
      PROVE  th'[t] = Idle /\ \A u \in Thread : u # t => th'[u] = th[u]
  BY <1>0, <1>1, <1>2, StoppedFields
<1>3. /\ \A u \in Thread : u # t => th'[u] = th[u]
      /\ th'[t] = Idle \/ (th'[t].pc = "stopping" /\ th'[t].op = "stopall")
  <2>1. CASE StopBegin(t)
    <3>1. PICK n \in Name : n = th[t].name
      BY <1>0, <2>1 DEF TypeOK, ThreadState, StopBegin
    <3> QED
      BY <1>0, <1>1, <1>2, <2>1, <3>1, StopBeginThread
  <2>2. CASE StopReturn(t)
    BY <1>2, <2>2 DEF StopReturn
  <2> QED
    BY <2>1, <2>2
<1>4. th'[t].pc = "idle" \/ (th'[t].pc = "stopping" /\ th'[t].op = "stopall")
  BY <1>3 DEF Idle, Thd
<1>5. NamesOnlyStop'
  BY <1>3, <1>4 DEF NamesOnlyStop, Thread
<1> QED
  BY <1>0, <1>3, <1>5 DEF Thread

\* A step of a client leaves StopAll's goroutines alone.
LEMMA NamesAside ==
    ASSUME NamesOnlyStop, NEW t \in Client, \A u \in Thread : u # t => th'[u] = th[u]
    PROVE  NamesOnlyStop' /\ \A c \in Client : th'[c] = th[c] \/ c = t
BY ActorAssumption DEF NamesOnlyStop, Thread

\* Stop changes what is wanted, not what is defined.
LEMMA StopBeginAgreed ==
    ASSUME IInv, Agreed, NEW t \in Thread, StopBegin(t) PROVE Agreed'
<1>0. PICK n \in Name : n = th[t].name
  BY DEF IInv, TypeOK, ThreadState, StopBegin
<1>1. /\ UNCHANGED <<phase, services, files>> /\ Known' = Known /\ th[t].pc = "stop"
      /\ \A o \in Object : obj'[o].def = obj[o].def
      /\ \A u \in Thread : u # t => th'[u] = th[u]
      /\ \/ n \notin Known /\ th'[t] = Idle
         \/ n \in Known /\ Obj(n).pid = 0 /\ Stopped(t)
         \/ /\ n \in Known /\ Obj(n).pid # 0
            /\ th'[t].pc = "stopping" /\ th'[t].op = th[t].op /\ th'[t].name = n
            /\ th'[t].def = th[t].def /\ th'[t].old = th[t].old
  <2>1. TypeOK /\ th[t].pc = "stop"
    BY DEF IInv, StopBegin
  <2>2. \A o \in Object : obj'[o].def = obj[o].def
    BY <1>0, <2>1, StopBeginFields
  <2> QED
    BY <1>0, <2>1, <2>2, StopBeginThread
<1>2. CASE t \in Name
  <2>1. NamesOnlyStop' /\ \A c \in Client : th'[c] = th[c]
    BY <1>2, StopAllStops DEF IInv, Agreed
  <2> QED
    BY <1>1, <2>1, KeptStep
<1>3. CASE t \in Client
  <2>0. PutKnows(t) /\ DeleteKnows(t)
    BY <1>3 DEF Agreed
  <2>1. Needed(n)' = Needed(n)
    BY <1>1, SameRegistry DEF IInv, Agreed
  <2>2. /\ (PutKnows(t) /\ DeleteKnows(t))'
        /\ Putting(t) => Putting(t)' /\ th'[t].name = th[t].name
    <3>1. CASE n \notin Known /\ th'[t] = Idle
      <4>1. ~Putting(t)
        BY <1>0, <1>1, <2>0, <3>1 DEF PutKnows
      <4> QED
        BY <3>1, <4>1, ReturnedKnows
    <3>2. CASE n \in Known /\ Obj(n).pid = 0 /\ Stopped(t)
      BY <1>0, <1>1, <1>3, <2>0, <2>1, <3>2, StoppedKnows DEF IInv
    <3>3. CASE /\ th'[t].pc = "stopping" /\ th'[t].op = th[t].op /\ th'[t].name = n
               /\ th'[t].def = th[t].def /\ th'[t].old = th[t].old
      <4>1. (Putting(t)' <=> Putting(t)) /\ (Changing(t)' <=> Changing(t))
        BY <1>1, <3>3 DEF Putting, Changing
      <4>2. PutKnows(t)'
        BY <1>0, <1>1, <2>0, <3>3, <4>1 DEF PutKnows
      <4>3. Changing(t) /\ th[t].op = "delete" => ~Needed(n)'
        BY <1>0, <2>0, <2>1 DEF DeleteKnows
      <4>4. DeleteKnows(t)'
        BY <3>3, <4>1, <4>3 DEF DeleteKnows, Needed
      <4> QED
        BY <1>0, <3>3, <4>1, <4>2, <4>4
    <3> QED
      BY <1>1, <3>1, <3>2, <3>3
  <2>3. NamesOnlyStop' /\ \A c \in Client : th'[c] = th[c] \/ c = t
    BY <1>1, <1>3, NamesAside DEF Agreed
  <2> QED
    BY <1>1, <2>2, <2>3, KeptStep
<1> QED
  BY <1>2, <1>3 DEF Thread

LEMMA StopReturnAgreed ==
    ASSUME IInv, Agreed, NEW t \in Thread, StopReturn(t) PROVE Agreed'
<1>0. PICK n \in Name : n = th[t].name
  BY DEF IInv, TypeOK, ThreadState, StopReturn
<1>1. UNCHANGED <<phase, services, files, obj>> /\ th[t].pc = "stopping" /\ Stopped(t)
  BY DEF StopReturn
<1>2. CASE t \in Name
  <2>1. NamesOnlyStop' /\ \A c \in Client : th'[c] = th[c]
    BY <1>2, StopAllStops DEF IInv, Agreed
  <2> QED
    BY <1>1, <2>1, KeptStep
<1>3. CASE t \in Client
  <2>1. PutKnows(t) /\ DeleteKnows(t) /\ Needed(n)' = Needed(n)
    BY <1>1, <1>3 DEF Agreed, Needed, Known, Obj
  <2>2. /\ (PutKnows(t) /\ DeleteKnows(t))'
        /\ Putting(t) => Putting(t)' /\ th'[t].name = th[t].name
    BY <1>0, <1>1, <1>3, <2>1, StoppedKnows DEF IInv
  <2>3. \A u \in Thread : u # t => th'[u] = th[u]
    BY <1>1, StoppedFields DEF IInv
  <2>4. NamesOnlyStop' /\ \A c \in Client : th'[c] = th[c] \/ c = t
    BY <1>3, <2>3, NamesAside DEF Agreed
  <2> QED
    BY <1>1, <2>2, <2>4, KeptStep
<1> QED
  BY <1>2, <1>3 DEF Thread

(***************************************************************************)
(* Start, Signal and the check of Delete.                                  *)
(***************************************************************************)
LEMMA ReturnFields ==
    ASSUME TypeOK, NEW t \in Thread, Return(t)
    PROVE  th'[t] = Idle /\ \A u \in Thread : u # t => th'[u] = th[u]
BY DEF Return, TypeOK, Thread

LEMMA ReturnAgreed ==
    ASSUME IInv, Agreed, NEW t \in Client, Return(t), ~Putting(t),
           UNCHANGED <<phase, services, meant, lost>>, phase = "down" => UNCHANGED disk,
           \A o \in Object : obj'[o].def = obj[o].def
    PROVE  Agreed'
<1>1. th'[t] = Idle /\ \A u \in Thread : u # t => th'[u] = th[u]
  BY ReturnFields DEF IInv, Thread
<1>2. (PutKnows(t) /\ DeleteKnows(t))'
  BY <1>1, ReturnedKnows
<1>3. NamesOnlyStop' /\ \A c \in Client : th'[c] = th[c] \/ c = t
  BY <1>1, NamesAside DEF Agreed
<1> QED
  BY <1>2, <1>3, KeptStep

\* Start launches services of the registry, and defines none.
LEMMA StartFields ==
    ASSUME TypeOK, NEW t \in Thread, Start(t)
    PROVE  /\ UNCHANGED <<phase, services, files>> /\ th[t].pc = "start" /\ Return(t)
           /\ \A o \in Object : /\ obj'[o].def = obj[o].def
                                /\ o[2] # services[o[1]] => obj'[o] = obj[o]
<1>1. UNCHANGED <<phase, services, files>> /\ th[t].pc = "start" /\ Return(t)
  BY DEF Start
<1>0. PICK broken \in SUBSET MayBreak : \E unpiped \in SUBSET broken :
         StartReached(Reached(th[t].name, broken), broken, unpiped)
  BY DEF Start
<1>2. PICK unpiped \in SUBSET broken :
         StartReached(Reached(th[t].name, broken), broken, unpiped)
  BY <1>0
<1>3. ASSUME NEW o \in Object
      PROVE  obj'[o].def = obj[o].def /\ (o[2] # services[o[1]] => obj'[o] = obj[o])
  <2> DEFINE s == obj[o]
  <2>1. s \in Service
    BY DEF TypeOK
  <2>2. \A how \in Outcomes : Started(s, how).def = s.def
    <3> HIDE DEF s
    <3> QED
      BY <2>1, DefFields
  <2>3. /\ obj'[o] \in {s} \cup {Started(s, how) : how \in Outcomes}
        /\ o[2] # services[o[1]] => obj'[o] = s
    <3>1. \/ obj'[o] = s
          \/ o[2] = services[o[1]] /\ obj'[o] = Started(s, Outcome(o[1], broken, unpiped))
      BY <1>2 DEF StartReached
    <3> HIDE DEF s
    <3> QED
      BY <3>1, OutcomeCases
  <2> QED
    BY <2>2, <2>3
<1> QED
  BY <1>1, <1>3

LEMMA StartAgreed ==
    ASSUME IInv, Agreed, NEW t \in Thread, Start(t) PROVE Agreed'
<1>1. /\ UNCHANGED <<phase, services, files>> /\ th[t].pc = "start" /\ Return(t)
      /\ \A o \in Object : obj'[o].def = obj[o].def
  BY StartFields DEF IInv
<1>2. t \in Client /\ ~Putting(t)
  BY <1>1, ClientAtWork DEF Agreed, Putting
<1> QED
  BY <1>1, <1>2, ReturnAgreed

LEMMA SignalAgreed ==
    ASSUME IInv, Agreed, NEW t \in Thread, Signal(t) PROVE Agreed'
<1>1. UNCHANGED <<phase, services, files, obj>> /\ th[t].pc = "signal" /\ Return(t)
  BY DEF Signal
<1>2. t \in Client /\ ~Putting(t)
  BY <1>1, ClientAtWork DEF Agreed, Putting
<1> QED
  BY <1>1, <1>2, ReturnAgreed

\* Delete goes on only with what nothing needs.
LEMMA DeleteCheckFields ==
    ASSUME TypeOK, NEW t \in Thread, DeleteCheck(t), ~Return(t)
    PROVE  /\ ~Needed(th[t].name) /\ th'[t].name = th[t].name
           /\ th'[t].pc = "stop" /\ th'[t].op = "delete"
           /\ \A u \in Thread : u # t => th'[u] = th[u]
<1>1. ~Needed(th[t].name) /\ Goto(t, "stop") /\ th[t].pc = "delete"
  BY DEF DeleteCheck
<1>2. th[t].op = "delete" /\ th[t] \in ThreadState
  BY <1>1 DEF TypeOK, ThreadState
<1>3. /\ \A u \in Thread : u # t => th'[u] = th[u]
      /\ th'[t] = [th[t] EXCEPT !.pc = "stop"]
  BY <1>1 DEF Goto, TypeOK
<1>4. th'[t].pc = "stop" /\ th'[t].op = "delete" /\ th'[t].name = th[t].name
  BY <1>2, <1>3 DEF ThreadState, ThreadRecord
<1> QED
  BY <1>1, <1>3, <1>4

LEMMA DeleteCheckAgreed ==
    ASSUME IInv, Agreed, NEW t \in Thread, DeleteCheck(t) PROVE Agreed'
<1>1. UNCHANGED <<phase, services, files, obj>> /\ th[t].pc = "delete"
  BY DEF DeleteCheck
<1>2. t \in Client /\ ~Putting(t)
  BY <1>1, ClientAtWork DEF Agreed, Putting
<1>3. CASE Return(t)
  BY <1>1, <1>2, <1>3, ReturnAgreed
<1>4. CASE ~Return(t)
  <2>1. /\ ~Needed(th[t].name) /\ th'[t].name = th[t].name
        /\ th'[t].pc = "stop" /\ th'[t].op = "delete"
        /\ \A u \in Thread : u # t => th'[u] = th[u]
    BY <1>4, DeleteCheckFields DEF IInv
  <2>2. (PutKnows(t) /\ DeleteKnows(t))'
    <3>1. Needed(th[t].name)' = Needed(th[t].name)
      BY <1>1, <2>1 DEF Needed, Known, Obj
    <3> QED
      BY <2>1, <3>1 DEF PutKnows, DeleteKnows, Putting
  <2>3. NamesOnlyStop' /\ \A c \in Client : th'[c] = th[c] \/ c = t
    BY <1>2, <2>1, NamesAside DEF Agreed
  <2> QED
    BY <1>1, <1>2, <2>2, <2>3, KeptStep
<1> QED
  BY <1>3, <1>4

(***************************************************************************)
(* Define's checks: nobody else is changing the registry, so files and     *)
(* memory agree and the checks, made in memory, are right of the files.    *)
(***************************************************************************)
LEMMA DefineCheckFields ==
    ASSUME TypeOK, NEW t \in Thread, DefineCheck(t), ~(Return(t) /\ UNCHANGED meant)
    PROVE  \E n \in Name, d \in Definition :
             /\ n = th[t].name /\ d = th[t].def
             /\ Accepted(n, d) /\ meant' = [meant EXCEPT ![n] = d]
             /\ th'[t].pc = IF n \in Known THEN "stop" ELSE "insert"
             /\ th'[t].old = services[n] /\ th'[t].op = "put" /\ th'[t].name = n /\ th'[t].def = d
             /\ \A u \in Thread : u # t => th'[u] = th[u]
<1>0. PICK n \in Name, d \in Definition : n = th[t].name /\ d = th[t].def /\ th[t].op = "put"
  BY DEF DefineCheck, TypeOK, ThreadState
<1>1. /\ Accepted(n, d) /\ meant' = [meant EXCEPT ![n] = d]
      /\ th' = [th EXCEPT ![t].pc = IF n \in Known THEN "stop" ELSE "insert",
                          ![t].old = services[n]]
  BY <1>0 DEF DefineCheck
<1>2. /\ th'[t].pc = IF n \in Known THEN "stop" ELSE "insert"
      /\ th'[t].old = services[n] /\ th'[t].op = "put" /\ th'[t].name = n /\ th'[t].def = d
      /\ \A u \in Thread : u # t => th'[u] = th[u]
  BY <1>0, <1>1 DEF TypeOK, ThreadState, ThreadRecord
<1> QED
  BY <1>0, <1>1, <1>2

LEMMA DefineCheckAgreed ==
    ASSUME IInv, FiniteRegistry, KnownDefined, Agreed, OneWriter',
           NEW t \in Thread, DefineCheck(t)
    PROVE  Agreed'
<1>1. /\ th[t].pc = "define" /\ ~Putting(t) /\ UNCHANGED <<phase, services, obj, lost>>
      /\ Known' = Known
  BY DEF DefineCheck, Putting, Known
<1>2. t \in Client /\ t \notin Name /\ phase # "down"
  BY <1>1, ClientAtWork DEF Agreed, IInv, DownIsEmpty
<1>3. CASE Return(t) /\ UNCHANGED meant
  BY <1>1, <1>2, <1>3, ReturnAgreed
<1>4. CASE ~(Return(t) /\ UNCHANGED meant)
  <2>0. PICK n \in Name, d \in Definition :
          /\ n = th[t].name /\ d = th[t].def
          /\ Accepted(n, d) /\ meant' = [meant EXCEPT ![n] = d]
          /\ th'[t].pc = IF n \in Known THEN "stop" ELSE "insert"
          /\ th'[t].old = services[n] /\ th'[t].op = "put" /\ th'[t].name = n /\ th'[t].def = d
          /\ \A u \in Thread : u # t => th'[u] = th[u]
    BY <1>4, DefineCheckFields DEF IInv
  <2>1. \A c \in Client : c # t => /\ th'[c] = th[c]
                                   /\ ~Changing(c) /\ ~Putting(c)
    <3>1. \A c \in Client : c # t => ~Changing(c)'
      BY <1>2, <2>0 DEF OneWriter, Changing
    <3> QED
      BY <2>0, <3>1 DEF Changing, Putting, Thread
  <2>2. \A m \in Name : MeantAgrees(m)
    BY <1>1, <1>2, <2>1 DEF Agreed, FilesAgree
  <2>3. FilesSound'
    BY <1>1, <2>0, <2>2, AcceptedIsSound DEF IInv, Agreed
  <2>4. MemorySound'
    <3>1. MemorySound
      BY DEF Agreed
    <3> QED
      BY <1>1, <3>1 DEF MemorySound, Sound, Obj
  <2>5. meant'[n] = d /\ \A m \in Name : m # n => meant'[m] = meant[m]
    BY <2>0 DEF IInv, TypeOK
  <2>6. FilesAgree'
    <3>1. ASSUME NEW m \in Name, m # n PROVE MeantAgrees(m)'
      BY <1>1, <2>2, <2>5, <3>1 DEF MeantAgrees, Obj, MeantNames
    <3>2. Putting(t)' /\ th'[t].name = n
      BY <2>0 DEF Putting
    <3> QED
      BY <1>1, <1>2, <3>1, <3>2 DEF FilesAgree
  <2>7. ASSUME NEW c \in Client PROVE (PutKnows(c) /\ DeleteKnows(c))'
    <3>1. CASE c = t
      BY <1>1, <2>0, <2>5, <3>1 DEF PutKnows, DeleteKnows, Putting
    <3>2. CASE c # t
      <4>1. DeleteKnows(c)
        BY DEF Agreed
      <4> QED
        BY <2>1, <3>2, <4>1 DEF PutKnows, DeleteKnows, Putting, Changing
    <3> QED
      BY <3>1, <3>2
  <2>8. NamesOnlyStop'
    BY <1>2, <2>0, NamesAside DEF Agreed
  <2> QED
    BY <2>3, <2>4, <2>6, <2>7, <2>8 DEF Agreed
<1> QED
  BY <1>3, <1>4

\* AgreeingIsSound of the state after a step.
LEMMA AgreeingIsSoundLater ==
    FilesSound' /\ KnownDefined' /\ (\A n \in Name : MeantAgrees(n)') => MemorySound'
<1> DEFINE agree == FilesSound /\ KnownDefined /\ \A n \in Name : MeantAgrees(n)
<1>1. agree => MemorySound
  BY AgreeingIsSound
<1>2. agree' => MemorySound'
  BY <1>1, PTL
<1> QED
  BY <1>2

(***************************************************************************)
(* A client ends what it did to the registry: files and memory agree.      *)
(***************************************************************************)
LEMMA SettledStep ==
    ASSUME IInv, Agreed, OneWriter, NEW t \in Thread, Changing(t),
           FilesSound', KnownDefined', \A n \in Name : MeantAgrees(n)',
           \A u \in Thread : u # t => th'[u] = th[u], th'[t].pc \in {"idle", "start"},
           UNCHANGED phase
    PROVE  Agreed'
<1>0. t \in Client /\ phase' # "down"
  BY OnlyOneWriter DEF Agreed
<1>1. \A c \in Client : c # t => ~Changing(c) /\ ~Putting(c) /\ th'[c] = th[c]
  BY OnlyOneWriter DEF Agreed, Thread
<1>2. MemorySound'
  BY AgreeingIsSoundLater
<1>3. FilesAgree'
  BY <1>0 DEF FilesAgree
<1>4. ASSUME NEW c \in Client PROVE (PutKnows(c) /\ DeleteKnows(c))'
  <2>1. CASE c = t
    BY <2>1 DEF PutKnows, DeleteKnows, Putting, Changing
  <2>2. CASE c # t
    <3>1. DeleteKnows(c)
      BY DEF Agreed
    <3> QED
      BY <1>1, <2>2, <3>1 DEF PutKnows, DeleteKnows, Putting, Changing
  <2> QED
    BY <2>1, <2>2
<1>5. NamesOnlyStop'
  BY <1>0, NamesAside DEF Agreed
<1> QED
  BY <1>2, <1>3, <1>4, <1>5 DEF Agreed

\* Define makes a service of a name that had none, with the definition on meant.
LEMMA DefineInsertAgreed ==
    ASSUME IInv, KnownDefined', Agreed, OneWriter, NEW t \in Thread, DefineInsert(t)
    PROVE  Agreed'
<1>0. PICK n \in Name, d \in Definition : n = th[t].name /\ d = th[t].def /\ th[t].op = "put"
  BY DEF DefineInsert, IInv, TypeOK, ThreadState
<1> DEFINE k == made[n] + 1
<1>1. /\ th[t].pc = "insert" /\ Changing(t) /\ UNCHANGED <<phase, files>> /\ k \in Incarnation
      /\ services' = [services EXCEPT ![n] = k]
      /\ obj' = [obj EXCEPT ![<<n, k>>] = NewService(d)]
      /\ th' = [th EXCEPT ![t].pc = "start"]
  BY <1>0 DEF DefineInsert, Changing, Goto
<1>2. t \in Client /\ th[t] \in ThreadState
  BY <1>1, ClientAtWork DEF Agreed, IInv, TypeOK
<1>3. k # 0 /\ services[n] = 0 /\ meant[n] = d /\ n \notin Known
  <2>1. PutKnows(t) /\ Putting(t)
    BY <1>0, <1>1, <1>2 DEF Agreed, Putting
  <2> QED
    BY <1>0, <1>1, <2>1, IncarnationAssumption DEF PutKnows, Known
<1>4. /\ services'[n] = k /\ obj'[<<n, k>>] = NewService(d)
      /\ \A m \in Name : m # n => services'[m] = services[m]
      /\ \A o \in Object : o # <<n, k>> => obj'[o] = obj[o]
  BY <1>1 DEF IInv, TypeOK, Object
<1> HIDE DEF k
<1>5. \A m \in Name : MeantAgrees(m)'
  <2>1. MeantAgrees(n)'
    <3>1. n \in Known' /\ Obj(n)'.def = d /\ meant'[n] = d
      BY <1>1, <1>3, <1>4 DEF Known, Obj, NewService
    <3> QED
      BY <3>1 DEF MeantAgrees
  <2>2. ASSUME NEW m \in Name, m # n PROVE MeantAgrees(m)'
    <3>1. MeantAgrees(m)
      BY <1>0, <1>1, <1>2, <2>2, OthersAgree DEF Agreed
    <3>2. m \in Known' <=> m \in Known
      BY <1>4, <2>2 DEF Known
    <3>3. m \in Known => Obj(m)' = Obj(m)
      <4>1. m \in Known => <<m, services[m]>> \in Object
        BY KnownObject DEF IInv
      <4> QED
        BY <1>4, <2>2, <4>1 DEF Obj
    <3> QED
      BY <1>1, <3>1, <3>2, <3>3 DEF MeantAgrees, MeantNames
  <2> QED
    BY <2>1, <2>2
<1>6. FilesSound'
  BY <1>1 DEF Agreed, FilesSound, Sound, MeantNames
<1>7. /\ th'[t].pc = "start"
      /\ \A u \in Thread : u # t => th'[u] = th[u]
  BY <1>0, <1>1, <1>2 DEF IInv, TypeOK, ThreadState, ThreadRecord
<1> QED
  BY <1>1, <1>5, <1>6, <1>7, SettledStep

\* Define gives a service that is stopped its new definition, the one on meant.
LEMMA DefineInstallAgreed ==
    ASSUME IInv, KnownDefined', Agreed, OneWriter, NEW t \in Thread, DefineInstall(t)
    PROVE  Agreed'
<1>0. PICK n \in Name, d \in Definition : n = th[t].name /\ d = th[t].def /\ th[t].op = "put"
  BY DEF DefineInstall, IInv, TypeOK, ThreadState
<1> DEFINE x == <<n, services[n]>>
<1>1. /\ th[t].pc = "install" /\ Changing(t) /\ UNCHANGED <<phase, files, services>>
      /\ obj' = [obj EXCEPT ![<<n, th[t].old>>] = [@ EXCEPT !.def = d]]
      /\ th' = [th EXCEPT ![t].pc = "start"]
      /\ Known' = Known
  BY <1>0 DEF DefineInstall, Changing, Goto, Known
<1>2. t \in Client /\ th[t] \in ThreadState
  BY <1>1, ClientAtWork DEF Agreed, IInv, TypeOK
<1>3. n \in Known /\ th[t].old = services[n] /\ meant[n] = d
  <2>1. PutKnows(t) /\ Putting(t)
    BY <1>0, <1>1, <1>2 DEF Agreed, Putting
  <2> QED
    BY <1>0, <1>1, <2>1 DEF PutKnows
<1>4. x \in Object /\ obj[x] \in Service
  BY <1>3, KnownObject DEF IInv, Obj
<1>5. /\ obj'[x] = [obj[x] EXCEPT !.def = d]
      /\ \A o \in Object : o # x => obj'[o] = obj[o]
  BY <1>1, <1>3, <1>4 DEF IInv, TypeOK
<1>6. \A m \in Name : MeantAgrees(m)'
  <2>1. MeantAgrees(n)'
    <3>1. n \in Known' /\ Obj(n)' = obj'[x] /\ meant'[n] = d
      BY <1>1, <1>3 DEF Obj
    <3> HIDE DEF x
    <3>2. obj'[x].def = d
      BY <1>4, <1>5 DEF Service
    <3> QED
      BY <3>1, <3>2 DEF MeantAgrees
  <2>2. ASSUME NEW m \in Name, m # n PROVE MeantAgrees(m)'
    <3>1. MeantAgrees(m)
      BY <1>0, <1>1, <1>2, <2>2, OthersAgree DEF Agreed
    <3>2. m \in Known => Obj(m)' = Obj(m)
      <4>1. m \in Known => <<m, services[m]>> \in Object
        BY KnownObject DEF IInv
      <4> QED
        BY <1>1, <1>5, <2>2, <4>1 DEF Obj
    <3> QED
      BY <1>1, <3>1, <3>2 DEF MeantAgrees, MeantNames
  <2> QED
    BY <2>1, <2>2
<1>7. FilesSound'
  BY <1>1 DEF Agreed, FilesSound, Sound, MeantNames
<1>8. /\ th'[t].pc = "start"
      /\ \A u \in Thread : u # t => th'[u] = th[u]
  BY <1>0, <1>1, <1>2 DEF IInv, TypeOK, ThreadState, ThreadRecord
<1> QED
  BY <1>1, <1>6, <1>7, <1>8, SettledStep

-----------------------------------------------------------------------------
(***************************************************************************)
(* No definitions are sound.                                               *)
(***************************************************************************)
LEMMA SoundEmpty == ASSUME NEW known, known = {}, NEW def PROVE Sound(known, def)
<1>1. ASSUME NEW needs PROVE Acyclic(known, needs)
  BY DEF Acyclic
<1> QED
  BY <1>1 DEF Sound

(***************************************************************************)
(* Delete removes what nothing needs.                                      *)
(***************************************************************************)
LEMMA DeleteRemoveAgreed ==
    ASSUME IInv, KnownDefined, KnownDefined', Agreed, OneWriter,
           NEW t \in Thread, DeleteRemove(t)
    PROVE  Agreed'
<1>0. PICK n \in Name : n = th[t].name
  BY DEF DeleteRemove, IInv, TypeOK, ThreadState
<1>1. /\ th[t].pc = "remove" /\ ~Putting(t) /\ UNCHANGED <<phase, obj, lost>> /\ Return(t)
      /\ IF n \in Known THEN Forget(n) ELSE UNCHANGED <<services, disk, meant>>
  BY <1>0 DEF DeleteRemove, Putting
<1>2. t \in Client
  BY <1>1, ClientAtWork DEF Agreed
<1>3. CASE n \notin Known
  BY <1>1, <1>2, <1>3, ReturnAgreed
<1>4. CASE n \in Known
  <2>1. /\ services'[n] = 0 /\ meant'[n] = NoDef
        /\ \A m \in Name : m # n => services'[m] = services[m] /\ meant'[m] = meant[m]
    BY <1>1, <1>4 DEF Forget, IInv, TypeOK
  <2>2. ~Needed(n) /\ th[t].op = "delete"
    <3>1. DeleteKnows(t)
      BY <1>2 DEF Agreed
    <3> QED
      BY <1>0, <1>1, <3>1 DEF DeleteKnows, Changing
  <2>3. \A m \in Name : MeantAgrees(m)
    BY <1>1, <2>2, OthersAgree DEF Agreed, Changing
  <2>4. Known = MeantNames
    BY <2>3, AgreeingIsSound DEF Agreed
  <2>5. MeantNames' = MeantNames \ {n} /\ Known' = Known \ {n}
    BY <2>1 DEF MeantNames, Known
  <2>6. FilesSound'
    <3> SUFFICES ASSUME ~lost PROVE Sound(MeantNames, meant)'
      BY <1>1 DEF FilesSound
    <3>1. Sound(MeantNames, meant)
      BY DEF Agreed, FilesSound
    <3>2. \A m \in Known \ {n} : n \notin Range(meant[m].needs)
      BY <2>2, <2>3 DEF Needed, MeantAgrees, Known
    <3>3. \A m \in MeantNames' : Range(meant[m].needs) \subseteq MeantNames'
      BY <2>4, <2>5, <3>1, <3>2 DEF Sound
    <3>4. MeantNames' \in SUBSET MeantNames /\ \A m \in MeantNames' : meant'[m] = meant[m]
      BY <2>1, <2>5 DEF MeantNames
    <3>5. Sound(MeantNames', meant')
      BY <3>1, <3>3, <3>4, SoundFewer
    <3> QED
      BY <3>5 DEF Sound
  <2>7. \A m \in Name : MeantAgrees(m)'
    <3>1. MeantAgrees(n)'
      BY <2>1, <2>5 DEF MeantAgrees
    <3>2. ASSUME NEW m \in Name, m # n PROVE MeantAgrees(m)'
      <4>1. MeantAgrees(m) /\ (m \in Known' <=> m \in Known) /\ (m \in MeantNames' <=> m \in MeantNames)
        BY <2>3, <2>5, <3>2
      <4>2. Obj(m)' = Obj(m)
        BY <1>1, <2>1, <3>2 DEF Obj
      <4> QED
        BY <2>1, <3>2, <4>1, <4>2 DEF MeantAgrees
    <3> QED
      BY <3>1, <3>2
  <2>8. th'[t].pc = "idle" /\ \A u \in Thread : u # t => th'[u] = th[u]
    BY <1>1, ReturnFields DEF IInv, Idle, Thd
  <2>9. Changing(t)
    BY <1>1, <2>2 DEF Changing
  <2> QED
    BY <1>1, <2>6, <2>7, <2>8, <2>9, SettledStep
<1> QED
  BY <1>3, <1>4

(***************************************************************************)
(* The agent goes down: the files are left, one of them perhaps torn.      *)
(***************************************************************************)
LEMMA GoDownAgreed ==
    ASSUME GoDown, FilesSound', meant' = disk' PROVE Agreed'
<1>1. /\ phase' = "down" /\ Known' = {}
      /\ \A t \in Thread : th'[t] = Idle
  BY DEF GoDown, Known
<1>2. MemorySound'
  BY <1>1, SoundEmpty DEF MemorySound
<1>3. FilesAgree'
  BY <1>1 DEF FilesAgree
<1>4. \A c \in Client : (PutKnows(c) /\ DeleteKnows(c))'
  BY <1>1, ReturnedKnows DEF Thread
<1>5. NamesOnlyStop'
  BY <1>1 DEF NamesOnlyStop, Thread, Idle, Thd
<1> QED
  BY <1>2, <1>3, <1>4, <1>5 DEF Agreed

\* The agent dies in the middle of a write.
LEMMA TornAgreed ==
    ASSUME IInv, Agreed, NEW t \in Thread, AgentDiesWriting(t) PROVE Agreed'
<1>1. GoDown /\ lost' /\ meant' = disk'
  BY DEF AgentDiesWriting
<1> QED
  BY <1>1, GoDownAgreed DEF FilesSound

\* It goes down between two writes: what was meant is there, or lost.
LEMMA LeftAgreed ==
    ASSUME Agreed, GoDown, LeaveFiles PROVE Agreed'
<1>1. /\ UNCHANGED disk /\ meant' = disk
      /\ ~lost' => ~lost /\ disk = meant
  BY DEF LeaveFiles
<1>2. FilesSound'
  BY <1>1 DEF Agreed, FilesSound, Sound, MeantNames
<1> QED
  BY <1>1, <1>2, GoDownAgreed

(***************************************************************************)
(* Boot takes the definitions from the files.                              *)
(***************************************************************************)
LEMMA BootAgreed ==
    ASSUME IInv, Agreed, KnownDefined', Boot PROVE Agreed'
<1>1. /\ phase = "down" /\ UNCHANGED <<files, th>> /\ phase' # "down"
      /\ \A n \in Name : services'[n] = IF n \in OnDisk THEN 1 ELSE 0
  BY DEF Boot
<1>2. \A t \in Thread : th'[t].pc = "idle"
  BY <1>1 DEF IInv, DownIsEmpty
<1>3. PICK broken \in SUBSET (OnDisk \cap Fragile) :
         \E unpiped \in SUBSET broken : BootMakes(broken, unpiped)
  BY BootChoice
<1>0. PICK unpiped \in SUBSET broken : BootMakes(broken, unpiped)
  BY <1>3
<1>4. disk = meant /\ OnDisk = MeantNames /\ FilesSound'
  BY <1>1 DEF Agreed, FilesAgree, FilesSound, Sound, OnDisk, MeantNames
<1>5. Known' = MeantNames
  BY <1>1, <1>4 DEF Known, MeantNames
<1>6. ASSUME NEW n \in OnDisk PROVE Obj(n)'.def = disk[n]
  <2> DEFINE s == NewService(disk[n])
             how == Outcome(n, broken, unpiped)
  <2>1. n \in Name /\ disk[n] \in Definition /\ <<n, 1>> \in Object /\ services'[n] = 1
    BY <1>1, IncarnationAssumption DEF IInv, TypeOK, OnDisk, Object
  <2>2. s \in Service /\ s.def = disk[n]
    BY <2>1, NewServiceType DEF NewService
  <2>3. obj'[<<n, 1>>] = IF n \in BootReached(broken) THEN Started(s, how) ELSE s
    BY <1>0, <2>1 DEF BootMakes
  <2>4. how \in Outcomes
    BY OutcomeCases
  <2>5. Obj(n)' = obj'[<<n, 1>>]
    BY <2>1 DEF Obj
  <2> HIDE DEF s, how
  <2> QED
    BY <2>2, <2>3, <2>4, <2>5, StartedDef
<1>7. \A n \in Name : MeantAgrees(n)'
  BY <1>1, <1>4, <1>5, <1>6 DEF MeantAgrees, MeantNames
<1>8. MemorySound'
  BY <1>4, <1>7, AgreeingIsSoundLater
<1>9. /\ \A c \in Client : (PutKnows(c) /\ DeleteKnows(c))'
      /\ NamesOnlyStop'
  BY <1>2 DEF PutKnows, DeleteKnows, Putting, Changing, NamesOnlyStop, Thread
<1> QED
  BY <1>1, <1>4, <1>7, <1>8, <1>9 DEF Agreed, FilesAgree

-----------------------------------------------------------------------------
(***************************************************************************)
(* The invariant of a registry that one Define or Delete at a time changes *)
(* is inductive.                                                           *)
(***************************************************************************)
LEMMA AgreedNext ==
    IInv /\ FiniteRegistry /\ KnownDefined /\ Agreed /\ OneWriter /\ OneWriter' /\ [Next]_vars
        => Agreed'
<1> SUFFICES ASSUME IInv, FiniteRegistry, KnownDefined, Agreed, OneWriter, OneWriter',
                    [Next]_vars
             PROVE  Agreed'
  OBVIOUS
<1>1. KnownDefined'
  BY KnownDefinedNext DEF IInv
<1>2. ASSUME NEW c \in Client, Request(c) PROVE Agreed'
  BY <1>2, RequestAgreed
<1>3. ASSUME NEW t \in Thread, ThreadStep(t) PROVE Agreed'
  BY <1>1, <1>3, DefineCheckAgreed, DefineInsertAgreed, DefineInstallAgreed, StartAgreed,
     StopBeginAgreed, StopReturnAgreed, DeleteCheckAgreed, DeleteRemoveAgreed, SignalAgreed
     DEF ThreadStep
<1>4. CASE World
  BY <1>4, WorldAgreed
<1>5. ASSUME NEW t \in Thread, AgentDiesWriting(t) PROVE Agreed'
  BY <1>5, TornAgreed
<1>6. CASE AgentDies \/ RunReturns
  BY <1>6, LeftAgreed DEF AgentDies, RunReturns
<1>7. CASE Boot
  BY <1>1, <1>7, BootAgreed
<1> QED
  BY <1>2, <1>3, <1>4, <1>5, <1>6, <1>7 DEF Next, World

\* At first there is nothing to disagree about.
LEMMA InitAgreed == Init => Agreed
<1> SUFFICES ASSUME Init PROVE Agreed
  OBVIOUS
<1>1. /\ Known = {} /\ MeantNames = {} /\ \A t \in Thread : th[t] = Idle
      /\ \A n \in Name : n \notin Known /\ n \notin MeantNames
      /\ phase # "down"
  BY DEF Init, Known, MeantNames
<1>2. FilesSound /\ MemorySound
  BY <1>1, SoundEmpty DEF FilesSound, MemorySound
<1>3. FilesAgree
  BY <1>1 DEF FilesAgree, MeantAgrees
<1>4. (\A c \in Client : PutKnows(c) /\ DeleteKnows(c)) /\ NamesOnlyStop
  BY <1>1 DEF PutKnows, DeleteKnows, Putting, Changing, NamesOnlyStop, Thread, Idle, Thd
<1> QED
  BY <1>2, <1>3, <1>4 DEF Agreed

(***************************************************************************)
(* As long as at most one Define or Delete is between its critical         *)
(* sections, the registry's invariant holds, whatever starts, stops,       *)
(* restarts and signals run beside it, and whatever crashes, timers,       *)
(* restarts of the agent and torn files come in between.                   *)
(***************************************************************************)
THEOREM RegistryInvariant == Spec /\ []OneWriter => []Agreed
<1>1. /\ IInv /\ FiniteRegistry /\ KnownDefined /\ Agreed
      /\ OneWriter /\ OneWriter' /\ [Next]_vars
      => Agreed'
  BY AgreedNext
<1>2. Init => Agreed
  BY InitAgreed
<1> QED
  BY <1>1, <1>2, InductiveInvariant, RegistryFinite, ServicesAreDefined, PTL DEF Spec

(***************************************************************************)
(* At most one service has an HTTP port, in memory and in the files that   *)
(* are not spoiled: Define checks it in memory before it writes the file.  *)
(***************************************************************************)
THEOREM PortIsUnique == Spec /\ []OneWriter => []OnePort
<1>1. Agreed => OnePort
  <2> SUFFICES ASSUME Agreed, ~lost PROVE OnePort
    BY DEF OnePort
  <2>1. \A m, n \in MeantNames : meant[m].port /\ meant[n].port => m = n
    BY DEF Agreed, FilesSound, Sound
  <2>2. \A n \in OnDisk \ Spoiled : n \in MeantNames /\ disk[n] = meant[n]
    BY DEF OnDisk, MeantNames, Spoiled
  <2>3. \A m, n \in Known : Obj(m).def.port /\ Obj(n).def.port => m = n
    BY DEF Agreed, MemorySound, Sound
  <2> QED
    BY <2>1, <2>2, <2>3 DEF OnePort
<1> QED
  BY <1>1, RegistryInvariant, PTL

(***************************************************************************)
(* What a service needs exists, and the needs have no cycle: hasCycle's    *)
(* search from the redefined name alone, Delete's check and the files that *)
(* survive a restart together keep the whole graph sound, until the agent  *)
(* goes down with a file that was not written.                             *)
(***************************************************************************)
THEOREM NeedsAreSound == Spec /\ []OneWriter => []NeedsSound
<1>1. Agreed => NeedsSound
  <2> SUFFICES ASSUME Agreed, ~lost PROVE NeedsSound
    BY DEF NeedsSound
  <2> DEFINE mem == [n \in Known |-> Obj(n).def]
  <2>1. /\ \A n \in Known : Range(mem[n].needs) \subseteq Known
        /\ Acyclic(Known, [n \in Known |-> mem[n].needs])
    BY DEF Agreed, MemorySound, Sound
  <2>2. [n \in Known |-> mem[n].needs] = NeedsOf
    BY DEF NeedsOf
  <2> QED
    BY <2>1, <2>2 DEF NeedsSound
<1> QED
  BY <1>1, RegistryInvariant, PTL

(***************************************************************************)
(* Between requests the files that are not spoiled are what the supervisor *)
(* has in memory, so a restart brings back the same services: each PUT and *)
(* DELETE ends with both changed, or neither when its write fails, and a   *)
(* step of anything else changes neither.                                  *)
(***************************************************************************)
THEOREM DiskIsMemory == Spec /\ []OneWriter => []DiskMatches
<1>1. Agreed => DiskMatches
  <2> SUFFICES ASSUME Agreed, phase = "up", \A t \in Thread : th[t].pc = "idle",
                      NEW n \in Name \ Spoiled
               PROVE  FileAgrees(n)
    BY DEF DiskMatches
  <2>1. MeantAgrees(n)
    BY DEF Agreed, FilesAgree, Putting, Thread
  <2>2. disk[n] = meant[n] /\ (n \in OnDisk <=> n \in MeantNames)
    BY DEF Spoiled, OnDisk, MeantNames
  <2> QED
    BY <2>1, <2>2 DEF MeantAgrees, FileAgrees
<1> QED
  BY <1>1, RegistryInvariant, PTL

-----------------------------------------------------------------------------
(***************************************************************************)
(* While no two requests overlap, a Stop that has returned has left its    *)
(* service without a process, so nothing runs that is about to be removed. *)
(***************************************************************************)
LEMMA AloneIsOneWriter == Alone => OneWriter
BY DEF Alone, OneWriter, Changing

LEMMA OthersIdle ==
    ASSUME Alone, NEW t \in Client, th[t].pc # "idle",
           \A u \in Thread : u # t => th'[u] = th[u]
    PROVE  \A c \in Client : c # t => th'[c].pc = "idle"
BY DEF Alone, Thread

\* Steps of anyone but a client: what is not wanted gets no process.
LEMMA QuietWaited ==
    ASSUME IInv, Waited, UNCHANGED services,
           \A o \in Object : ~obj[o].want => ~obj'[o].want /\ obj'[o].pid \in {0, obj[o].pid},
           \A c \in Client : th'[c] = th[c] \/ (StopKnows(c) /\ DeleteWaited(c))'
    PROVE  Waited'
<1>1. \A n \in Known : ~Obj(n).want => ~Obj(n)'.want /\ Obj(n)'.pid \in {0, Obj(n).pid}
  BY KnownObject DEF IInv, Obj
<1>2. Known' = Known
  BY DEF Known
<1>3. ASSUME NEW c \in Client, th'[c] = th[c] PROVE (StopKnows(c) /\ DeleteWaited(c))'
  <2>1. StopKnows(c) /\ DeleteWaited(c)
    BY DEF Waited
  <2>2. CASE th[c].pc = "stopping"
    <3>1. PICK n \in Known : n = th[c].name
      BY <2>1, <2>2 DEF StopKnows
    <3>2. ~Obj(n)'.want /\ Obj(n)'.pid \in {0, th[c].target[2]}
      BY <1>1, <2>1, <2>2, <3>1 DEF StopKnows
    <3> QED
      BY <1>2, <1>3, <2>1, <2>2, <3>1, <3>2 DEF StopKnows, DeleteWaited
  <2>3. CASE th[c].pc = "remove"
    <3>1. ASSUME NEW n \in Known, n = th[c].name PROVE ~Obj(n)'.want /\ Obj(n)'.pid = 0
      BY <1>1, <2>1, <2>3, <3>1 DEF DeleteWaited
    <3> QED
      BY <1>2, <1>3, <2>3, <3>1 DEF StopKnows, DeleteWaited
  <2>4. CASE th[c].pc \notin {"stopping", "remove"}
    BY <1>3, <2>4 DEF StopKnows, DeleteWaited
  <2> QED
    BY <2>2, <2>3, <2>4
<1>4. Retired'
  BY DEF Waited, Retired
<1> QED
  BY <1>3, <1>4 DEF Waited

\* Steps of the client at work: they touch its own service, if any.
LEMMA ClientWaited ==
    ASSUME Waited, Alone, UNCHANGED services, NEW t \in Client, th[t].pc # "idle",
           \A u \in Thread : u # t => th'[u] = th[u],
           \A o \in Object : o[2] # services[o[1]] =>
               obj'[o].want = obj[o].want /\ obj'[o].pid = obj[o].pid,
           (StopKnows(t) /\ DeleteWaited(t))'
    PROVE  Waited'
<1>1. \A c \in Client : c # t => th'[c].pc = "idle"
  BY OthersIdle
<1>2. \A c \in Client : (StopKnows(c) /\ DeleteWaited(c))'
  <2>1. ASSUME NEW c \in Client, c # t PROVE (StopKnows(c) /\ DeleteWaited(c))'
    BY <1>1, <2>1 DEF StopKnows, DeleteWaited
  <2> QED
    BY <2>1
<1>3. Retired'
  BY DEF Waited, Retired
<1> QED
  BY <1>2, <1>3 DEF Waited

\* A client that is at another step has nothing to know.
LEMMA NothingWaited ==
    ASSUME NEW t, th'[t].pc \notin {"stopping", "remove"}
    PROVE  (StopKnows(t) /\ DeleteWaited(t))'
BY DEF StopKnows, DeleteWaited

LEMMA RequestWaited ==
    ASSUME IInv, Waited, NEW c \in Client, Request(c) PROVE Waited'
<1>1. /\ UNCHANGED <<services, obj>> /\ th'[c].pc \notin {"stopping", "remove"}
      /\ \A u \in Thread : u # c => th'[u] = th[u]
  BY RequestFields DEF IInv
<1>2. \A b \in Client : th'[b] = th[b] \/ (StopKnows(b) /\ DeleteWaited(b))'
  BY <1>1, NothingWaited DEF Thread
<1> QED
  BY <1>1, <1>2, QuietWaited

LEMMA WorldWaited == ASSUME IInv, NamesOnlyStop, Waited, World PROVE Waited'
<1>1. /\ UNCHANGED services /\ \A c \in Client : th'[c] = th[c]
      /\ \A o \in Object : ~obj[o].want => ~obj'[o].want /\ obj'[o].pid \in {0, obj[o].pid}
  BY WorldFields DEF IInv
<1> QED
  BY <1>1, QuietWaited

(***************************************************************************)
(* Stop marks its own service, whose process it will wait for.             *)
(***************************************************************************)
LEMMA StopBeginWaited ==
    ASSUME IInv, NamesOnlyStop, Waited, Alone, NEW t \in Thread, StopBegin(t) PROVE Waited'
<1>0. PICK n \in Name : n = th[t].name
  BY DEF IInv, TypeOK, ThreadState, StopBegin
<1>1. TypeOK /\ th[t].pc = "stop"
  BY DEF IInv, StopBegin
<1>2. /\ \A o \in Object :
            /\ ~obj[o].want => ~obj'[o].want /\ obj'[o].pid \in {0, obj[o].pid}
            /\ o # <<n, services[n]>> => obj'[o] = obj[o]
      /\ n \in Known => ~Obj(n)'.want /\ Obj(n)'.pid = Obj(n).pid
  BY <1>0, <1>1, StopBeginFields
<1>3. /\ UNCHANGED services /\ Known' = Known
      /\ \A u \in Thread : u # t => th'[u] = th[u]
      /\ \/ n \notin Known /\ th'[t] = Idle
         \/ n \in Known /\ Obj(n).pid = 0 /\ Stopped(t)
         \/ /\ n \in Known /\ th'[t].pc = "stopping" /\ th'[t].name = n
            /\ th'[t].target[1] = services[n] /\ th'[t].target[2] = Obj(n).pid
  BY <1>0, <1>1, StopBeginThread
<1>4. CASE t \in Name
  <2>1. \A c \in Client : th'[c] = th[c]
    BY <1>1, <1>4, StopAllStops
  <2> QED
    BY <1>2, <1>3, <2>1, QuietWaited
<1>5. CASE t \in Client
  <2>1. (StopKnows(t) /\ DeleteWaited(t))'
    <3>1. CASE n \notin Known /\ th'[t] = Idle
      BY <3>1, NothingWaited DEF Idle, Thd
    <3>2. CASE n \in Known /\ Obj(n).pid = 0 /\ Stopped(t)
      <4>1. \/ th'[t] = Idle
            \/ th'[t].name = n /\ th'[t].pc \in {"start", "remove", "install"}
        BY <1>0, <1>1, <3>2, StoppedFields
      <4>2. CASE th'[t] = Idle
        BY <4>2, NothingWaited DEF Idle, Thd
      <4>3. CASE th'[t].name = n /\ th'[t].pc \in {"start", "remove", "install"}
        BY <1>2, <3>2, <4>3 DEF StopKnows, DeleteWaited, Obj
      <4> QED
        BY <4>1, <4>2, <4>3
    <3>3. CASE /\ n \in Known /\ th'[t].pc = "stopping" /\ th'[t].name = n
               /\ th'[t].target[1] = services[n] /\ th'[t].target[2] = Obj(n).pid
      BY <1>2, <1>3, <3>3 DEF StopKnows, DeleteWaited, Obj
    <3> QED
      BY <1>3, <3>1, <3>2, <3>3
  <2> QED
    BY <1>1, <1>2, <1>3, <1>5, <2>1, ClientWaited
<1> QED
  BY <1>4, <1>5 DEF Thread

(***************************************************************************)
(* Stop returns once the launch it waits for has exited: then its service  *)
(* has no process.                                                         *)
(***************************************************************************)
LEMMA StopReturnWaited ==
    ASSUME IInv, NamesOnlyStop, Waited, Alone, NEW t \in Thread, StopReturn(t) PROVE Waited'
<1>0. PICK n \in Name : n = th[t].name
  BY DEF IInv, TypeOK, ThreadState, StopReturn
<1>1. UNCHANGED <<services, obj>> /\ th[t].pc = "stopping" /\ Stopped(t)
  BY DEF StopReturn
<1>2. CASE t \in Name
  <2>1. \A c \in Client : th'[c] = th[c]
    BY <1>2, StopAllStops DEF IInv
  <2> QED
    BY <1>1, <2>1, QuietWaited
<1>3. CASE t \in Client
  <2>1. /\ n \in Known /\ th[t].target[1] = services[n]
        /\ ~Obj(n).want /\ Obj(n).pid \in {0, th[t].target[2]}
    BY <1>0, <1>1, <1>3 DEF Waited, StopKnows
  <2>2. Obj(n).pid = 0
    <3>1. Target(t) \notin live \cup gone
      BY DEF StopReturn, Exited
    <3>2. Target(t) = <<n, services[n], th[t].target[2]>>
      BY <1>0, <2>1 DEF Target
    <3>3. <<n, services[n]>> \in Object
      BY <2>1, KnownObject DEF IInv
    <3>4. Obj(n).pid # 0 => <<n, services[n], Obj(n).pid>> \in live \cup gone
      BY <3>3 DEF IInv, OneProcess, Obj
    <3> QED
      BY <2>1, <3>1, <3>2, <3>4
  <2>3. \/ th'[t] = Idle
        \/ th'[t].name = n /\ th'[t].pc \in {"start", "remove", "install"}
    BY <1>0, <1>1, StoppedFields DEF IInv
  <2>4. \A u \in Thread : u # t => th'[u] = th[u]
    BY <1>1, StoppedFields DEF IInv
  <2>5. (StopKnows(t) /\ DeleteWaited(t))'
    <3>1. CASE th'[t] = Idle
      BY <3>1, NothingWaited DEF Idle, Thd
    <3>2. CASE th'[t].name = n /\ th'[t].pc \in {"start", "remove", "install"}
      BY <1>1, <2>1, <2>2, <3>2 DEF StopKnows, DeleteWaited, Obj
    <3> QED
      BY <2>3, <3>1, <3>2
  <2> QED
    BY <1>1, <1>3, <2>4, <2>5, ClientWaited
<1> QED
  BY <1>2, <1>3 DEF Thread

(***************************************************************************)
(* The other steps of a client end its wait, or come before it.            *)
(***************************************************************************)
LEMMA BesideWaited ==
    ASSUME IInv, NamesOnlyStop, Waited, Alone, NEW t \in Thread,
           DefineCheck(t) \/ Start(t) \/ Signal(t) \/ DeleteCheck(t)
    PROVE  Waited'
<1>1. t \in Client /\ th[t].pc # "idle"
  BY ClientAtWork DEF DefineCheck, Start, Signal, DeleteCheck
<1>2. /\ UNCHANGED services
      /\ \A o \in Object : o[2] # services[o[1]] => obj'[o] = obj[o]
  BY StartFields DEF IInv, DefineCheck, Start, Signal, DeleteCheck
<1>3. /\ th'[t].pc \notin {"stopping", "remove"}
      /\ \A u \in Thread : u # t => th'[u] = th[u]
  <2>1. CASE Return(t)
    BY <2>1, ReturnFields DEF IInv, Idle, Thd
  <2>2. CASE DefineCheck(t) /\ ~Return(t)
    <3>1. TypeOK /\ ~(Return(t) /\ UNCHANGED meant)
      BY <2>2 DEF IInv
    <3> QED
      BY <2>2, <3>1, DefineCheckFields
  <2>3. CASE DeleteCheck(t) /\ ~Return(t)
    BY <2>3, DeleteCheckFields DEF IInv
  <2> QED
    BY <2>1, <2>2, <2>3 DEF Start, Signal
<1>4. (StopKnows(t) /\ DeleteWaited(t))'
  BY <1>3, NothingWaited
<1> QED
  BY <1>1, <1>2, <1>3, <1>4, ClientWaited

\* A new service has a name that had none, so it retires no other.
LEMMA DefineInsertWaited ==
    ASSUME IInv, Agreed, Waited, Alone, NEW t \in Thread, DefineInsert(t) PROVE Waited'
<1>0. PICK n \in Name : n = th[t].name /\ th[t].op = "put"
  BY DEF DefineInsert, IInv, TypeOK, ThreadState
<1> DEFINE k == made[n] + 1
<1>1. /\ th[t].pc = "insert" /\ k \in Incarnation
      /\ services' = [services EXCEPT ![n] = k]
      /\ obj' = [obj EXCEPT ![<<n, k>>] = NewService(th[t].def)]
      /\ th' = [th EXCEPT ![t].pc = "start"]
  BY <1>0 DEF DefineInsert, Goto
<1>2. t \in Client /\ th[t] \in ThreadState
  BY <1>1, ClientAtWork DEF Agreed, IInv, TypeOK
<1>3. services[n] = 0
  <2>1. PutKnows(t) /\ Putting(t)
    BY <1>0, <1>1, <1>2 DEF Agreed, Putting
  <2> QED
    BY <1>0, <1>1, <2>1 DEF PutKnows, Known
<1>4. /\ services'[n] = k
      /\ \A m \in Name : m # n => services'[m] = services[m]
      /\ \A o \in Object : o # <<n, k>> => obj'[o] = obj[o]
  BY <1>1 DEF IInv, TypeOK, Object
<1> HIDE DEF k
<1>5. Retired'
  <2> SUFFICES ASSUME NEW o \in Object, o[2] # services'[o[1]]
               PROVE  ~obj'[o].want /\ obj'[o].pid = 0
    BY DEF Retired
  <2>1. o[1] \in Name /\ o[2] \in Incarnation /\ o[2] # 0 /\ o = <<o[1], o[2]>>
    BY IncarnationAssumption DEF Object
  <2>2. o # <<n, k>>
    BY <1>4
  <2>3. o[2] # services[o[1]]
    BY <1>3, <1>4, <2>1
  <2> QED
    BY <1>4, <2>2, <2>3 DEF Waited, Retired
<1>6. th'[t].pc = "start" /\ \A u \in Thread : u # t => th'[u] = th[u]
  BY <1>1, <1>2 DEF IInv, TypeOK, ThreadState, ThreadRecord
<1>7. \A c \in Client : c # t => th'[c].pc = "idle"
  BY <1>1, <1>2, <1>6, OthersIdle
<1>8. \A c \in Client : (StopKnows(c) /\ DeleteWaited(c))'
  BY <1>6, <1>7, NothingWaited
<1> QED
  BY <1>5, <1>8 DEF Waited

LEMMA DefineInstallWaited ==
    ASSUME IInv, NamesOnlyStop, Waited, Alone, NEW t \in Thread, DefineInstall(t)
    PROVE  Waited'
<1> DEFINE x == <<th[t].name, th[t].old>>
<1>1. /\ th[t].pc = "install" /\ UNCHANGED services
      /\ obj' = [obj EXCEPT ![x] = [@ EXCEPT !.def = th[t].def]]
      /\ th' = [th EXCEPT ![t].pc = "start"]
  BY DEF DefineInstall, Goto
<1>2. t \in Client /\ th[t] \in ThreadState
  BY <1>1, ClientAtWork DEF IInv, TypeOK
<1> HIDE DEF x
<1>3. ASSUME NEW o \in Object PROVE obj'[o].want = obj[o].want /\ obj'[o].pid = obj[o].pid
  <2>1. obj[o] \in Service /\ obj'[o] \in {obj[o], [obj[o] EXCEPT !.def = th[t].def]}
    BY <1>1 DEF IInv, TypeOK
  <2> QED
    BY <2>1 DEF Service
<1>4. th'[t].pc = "start" /\ \A u \in Thread : u # t => th'[u] = th[u]
  BY <1>1, <1>2 DEF IInv, TypeOK, ThreadState, ThreadRecord
<1>5. (StopKnows(t) /\ DeleteWaited(t))'
  BY <1>4, NothingWaited
<1> QED
  BY <1>1, <1>2, <1>3, <1>4, <1>5, ClientWaited

\* What Delete removes has no process and is not wanted.
LEMMA DeleteRemoveWaited ==
    ASSUME IInv, NamesOnlyStop, Waited, Alone, NEW t \in Thread, DeleteRemove(t) PROVE Waited'
<1>0. PICK n \in Name : n = th[t].name
  BY DEF DeleteRemove, IInv, TypeOK, ThreadState
<1>1. /\ th[t].pc = "remove" /\ UNCHANGED obj /\ Return(t)
      /\ services' = IF n \in Known THEN [services EXCEPT ![n] = 0] ELSE services
  BY <1>0 DEF DeleteRemove, Forget
<1>2. t \in Client
  BY <1>1, ClientAtWork
<1>3. th'[t].pc = "idle" /\ \A u \in Thread : u # t => th'[u] = th[u]
  BY <1>1, ReturnFields DEF IInv, Idle, Thd
<1>4. \A c \in Client : (StopKnows(c) /\ DeleteWaited(c))'
  <2>1. \A c \in Client : c # t => th'[c].pc = "idle"
    BY <1>1, <1>2, <1>3, OthersIdle
  <2> QED
    BY <1>3, <2>1, NothingWaited
<1>5. Retired'
  <2> SUFFICES ASSUME NEW o \in Object, o[2] # services'[o[1]]
               PROVE  ~obj[o].want /\ obj[o].pid = 0
    BY <1>1 DEF Retired
  <2>1. o[1] \in Name /\ o = <<o[1], o[2]>>
    BY DEF Object
  <2>2. CASE o[2] = services[o[1]]
    <3>1. o[1] = n /\ n \in Known
      BY <1>1, <2>1, <2>2 DEF IInv, TypeOK
    <3>2. ~Obj(n).want /\ Obj(n).pid = 0
      BY <1>0, <1>1, <1>2, <3>1 DEF Waited, DeleteWaited
    <3> QED
      BY <2>1, <2>2, <3>1, <3>2 DEF Obj
  <2>3. CASE o[2] # services[o[1]]
    BY <2>3 DEF Waited, Retired
  <2> QED
    BY <2>2, <2>3
<1> QED
  BY <1>4, <1>5 DEF Waited

LEMMA GoDownWaited == ASSUME GoDown PROVE Waited'
<1>1. /\ \A t \in Thread : th'[t] = Idle
      /\ \A o \in Object : obj'[o] = NewService(NoDef)
  BY DEF GoDown
<1>2. \A c \in Client : (StopKnows(c) /\ DeleteWaited(c))'
  BY <1>1, NothingWaited DEF Thread, Idle, Thd
<1> QED
  BY <1>1, <1>2 DEF Waited, Retired, NewService

\* Boot makes one service of each name, and leaves the other objects as new.
LEMMA BootWaited == ASSUME IInv, Boot PROVE Waited'
<1>1. /\ phase = "down" /\ UNCHANGED th
      /\ \A n \in Name : services'[n] = IF n \in OnDisk THEN 1 ELSE 0
  BY DEF Boot
<1>2. PICK broken \in SUBSET (OnDisk \cap Fragile) :
         \E unpiped \in SUBSET broken : BootMakes(broken, unpiped)
  BY BootChoice
<1>3. \A c \in Client : (StopKnows(c) /\ DeleteWaited(c))'
  <2>1. \A c \in Client : th'[c].pc = "idle"
    BY <1>1 DEF IInv, DownIsEmpty, Thread
  <2> QED
    BY <2>1, NothingWaited
<1>4. Retired'
  <2> SUFFICES ASSUME NEW o \in Object, o[2] # services'[o[1]]
               PROVE  ~obj'[o].want /\ obj'[o].pid = 0
    BY DEF Retired
  <2>1. ~(o[1] \in OnDisk /\ o[2] = 1)
    BY <1>1 DEF OnDisk
  <2>2. obj'[o] = NewService(NoDef)
    BY <1>2, <2>1 DEF BootMakes
  <2> QED
    BY <2>2 DEF NewService
<1> QED
  BY <1>3, <1>4 DEF Waited

-----------------------------------------------------------------------------
LEMMA WaitedNext == IInv /\ Agreed /\ Waited /\ Alone /\ [Next]_vars => Waited'
<1> SUFFICES ASSUME IInv, Agreed, Waited, Alone, [Next]_vars PROVE Waited'
  OBVIOUS
<1>0. NamesOnlyStop
  BY DEF Agreed
<1>1. ASSUME NEW c \in Client, Request(c) PROVE Waited'
  BY <1>1, RequestWaited
<1>2. ASSUME NEW t \in Thread, ThreadStep(t) PROVE Waited'
  BY <1>0, <1>2, BesideWaited, DefineInsertWaited, DefineInstallWaited, StopBeginWaited,
     StopReturnWaited, DeleteRemoveWaited DEF ThreadStep
<1>3. CASE World
  BY <1>0, <1>3, WorldWaited
<1>4. ASSUME GoDown PROVE Waited'
  BY <1>4, GoDownWaited
<1>5. CASE Boot
  BY <1>5, BootWaited
<1> QED
  BY <1>1, <1>2, <1>3, <1>4, <1>5 DEF Next, World, AgentDiesWriting, AgentDies, RunReturns

(***************************************************************************)
(* Every process belongs to the service that has its name: Delete and PUT  *)
(* have waited for the exit of what they remove or replace, and no timer   *)
(* brings it back.                                                         *)
(***************************************************************************)
THEOREM NoOrphanProcess == Spec /\ []Alone => []NoOrphans
<1>1. Init => Waited
  BY NothingWaited DEF Init, Waited, Retired, StopKnows, DeleteWaited, NewService, Thread,
                       Idle, Thd
<1>2. IInv /\ Agreed /\ Waited /\ Alone /\ [Next]_vars => Waited'
  BY WaitedNext
<1>3. IInv /\ Waited => NoOrphans
  <2> SUFFICES ASSUME IInv, Waited, NEW p \in live PROVE services[p[1]] = p[2]
    BY DEF NoOrphans
  <2>1. <<p[1], p[2]>> \in Object /\ obj[<<p[1], p[2]>>].pid = p[3] /\ p[3] # 0
    BY ProcessParts DEF IInv, OneProcess
  <2> QED
    BY <2>1 DEF Waited, Retired
<1>4. Alone => OneWriter
  BY AloneIsOneWriter
<1> QED
  BY <1>1, <1>2, <1>3, <1>4, RegistryInvariant, InductiveInvariant, PTL DEF Spec
=============================================================================
