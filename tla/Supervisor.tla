----------------------------- MODULE Supervisor -----------------------------
(***************************************************************************)
(* The service supervisor of the sprite's agent                            *)
(* (internal/agent/services.go, run by internal/agent/server.go).          *)
(*                                                                         *)
(* One mutex, Supervisor.mu, guards the map of services, but Define, Stop, *)
(* Restart and Delete release it between their parts.  An action is one    *)
(* critical section, and a thread (the goroutine that serves a request)    *)
(* has a program counter between them.  The goroutine that waits for a     *)
(* process and the timer that restarts a crashed one are actors too.       *)
(*                                                                         *)
(* The code keeps pointers to service objects after it releases the mutex, *)
(* so an object has an identity of its own: <<n, k>> is the k-th service   *)
(* created for the name n since the agent started.  A process is           *)
(* <<n, k, g>>, the g-th launch of that object; g is the object's gen.     *)
(***************************************************************************)
EXTENDS Naturals, FiniteSets, Needs

CONSTANTS
    Name,           \* service names
    Client,         \* goroutines that serve API requests
    Incarnation,    \* how many times a name can be created (bound)
    PutDefs,        \* the definitions clients PUT
    Ops,            \* the requests clients make
    Fragile,        \* names whose launch may fail
    MaxRequests,    \* bound on requests
    MaxFileFaults,  \* bound on writes and removals of files that fail
    MaxCrashes,     \* bound on processes that exit by themselves
    MaxReboots      \* bound on the times the agent goes down

Definition == [needs : Seq(Name), port : BOOLEAN]

NoDef  == [file |-> "none"]     \* no file; also "no definition" in a thread
Torn   == [file |-> "torn"]     \* a file that does not parse

AllOps == {"put", "start", "stop", "restart", "delete", "signal"}

ASSUME DefsAssumption == PutDefs \subseteq Definition
ASSUME ActorAssumption == Client \cap Name = {}
ASSUME OpsAssumption == Ops \subseteq AllOps
ASSUME FragileAssumption == Fragile \subseteq Name
ASSUME IncarnationAssumption == Incarnation \subseteq Nat \ {0} /\ 1 \in Incarnation
ASSUME BoundsAssumption ==
    /\ MaxRequests \in Nat /\ MaxCrashes \in Nat
    /\ MaxReboots \in Nat /\ MaxFileFaults \in Nat

Object  == Name \X Incarnation
Process == Name \X Incarnation \X (Nat \ {0})
Thread  == Client \cup Name     \* a name stands for StopAll's goroutine for it

VARIABLES
    phase,      \* "up", "stopping" (in StopAll) or "down"
    services,   \* Supervisor.services: the current incarnation of a name, 0 if none
    made,       \* incarnations created since the agent started
    obj,        \* the service objects
    disk,       \* the definition file of each name
    meant,      \* history: disk, had no write or removal failed since boot
    lost,       \* history: has the agent gone down with disk other than meant?
    live,       \* processes that run
    gone,       \* processes that exited and whose waiting goroutine has not run
    timers,     \* pending restart timers, one per crashed process
    th,         \* the threads
    requests, crashes, reboots, faults  \* what the environment has used of its bounds

vars == <<phase, services, made, obj, disk, meant, lost, live, gone, timers, th,
          requests, crashes, reboots, faults>>
files  == <<disk, meant, lost>>
budget == <<requests, crashes, reboots, faults>>

-----------------------------------------------------------------------------
(***************************************************************************)
(* State                                                                   *)
(***************************************************************************)
Service ==
    [def : Definition \cup {NoDef},
     status : {"stopped", "running", "stopping", "failed"},
     error : {"none", "exec", "exit"},  \* state.Error: could not start, crashed
     pid : Nat,                         \* cmd: the running launch, 0 for nil
     want : BOOLEAN,                    \* wantRunning
     gen : Nat,
     noPipe : BOOLEAN]  \* history: the last launch asked for got no pipes

Label == {"idle", "define", "insert", "install", "start", "stop", "stopping",
          "delete", "remove", "signal"}

StopThen == [stop |-> "idle", stopall |-> "idle", restart |-> "start",
             delete |-> "remove", put |-> "install"]

ThreadRecord ==
    [pc : Label, op : AllOps \cup {"none", "stopall"}, name : Name \cup {"none"},
     def : Definition \cup {NoDef},
     old : Nat,             \* Define's `old`: the incarnation it replaces
     target : Nat \X Nat]   \* Stop's `cmd`: incarnation and launch it waits for

\* Mistake: the object starts without a status.
NewServiceBlank(d) == [def |-> d, status |-> "", error |-> "none",
                       pid |-> 0, want |-> FALSE, gen |-> 0, noPipe |-> FALSE]

\* What a thread is sure to hold between its critical sections.
ThreadState ==
    {r \in ThreadRecord :
        /\ r.pc # "idle" => r.name \in Name
        /\ r.pc \in {"define", "insert", "install"} => r.op = "put"
        /\ r.op = "put" => r.def \in Definition
        /\ r.pc \in {"stop", "stopping"} => r.op \in DOMAIN StopThen
        /\ r.pc = "delete" => r.op = "delete"}

NewService(d) == [def |-> d, status |-> "stopped", error |-> "none",
                  pid |-> 0, want |-> FALSE, gen |-> 0, noPipe |-> FALSE]

Thd(p, op, n, d) ==
    [pc |-> p, op |-> op, name |-> n, def |-> d, old |-> 0, target |-> <<0, 0>>]

Idle == Thd("idle", "none", "none", NoDef)

Known   == {n \in Name : services[n] # 0}
Obj(n)  == obj[<<n, services[n]>>]
NeedsOf == [n \in Known |-> Obj(n).def.needs]
Current(n) == <<n, services[n], Obj(n).pid>>
Target(t) == <<th[t].name, th[t].target[1], th[t].target[2]>>

Goto(t, l) == th' = [th EXCEPT ![t].pc = l]
Return(t)  == th' = [th EXCEPT ![t] = Idle]

-----------------------------------------------------------------------------
(***************************************************************************)
(* launchLocked, with its three outcomes.  A launch that fails leaves cmd  *)
(* nil and gen as it was; one that cannot make its pipes ("pipe") returns  *)
(* before it records anything.                                             *)
(***************************************************************************)
Launched(s, how) ==
    CASE how = "pipe" -> [s EXCEPT !.noPipe = TRUE]
      [] how = "exec" -> [s EXCEPT !.status = "failed", !.error = "exec", !.noPipe = FALSE]
      [] how = "ok"   -> [s EXCEPT !.status = "running", !.error = "none", !.noPipe = FALSE,
                                   !.gen = s.gen + 1, !.pid = s.gen + 1]

Started(s, how) ==
    IF s.pid # 0 THEN [s EXCEPT !.want = TRUE]
    ELSE Launched([s EXCEPT !.want = TRUE], how)

\* How n's launch goes when those in `broken` fail, those in `unpiped` at the pipes.
Outcome(n, broken, unpiped) ==
    IF n \in unpiped THEN "pipe" ELSE IF n \in broken THEN "exec" ELSE "ok"

(***************************************************************************)
(* The state once a process has ended: because it was to stop, or not.     *)
(***************************************************************************)
Ended(s) ==
    [s EXCEPT !.pid = 0, !.status = "stopped", !.error = "none", !.noPipe = FALSE]
CrashedNow(s) == [s EXCEPT !.pid = 0, !.status = "failed", !.error = "exit"]

(***************************************************************************)
(* What startLocked did to the names it reached.                           *)
(***************************************************************************)
StartReached(reached, broken, unpiped) ==
    LET launch == {n \in Known : n \in reached \ broken /\ Obj(n).pid = 0}
    IN  /\ obj' = [o \in Object |->
                     IF o[1] \in reached /\ o[2] = services[o[1]]
                     THEN Started(obj[o], Outcome(o[1], broken, unpiped))
                     ELSE obj[o]]
        /\ live' = live \cup {<<n, services[n], Obj(n).gen + 1>> : n \in launch}

MayBreak == {n \in Known \cap Fragile : Obj(n).pid = 0}

-----------------------------------------------------------------------------
(***************************************************************************)
(* A request arrives.                                                      *)
(***************************************************************************)
Entry == [put |-> "define", start |-> "start", stop |-> "stop",
          restart |-> "stop", delete |-> "delete", signal |-> "signal"]

Request(c) ==
    /\ phase = "up" /\ th[c].pc = "idle" /\ requests < MaxRequests
    /\ requests' = requests + 1
    /\ \E op \in Ops, n \in Name :
       \E d \in IF op = "put" THEN PutDefs ELSE {NoDef} :
          th' = [th EXCEPT ![c] = Thd(Entry[op], op, n, d)]
    /\ UNCHANGED <<phase, services, made, obj, files, live, gone, timers,
                   crashes, reboots, faults>>

(***************************************************************************)
(* Define, first critical section: the checks and the file.  A write that  *)
(* fails leaves the old file, a torn one (os.WriteFile truncates first) or *)
(* the new one, and the PUT returns the error: memory stays as it is.      *)
(***************************************************************************)
NeedsKnown(n, d) == \A m \in Range(d.needs) : m \in Known /\ m # n

\* Mistake: the port is checked only when the service is new.
PortFreeIfNew(n, d) ==
    d.port /\ n \notin Known => \A m \in Known \ {n} : ~Obj(m).def.port

PortFree(n, d) == d.port => \A m \in Known \ {n} : ~Obj(m).def.port

\* Mistake: the walk sees the old definition.
StaysAcyclicOld(n, d) == n \in Known => ~HasCycle(Known, NeedsOf, n)

StaysAcyclic(n, d) ==
    n \in Known => ~HasCycle(Known, [NeedsOf EXCEPT ![n] = d.needs], n)

Accepted(n, d) == NeedsKnown(n, d) /\ PortFree(n, d) /\ StaysAcyclic(n, d)

\* A write or a removal of a file fails, and the agent lives on.
FileFault == faults < MaxFileFaults /\ faults' = faults + 1

DefineCheck(t) ==
    LET n == th[t].name
        d == th[t].def
    IN  /\ th[t].pc = "define"
        /\ \/ /\ ~Accepted(n, d)
              /\ Return(t)
              /\ UNCHANGED <<disk, meant, faults>>
           \/ /\ Accepted(n, d)
              /\ disk' = [disk EXCEPT ![n] = d]
              /\ meant' = [meant EXCEPT ![n] = d]
              /\ th' = [th EXCEPT ![t].pc = IF n \in Known THEN "stop" ELSE "insert",
                                  ![t].old = services[n]]
              /\ UNCHANGED faults
           \/ /\ Accepted(n, d) /\ FileFault
              /\ \E left \in {disk[n], Torn, d} : disk' = [disk EXCEPT ![n] = left]
              /\ Return(t)
              /\ UNCHANGED meant
        /\ UNCHANGED <<phase, services, made, obj, lost, live, gone, timers,
                       requests, crashes, reboots>>

(***************************************************************************)
(* Define of a new name, second critical section.  The PUT handler goes on *)
(* to Start.                                                               *)
(***************************************************************************)
DefineInsert(t) ==
    LET n == th[t].name
        k == made[n] + 1
    IN  /\ th[t].pc = "insert" /\ k \in Incarnation
        /\ made' = [made EXCEPT ![n] = k]
        /\ services' = [services EXCEPT ![n] = k]
        /\ obj' = [obj EXCEPT ![<<n, k>>] = NewService(th[t].def)]
        /\ Goto(t, "start")
        /\ UNCHANGED <<phase, files, live, gone, timers, budget>>

(***************************************************************************)
(* Define of an existing name, after its Stop: old.def = def, whether or   *)
(* not `old` is still the service of that name.                            *)
(***************************************************************************)
DefineInstall(t) ==
    /\ th[t].pc = "install"
    /\ obj' = [obj EXCEPT ![<<th[t].name, th[t].old>>] = [@ EXCEPT !.def = th[t].def]]
    /\ Goto(t, "start")
    /\ UNCHANGED <<phase, services, made, files, live, gone, timers, budget>>

\* Mistake: the needs are not started.
ReachedAlone(n, broken) == {n} \cap Known

Reached(n, broken) == StartWalk(Known, NeedsOf, broken, n).reached

Start(t) ==
    /\ th[t].pc = "start"
    /\ \E broken \in SUBSET MayBreak : \E unpiped \in SUBSET broken :
          StartReached(Reached(th[t].name, broken), broken, unpiped)
    /\ Return(t)
    /\ UNCHANGED <<phase, services, made, files, gone, timers, budget>>

-----------------------------------------------------------------------------
(***************************************************************************)
(* Stop, first critical section.  StopThen says where the caller goes on   *)
(* once Stop has returned nil.                                             *)
(***************************************************************************)
Stopped(t) ==
    IF StopThen[th[t].op] = "idle" THEN Return(t)
    ELSE Goto(t, StopThen[th[t].op])

StopBegin(t) ==
    LET n == th[t].name
        o == <<n, services[n]>>
    IN  /\ th[t].pc = "stop"
        /\ \/ n \notin Known /\ Return(t) /\ UNCHANGED obj
           \/ /\ n \in Known /\ obj[o].pid = 0
              /\ obj' = [obj EXCEPT ![o] = Ended([@ EXCEPT !.want = FALSE])]
              /\ Stopped(t)
           \/ /\ n \in Known /\ obj[o].pid # 0
              /\ obj' = [obj EXCEPT ![o] = [@ EXCEPT !.want = FALSE, !.status = "stopping"]]
              /\ th' = [th EXCEPT ![t].pc = "stopping",
                                  ![t].target = <<services[n], obj[o].pid>>]
        /\ UNCHANGED <<phase, services, made, files, live, gone, timers, budget>>

(***************************************************************************)
(* SIGKILL after the timeout, for a process that SIGTERM did not end.      *)
(***************************************************************************)
StopKill(t) ==
    /\ th[t].pc = "stopping" /\ Target(t) \in live
    /\ live' = live \ {Target(t)}
    /\ gone' = gone \cup {Target(t)}
    /\ UNCHANGED <<phase, services, made, obj, files, timers, th, budget>>

(***************************************************************************)
(* <-exited: the waiting goroutine of that very launch has closed it.      *)
(***************************************************************************)
\* Mistake: Stop does not wait for the exit after its timeout.
ExitedOrTimeout(t) == TRUE

\* Mistake: Stop waits until the service has no process.
ExitedAll(t) == obj[<<th[t].name, th[t].target[1]>>].pid = 0

Exited(t) == Target(t) \notin live \cup gone

StopReturn(t) ==
    /\ th[t].pc = "stopping" /\ Exited(t)
    /\ Stopped(t)
    /\ UNCHANGED <<phase, services, made, obj, files, live, gone, timers, budget>>

-----------------------------------------------------------------------------
(***************************************************************************)
(* Delete: the check of the needs, then (after Stop) the removal.          *)
(***************************************************************************)
\* Mistake: only services that run count.
NeededNow(n) ==
    \E m \in Known \ {n} : Obj(m).pid # 0 /\ n \in Range(Obj(m).def.needs)

Needed(n) == \E m \in Known \ {n} : n \in Range(Obj(m).def.needs)

DeleteCheck(t) ==
    /\ th[t].pc = "delete"
    /\ IF Needed(th[t].name) THEN Return(t) ELSE Goto(t, "stop")
    /\ UNCHANGED <<phase, services, made, obj, files, live, gone, timers, budget>>

\* Mistake: the file stays.
ForgetInMemory(n) ==
    services' = [services EXCEPT ![n] = 0] /\ UNCHANGED <<disk, meant, faults>>

Forget(n) ==
    /\ services' = [services EXCEPT ![n] = 0]
    /\ meant' = [meant EXCEPT ![n] = NoDef]
    /\ \/ disk' = [disk EXCEPT ![n] = NoDef] /\ UNCHANGED faults
       \/ FileFault /\ UNCHANGED disk

DeleteRemove(t) ==
    LET n == th[t].name
    IN  /\ th[t].pc = "remove"
        /\ \/ n \in Known /\ Forget(n)
           \/ n \notin Known /\ UNCHANGED <<services, disk, meant, faults>>
        /\ Return(t)
        /\ UNCHANGED <<phase, made, obj, lost, live, gone, timers,
                       requests, crashes, reboots>>

(***************************************************************************)
(* Signal: the process may die of it or not; a service without a process   *)
(* is a conflict.                                                          *)
(***************************************************************************)
Signal(t) ==
    LET n == th[t].name
    IN  /\ th[t].pc = "signal"
        /\ \/ UNCHANGED <<live, gone>>
           \/ /\ n \in Known /\ Obj(n).pid # 0 /\ Current(n) \in live
              /\ live' = live \ {Current(n)}
              /\ gone' = gone \cup {Current(n)}
        /\ Return(t)
        /\ UNCHANGED <<phase, services, made, obj, files, timers, budget>>

-----------------------------------------------------------------------------
(***************************************************************************)
(* A process exits: by itself, or because a Stop sent it SIGTERM.          *)
(***************************************************************************)
Terminating(p) == \E t \in Thread : th[t].pc = "stopping" /\ Target(t) = p

Exit(p) ==
    /\ p \in live
    /\ \/ Terminating(p) /\ UNCHANGED crashes
       \/ ~Terminating(p) /\ crashes < MaxCrashes /\ crashes' = crashes + 1
    /\ live' = live \ {p}
    /\ gone' = gone \cup {p}
    /\ UNCHANGED <<phase, services, made, obj, files, timers, th, requests, reboots, faults>>

(***************************************************************************)
(* The goroutine that waits for a launch: it closes `exited` and, when the *)
(* launch is still the service's last, records the exit.  A service that   *)
(* is still wanted crashed: it gets a restart timer.                       *)
(***************************************************************************)
IsLastLaunch(p) == obj[<<p[1], p[2]>>].gen = p[3]

\* Mistake: the reported status stands for what is wanted.
StopAskedByStatus(o) == obj[o].status = "stopping"

StopAsked(o) == ~obj[o].want

Watch(p) ==
    LET o == <<p[1], p[2]>>
    IN  /\ p \in gone
        /\ gone' = gone \ {p}
        /\ \/ ~IsLastLaunch(p) /\ UNCHANGED <<obj, timers>>
           \/ /\ IsLastLaunch(p) /\ StopAsked(o)
              /\ obj' = [obj EXCEPT ![o] = Ended(@)]
              /\ UNCHANGED timers
           \/ /\ IsLastLaunch(p) /\ ~StopAsked(o)
              /\ obj' = [obj EXCEPT ![o] = CrashedNow(@)]
              /\ timers' = timers \cup {p}
        /\ UNCHANGED <<phase, services, made, files, live, th, budget>>

(***************************************************************************)
(* The restart timer.  It relaunches the object it was made for, provided  *)
(* the name has some service.                                              *)
(***************************************************************************)
\* Mistake: any wanted service is relaunched.
DueIfWanted(p) == obj[<<p[1], p[2]>>].want /\ p[1] \in Known

\* Mistake: a stopped service is relaunched.
DueIfIdle(p) == IsLastLaunch(p) /\ obj[<<p[1], p[2]>>].pid = 0 /\ p[1] \in Known

\* Mistake: the test of cmd is inverted.
DueIfRunning(p) ==
    LET s == obj[<<p[1], p[2]>>]
    IN  IsLastLaunch(p) /\ s.want /\ s.pid # 0 /\ p[1] \in Known

StillDue(p) ==
    LET s == obj[<<p[1], p[2]>>]
    IN  IsLastLaunch(p) /\ s.want /\ s.pid = 0 /\ p[1] \in Known

Fire(p) ==
    LET o == <<p[1], p[2]>>
    IN  /\ p \in timers
        /\ timers' = timers \ {p}
        /\ \/ ~StillDue(p) /\ UNCHANGED <<obj, live>>
           \/ /\ StillDue(p)
              /\ obj' = [obj EXCEPT ![o] = Launched(@, "ok")]
              /\ live' = live \cup {<<p[1], p[2], obj[o].gen + 1>>}
           \/ /\ StillDue(p) /\ p[1] \in Fragile
              /\ \E how \in {"exec", "pipe"} : obj' = [obj EXCEPT ![o] = Launched(@, how)]
              /\ UNCHANGED live
        /\ UNCHANGED <<phase, services, made, files, gone, th, budget>>

-----------------------------------------------------------------------------
(***************************************************************************)
(* The agent is the main process of the container: when it ends, every     *)
(* process in the container does and only the files are left.              *)
(***************************************************************************)
GoDown ==
    /\ phase' = "down"
    /\ services' = [n \in Name |-> 0]
    /\ made' = [n \in Name |-> 0]
    /\ obj' = [o \in Object |-> NewService(NoDef)]
    /\ th' = [t \in Thread |-> Idle]
    /\ live' = {} /\ gone' = {} /\ timers' = {}

\* It leaves the files as they are, which history notes.
LeaveFiles ==
    /\ UNCHANGED disk
    /\ lost' = (lost \/ disk # meant)
    /\ meant' = disk

AgentDies ==
    /\ phase # "down" /\ reboots < MaxReboots /\ reboots' = reboots + 1
    /\ GoDown /\ LeaveFiles
    /\ UNCHANGED <<requests, crashes, faults>>

(***************************************************************************)
(* os.WriteFile truncates the file before it writes it: the agent can die  *)
(* in between.                                                             *)
(***************************************************************************)
AgentDiesWriting(t) ==
    /\ th[t].pc = "define" /\ Accepted(th[t].name, th[t].def)
    /\ reboots < MaxReboots /\ reboots' = reboots + 1
    /\ FileFault
    /\ disk' = [disk EXCEPT ![th[t].name] = Torn]
    /\ lost' = TRUE /\ meant' = disk'
    /\ GoDown
    /\ UNCHANGED <<requests, crashes>>

(***************************************************************************)
(* SIGTERM: no more requests, and StopAll runs a Stop for every service.   *)
(* Requests in flight go on beside it.  Run returns when all have ended.   *)
(***************************************************************************)
Shutdown ==
    /\ phase = "up" /\ reboots < MaxReboots /\ reboots' = reboots + 1
    /\ phase' = "stopping"
    /\ th' = [t \in Thread |->
                IF t \in Known THEN Thd("stop", "stopall", t, NoDef) ELSE th[t]]
    /\ UNCHANGED <<services, made, obj, files, live, gone, timers, requests, crashes, faults>>

RunReturns ==
    /\ phase = "stopping" /\ \A n \in Name : th[n].pc = "idle"
    /\ GoDown /\ LeaveFiles
    /\ UNCHANGED budget

(***************************************************************************)
(* NewSupervisor: the files that parse become services, and each is        *)
(* started, in name order, with a `visiting` of its own.  Errors are       *)
(* dropped.                                                                *)
(***************************************************************************)
OnDisk == {n \in Name : disk[n] \notin {NoDef, Torn}}

\* Mistake: services with needs are left for later.
BootReachedFree(broken) == {n \in OnDisk : disk[n].needs = <<>>}

BootReached(broken) ==
    UNION {StartWalk(OnDisk, [m \in OnDisk |-> disk[m].needs], broken, n).reached :
           n \in OnDisk}

Boot ==
    /\ phase = "down" /\ phase' = "up"
    /\ services' = [n \in Name |-> IF n \in OnDisk THEN 1 ELSE 0]
    /\ made' = services'
    /\ \E broken \in SUBSET (OnDisk \cap Fragile) : \E unpiped \in SUBSET broken :
         LET reached == BootReached(broken)
         IN  /\ obj' = [o \in Object |->
                          IF o[1] \in OnDisk /\ o[2] = 1
                          THEN IF o[1] \in reached
                               THEN Started(NewService(disk[o[1]]), Outcome(o[1], broken, unpiped))
                               ELSE NewService(disk[o[1]])
                          ELSE NewService(NoDef)]
             /\ live' = {<<n, 1, 1>> : n \in (reached \cap OnDisk) \ broken}
    /\ UNCHANGED <<files, gone, timers, th, budget>>

-----------------------------------------------------------------------------
Init ==
    /\ phase = "up"
    /\ services = [n \in Name |-> 0]
    /\ made = [n \in Name |-> 0]
    /\ obj = [o \in Object |-> NewService(NoDef)]
    /\ disk = [n \in Name |-> NoDef]
    /\ meant = disk /\ lost = FALSE
    /\ live = {} /\ gone = {} /\ timers = {}
    /\ th = [t \in Thread |-> Idle]
    /\ requests = 0 /\ crashes = 0 /\ reboots = 0 /\ faults = 0

(***************************************************************************)
(* The steps a thread takes once it holds the mutex or its wait is over.   *)
(***************************************************************************)
ThreadStep(t) ==
    \/ DefineCheck(t) \/ DefineInsert(t) \/ DefineInstall(t) \/ Start(t)
    \/ StopBegin(t) \/ StopReturn(t) \/ DeleteCheck(t) \/ DeleteRemove(t)
    \/ Signal(t)

Next ==
    \/ \E c \in Client : Request(c)
    \/ \E t \in Thread : ThreadStep(t) \/ StopKill(t) \/ AgentDiesWriting(t)
    \/ \E p \in live : Exit(p)
    \/ \E p \in gone : Watch(p)
    \/ \E p \in timers : Fire(p)
    \/ AgentDies \/ Shutdown \/ RunReturns \/ Boot

Spec == Init /\ [][Next]_vars

(***************************************************************************)
(* The Go scheduler and sync.Mutex let every runnable goroutine go on, the *)
(* kernel ends a process that got SIGKILL, and timers fire.  The goroutine *)
(* that waits for a process first waits for its pipes to close: fairness   *)
(* of Watch assumes that no process outside its group holds one open.      *)
(***************************************************************************)
Fairness ==
    /\ \A t \in Thread : WF_vars(ThreadStep(t)) /\ WF_vars(StopKill(t))
    /\ WF_vars(\E p \in gone : Watch(p))
    /\ WF_vars(\E p \in timers : Fire(p))

FairSpec == Spec /\ Fairness

-----------------------------------------------------------------------------
(***************************************************************************)
(* Properties that hold whatever requests run beside one another.          *)
(***************************************************************************)
TypeOK ==
    /\ phase \in {"up", "stopping", "down"}
    /\ services \in [Name -> Incarnation \cup {0}] /\ made \in [Name -> Nat]
    /\ obj \in [Object -> Service]
    /\ disk \in [Name -> Definition \cup {NoDef, Torn}]
    /\ meant \in [Name -> Definition \cup {NoDef, Torn}] /\ lost \in BOOLEAN
    /\ live \subseteq Process /\ gone \subseteq Process /\ timers \subseteq Process
    /\ th \in [Thread -> ThreadState]
    /\ requests \in Nat /\ crashes \in Nat /\ reboots \in Nat /\ faults \in Nat

(***************************************************************************)
(* A service object and its processes agree: cmd is the one process that   *)
(* has not been waited for, so no interleaving of Start, Stop, a crash and *)
(* its restart timer launches an object twice, and `exited` is closed once *)
(* per launch.                                                             *)
(***************************************************************************)
OneProcess ==
    /\ live \cap gone = {}
    /\ \A p \in live \cup gone : obj[<<p[1], p[2]>>].pid = p[3]
    /\ \A o \in Object :
          obj[o].pid # 0 => <<o[1], o[2], obj[o].pid>> \in live \cup gone

(***************************************************************************)
(* A process whose service is not wanted any more is being stopped: some   *)
(* Stop waits for that very launch, so it is not left running.             *)
(***************************************************************************)
UnwantedIsBeingStopped ==
    \A o \in Object :
        ~obj[o].want /\ obj[o].pid # 0 =>
            \E t \in Thread : /\ th[t].pc = "stopping"
                              /\ Target(t) = <<o[1], o[2], obj[o].pid>>

(***************************************************************************)
(* A wanted service runs, or its restart timer is pending, or its command  *)
(* could not be executed, which its state records: a crash is not          *)
(* forgotten, however Stop and Start interleave with the timer.  The       *)
(* exception is the launch that got no pipes: the code records nothing of  *)
(* it, the timer drops its error, and the service is not launched again.   *)
(***************************************************************************)
WantedIsServed ==
    \A n \in Known :
        Obj(n).want =>
            \/ Obj(n).pid # 0
            \/ Obj(n).error = "exec"
            \/ Obj(n).noPipe
            \/ <<n, services[n], Obj(n).gen>> \in timers

(***************************************************************************)
(* The status that GET reports is the truth about the process, and only a  *)
(* service that nobody wants is "stopped", save one whose launch got no    *)
(* pipes: its status stays what it was.                                    *)
(***************************************************************************)
StatusHonest ==
    \A o \in Object :
        /\ obj[o].status \in {"running", "stopping"} <=> obj[o].pid # 0
        /\ obj[o].status = "stopped" => ~obj[o].want \/ obj[o].noPipe

(***************************************************************************)
(* A service that was stopped comes back only by a Start (its own or that  *)
(* of a service that needs it) or at boot: a stale restart timer does not  *)
(* undo a Stop.                                                            *)
(***************************************************************************)
NoUnaskedLaunch ==
    [][\A o \in Object :
          ~obj[o].want /\ obj[o].pid = 0 /\ obj'[o].pid # 0 =>
              \/ phase = "down"
              \/ \E t \in Thread : th[t].pc = "start" /\ th'[t].pc = "idle"]_vars

(***************************************************************************)
(* Start and boot launch a service only with all it needs launched.  (A    *)
(* restart timer, which leaves `timers`, does not look at the needs.)      *)
(***************************************************************************)
Running(n) == services[n] # 0 /\ Obj(n).pid # 0

NeedsFirst ==
    [][timers' = timers =>
         \A n \in Name :
            Running(n)' /\ (phase = "down" \/ obj[<<n, services'[n]>>].pid = 0) =>
                \A m \in Range(Obj(n)'.def.needs) : Running(m)']_vars

(***************************************************************************)
(* Every request returns, also one that waits for a process that ignores   *)
(* SIGTERM.                                                                *)
(***************************************************************************)
RequestsReturn ==
    \A t \in Thread : th[t].pc # "idle" ~> th[t].pc = "idle"

(***************************************************************************)
(* A crashed service is launched again unless it is stopped or deleted, or *)
(* the new launch fails: at its pipes, or later, which its state records.  *)
(***************************************************************************)
Crashed(n, k) ==
    services[n] = k /\ obj[<<n, k>>].want /\ obj[<<n, k>>].error = "exit"

CrashIsRestarted ==
    \A o \in Object : Crashed(o[1], o[2]) ~> ~Crashed(o[1], o[2]) \/ obj[o].noPipe

-----------------------------------------------------------------------------
(***************************************************************************)
(* The inductive invariant: besides the safety properties above,           *)
(* - cmd is the last launch;                                               *)
(* - processes and timers are of objects created since boot, so a new      *)
(*   object has none;                                                      *)
(* - nothing is left of an agent that is down;                             *)
(* - StopAll's goroutines exist only while the agent stops.                *)
(***************************************************************************)
PidIsLast == \A o \in Object : obj[o].pid \in {0, obj[o].gen}

OnlyMade ==
    /\ \A p \in live \cup gone \cup timers : p[2] <= made[p[1]]
    /\ \A n \in Name : services[n] <= made[n]

DownIsEmpty ==
    phase = "down" => /\ live = {} /\ gone = {} /\ timers = {}
                      /\ \A t \in Thread : th[t].pc = "idle"

StopAllOnlyStopping ==
    phase # "stopping" => \A n \in Name : th[n].pc = "idle"

IInv ==
    /\ TypeOK /\ PidIsLast /\ OnlyMade /\ DownIsEmpty /\ StopAllOnlyStopping
    /\ OneProcess /\ UnwantedIsBeingStopped /\ WantedIsServed /\ StatusHonest

-----------------------------------------------------------------------------
(***************************************************************************)
(* Properties of the registry.  NoOrphans holds while requests do not      *)
(* overlap, the next three while one Define or Delete at a time is between *)
(* its critical sections (Alone and OneWriter below).                      *)
(*                                                                         *)
(* A write or a removal of a file that fails leaves the name Spoiled until *)
(* the next one that succeeds.  An agent that goes down while a name is    *)
(* spoiled, or while it writes, has lost definitions or brings back old    *)
(* ones: what it boots from need not be sound any more.                    *)
(***************************************************************************)

Spoiled == {n \in Name : disk[n] # meant[n]}

(***************************************************************************)
(* At most one service has an HTTP port, in memory and in the files that   *)
(* are not spoiled.                                                        *)
(***************************************************************************)
OnePort ==
    ~lost =>
      /\ \A m, n \in Known : Obj(m).def.port /\ Obj(n).def.port => m = n
      /\ \A m, n \in OnDisk \ Spoiled : disk[m].port /\ disk[n].port => m = n

(***************************************************************************)
(* Whatever a service needs exists, and no service needs itself, directly  *)
(* or through others.                                                      *)
(***************************************************************************)
NeedsSound ==
    ~lost =>
      /\ \A n \in Known : Range(Obj(n).def.needs) \subseteq Known
      /\ Acyclic(Known, NeedsOf)

(***************************************************************************)
(* Between requests the files that are not spoiled hold the definitions    *)
(* the supervisor has, so a restart of the agent brings back what was      *)
(* running.                                                                *)
(***************************************************************************)
FileAgrees(n) == IF n \in Known THEN disk[n] = Obj(n).def ELSE n \notin OnDisk

DiskMatches ==
    phase = "up" /\ (\A t \in Thread : th[t].pc = "idle") =>
        \A n \in Name \ Spoiled : FileAgrees(n)

(***************************************************************************)
(* Every process belongs to the service that now has its name: Delete and  *)
(* a replacing PUT leave nothing running.                                  *)
(***************************************************************************)
NoOrphans == \A p \in live : services[p[1]] = p[2]

(***************************************************************************)
(* When every launch succeeds, boot starts exactly the services on disk    *)
(* whose needs form a tree, in whatever order the files come.              *)
(***************************************************************************)
BootStartsTrees ==
    [][phase = "down" /\ phase' = "up" /\ Fragile = {} =>
         \A n \in OnDisk :
            Running(n)' <=> IsTree(OnDisk, [m \in OnDisk |-> disk[m].needs], n)]_vars

(***************************************************************************)
(* "every defined service starts when the agent starts"                    *)
(* (docs/container-mode.md:66-67).                                         *)
(***************************************************************************)
BootStartsAll ==
    [][phase = "down" /\ phase' = "up" => \A n \in OnDisk : Running(n)']_vars

-----------------------------------------------------------------------------
(***************************************************************************)
(* What makes the registry's properties hold, for the proofs.  While at    *)
(* most one Define or Delete is between its critical sections (OneWriter), *)
(* whatever other requests run beside it (Agreed):                         *)
(* - the definitions are sound, as meant for the files and in memory,      *)
(*   until some are lost (and, whatever requests overlap, finitely many);  *)
(* - files as meant and memory agree on every name, save the one a PUT     *)
(*   works on; nothing but the files is meant while the agent is down;     *)
(* - that PUT has written its file, and knows the service it replaces;     *)
(* - what a DELETE is about to remove is not needed.                       *)
(* While no two requests overlap (Alone), also (Waited):                   *)
(* - the launch a Stop waits for is the last one of its service;           *)
(* - what a DELETE is about to remove has ended;                           *)
(* - an object that is not the service of its name has no process.         *)
(***************************************************************************)
Changing(c) ==
    /\ th[c].op \in {"put", "delete"}
    /\ th[c].pc \in {"insert", "stop", "stopping", "install", "remove"}

OneWriter == \A c, d \in Client : Changing(c) /\ Changing(d) => c = d

Alone == \A c, d \in Client : th[c].pc # "idle" /\ th[d].pc # "idle" => c = d

FiniteRegistry == IsFiniteSet(Known) /\ IsFiniteSet(OnDisk)

KnownDefined == \A n \in Known : Obj(n).def \in Definition

Sound(known, def) ==
    /\ \A m, n \in known : def[m].port /\ def[n].port => m = n
    /\ \A n \in known : Range(def[n].needs) \subseteq known
    /\ Acyclic(known, [n \in known |-> def[n].needs])

MeantNames == {n \in Name : meant[n] \notin {NoDef, Torn}}

FilesSound == ~lost => Sound(MeantNames, meant)
MemorySound == ~lost => Sound(Known, [n \in Known |-> Obj(n).def])

MeantAgrees(n) == IF n \in Known THEN meant[n] = Obj(n).def ELSE n \notin MeantNames

Putting(c) == th[c].op = "put" /\ th[c].pc \in {"insert", "stop", "stopping", "install"}

FilesAgree ==
    /\ phase = "down" => disk = meant
    /\ phase # "down" =>
          \A n \in Name : MeantAgrees(n) \/ \E c \in Client : Putting(c) /\ th[c].name = n

PutKnows(c) ==
    Putting(c) =>
        LET n == th[c].name
        IN  /\ meant[n] = th[c].def
            /\ IF th[c].pc = "insert" THEN n \notin Known
               ELSE n \in Known /\ th[c].old = services[n]

DeleteKnows(c) ==
    /\ th[c].pc = "remove" => th[c].op = "delete"
    /\ Changing(c) /\ th[c].op = "delete" => ~Needed(th[c].name)

NamesOnlyStop ==
    \A n \in Name : th[n].pc # "idle" =>
        th[n].pc \in {"stop", "stopping"} /\ th[n].op = "stopall"

Agreed ==
    /\ FilesSound /\ MemorySound /\ FilesAgree
    /\ \A c \in Client : PutKnows(c) /\ DeleteKnows(c)
    /\ NamesOnlyStop

DeleteWaited(c) ==
    th[c].pc = "remove" /\ th[c].name \in Known =>
        ~Obj(th[c].name).want /\ Obj(th[c].name).pid = 0

StopKnows(c) ==
    th[c].pc = "stopping" =>
        LET n == th[c].name
        IN  /\ n \in Known /\ th[c].target[1] = services[n]
            /\ ~Obj(n).want /\ Obj(n).pid \in {0, th[c].target[2]}

Retired ==
    \A o \in Object : o[2] # services[o[1]] => ~obj[o].want /\ obj[o].pid = 0

Waited == Retired /\ \A c \in Client : StopKnows(c) /\ DeleteWaited(c)
=============================================================================
