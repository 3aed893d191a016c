-------------------------------- MODULE Events --------------------------------
(***************************************************************************)
(* The events of one service of the agent and the requests that stream     *)
(* them: pump, emitLocked, Subscribe, Stop and the goroutine that waits    *)
(* for the process (internal/agent/services.go), streamAction              *)
(* (internal/agent/server.go).                                             *)
(*                                                                         *)
(* Supervisor has the services and their states; here is one service that  *)
(* needs no other, and what its processes write.  A process has two pipes, *)
(* two pumps and a watcher.  The mutex is held in one action where nobody  *)
(* can see what is done under it, and in several by the watcher: it closes *)
(* `exited', on which Stop waits without the mutex, and then sends events  *)
(* into channels that are read without it.                                 *)
(***************************************************************************)
EXTENDS Naturals, FiniteSets

CONSTANTS
    Request,        \* requests for this service
    Asks,           \* what each asks for: some of "start", "stop", "restart", "delete"
    Watched,        \* the requests whose stream is looked at: the others only act
    Pipe,           \* stdout and stderr
    Buffer,         \* events a subscriber's channel holds (256)
    MaxLaunches,    \* bound on the processes
    MaxLines        \* bound on the lines the processes write

ASSUME EventsAssumption ==
    /\ Watched \subseteq Request
    /\ Asks \in [Request -> SUBSET {"start", "stop", "restart", "delete"}]
    /\ Pipe # {} /\ Buffer \in Nat /\ MaxLaunches \in Nat \ {0} /\ MaxLines \in Nat

VARIABLES
    mu,                         \* the launch whose watcher holds the mutex, or 0
    defined, want, cmd, gen,    \* the entry in the map; wantRunning, cmd and gen
    leader, child, written,     \* per launch: its process; a descendant that holds the pipes;
                                \* the lines written to each pipe
    filed, shown,               \* per launch and pipe: lines in the log file, lines emitted
    pump, watcher, timer,       \* per launch: pumps, watcher, restart timer
    kind, client,               \* per request: what it asks for; whether its client stays and reads
    h, subs, buf,               \* streamAction: its step; s.subs; the events in each channel
    act, target,                \* the goroutine of the action and its outcome; the launch it stops
    owed                        \* the events in the channel that came before the outcome (history)

object == <<defined, want, cmd, gen>>
processes == <<leader, child, written>>
plumbing == <<filed, shown, pump, watcher, timer>>
streams == <<h, subs, buf>>
actions == <<act, target>>
vars == <<mu, object, processes, plumbing, kind, client, streams, actions, owed>>

-----------------------------------------------------------------------------
Launch == 1 .. MaxLaunches

Exited(p) == watcher[p] \in {"closed", "exit", "done"}
Holds(p) == leader[p] = "alive" \/ child[p] \in {"in", "out"}

Asked ==
    {k \in [Request -> {"start", "stop", "restart", "delete"}] : \A r \in Request : k[r] \in Asks[r]}

TypeOK ==
    /\ mu \in 0 .. MaxLaunches /\ cmd \in 0 .. MaxLaunches /\ gen \in 0 .. MaxLaunches
    /\ defined \in BOOLEAN /\ want \in BOOLEAN
    /\ subs \subseteq Watched
    /\ leader \in [Launch -> {"none", "alive", "dead"}]
    /\ child \in [Launch -> {"none", "in", "out", "dead"}]
    /\ written \in [Launch -> [Pipe -> Nat]] /\ filed \in [Launch -> [Pipe -> Nat]]
    /\ shown \in [Launch -> [Pipe -> Nat]]
    /\ pump \in [Launch -> [Pipe -> {"none", "read", "emit", "done"}]]
    /\ watcher \in [Launch -> {"none", "wait", "closed", "exit", "done"}]
    /\ timer \in [Launch -> BOOLEAN]
    /\ kind \in Asked
    /\ client \in [Watched -> {"steady", "restless"}]
    /\ h \in [Request -> {"new", "plain", "loop", "watch", "drain", "leave", "close", "done", "gone", "refused"}]
    /\ buf \in [Watched -> 0 .. Buffer] /\ owed \in [Watched -> 0 .. Buffer]
    /\ act \in [Request -> {"none", "stop", "wait", "killed", "start", "remove", "ok", "error"}]
    /\ target \in [Request -> 0 .. MaxLaunches]

Each(S, x) == [i \in S |-> x]

\* The service runs since it was defined or since the agent started.
First(x, other) == [p \in Launch |-> IF p = 1 THEN x ELSE other]

Init ==
    /\ mu = 0 /\ defined = TRUE /\ want = TRUE /\ cmd = 1 /\ gen = 1
    /\ subs = {} /\ buf = Each(Watched, 0) /\ owed = Each(Watched, 0)
    /\ leader = First("alive", "none")
    /\ \E c \in {"in", "out"} : child = First(c, "none")
    /\ written = Each(Launch, Each(Pipe, 0)) /\ filed = written /\ shown = written
    /\ pump = First(Each(Pipe, "read"), Each(Pipe, "none")) /\ watcher = First("wait", "none")
    /\ timer = Each(Launch, FALSE)
    /\ kind \in Asked
    /\ client \in [Watched -> {"steady", "restless"}]
    /\ h = Each(Request, "new")
    /\ act = Each(Request, "none") /\ target = Each(Request, 0)

-----------------------------------------------------------------------------
(***************************************************************************)
(* emitLocked: the event goes into every subscriber's channel that has     *)
(* room; the others miss it.                                               *)
(***************************************************************************)
Full(r) == buf[r] >= Buffer
Open(r) == act[r] \notin {"ok", "error"}

\* Mistake: the emitter waits for a full channel.
EmitBlocking ==
    /\ \A r \in subs : ~Full(r)
    /\ buf' = [r \in Watched |-> IF r \in subs THEN buf[r] + 1 ELSE buf[r]]
    /\ owed' = [r \in Watched |-> IF r \in subs /\ Open(r) THEN owed[r] + 1 ELSE owed[r]]

Emit ==
    LET gets == {r \in subs : ~Full(r)}
    IN  /\ buf' = [r \in Watched |-> IF r \in gets THEN buf[r] + 1 ELSE buf[r]]
        /\ owed' = [r \in Watched |-> IF r \in gets /\ Open(r) THEN owed[r] + 1 ELSE owed[r]]

Silent == UNCHANGED <<buf, owed>>

\* launchLocked: the process is started, with a descendant (that may end at once) in or out
\* of its group; or it cannot be started.
Launched ==
    LET p == gen + 1
    IN  /\ gen < MaxLaunches /\ gen' = p /\ cmd' = p
        /\ leader' = [leader EXCEPT ![p] = "alive"]
        /\ \E c \in {"in", "out"} : child' = [child EXCEPT ![p] = c]
        /\ pump' = [pump EXCEPT ![p] = Each(Pipe, "read")]
        /\ watcher' = [watcher EXCEPT ![p] = "wait"]
        /\ Emit

\* The start event is followed by an error; without its pipes a launch fails silently.
LaunchFailed ==
    /\ Emit \/ Silent
    /\ UNCHANGED <<gen, cmd, leader, child, pump, watcher>>

-----------------------------------------------------------------------------
(***************************************************************************)
(* The processes of a launch.  A descendant outside the process group      *)
(* ("out") is reached by no signal of the supervisor.                      *)
(***************************************************************************)
Outside == UNCHANGED <<mu, object, plumbing, kind, client, streams, actions, owed>>

Lines == {l \in Launch \X Pipe \X (1 .. MaxLines) : l[3] <= written[l[1]][l[2]]}

Write(p, s) ==
    /\ Holds(p) /\ Cardinality(Lines) < MaxLines
    /\ written' = [written EXCEPT ![p][s] = @ + 1]
    /\ Outside /\ UNCHANGED <<leader, child>>

Die(p) ==
    /\ \/ leader[p] = "alive" /\ leader' = [leader EXCEPT ![p] = "dead"] /\ UNCHANGED child
       \/ child[p] \in {"in", "out"} /\ child' = [child EXCEPT ![p] = "dead"] /\ UNCHANGED leader
    /\ Outside /\ UNCHANGED written

\* SIGKILL to the process group.
KillGroup(p) ==
    /\ leader' = [leader EXCEPT ![p] = "dead"]
    /\ child' = [child EXCEPT ![p] = IF @ = "in" THEN "dead" ELSE @]
    /\ UNCHANGED written

(***************************************************************************)
(* pump: a line goes to the log file, then, under the mutex, to the        *)
(* subscribers.  It ends when nobody holds the other end of the pipe.      *)
(***************************************************************************)
PumpLine(p, s) ==
    /\ pump[p][s] = "read" /\ written[p][s] > filed[p][s]
    /\ filed' = [filed EXCEPT ![p][s] = @ + 1]
    /\ pump' = [pump EXCEPT ![p][s] = "emit"]
    /\ UNCHANGED <<mu, object, processes, shown, watcher, timer, kind, client, streams, actions, owed>>

PumpEmit(p, s) ==
    /\ pump[p][s] = "emit" /\ mu = 0
    /\ Emit /\ shown' = [shown EXCEPT ![p][s] = @ + 1]
    /\ pump' = [pump EXCEPT ![p][s] = "read"]
    /\ UNCHANGED <<mu, object, processes, filed, watcher, timer, kind, client, h, subs, actions>>

PumpEnd(p, s) ==
    /\ pump[p][s] = "read" /\ written[p][s] = filed[p][s] /\ ~Holds(p)
    /\ pump' = [pump EXCEPT ![p][s] = "done"]
    /\ UNCHANGED <<mu, object, processes, filed, shown, watcher, timer, kind, client, streams, actions, owed>>

\* A line that is written, filed and shown without being counted: of these there is no end.
Chatter(p, s) ==
    /\ Holds(p) /\ pump[p][s] = "read" /\ written[p][s] = filed[p][s] /\ mu = 0
    /\ Emit
    /\ UNCHANGED <<mu, object, processes, plumbing, kind, client, h, subs, actions>>

(***************************************************************************)
(* The goroutine of a launch: pipes.Wait, cmd.Wait, and under the mutex    *)
(* close(exited), the exit event and what follows from wantRunning.        *)
(***************************************************************************)
Watching(p) == UNCHANGED <<defined, want, gen, processes, filed, shown, pump, kind, client, h, subs, actions>>

\* Mistake: cmd.Wait without pipes.Wait.
WatchCloseEarly(p) ==
    /\ watcher[p] = "wait" /\ leader[p] = "dead" /\ mu = 0 /\ mu' = p
    /\ watcher' = [watcher EXCEPT ![p] = "closed"]
    /\ Silent /\ Watching(p) /\ UNCHANGED <<cmd, timer>>

WatchClose(p) ==
    /\ watcher[p] = "wait" /\ pump[p] = Each(Pipe, "done") /\ leader[p] = "dead"
    /\ mu = 0 /\ mu' = p
    /\ watcher' = [watcher EXCEPT ![p] = "closed"]
    /\ Silent /\ Watching(p) /\ UNCHANGED <<cmd, timer>>

\* A watcher of an older launch would have nothing to do.
WatchExit(p) ==
    /\ watcher[p] = "closed"
    /\ IF gen = p
       THEN cmd' = 0 /\ watcher' = [watcher EXCEPT ![p] = "exit"] /\ Emit /\ UNCHANGED mu
       ELSE mu' = 0 /\ watcher' = [watcher EXCEPT ![p] = "done"] /\ Silent /\ UNCHANGED cmd
    /\ Watching(p) /\ UNCHANGED timer

WatchStopped(p) ==
    /\ watcher[p] = "exit" /\ ~want /\ mu' = 0
    /\ watcher' = [watcher EXCEPT ![p] = "done"]
    /\ Emit /\ Watching(p) /\ UNCHANGED <<cmd, timer>>

WatchCrashed(p) ==
    /\ watcher[p] = "exit" /\ want /\ mu' = 0
    /\ watcher' = [watcher EXCEPT ![p] = "done"] /\ timer' = [timer EXCEPT ![p] = TRUE]
    /\ Silent /\ Watching(p) /\ UNCHANGED cmd

TimerFires(p) ==
    /\ timer[p] /\ mu = 0 /\ timer' = [timer EXCEPT ![p] = FALSE]
    /\ IF gen # p \/ ~want \/ cmd # 0 \/ ~defined
       THEN Silent /\ UNCHANGED <<gen, cmd, leader, child, pump, watcher>>
       ELSE Launched \/ LaunchFailed
    /\ UNCHANGED <<mu, defined, want, written, filed, shown, kind, client, h, subs, actions>>

-----------------------------------------------------------------------------
(***************************************************************************)
(* The actions: Start, Stop, Restart (a Stop and a Start) and Delete (a    *)
(* Stop and the removal of the entry).                                     *)
(***************************************************************************)
Acting == UNCHANGED <<kind, client, h, subs>>

\* The action is over.
Ends(r, res) == act' = [act EXCEPT ![r] = res]

\* What follows a Stop that went well.
AfterStop(r) ==
    IF kind[r] = "stop" THEN Ends(r, "ok")
    ELSE act' = [act EXCEPT ![r] = IF kind[r] = "restart" THEN "start" ELSE "remove"]

StopUnknown(r) ==
    /\ act[r] = "stop" /\ mu = 0 /\ ~defined /\ Silent /\ Ends(r, "error")
    /\ Acting /\ UNCHANGED <<mu, object, processes, plumbing, target>>

StopIdle(r) ==
    /\ act[r] = "stop" /\ mu = 0 /\ defined /\ cmd = 0
    /\ want' = FALSE /\ Silent /\ AfterStop(r)
    /\ Acting /\ UNCHANGED <<mu, defined, cmd, gen, processes, plumbing, target>>

\* SIGTERM follows; a process that obeys it takes Die.
StopRunning(r) ==
    /\ act[r] = "stop" /\ mu = 0 /\ defined /\ cmd # 0
    /\ want' = FALSE /\ target' = [target EXCEPT ![r] = cmd]
    /\ Emit /\ act' = [act EXCEPT ![r] = "wait"]
    /\ Acting /\ UNCHANGED <<mu, defined, cmd, gen, processes, plumbing>>

StopTimeout(r) ==
    /\ act[r] = "wait" /\ KillGroup(target[r]) /\ act' = [act EXCEPT ![r] = "killed"]
    /\ Silent /\ Acting /\ UNCHANGED <<mu, object, plumbing, target>>

StopExited(r) ==
    /\ act[r] \in {"wait", "killed"} /\ Exited(target[r])
    /\ KillGroup(target[r]) /\ Silent /\ AfterStop(r)
    /\ Acting /\ UNCHANGED <<mu, object, plumbing, target>>

StartUnknown(r) ==
    /\ act[r] = "start" /\ mu = 0 /\ ~defined /\ Silent /\ Ends(r, "error")
    /\ Acting /\ UNCHANGED <<mu, object, processes, plumbing, target>>

StartRunning(r) ==
    /\ act[r] = "start" /\ mu = 0 /\ defined /\ cmd # 0
    /\ want' = TRUE /\ Silent /\ Ends(r, "ok")
    /\ Acting /\ UNCHANGED <<mu, defined, cmd, gen, processes, plumbing, target>>

StartLaunch(r) ==
    /\ act[r] = "start" /\ mu = 0 /\ defined /\ cmd = 0 /\ want' = TRUE
    /\ \/ Launched /\ Ends(r, "ok")
       \/ LaunchFailed /\ Ends(r, "error")
    /\ Acting /\ UNCHANGED <<mu, defined, written, filed, shown, timer, target>>

RemoveEntry(r) ==
    /\ act[r] = "remove" /\ mu = 0 /\ Silent
    /\ defined' = FALSE /\ Ends(r, IF defined THEN "ok" ELSE "error")
    /\ Acting /\ UNCHANGED <<mu, want, cmd, gen, processes, plumbing, target>>

-----------------------------------------------------------------------------
(***************************************************************************)
(* streamAction                                                            *)
(***************************************************************************)
Streaming == UNCHANGED <<mu, object, processes, plumbing, kind, client, target>>

Streams(r) == r \in Watched /\ kind[r] # "delete"

FirstStep(r) == IF kind[r] = "start" THEN "start" ELSE "stop"

Subscribe(r) ==
    /\ h[r] = "new" /\ Streams(r) /\ mu = 0
    /\ IF defined
       THEN /\ h' = [h EXCEPT ![r] = "loop"] /\ subs' = subs \cup {r}
            /\ act' = [act EXCEPT ![r] = FirstStep(r)]
       ELSE h' = [h EXCEPT ![r] = "refused"] /\ UNCHANGED <<subs, act>>
    /\ Streaming /\ UNCHANGED <<buf, owed>>

\* DELETE has no stream, and no stream changes what others see.
CallUnwatched(r) ==
    /\ h[r] = "new" /\ ~Streams(r) /\ h' = [h EXCEPT ![r] = "plain"]
    /\ act' = [act EXCEPT ![r] = FirstStep(r)]
    /\ Streaming /\ UNCHANGED <<subs, buf, owed>>

SendNext(r) ==
    /\ buf[r] > 0 /\ buf' = [buf EXCEPT ![r] = @ - 1]
    /\ owed' = [owed EXCEPT ![r] = IF @ > 0 THEN @ - 1 ELSE 0]
    /\ Streaming /\ UNCHANGED <<subs, act>>

InSelect(r) == h[r] \in {"loop", "watch"}
Goes(r, step) == h' = [h EXCEPT ![r] = step] /\ Streaming /\ UNCHANGED <<subs, buf, owed, act>>

SelectEvent(r) == InSelect(r) /\ SendNext(r) /\ UNCHANGED h

\* An error, a stop and a duration of zero end the loop, others start the clock.
SelectActed(r) ==
    /\ h[r] = "loop" /\ ~Open(r)
    /\ \/ Goes(r, "drain")
       \/ act[r] = "ok" /\ kind[r] # "stop" /\ Goes(r, "watch")

SelectDeadline(r) == h[r] = "watch" /\ Goes(r, "drain")

SelectGone(r) == InSelect(r) /\ client[r] = "restless" /\ Goes(r, "leave")

DrainEvent(r) == h[r] = "drain" /\ SendNext(r) /\ UNCHANGED h

\* Mistake: what is in the channel is left there.
DrainEndAtOnce(r) == h[r] = "drain" /\ Goes(r, "close")

\* The channel is empty: the complete line.
DrainEnd(r) == h[r] = "drain" /\ buf[r] = 0 /\ Goes(r, "close")

\* The deferred cancel: the channel and, for the properties, its history are forgotten.
Cancel(r) ==
    /\ h[r] \in {"close", "leave"} /\ mu = 0 /\ subs' = subs \ {r}
    /\ h' = [h EXCEPT ![r] = IF @ = "close" THEN "done" ELSE "gone"]
    /\ buf' = [buf EXCEPT ![r] = 0] /\ owed' = [owed EXCEPT ![r] = 0]
    /\ Streaming /\ UNCHANGED act

-----------------------------------------------------------------------------
PumpStep(p, s) == PumpLine(p, s) \/ PumpEmit(p, s) \/ PumpEnd(p, s)
WatcherStep(p) ==
    WatchClose(p) \/ WatchExit(p) \/ WatchStopped(p) \/ WatchCrashed(p)
ActionStep(r) ==
    \/ StopUnknown(r) \/ StopIdle(r) \/ StopRunning(r) \/ StopTimeout(r) \/ StopExited(r)
    \/ StartUnknown(r) \/ StartRunning(r) \/ StartLaunch(r) \/ RemoveEntry(r)
Call(r) == Subscribe(r) \/ CallUnwatched(r)
StreamStep(r) ==
    \/ SelectEvent(r) \/ SelectActed(r) \/ SelectDeadline(r)
    \/ SelectGone(r) \/ DrainEvent(r) \/ DrainEnd(r) \/ Cancel(r)

Next ==
    \/ \E p \in Launch :
        \/ Die(p) \/ WatcherStep(p) \/ TimerFires(p)
        \/ \E s \in Pipe : Write(p, s) \/ Chatter(p, s) \/ PumpStep(p, s)
    \/ \E r \in Request : ActionStep(r) \/ Call(r) \/ StreamStep(r)

Spec == Init /\ [][Next]_vars

\* The scheduler runs every goroutine, a mutex is handed to who waits for it, and a
\* select does not choose events for ever when the action or the clock is over too.
FairSpec ==
    /\ Spec
    /\ \A p \in Launch : WF_vars(WatcherStep(p)) /\ \A s \in Pipe : WF_vars(PumpStep(p, s))
    /\ \A r \in Request : WF_vars(ActionStep(r)) /\ WF_vars(Call(r))
    /\ \A r \in Watched :
        /\ WF_vars(client[r] = "steady" /\ StreamStep(r))
        /\ WF_vars(client[r] = "steady" /\ (SelectActed(r) \/ SelectDeadline(r)))

-----------------------------------------------------------------------------
(***************************************************************************)
(* Properties                                                              *)
(***************************************************************************)
(***************************************************************************)
(* When the exit event of a launch is emitted, everything the process and  *)
(* its descendants wrote has been, nobody can write to its pipes any more, *)
(* and the next launch comes after.  Pumps, watcher and the one who starts *)
(* are different goroutines, and only pipes.Wait holds the exit back.      *)
(***************************************************************************)
ExitAfterOutput ==
    \A p \in Launch :
        /\ watcher[p] \in {"exit", "done"} => shown[p] = written[p] /\ ~Holds(p)
        /\ p < gen => watcher[p] \in {"exit", "done"}

(***************************************************************************)
(* When a stream says "complete", no event that was emitted before its     *)
(* action returned is left in its channel: select may take the action's    *)
(* outcome or the deadline while events wait.                              *)
(***************************************************************************)
StreamIsWhole == \A r \in Watched : h[r] = "close" => owed[r] = 0

(***************************************************************************)
(* An action returns, whoever else asks for what and whoever does not read *)
(* his stream, and however much the service writes; a stream whose client  *)
(* reads then comes to its last events, and to "complete" when the service *)
(* pauses.  The exceptions: a process outside the group holds the pipes    *)
(* of the process that the action stops; and the drain looks at neither    *)
(* deadline nor context, so that it lasts as long as the service writes.   *)
(***************************************************************************)
Held(r) == act[r] \in {"wait", "killed"} /\ child[target[r]] = "out"

Pauses == <>[][\A p \in Launch, s \in Pipe : ~Chatter(p, s)]_vars

RequestsEnd ==
    /\ \A r \in Request : act[r] # "none" ~> ~Open(r) \/ Held(r)
    /\ \A r \in Watched : client[r] = "steady" /\ InSelect(r) ~> ~InSelect(r) \/ Held(r)
    /\ Pauses => \A r \in Watched : client[r] = "steady" /\ h[r] = "drain" ~> h[r] = "done"

-----------------------------------------------------------------------------
(***************************************************************************)
(* The inductive invariant.                                                *)
(***************************************************************************)
\* Launches follow one another: the next comes after the exit event of the one before.
Launches ==
    /\ gen \in Launch /\ cmd \in {0, gen}
    /\ cmd = 0 => watcher[gen] \in {"exit", "done"}
    /\ \A r \in Request : target[r] <= gen
    /\ \A p \in Launch :
        /\ p < gen => watcher[p] \in {"exit", "done"}
        /\ p <= gen => watcher[p] # "none" /\ leader[p] # "none"
        /\ p > gen => /\ watcher[p] = "none" /\ leader[p] = "none" /\ child[p] = "none"
                      /\ \A s \in Pipe : pump[p][s] = "none" /\ written[p][s] = 0

\* A line is written, filed and shown, in this order; a pump ends behind all of it.
Behind(p, s) ==
    /\ filed[p][s] = shown[p][s] + (IF pump[p][s] = "emit" THEN 1 ELSE 0)
    /\ filed[p][s] <= written[p][s]
    /\ pump[p][s] = "done" => filed[p][s] = written[p][s] /\ ~Holds(p)

Plumbed ==
    \A p \in Launch :
        /\ \A s \in Pipe : Behind(p, s)
        /\ Exited(p) => \A s \in Pipe : pump[p][s] = "done"

\* What a stream is owed is in its channel, and nothing is once it said "complete".
Owed ==
    /\ \A r \in Request : h[r] = "new" => act[r] = "none"
    /\ \A r \in Watched :
        /\ owed[r] <= buf[r]
        /\ h[r] \in {"watch", "drain", "close"} => ~Open(r)
        /\ h[r] = "close" => owed[r] = 0

IInv == TypeOK /\ Launches /\ Plumbed /\ Owed

=============================================================================
