---------------------------- MODULE EventsProofs ----------------------------
(***************************************************************************)
(* Proofs about Events: what comes before an exit event, and before the    *)
(* end of a stream, for any number of requests, launches and lines, and    *)
(* any size of the channels.                                               *)
(***************************************************************************)
EXTENDS Events, TLAPS

(***************************************************************************)
(* The initial state satisfies the inductive invariant.                    *)
(***************************************************************************)
LEMMA InitIInv == Init => IInv
<1> SUFFICES ASSUME Init PROVE IInv
  OBVIOUS
<1> USE EventsAssumption DEF Init, Each, First, Launch
<1>1. TypeOK
  <2>1. /\ buf \in [Watched -> 0 .. Buffer] /\ owed \in [Watched -> 0 .. Buffer]
        /\ written \in [Launch -> [Pipe -> Nat]] /\ filed \in [Launch -> [Pipe -> Nat]]
        /\ shown \in [Launch -> [Pipe -> Nat]]
    OBVIOUS
  <2>2. /\ leader \in [Launch -> {"none", "alive", "dead"}]
        /\ child \in [Launch -> {"none", "in", "out", "dead"}]
        /\ watcher \in [Launch -> {"none", "wait", "closed", "exit", "done"}]
    OBVIOUS
  <2>3. pump \in [Launch -> [Pipe -> {"none", "read", "emit", "done"}]]
    OBVIOUS
  <2>4. timer \in [Launch -> BOOLEAN] /\ defined \in BOOLEAN /\ want \in BOOLEAN
    OBVIOUS
  <2> QED
    BY <2>1, <2>2, <2>3, <2>4 DEF TypeOK
<1>2. Launches
  BY DEF Launches
<1>3. Plumbed
  BY DEF Plumbed, Exited, Holds, Behind
<1>4. Owed
  BY DEF Owed
<1> QED
  BY <1>1, <1>2, <1>3, <1>4 DEF IInv

(***************************************************************************)
(* emitLocked keeps to the room of a channel; what it adds is owed only    *)
(* while the action is open.                                               *)
(***************************************************************************)
LEMMA EmitKeeps ==
    ASSUME TypeOK, Owed, Emit
    PROVE  /\ buf' \in [Watched -> 0 .. Buffer] /\ owed' \in [Watched -> 0 .. Buffer]
           /\ \A r \in Watched : owed'[r] <= buf'[r] /\ (~Open(r) => owed'[r] = owed[r])
<1> USE EventsAssumption DEF TypeOK, Owed, Emit, Full
<1>1. buf' \in [Watched -> 0 .. Buffer]
  OBVIOUS
<1>2. ASSUME NEW r \in Watched
      PROVE  owed'[r] \in 0 .. Buffer /\ owed'[r] <= buf'[r] /\ (~Open(r) => owed'[r] = owed[r])
  <2>1. CASE r \in subs /\ ~Full(r)
    BY <2>1, <1>2
  <2>2. CASE ~(r \in subs /\ ~Full(r))
    BY <2>2, <1>2
  <2> QED
    BY <2>1, <2>2
<1>3. owed' \in [Watched -> 0 .. Buffer]
  BY <1>2
<1> QED
  BY <1>1, <1>2, <1>3

(***************************************************************************)
(* A launch keeps the types, and comes after every other.                  *)
(***************************************************************************)
LEMMA LaunchedType ==
    ASSUME TypeOK, Launched
    PROVE  /\ gen' \in 0 .. MaxLaunches /\ cmd' \in 0 .. MaxLaunches
           /\ leader' \in [Launch -> {"none", "alive", "dead"}]
           /\ child' \in [Launch -> {"none", "in", "out", "dead"}]
           /\ pump' \in [Launch -> [Pipe -> {"none", "read", "emit", "done"}]]
           /\ watcher' \in [Launch -> {"none", "wait", "closed", "exit", "done"}]
<1>1. gen + 1 \in Launch /\ gen + 1 \in 0 .. MaxLaunches
  BY EventsAssumption DEF TypeOK, Launched, Launch
<1>2. gen' \in 0 .. MaxLaunches /\ cmd' \in 0 .. MaxLaunches
  BY <1>1 DEF Launched
<1>3. leader' \in [Launch -> {"none", "alive", "dead"}]
  BY <1>1 DEF TypeOK, Launched
<1>4. child' \in [Launch -> {"none", "in", "out", "dead"}]
  BY <1>1 DEF TypeOK, Launched
<1>5. watcher' \in [Launch -> {"none", "wait", "closed", "exit", "done"}]
  BY <1>1 DEF TypeOK, Launched
<1>6. Each(Pipe, "read") \in [Pipe -> {"none", "read", "emit", "done"}]
  BY DEF Each
<1>7. pump' \in [Launch -> [Pipe -> {"none", "read", "emit", "done"}]]
  BY <1>1, <1>6 DEF TypeOK, Launched
<1> QED
  BY <1>2, <1>3, <1>4, <1>5, <1>7

LEMMA LaunchedIsNext ==
    ASSUME TypeOK, Launched
    PROVE  /\ gen + 1 \in Launch /\ gen' = gen + 1 /\ cmd' = gen + 1
           /\ leader'[gen + 1] = "alive" /\ watcher'[gen + 1] = "wait"
           /\ child'[gen + 1] \in {"in", "out"}
           /\ \A s \in Pipe : pump'[gen + 1][s] = "read"
           /\ \A q \in Launch : q # gen + 1 =>
                 /\ leader'[q] = leader[q] /\ watcher'[q] = watcher[q]
                 /\ child'[q] = child[q] /\ pump'[q] = pump[q]
<1>1. gen + 1 \in Launch
  BY EventsAssumption DEF TypeOK, Launched, Launch
<1> QED
  BY <1>1 DEF TypeOK, Launched, Each

LEMMA AfterStopType ==
    ASSUME TypeOK, NEW r \in Request, AfterStop(r)
    PROVE  act' \in [Request -> {"none", "stop", "wait", "killed", "start", "remove", "ok", "error"}]
<1>1. CASE kind[r] = "stop"
  BY <1>1 DEF TypeOK, AfterStop, Ends
<1>2. CASE kind[r] = "restart"
  BY <1>2 DEF TypeOK, AfterStop
<1>3. CASE kind[r] \notin {"stop", "restart"}
  BY <1>3 DEF TypeOK, AfterStop
<1> QED
  BY <1>1, <1>2, <1>3

LEMMA SendNextType ==
    ASSUME TypeOK, Owed, NEW r \in Request, SendNext(r)
    PROVE  /\ buf' \in [Watched -> 0 .. Buffer] /\ owed' \in [Watched -> 0 .. Buffer]
           /\ \A q \in Watched : owed'[q] <= buf'[q] /\ (owed[q] = 0 => owed'[q] = 0)
<1> USE EventsAssumption DEF TypeOK, Owed
<1>1. /\ buf[r] > 0 /\ buf' = [buf EXCEPT ![r] = @ - 1]
      /\ owed' = [owed EXCEPT ![r] = IF @ > 0 THEN @ - 1 ELSE 0]
  BY DEF SendNext
<1>2. ASSUME NEW q \in Watched
      PROVE  /\ buf'[q] \in 0 .. Buffer /\ owed'[q] \in 0 .. Buffer
             /\ owed'[q] <= buf'[q] /\ (owed[q] = 0 => owed'[q] = 0)
  <2>1. CASE q = r
    BY <1>1, <2>1
  <2>2. CASE q # r
    BY <1>1, <2>2
  <2> QED
    BY <2>1, <2>2
<1>3. buf' = [q \in Watched |-> buf'[q]] /\ owed' = [q \in Watched |-> owed'[q]]
  BY <1>1
<1>4. buf' \in [Watched -> 0 .. Buffer] /\ owed' \in [Watched -> 0 .. Buffer]
  BY <1>2, <1>3
<1> QED
  BY <1>2, <1>4

(***************************************************************************)
(* Every variable keeps its type.                                          *)
(***************************************************************************)
LEMMA NextType == TypeOK /\ Owed /\ [Next]_vars => TypeOK'
<1> SUFFICES ASSUME TypeOK, Owed, [Next]_vars PROVE TypeOK'
  OBVIOUS
<1> USE EventsAssumption
<1>1. ASSUME NEW p \in Launch, Die(p) PROVE TypeOK'
  <2>1. leader' \in [Launch -> {"none", "alive", "dead"}]
    <3>1. leader' = leader \/ leader' = [leader EXCEPT ![p] = "dead"]
      BY <1>1 DEF Die
    <3> QED
      BY <3>1 DEF TypeOK
  <2>2. child' \in [Launch -> {"none", "in", "out", "dead"}]
    <3>1. child' = child \/ child' = [child EXCEPT ![p] = "dead"]
      BY <1>1 DEF Die
    <3> QED
      BY <3>1 DEF TypeOK
  <2>3. UNCHANGED <<mu, cmd, gen, defined, want, written, filed, shown, pump,
                    watcher, timer, kind, client, h, buf, owed, act, target,
                    subs>>
    BY <1>1 DEF Die, Outside, object, processes, plumbing, streams, actions
  <2> QED
    BY <2>1, <2>2, <2>3 DEF TypeOK
<1>2. ASSUME NEW p \in Launch, WatchClose(p) PROVE TypeOK'
  <2>1. mu' \in 0 .. MaxLaunches
    BY <1>2 DEF TypeOK, WatchClose, Launch
  <2>2. watcher' \in [Launch -> {"none", "wait", "closed", "exit", "done"}]
    BY <1>2 DEF TypeOK, WatchClose
  <2>3. UNCHANGED <<cmd, gen, defined, want, leader, child, written, filed,
                    shown, pump, timer, kind, client, h, buf, owed, act,
                    target, subs>>
    BY <1>2 DEF WatchClose, Watching, Silent, object, processes, plumbing,
                streams, actions
  <2> QED
    BY <2>1, <2>2, <2>3 DEF TypeOK
<1>3. ASSUME NEW p \in Launch, WatchExit(p) PROVE TypeOK'
  <2>1. /\ buf' \in [Watched -> 0 .. Buffer]
        /\ owed' \in [Watched -> 0 .. Buffer]
    BY <1>3, EmitKeeps DEF TypeOK, WatchExit, Watching, Silent
  <2>2. mu' \in 0 .. MaxLaunches
    BY <1>3 DEF TypeOK, WatchExit, Launch
  <2>3. cmd' \in 0 .. MaxLaunches
    BY <1>3 DEF TypeOK, WatchExit
  <2>4. watcher' \in [Launch -> {"none", "wait", "closed", "exit", "done"}]
    <3>1. \/ watcher' = [watcher EXCEPT ![p] = "exit"]
          \/ watcher' = [watcher EXCEPT ![p] = "done"]
      BY <1>3 DEF WatchExit
    <3> QED
      BY <3>1 DEF TypeOK
  <2>5. UNCHANGED <<gen, defined, want, leader, child, written, filed, shown,
                    pump, timer, kind, client, h, act, target, subs>>
    BY <1>3 DEF WatchExit, Watching, Silent, object, processes, plumbing,
                streams, actions
  <2> QED
    BY <2>1, <2>2, <2>3, <2>4, <2>5 DEF TypeOK
<1>4. ASSUME NEW p \in Launch, WatchStopped(p) PROVE TypeOK'
  <2>1. /\ buf' \in [Watched -> 0 .. Buffer]
        /\ owed' \in [Watched -> 0 .. Buffer]
    BY <1>4, EmitKeeps DEF TypeOK, WatchStopped, Watching
  <2>2. mu' \in 0 .. MaxLaunches
    BY <1>4 DEF TypeOK, WatchStopped, Launch
  <2>3. watcher' \in [Launch -> {"none", "wait", "closed", "exit", "done"}]
    BY <1>4 DEF TypeOK, WatchStopped
  <2>4. UNCHANGED <<cmd, gen, defined, want, leader, child, written, filed,
                    shown, pump, timer, kind, client, h, act, target, subs>>
    BY <1>4 DEF WatchStopped, Watching, object, processes, plumbing, streams,
                actions
  <2> QED
    BY <2>1, <2>2, <2>3, <2>4 DEF TypeOK
<1>5. ASSUME NEW p \in Launch, WatchCrashed(p) PROVE TypeOK'
  <2>1. mu' \in 0 .. MaxLaunches
    BY <1>5 DEF TypeOK, WatchCrashed, Launch
  <2>2. watcher' \in [Launch -> {"none", "wait", "closed", "exit", "done"}]
    BY <1>5 DEF TypeOK, WatchCrashed
  <2>3. timer' \in [Launch -> BOOLEAN]
    BY <1>5 DEF TypeOK, WatchCrashed
  <2>4. UNCHANGED <<cmd, gen, defined, want, leader, child, written, filed,
                    shown, pump, kind, client, h, buf, owed, act, target,
                    subs>>
    BY <1>5 DEF WatchCrashed, Watching, Silent, object, processes, plumbing,
                streams, actions
  <2> QED
    BY <2>1, <2>2, <2>3, <2>4 DEF TypeOK
<1>6. ASSUME NEW p \in Launch, TimerFires(p) PROVE TypeOK'
  <2>1. /\ buf' \in [Watched -> 0 .. Buffer]
        /\ owed' \in [Watched -> 0 .. Buffer]
    BY <1>6, EmitKeeps DEF TypeOK, TimerFires, LaunchFailed, Silent, Launched
  <2>2. /\ gen' \in 0 .. MaxLaunches
        /\ cmd' \in 0 .. MaxLaunches
        /\ leader' \in [Launch -> {"none", "alive", "dead"}]
        /\ child' \in [Launch -> {"none", "in", "out", "dead"}]
        /\ pump' \in [Launch -> [Pipe -> {"none", "read", "emit", "done"}]]
        /\ watcher' \in [Launch -> {"none", "wait", "closed", "exit", "done"}]
    BY <1>6, LaunchedType DEF TypeOK, TimerFires, LaunchFailed
  <2>3. timer' \in [Launch -> BOOLEAN]
    BY <1>6 DEF TypeOK, TimerFires
  <2>4. UNCHANGED <<mu, defined, want, written, filed, shown, kind, client,
                    h, act, target, subs>>
    BY <1>6 DEF TimerFires, Launched, LaunchFailed, Silent, object,
                processes, plumbing, streams, actions
  <2> QED
    BY <2>1, <2>2, <2>3, <2>4 DEF TypeOK
<1>7. ASSUME NEW p \in Launch, NEW s \in Pipe, Write(p, s) PROVE TypeOK'
  <2>1. written' \in [Launch -> [Pipe -> Nat]]
    BY <1>7 DEF TypeOK, Write
  <2>2. UNCHANGED <<mu, cmd, gen, defined, want, leader, child, filed, shown,
                    pump, watcher, timer, kind, client, h, buf, owed, act,
                    target, subs>>
    BY <1>7 DEF Write, Outside, object, processes, plumbing, streams, actions
  <2> QED
    BY <2>1, <2>2 DEF TypeOK
<1>8. ASSUME NEW p \in Launch, NEW s \in Pipe, PumpLine(p, s) PROVE TypeOK'
  <2>1. filed' \in [Launch -> [Pipe -> Nat]]
    BY <1>8 DEF TypeOK, PumpLine
  <2>2. pump' \in [Launch -> [Pipe -> {"none", "read", "emit", "done"}]]
    BY <1>8 DEF TypeOK, PumpLine
  <2>3. UNCHANGED <<mu, cmd, gen, defined, want, leader, child, written,
                    shown, watcher, timer, kind, client, h, buf, owed, act,
                    target, subs>>
    BY <1>8 DEF PumpLine, object, processes, plumbing, streams, actions
  <2> QED
    BY <2>1, <2>2, <2>3 DEF TypeOK
<1>9. ASSUME NEW p \in Launch, NEW s \in Pipe, PumpEmit(p, s) PROVE TypeOK'
  <2>1. /\ buf' \in [Watched -> 0 .. Buffer]
        /\ owed' \in [Watched -> 0 .. Buffer]
    BY <1>9, EmitKeeps DEF TypeOK, PumpEmit
  <2>2. shown' \in [Launch -> [Pipe -> Nat]]
    BY <1>9 DEF TypeOK, PumpEmit
  <2>3. pump' \in [Launch -> [Pipe -> {"none", "read", "emit", "done"}]]
    BY <1>9 DEF TypeOK, PumpEmit
  <2>4. UNCHANGED <<mu, cmd, gen, defined, want, leader, child, written,
                    filed, watcher, timer, kind, client, h, act, target,
                    subs>>
    BY <1>9 DEF PumpEmit, object, processes, plumbing, streams, actions
  <2> QED
    BY <2>1, <2>2, <2>3, <2>4 DEF TypeOK
<1>10. ASSUME NEW p \in Launch, NEW s \in Pipe, PumpEnd(p, s) PROVE TypeOK'
  <2>1. pump' \in [Launch -> [Pipe -> {"none", "read", "emit", "done"}]]
    BY <1>10 DEF TypeOK, PumpEnd
  <2>2. UNCHANGED <<mu, cmd, gen, defined, want, leader, child, written,
                    filed, shown, watcher, timer, kind, client, h, buf, owed,
                    act, target, subs>>
    BY <1>10 DEF PumpEnd, object, processes, plumbing, streams, actions
  <2> QED
    BY <2>1, <2>2 DEF TypeOK
<1>11. ASSUME NEW r \in Request, StopUnknown(r) PROVE TypeOK'
  <2>1. act' \in [Request -> {"none", "stop", "wait", "killed", "start", "remove", "ok", "error"}]
    BY <1>11 DEF TypeOK, StopUnknown, Ends
  <2>2. UNCHANGED <<mu, cmd, gen, defined, want, leader, child, written,
                    filed, shown, pump, watcher, timer, kind, client, h, buf,
                    owed, target, subs>>
    BY <1>11 DEF StopUnknown, Silent, Ends, Acting, object, processes,
                 plumbing, streams, actions
  <2> QED
    BY <2>1, <2>2 DEF TypeOK
<1>12. ASSUME NEW r \in Request, StopIdle(r) PROVE TypeOK'
  <2>1. want' \in BOOLEAN
    BY <1>12 DEF TypeOK, StopIdle, AfterStop, Ends
  <2>2. act' \in [Request -> {"none", "stop", "wait", "killed", "start", "remove", "ok", "error"}]
    BY <1>12, AfterStopType DEF StopIdle
  <2>3. UNCHANGED <<mu, cmd, gen, defined, leader, child, written, filed,
                    shown, pump, watcher, timer, kind, client, h, buf, owed,
                    target, subs>>
    BY <1>12 DEF StopIdle, Silent, AfterStop, Ends, Acting, object,
                 processes, plumbing, streams, actions
  <2> QED
    BY <2>1, <2>2, <2>3 DEF TypeOK
<1>13. ASSUME NEW r \in Request, StopRunning(r) PROVE TypeOK'
  <2>1. /\ buf' \in [Watched -> 0 .. Buffer]
        /\ owed' \in [Watched -> 0 .. Buffer]
    BY <1>13, EmitKeeps DEF TypeOK, StopRunning, Acting
  <2>2. want' \in BOOLEAN
    BY <1>13 DEF TypeOK, StopRunning
  <2>3. target' \in [Request -> 0 .. MaxLaunches]
    BY <1>13 DEF TypeOK, StopRunning
  <2>4. act' \in [Request -> {"none", "stop", "wait", "killed", "start", "remove", "ok", "error"}]
    BY <1>13 DEF TypeOK, StopRunning
  <2>5. UNCHANGED <<mu, cmd, gen, defined, leader, child, written, filed,
                    shown, pump, watcher, timer, kind, client, h, subs>>
    BY <1>13 DEF StopRunning, Acting, object, processes, plumbing, streams,
                 actions
  <2> QED
    BY <2>1, <2>2, <2>3, <2>4, <2>5 DEF TypeOK
<1>14. ASSUME NEW r \in Request, StopTimeout(r) PROVE TypeOK'
  <2>1. leader' \in [Launch -> {"none", "alive", "dead"}]
    BY <1>14 DEF TypeOK, StopTimeout, KillGroup
  <2>2. child' \in [Launch -> {"none", "in", "out", "dead"}]
    BY <1>14 DEF TypeOK, StopTimeout, KillGroup
  <2>3. act' \in [Request -> {"none", "stop", "wait", "killed", "start", "remove", "ok", "error"}]
    BY <1>14 DEF TypeOK, StopTimeout, KillGroup
  <2>4. UNCHANGED <<mu, cmd, gen, defined, want, written, filed, shown, pump,
                    watcher, timer, kind, client, h, buf, owed, target,
                    subs>>
    BY <1>14 DEF StopTimeout, KillGroup, Silent, Acting, object, processes,
                 plumbing, streams, actions
  <2> QED
    BY <2>1, <2>2, <2>3, <2>4 DEF TypeOK
<1>15. ASSUME NEW r \in Request, StopExited(r) PROVE TypeOK'
  <2>1. leader' \in [Launch -> {"none", "alive", "dead"}]
    BY <1>15 DEF TypeOK, StopExited, KillGroup, AfterStop, Ends
  <2>2. child' \in [Launch -> {"none", "in", "out", "dead"}]
    BY <1>15 DEF TypeOK, StopExited, KillGroup, AfterStop, Ends
  <2>3. act' \in [Request -> {"none", "stop", "wait", "killed", "start", "remove", "ok", "error"}]
    BY <1>15, AfterStopType DEF StopExited
  <2>4. UNCHANGED <<mu, cmd, gen, defined, want, written, filed, shown, pump,
                    watcher, timer, kind, client, h, buf, owed, target,
                    subs>>
    BY <1>15 DEF StopExited, KillGroup, Silent, AfterStop, Ends, Acting,
                 object, processes, plumbing, streams, actions
  <2> QED
    BY <2>1, <2>2, <2>3, <2>4 DEF TypeOK
<1>16. ASSUME NEW r \in Request, StartUnknown(r) PROVE TypeOK'
  <2>1. act' \in [Request -> {"none", "stop", "wait", "killed", "start", "remove", "ok", "error"}]
    BY <1>16 DEF TypeOK, StartUnknown, Ends
  <2>2. UNCHANGED <<mu, cmd, gen, defined, want, leader, child, written,
                    filed, shown, pump, watcher, timer, kind, client, h, buf,
                    owed, target, subs>>
    BY <1>16 DEF StartUnknown, Silent, Ends, Acting, object, processes,
                 plumbing, streams, actions
  <2> QED
    BY <2>1, <2>2 DEF TypeOK
<1>17. ASSUME NEW r \in Request, StartRunning(r) PROVE TypeOK'
  <2>1. want' \in BOOLEAN
    BY <1>17 DEF TypeOK, StartRunning, Ends
  <2>2. act' \in [Request -> {"none", "stop", "wait", "killed", "start", "remove", "ok", "error"}]
    BY <1>17 DEF TypeOK, StartRunning, Ends
  <2>3. UNCHANGED <<mu, cmd, gen, defined, leader, child, written, filed,
                    shown, pump, watcher, timer, kind, client, h, buf, owed,
                    target, subs>>
    BY <1>17 DEF StartRunning, Silent, Ends, Acting, object, processes,
                 plumbing, streams, actions
  <2> QED
    BY <2>1, <2>2, <2>3 DEF TypeOK
<1>18. ASSUME NEW r \in Request, StartLaunch(r) PROVE TypeOK'
  <2>1. /\ buf' \in [Watched -> 0 .. Buffer]
        /\ owed' \in [Watched -> 0 .. Buffer]
    BY <1>18, EmitKeeps DEF TypeOK, StartLaunch, LaunchFailed, Silent, Ends, Acting,
                            Launched
  <2>2. /\ gen' \in 0 .. MaxLaunches
        /\ cmd' \in 0 .. MaxLaunches
        /\ leader' \in [Launch -> {"none", "alive", "dead"}]
        /\ child' \in [Launch -> {"none", "in", "out", "dead"}]
        /\ pump' \in [Launch -> [Pipe -> {"none", "read", "emit", "done"}]]
        /\ watcher' \in [Launch -> {"none", "wait", "closed", "exit", "done"}]
    BY <1>18, LaunchedType DEF TypeOK, StartLaunch, LaunchFailed
  <2>3. want' \in BOOLEAN
    BY <1>18 DEF TypeOK, StartLaunch, Ends
  <2>4. act' \in [Request -> {"none", "stop", "wait", "killed", "start", "remove", "ok", "error"}]
    <3>1. Ends(r, "ok") \/ Ends(r, "error")
      BY <1>18 DEF StartLaunch
    <3> QED
      BY <3>1 DEF TypeOK, Ends
  <2>5. UNCHANGED <<mu, defined, written, filed, shown, timer, kind, client,
                    h, target, subs>>
    BY <1>18 DEF StartLaunch, Launched, LaunchFailed, Ends, Acting, object,
                 processes, plumbing, streams, actions
  <2> QED
    BY <2>1, <2>2, <2>3, <2>4, <2>5 DEF TypeOK
<1>19. ASSUME NEW r \in Request, RemoveEntry(r) PROVE TypeOK'
  <2>1. defined' \in BOOLEAN
    BY <1>19 DEF TypeOK, RemoveEntry, Ends
  <2>2. act' \in [Request -> {"none", "stop", "wait", "killed", "start", "remove", "ok", "error"}]
    BY <1>19 DEF TypeOK, RemoveEntry, Ends
  <2>3. UNCHANGED <<mu, cmd, gen, want, leader, child, written, filed, shown,
                    pump, watcher, timer, kind, client, h, buf, owed, target,
                    subs>>
    BY <1>19 DEF RemoveEntry, Silent, Ends, Acting, object, processes,
                 plumbing, streams, actions
  <2> QED
    BY <2>1, <2>2, <2>3 DEF TypeOK
<1>20. ASSUME NEW r \in Request, Subscribe(r) PROVE TypeOK'
  <2>1. h' \in [Request -> {"new", "plain", "loop", "watch", "drain", "leave", "close", "done", "gone", "refused"}]
    <3>1. h' = [h EXCEPT ![r] = "loop"] \/ h' = [h EXCEPT ![r] = "refused"]
      BY <1>20 DEF Subscribe
    <3> QED
      BY <3>1 DEF TypeOK
  <2>2. subs' \in SUBSET Watched
    BY <1>20 DEF TypeOK, Subscribe, FirstStep, Streams
  <2>3. act' \in [Request -> {"none", "stop", "wait", "killed", "start", "remove", "ok", "error"}]
    BY <1>20 DEF TypeOK, Subscribe, FirstStep, Streams
  <2>4. UNCHANGED <<mu, cmd, gen, defined, want, leader, child, written,
                    filed, shown, pump, watcher, timer, kind, client, buf,
                    owed, target>>
    BY <1>20 DEF Subscribe, Streaming, FirstStep, Streams, object, processes,
                 plumbing, streams, actions
  <2> QED
    BY <2>1, <2>2, <2>3, <2>4 DEF TypeOK
<1>21. ASSUME NEW r \in Request, CallUnwatched(r) PROVE TypeOK'
  <2>1. h' \in [Request -> {"new", "plain", "loop", "watch", "drain", "leave", "close", "done", "gone", "refused"}]
    BY <1>21 DEF TypeOK, CallUnwatched, FirstStep
  <2>2. act' \in [Request -> {"none", "stop", "wait", "killed", "start", "remove", "ok", "error"}]
    BY <1>21 DEF TypeOK, CallUnwatched, FirstStep
  <2>3. UNCHANGED <<mu, cmd, gen, defined, want, leader, child, written,
                    filed, shown, pump, watcher, timer, kind, client, buf,
                    owed, target, subs>>
    BY <1>21 DEF CallUnwatched, Streaming, FirstStep, object, processes,
                 plumbing, streams, actions
  <2> QED
    BY <2>1, <2>2, <2>3 DEF TypeOK
<1>22. ASSUME NEW r \in Request, SelectEvent(r) PROVE TypeOK'
  <2>1. /\ buf' \in [Watched -> 0 .. Buffer]
        /\ owed' \in [Watched -> 0 .. Buffer]
    BY <1>22, SendNextType DEF SelectEvent
  <2>2. UNCHANGED <<mu, cmd, gen, defined, want, leader, child, written,
                    filed, shown, pump, watcher, timer, kind, client, h, act,
                    target, subs>>
    BY <1>22 DEF SelectEvent, SendNext, Streaming, InSelect, object,
                 processes, plumbing, streams, actions
  <2> QED
    BY <2>1, <2>2 DEF TypeOK
<1>23. ASSUME NEW r \in Request, SelectActed(r) PROVE TypeOK'
  <2>1. h' \in [Request -> {"new", "plain", "loop", "watch", "drain", "leave", "close", "done", "gone", "refused"}]
    BY <1>23 DEF TypeOK, SelectActed, Goes, InSelect
  <2>2. UNCHANGED <<mu, cmd, gen, defined, want, leader, child, written,
                    filed, shown, pump, watcher, timer, kind, client, buf,
                    owed, act, target, subs>>
    BY <1>23 DEF SelectActed, Goes, Streaming, InSelect, object, processes,
                 plumbing, streams, actions
  <2> QED
    BY <2>1, <2>2 DEF TypeOK
<1>24. ASSUME NEW r \in Request, SelectDeadline(r) PROVE TypeOK'
  <2>1. h' \in [Request -> {"new", "plain", "loop", "watch", "drain", "leave", "close", "done", "gone", "refused"}]
    BY <1>24 DEF TypeOK, SelectDeadline, Goes
  <2>2. UNCHANGED <<mu, cmd, gen, defined, want, leader, child, written,
                    filed, shown, pump, watcher, timer, kind, client, buf,
                    owed, act, target, subs>>
    BY <1>24 DEF SelectDeadline, Goes, Streaming, object, processes,
                 plumbing, streams, actions
  <2> QED
    BY <2>1, <2>2 DEF TypeOK
<1>25. ASSUME NEW r \in Request, SelectGone(r) PROVE TypeOK'
  <2>1. h' \in [Request -> {"new", "plain", "loop", "watch", "drain", "leave", "close", "done", "gone", "refused"}]
    BY <1>25 DEF TypeOK, SelectGone, Goes, InSelect
  <2>2. UNCHANGED <<mu, cmd, gen, defined, want, leader, child, written,
                    filed, shown, pump, watcher, timer, kind, client, buf,
                    owed, act, target, subs>>
    BY <1>25 DEF SelectGone, Goes, Streaming, InSelect, object, processes,
                 plumbing, streams, actions
  <2> QED
    BY <2>1, <2>2 DEF TypeOK
<1>26. ASSUME NEW r \in Request, DrainEvent(r) PROVE TypeOK'
  <2>1. /\ buf' \in [Watched -> 0 .. Buffer]
        /\ owed' \in [Watched -> 0 .. Buffer]
    BY <1>26, SendNextType DEF DrainEvent
  <2>2. UNCHANGED <<mu, cmd, gen, defined, want, leader, child, written,
                    filed, shown, pump, watcher, timer, kind, client, h, act,
                    target, subs>>
    BY <1>26 DEF DrainEvent, SendNext, Streaming, object, processes,
                 plumbing, streams, actions
  <2> QED
    BY <2>1, <2>2 DEF TypeOK
<1>27. ASSUME NEW r \in Request, DrainEnd(r) PROVE TypeOK'
  <2>1. h' \in [Request -> {"new", "plain", "loop", "watch", "drain", "leave", "close", "done", "gone", "refused"}]
    BY <1>27 DEF TypeOK, DrainEnd, Goes
  <2>2. UNCHANGED <<mu, cmd, gen, defined, want, leader, child, written,
                    filed, shown, pump, watcher, timer, kind, client, buf,
                    owed, act, target, subs>>
    BY <1>27 DEF DrainEnd, Goes, Streaming, object, processes, plumbing,
                 streams, actions
  <2> QED
    BY <2>1, <2>2 DEF TypeOK
<1>28. ASSUME NEW r \in Request, Cancel(r) PROVE TypeOK'
  <2>1. /\ buf' \in [Watched -> 0 .. Buffer]
        /\ owed' \in [Watched -> 0 .. Buffer]
    <3>1. buf' = [buf EXCEPT ![r] = 0] /\ owed' = [owed EXCEPT ![r] = 0]
      BY <1>28 DEF Cancel
    <3>2. 0 \in 0 .. Buffer
      OBVIOUS
    <3>3. buf' \in [Watched -> 0 .. Buffer]
      BY <3>1, <3>2 DEF TypeOK
    <3>4. owed' \in [Watched -> 0 .. Buffer]
      BY <3>1, <3>2 DEF TypeOK
    <3> QED
      BY <3>3, <3>4
  <2>2. subs' \in SUBSET Watched
    BY <1>28 DEF TypeOK, Cancel
  <2>3. h' \in [Request -> {"new", "plain", "loop", "watch", "drain", "leave", "close", "done", "gone", "refused"}]
    BY <1>28 DEF TypeOK, Cancel
  <2>4. UNCHANGED <<mu, cmd, gen, defined, want, leader, child, written,
                    filed, shown, pump, watcher, timer, kind, client, act,
                    target>>
    BY <1>28 DEF Cancel, Streaming, object, processes, plumbing, streams,
                 actions
  <2> QED
    BY <2>1, <2>2, <2>3, <2>4 DEF TypeOK
<1>30. ASSUME NEW p \in Launch, NEW s \in Pipe, Chatter(p, s) PROVE TypeOK'
  <2>1. /\ buf' \in [Watched -> 0 .. Buffer]
        /\ owed' \in [Watched -> 0 .. Buffer]
    BY <1>30, EmitKeeps DEF Chatter
  <2>2. UNCHANGED <<mu, cmd, gen, defined, want, leader, child, written, filed,
                    shown, pump, watcher, timer, kind, client, h, act, target,
                    subs>>
    BY <1>30 DEF Chatter, object, processes, plumbing, actions
  <2> QED
    BY <2>1, <2>2 DEF TypeOK
<1>29. CASE UNCHANGED vars
  BY <1>29 DEF TypeOK, vars, object, processes, plumbing, streams, actions
<1> QED
  BY <1>1, <1>2, <1>3, <1>4, <1>5, <1>6, <1>7, <1>8, <1>9, <1>10, <1>11,
     <1>12, <1>13, <1>14, <1>15, <1>16, <1>17, <1>18, <1>19, <1>20, <1>21,
     <1>22, <1>23, <1>24, <1>25, <1>26, <1>27, <1>28, <1>29, <1>30
     DEF Next, WatcherStep, PumpStep, ActionStep, Call, StreamStep

(***************************************************************************)
(* The invariant Launches survives a step that launches nothing and        *)
(* touches nothing of a launch to come.                                    *)
(***************************************************************************)
LEMMA LaunchesFrame ==
    ASSUME Launches, UNCHANGED <<gen, cmd, target>>,
           \A q \in Launch :
               /\ watcher[q] \in {"exit", "done"} => watcher'[q] \in {"exit", "done"}
               /\ watcher[q] # "none" => watcher'[q] # "none"
               /\ leader[q] # "none" => leader'[q] # "none"
               /\ q > gen => /\ watcher'[q] = watcher[q] /\ leader'[q] = leader[q]
                             /\ child'[q] = child[q] /\ pump'[q] = pump[q]
                             /\ written'[q] = written[q]
    PROVE  Launches'
<1>1. /\ gen' \in Launch /\ cmd' \in {0, gen'}
      /\ cmd' = 0 => watcher'[gen'] \in {"exit", "done"}
      /\ \A r \in Request : target'[r] <= gen'
  BY DEF Launches
<1>2. ASSUME NEW q \in Launch
      PROVE  /\ q < gen' => watcher'[q] \in {"exit", "done"}
             /\ q <= gen' => watcher'[q] # "none" /\ leader'[q] # "none"
  BY DEF Launches
<1>3. ASSUME NEW q \in Launch, q > gen'
      PROVE  /\ watcher'[q] = "none" /\ leader'[q] = "none" /\ child'[q] = "none"
             /\ \A s \in Pipe : pump'[q][s] = "none" /\ written'[q][s] = 0
  BY <1>3 DEF Launches
<1> QED
  BY <1>1, <1>2, <1>3 DEF Launches

(***************************************************************************)
(* The signal to a process group revives nothing and starts nothing.       *)
(***************************************************************************)
LEMMA KillKeeps ==
    ASSUME TypeOK, Launches, NEW t \in 0 .. MaxLaunches, t <= gen, KillGroup(t)
    PROVE  /\ written' = written
           /\ \A q \in Launch :
                /\ leader[q] # "none" => leader'[q] # "none"
                /\ leader'[q] = "alive" => leader[q] = "alive"
                /\ child'[q] \in {"in", "out"} => child[q] \in {"in", "out"}
                /\ q > gen => leader'[q] = leader[q] /\ child'[q] = child[q]
<1>1. gen \in Nat /\ t \in Nat
  BY EventsAssumption DEF TypeOK
<1>2. ASSUME NEW q \in Launch
      PROVE  /\ leader[q] # "none" => leader'[q] # "none"
             /\ leader'[q] = "alive" => leader[q] = "alive"
             /\ child'[q] \in {"in", "out"} => child[q] \in {"in", "out"}
             /\ q > gen => leader'[q] = leader[q] /\ child'[q] = child[q]
  <2>1. CASE q = t
    BY <1>1, <2>1 DEF TypeOK, KillGroup
  <2>2. CASE q # t
    BY <2>2 DEF TypeOK, KillGroup
  <2> QED
    BY <2>1, <2>2
<1> QED
  BY <1>2 DEF KillGroup

(***************************************************************************)
(* A launch when nothing runs follows the exit event of the one before.    *)
(***************************************************************************)
LEMMA LaunchedInOrder ==
    ASSUME TypeOK, Launches, cmd = 0, Launched, UNCHANGED <<target, written>>
    PROVE  Launches'
<1> DEFINE n == gen + 1
<1>1. /\ n \in Launch /\ gen' = n /\ cmd' = n /\ gen \in Nat /\ n \in Nat /\ n > gen
      /\ Launch \subseteq Nat
  <2>1. n \in Launch /\ gen' = n /\ cmd' = n
    BY LaunchedIsNext
  <2>2. gen \in Nat /\ Launch \subseteq Nat
    BY EventsAssumption DEF TypeOK, Launch
  <2> QED
    BY <2>1, <2>2
<1>2. /\ leader'[n] = "alive" /\ watcher'[n] = "wait"
      /\ \A q \in Launch : q # n =>
           /\ leader'[q] = leader[q] /\ watcher'[q] = watcher[q]
           /\ child'[q] = child[q] /\ pump'[q] = pump[q]
  BY LaunchedIsNext
<1> HIDE DEF n
<1>3. \A r \in Request : target[r] \in Nat /\ target[r] <= gen
  BY EventsAssumption DEF TypeOK, Launches
<1>4. \A r \in Request : target'[r] <= gen'
  <2>1. n = gen + 1
    BY DEF n
  <2> QED
    BY <1>1, <1>3, <2>1
<1>5. ASSUME NEW q \in Launch
      PROVE  /\ q < n => watcher'[q] \in {"exit", "done"}
             /\ q <= n => watcher'[q] # "none" /\ leader'[q] # "none"
             /\ q > n => /\ watcher'[q] = "none" /\ leader'[q] = "none" /\ child'[q] = "none"
                         /\ \A s \in Pipe : pump'[q][s] = "none" /\ written'[q][s] = 0
  <2>1. q \in Nat /\ n = gen + 1 /\ (cmd = 0 => watcher[gen] \in {"exit", "done"})
    BY <1>1 DEF n, Launches
  <2>2. CASE q > n
    BY <1>1, <1>2, <2>1, <2>2 DEF Launches
  <2>3. CASE q = n
    BY <1>1, <1>2, <2>3
  <2>4. CASE q < n
    <3>1. q < gen \/ q = gen
      BY <1>1, <2>1, <2>4
    <3>2. watcher[q] \in {"exit", "done"} /\ leader[q] # "none" /\ watcher'[q] = watcher[q] /\ leader'[q] = leader[q]
      BY <1>1, <1>2, <2>1, <2>4, <3>1 DEF Launches
    <3> QED
      BY <1>1, <2>1, <2>4, <3>2
  <2> QED
    BY <1>1, <2>1, <2>2, <2>3, <2>4
<1>6. cmd' # 0
  BY <1>1 DEF Launch
<1> QED
  BY <1>1, <1>4, <1>5, <1>6 DEF Launches

(***************************************************************************)
(* A launch only follows an exit event, since only that clears cmd.        *)
(***************************************************************************)
LEMMA NextLaunches == TypeOK /\ Launches /\ [Next]_vars => Launches'
<1> SUFFICES ASSUME TypeOK, Launches, [Next]_vars PROVE Launches'
  OBVIOUS
<1>1. ASSUME NEW p \in Launch, Die(p) PROVE Launches'
  <2>1. UNCHANGED <<gen, cmd, target, watcher, pump, written>>
    BY <1>1 DEF Die, Outside, object, processes, plumbing, actions
  <2>2. leader[p] # "none" \/ child[p] # "none"
    BY <1>1 DEF Die
  <2>3. \A q \in Launch : q > gen => q # p
    BY <2>2, EventsAssumption DEF TypeOK, Launches, Launch
  <2>4. \A q \in Launch : q # p => leader'[q] = leader[q]
    BY <1>1 DEF TypeOK, Die
  <2>5. \A q \in Launch : q # p => child'[q] = child[q]
    BY <1>1 DEF TypeOK, Die
  <2>6. leader[p] # "none" => leader'[p] # "none"
    BY <1>1 DEF TypeOK, Die
  <2> QED
    BY <2>1, <2>3, <2>4, <2>5, <2>6, LaunchesFrame
<1>2. ASSUME NEW p \in Launch, WatchClose(p) PROVE Launches'
  <2>1. UNCHANGED <<gen, cmd, target, leader, child, pump, written>>
    BY <1>2 DEF WatchClose, Watching, Silent, object, processes, plumbing,
              actions
  <2>2. watcher[p] # "none"
    BY <1>2 DEF WatchClose
  <2>3. \A q \in Launch : q > gen => q # p
    BY <2>2, EventsAssumption DEF TypeOK, Launches, Launch
  <2>4. \A q \in Launch : q # p => watcher'[q] = watcher[q]
    BY <1>2 DEF TypeOK, WatchClose
  <2>5. /\ watcher'[p] # "none" /\ (watcher[p] \in {"exit", "done"} => watcher'[p] \in {"exit", "done"})
    BY <1>2 DEF TypeOK, WatchClose
  <2> QED
    BY <2>1, <2>3, <2>4, <2>5, LaunchesFrame
<1>3. ASSUME NEW p \in Launch, WatchExit(p) PROVE Launches'
  <2>1. UNCHANGED <<gen, target, leader, child, pump, written>>
    BY <1>3 DEF WatchExit, Watching, object, processes, plumbing, streams, actions
  <2>2. watcher[p] = "closed" /\ p \in Nat /\ gen \in Nat
    BY <1>3, EventsAssumption DEF TypeOK, WatchExit, Launch
  <2>3. p <= gen
    BY <2>2 DEF Launches
  <2>4. ~(p < gen)
    BY <2>2 DEF Launches
  <2>5. gen = p
    BY <2>2, <2>3, <2>4
  <2>6. cmd' = 0 /\ watcher' = [watcher EXCEPT ![p] = "exit"]
    BY <1>3, <2>5 DEF WatchExit
  <2>7. \A q \in Launch : watcher'[q] = IF q = p THEN "exit" ELSE watcher[q]
    BY <2>6 DEF TypeOK
  <2>8. gen' \in Launch /\ cmd' \in {0, gen'} /\ watcher'[gen'] \in {"exit", "done"}
    BY <2>1, <2>5, <2>6, <2>7
  <2>9. \A r \in Request : target'[r] <= gen'
    BY <2>1 DEF Launches
  <2>10. ASSUME NEW q \in Launch
         PROVE  /\ q < gen' => watcher'[q] \in {"exit", "done"}
                /\ q <= gen' => watcher'[q] # "none" /\ leader'[q] # "none"
                /\ q > gen' => /\ watcher'[q] = "none" /\ leader'[q] = "none" /\ child'[q] = "none"
                               /\ \A s \in Pipe : pump'[q][s] = "none" /\ written'[q][s] = 0
    <3>1. CASE q = p
      BY <2>1, <2>2, <2>5, <2>7, <3>1 DEF Launches
    <3>2. CASE q # p
      BY <2>1, <2>7, <3>2 DEF Launches
    <3> QED
      BY <3>1, <3>2
  <2> QED
    BY <2>8, <2>9, <2>10 DEF Launches
<1>4. ASSUME NEW p \in Launch, WatchStopped(p) PROVE Launches'
  <2>1. UNCHANGED <<gen, cmd, target, leader, child, pump, written>>
    BY <1>4 DEF WatchStopped, Watching, object, processes, plumbing, actions
  <2>2. watcher[p] # "none"
    BY <1>4 DEF WatchStopped
  <2>3. \A q \in Launch : q > gen => q # p
    BY <2>2, EventsAssumption DEF TypeOK, Launches, Launch
  <2>4. \A q \in Launch : q # p => watcher'[q] = watcher[q]
    BY <1>4 DEF TypeOK, WatchStopped
  <2>5. /\ watcher'[p] # "none" /\ (watcher[p] \in {"exit", "done"} => watcher'[p] \in {"exit", "done"})
    BY <1>4 DEF TypeOK, WatchStopped
  <2> QED
    BY <2>1, <2>3, <2>4, <2>5, LaunchesFrame
<1>5. ASSUME NEW p \in Launch, WatchCrashed(p) PROVE Launches'
  <2>1. UNCHANGED <<gen, cmd, target, leader, child, pump, written>>
    BY <1>5 DEF WatchCrashed, Watching, Silent, object, processes, plumbing,
              actions
  <2>2. watcher[p] # "none"
    BY <1>5 DEF WatchCrashed
  <2>3. \A q \in Launch : q > gen => q # p
    BY <2>2, EventsAssumption DEF TypeOK, Launches, Launch
  <2>4. \A q \in Launch : q # p => watcher'[q] = watcher[q]
    BY <1>5 DEF TypeOK, WatchCrashed
  <2>5. /\ watcher'[p] # "none" /\ (watcher[p] \in {"exit", "done"} => watcher'[p] \in {"exit", "done"})
    BY <1>5 DEF TypeOK, WatchCrashed
  <2> QED
    BY <2>1, <2>3, <2>4, <2>5, LaunchesFrame
<1>6. ASSUME NEW p \in Launch, TimerFires(p) PROVE Launches'
  <2>1. UNCHANGED <<target, written>>
    BY <1>6 DEF TimerFires, object, processes, plumbing, streams, actions
  <2>2. \/ UNCHANGED <<gen, cmd, leader, child, pump, watcher>>
        \/ cmd = 0 /\ Launched
    BY <1>6 DEF TimerFires, LaunchFailed
  <2>3. CASE UNCHANGED <<gen, cmd, leader, child, pump, watcher>>
    BY <2>1, <2>3, LaunchesFrame
  <2>4. CASE cmd = 0 /\ Launched
    BY <2>1, <2>4, LaunchedInOrder
  <2> QED
    BY <2>2, <2>3, <2>4
<1>7. ASSUME NEW p \in Launch, NEW s \in Pipe, Write(p, s) PROVE Launches'
  <2>1. UNCHANGED <<gen, cmd, target, watcher, leader, child, pump>>
    BY <1>7 DEF Write, Outside, object, processes, plumbing, actions
  <2>2. leader[p] # "none" \/ child[p] # "none"
    BY <1>7 DEF Write, Holds
  <2>3. \A q \in Launch : q > gen => q # p
    BY <2>2, EventsAssumption DEF TypeOK, Launches, Launch
  <2>4. \A q \in Launch : q # p => written'[q] = written[q]
    BY <1>7 DEF TypeOK, Write
  <2> QED
    BY <2>1, <2>3, <2>4, LaunchesFrame
<1>8. ASSUME NEW p \in Launch, NEW s \in Pipe, PumpLine(p, s) PROVE Launches'
  <2>1. UNCHANGED <<gen, cmd, target, watcher, leader, child, written>>
    BY <1>8 DEF PumpLine, object, processes, plumbing, actions
  <2>2. pump[p][s] # "none"
    BY <1>8 DEF PumpLine
  <2>3. \A q \in Launch : q > gen => q # p
    BY <2>2, EventsAssumption DEF TypeOK, Launches, Launch
  <2>4. \A q \in Launch : q # p => pump'[q] = pump[q]
    BY <1>8 DEF TypeOK, PumpLine
  <2> QED
    BY <2>1, <2>3, <2>4, LaunchesFrame
<1>9. ASSUME NEW p \in Launch, NEW s \in Pipe, PumpEmit(p, s) PROVE Launches'
  <2>1. UNCHANGED <<gen, cmd, target, watcher, leader, child, written>>
    BY <1>9 DEF PumpEmit, object, processes, plumbing, actions
  <2>2. pump[p][s] # "none"
    BY <1>9 DEF PumpEmit
  <2>3. \A q \in Launch : q > gen => q # p
    BY <2>2, EventsAssumption DEF TypeOK, Launches, Launch
  <2>4. \A q \in Launch : q # p => pump'[q] = pump[q]
    BY <1>9 DEF TypeOK, PumpEmit
  <2> QED
    BY <2>1, <2>3, <2>4, LaunchesFrame
<1>10. ASSUME NEW p \in Launch, NEW s \in Pipe, PumpEnd(p, s) PROVE Launches'
  <2>1. UNCHANGED <<gen, cmd, target, watcher, leader, child, written>>
    BY <1>10 DEF PumpEnd, object, processes, plumbing, actions
  <2>2. pump[p][s] # "none"
    BY <1>10 DEF PumpEnd
  <2>3. \A q \in Launch : q > gen => q # p
    BY <2>2, EventsAssumption DEF TypeOK, Launches, Launch
  <2>4. \A q \in Launch : q # p => pump'[q] = pump[q]
    BY <1>10 DEF TypeOK, PumpEnd
  <2> QED
    BY <2>1, <2>3, <2>4, LaunchesFrame
<1>11. ASSUME NEW r \in Request, StopUnknown(r) PROVE Launches'
  <2>1. UNCHANGED <<gen, cmd, target, watcher, leader, child, pump, written>>
    BY <1>11 DEF StopUnknown, Silent, Ends, Acting, object, processes, plumbing,
              actions
  <2> QED
    BY <2>1, LaunchesFrame
<1>12. ASSUME NEW r \in Request, StopIdle(r) PROVE Launches'
  <2>1. UNCHANGED <<gen, cmd, target, watcher, leader, child, pump, written>>
    BY <1>12 DEF StopIdle, Silent, AfterStop, Ends, Acting, object, processes,
              plumbing, actions
  <2> QED
    BY <2>1, LaunchesFrame
<1>13. ASSUME NEW r \in Request, StopRunning(r) PROVE Launches'
  <2>1. UNCHANGED <<gen, cmd, watcher, leader, child, pump, written>>
    BY <1>13 DEF StopRunning, Acting, object, processes, plumbing, streams, actions
  <2>2. \A q \in Request : target'[q] <= gen
    <3>1. cmd <= gen /\ target' = [target EXCEPT ![r] = cmd]
      BY <1>13, EventsAssumption DEF TypeOK, Launches, StopRunning
    <3> QED
      BY <3>1 DEF TypeOK, Launches
  <2> QED
    BY <2>1, <2>2 DEF Launches
<1>14. ASSUME NEW r \in Request, StopTimeout(r) PROVE Launches'
  <2>1. UNCHANGED <<gen, cmd, target, watcher, pump, written>>
    BY <1>14 DEF StopTimeout, KillGroup, Silent, Acting, object, processes,
              plumbing, actions
  <2>2. KillGroup(target[r]) /\ target[r] \in 0 .. MaxLaunches /\ target[r] <= gen
    BY <1>14 DEF TypeOK, Launches, StopTimeout
  <2> QED
    BY <2>1, <2>2, KillKeeps, LaunchesFrame
<1>15. ASSUME NEW r \in Request, StopExited(r) PROVE Launches'
  <2>1. UNCHANGED <<gen, cmd, target, watcher, pump, written>>
    BY <1>15 DEF StopExited, KillGroup, Silent, AfterStop, Ends, Acting, object,
              processes, plumbing, actions
  <2>2. KillGroup(target[r]) /\ target[r] \in 0 .. MaxLaunches /\ target[r] <= gen
    BY <1>15 DEF TypeOK, Launches, StopExited
  <2> QED
    BY <2>1, <2>2, KillKeeps, LaunchesFrame
<1>16. ASSUME NEW r \in Request, StartUnknown(r) PROVE Launches'
  <2>1. UNCHANGED <<gen, cmd, target, watcher, leader, child, pump, written>>
    BY <1>16 DEF StartUnknown, Silent, Ends, Acting, object, processes,
              plumbing, actions
  <2> QED
    BY <2>1, LaunchesFrame
<1>17. ASSUME NEW r \in Request, StartRunning(r) PROVE Launches'
  <2>1. UNCHANGED <<gen, cmd, target, watcher, leader, child, pump, written>>
    BY <1>17 DEF StartRunning, Silent, Ends, Acting, object, processes,
              plumbing, actions
  <2> QED
    BY <2>1, LaunchesFrame
<1>18. ASSUME NEW r \in Request, StartLaunch(r) PROVE Launches'
  <2>1. UNCHANGED <<target, written>>
    BY <1>18 DEF StartLaunch, Acting, object, processes, plumbing, streams, actions
  <2>2. \/ UNCHANGED <<gen, cmd, leader, child, pump, watcher>>
        \/ cmd = 0 /\ Launched
    BY <1>18 DEF StartLaunch, LaunchFailed
  <2>3. CASE UNCHANGED <<gen, cmd, leader, child, pump, watcher>>
    BY <2>1, <2>3, LaunchesFrame
  <2>4. CASE cmd = 0 /\ Launched
    BY <2>1, <2>4, LaunchedInOrder
  <2> QED
    BY <2>2, <2>3, <2>4
<1>19. ASSUME NEW r \in Request, RemoveEntry(r) PROVE Launches'
  <2>1. UNCHANGED <<gen, cmd, target, watcher, leader, child, pump, written>>
    BY <1>19 DEF RemoveEntry, Silent, Ends, Acting, object, processes, plumbing,
              actions
  <2> QED
    BY <2>1, LaunchesFrame
<1>20. ASSUME NEW r \in Request, Subscribe(r) PROVE Launches'
  <2>1. UNCHANGED <<gen, cmd, target, watcher, leader, child, pump, written>>
    BY <1>20 DEF Subscribe, Streaming, FirstStep, Streams, object, processes,
              plumbing, actions
  <2> QED
    BY <2>1, LaunchesFrame
<1>21. ASSUME NEW r \in Request, CallUnwatched(r) PROVE Launches'
  <2>1. UNCHANGED <<gen, cmd, target, watcher, leader, child, pump, written>>
    BY <1>21 DEF CallUnwatched, Streaming, FirstStep, object, processes,
              plumbing, actions
  <2> QED
    BY <2>1, LaunchesFrame
<1>22. ASSUME NEW r \in Request, SelectEvent(r) PROVE Launches'
  <2>1. UNCHANGED <<gen, cmd, target, watcher, leader, child, pump, written>>
    BY <1>22 DEF SelectEvent, SendNext, Streaming, InSelect, object, processes,
              plumbing, actions
  <2> QED
    BY <2>1, LaunchesFrame
<1>23. ASSUME NEW r \in Request, SelectActed(r) PROVE Launches'
  <2>1. UNCHANGED <<gen, cmd, target, watcher, leader, child, pump, written>>
    BY <1>23 DEF SelectActed, Goes, Streaming, InSelect, object, processes,
              plumbing, actions
  <2> QED
    BY <2>1, LaunchesFrame
<1>24. ASSUME NEW r \in Request, SelectDeadline(r) PROVE Launches'
  <2>1. UNCHANGED <<gen, cmd, target, watcher, leader, child, pump, written>>
    BY <1>24 DEF SelectDeadline, Goes, Streaming, object, processes, plumbing,
              actions
  <2> QED
    BY <2>1, LaunchesFrame
<1>25. ASSUME NEW r \in Request, SelectGone(r) PROVE Launches'
  <2>1. UNCHANGED <<gen, cmd, target, watcher, leader, child, pump, written>>
    BY <1>25 DEF SelectGone, Goes, Streaming, InSelect, object, processes,
              plumbing, actions
  <2> QED
    BY <2>1, LaunchesFrame
<1>26. ASSUME NEW r \in Request, DrainEvent(r) PROVE Launches'
  <2>1. UNCHANGED <<gen, cmd, target, watcher, leader, child, pump, written>>
    BY <1>26 DEF DrainEvent, SendNext, Streaming, object, processes, plumbing,
              actions
  <2> QED
    BY <2>1, LaunchesFrame
<1>27. ASSUME NEW r \in Request, DrainEnd(r) PROVE Launches'
  <2>1. UNCHANGED <<gen, cmd, target, watcher, leader, child, pump, written>>
    BY <1>27 DEF DrainEnd, Goes, Streaming, object, processes, plumbing, actions
  <2> QED
    BY <2>1, LaunchesFrame
<1>28. ASSUME NEW r \in Request, Cancel(r) PROVE Launches'
  <2>1. UNCHANGED <<gen, cmd, target, watcher, leader, child, pump, written>>
    BY <1>28 DEF Cancel, Streaming, object, processes, plumbing, actions
  <2> QED
    BY <2>1, LaunchesFrame
<1>30. ASSUME NEW p \in Launch, NEW s \in Pipe, Chatter(p, s) PROVE Launches'
  <2>1. UNCHANGED <<gen, cmd, target, watcher, leader, child, pump, written>>
    BY <1>30 DEF Chatter, object, processes, plumbing, actions
  <2> QED
    BY <2>1, LaunchesFrame
<1>29. CASE UNCHANGED vars
  <2>1. UNCHANGED <<gen, cmd, target, watcher, leader, child, pump, written>>
    BY <1>29 DEF vars, object, processes, plumbing, streams, actions
  <2> QED
    BY <2>1, LaunchesFrame
<1> QED
  BY <1>1, <1>2, <1>3, <1>4, <1>5, <1>6, <1>7, <1>8, <1>9, <1>10, <1>11,
     <1>12, <1>13, <1>14, <1>15, <1>16, <1>17, <1>18, <1>19, <1>20, <1>21,
     <1>22, <1>23, <1>24, <1>25, <1>26, <1>27, <1>28, <1>29, <1>30
     DEF Next, WatcherStep, PumpStep, ActionStep, Call, StreamStep

(***************************************************************************)
(* The invariant Plumbed survives a step that touches no line and no pump, *)
(* revives no process and closes no launch whose pumps run.                *)
(***************************************************************************)
LEMMA PlumbedFrame ==
    ASSUME Plumbed, UNCHANGED <<written, filed, shown, pump>>,
           \A q \in Launch :
               /\ leader'[q] = "alive" => leader[q] = "alive"
               /\ child'[q] \in {"in", "out"} => child[q] \in {"in", "out"}
               /\ watcher'[q] \in {"closed", "exit", "done"} =>
                    watcher[q] \in {"closed", "exit", "done"} \/ \A s \in Pipe : pump[q][s] = "done"
    PROVE  Plumbed'
<1>1. ASSUME NEW q \in Launch PROVE Holds(q)' => Holds(q)
  BY DEF Holds
<1>2. ASSUME NEW q \in Launch, NEW s \in Pipe PROVE Behind(q, s)'
  <2>1. Behind(q, s)
    BY DEF Plumbed
  <2> QED
    BY <1>1, <2>1 DEF Behind
<1>3. ASSUME NEW q \in Launch, Exited(q)' PROVE \A s \in Pipe : pump'[q][s] = "done"
  BY <1>3 DEF Plumbed, Exited
<1> QED
  BY <1>2, <1>3 DEF Plumbed

(***************************************************************************)
(* A new launch has nothing written, and none of the others changes.       *)
(***************************************************************************)
LEMMA LaunchedPlumbed ==
    ASSUME TypeOK, Launches, Plumbed, Launched, UNCHANGED <<written, filed, shown>>
    PROVE  Plumbed'
<1> DEFINE n == gen + 1
<1>1. /\ n \in Launch /\ watcher'[n] = "wait" /\ \A s \in Pipe : pump'[n][s] = "read"
      /\ \A q \in Launch : q # n =>
           /\ leader'[q] = leader[q] /\ watcher'[q] = watcher[q]
           /\ child'[q] = child[q] /\ pump'[q] = pump[q]
  BY LaunchedIsNext
<1>2. \A s \in Pipe : pump[n][s] = "none" /\ written[n][s] = 0
  <2>1. n > gen
    BY EventsAssumption DEF TypeOK
  <2> QED
    BY <1>1, <2>1 DEF Launches
<1>3. \A q \in Launch, s \in Pipe : filed[q][s] \in Nat /\ shown[q][s] \in Nat
  BY DEF TypeOK
<1> HIDE DEF n
<1>4. ASSUME NEW q \in Launch, NEW s \in Pipe PROVE Behind(q, s)'
  <2>1. Behind(q, s)
    BY DEF Plumbed
  <2>2. CASE q = n
    BY <1>1, <1>2, <1>3, <2>1, <2>2 DEF Behind
  <2>3. CASE q # n
    BY <1>1, <2>1, <2>3 DEF Behind, Holds
  <2> QED
    BY <2>2, <2>3
<1>5. ASSUME NEW q \in Launch, Exited(q)' PROVE \A s \in Pipe : pump'[q][s] = "done"
  <2>1. q # n
    BY <1>1, <1>5 DEF Exited
  <2> QED
    BY <1>1, <1>5, <2>1 DEF Plumbed, Exited
<1> QED
  BY <1>4, <1>5 DEF Plumbed

(***************************************************************************)
(* Pumps take every line, and end when nobody can write another.           *)
(***************************************************************************)
LEMMA NextPlumbed == TypeOK /\ Launches /\ Plumbed /\ [Next]_vars => Plumbed'
<1> SUFFICES ASSUME TypeOK, Launches, Plumbed, [Next]_vars PROVE Plumbed'
  OBVIOUS
<1>1. ASSUME NEW p \in Launch, Die(p) PROVE Plumbed'
  <2>1. UNCHANGED <<written, filed, shown, pump, watcher>>
    BY <1>1 DEF Die, Outside, processes, plumbing
  <2>2. \A q \in Launch : /\ leader'[q] = "alive" => leader[q] = "alive"
                          /\ child'[q] \in {"in", "out"} => child[q] \in {"in", "out"}
    BY <1>1 DEF TypeOK, Die
  <2> QED
    BY <2>1, <2>2, PlumbedFrame
<1>2. ASSUME NEW p \in Launch, WatchClose(p) PROVE Plumbed'
  <2>1. UNCHANGED <<written, filed, shown, pump, leader, child>>
    BY <1>2 DEF WatchClose, Watching, Silent, processes, plumbing
  <2>2. /\ \A s \in Pipe : pump[p][s] = "done"
        /\ \A q \in Launch : q # p => watcher'[q] = watcher[q]
    BY <1>2 DEF TypeOK, WatchClose, Each
  <2> QED
    BY <2>1, <2>2, PlumbedFrame
<1>3. ASSUME NEW p \in Launch, WatchExit(p) PROVE Plumbed'
  <2>1. UNCHANGED <<written, filed, shown, pump, leader, child>>
    BY <1>3 DEF WatchExit, Watching, Silent, processes, plumbing
  <2>2. /\ watcher[p] \in {"closed", "exit", "done"}
        /\ \A q \in Launch : q # p => watcher'[q] = watcher[q]
    BY <1>3 DEF TypeOK, WatchExit
  <2> QED
    BY <2>1, <2>2, PlumbedFrame
<1>4. ASSUME NEW p \in Launch, WatchStopped(p) PROVE Plumbed'
  <2>1. UNCHANGED <<written, filed, shown, pump, leader, child>>
    BY <1>4 DEF WatchStopped, Watching, processes, plumbing
  <2>2. /\ watcher[p] \in {"closed", "exit", "done"}
        /\ \A q \in Launch : q # p => watcher'[q] = watcher[q]
    BY <1>4 DEF TypeOK, WatchStopped
  <2> QED
    BY <2>1, <2>2, PlumbedFrame
<1>5. ASSUME NEW p \in Launch, WatchCrashed(p) PROVE Plumbed'
  <2>1. UNCHANGED <<written, filed, shown, pump, leader, child>>
    BY <1>5 DEF WatchCrashed, Watching, Silent, processes, plumbing
  <2>2. /\ watcher[p] \in {"closed", "exit", "done"}
        /\ \A q \in Launch : q # p => watcher'[q] = watcher[q]
    BY <1>5 DEF TypeOK, WatchCrashed
  <2> QED
    BY <2>1, <2>2, PlumbedFrame
<1>6. ASSUME NEW p \in Launch, TimerFires(p) PROVE Plumbed'
  <2>1. UNCHANGED <<written, filed, shown>>
    BY <1>6 DEF TimerFires, object, processes, plumbing, streams, actions
  <2>2. UNCHANGED <<leader, child, pump, watcher>> \/ Launched
    BY <1>6 DEF TimerFires, LaunchFailed
  <2>3. CASE UNCHANGED <<leader, child, pump, watcher>>
    BY <2>1, <2>3, PlumbedFrame
  <2>4. CASE Launched
    BY <2>1, <2>4, LaunchedPlumbed
  <2> QED
    BY <2>2, <2>3, <2>4
<1>7. ASSUME NEW p \in Launch, NEW s \in Pipe, Write(p, s) PROVE Plumbed'
  <2>1. UNCHANGED <<filed, shown, pump, watcher, leader, child>>
    BY <1>7 DEF Write, Outside, object, processes, plumbing, streams, actions
  <2>2. \A q \in Launch, t \in Pipe :
          written'[q][t] = IF q = p /\ t = s THEN written[p][s] + 1 ELSE written[q][t]
    BY <1>7 DEF TypeOK, Write
  <2>3. Holds(p)
    BY <1>7 DEF Write
  <2>4. ASSUME NEW q \in Launch, NEW t \in Pipe PROVE Behind(q, t)'
    <3>1. /\ Behind(q, t) /\ written[q][t] \in Nat /\ filed[q][t] \in Nat /\ shown[q][t] \in Nat
      BY DEF Plumbed, TypeOK
    <3>2. CASE q = p /\ t = s
      BY <2>1, <2>2, <2>3, <3>1, <3>2 DEF Behind, Holds
    <3>3. CASE q = p /\ t # s
      BY <2>1, <2>2, <2>3, <3>1, <3>3 DEF Behind, Holds
    <3>4. CASE q # p
      BY <2>1, <2>2, <2>3, <3>1, <3>4 DEF Behind, Holds
    <3> QED
      BY <3>2, <3>3, <3>4
  <2>5. ASSUME NEW q \in Launch, Exited(q)' PROVE \A t \in Pipe : pump'[q][t] = "done"
    <3>1. \A t \in Pipe : pump[q][t] = "done"
      BY <2>1, <2>5 DEF Plumbed, Exited
    <3> QED
      BY <2>1, <2>2, <2>3, <3>1
  <2> QED
    BY <2>4, <2>5 DEF Plumbed
<1>8. ASSUME NEW p \in Launch, NEW s \in Pipe, PumpLine(p, s) PROVE Plumbed'
  <2>1. UNCHANGED <<written, shown, watcher, leader, child>>
    BY <1>8 DEF PumpLine, object, processes, plumbing, streams, actions
  <2>2. /\ pump[p][s] = "read" /\ written[p][s] > filed[p][s]
        /\ \A q \in Launch, t \in Pipe :
             filed'[q][t] = IF q = p /\ t = s THEN filed[p][s] + 1 ELSE filed[q][t]
    BY <1>8 DEF TypeOK, PumpLine
  <2>3. \A q \in Launch, t \in Pipe :
          pump'[q][t] = IF q = p /\ t = s THEN "emit" ELSE pump[q][t]
    BY <1>8 DEF TypeOK, PumpLine
  <2>4. ASSUME NEW q \in Launch, NEW t \in Pipe PROVE Behind(q, t)'
    <3>1. /\ Behind(q, t) /\ written[q][t] \in Nat /\ filed[q][t] \in Nat /\ shown[q][t] \in Nat
      BY DEF Plumbed, TypeOK
    <3>2. CASE q = p /\ t = s
      BY <2>1, <2>2, <2>3, <3>1, <3>2 DEF Behind, Holds
    <3>3. CASE q = p /\ t # s
      BY <2>1, <2>2, <2>3, <3>1, <3>3 DEF Behind, Holds
    <3>4. CASE q # p
      BY <2>1, <2>2, <2>3, <3>1, <3>4 DEF Behind, Holds
    <3> QED
      BY <3>2, <3>3, <3>4
  <2>5. ASSUME NEW q \in Launch, Exited(q)' PROVE \A t \in Pipe : pump'[q][t] = "done"
    <3>1. \A t \in Pipe : pump[q][t] = "done"
      BY <2>1, <2>5 DEF Plumbed, Exited
    <3> QED
      BY <2>1, <2>2, <2>3, <3>1
  <2> QED
    BY <2>4, <2>5 DEF Plumbed
<1>9. ASSUME NEW p \in Launch, NEW s \in Pipe, PumpEmit(p, s) PROVE Plumbed'
  <2>1. UNCHANGED <<written, filed, watcher, leader, child>>
    BY <1>9 DEF PumpEmit, object, processes, plumbing, streams, actions
  <2>2. /\ pump[p][s] = "emit"
        /\ \A q \in Launch, t \in Pipe :
             shown'[q][t] = IF q = p /\ t = s THEN shown[p][s] + 1 ELSE shown[q][t]
    BY <1>9 DEF TypeOK, PumpEmit
  <2>3. \A q \in Launch, t \in Pipe :
          pump'[q][t] = IF q = p /\ t = s THEN "read" ELSE pump[q][t]
    BY <1>9 DEF TypeOK, PumpEmit
  <2>4. ASSUME NEW q \in Launch, NEW t \in Pipe PROVE Behind(q, t)'
    <3>1. /\ Behind(q, t) /\ written[q][t] \in Nat /\ filed[q][t] \in Nat /\ shown[q][t] \in Nat
      BY DEF Plumbed, TypeOK
    <3>2. CASE q = p /\ t = s
      BY <2>1, <2>2, <2>3, <3>1, <3>2 DEF Behind, Holds
    <3>3. CASE q = p /\ t # s
      BY <2>1, <2>2, <2>3, <3>1, <3>3 DEF Behind, Holds
    <3>4. CASE q # p
      BY <2>1, <2>2, <2>3, <3>1, <3>4 DEF Behind, Holds
    <3> QED
      BY <3>2, <3>3, <3>4
  <2>5. ASSUME NEW q \in Launch, Exited(q)' PROVE \A t \in Pipe : pump'[q][t] = "done"
    <3>1. \A t \in Pipe : pump[q][t] = "done"
      BY <2>1, <2>5 DEF Plumbed, Exited
    <3> QED
      BY <2>1, <2>2, <2>3, <3>1
  <2> QED
    BY <2>4, <2>5 DEF Plumbed
<1>10. ASSUME NEW p \in Launch, NEW s \in Pipe, PumpEnd(p, s) PROVE Plumbed'
  <2>1. UNCHANGED <<written, filed, shown, watcher, leader, child>>
    BY <1>10 DEF PumpEnd, object, processes, plumbing, streams, actions
  <2>2. pump[p][s] = "read" /\ written[p][s] = filed[p][s] /\ ~Holds(p)
    BY <1>10 DEF PumpEnd
  <2>3. \A q \in Launch, t \in Pipe :
          pump'[q][t] = IF q = p /\ t = s THEN "done" ELSE pump[q][t]
    BY <1>10 DEF TypeOK, PumpEnd
  <2>4. ASSUME NEW q \in Launch, NEW t \in Pipe PROVE Behind(q, t)'
    <3>1. /\ Behind(q, t) /\ written[q][t] \in Nat /\ filed[q][t] \in Nat /\ shown[q][t] \in Nat
      BY DEF Plumbed, TypeOK
    <3>2. CASE q = p /\ t = s
      BY <2>1, <2>2, <2>3, <3>1, <3>2 DEF Behind, Holds
    <3>3. CASE q = p /\ t # s
      BY <2>1, <2>2, <2>3, <3>1, <3>3 DEF Behind, Holds
    <3>4. CASE q # p
      BY <2>1, <2>2, <2>3, <3>1, <3>4 DEF Behind, Holds
    <3> QED
      BY <3>2, <3>3, <3>4
  <2>5. ASSUME NEW q \in Launch, Exited(q)' PROVE \A t \in Pipe : pump'[q][t] = "done"
    <3>1. \A t \in Pipe : pump[q][t] = "done"
      BY <2>1, <2>5 DEF Plumbed, Exited
    <3> QED
      BY <2>1, <2>2, <2>3, <3>1
  <2> QED
    BY <2>4, <2>5 DEF Plumbed
<1>11. ASSUME NEW r \in Request, StopUnknown(r) PROVE Plumbed'
  <2>1. UNCHANGED <<written, filed, shown, pump, leader, child, watcher>>
    BY <1>11 DEF StopUnknown, Silent, Ends, Acting, processes, plumbing
  <2> QED
    BY <2>1, PlumbedFrame
<1>12. ASSUME NEW r \in Request, StopIdle(r) PROVE Plumbed'
  <2>1. UNCHANGED <<written, filed, shown, pump, leader, child, watcher>>
    BY <1>12 DEF StopIdle, Silent, AfterStop, Ends, Acting, processes, plumbing
  <2> QED
    BY <2>1, PlumbedFrame
<1>13. ASSUME NEW r \in Request, StopRunning(r) PROVE Plumbed'
  <2>1. UNCHANGED <<written, filed, shown, pump, leader, child, watcher>>
    BY <1>13 DEF StopRunning, Acting, processes, plumbing
  <2> QED
    BY <2>1, PlumbedFrame
<1>14. ASSUME NEW r \in Request, StopTimeout(r) PROVE Plumbed'
  <2>1. UNCHANGED <<written, filed, shown, pump, watcher>>
    BY <1>14 DEF StopTimeout, KillGroup, Silent, Acting, processes, plumbing
  <2>2. KillGroup(target[r]) /\ target[r] \in 0 .. MaxLaunches /\ target[r] <= gen
    BY <1>14 DEF TypeOK, Launches, StopTimeout
  <2> QED
    BY <2>1, <2>2, KillKeeps, PlumbedFrame
<1>15. ASSUME NEW r \in Request, StopExited(r) PROVE Plumbed'
  <2>1. UNCHANGED <<written, filed, shown, pump, watcher>>
    BY <1>15 DEF StopExited, KillGroup, Silent, AfterStop, Ends, Acting,
              processes, plumbing
  <2>2. KillGroup(target[r]) /\ target[r] \in 0 .. MaxLaunches /\ target[r] <= gen
    BY <1>15 DEF TypeOK, Launches, StopExited
  <2> QED
    BY <2>1, <2>2, KillKeeps, PlumbedFrame
<1>16. ASSUME NEW r \in Request, StartUnknown(r) PROVE Plumbed'
  <2>1. UNCHANGED <<written, filed, shown, pump, leader, child, watcher>>
    BY <1>16 DEF StartUnknown, Silent, Ends, Acting, processes, plumbing
  <2> QED
    BY <2>1, PlumbedFrame
<1>17. ASSUME NEW r \in Request, StartRunning(r) PROVE Plumbed'
  <2>1. UNCHANGED <<written, filed, shown, pump, leader, child, watcher>>
    BY <1>17 DEF StartRunning, Silent, Ends, Acting, processes, plumbing
  <2> QED
    BY <2>1, PlumbedFrame
<1>18. ASSUME NEW r \in Request, StartLaunch(r) PROVE Plumbed'
  <2>1. UNCHANGED <<written, filed, shown>>
    BY <1>18 DEF StartLaunch, Acting, object, processes, plumbing, streams, actions
  <2>2. UNCHANGED <<leader, child, pump, watcher>> \/ Launched
    BY <1>18 DEF StartLaunch, LaunchFailed
  <2>3. CASE UNCHANGED <<leader, child, pump, watcher>>
    BY <2>1, <2>3, PlumbedFrame
  <2>4. CASE Launched
    BY <2>1, <2>4, LaunchedPlumbed
  <2> QED
    BY <2>2, <2>3, <2>4
<1>19. ASSUME NEW r \in Request, RemoveEntry(r) PROVE Plumbed'
  <2>1. UNCHANGED <<written, filed, shown, pump, leader, child, watcher>>
    BY <1>19 DEF RemoveEntry, Silent, Ends, Acting, processes, plumbing
  <2> QED
    BY <2>1, PlumbedFrame
<1>20. ASSUME NEW r \in Request, Subscribe(r) PROVE Plumbed'
  <2>1. UNCHANGED <<written, filed, shown, pump, leader, child, watcher>>
    BY <1>20 DEF Subscribe, Streaming, FirstStep, Streams, processes, plumbing
  <2> QED
    BY <2>1, PlumbedFrame
<1>21. ASSUME NEW r \in Request, CallUnwatched(r) PROVE Plumbed'
  <2>1. UNCHANGED <<written, filed, shown, pump, leader, child, watcher>>
    BY <1>21 DEF CallUnwatched, Streaming, FirstStep, processes, plumbing
  <2> QED
    BY <2>1, PlumbedFrame
<1>22. ASSUME NEW r \in Request, SelectEvent(r) PROVE Plumbed'
  <2>1. UNCHANGED <<written, filed, shown, pump, leader, child, watcher>>
    BY <1>22 DEF SelectEvent, SendNext, Streaming, InSelect, processes, plumbing
  <2> QED
    BY <2>1, PlumbedFrame
<1>23. ASSUME NEW r \in Request, SelectActed(r) PROVE Plumbed'
  <2>1. UNCHANGED <<written, filed, shown, pump, leader, child, watcher>>
    BY <1>23 DEF SelectActed, Goes, Streaming, InSelect, processes, plumbing
  <2> QED
    BY <2>1, PlumbedFrame
<1>24. ASSUME NEW r \in Request, SelectDeadline(r) PROVE Plumbed'
  <2>1. UNCHANGED <<written, filed, shown, pump, leader, child, watcher>>
    BY <1>24 DEF SelectDeadline, Goes, Streaming, processes, plumbing
  <2> QED
    BY <2>1, PlumbedFrame
<1>25. ASSUME NEW r \in Request, SelectGone(r) PROVE Plumbed'
  <2>1. UNCHANGED <<written, filed, shown, pump, leader, child, watcher>>
    BY <1>25 DEF SelectGone, Goes, Streaming, InSelect, processes, plumbing
  <2> QED
    BY <2>1, PlumbedFrame
<1>26. ASSUME NEW r \in Request, DrainEvent(r) PROVE Plumbed'
  <2>1. UNCHANGED <<written, filed, shown, pump, leader, child, watcher>>
    BY <1>26 DEF DrainEvent, SendNext, Streaming, processes, plumbing
  <2> QED
    BY <2>1, PlumbedFrame
<1>27. ASSUME NEW r \in Request, DrainEnd(r) PROVE Plumbed'
  <2>1. UNCHANGED <<written, filed, shown, pump, leader, child, watcher>>
    BY <1>27 DEF DrainEnd, Goes, Streaming, processes, plumbing
  <2> QED
    BY <2>1, PlumbedFrame
<1>28. ASSUME NEW r \in Request, Cancel(r) PROVE Plumbed'
  <2>1. UNCHANGED <<written, filed, shown, pump, leader, child, watcher>>
    BY <1>28 DEF Cancel, Streaming, processes, plumbing
  <2> QED
    BY <2>1, PlumbedFrame
<1>30. ASSUME NEW p \in Launch, NEW s \in Pipe, Chatter(p, s) PROVE Plumbed'
  <2>1. UNCHANGED <<written, filed, shown, pump, watcher, leader, child>>
    BY <1>30 DEF Chatter, processes, plumbing
  <2> QED
    BY <2>1, PlumbedFrame
<1>29. CASE UNCHANGED vars
  <2>1. UNCHANGED <<written, filed, shown, pump, leader, child, watcher>>
    BY <1>29 DEF vars, object, processes, plumbing, streams, actions
  <2> QED
    BY <2>1, PlumbedFrame
<1> QED
  BY <1>1, <1>2, <1>3, <1>4, <1>5, <1>6, <1>7, <1>8, <1>9, <1>10, <1>11,
     <1>12, <1>13, <1>14, <1>15, <1>16, <1>17, <1>18, <1>19, <1>20, <1>21,
     <1>22, <1>23, <1>24, <1>25, <1>26, <1>27, <1>28, <1>29, <1>30
     DEF Next, WatcherStep, PumpStep, ActionStep, Call, StreamStep

(***************************************************************************)
(* The invariant Owed survives a step that leaves the streams where they   *)
(* are and does not reopen an action.                                      *)
(***************************************************************************)
LEMMA OwedActs ==
    ASSUME Owed, Watched \subseteq Request, h' = h,
           \A q \in Watched : owed'[q] <= buf'[q] /\ (~Open(q) => owed'[q] = owed[q]),
           \A q \in Request : act'[q] = act[q] \/ act[q] \notin {"none", "ok", "error"}
    PROVE  Owed'
<1>1. ASSUME NEW q \in Request, h'[q] = "new" PROVE act'[q] = "none"
  BY <1>1 DEF Owed
<1>2. ASSUME NEW q \in Watched
      PROVE  /\ owed'[q] <= buf'[q]
             /\ h'[q] \in {"watch", "drain", "close"} => ~Open(q)'
             /\ h'[q] = "close" => owed'[q] = 0
  <2>1. q \in Request
    OBVIOUS
  <2>2. CASE h'[q] \in {"watch", "drain", "close"}
    BY <2>1, <2>2 DEF Owed, Open
  <2>3. CASE h'[q] \notin {"watch", "drain", "close"}
    BY <2>3
  <2> QED
    BY <2>2, <2>3
<1> QED
  BY <1>1, <1>2 DEF Owed

(***************************************************************************)
(* And one in which stream r goes from one step to the next.               *)
(***************************************************************************)
LEMMA OwedMoves ==
    ASSUME TypeOK, Owed, NEW r \in Request, NEW x, h' = [h EXCEPT ![r] = x], x # "new",
           \A q \in Request \ {r} : act'[q] = act[q],
           \A q \in Watched : /\ owed'[q] <= buf'[q]
                              /\ q # r => owed'[q] = owed[q],
           r \in Watched => /\ x \in {"watch", "drain", "close"} => ~Open(r)'
                            /\ x = "close" => owed'[r] = 0
    PROVE  Owed'
<1>1. \A q \in Request : h'[q] = IF q = r THEN x ELSE h[q]
  BY DEF TypeOK
<1>2. Watched \subseteq Request
  BY EventsAssumption
<1>3. ASSUME NEW q \in Request, h'[q] = "new" PROVE act'[q] = "none"
  BY <1>1, <1>3 DEF Owed
<1>4. ASSUME NEW q \in Watched
      PROVE  /\ owed'[q] <= buf'[q]
             /\ h'[q] \in {"watch", "drain", "close"} => ~Open(q)'
             /\ h'[q] = "close" => owed'[q] = 0
  <2>1. CASE q = r
    BY <1>1, <1>2, <2>1
  <2>2. CASE q # r
    BY <1>1, <1>2, <2>2 DEF Owed, Open
  <2> QED
    BY <2>1, <2>2
<1> QED
  BY <1>3, <1>4 DEF Owed

(***************************************************************************)
(* A stream takes what it is owed before it ends.                          *)
(***************************************************************************)
LEMMA NextOwed == TypeOK /\ Owed /\ [Next]_vars => Owed'
<1> SUFFICES ASSUME TypeOK, Owed, [Next]_vars PROVE Owed'
  OBVIOUS
<1>1. ASSUME NEW p \in Launch, Die(p) PROVE Owed'
  <2>1. UNCHANGED <<h, act, buf, owed>>
    BY <1>1 DEF Die, Outside, streams, actions
  <2>2. \A q \in Watched : owed'[q] <= buf'[q] /\ (~Open(q) => owed'[q] = owed[q])
    BY <2>1 DEF Owed
  <2> QED
    BY <2>1, <2>2, OwedActs, EventsAssumption
<1>2. ASSUME NEW p \in Launch, WatchClose(p) PROVE Owed'
  <2>1. UNCHANGED <<h, act, buf, owed>>
    BY <1>2 DEF WatchClose, Watching, Silent, streams, actions
  <2>2. \A q \in Watched : owed'[q] <= buf'[q] /\ (~Open(q) => owed'[q] = owed[q])
    BY <2>1 DEF Owed
  <2> QED
    BY <2>1, <2>2, OwedActs, EventsAssumption
<1>3. ASSUME NEW p \in Launch, WatchExit(p) PROVE Owed'
  <2>1. UNCHANGED <<h, act>>
    BY <1>3 DEF WatchExit, Watching, Silent, streams, actions
  <2>2. \A q \in Watched : owed'[q] <= buf'[q] /\ (~Open(q) => owed'[q] = owed[q])
    <3>1. Emit \/ UNCHANGED <<buf, owed>>
      BY <1>3 DEF WatchExit, Silent
    <3>2. CASE Emit
      BY <3>2, EmitKeeps
    <3>3. CASE UNCHANGED <<buf, owed>>
      BY <3>3 DEF Owed
    <3> QED
      BY <3>1, <3>2, <3>3
  <2> QED
    BY <2>1, <2>2, OwedActs, EventsAssumption
<1>4. ASSUME NEW p \in Launch, WatchStopped(p) PROVE Owed'
  <2>1. UNCHANGED <<h, act>>
    BY <1>4 DEF WatchStopped, Watching, streams, actions
  <2>2. \A q \in Watched : owed'[q] <= buf'[q] /\ (~Open(q) => owed'[q] = owed[q])
    <3>1. Emit \/ UNCHANGED <<buf, owed>>
      BY <1>4 DEF WatchStopped
    <3>2. CASE Emit
      BY <3>2, EmitKeeps
    <3>3. CASE UNCHANGED <<buf, owed>>
      BY <3>3 DEF Owed
    <3> QED
      BY <3>1, <3>2, <3>3
  <2> QED
    BY <2>1, <2>2, OwedActs, EventsAssumption
<1>5. ASSUME NEW p \in Launch, WatchCrashed(p) PROVE Owed'
  <2>1. UNCHANGED <<h, act, buf, owed>>
    BY <1>5 DEF WatchCrashed, Watching, Silent, streams, actions
  <2>2. \A q \in Watched : owed'[q] <= buf'[q] /\ (~Open(q) => owed'[q] = owed[q])
    BY <2>1 DEF Owed
  <2> QED
    BY <2>1, <2>2, OwedActs, EventsAssumption
<1>6. ASSUME NEW p \in Launch, TimerFires(p) PROVE Owed'
  <2>1. UNCHANGED <<h, act>>
    BY <1>6 DEF TimerFires, Launched, LaunchFailed, Silent, streams, actions
  <2>2. \A q \in Watched : owed'[q] <= buf'[q] /\ (~Open(q) => owed'[q] = owed[q])
    <3>1. Emit \/ UNCHANGED <<buf, owed>>
      BY <1>6 DEF TimerFires, Silent, Launched, LaunchFailed
    <3>2. CASE Emit
      BY <3>2, EmitKeeps
    <3>3. CASE UNCHANGED <<buf, owed>>
      BY <3>3 DEF Owed
    <3> QED
      BY <3>1, <3>2, <3>3
  <2> QED
    BY <2>1, <2>2, OwedActs, EventsAssumption
<1>7. ASSUME NEW p \in Launch, NEW s \in Pipe, Write(p, s) PROVE Owed'
  <2>1. UNCHANGED <<h, act, buf, owed>>
    BY <1>7 DEF Write, Outside, streams, actions
  <2>2. \A q \in Watched : owed'[q] <= buf'[q] /\ (~Open(q) => owed'[q] = owed[q])
    BY <2>1 DEF Owed
  <2> QED
    BY <2>1, <2>2, OwedActs, EventsAssumption
<1>8. ASSUME NEW p \in Launch, NEW s \in Pipe, PumpLine(p, s) PROVE Owed'
  <2>1. UNCHANGED <<h, act, buf, owed>>
    BY <1>8 DEF PumpLine, streams, actions
  <2>2. \A q \in Watched : owed'[q] <= buf'[q] /\ (~Open(q) => owed'[q] = owed[q])
    BY <2>1 DEF Owed
  <2> QED
    BY <2>1, <2>2, OwedActs, EventsAssumption
<1>9. ASSUME NEW p \in Launch, NEW s \in Pipe, PumpEmit(p, s) PROVE Owed'
  <2>1. UNCHANGED <<h, act>>
    BY <1>9 DEF PumpEmit, streams, actions
  <2>2. \A q \in Watched : owed'[q] <= buf'[q] /\ (~Open(q) => owed'[q] = owed[q])
    <3>1. Emit \/ UNCHANGED <<buf, owed>>
      BY <1>9 DEF PumpEmit
    <3>2. CASE Emit
      BY <3>2, EmitKeeps
    <3>3. CASE UNCHANGED <<buf, owed>>
      BY <3>3 DEF Owed
    <3> QED
      BY <3>1, <3>2, <3>3
  <2> QED
    BY <2>1, <2>2, OwedActs, EventsAssumption
<1>10. ASSUME NEW p \in Launch, NEW s \in Pipe, PumpEnd(p, s) PROVE Owed'
  <2>1. UNCHANGED <<h, act, buf, owed>>
    BY <1>10 DEF PumpEnd, streams, actions
  <2>2. \A q \in Watched : owed'[q] <= buf'[q] /\ (~Open(q) => owed'[q] = owed[q])
    BY <2>1 DEF Owed
  <2> QED
    BY <2>1, <2>2, OwedActs, EventsAssumption
<1>11. ASSUME NEW r \in Request, StopUnknown(r) PROVE Owed'
  <2>1. UNCHANGED <<h, buf, owed>>
    BY <1>11 DEF StopUnknown, Silent, Ends, Acting, streams
  <2>2. \A q \in Request : act'[q] = act[q] \/ act[q] \notin {"none", "ok", "error"}
    BY <1>11 DEF TypeOK, StopUnknown, Ends
  <2>3. \A q \in Watched : owed'[q] <= buf'[q] /\ (~Open(q) => owed'[q] = owed[q])
    BY <2>1 DEF Owed
  <2> QED
    BY <2>1, <2>2, <2>3, OwedActs, EventsAssumption
<1>12. ASSUME NEW r \in Request, StopIdle(r) PROVE Owed'
  <2>1. UNCHANGED <<h, buf, owed>>
    BY <1>12 DEF StopIdle, Silent, AfterStop, Ends, Acting, streams
  <2>2. \A q \in Request : act'[q] = act[q] \/ act[q] \notin {"none", "ok", "error"}
    <3>1. act[r] \notin {"none", "ok", "error"} /\ \E x : act' = [act EXCEPT ![r] = x]
      BY <1>12 DEF StopIdle, AfterStop, Ends
    <3> QED
      BY <3>1 DEF TypeOK
  <2>3. \A q \in Watched : owed'[q] <= buf'[q] /\ (~Open(q) => owed'[q] = owed[q])
    BY <2>1 DEF Owed
  <2> QED
    BY <2>1, <2>2, <2>3, OwedActs, EventsAssumption
<1>13. ASSUME NEW r \in Request, StopRunning(r) PROVE Owed'
  <2>1. UNCHANGED <<h>>
    BY <1>13 DEF StopRunning, Acting, streams
  <2>2. \A q \in Request : act'[q] = act[q] \/ act[q] \notin {"none", "ok", "error"}
    BY <1>13 DEF TypeOK, StopRunning, Ends
  <2>3. \A q \in Watched : owed'[q] <= buf'[q] /\ (~Open(q) => owed'[q] = owed[q])
    <3>1. Emit \/ UNCHANGED <<buf, owed>>
      BY <1>13 DEF StopRunning
    <3>2. CASE Emit
      BY <3>2, EmitKeeps
    <3>3. CASE UNCHANGED <<buf, owed>>
      BY <3>3 DEF Owed
    <3> QED
      BY <3>1, <3>2, <3>3
  <2> QED
    BY <2>1, <2>2, <2>3, OwedActs, EventsAssumption
<1>14. ASSUME NEW r \in Request, StopTimeout(r) PROVE Owed'
  <2>1. UNCHANGED <<h, buf, owed>>
    BY <1>14 DEF StopTimeout, KillGroup, Silent, Acting, streams
  <2>2. \A q \in Request : act'[q] = act[q] \/ act[q] \notin {"none", "ok", "error"}
    BY <1>14 DEF TypeOK, StopTimeout, Ends
  <2>3. \A q \in Watched : owed'[q] <= buf'[q] /\ (~Open(q) => owed'[q] = owed[q])
    BY <2>1 DEF Owed
  <2> QED
    BY <2>1, <2>2, <2>3, OwedActs, EventsAssumption
<1>15. ASSUME NEW r \in Request, StopExited(r) PROVE Owed'
  <2>1. UNCHANGED <<h, buf, owed>>
    BY <1>15 DEF StopExited, KillGroup, Silent, AfterStop, Ends, Acting, streams
  <2>2. \A q \in Request : act'[q] = act[q] \/ act[q] \notin {"none", "ok", "error"}
    <3>1. act[r] \notin {"none", "ok", "error"} /\ \E x : act' = [act EXCEPT ![r] = x]
      BY <1>15 DEF StopExited, AfterStop, Ends
    <3> QED
      BY <3>1 DEF TypeOK
  <2>3. \A q \in Watched : owed'[q] <= buf'[q] /\ (~Open(q) => owed'[q] = owed[q])
    BY <2>1 DEF Owed
  <2> QED
    BY <2>1, <2>2, <2>3, OwedActs, EventsAssumption
<1>16. ASSUME NEW r \in Request, StartUnknown(r) PROVE Owed'
  <2>1. UNCHANGED <<h, buf, owed>>
    BY <1>16 DEF StartUnknown, Silent, Ends, Acting, streams
  <2>2. \A q \in Request : act'[q] = act[q] \/ act[q] \notin {"none", "ok", "error"}
    BY <1>16 DEF TypeOK, StartUnknown, Ends
  <2>3. \A q \in Watched : owed'[q] <= buf'[q] /\ (~Open(q) => owed'[q] = owed[q])
    BY <2>1 DEF Owed
  <2> QED
    BY <2>1, <2>2, <2>3, OwedActs, EventsAssumption
<1>17. ASSUME NEW r \in Request, StartRunning(r) PROVE Owed'
  <2>1. UNCHANGED <<h, buf, owed>>
    BY <1>17 DEF StartRunning, Silent, Ends, Acting, streams
  <2>2. \A q \in Request : act'[q] = act[q] \/ act[q] \notin {"none", "ok", "error"}
    BY <1>17 DEF TypeOK, StartRunning, Ends
  <2>3. \A q \in Watched : owed'[q] <= buf'[q] /\ (~Open(q) => owed'[q] = owed[q])
    BY <2>1 DEF Owed
  <2> QED
    BY <2>1, <2>2, <2>3, OwedActs, EventsAssumption
<1>18. ASSUME NEW r \in Request, StartLaunch(r) PROVE Owed'
  <2>1. UNCHANGED <<h>>
    BY <1>18 DEF StartLaunch, Launched, LaunchFailed, Ends, Acting, streams
  <2>2. \A q \in Request : act'[q] = act[q] \/ act[q] \notin {"none", "ok", "error"}
    <3>1. act[r] = "start" /\ (Ends(r, "ok") \/ Ends(r, "error"))
      BY <1>18 DEF StartLaunch
    <3> QED
      BY <3>1 DEF TypeOK, Ends
  <2>3. \A q \in Watched : owed'[q] <= buf'[q] /\ (~Open(q) => owed'[q] = owed[q])
    <3>1. Emit \/ UNCHANGED <<buf, owed>>
      BY <1>18 DEF StartLaunch, Launched, LaunchFailed, Silent
    <3>2. CASE Emit
      BY <3>2, EmitKeeps
    <3>3. CASE UNCHANGED <<buf, owed>>
      BY <3>3 DEF Owed
    <3> QED
      BY <3>1, <3>2, <3>3
  <2> QED
    BY <2>1, <2>2, <2>3, OwedActs, EventsAssumption
<1>19. ASSUME NEW r \in Request, RemoveEntry(r) PROVE Owed'
  <2>1. UNCHANGED <<h, buf, owed>>
    BY <1>19 DEF RemoveEntry, Silent, Ends, Acting, streams
  <2>2. \A q \in Request : act'[q] = act[q] \/ act[q] \notin {"none", "ok", "error"}
    BY <1>19 DEF TypeOK, RemoveEntry, Ends
  <2>3. \A q \in Watched : owed'[q] <= buf'[q] /\ (~Open(q) => owed'[q] = owed[q])
    BY <2>1 DEF Owed
  <2> QED
    BY <2>1, <2>2, <2>3, OwedActs, EventsAssumption
<1>20. ASSUME NEW r \in Request, Subscribe(r) PROVE Owed'
  <2>1. UNCHANGED <<buf, owed>>
    BY <1>20 DEF Subscribe
  <2>2. \A q \in Request \ {r} : act'[q] = act[q]
    BY <1>20 DEF TypeOK, Subscribe
  <2>3. h' = [h EXCEPT ![r] = "loop"] \/ h' = [h EXCEPT ![r] = "refused"]
    BY <1>20 DEF Subscribe
  <2>4. \A q \in Watched : owed'[q] <= buf'[q] /\ owed'[q] = owed[q]
    BY <2>1 DEF Owed
  <2>5. CASE h' = [h EXCEPT ![r] = "loop"]
    BY <2>2, <2>4, <2>5, OwedMoves
  <2>6. CASE h' = [h EXCEPT ![r] = "refused"]
    BY <2>2, <2>4, <2>6, OwedMoves
  <2> QED
    BY <2>3, <2>5, <2>6
<1>21. ASSUME NEW r \in Request, CallUnwatched(r) PROVE Owed'
  <2>1. h' = [h EXCEPT ![r] = "plain"] /\ UNCHANGED <<buf, owed>>
    BY <1>21 DEF CallUnwatched
  <2>2. \A q \in Request \ {r} : act'[q] = act[q]
    BY <1>21 DEF TypeOK, CallUnwatched
  <2>3. \A q \in Watched : owed'[q] <= buf'[q] /\ owed'[q] = owed[q]
    BY <2>1 DEF Owed
  <2> QED
    BY <2>1, <2>2, <2>3, OwedMoves
<1>22. ASSUME NEW r \in Request, SelectEvent(r) PROVE Owed'
  <2>1. UNCHANGED <<h, act>>
    BY <1>22 DEF SelectEvent, SendNext, Streaming
  <2>2. \A q \in Watched : owed'[q] <= buf'[q] /\ (owed[q] = 0 => owed'[q] = 0)
    BY <1>22, SendNextType DEF SelectEvent
  <2> QED
    BY <2>1, <2>2 DEF Owed, Open
<1>23. ASSUME NEW r \in Request, SelectActed(r) PROVE Owed'
  <2>1. UNCHANGED <<buf, owed, act>> /\ ~Open(r)
    BY <1>23 DEF SelectActed, Goes
  <2>2. h' = [h EXCEPT ![r] = "drain"] \/ h' = [h EXCEPT ![r] = "watch"]
    BY <1>23 DEF SelectActed, Goes
  <2>3. ~Open(r)' /\ \A q \in Watched : owed'[q] <= buf'[q] /\ owed'[q] = owed[q]
    BY <2>1 DEF Owed, Open
  <2>4. CASE h' = [h EXCEPT ![r] = "drain"]
    BY <2>1, <2>3, <2>4, OwedMoves
  <2>5. CASE h' = [h EXCEPT ![r] = "watch"]
    BY <2>1, <2>3, <2>5, OwedMoves
  <2> QED
    BY <2>2, <2>4, <2>5
<1>24. ASSUME NEW r \in Request, SelectDeadline(r) PROVE Owed'
  <2>1. h[r] = "watch" /\ h' = [h EXCEPT ![r] = "drain"] /\ UNCHANGED <<buf, owed, act>>
    BY <1>24 DEF SelectDeadline, Goes
  <2>2. r \in Watched => ~Open(r)'
    BY <2>1, EventsAssumption DEF TypeOK, Owed, Open
  <2>3. \A q \in Watched : owed'[q] <= buf'[q] /\ owed'[q] = owed[q]
    BY <2>1 DEF Owed
  <2> QED
    BY <2>1, <2>2, <2>3, OwedMoves
<1>25. ASSUME NEW r \in Request, SelectGone(r) PROVE Owed'
  <2>1. h' = [h EXCEPT ![r] = "leave"] /\ UNCHANGED <<buf, owed, act>>
    BY <1>25 DEF SelectGone, Goes
  <2>2. r \in Watched => owed'[r] = owed[r]
    BY <2>1, EventsAssumption DEF TypeOK, Owed, Open
  <2>3. \A q \in Watched : owed'[q] <= buf'[q] /\ owed'[q] = owed[q]
    BY <2>1 DEF Owed
  <2> QED
    BY <2>1, <2>2, <2>3, OwedMoves
<1>26. ASSUME NEW r \in Request, DrainEvent(r) PROVE Owed'
  <2>1. UNCHANGED <<h, act>>
    BY <1>26 DEF DrainEvent, SendNext, Streaming
  <2>2. \A q \in Watched : owed'[q] <= buf'[q] /\ (owed[q] = 0 => owed'[q] = 0)
    BY <1>26, SendNextType DEF DrainEvent
  <2> QED
    BY <2>1, <2>2 DEF Owed, Open
<1>27. ASSUME NEW r \in Request, DrainEnd(r) PROVE Owed'
  <2>1. h[r] = "drain" /\ buf[r] = 0 /\ h' = [h EXCEPT ![r] = "close"] /\ UNCHANGED <<buf, owed, act>>
    BY <1>27 DEF DrainEnd, Goes
  <2>2. r \in Watched => ~Open(r)' /\ owed'[r] = 0
    BY <2>1, EventsAssumption DEF TypeOK, Owed, Open
  <2>3. \A q \in Watched : owed'[q] <= buf'[q] /\ owed'[q] = owed[q]
    BY <2>1 DEF Owed
  <2> QED
    BY <2>1, <2>2, <2>3, OwedMoves
<1>28. ASSUME NEW r \in Request, Cancel(r) PROVE Owed'
  <2>1. act' = act /\ buf' = [buf EXCEPT ![r] = 0] /\ owed' = [owed EXCEPT ![r] = 0]
    BY <1>28 DEF Cancel
  <2>2. h' = [h EXCEPT ![r] = "done"] \/ h' = [h EXCEPT ![r] = "gone"]
    BY <1>28 DEF Cancel
  <2>3. \A q \in Watched : owed'[q] <= buf'[q] /\ (q # r => owed'[q] = owed[q])
    <3>1. ASSUME NEW q \in Watched PROVE owed'[q] <= buf'[q] /\ (q # r => owed'[q] = owed[q])
      <4>1. CASE q = r
        BY <2>1, <4>1 DEF TypeOK
      <4>2. CASE q # r
        BY <2>1, <4>2 DEF TypeOK, Owed
      <4> QED
        BY <4>1, <4>2
    <3> QED
      BY <3>1
  <2>4. CASE h' = [h EXCEPT ![r] = "done"]
    BY <2>1, <2>3, <2>4, OwedMoves
  <2>5. CASE h' = [h EXCEPT ![r] = "gone"]
    BY <2>1, <2>3, <2>5, OwedMoves
  <2> QED
    BY <2>2, <2>4, <2>5
<1>30. ASSUME NEW p \in Launch, NEW s \in Pipe, Chatter(p, s) PROVE Owed'
  <2>1. UNCHANGED <<h, act>>
    BY <1>30 DEF Chatter, actions
  <2>2. \A q \in Watched : owed'[q] <= buf'[q] /\ (~Open(q) => owed'[q] = owed[q])
    BY <1>30, EmitKeeps DEF Chatter
  <2> QED
    BY <2>1, <2>2, OwedActs, EventsAssumption
<1>29. CASE UNCHANGED vars
  <2>1. UNCHANGED <<h, act, buf, owed>>
    BY <1>29 DEF vars, streams, actions
  <2> QED
    BY <2>1 DEF Owed, Open
<1> QED
  BY <1>1, <1>2, <1>3, <1>4, <1>5, <1>6, <1>7, <1>8, <1>9, <1>10, <1>11,
     <1>12, <1>13, <1>14, <1>15, <1>16, <1>17, <1>18, <1>19, <1>20, <1>21,
     <1>22, <1>23, <1>24, <1>25, <1>26, <1>27, <1>28, <1>29, <1>30
     DEF Next, WatcherStep, PumpStep, ActionStep, Call, StreamStep

(***************************************************************************)
(* The inductive invariant holds in every reachable state.                 *)
(***************************************************************************)
THEOREM Invariant == Spec => []IInv
<1>1. IInv /\ [Next]_vars => IInv'
  BY NextType, NextLaunches, NextPlumbed, NextOwed DEF IInv
<1> QED
  BY InitIInv, <1>1, PTL DEF Spec

(***************************************************************************)
(* Every variable keeps its type, a channel its size.                      *)
(***************************************************************************)
THEOREM TypeCorrect == Spec => []TypeOK
<1>1. IInv => TypeOK
  BY DEF IInv
<1> QED
  BY Invariant, <1>1, PTL

(***************************************************************************)
(* The exit event follows all output, and the next launch the exit event   *)
(* (pump, launchLocked).                                                   *)
(***************************************************************************)
THEOREM ExitComesLast == Spec => []ExitAfterOutput
<1>1. IInv => ExitAfterOutput
  <2> SUFFICES ASSUME IInv, NEW p \in Launch
               PROVE  /\ watcher[p] \in {"exit", "done"} => shown[p] = written[p] /\ ~Holds(p)
                      /\ p < gen => watcher[p] \in {"exit", "done"}
    BY DEF ExitAfterOutput
  <2>1. ASSUME watcher[p] \in {"exit", "done"} PROVE shown[p] = written[p] /\ ~Holds(p)
    <3>1. \A s \in Pipe : pump[p][s] = "done"
      BY <2>1 DEF IInv, Plumbed, Exited
    <3>2. \A s \in Pipe : filed[p][s] = shown[p][s] /\ filed[p][s] = written[p][s] /\ ~Holds(p)
      BY <3>1 DEF IInv, TypeOK, Plumbed, Behind
    <3>3. shown[p] \in [Pipe -> Nat] /\ written[p] \in [Pipe -> Nat]
      BY DEF IInv, TypeOK
    <3> QED
      BY <3>2, <3>3, EventsAssumption
  <2> QED
    BY <2>1 DEF IInv, Launches
<1> QED
  BY Invariant, <1>1, PTL

(***************************************************************************)
(* "complete" comes after every event the stream was owed (streamAction).  *)
(***************************************************************************)
THEOREM StreamsAreWhole == Spec => []StreamIsWhole
<1>1. IInv => StreamIsWhole
  BY DEF IInv, Owed, StreamIsWhole
<1> QED
  BY Invariant, <1>1, PTL

=============================================================================

