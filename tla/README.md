# A TLA+ model of spritzer

spritzer emulates the Sprites API: a *sprite* is a small machine with a file system,
commands, background services and checkpoints, and clients drive it over HTTP and
WebSocket. It has two modes. The *interpreter* keeps every sprite in memory and
understands a handful of commands; *container mode* makes each sprite a Docker
container or a Kubernetes pod, in which spritzer's own binary runs as the *agent* and
supervises the services.

This directory holds TLA+ modules translated from the Go source, TLC configurations
that check them on small instances, and TLAPS proofs of the properties that should
hold for every instance.

## 1. Inventory

| component | source | state it keeps | operations |
|---|---|---|---|
| service supervisor | `internal/agent/services.go`, handlers in `agent/server.go` | the map name -> service, each service's definition, `wantRunning`, `gen`, `cmd`/`exited`, restart timer; one definition file per service; the processes | PUT, start, stop, restart, delete, signal; waiting for a process; the restart timer; boot; StopAll |
| event streams and logs | `services.go` pump, emitLocked, Subscribe, `server.go` streamAction, serviceLogs | subscribers with a buffer of 256 events, the log file | pump a line, emit, subscribe, drain, tail |
| agent tasks | `agent/server.go` taskTable | task name -> start and expiry | put, list, delete |
| agent tools | `agent/tools.go`, `spriteenv.go` | a pid file per exec | x-exec, x-kill, x-forget, x-relay, x-fs, sprite-env |
| sprite store | `internal/sprite/sprite.go`, `config.go` | id -> sprite: status, files, checkpoints, policy, services, tasks | create, exec, write, remove, checkpoint, restore, destroy, get, and the config operations |
| interpreter commands | `internal/sprite/exec.go` | none (works on a sprite's files) | one step per segment of the command line |
| interpreter sessions | `internal/server/ws.go` | one WebSocket per exec | frames out, stdin echoed or drained, exit frame |
| sprite registry of container mode | `internal/server/real.go` | the store's record of each sprite, pooled transports | create, list, get, destroy, Adopt after a restart |
| container runtimes | `internal/runtime/*.go` | none of their own: the daemon's containers, the cluster's pods; the agent volume (once) | Create, Delete, List, Exec, waiting for the agent |
| exec sessions of container mode | `real.go` realExec with `tools.go` | a process, two output pumps, a stdin reader, a pid file | run, finish, client leaves, kill, forget |
| file API of container mode | `real.go` fsRun and its handlers, `runtime.go` Run, `tools.go` x-fs | the files in the sprite; a temporary file per write | write, read, delete, recursive delete, list |
| connections into a sprite | `runtime.go` Dial and execConn, `docker.go` demux, `kube.go` read and kubeStdin, `tools.go` x-relay | an exec stream and a socket, two pipes, five goroutines | Dial, Read, Write, CloseWrite, Close |
| fake clock, identifiers | `internal/clock`, `internal/id` | time and timers | AfterFunc, Advance, Stop |
| HTTP surface, command line | `server/server.go`, `server/config.go`, `cmd/spritzer/main.go` | none | routing, JSON, flags |

**Interactions.** A handler goroutine of spritzer calls the store under the store's
mutex, or the runtime backend, which talks to an external daemon. In container mode
the registry (the store) and the daemon are two copies of one truth, read and written
in separate steps. Requests about services are forwarded to the agent, whose handlers
call the supervisor; the supervisor starts processes, a goroutine per process waits
for it, and a timer per crash restarts it. The agent dies with its container and comes
back from the definition files.

**What is hard.** In the supervisor: one mutex that Define, Stop, Restart and Delete
release between their parts; pointers to services kept across those gaps; a watcher
and a timer per process that run late; a crash between two steps. In the registry:
every operation is two or three calls with nothing held between them. In exec
sessions: three goroutines, a remote process and a client that may leave. In the event
streams: a watcher that holds the mutex while a Stop waits without it, channels that
are never waited for, and a select that takes what it likes. In the file API:
processes that share only a directory. In connections: a chain of places that each
make the one before wait. In the store: no interleaving inside an operation (one
mutex), but values that leave it must not share memory with it.

**What makes each component correct.** *Supervisor*: a service has at most one
process; a process nobody wants is being stopped; a crash is followed by a restart
unless the service is stopped; the reported status is true; the registry's rules (one
HTTP port, needs closed and acyclic) survive every sequence of requests; files and
memory agree; every request returns. *Store*: it behaves as a store of values: a
checkpoint never changes, a reply shows one instant. *Registry*: a created sprite is
known, a destroyed one stays gone. *Exec*: a command whose client left does not run
on; an exit code is that command's. *Events*: an exit event comes after all output; a
stream that says complete has everything it was owed; a client that does not read
holds up nobody. *File API*: a path is a register, however many requests use it.
*Connections*: nothing in flight is lost by closing one half; what was opened ends.

## 2. Plan

1. **Supervisor** (`Needs`, `Supervisor`, `MCSupervisor`, `SupervisorProofs`): done,
   see below.
2. **Store** (`Files`, `SpriteStore`, `Store`, `StoreProofs`): done; the abstract
   store of values, the store of shared maps, and the refinement, checked and proved.
3. **Registry and runtimes** (`Containers`, `ContainersProofs`): done; create, list,
   destroy and adoption against the daemon or the cluster, Docker and Kubernetes.
4. **Exec sessions** (`ExecSession`, `ExecSessionProofs`): done; realExec with x-exec,
   x-kill, x-forget on either runtime.
5. **Event streams** (`Events`, `EventsProofs`): done; one service with its pumps, its
   watcher, its timer and the requests that stream it.
6. **File API** (`FileRegister`, `FileApi`, `FileApiProofs`): done; the register, the
   implementation, and the refinement, checked and proved.
7. **Connections** (`Relay`, `RelayProofs`): done; Dial to x-relay on every runtime.
8. **Interpreter sessions** (`Session`, `SessionProofs`): done.
9. **Service lifecycle** as an abstract specification that the supervisor implements:
   left.

Proofs worth having, in this order: the supervisor's inductive invariant (done);
NoSharing and the refinement for the store (done); the registry's agreement with the
runtime and what its requests answer (done); the rules of the supervisor's registry
while one request at a time changes it, and the order of a start (done); what an exec session sends and leaves behind (done); what
comes before an exit event and before the end of a stream (done); the conservation of
chunks in a connection (done); the register of the file API (done); the frames of a
session (done); the abstract lifecycle.

## 3. The modules

### Supervisor (`Needs`, `Supervisor`)

`Needs` holds the two recursive walks of the `needs` graph as recursive functions:
`HasCycle` (hasCycle), which takes a name out of its set on the way back, a function of
the name and the path to it; and `StartWalk` (startLocked), which does not, a function
of the call's name, the place in its list of needs and the names visited so far. Both
return what the code's calls return. `Acyclic` is an independent reference definition:
among any of the names there is one that needs none of them; `IsTree` says that the
needs below a name form a tree.

`Supervisor` is the state machine. The mutex is not a variable: an action *is* one
critical section, and what a goroutine remembers from one to the next is in its thread
record.

| state | code |
|---|---|
| `services[n]` | the map entry of `n`: which of the objects created for that name, 0 for none |
| `obj[<<n, k>>]` | the k-th `service` object of that name: definition, status, error, `cmd` (`pid`), `wantRunning`, `gen`; history: its last launch got no pipes (`noPipe`) |
| `disk[n]` | the file `<name>.json`; `Torn` is one that does not parse |
| `meant`, `lost` | history: the files, had every write and removal since boot succeeded; has the agent gone down with files other than that |
| `live`, `gone` | processes that run; processes that ended and whose `exited` is not closed yet |
| `timers` | pending `time.AfterFunc` restarts |
| `th[t]` | a request's goroutine, or StopAll's goroutine for a name: the critical section it enters next, Define's `old`, Stop's `cmd` |
| `phase` | the agent is up, in StopAll, or down |

| action | code |
|---|---|
| `DefineCheck`, `DefineInsert`, `DefineInstall` | Define up to the first unlock with the file written; the insertion of a new service; `old.def = def` after the Stop of an existing one. The write may fail (`FileFault`): the PUT returns the error, memory keeps what it had, and the file is the old one, torn, or the new one |
| `Start` | Start / startLocked / launchLocked for the service and its needs, any of which (`Fragile`) may fail: at exec, which `Launched` records, or at its pipes (services.go:311-318), of which the code records nothing |
| `StopBegin`, `StopKill`, `StopReturn` | Stop: SIGTERM and unlock; SIGKILL at the timeout; `<-exited`. `StopThen` is what the caller does next (Restart, Delete, Define) |
| `DeleteCheck`, `DeleteRemove`, `Signal` | Delete's two sections, Signal. `Forget`: the error of removing the file is ignored, so the file may stay |
| `Exit`, `Watch`, `Fire` | a process ends; the goroutine that waits for it; the restart timer |
| `AgentDies`, `AgentDiesWriting`, `Shutdown`, `RunReturns`, `Boot` | SIGKILL of the agent, the same inside `os.WriteFile`, SIGTERM with StopAll, its end, NewSupervisor |

Within one Start, and within one boot, the launches of a name all fail or all succeed
(one set `broken` for the walk); only the walk that meets a name again could tell.
`Spoiled` are the names whose file is not as meant: a write or a removal failed since
the last that succeeded.

An object keeps its identity because the code keeps pointers over an unlock: a restart
timer, a watcher or a PUT may act on an object that the map no longer holds.

### Store (`Files`, `SpriteStore`, `Store`)

`SpriteStore` is what `docs/fidelity.md` promises: sprites are values, a checkpoint is
the value the files had, a restore brings one back, a reply shows one instant,
configuration and files do not touch one another. What a command does to files is a
parameter there.

`Store` is the code. Each method is one action, since it holds the mutex from
beginning to end. A Go map is a reference, exec writes into it in place, and the reply
to a GET is encoded after the mutex is released; so file maps are references (`Ref`)
into a `heap`, `Clone`/`Copied` is cloneFS, and `view[c]` is a View that a handler has
and has not written yet. Destroy marks the record; `Live` is live(). The policy, the
services and the tasks are given out by value, and are values: a Service's `Args` and
`Env` are shared by shallow copies but never written to. `RefreshTask` without a new
expiry leaves the state as it is. The `policy` argument of Create is stored and never
read, and is left out, as are comments and timestamps.

`Files` holds the pure part: a path is the sequence of its names, a file system a
function from the paths that exist to contents; `Do` is one segment of execInto, `Run`
the whole command line, `Below` the prefix test of Remove.

`Implements` maps `Store` to `SpriteStore` by reading every reference through the heap
and taking a destroyed sprite as absent.

### Registry and runtimes (`Containers`)

A request of container mode is a series of calls, some to the daemon or the cluster
and some to the store, with nothing held in between. An action is one such call, and a
thread's label names the call its goroutine makes next; the store's Get and Create are
separate actions wherever the code makes them separate calls.

| state | code |
|---|---|
| `kind` | which `runtime.Backend` newRuntime chose |
| `container[n]` | what the daemon or the cluster holds for a name: nothing, created (or pending), running, running with an agent that answers, terminating |
| `record[n]` | the store's record: none or destroyed, plain, with a network policy |
| `volume`, `once` | Docker's agent volume, which outlives spritzer; `prepOnce` with `prepErr` |
| `pool[n]` | is there a pooled transport to the sprite |
| `th[c]` | a request: its next call, its sprite, the answer settled so far, realList's names |
| `disturbed`, `calm`, `ended` | history, for the properties: did requests overlap or something fail; did this request run alone and undisturbed; was a DELETE answered 200 with no create since |

| action | code |
|---|---|
| `Begin` | a request arrives |
| `Prepare`, `Fill`, `Inspect`, `CreateContainer`, `StartContainer` | Docker.Create, call by call; prepare waits in the sync.Once |
| `Post`, `Poll` | Kubernetes.Create: a conflict is fine, a terminating pod is an error |
| `Ping`, `Look`, `Record` | waitForAgent; realCreate's Get and Create |
| `Lookup`, `Delete`, `Gone`, `Forget`, `Unrecord` | realDestroy: Get, the backend's Delete with its wait, the transports, the store's Destroy |
| `List`, `Each`, `Add` | realList: the backend's List, then Get and Create for each name |
| `SetPolicy`; `KnownSprite`, `Transport` | setPolicy; a proxied request |
| `GiveUp` | a wait ends at its timeout, or at a pod's state that will not resolve itself |
| `Fault` | a call fails, before or after it took effect, and what each caller makes of that |
| `Runtime`, `Outside` | external: containers start, agents answer and end, pods go; somebody stops or removes a container |
| `Restart` | spritzer is killed and starts again: New, then Adopt, which may fail |

The daemon and the cluster are modelled from how the code uses them: Docker answers
409 for a name in use and 304 or 404 for a start that is none, Kubernetes deletes in
two steps and does not accept a pod whose name is still there.

### Exec sessions (`ExecSession`)

One session: realExec on the host with its goroutines, the stream the runtime gives
it, and the processes in the sprite. One is enough, since sessions share nothing: the
pid file carries the session's id. What is interleaved is inside a session.

| state | code |
|---|---|
| `kind`, `wantStdin` | the runtime; the query's `stdin` |
| `h`, `answer`, `exit` | where realExec is (rt.Exec, Accept, the select, Wait, the exit frame); the code Wait gave; the exit frame that was written |
| `pump[s]`, `sent[s]` | the goroutine of stdout or stderr: it reads, has a chunk to write, drains, is done; the chunks it wrote |
| `reader`, `open`, `inbox`, `frames` | the goroutine that reads the client; stdinOpen; the client's frames |
| `leader`, `code`, `child`, `closed`, `produced[s]` | x-exec and then the command, its exit code, a process of its group, whether it closed its outputs, the chunks written |
| `eof`, `wire[s]` | the runtime's stream: open, ended, broken; the chunks under way |
| `file` | the pid file: none, made and empty, whole |
| `killer`, `forgetter` | killExec with x-kill, forgetExec with x-forget |
| `found`, `late` | history: x-kill read a pid; the command itself had begun when realExec asked for x-kill |

| action | code |
|---|---|
| `Exec`, `Accept`, `AcceptFails` | rt.Exec; websocket.Accept, which starts the goroutines, or refuses a client that is there (its origin, its headers) or finds it gone; the command has been started by then |
| `SelectOut`, `SelectGone` | the select: the outputs are done, or the client is gone and killExec is called |
| `Wait`, `Exit` | proc.Wait with the code put in a byte, and forgetExec; the exit frame. `Return` is the deferred proc.Close |
| `Deliver`, `PumpWrite`, `PumpEnd` | demux and read, which hand a chunk to its pump; a write to the client, which may fail when its connection ended; the end of a pump |
| `Disconnect` | the connection ends: the client leaves, SIGTERM cancels the contexts of all requests (main.go:90, 115), or a frame is over 16 MiB (real.go:339) |
| `ReadFrame`, `ReadFails`, `StdinTaken`, `StdinFails` | the goroutine that reads the client: a frame, the end, a write to stdin that waits, or fails |
| `XExec`, `Die` | x-exec: the file made, written, the command executed; the process ends, at any step |
| `KillRead`, `KillSees`, `KillHard`, `Forget` | x-kill: the file read and removed, the leader gone, SIGKILL; x-forget |
| `Send`; `Fork`, `ChildDies`, `CloseOutputs`, `Produce`; `StreamEnds` | external: the client; the command; the daemon or the kubelet |
| `Fault` | rt.Exec fails before or after x-exec started, the stream breaks, Docker's inspection fails, x-kill or x-forget is not run |

Docker's Wait asks the daemon fifty times whether the process ended, and has no code
otherwise; Kubernetes' has the status that comes with the end of the stream, or an
error. Output is counted in chunks: demux is serial, so the order between the two
streams is kept by the code and dropped by the model.

### Event streams (`Events`)

One service that needs no other, and what its processes write. `Supervisor` has the
states of many services and treats a critical section as one action; here the watcher
holds the mutex over several (`mu`), because it closes `exited`, on which a Stop waits
without the mutex, before it sends events into channels that are read without it.

| state | code |
|---|---|
| `mu` | the launch whose watcher holds the supervisor's mutex, or 0 |
| `defined`, `want`, `cmd`, `gen` | the entry of the map, wantRunning, the launch that runs, the last launch |
| `leader`, `child`, `written` | per launch: the process; a descendant that holds its pipes, in or out of the process group; lines written |
| `filed`, `shown`, `pump` | per launch and pipe: lines in the log file, lines emitted, the goroutine of pump |
| `watcher`, `timer` | per launch: the goroutine that waits, the restart timer |
| `kind`, `act`, `target` | what a request asks for; the goroutine of its action with the outcome; the launch its Stop waits for |
| `h`, `subs`, `buf`, `client` | streamAction; s.subs; the events in each channel; does the client stay and read |
| `owed` | history: events in the channel that came before the outcome |

| action | code |
|---|---|
| `Write`, `Die` | external: a line is written; the process or its descendant ends |
| `Chatter` | a line that is written, filed and emitted without being counted (`Write`, `PumpLine` and `PumpEmit` in one), so that a service may write without end |
| `PumpLine`, `PumpEmit`, `PumpEnd` | pump: the log file, emitLocked under the mutex, the end of the pipe |
| `WatchClose`, `WatchExit`, `WatchStopped`, `WatchCrashed` | the goroutine of launchLocked: pipes.Wait, cmd.Wait, close(exited); exit event or a stale generation; the stopped event; the timer |
| `TimerFires` | the callback of the restart timer (services.go:369-378) |
| `StopUnknown`, `StopIdle`, `StopRunning`, `StopTimeout`, `StopExited` | Stop, from its checks to `<-exited` and the last SIGKILL |
| `StartUnknown`, `StartRunning`, `StartLaunch`, `RemoveEntry` | Start, whose launch may fail with an error event, or without one at its pipes (`LaunchFailed`); the end of Delete |
| `Subscribe`, `CallUnwatched` | the beginning of streamAction; a request whose stream nobody looks at |
| `SelectEvent`, `SelectActed`, `SelectDeadline`, `SelectGone` | the select |
| `DrainEvent`, `DrainEnd`, `Cancel` | the drain and the complete line; the deferred cancel |

### File API (`FileRegister`, `FileApi`)

`FileRegister` is what the API promises for one path: a register in which each request
takes effect at once, between its call and its reply. `FileApi` is the code: a request
runs x-fs over an exec stream that may break; a write copies stdin to a temporary file
in the directory and renames it; a recursive delete empties the directory entry by
entry. A file is an inode named by the request that made it, so what another request
does to its name leaves its content alone.

| state | code |
|---|---|
| `dir`, `file`, `size`, `temp` | the directory, the inode at the path, the chunks in each inode, the temporary files |
| `x`, `code`, `seen` | per request: the next step of x-fs, its exit code, the inode a read opened |
| `unsaved` | history: writes whose temporary file could not be closed; the code drops that error |
| `stream`, `answer`, `body` | per request: the exec stream, the handler's status, the chunks a read gave |

| action | code |
|---|---|
| `Run` | fsRun: the exec |
| `MkdirAll`, `CreateTemp`, `CopyChunk`, `CopyEnds`, `Rename` | x-fs write, whose stdin ends when the host closes it or the stream breaks |
| `OpenFile`, `SendOut` | x-fs read |
| `Lstat`, `RemoveFile`, `EmptyDir`, `RmDir` | x-fs delete, plain and recursive (os.RemoveAll) |
| `AnswerCode`, `AnswerBroken` | Wait's code and the status; no code |
| `Fault` | the exec is refused; the stream breaks; Docker's inspection fails (docker.go:356); a step of x-fs fails (`StepFails`, which is every error path of FS, with the removal of the temporary file); the error of Close is dropped and a part is missing (`CloseFails`); x-fs is killed, with 137 for an exit code |

`Implements` maps a request to `called` once it runs, to `done`, `missed` or `failed`
when x-fs renames, opens, removes or exits; the value of the register is the inode at
the path, and an inode that is still being written would map to no value at all.

### Connections into a sprite (`Relay`)

One connection that realProxy's transports use: Dial, the methods of execConn, the
goroutine that splits the exec's output (demux of Docker, read of Kubernetes), the one
that Dial starts to discard stderr, and the two copies of x-relay. Every place on the
way holds `Cap` chunks at most, or none (the pipes of the host), so that who does not
read makes the one before it wait. Chunks are counted: no place changes their order.

| state | code |
|---|---|
| `conn`, `writer`, `fin`, `wrote`, `got`, `end` | execConn: open or a step of Close; a Write under way; stdin closed; what was written and read |
| `stream`, `up`, `upEnd`, `down`, `errs` | the exec's stream with stdin, stdout and stderr under way |
| `relay`, `in`, `out` | x-relay: dialling, joined, ended, aborted; its copies to and from the server |
| `req`, `reqEnd`, `resp`, `respEnd`; `read`, `sawEnd`, `served` | the socket; the server (external) |
| `demux`, `discard` | the goroutine that splits, with its chunk; the one for stderr |

| action | code |
|---|---|
| `Dial`, `DialFails`, `Write`, `WriteTaken`, `WriteFails`, `CloseWrite` | Dial and execConn's methods; a Write waits for room |
| `Close`, `CloseStdin`, `CloseStream` | Close: first stdin, then the stream. `StdinCloses` has kubeStdin's mutex, and protocol v4, which has no end of stdin |
| `ReadChunk`, `ReadEnd`, `Split`, `SplitEnd`, `Discard` | Read; the splitting goroutine; stderr |
| `Join`, `GiveUp`, `CopyIn`, `CopyInEnd`, `CopyOut`, `CopyOutEnd`, `CopyOutFails` | x-relay: the dial and its five seconds; the copies; the half-close at the end of stdin; the exit at the end of the response |
| `Abort` | the server resets the connection, whose error line 192 drops, or x-relay is killed |
| `Receive`, `Respond`, `Finish`, `Break` | external: the server; the stream breaks |

### Interpreter sessions (`Session`)

One WebSocket of execSpriteWS, where no process exists: the store runs the command
line at once. `h` is the handler, `toServer` and `toClient` the frames under way (at
most `Cap` each), `got` what the client has. `Upgrade`, `Exec`, `Say`, `SaidAll`,
`WriteExit`, `WriteClose`, `WriteFails` are the handler's steps, `EchoFrame` and
`EchoEnd` echoStdinUntilEOF, `DrainFrame` and `DrainFails` drainStdin. The client
(external) sends stdin, its end and frames after it, reads all the time or only when
it has sent everything, and may leave. `Cut` ends the connection from this side: a frame
over the library's default limit of 32 KiB (ws.go sets none), or SIGTERM, which cancels
the context of the request; the close frame the library may then write is left out.

## 4. What the runs check

| run | instance | what it shows |
|---|---|---|
| `sup_serial` | 2 services, 1 client, 5 requests, a crash, a restart of the agent, a write or removal of a file that fails or is torn by the agent's death | the registry's rules after any sequence of requests: one port, needs closed and acyclic (`NeedsSound`), files equal to memory, no process without a service, boot starts exactly the services whose needs form a tree (`BootStartsTrees`) |
| `sup_threads` | 2 services, 2 clients, 4 requests, a crash | the process rules under every interleaving of critical sections: one process per object, an unwanted process has a Stop waiting for it, a crash is not forgotten, the status is true, no launch nobody asked for, needs before dependants |
| `sup_fair` | 1 service, 2 clients, 3 requests, a crash, a file fault, the agent dying or stopping | every request returns; a crashed service is launched again |
| `store` | 2 sprites, 2 readers, 5 calls, 2 checkpoints each | nothing shares memory, checkpoints are frozen, the store implements the store of values |
| `containers` | both runtimes, 2 sprites, 2 clients, 3 requests, a failure, a restart of spritzer | records and containers agree after requests that came one at a time; no Docker sprite before the agent volume is filled; what an undisturbed create and DELETE leave behind, from any state that faults, overlaps and restarts produce; every request is answered |
| `exec` | both runtimes, with and without stdin, a chunk per stream, a frame of stdin, a child process, a failure | the exit frame comes after all output and has the command's code; the command of a client whose connection ended, or was refused, is killed once it began, that of any other client never is; the handler returns |
| `events` | the stream of a stop or a restart, a second client that starts or deletes, 2 launches, a line, channels of 2 events | the exit event comes after all output and before the next launch; a stream that says complete left nothing it was owed; actions end and streams come to their last events though another client does not read and the service writes without end |
| `file_api` | every choice of 3 requests, every runtime, a failure | the path is a register; success means all of the content; only a killed x-fs leaves a temporary file; every request is answered |
| `relay` | every runtime, 4 chunks of request through places of 1, a chunk of response and an error line; the stream may break, x-relay be killed, the server reset | whoever sees an end has everything that came before it; an exchange ends; Close returns and frees its goroutines and x-relay |
| `session` | 4 frames of stdin through a connection of 2, which may be cut | the client has output, echo and exit in order and whole; handler and drain end |
| `sup_triangle` | c needs a and b, b needs a | **violation**: boot does not start c |
| `con_resurrect` | a list that overlaps a DELETE | **violation**: the destroyed sprite is recorded again |

**Why the bounds are enough.** A race in the supervisor needs two requests and one
watcher or timer; `sup_threads` gives each of two clients two requests, so that a
Start, Stop or DELETE can fall into every gap of the other's request, and a third
incarnation of a name, so that two objects of it can be stale at once. Rules about
sequences need a definition, a redefinition, a delete and a restart: five requests,
one reboot and one fault of a file, over six definitions: alone, with the port, and
needing either name once or twice (a need named twice is accepted by Define and taken
for a cycle by startLocked). Longer lists of needs, and a need together with the port,
are left to the proofs. The triangle needs three names. In
the store, an error of aliasing needs a copy, a write to one side and a read of the
other: five calls give that to two sprites with two readers. Six references are more
than five calls can hold. In `containers`, a state that needs mending takes one
request with a failure, an overlap or a restart, and the request that meets it runs
after that: three requests, one failure and one restart reach every combination of the
two, and two sprites let a list see one that is known and one that is not. In `exec`,
each race is between goroutines and processes that act once or twice: one chunk of
each stream is in every place it can be while everything else happens, one frame fills
stdin, and one failure meets every state. In `events`, the stream's own launch and the
one after it are two launches; a line, the stopping event and the exit event are more
than a channel of two holds, so events are missed, wait for the drain, and arrive
after the outcome; lines that nobody counts (`Chatter`) have no bound. In `file_api`, every finding needs two requests that interfere and
a third that looks; three requests of every mix are run, over a directory that is
there or not. A content of one chunk has the states that matter: nothing copied, part
of nothing, all; the failure falls at every step. In `relay`, the places to the server
hold one chunk each, four in all with the copy's hand, and the request has four, so
that a Write can block behind a server that does not read; one chunk of response is in
each place while the ends overtake it or not. In `session`, four frames through a
connection of two each way let both sides wait for each other, which is the exception
the property names. `MaxChunks`, `MaxFrames`, `MaxRequests`, `MaxFaults`, `MaxBoots`,
`MaxCrashes`, `MaxReboots`, `MaxFileFaults`, `Incarnation`, `MaxCalls`, `MaxCheckpoints`,
`MaxLaunches`, `MaxLines`, `MaxRequest` and `MaxResponse` are the bounds of the
environment (`Buffer`, `Cap` and `Size` are capacities and sizes of the code, made
small); when they are used up a run stops, which is why deadlock is not checked. The
proofs do not depend on any of them.

**Disagreements with the documentation** that the runs exhibit are `sup_triangle` and
`con_resurrect`; PROJECT.json quotes the lines. Others that were met while modelling
are known exceptions, which the properties leave out by what they say:

- Two PUTs of one new name at once lose the process of one of them
  (`services.go:243`), and two PUTs of different names can both get a port: the check
  and the insertion are two critical sections. `NoOrphans` and `OnePort` are therefore
  checked for one client.
- An agent that dies inside os.WriteFile leaves a definition file that does not parse,
  and the service is gone after the restart (`services.go:227`). A write that fails
  leaves such a file, or a definition that memory does not have, while the agent lives
  on (228-230), and a removal that fails leaves a service that comes back at boot (534).
  `DiskMatches` leaves out the names whose last write or removal failed (`Spoiled`);
  `OnePort` and `NeedsSound` hold until the agent goes down with one (`lost`): from then
  on definitions may miss the service they need, or share a port.
- A launch that fails at StdoutPipe or StderrPipe, when the agent is out of file
  descriptors, returns before anything is recorded (`services.go:311-318`): the service
  is wanted, has no process, and keeps the status it had ("stopped" after a Stop). When
  it is the restart timer's launch, its error is dropped (376) and no new timer set: the
  service is not launched again until somebody asks. `WantedIsServed`, `StatusHonest`
  and `CrashIsRestarted` name this one exception (`noPipe`).
- A need that is named twice, like one that is reached by two paths, is accepted by
  Define and refused by startLocked (`services.go:279`); `BootStartsTrees` says what
  does start.
- Two creates of one Docker sprite at once: one is answered 502 although the sprite is
  there (`docker.go:218`, while `runtime.go:67` says that creating it again is no
  error). `CreateWorks` is about a create that ran alone; what came before it is not
  restricted.
- x-kill sends no SIGKILL to a process group whose leader is gone (`tools.go:132`), so
  a descendant that ignores SIGTERM runs on. `LeaverIsKilled` is about the leader.
- close(exited) comes before the exit and stopped events (`services.go:350`): the
  stream of a stop may say complete before them. `StreamIsWhole` is about what was
  emitted before the action returned.
- A descendant that left the process group and keeps a pipe open holds up Stop,
  Restart and Delete for ever (`services.go:343`): the exception `Held` of
  `RequestsEnd`.
- After its action returned, streamAction empties its channel and looks at neither the
  deadline nor the request's context (`server.go:241-248`): the stream of a service that
  writes as fast as its client reads stays open for ever, past `watchFor`. `RequestsEnd`
  promises the end of a drain only if the service pauses (`Pauses`); without that
  condition TLC finds the endless drain.
- The command of an exec runs before the WebSocket is accepted (`real.go:320-336`), so
  that a refused upgrade starts a command and kills it; SIGTERM, and a frame of more
  than 16 MiB, kill the command of a client that is still there. `StayerIsNotKilled` is
  about connections that stand.
- When the stream of a file write breaks, x-fs takes it for the end of the content and
  puts the part that arrived at the path (`tools.go:265`); Docker's daemon then has an
  exit code of 0 and the answer is 200. `SuccessIsWhole` names it, and the
  error of Close that x-fs drops (`tools.go:271`), after which the answer is 200 as well.
- x-fs that is killed in a write leaves its temporary file; nothing removes it later.
  `NoLitter` leaves out what was killed, and nothing else.
- A server that resets the connection, an x-relay that was killed and a stream that
  broke look like the end of the answer to the host (`tools.go:192`): `NothingIsLost`
  names the three.
- Kubernetes' protocol v4 cannot close stdin, so a file write waits until its stream
  breaks (`kube.go:398`), and the server of a connection never sees the end of a
  request.
- On Kubernetes, Close waits for a Write under way (`kube.go:392`), and after Close
  the splitting goroutine may keep a chunk that nobody reads (`docker.go:323`).
- A client of the interpreter that writes all its stdin before it reads, and the echo,
  may wait for each other (`ws.go:136`).
- `docs/api-coverage.md:57-58` says of the interpreter's exec that it "does not read
  stdin, so any stdin frames are drained and discarded". The code does so for the
  commands it knows and echoes the stdin of one it does not (`ws.go:86-105`, on
  purpose: its comment tells of clients that write a prompt after opening exec).
  `EchoIsWhole` follows the code. A prompt of more than 32 KiB in one frame is not
  echoed: the library's read limit ends the session without an exit frame.

**Fairness.** `FairSpec` assumes that a goroutine which can take the mutex, or whose
channel is ready, goes on (`ThreadStep`: the Go scheduler and the mutex's starvation
mode), that SIGKILL after Stop's timer ends the process (`StopKill`), that the
goroutine which waits for a process runs (`Watch`) and that timers fire (`Fire`).
Fairness of `Watch` contains that pipes.Wait returns (services.go:343), so that no
process outside the group holds a pipe; `Events` has such processes and no such
assumption.
Nothing is assumed of clients, of processes (one may ignore SIGTERM for ever) or of an
agent that is down. `Containers`' `FairSpec` assumes that a request's goroutine goes
on: its calls to the daemon or the cluster return and its timeouts come. Both Creates
and Kubernetes' Delete have a context that sees to it (docker.go:190, kube.go:194, 253);
Docker's Delete and both Lists have none, and for them it is assumed that the daemon
answers. It assumes nothing of the daemon, the cluster or the agents, which
may never start, answer or go. `ExecSession`'s `FairSpec` assumes that the goroutines
go on, among them a pump's write to the client, which a client that never reads could
hold up; that the daemon or the kubelet ends a stream nobody writes to; and that
x-kill and x-forget run, as killExec and forgetExec start them at once. It assumes
nothing of the client, of the command, or of stdin being taken. `Events`: every
goroutine goes on, SIGKILL works (`StopTimeout` with `StopExited`), and a select
between an event and the outcome or the deadline does not choose events for ever; of the clients only
those that stay and read (`steady`) are assumed to take their events; a process need
not write or end by itself. `FileApi`: x-fs and the handler take their steps; nothing
of streams. `Relay`: the goroutines and x-relay go on and the host reads, as the HTTP
transport does; a patient server reads all and then closes; nothing of a free one, nor
that anybody writes or closes. `Session`: the two goroutines go on, a client that is
there reads, and ends its stdin at last (strongly fair, since there may be no room for
the end again and again). Symmetry is used by the safety runs only.

## 5. What is proved

All proofs are checked by tlapm for any values of the constants, under the named
assumptions of the modules (definitions are definitions, clients are not service or
sprite names, bounds are naturals).

**Supervisor** (`SupervisorProofs`). Each safety property of the process rules is a
theorem. None is inductive alone: that a crash leaves a timer which relaunches the
right object needs that `cmd` is the last launch (`PidIsLast`); that a new object has
no processes needs that processes and timers belong to objects made since boot
(`OnlyMade`); that nothing happens to an agent that is down needs `DownIsEmpty`; and
that a Stop in progress is not lost when the map changes needs `StopAllOnlyStopping`
and what a thread holds at each label (`ThreadState`). `IInv` is their conjunction
with `OneProcess`, `UnwantedIsBeingStopped`, `WantedIsServed` and `StatusHonest`; the
proof has one lemma per action. `StopIsFinal` (`NoUnaskedLaunch`) is an action
property from the same invariant.

*The two walks of the needs.* What a recursive function computes is proved without
induction over data. For hasCycle, take a set of names each of which needs another of
the set, and suppose the walk misses it on some path; among the paths it misses take
one with the fewest names left (`SmallestSet`): the walk goes on from there to a need
in the set, with fewer left, and misses it as well. So `CycleCaught`: if the redefined
name is in such a set, the walk from it finds a cycle. The other way round, each name on
the path needs one on it or the name the walk is at, so what it finds is a cycle
(`CycleIsReal`). A graph without a cycle that is redefined at one name has one only
through that name: hence `CyclesAreFound`, the search from that name alone refuses a
redefinition exactly when it closes a cycle.

For startLocked the walk first has to be shown to exist: each call looks at fewer needs
than the one it is made from (`WalkBefore`), so among the sizes up to which no walk is
right there would be a least (`WalkExists`). From then on `WalkInduction` carries a set
of places from the calls a step makes to the step. It is used three times. `WalkSound`:
whoever the walk reached has all its needs reached, and none of those failed to launch
(`StartWalkServes`). `WalkEnds`: in a tree what is visited has the one that needs it
visited before, so what is still to be looked at is new and no call is refused.
`WalkOnce`: a call that succeeds has only gone through needs that lead to names of their
own. The last two give `StartedAreTrees`: when every command can be executed, startLocked
starts exactly the services whose needs form a tree. This is what `visiting`, which is
shared and never cleared, comes to: a need that two others share is a cycle to it, though
Define accepts it (`sup_triangle`, the disagreement in section 4). `TreesComeUp`
(`BootStartsTrees`) is the part of `BootStartsAll` that does hold: if no launch fails,
boot starts exactly the services whose needs form a tree, in whatever order they come.
`NeedsComeFirst` follows from `WalkSound` and the inductive invariant: whatever requests
overlap, no step but the restart timer's launches a process before those of its needs.

*The registry while one request at a time changes it.* Define and Delete let go of the
mutex between the check and the change, so the rules of the registry do not hold of
concurrent PUTs and DELETEs (section 4). The theorems say what is enough for them: that
at most one Define or Delete is between its critical sections (`[]OneWriter`), as it
would be if one lock were held over each of them. Starts, stops, restarts and signals of
other clients may run beside it at will, and so may further PUTs and DELETEs that are
refused, or that have not made their check yet; processes that end, restart timers,
SIGTERM with StopAll's goroutines, the death of the agent at any step and its next boot
are not restricted, and nor is the number of names, clients, requests or crashes. With
one client the hypothesis always holds, so the theorems cover what `sup_serial` checks.
`Agreed` is what holds then: the definitions are `Sound`, in the files as they were
meant (`FilesSound`) and in memory (`MemorySound`), because a file that is written before the service changes may
be all that is left after a crash; what the files were meant to hold and memory agree on every
name but the one a PUT is working on (`FilesAgree`); a client knows what it checked before it let go of the
mutex (`PutKnows`, `DeleteKnows`: the file a PUT has written, the service it replaces,
that nothing needs what a DELETE removes); and the other threads are StopAll's
(`NamesOnlyStop`). `RegistryInvariant` is proved with a lemma per action; most of them
are one lemma, that a step which leaves definitions and files alone and the client in the
know keeps `Agreed` (`KeptStep`). Finitely many services (`RegistryFinite`) and real
definitions (`ServicesAreDefined`) are invariants of every behaviour and needed by the
walk. Then `PortIsUnique`, `DiskIsMemory` and `NeedsAreSound` follow.
Writes and removals that fail are among the steps: `meant` follows what the code asked
of the files, `disk` what became of it, and an agent that goes down with the two apart
sets `lost` and starts again from what there is, so that soundness ends there (a torn
file takes a service away that others may need) while agreement goes on.

That nothing is left running takes more: a Start that comes between a DELETE's Stop and
its removal leaves a process of no service. `NoOrphanProcess` therefore assumes
`[]Alone`, that no two requests overlap at all. Then `Waited` holds as well: the launch a
Stop waits for is the last one of its service (`StopKnows`), so what a DELETE is about to
remove has ended (`DeleteWaited`), and an object that left the map has no process and is
not wanted (`Retired`).

**Store** (`StoreProofs`). `IInv` is the shape of the records, `NoSharing` and
`Numbered`. The argument: `Slots` are the places that hold a map; every action gives a
map to at most one slot, and that map is new (`OneNew`), or to none (`NothingNew`), so
no two slots meet. Hence a command, which writes through one slot, leaves what the
others hold alone (`ModifyKeeps`); hence checkpoints are `Frozen`; hence every step is
a step of the store of values: `Refinement`, with a lemma per action
(`CreateImplements` ...). The proof uses nothing of what a command does to files: it
holds for any interpreter that works in place.

**Registry and runtimes** (`ContainersProofs`). `IInv` says what a request knows at
each label, whether it ran alone or not: it is in its own handler and on the path of
the runtime there is (`StageInv`); past prepare, the volume is filled (`VolumeInv`).
What it knows of its sprite holds only when nobody interferes, hence `calm`, and
`CalmInv`: for a calm request `Knows` relates each label to container and record
(before the start there is a created container, before the record a listed one and no
record, at the end of a DELETE no container). `AgreeInv` adds how far record and
container of a sprite may be apart while nothing was disturbed (`Apart`), which is
what a crash in the middle of a request leaves to Adopt. `NextVolume`, `NextCalm` and
`NextAgree` prove the parts inductive; `FilledFirst` and `Agree` follow, and with
`HowItEnds`, which says by which step each request can end, the answers:
`DestroyLeavesNothing`, `CreateSucceeds`, `ListMends`, `PolicyStays`. They hold for
any number of sprites, clients, requests, failures and restarts.

**Exec sessions** (`ExecSessionProofs`). `IInv` has four parts. `Phase` says how far
the goroutines can be apart (the pumps are done once realExec waits; x-kill and
x-forget are never both asked for). `Lossless` counts the chunks: while the stream
holds and the connection stands, what was produced is sent, in a pump's hand or under
way, and a pump that is done has nothing under way; with `Phase` this gives
`OutputBeforeExit`. `CodeKnown` ties the code to the process's end
(`ExitCodeIsTheirs`). `PidFile` follows the file with x-exec until x-kill or x-forget
takes it, which is what makes a late x-kill find it (`LeaverKilled`). One lemma per
part, with one step per action; they hold for any number of chunks, frames and
failures.

**Event streams** (`EventsProofs`). `IInv` has three parts beside the types.
`Launches`: a launch follows the exit event of the one before, because only that
clears cmd; nothing has been written or pumped for a launch to come. `Plumbed`: what
is filed is what was shown and the line in the pump's hand, no more than was written,
and a pump that is done has it all and nobody left who could write; a launch whose
exited is closed has no other pumps. `Owed`: what a stream is owed is in its channel,
its action is over when it drains, and nothing is owed when it says complete. A step
that leaves a part's variables alone is dealt with by a frame lemma per part; the
others have a proof of their own. `ExitComesLast` and `StreamsAreWhole` follow, for
any number of requests, clients and launches and any size of channels.

**Connections** (`RelayProofs`). `IInv` counts chunks: while the stream is open, what
the host wrote is what is on stdin, in the copy's hand, on the socket and read
(`RequestKept`), and likewise back (`ResponseKept`); `Endings` says which end is
behind which other one. `ExchangeIsWhole` follows: an end is seen only when the sum
has nothing under way.

**File API** (`FileApiProofs`). `IInv`: `Shape` says what an x-fs at each step is doing,
has seen and has said; `Named`, that whatever has a name, or was opened, was made by
a write that has ended, and that a directory that is gone has no entries; `Whole`, that
a content is whole unless its stream broke or its file could not be closed; and `NoLitter`. `Named` is why the
refinement needs no case of a file still being written: the value of the register is
the inode at the path (`Values`). `Refinement` then has a lemma per action, which is a
step of the register (`RenameImplements` a Put, `OpenFileImplements` a Fetch or a Miss,
...) or none; `SuccessIsTrue` and `NothingIsLeft` follow from `IInv`. They hold for any
number of requests of any kinds, contents of any size and any number of failures.

**Interpreter sessions** (`SessionProofs`). `Line(i)` is the frame that belongs at
place i of a session: the output, the echo of each stdin frame, the exit, the close.
`IInv`: what the client has and what is under way to it are a beginning of that line
(`Written`), unless the sprite was gone (`Refused`); `Stage`, how long the beginning is
at each step of the handler while the client is there; `Pending`, that what is under
way to the handler is the rest of stdin from the first frame it has not taken. So the
frame that is echoed is the next one of the line, and when the end of stdin is at the
head all of stdin has been echoed. `EchoWhole` compares the sequences frame by frame,
for any number of frames and any room in the connection.

**Only model-checked.** Liveness (`RequestsReturn` of both modules, `CrashIsRestarted`,
`HandlerReturns`, `RequestsEnd`, `RequestsAnswered`, `ExchangeEnds`, `CloseReturns`,
`CloseFrees`, `SessionEnds`). That a file system holds paths and contents (the second half of the store's
`TypeOK`), a fold over the segments of a command.

## 6. What is not modelled, and why

- In the supervisor: the length of the back-off (`quickFails`, the delays) and
  RestartCount, since a timer may fire at any time; malformed requests (empty command,
  bad JSON; a PUT with a bad duration defines the service all the same); reuse of
  process ids, also by the late SIGKILL to a group; an old definition that another
  Start launches between Define's Stop and its `old.def = def`; a PUT whose file is
  written after a racing DELETE removed it; a definition file that exists and cannot be
  read at boot, which the code skips (107-110); launches of one name that fail and
  succeed within the same walk or boot. Log files and pipes are in `Events`.
- In the store: what commands print and their exit codes; the read-only methods other
  than Get, which change nothing.
- In the registry: the URL of a sprite, the validation of names, what proxied requests
  carry, image pulls and manifests. A pod's state that will not resolve itself ends a
  create at once in the code and through `GiveUp` in the model. A cluster that evicts
  pods by itself is `Outside`.
- In exec sessions: the order of chunks between the streams; a pid file that cannot be
  written; reuse of process ids; spritzer being killed in a session, after which
  nobody asks for x-kill.
- In the event streams: serviceLogs, which reads the end of a file; what the log file
  holds after a DELETE; how a pump cuts what it
  reads into lines; needs between services; a second stream (a channel is
  written without waiting, so one stream and a request without one see all that two
  do).
- In the file API: listing a directory, modes, a path that is a directory (but for the
  errors it leads to), several paths; the error of a Chmod, which the code drops.
- In connections: how realProxy chooses the port, deadlines (execConn has none); an
  x-relay that is killed while it still dials.
- In the interpreter's sessions: the list of sessions, always empty.
- Tasks of the agent: each request is one critical section on a map of names that
  nothing else reads, and container sprites never sleep (a DELETE ignores the expiry,
  so that it succeeds for a task that GET no longer shows); the interpreter's, which
  have the same operations, are in `Store`. sprite-env is a client of the agent's API.
  The fake clock is for tests, an identifier is 16 random bytes.
- HTTP routing, JSON, flags, deployment files and the end-to-end scripts keep no state
  of their own.
