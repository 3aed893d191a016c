----------------------------- MODULE ExecSession -----------------------------
(***************************************************************************)
(* One exec of container mode: realExec (internal/server/real.go) with its *)
(* goroutines, the stream the runtime gives it, and what runs in the       *)
(* sprite: x-exec, the command it becomes, x-kill and x-forget             *)
(* (internal/agent/tools.go).                                              *)
(*                                                                         *)
(* The command goes on when its stream closes.  What ties it to the        *)
(* session is a file with its pid, which x-exec writes, x-kill reads and   *)
(* removes, and x-forget removes.  The streams stdout and stderr are       *)
(* counts of chunks: their order among each other is not kept.             *)
(***************************************************************************)
EXTENDS Integers, Sequences

CONSTANTS
    MaxChunks,      \* bound on the chunks of a stream
    MaxFrames,      \* bound on the frames of the client
    MaxFaults       \* bound on calls and streams that fail

ASSUME BoundsAssumption ==
    MaxChunks \in Nat /\ MaxFrames \in Nat /\ MaxFaults \in Nat

VARIABLES
    kind,       \* the runtime: "docker" or "kubernetes"
    wantStdin,  \* the query asks for stdin
    client,     \* its connection: "here", "gone", or "refused" at the upgrade
    h,          \* realExec: the step it takes next
    answer,     \* realExec: what Wait returned
    exit,       \* the exit frame, when it was written
    pump, sent, \* the two pumps; the chunks they wrote to the client
    reader, open, inbox, frames,    \* the stdin goroutine, stdinOpen; the client's frames
    leader, code,       \* the process of x-exec and then of the command; its exit code
    child,              \* a process the command started, in its group
    closed, produced,   \* the command closed its outputs; the chunks it wrote
    eof, wire,          \* the stream: how it ended, the chunks under way
    file,       \* the pid file
    killer, found, late,    \* killExec with x-kill; it read a pid; the command itself ran
    forgetter,  \* forgetExec with x-forget
    faults

config == <<kind, wantStdin>>
handler == <<h, answer, exit>>
pumps == <<pump, sent>>
stdin == <<reader, open, inbox, frames>>
command == <<leader, code, child, closed, produced>>
stream == <<eof, wire>>
ending == <<killer, found, late, forgetter>>
vars == <<config, client, handler, pumps, stdin, command, stream, file, ending, faults>>

-----------------------------------------------------------------------------
(***************************************************************************)
(* State                                                                   *)
(***************************************************************************)
Stream == {"out", "err"}
Codes == {0, 137}       \* 137, which SIGKILL gives, stands for all but 0
NoCode == 999
Failed == 255       \* realExec's code when Wait fails

\* x-exec before its pid file, while it writes it, after it; the command.
Alive == {"boot", "torn", "named", "run"}

TypeOK ==
    /\ kind \in {"docker", "kubernetes"} /\ wantStdin \in BOOLEAN
    /\ client \in {"here", "gone", "refused"}
    /\ h \in {"exec", "accept", "select", "wait", "exit", "done"}
    /\ answer \in Codes \cup {Failed, NoCode} /\ exit \in Codes \cup {Failed, NoCode}
    /\ pump \in [Stream -> {"none", "read", "write", "drain", "done"}]
    /\ sent \in [Stream -> Nat] /\ produced \in [Stream -> Nat] /\ wire \in [Stream -> Nat]
    /\ reader \in {"none", "read", "write", "end"} /\ open \in BOOLEAN
    /\ inbox \in Seq({"data", "eof"}) /\ frames \in Nat
    /\ leader \in Alive \cup {"none", "dead"} /\ code \in Codes \cup {NoCode}
    /\ child \in {"none", "alive", "dead"} /\ closed \in BOOLEAN
    /\ eof \in {"open", "clean", "broken"}
    /\ file \in {"none", "torn", "pid"}
    /\ killer \in {"none", "asked", "poll", "done"}
    /\ found \in BOOLEAN /\ late \in BOOLEAN
    /\ forgetter \in {"none", "asked", "done"}
    /\ faults \in Nat

Docker == kind = "docker"
Each(x) == [s \in Stream |-> x]

Init ==
    /\ kind \in {"docker", "kubernetes"} /\ wantStdin \in BOOLEAN
    /\ client = "here" /\ h = "exec" /\ answer = NoCode /\ exit = NoCode
    /\ pump = Each("none") /\ sent = Each(0)
    /\ reader = "none" /\ open = wantStdin /\ inbox = <<>> /\ frames = 0
    /\ leader = "none" /\ code = NoCode /\ child = "none"
    /\ closed = FALSE /\ produced = Each(0)
    /\ eof = "open" /\ wire = Each(0)
    /\ file = "none"
    /\ killer = "none" /\ found = FALSE /\ late = FALSE /\ forgetter = "none"
    /\ faults = 0

-----------------------------------------------------------------------------
(***************************************************************************)
(* realExec                                                                *)
(***************************************************************************)
\* The deferred proc.Close: the stream ends for the pumps, if it has not ended.
Return == h' = "done" /\ eof' = IF eof = "open" THEN "broken" ELSE eof

\* Mistake: the pid file is dropped whenever the handler returns.
KillExecForgetting ==
    killer' = "asked" /\ forgetter' = "asked" /\ late' = (leader \in {"run", "dead"})

KillExec ==
    killer' = "asked" /\ late' = (leader \in {"run", "dead"}) /\ UNCHANGED forgetter

\* rt.Exec: the daemon starts x-exec.
Exec ==
    /\ h = "exec" /\ h' = "accept" /\ leader' = "boot"
    /\ UNCHANGED <<config, client, answer, exit, pumps, stdin, code, child, closed,
                   produced, stream, file, ending, faults>>

\* Mistake: no goroutine reads from a client that sends no stdin.
AcceptDeaf ==
    /\ h = "accept" /\ h' = "select"
    /\ pump' = Each("read") /\ reader' = IF wantStdin THEN "read" ELSE "none"
    /\ UNCHANGED <<config, client, answer, exit, sent, open, inbox, frames, command,
                   stream, file, ending, faults>>

\* websocket.Accept, and the goroutines for stdout, stderr and stdin.
Accept ==
    /\ h = "accept" /\ h' = "select"
    /\ pump' = Each("read") /\ reader' = "read"
    /\ UNCHANGED <<config, client, answer, exit, sent, open, inbox, frames, command,
                   stream, file, ending, faults>>

\* The upgrade fails: the client is gone, or its headers or its origin are refused.
AcceptFails ==
    /\ h = "accept" /\ Return /\ KillExec
    /\ client' = IF client = "here" THEN "refused" ELSE client
    /\ UNCHANGED <<config, answer, exit, pumps, stdin, command, wire, file, found,
                   faults>>

\* Mistake: the end of stdout is taken for the end.
OutDoneOut == pump["out"] = "done"

OutDone == \A s \in Stream : pump[s] = "done"
ClientGone == reader = "end"

\* The select; when both are ready it takes either.
SelectOut ==
    /\ h = "select" /\ OutDone /\ h' = "wait"
    /\ UNCHANGED <<config, client, answer, exit, pumps, stdin, command, stream, file,
                   ending, faults>>

SelectGone ==
    /\ h = "select" /\ ClientGone /\ Return /\ KillExec
    /\ UNCHANGED <<config, client, answer, exit, pumps, stdin, command, wire, file, found,
                   faults>>

\* Mistake: the exit code is taken without a look at Running.
WaitedUnchecked(c) ==
    \/ Docker /\ c = IF code = NoCode THEN 0 ELSE code
    \/ ~Docker /\ c = IF eof = "clean" THEN code ELSE -1

\* What proc.Wait may return, -1 with an error.  Docker asks the daemon fifty times
\* whether the process has ended; Kubernetes has the status of the stream's end.
Waited(c) ==
    \/ leader = "dead" /\ (Docker \/ eof = "clean") /\ c = code
    \/ Docker /\ leader # "dead" /\ c = -1
    \/ ~Docker /\ eof = "broken" /\ c = -1

InRange(c) == IF c < 0 \/ c > 255 THEN Failed ELSE c

Wait ==
    /\ h = "wait" /\ h' = "exit" /\ forgetter' = "asked"
    /\ \E c \in Codes \cup {-1} : Waited(c) /\ answer' = InRange(c)
    /\ UNCHANGED <<config, client, exit, pumps, stdin, command, stream, file,
                   killer, found, late, faults>>

\* The exit frame; one written to a client that is gone does not arrive.
Exit ==
    /\ h = "exit" /\ Return
    /\ exit' = IF client = "here" THEN answer ELSE exit
    /\ UNCHANGED <<config, client, answer, pumps, stdin, command, wire, file, ending, faults>>

(***************************************************************************)
(* The goroutine of the backend that reads the stream (demux, read) hands  *)
(* a chunk to its pump, which writes it to the client.  A pump whose write *)
(* fails reads on, so that the command does not block.                     *)
(***************************************************************************)
Deliver(s) ==
    /\ wire[s] > 0 /\ pump[s] \in {"read", "drain"}
    /\ wire' = [wire EXCEPT ![s] = @ - 1]
    /\ pump' = IF pump[s] = "read" THEN [pump EXCEPT ![s] = "write"] ELSE pump
    /\ UNCHANGED <<config, client, handler, sent, stdin, command, eof, file, ending, faults>>

PumpWrite(s) ==
    /\ pump[s] = "write"
    /\ \/ sent' = [sent EXCEPT ![s] = @ + 1] /\ pump' = [pump EXCEPT ![s] = "read"]
       \/ client # "here" /\ UNCHANGED sent /\ pump' = [pump EXCEPT ![s] = "drain"]
    /\ UNCHANGED <<config, client, handler, stdin, command, stream, file, ending, faults>>

PumpEnd(s) ==
    /\ pump[s] \in {"read", "drain"} /\ eof # "open" /\ (eof = "clean" => wire[s] = 0)
    /\ pump' = [pump EXCEPT ![s] = "done"]
    /\ UNCHANGED <<config, client, handler, sent, stdin, command, stream, file, ending, faults>>

(***************************************************************************)
(* The goroutine that reads the client's frames.  Its write to stdin waits *)
(* until the command or a buffer on the way takes what it wrote.           *)
(***************************************************************************)
ReadFrame ==
    /\ reader = "read" /\ inbox # <<>> /\ inbox' = Tail(inbox)
    /\ reader' = IF open /\ Head(inbox) = "data" THEN "write" ELSE "read"
    /\ open' = (open /\ Head(inbox) # "eof")
    /\ UNCHANGED <<config, client, handler, pumps, frames, command, stream, file, ending, faults>>

ReadFails ==
    /\ reader = "read" /\ (client # "here" \/ h = "done") /\ reader' = "end"
    /\ UNCHANGED <<config, client, handler, pumps, open, inbox, frames, command, stream,
                   file, ending, faults>>

StdinTaken ==
    /\ reader = "write" /\ reader' = "read"
    /\ UNCHANGED <<config, client, handler, pumps, open, inbox, frames, command, stream,
                   file, ending, faults>>

\* Mistake: a failed write ends the goroutine.
StdinFailsReturning ==
    /\ reader = "write" /\ eof # "open"
    /\ reader' = "end" /\ open' = FALSE
    /\ UNCHANGED <<config, client, handler, pumps, inbox, frames, command, stream, file,
                   ending, faults>>

StdinFails ==
    /\ reader = "write" /\ eof # "open"
    /\ reader' = "read" /\ open' = FALSE
    /\ UNCHANGED <<config, client, handler, pumps, inbox, frames, command, stream, file,
                   ending, faults>>

-----------------------------------------------------------------------------
(***************************************************************************)
(* The client                                                              *)
(***************************************************************************)
Send ==
    /\ client = "here" /\ h = "select" /\ frames < MaxFrames /\ frames' = frames + 1
    /\ \E f \in {"data", "eof"} : inbox' = Append(inbox, f)
    /\ UNCHANGED <<config, client, handler, pumps, reader, open, command, stream, file,
                   ending, faults>>

\* The connection ends: the client leaves, or spritzer cuts it off, since SIGTERM cancels
\* the context of every request and a frame of more than 16 MiB cannot be read.
Disconnect ==
    /\ client = "here" /\ client' = "gone"
    /\ UNCHANGED <<config, handler, pumps, stdin, command, stream, file, ending, faults>>

(***************************************************************************)
(* The processes in the sprite.  x-exec makes the pid file, writes it and  *)
(* becomes the command; a process may end at any time, and may ignore      *)
(* SIGTERM.                                                                *)
(***************************************************************************)
Command == UNCHANGED <<config, client, handler, pumps, stdin, ending, faults>>

XExec ==
    /\ \/ leader = "boot" /\ leader' = "torn" /\ file' = "torn"
       \/ leader = "torn" /\ leader' = "named" /\ file' = IF file = "torn" THEN "pid" ELSE file
       \/ leader = "named" /\ leader' = "run" /\ UNCHANGED file
    /\ Command /\ UNCHANGED <<code, child, closed, produced, stream>>

Die ==
    /\ leader \in Alive /\ leader' = "dead"
    /\ code' \in IF leader = "run" THEN Codes ELSE Codes \ {0}
    /\ Command /\ UNCHANGED <<child, closed, produced, stream, file>>

Fork ==
    /\ leader = "run" /\ child = "none" /\ child' = "alive"
    /\ Command /\ UNCHANGED <<leader, code, closed, produced, stream, file>>

ChildDies ==
    /\ child = "alive" /\ child' = "dead"
    /\ Command /\ UNCHANGED <<leader, code, closed, produced, stream, file>>

\* Somebody in the sprite can still write to stdout and stderr.
Holders == (leader \in Alive /\ ~closed) \/ child = "alive"

CloseOutputs ==
    /\ leader = "run" /\ ~closed /\ closed' = TRUE
    /\ Command /\ UNCHANGED <<leader, code, child, produced, stream, file>>

Produce(s) ==
    /\ Holders /\ eof = "open" /\ produced[s] < MaxChunks
    /\ produced' = [produced EXCEPT ![s] = @ + 1] /\ wire' = [wire EXCEPT ![s] = @ + 1]
    /\ Command /\ UNCHANGED <<leader, code, child, closed, eof, file>>

\* The stream ends: nobody holds the outputs, and for the status that comes with
\* Kubernetes' end the process has ended.
StreamEnds ==
    /\ eof = "open" /\ leader # "none" /\ ~Holders /\ (Docker \/ leader = "dead")
    /\ eof' = "clean"
    /\ Command /\ UNCHANGED <<command, wire, file>>

-----------------------------------------------------------------------------
(***************************************************************************)
(* x-kill: it reads and removes the pid file, sends SIGTERM to the group,  *)
(* looks twenty times whether the leader has gone, and sends SIGKILL.      *)
(***************************************************************************)
KillRead ==
    /\ killer = "asked" /\ file' = "none"
    /\ killer' = IF file = "pid" THEN "poll" ELSE "done"
    /\ found' = (file = "pid")
    /\ UNCHANGED <<config, client, handler, pumps, stdin, command, stream, late, forgetter,
                   faults>>

KillSees ==
    /\ killer = "poll" /\ leader = "dead" /\ killer' = "done"
    /\ UNCHANGED <<config, client, handler, pumps, stdin, command, stream, file, found, late,
                   forgetter, faults>>

KillHard ==
    /\ killer = "poll" /\ killer' = "done"
    /\ leader' = "dead" /\ code' = IF leader = "dead" THEN code ELSE 137
    /\ child' = IF child = "alive" THEN "dead" ELSE child
    /\ UNCHANGED <<config, client, handler, pumps, stdin, closed, produced, stream, file,
                   found, late, forgetter, faults>>

Forget ==
    /\ forgetter = "asked" /\ forgetter' = "done" /\ file' = "none"
    /\ UNCHANGED <<config, client, handler, pumps, stdin, command, stream, killer, found,
                   late, faults>>

(***************************************************************************)
(* A call to the daemon or the cluster fails, or the stream breaks.        *)
(***************************************************************************)
ExecFails ==        \* 502, before or after x-exec was started
    /\ h = "exec" /\ Return /\ leader' \in {"none", "boot"}
    /\ UNCHANGED <<client, answer, exit, pumps, stdin, code, child, closed, produced, wire,
                   file, ending>>

Break ==
    /\ eof = "open" /\ h # "exec" /\ eof' = "broken" /\ wire' = Each(0)
    /\ UNCHANGED <<client, handler, pumps, stdin, command, file, ending>>

WaitFails ==
    /\ h = "wait" /\ Docker /\ h' = "exit" /\ answer' = InRange(-1) /\ forgetter' = "asked"
    /\ UNCHANGED <<client, exit, pumps, stdin, command, stream, file, killer, found, late>>

ToolFails ==        \* x-kill or x-forget is not run
    /\ \/ killer = "asked" /\ killer' = "done" /\ UNCHANGED forgetter
       \/ forgetter = "asked" /\ forgetter' = "done" /\ UNCHANGED killer
    /\ UNCHANGED <<client, handler, pumps, stdin, command, stream, file, found, late>>

Fault ==
    /\ faults < MaxFaults /\ faults' = faults + 1 /\ UNCHANGED config
    /\ ExecFails \/ Break \/ WaitFails \/ ToolFails

Handler == Exec \/ Accept \/ SelectOut \/ SelectGone \/ Wait \/ Exit
Pump(s) == Deliver(s) \/ PumpWrite(s) \/ PumpEnd(s)
Reader == ReadFrame \/ ReadFails \/ StdinFails
Sprite ==
    \/ XExec \/ Die \/ Fork \/ ChildDies \/ CloseOutputs
    \/ \E s \in Stream : Produce(s)
Tools == KillRead \/ KillSees \/ KillHard \/ Forget

Next ==
    \/ Handler \/ AcceptFails \/ \E s \in Stream : Pump(s)
    \/ Reader \/ StdinTaken \/ Send \/ Disconnect
    \/ Sprite \/ StreamEnds \/ Tools \/ Fault

Spec == Init /\ [][Next]_vars

FairSpec ==
    /\ Spec /\ WF_vars(Handler) /\ WF_vars(Reader) /\ WF_vars(StreamEnds) /\ WF_vars(Tools)
    /\ \A s \in Stream : WF_vars(Pump(s))

-----------------------------------------------------------------------------
(***************************************************************************)
(* Properties                                                              *)
(***************************************************************************)

(***************************************************************************)
(* The exit frame comes after everything the command and its children      *)
(* wrote, unless the stream broke: the two pumps and realExec are three    *)
(* goroutines.                                                             *)
(***************************************************************************)
OutputComplete == exit # NoCode /\ eof = "clean" => sent = produced

(***************************************************************************)
(* The exit frame has the command's code or 255; never another command's   *)
(* result, and no success of a command that runs on.                       *)
(***************************************************************************)
ExitIsTheirs ==
    exit \notin {NoCode, Failed} => leader = "dead" /\ exit = code

(***************************************************************************)
(* When realExec finds that the client is gone while or after the command  *)
(* itself ran, and x-kill is not kept from running, the command does not   *)
(* run on: the pid file is there, is whole, and SIGKILL follows SIGTERM.   *)
(***************************************************************************)
LeaverIsKilled == late /\ killer = "done" /\ faults = 0 => leader = "dead"

(***************************************************************************)
(* The command of a client whose connection stands is not killed, whatever *)
(* happens to stdin and to the goroutines when the handler returns.  (The  *)
(* command has been started when spritzer refuses the upgrade, and it runs *)
(* when SIGTERM or a frame that is too long ends the connection: realExec  *)
(* then kills it although the client has not left.)                        *)
(***************************************************************************)
StayerIsNotKilled == killer # "none" => client # "here"

(***************************************************************************)
(* realExec returns when the command and its children have ended, or when  *)
(* the client that has no stdin is gone.                                   *)
(***************************************************************************)
HandlerReturns ==
    \/ leader = "dead" /\ child # "alive"
    \/ client # "here" /\ ~wantStdin
        ~> h = "done"

-----------------------------------------------------------------------------
(***************************************************************************)
(* The inductive invariant.                                                *)
(***************************************************************************)
\* The goroutines of the session and what it leaves behind.
Phase ==
    /\ h = "exec" => leader = "none"
    /\ h \in {"exec", "accept"} => reader = "none" /\ pump = Each("none")
    /\ h \in {"wait", "exit"} => OutDone
    /\ exit # NoCode => h = "done" /\ OutDone /\ exit = answer
    /\ ClientGone => client # "here" \/ h = "done"
    /\ killer # "none" => h = "done" /\ client # "here" /\ forgetter = "none"
    /\ forgetter # "none" => h \in {"exit", "done"}

\* What the command wrote is on its way or was written to the client.
InHand(s) == IF pump[s] = "write" THEN 1 ELSE 0
Conserved(s) == produced[s] = sent[s] + wire[s] + InHand(s)

Lossless ==
    /\ \A s \in Stream :
        /\ eof # "broken" /\ client = "here" => pump[s] # "drain" /\ Conserved(s)
        /\ pump[s] = "done" => eof # "open"
        /\ pump[s] = "done" /\ eof = "clean" => wire[s] = 0
    /\ exit # NoCode /\ eof = "clean" => \A s \in Stream : sent[s] = produced[s]

CodeKnown ==
    /\ leader = "dead" <=> code # NoCode
    /\ answer \in Codes => leader = "dead" /\ answer = code

\* The pid file follows x-exec, until x-kill or x-forget removes it.
PidFile ==
    /\ killer \in {"none", "asked"} /\ forgetter = "none" =>
          /\ leader \in {"none", "boot"} => file = "none"
          /\ leader = "torn" => file = "torn"
          /\ leader \in {"named", "run"} => file = "pid"
    /\ late => leader \in {"run", "dead"}
    /\ late /\ killer = "done" /\ faults = 0 => leader = "dead"

IInv == TypeOK /\ Phase /\ Lossless /\ CodeKnown /\ PidFile
=============================================================================
