------------------------------- MODULE FileApi -------------------------------
(***************************************************************************)
(* The file API of container mode for one path: fsRun and its four         *)
(* handlers (internal/server/real.go), runtime.Run                         *)
(* (internal/runtime/runtime.go), and the x-fs commands it runs in the     *)
(* sprite (internal/agent/tools.go).                                       *)
(*                                                                         *)
(* The path is a file in a directory.  A write goes to a temporary file of *)
(* that directory, which rename then puts at the path: a file is an inode, *)
(* named by the request that made it, and a content a number of chunks.    *)
(* The requests run side by side, each with an exec stream of its own that *)
(* may break.                                                              *)
(***************************************************************************)
EXTENDS Naturals, FiniteSets

CONSTANTS
    Request,
    Ops,            \* what the requests ask for: "write", "read", "delete", "prune" (recursive)
    Runtime,        \* "docker", "kube5", "kube4" (which cannot close stdin)
    Old,            \* the file that may be there at first
    Absent,         \* no file
    Size,           \* the chunks of a content
    MaxFaults       \* bound on calls, streams and processes that fail

ASSUME FileApiAssumption ==
    /\ Old \notin Request /\ Absent \notin Request \cup {Old}
    /\ Ops \subseteq [Request -> {"write", "read", "delete", "prune"}]
    /\ Runtime \subseteq {"docker", "kube5", "kube4"}
    /\ Size \in Nat \ {0} /\ MaxFaults \in Nat

VARIABLES
    runtime,
    op,         \* what a request asks for
    dir,        \* the directory is there
    file,       \* the inode at the path, or Absent
    size,       \* per inode: its chunks
    temp,       \* the temporary files in the directory
    unsaved,    \* writes whose file was closed with an error (history: the code drops it)
    x, code,    \* per request: x-fs, the step it takes next; its exit code
    seen,       \* per request: the inode a read opened
    stream,     \* per request: its exec stream
    answer,     \* per request: the status the handler wrote, or 0
    body,       \* per request: the chunks a read answered with
    faults

disk == <<dir, file, size, temp>>
vars == <<runtime, op, disk, unsaved, x, code, seen, stream, answer, body, faults>>

-----------------------------------------------------------------------------
Inode == Request \cup {Old}
NoCode == 999
Signalled == 137    \* the exit code of a process that was killed

Steps == {"mkdir", "temp", "copy", "rename",        \* write
          "open", "print",                          \* read
          "lstat", "remove", "empty", "rmdir"}      \* delete

TypeOK ==
    /\ runtime \in Runtime /\ op \in Ops
    /\ dir \in BOOLEAN /\ file \in Inode \cup {Absent} /\ temp \subseteq Request
    /\ unsaved \subseteq Request
    /\ size \in [Inode -> 0 .. Size]
    /\ x \in [Request -> Steps \cup {"none", "end"}] /\ code \in [Request -> {0, 1, 2, Signalled, NoCode}]
    /\ seen \in [Request -> Inode \cup {Absent}]
    /\ stream \in [Request -> {"none", "open", "broken"}]
    /\ answer \in [Request -> {0, 200, 404, 500, 502}]
    /\ body \in [Request -> 0 .. Size] /\ faults \in Nat

Init ==
    /\ runtime \in Runtime /\ op \in Ops
    /\ \/ dir = FALSE /\ file = Absent
       \/ dir = TRUE /\ file \in {Absent, Old}
    /\ size = [i \in Inode |-> IF i = Old THEN Size ELSE 0] /\ temp = {} /\ unsaved = {}
    /\ x = [q \in Request |-> "none"] /\ code = [q \in Request |-> NoCode]
    /\ seen = [q \in Request |-> Absent]
    /\ stream = [q \in Request |-> "none"] /\ answer = [q \in Request |-> 0]
    /\ body = [q \in Request |-> 0] /\ faults = 0

-----------------------------------------------------------------------------
(***************************************************************************)
(* fsRun: an exec, its output to the end, its exit code.                   *)
(***************************************************************************)
FirstStep(q) ==
    CASE op[q] = "write" -> "mkdir"
      [] op[q] = "read" -> "open"
      [] OTHER -> "lstat"

Run(q) ==
    /\ x[q] = "none" /\ answer[q] = 0
    /\ x' = [x EXCEPT ![q] = FirstStep(q)] /\ stream' = [stream EXCEPT ![q] = "open"]
    /\ UNCHANGED <<runtime, op, disk, unsaved, code, seen, answer, body, faults>>

StatusOf(c) == IF c = 0 THEN 200 ELSE IF c = 2 THEN 404 ELSE 500

Says(q, status) == answer' = [answer EXCEPT ![q] = status]
Handler == UNCHANGED <<runtime, op, disk, unsaved, x, code, seen, stream, body>>

\* x-fs has ended and Wait has its exit code; Docker's daemon has it even after the
\* stream broke, which looks like the end of the output.
AnswerCode(q) ==
    /\ answer[q] = 0 /\ x[q] = "end"
    /\ stream[q] = "open" \/ (stream[q] = "broken" /\ runtime = "docker")
    /\ Says(q, StatusOf(code[q])) /\ Handler /\ UNCHANGED faults

\* Mistake: on Kubernetes, a stream that ended without a status is a success.
AnswerBrokenAsSuccess(q) ==
    /\ answer[q] = 0 /\ stream[q] = "broken" /\ (runtime = "docker" => x[q] # "end")
    /\ Says(q, IF runtime = "docker" THEN 502 ELSE 200) /\ Handler /\ UNCHANGED faults

\* The stream broke, and there is no exit code: x-fs runs on.
AnswerBroken(q) ==
    /\ answer[q] = 0 /\ stream[q] = "broken" /\ (runtime = "docker" => x[q] # "end")
    /\ Says(q, 502) /\ Handler /\ UNCHANGED faults

-----------------------------------------------------------------------------
(***************************************************************************)
(* x-fs                                                                    *)
(***************************************************************************)
Tool == UNCHANGED <<runtime, op, unsaved, stream, answer, faults>>
Goes(q, step) == x' = [x EXCEPT ![q] = step] /\ UNCHANGED code
Exits(q, c) == x' = [x EXCEPT ![q] = "end"] /\ code' = [code EXCEPT ![q] = c]

MkdirAll(q) ==
    /\ x[q] = "mkdir" /\ dir' = TRUE /\ Goes(q, "temp")
    /\ Tool /\ UNCHANGED <<file, size, temp, seen, body>>

\* Mistake: the file at the path is opened and written in place.
CreateInPlace(q) ==
    /\ x[q] = "temp"
    /\ IF dir THEN temp' = temp \cup {q} /\ file' = q /\ Goes(q, "copy")
              ELSE Exits(q, 2) /\ UNCHANGED <<temp, file>>
    /\ Tool /\ UNCHANGED <<dir, size, seen, body>>

CreateTemp(q) ==
    /\ x[q] = "temp"
    /\ IF dir THEN temp' = temp \cup {q} /\ Goes(q, "copy")
              ELSE Exits(q, 2) /\ UNCHANGED temp
    /\ Tool /\ UNCHANGED <<dir, file, size, seen, body>>

CopyChunk(q) ==
    /\ x[q] = "copy" /\ size[q] < Size /\ stream[q] = "open"
    /\ size' = [size EXCEPT ![q] = @ + 1]
    /\ Tool /\ UNCHANGED <<dir, file, temp, x, code, seen, body>>

\* Mistake: Run does not close stdin.
CopyEndsNot(q) ==
    /\ x[q] = "copy" /\ stream[q] = "broken" /\ Goes(q, "rename")
    /\ Tool /\ UNCHANGED <<disk, seen, body>>

\* Stdin ends: the host closed it, or the stream broke.
CopyEnds(q) ==
    /\ x[q] = "copy"
    /\ stream[q] = "broken" \/ (size[q] = Size /\ runtime # "kube4")
    /\ Goes(q, "rename")
    /\ Tool /\ UNCHANGED <<disk, seen, body>>

\* Chmod, Close and Rename.
Rename(q) ==
    /\ x[q] = "rename"
    /\ IF q \in temp THEN file' = q /\ temp' = temp \ {q} /\ Exits(q, 0)
                     ELSE Exits(q, 2) /\ UNCHANGED <<file, temp>>
    /\ Tool /\ UNCHANGED <<dir, size, seen, body>>

OpenFile(q) ==
    /\ x[q] = "open" /\ seen' = [seen EXCEPT ![q] = file]
    /\ IF file = Absent THEN Exits(q, 2) ELSE Goes(q, "print")
    /\ Tool /\ UNCHANGED <<disk, body>>

\* What the host gets of the output: all of it, unless the stream broke; then x-fs may
\* meet the error, or not.
SendOut(q) ==
    /\ x[q] = "print"
    /\ Exits(q, 0) \/ (stream[q] = "broken" /\ Exits(q, 1))
    /\ \E n \in 0 .. size[seen[q]] :
        /\ stream[q] = "open" => n = size[seen[q]]
        /\ body' = [body EXCEPT ![q] = n]
    /\ Tool /\ UNCHANGED <<disk, seen>>

\* Lstat of the path, or for a prune of its directory.
Lstat(q) ==
    /\ x[q] = "lstat"
    /\ IF IF op[q] = "prune" THEN dir ELSE file # Absent
       THEN Goes(q, IF op[q] = "prune" THEN "empty" ELSE "remove")
       ELSE Exits(q, 2)
    /\ Tool /\ UNCHANGED <<disk, seen, body>>

RemoveFile(q) ==
    /\ x[q] = "remove" /\ file' = Absent /\ Exits(q, IF file = Absent THEN 2 ELSE 0)
    /\ Tool /\ UNCHANGED <<dir, size, temp, seen, body>>

\* RemoveAll: the entries one after the other, then the directory.
EmptyDir(q) ==
    /\ x[q] = "empty"
    /\ \/ file # Absent /\ file' = Absent /\ UNCHANGED <<temp, x>>
       \/ \E t \in temp : temp' = temp \ {t} /\ UNCHANGED <<file, x>>
       \/ file = Absent /\ temp = {} /\ x' = [x EXCEPT ![q] = "rmdir"] /\ UNCHANGED <<file, temp>>
    /\ Tool /\ UNCHANGED <<dir, size, code, seen, body>>

\* A directory that is gone is no error, one with an entry that came meanwhile is.
RmDir(q) ==
    /\ x[q] = "rmdir"
    /\ LET clean == file = Absent /\ temp = {}
       IN  dir' = (dir /\ ~clean) /\ Exits(q, IF clean THEN 0 ELSE 1)
    /\ Tool /\ UNCHANGED <<file, size, temp, seen, body>>

-----------------------------------------------------------------------------
(***************************************************************************)
(* Failures: the exec is refused, the stream breaks, Docker does not say   *)
(* how x-fs ended, a system call of x-fs fails, x-fs is killed.            *)
(***************************************************************************)
RunFails(q) ==
    /\ x[q] = "none" /\ answer[q] = 0 /\ Says(q, 502) /\ Handler

Break(q) ==
    /\ stream[q] = "open" /\ answer[q] = 0 /\ stream' = [stream EXCEPT ![q] = "broken"]
    /\ UNCHANGED <<runtime, op, disk, unsaved, x, code, seen, answer, body>>

InspectFails(q) ==
    /\ runtime = "docker" /\ x[q] = "end" /\ answer[q] = 0 /\ Says(q, 502) /\ Handler

\* Mistake: the error path leaves the temporary file where it is.
StepFailsLeaving(q) ==
    /\ x[q] \in Steps /\ Exits(q, 1)
    /\ UNCHANGED <<runtime, op, disk, unsaved, seen, stream, answer, body>>

\* Any step of x-fs: the disk is full, the path is a directory.  A write removes its file.
StepFails(q) ==
    /\ x[q] \in Steps /\ temp' = temp \ {q} /\ Exits(q, 1)
    /\ UNCHANGED <<runtime, op, dir, file, size, unsaved, seen, stream, answer, body>>

\* The error of Close is dropped: what it could not store is missing in the renamed file.
CloseFails(q) ==
    /\ x[q] = "rename" /\ size[q] > 0 /\ size' = [size EXCEPT ![q] = @ - 1]
    /\ unsaved' = unsaved \cup {q}
    /\ UNCHANGED <<runtime, op, dir, file, temp, x, code, seen, stream, answer, body>>

Killed(q) ==
    /\ x[q] \in Steps /\ Exits(q, Signalled)
    /\ UNCHANGED <<runtime, op, disk, unsaved, seen, stream, answer, body>>

Fault(q) ==
    /\ faults < MaxFaults /\ faults' = faults + 1
    /\ \/ RunFails(q) \/ Break(q) \/ InspectFails(q)
       \/ StepFails(q) \/ CloseFails(q) \/ Killed(q)

Write(q) == MkdirAll(q) \/ CreateTemp(q) \/ CopyChunk(q) \/ CopyEnds(q) \/ Rename(q)
Read(q) == OpenFile(q) \/ SendOut(q)
Delete(q) == Lstat(q) \/ RemoveFile(q) \/ EmptyDir(q) \/ RmDir(q)
Answer(q) == AnswerCode(q) \/ AnswerBroken(q)

Next == \E q \in Request : Run(q) \/ Write(q) \/ Read(q) \/ Delete(q) \/ Answer(q) \/ Fault(q)

Spec == Init /\ [][Next]_vars

\* x-fs and the handler take their steps.
FairSpec ==
    /\ Spec
    /\ \A q \in Request : WF_vars(Write(q) \/ Read(q) \/ Delete(q)) /\ WF_vars(Answer(q))

-----------------------------------------------------------------------------
(***************************************************************************)
(* Properties                                                              *)
(***************************************************************************)
(***************************************************************************)
(* The path is a register, with the requests running side by side: what is *)
(* there, and what a read has opened, is what one write had copied when    *)
(* its stdin ended, never a file still being written or a mixture; a       *)
(* request that is answered with 200 or 404 did or found what its answer   *)
(* says between its call and its answer.  (A write whose stream broke ends *)
(* early, and the part that arrived is what it leaves.)                    *)
(***************************************************************************)
Content(i) == IF i \in Request /\ x[i] \in {"temp", "copy"} THEN "unfinished" ELSE i

Phase(q) ==
    IF x[q] = "none" THEN "idle"
    ELSE IF code[q] = 0 \/ seen[q] # Absent THEN "done"
    ELSE IF code[q] \in {1, Signalled} \/ (code[q] = 2 /\ op[q] = "write") THEN "failed"
    ELSE IF code[q] = 2 THEN "missed"
    ELSE "called"

ReplyOf(status) ==
    CASE status = 0 -> "none" [] status = 200 -> "ok" [] status = 404 -> "missing" [] OTHER -> "error"

Phases == [q \in Request |-> Phase(q)]
Contents == [q \in Request |-> Content(seen[q])]
Replies == [q \in Request |-> ReplyOf(answer[q])]

Register ==
    INSTANCE FileRegister WITH
        None <- Absent, value <- Content(file),
        phase <- Phases, got <- Contents, reply <- Replies

Implements == Register!Spec

(***************************************************************************)
(* 200 is the answer to a request whose whole content was written or read. *)
(* The exceptions: on Docker the answer is the same when the stream broke  *)
(* on the way; and x-fs does not look at the error of Close.               *)
(***************************************************************************)
Done(q) ==
    CASE op[q] = "write" -> size[q] = Size
      [] op[q] = "read" -> seen[q] # Absent /\ body[q] = size[seen[q]]
      [] OTHER -> TRUE

SuccessIsWhole ==
    \A q \in Request :
        answer[q] = 200 =>
            Done(q) \/ (runtime = "docker" /\ stream[q] = "broken") \/ q \in unsaved

(***************************************************************************)
(* A temporary file belongs to an x-fs that is still at work, unless it    *)
(* was killed: every way out of a write removes or renames it, also when   *)
(* its stream broke, the copy or the rename fails (tools.go:265-276), and  *)
(* whoever removes the directory meanwhile.                                *)
(***************************************************************************)
NoLitter ==
    \A q \in temp : x[q] \in {"copy", "rename"} \/ code[q] = Signalled

(***************************************************************************)
(* Every request is answered; only a write through the older protocol of   *)
(* Kubernetes, which cannot close stdin, waits until its stream breaks.    *)
(***************************************************************************)
RequestsAnswered ==
    \A q \in Request :
        x[q] # "none" ~> answer[q] # 0 \/ (runtime = "kube4" /\ op[q] = "write")

-----------------------------------------------------------------------------
(***************************************************************************)
(* The inductive invariant.                                                *)
(***************************************************************************)
\* What x-fs is doing for a request, and what it has seen and said.
Shape(q) ==
    /\ x[q] \in {"mkdir", "temp", "copy", "rename"} => op[q] = "write"
    /\ x[q] \in {"open", "print"} => op[q] = "read"
    /\ x[q] = "lstat" => op[q] \in {"delete", "prune"}
    /\ x[q] = "remove" => op[q] = "delete"
    /\ x[q] \in {"empty", "rmdir"} => op[q] = "prune"
    /\ x[q] = "end" <=> code[q] # NoCode
    /\ seen[q] # Absent => op[q] = "read" /\ x[q] \in {"print", "end"} /\ code[q] # 2
    /\ x[q] = "print" => seen[q] # Absent
    /\ code[q] = 0 /\ op[q] = "read" => seen[q] # Absent
    /\ x[q] = "none" <=> stream[q] = "none"
    /\ answer[q] = 200 => code[q] = 0 /\ (stream[q] = "open" \/ runtime = "docker")

\* What is named is finished, and what is not there names nothing.
Finished(i) == i \in Request => x[i] = "end"

Named ==
    /\ Finished(file) /\ \A q \in Request : Finished(seen[q])
    /\ ~dir => file = Absent /\ temp = {}
    /\ \A q \in temp : x[q] \in {"copy", "rename", "end"}

\* A content is whole unless its stream broke or its file could not be closed.
Whole ==
    \A q \in Request :
        stream[q] = "open" /\ q \notin unsaved =>
            /\ x[q] = "rename" => size[q] = Size
            /\ code[q] = 0 => Done(q)

IInv == TypeOK /\ (\A q \in Request : Shape(q)) /\ Named /\ Whole /\ NoLitter
=============================================================================
