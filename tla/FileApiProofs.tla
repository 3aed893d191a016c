--------------------------- MODULE FileApiProofs ---------------------------
(***************************************************************************)
(* Proofs about FileApi: one path is a register, for any requests, of any  *)
(* kinds, with any contents and failures.                                  *)
(***************************************************************************)
EXTENDS FileApi, TLAPS

(***************************************************************************)
(* The initial state satisfies the inductive invariant.                    *)
(***************************************************************************)
LEMMA InitIInv == Init => IInv
<1> SUFFICES ASSUME Init PROVE IInv
  OBVIOUS
<1> USE FileApiAssumption DEF Init
<1>1. TypeOK
  <2>1. dir \in BOOLEAN /\ file \in Inode \cup {Absent} /\ temp \subseteq Request
        /\ unsaved \subseteq Request
    BY DEF Inode
  <2>2. size \in [Inode -> 0 .. Size] /\ body \in [Request -> 0 .. Size]
    OBVIOUS
  <2>3. x \in [Request -> Steps \cup {"none", "end"}] /\ code \in [Request -> {0, 1, 2, Signalled, NoCode}]
    OBVIOUS
  <2>4. /\ seen \in [Request -> Inode \cup {Absent}]
        /\ stream \in [Request -> {"none", "open", "broken"}]
        /\ answer \in [Request -> {0, 200, 404, 500, 502}]
    OBVIOUS
  <2> QED
    BY <2>1, <2>2, <2>3, <2>4 DEF TypeOK
<1>2. ASSUME NEW q \in Request PROVE Shape(q)
  BY DEF Shape, NoCode
<1>3. Named
  BY DEF Named, Finished
<1>4. Whole
  BY DEF Whole
<1>5. NoLitter
  BY DEF NoLitter
<1> QED
  BY <1>1, <1>2, <1>3, <1>4, <1>5 DEF IInv

(***************************************************************************)
(* Every variable keeps its type.                                          *)
(***************************************************************************)
LEMMA NextType ==
    ASSUME TypeOK, \A q \in Request : Shape(q), [Next]_vars
    PROVE  TypeOK'
<1> USE FileApiAssumption
<1>1. ASSUME NEW q \in Request, Run(q) PROVE TypeOK'
  <2>1. x' \in [Request -> Steps \cup {"none", "end"}]
    <3>1. FirstStep(q) \in Steps
      BY DEF FirstStep, Steps
    <3> QED
      BY <1>1, <3>1 DEF TypeOK, Run
  <2>2. stream' \in [Request -> {"none", "open", "broken"}]
    BY <1>1 DEF TypeOK, Run, FirstStep
  <2>3. UNCHANGED <<runtime, op, unsaved, dir, file, temp, size, code, seen, answer,
                    body, faults>>
    BY <1>1 DEF Run, FirstStep, disk
  <2> QED
    BY <2>1, <2>2, <2>3 DEF TypeOK
<1>2. ASSUME NEW q \in Request, MkdirAll(q) PROVE TypeOK'
  <2>1. dir' \in BOOLEAN
    BY <1>2 DEF TypeOK, MkdirAll, Goes
  <2>2. x' \in [Request -> Steps \cup {"none", "end"}]
    BY <1>2 DEF TypeOK, MkdirAll, Goes, Steps
  <2>3. UNCHANGED <<runtime, op, unsaved, file, temp, size, code, seen, stream,
                    answer, body, faults>>
    BY <1>2 DEF MkdirAll, Goes, Tool, disk
  <2> QED
    BY <2>1, <2>2, <2>3 DEF TypeOK
<1>3. ASSUME NEW q \in Request, CreateTemp(q) PROVE TypeOK'
  <2>1. temp' \in SUBSET Request
    BY <1>3 DEF TypeOK, CreateTemp, Goes, Exits
  <2>2. x' \in [Request -> Steps \cup {"none", "end"}]
    BY <1>3 DEF TypeOK, CreateTemp, Goes, Exits, Steps
  <2>3. code' \in [Request -> {0, 1, 2, Signalled, NoCode}]
    BY <1>3 DEF TypeOK, CreateTemp, Goes, Exits
  <2>4. UNCHANGED <<runtime, op, unsaved, dir, file, size, seen, stream, answer, body,
                    faults>>
    BY <1>3 DEF CreateTemp, Goes, Exits, Tool, disk
  <2> QED
    BY <2>1, <2>2, <2>3, <2>4 DEF TypeOK
<1>4. ASSUME NEW q \in Request, CopyChunk(q) PROVE TypeOK'
  <2>1. size' \in [Inode -> 0 .. Size]
    <3>1. size[q] \in 0 .. Size /\ size[q] < Size /\ size' = [size EXCEPT ![q] = size[q] + 1]
      BY <1>4 DEF TypeOK, Inode, CopyChunk
    <3>2. size[q] + 1 \in 0 .. Size
      BY <3>1, FileApiAssumption
    <3> QED
      BY <3>1, <3>2 DEF TypeOK
  <2>2. UNCHANGED <<runtime, op, unsaved, dir, file, temp, x, code, seen, stream,
                    answer, body, faults>>
    BY <1>4 DEF CopyChunk, Tool, disk
  <2> QED
    BY <2>1, <2>2 DEF TypeOK
<1>5. ASSUME NEW q \in Request, CopyEnds(q) PROVE TypeOK'
  <2>1. x' \in [Request -> Steps \cup {"none", "end"}]
    BY <1>5 DEF TypeOK, CopyEnds, Goes, Steps
  <2>2. UNCHANGED <<runtime, op, unsaved, dir, file, temp, size, code, seen, stream,
                    answer, body, faults>>
    BY <1>5 DEF CopyEnds, Goes, Tool, disk
  <2> QED
    BY <2>1, <2>2 DEF TypeOK
<1>6. ASSUME NEW q \in Request, Rename(q) PROVE TypeOK'
  <2>1. file' \in Inode \cup {Absent}
    BY <1>6 DEF TypeOK, Rename, Exits, Inode
  <2>2. temp' \in SUBSET Request
    BY <1>6 DEF TypeOK, Rename, Exits
  <2>3. x' \in [Request -> Steps \cup {"none", "end"}]
    BY <1>6 DEF TypeOK, Rename, Exits, Steps
  <2>4. code' \in [Request -> {0, 1, 2, Signalled, NoCode}]
    BY <1>6 DEF TypeOK, Rename, Exits
  <2>5. UNCHANGED <<runtime, op, unsaved, dir, size, seen, stream, answer, body,
                    faults>>
    BY <1>6 DEF Rename, Exits, Tool, disk
  <2> QED
    BY <2>1, <2>2, <2>3, <2>4, <2>5 DEF TypeOK
<1>7. ASSUME NEW q \in Request, OpenFile(q) PROVE TypeOK'
  <2>1. seen' \in [Request -> Inode \cup {Absent}]
    BY <1>7 DEF TypeOK, OpenFile, Goes, Exits
  <2>2. x' \in [Request -> Steps \cup {"none", "end"}]
    BY <1>7 DEF TypeOK, OpenFile, Goes, Exits, Steps
  <2>3. code' \in [Request -> {0, 1, 2, Signalled, NoCode}]
    BY <1>7 DEF TypeOK, OpenFile, Goes, Exits
  <2>4. UNCHANGED <<runtime, op, unsaved, dir, file, temp, size, stream, answer, body,
                    faults>>
    BY <1>7 DEF OpenFile, Goes, Exits, Tool, disk
  <2> QED
    BY <2>1, <2>2, <2>3, <2>4 DEF TypeOK
<1>8. ASSUME NEW q \in Request, SendOut(q) PROVE TypeOK'
  <2>1. x' \in [Request -> Steps \cup {"none", "end"}]
    BY <1>8 DEF TypeOK, SendOut, Exits, Steps
  <2>2. code' \in [Request -> {0, 1, 2, Signalled, NoCode}]
    BY <1>8 DEF TypeOK, SendOut, Exits
  <2>3. body' \in [Request -> 0 .. Size]
    <3>1. PICK n \in 0 .. size[seen[q]] : body' = [body EXCEPT ![q] = n]
      BY <1>8 DEF SendOut
    <3>2. seen[q] \in Inode
      BY <1>8 DEF TypeOK, Shape, SendOut
    <3>3. n \in 0 .. Size
      BY <3>2, FileApiAssumption DEF TypeOK
    <3> QED
      BY <3>1, <3>3 DEF TypeOK
  <2>4. UNCHANGED <<runtime, op, unsaved, dir, file, temp, size, seen, stream, answer,
                    faults>>
    BY <1>8 DEF SendOut, Exits, Tool, disk
  <2> QED
    BY <2>1, <2>2, <2>3, <2>4 DEF TypeOK
<1>9. ASSUME NEW q \in Request, Lstat(q) PROVE TypeOK'
  <2>1. x' \in [Request -> Steps \cup {"none", "end"}]
    BY <1>9 DEF TypeOK, Lstat, Goes, Exits, Steps
  <2>2. code' \in [Request -> {0, 1, 2, Signalled, NoCode}]
    BY <1>9 DEF TypeOK, Lstat, Goes, Exits
  <2>3. UNCHANGED <<runtime, op, unsaved, dir, file, temp, size, seen, stream, answer,
                    body, faults>>
    BY <1>9 DEF Lstat, Goes, Exits, Tool, disk
  <2> QED
    BY <2>1, <2>2, <2>3 DEF TypeOK
<1>10. ASSUME NEW q \in Request, RemoveFile(q) PROVE TypeOK'
  <2>1. file' \in Inode \cup {Absent}
    BY <1>10 DEF TypeOK, RemoveFile, Exits, Inode
  <2>2. x' \in [Request -> Steps \cup {"none", "end"}]
    BY <1>10 DEF TypeOK, RemoveFile, Exits, Steps
  <2>3. code' \in [Request -> {0, 1, 2, Signalled, NoCode}]
    BY <1>10 DEF TypeOK, RemoveFile, Exits
  <2>4. UNCHANGED <<runtime, op, unsaved, dir, temp, size, seen, stream, answer, body,
                    faults>>
    BY <1>10 DEF RemoveFile, Exits, Tool, disk
  <2> QED
    BY <2>1, <2>2, <2>3, <2>4 DEF TypeOK
<1>11. ASSUME NEW q \in Request, EmptyDir(q) PROVE TypeOK'
  <2>1. file' \in Inode \cup {Absent}
    BY <1>11 DEF TypeOK, EmptyDir, Inode
  <2>2. temp' \in SUBSET Request
    BY <1>11 DEF TypeOK, EmptyDir
  <2>3. x' \in [Request -> Steps \cup {"none", "end"}]
    BY <1>11 DEF TypeOK, EmptyDir, Steps
  <2>4. UNCHANGED <<runtime, op, unsaved, dir, size, code, seen, stream, answer, body,
                    faults>>
    BY <1>11 DEF EmptyDir, Tool, disk
  <2> QED
    BY <2>1, <2>2, <2>3, <2>4 DEF TypeOK
<1>12. ASSUME NEW q \in Request, RmDir(q) PROVE TypeOK'
  <2>1. dir' \in BOOLEAN
    BY <1>12 DEF TypeOK, RmDir, Exits
  <2>2. x' \in [Request -> Steps \cup {"none", "end"}]
    BY <1>12 DEF TypeOK, RmDir, Exits, Steps
  <2>3. code' \in [Request -> {0, 1, 2, Signalled, NoCode}]
    BY <1>12 DEF TypeOK, RmDir, Exits
  <2>4. UNCHANGED <<runtime, op, unsaved, file, temp, size, seen, stream, answer,
                    body, faults>>
    BY <1>12 DEF RmDir, Exits, Tool, disk
  <2> QED
    BY <2>1, <2>2, <2>3, <2>4 DEF TypeOK
<1>13. ASSUME NEW q \in Request, AnswerCode(q) PROVE TypeOK'
  <2>1. answer' \in [Request -> {0, 200, 404, 500, 502}]
    <3>1. StatusOf(code[q]) \in {0, 200, 404, 500, 502}
      BY DEF StatusOf
    <3> QED
      BY <1>13, <3>1 DEF TypeOK, AnswerCode, Says
  <2>2. UNCHANGED <<runtime, op, unsaved, dir, file, temp, size, x, code, seen,
                    stream, body, faults>>
    BY <1>13 DEF AnswerCode, Says, Handler, disk
  <2> QED
    BY <2>1, <2>2 DEF TypeOK
<1>14. ASSUME NEW q \in Request, AnswerBroken(q) PROVE TypeOK'
  <2>1. answer' \in [Request -> {0, 200, 404, 500, 502}]
    BY <1>14 DEF TypeOK, AnswerBroken, Says
  <2>2. UNCHANGED <<runtime, op, unsaved, dir, file, temp, size, x, code, seen,
                    stream, body, faults>>
    BY <1>14 DEF AnswerBroken, Says, Handler, disk
  <2> QED
    BY <2>1, <2>2 DEF TypeOK
<1>15. ASSUME NEW q \in Request, RunFails(q), faults' = faults + 1 PROVE TypeOK'
  <2>1. answer' \in [Request -> {0, 200, 404, 500, 502}]
    BY <1>15 DEF TypeOK, RunFails, Says
  <2>2. faults' \in Nat
    BY <1>15 DEF TypeOK
  <2>3. UNCHANGED <<runtime, op, unsaved, dir, file, temp, size, x, code, seen,
                    stream, body>>
    BY <1>15 DEF RunFails, Says, Handler, disk
  <2> QED
    BY <2>1, <2>2, <2>3 DEF TypeOK
<1>16. ASSUME NEW q \in Request, Break(q), faults' = faults + 1 PROVE TypeOK'
  <2>1. stream' \in [Request -> {"none", "open", "broken"}]
    BY <1>16 DEF TypeOK, Break
  <2>2. faults' \in Nat
    BY <1>16 DEF TypeOK
  <2>3. UNCHANGED <<runtime, op, unsaved, dir, file, temp, size, x, code, seen,
                    answer, body>>
    BY <1>16 DEF Break, disk
  <2> QED
    BY <2>1, <2>2, <2>3 DEF TypeOK
<1>17. ASSUME NEW q \in Request, StepFails(q), faults' = faults + 1 PROVE TypeOK'
  <2>1. temp' \in SUBSET Request
    BY <1>17 DEF TypeOK, StepFails, Exits
  <2>2. x' \in [Request -> Steps \cup {"none", "end"}]
    BY <1>17 DEF TypeOK, StepFails, Exits, Steps
  <2>3. code' \in [Request -> {0, 1, 2, Signalled, NoCode}]
    BY <1>17 DEF TypeOK, StepFails, Exits
  <2>4. faults' \in Nat
    BY <1>17 DEF TypeOK
  <2>5. UNCHANGED <<runtime, op, unsaved, dir, file, size, seen, stream, answer,
                    body>>
    BY <1>17 DEF StepFails, Exits, disk
  <2> QED
    BY <2>1, <2>2, <2>3, <2>4, <2>5 DEF TypeOK
<1>18. ASSUME NEW q \in Request, Killed(q), faults' = faults + 1 PROVE TypeOK'
  <2>1. x' \in [Request -> Steps \cup {"none", "end"}]
    BY <1>18 DEF TypeOK, Killed, Exits, Steps
  <2>2. code' \in [Request -> {0, 1, 2, Signalled, NoCode}]
    BY <1>18 DEF TypeOK, Killed, Exits
  <2>3. faults' \in Nat
    BY <1>18 DEF TypeOK
  <2>4. UNCHANGED <<runtime, op, unsaved, dir, file, temp, size, seen, stream, answer,
                    body>>
    BY <1>18 DEF Killed, Exits, disk
  <2> QED
    BY <2>1, <2>2, <2>3, <2>4 DEF TypeOK
<1>20. ASSUME NEW q \in Request, InspectFails(q), faults' = faults + 1 PROVE TypeOK'
  <2>1. answer' \in [Request -> {0, 200, 404, 500, 502}]
    BY <1>20 DEF TypeOK, InspectFails, Says
  <2>2. faults' \in Nat
    BY <1>20 DEF TypeOK
  <2>3. UNCHANGED <<runtime, op, unsaved, dir, file, temp, size, x, code, seen,
                    stream, body>>
    BY <1>20 DEF InspectFails, Says, Handler, disk
  <2> QED
    BY <2>1, <2>2, <2>3 DEF TypeOK
<1>21. ASSUME NEW q \in Request, CloseFails(q), faults' = faults + 1 PROVE TypeOK'
  <2>1. size' \in [Inode -> 0 .. Size]
    <3>1. size[q] \in 0 .. Size /\ size[q] > 0 /\ size' = [size EXCEPT ![q] = size[q] - 1]
      BY <1>21 DEF TypeOK, Inode, CloseFails
    <3>2. size[q] - 1 \in 0 .. Size
      BY <3>1, FileApiAssumption
    <3> QED
      BY <3>1, <3>2 DEF TypeOK
  <2>2. unsaved' \in SUBSET Request /\ faults' \in Nat
    BY <1>21 DEF TypeOK, CloseFails
  <2>3. UNCHANGED <<runtime, op, dir, file, temp, x, code, seen, stream,
                    answer, body>>
    BY <1>21 DEF CloseFails
  <2> QED
    BY <2>1, <2>2, <2>3 DEF TypeOK
<1>19. CASE UNCHANGED vars
  BY <1>19 DEF TypeOK, vars, disk
<1> QED
  BY <1>1, <1>2, <1>3, <1>4, <1>5, <1>6, <1>7, <1>8, <1>9, <1>10, <1>11,
     <1>12, <1>13, <1>14, <1>15, <1>16, <1>17, <1>18, <1>19, <1>20, <1>21
     DEF Next, Write, Read, Delete, Answer, Fault

-----------------------------------------------------------------------------
(***************************************************************************)
(* A step of request q leaves what belongs to the others alone.            *)
(***************************************************************************)
Frame(q) ==
    /\ runtime' = runtime /\ op' = op
    /\ \A r \in Request \ {q} :
        /\ x'[r] = x[r] /\ code'[r] = code[r] /\ seen'[r] = seen[r]
        /\ stream'[r] = stream[r] /\ answer'[r] = answer[r] /\ body'[r] = body[r]
        /\ (r \in unsaved' <=> r \in unsaved)
    /\ \A i \in Inode \ {q} : size'[i] = size[i]

LEMMA RunFrame == ASSUME TypeOK, NEW q \in Request, Run(q) PROVE Frame(q)
  BY DEF TypeOK, Frame, Run, FirstStep, disk

LEMMA MkdirAllFrame == ASSUME TypeOK, NEW q \in Request, MkdirAll(q) PROVE Frame(q)
  BY DEF TypeOK, Frame, MkdirAll, Goes, Tool, disk

LEMMA CreateTempFrame == ASSUME TypeOK, NEW q \in Request, CreateTemp(q) PROVE Frame(q)
  BY DEF TypeOK, Frame, CreateTemp, Goes, Exits, Tool, disk

LEMMA CopyChunkFrame == ASSUME TypeOK, NEW q \in Request, CopyChunk(q) PROVE Frame(q)
  BY DEF TypeOK, Frame, CopyChunk, Tool, disk

LEMMA CopyEndsFrame == ASSUME TypeOK, NEW q \in Request, CopyEnds(q) PROVE Frame(q)
  BY DEF TypeOK, Frame, CopyEnds, Goes, Tool, disk

LEMMA RenameFrame == ASSUME TypeOK, NEW q \in Request, Rename(q) PROVE Frame(q)
  BY DEF TypeOK, Frame, Rename, Exits, Tool, disk

LEMMA OpenFileFrame == ASSUME TypeOK, NEW q \in Request, OpenFile(q) PROVE Frame(q)
  BY DEF TypeOK, Frame, OpenFile, Goes, Exits, Tool, disk

LEMMA SendOutFrame == ASSUME TypeOK, NEW q \in Request, SendOut(q) PROVE Frame(q)
  BY DEF TypeOK, Frame, SendOut, Exits, Tool, disk

LEMMA LstatFrame == ASSUME TypeOK, NEW q \in Request, Lstat(q) PROVE Frame(q)
  BY DEF TypeOK, Frame, Lstat, Goes, Exits, Tool, disk

LEMMA RemoveFileFrame == ASSUME TypeOK, NEW q \in Request, RemoveFile(q) PROVE Frame(q)
  BY DEF TypeOK, Frame, RemoveFile, Exits, Tool, disk

LEMMA EmptyDirFrame == ASSUME TypeOK, NEW q \in Request, EmptyDir(q) PROVE Frame(q)
  BY DEF TypeOK, Frame, EmptyDir, Tool, disk

LEMMA RmDirFrame == ASSUME TypeOK, NEW q \in Request, RmDir(q) PROVE Frame(q)
  BY DEF TypeOK, Frame, RmDir, Exits, Tool, disk

LEMMA AnswerCodeFrame == ASSUME TypeOK, NEW q \in Request, AnswerCode(q) PROVE Frame(q)
  BY DEF TypeOK, Frame, AnswerCode, Says, Handler, disk

LEMMA AnswerBrokenFrame == ASSUME TypeOK, NEW q \in Request, AnswerBroken(q) PROVE Frame(q)
  BY DEF TypeOK, Frame, AnswerBroken, Says, Handler, disk

LEMMA RunFailsFrame == ASSUME TypeOK, NEW q \in Request, RunFails(q) PROVE Frame(q)
  BY DEF TypeOK, Frame, RunFails, Says, Handler, disk

LEMMA BreakFrame == ASSUME TypeOK, NEW q \in Request, Break(q) PROVE Frame(q)
  BY DEF TypeOK, Frame, Break, disk

LEMMA InspectFailsFrame == ASSUME TypeOK, NEW q \in Request, InspectFails(q) PROVE Frame(q)
  BY DEF TypeOK, Frame, InspectFails, Says, Handler, disk

LEMMA CloseFailsFrame == ASSUME TypeOK, NEW q \in Request, CloseFails(q) PROVE Frame(q)
  BY DEF TypeOK, Frame, CloseFails

LEMMA StepFailsFrame == ASSUME TypeOK, NEW q \in Request, StepFails(q) PROVE Frame(q)
  BY DEF TypeOK, Frame, StepFails, Exits, disk

LEMMA KilledFrame == ASSUME TypeOK, NEW q \in Request, Killed(q) PROVE Frame(q)
  BY DEF TypeOK, Frame, Killed, Exits, disk

LEMMA OthersShape ==
    ASSUME NEW q \in Request, NEW r \in Request, r # q, Shape(r), Frame(q)
    PROVE  Shape(r)'
  BY DEF Shape, Frame

(***************************************************************************)
(* What x-fs does for a request, has seen and has said fit together.       *)
(***************************************************************************)
LEMMA NextShape ==
    ASSUME TypeOK, \A q \in Request : Shape(q), [Next]_vars
    PROVE  \A r \in Request : Shape(r)'
<1>1. ASSUME NEW q \in Request, Run(q) PROVE \A r \in Request : Shape(r)'
  <2>1. Frame(q)
    BY <1>1, RunFrame
  <2>2. Shape(q)'
    <3>1. x'[q] = FirstStep(q) /\ stream'[q] = "open"
      BY <1>1 DEF TypeOK, Run
    <3>2. x[q] = "none" /\ code'[q] = code[q] /\ seen'[q] = seen[q] /\ answer'[q] = answer[q] /\ answer[q] = 0
          /\ op' = op
      BY <1>1 DEF TypeOK, Run
    <3>3. op[q] \in {"write", "read", "delete", "prune"}
      BY FileApiAssumption DEF TypeOK
    <3> QED
      BY <3>1, <3>2, <3>3 DEF Shape, FirstStep
  <2> QED
    BY <2>1, <2>2, OthersShape
<1>2. ASSUME NEW q \in Request, MkdirAll(q) PROVE \A r \in Request : Shape(r)'
  <2>1. Frame(q)
    BY <1>2, MkdirAllFrame
  <2>2. Shape(q)'
    BY <1>2 DEF TypeOK, Shape, NoCode, MkdirAll, Goes, Tool
  <2> QED
    BY <2>1, <2>2, OthersShape
<1>3. ASSUME NEW q \in Request, CreateTemp(q) PROVE \A r \in Request : Shape(r)'
  <2>1. Frame(q)
    BY <1>3, CreateTempFrame
  <2>2. Shape(q)'
    BY <1>3 DEF TypeOK, Shape, NoCode, CreateTemp, Goes, Exits, Tool
  <2> QED
    BY <2>1, <2>2, OthersShape
<1>4. ASSUME NEW q \in Request, CopyChunk(q) PROVE \A r \in Request : Shape(r)'
  <2>1. Frame(q)
    BY <1>4, CopyChunkFrame
  <2>2. Shape(q)'
    BY <1>4 DEF TypeOK, Shape, NoCode, CopyChunk, Tool
  <2> QED
    BY <2>1, <2>2, OthersShape
<1>5. ASSUME NEW q \in Request, CopyEnds(q) PROVE \A r \in Request : Shape(r)'
  <2>1. Frame(q)
    BY <1>5, CopyEndsFrame
  <2>2. Shape(q)'
    BY <1>5 DEF TypeOK, Shape, NoCode, CopyEnds, Goes, Tool
  <2> QED
    BY <2>1, <2>2, OthersShape
<1>6. ASSUME NEW q \in Request, Rename(q) PROVE \A r \in Request : Shape(r)'
  <2>1. Frame(q)
    BY <1>6, RenameFrame
  <2>2. Shape(q)'
    BY <1>6 DEF TypeOK, Shape, NoCode, Rename, Exits, Tool
  <2> QED
    BY <2>1, <2>2, OthersShape
<1>7. ASSUME NEW q \in Request, OpenFile(q) PROVE \A r \in Request : Shape(r)'
  <2>1. Frame(q)
    BY <1>7, OpenFileFrame
  <2>2. Shape(q)'
    BY <1>7 DEF TypeOK, Shape, NoCode, OpenFile, Goes, Exits, Tool
  <2> QED
    BY <2>1, <2>2, OthersShape
<1>8. ASSUME NEW q \in Request, SendOut(q) PROVE \A r \in Request : Shape(r)'
  <2>1. Frame(q)
    BY <1>8, SendOutFrame
  <2>2. Shape(q)'
    BY <1>8 DEF TypeOK, Shape, NoCode, SendOut, Exits, Tool
  <2> QED
    BY <2>1, <2>2, OthersShape
<1>9. ASSUME NEW q \in Request, Lstat(q) PROVE \A r \in Request : Shape(r)'
  <2>1. Frame(q)
    BY <1>9, LstatFrame
  <2>2. Shape(q)'
    BY <1>9 DEF TypeOK, Shape, NoCode, Lstat, Goes, Exits, Tool
  <2> QED
    BY <2>1, <2>2, OthersShape
<1>10. ASSUME NEW q \in Request, RemoveFile(q) PROVE \A r \in Request : Shape(r)'
  <2>1. Frame(q)
    BY <1>10, RemoveFileFrame
  <2>2. Shape(q)'
    BY <1>10 DEF TypeOK, Shape, NoCode, RemoveFile, Exits, Tool
  <2> QED
    BY <2>1, <2>2, OthersShape
<1>11. ASSUME NEW q \in Request, EmptyDir(q) PROVE \A r \in Request : Shape(r)'
  <2>1. Frame(q)
    BY <1>11, EmptyDirFrame
  <2>2. Shape(q)'
    BY <1>11 DEF TypeOK, Shape, NoCode, EmptyDir, Tool
  <2> QED
    BY <2>1, <2>2, OthersShape
<1>12. ASSUME NEW q \in Request, RmDir(q) PROVE \A r \in Request : Shape(r)'
  <2>1. Frame(q)
    BY <1>12, RmDirFrame
  <2>2. Shape(q)'
    BY <1>12 DEF TypeOK, Shape, NoCode, RmDir, Exits, Tool
  <2> QED
    BY <2>1, <2>2, OthersShape
<1>13. ASSUME NEW q \in Request, AnswerCode(q) PROVE \A r \in Request : Shape(r)'
  <2>1. Frame(q)
    BY <1>13, AnswerCodeFrame
  <2>2. Shape(q)'
    BY <1>13 DEF TypeOK, Shape, NoCode, AnswerCode, Says, Handler, StatusOf
  <2> QED
    BY <2>1, <2>2, OthersShape
<1>14. ASSUME NEW q \in Request, AnswerBroken(q) PROVE \A r \in Request : Shape(r)'
  <2>1. Frame(q)
    BY <1>14, AnswerBrokenFrame
  <2>2. Shape(q)'
    BY <1>14 DEF TypeOK, Shape, NoCode, AnswerBroken, Says, Handler
  <2> QED
    BY <2>1, <2>2, OthersShape
<1>15. ASSUME NEW q \in Request, RunFails(q), faults' = faults + 1 PROVE \A r \in Request : Shape(r)'
  <2>1. Frame(q)
    BY <1>15, RunFailsFrame
  <2>2. Shape(q)'
    BY <1>15 DEF TypeOK, Shape, NoCode, RunFails, Says, Handler
  <2> QED
    BY <2>1, <2>2, OthersShape
<1>16. ASSUME NEW q \in Request, Break(q), faults' = faults + 1 PROVE \A r \in Request : Shape(r)'
  <2>1. Frame(q)
    BY <1>16, BreakFrame
  <2>2. Shape(q)'
    BY <1>16 DEF TypeOK, Shape, NoCode, Break
  <2> QED
    BY <2>1, <2>2, OthersShape
<1>17. ASSUME NEW q \in Request, StepFails(q), faults' = faults + 1 PROVE \A r \in Request : Shape(r)'
  <2>1. Frame(q)
    BY <1>17, StepFailsFrame
  <2>2. Shape(q)'
    BY <1>17 DEF TypeOK, Shape, NoCode, Steps, StepFails, Exits
  <2> QED
    BY <2>1, <2>2, OthersShape
<1>18. ASSUME NEW q \in Request, Killed(q), faults' = faults + 1 PROVE \A r \in Request : Shape(r)'
  <2>1. Frame(q)
    BY <1>18, KilledFrame
  <2>2. Shape(q)'
    BY <1>18 DEF TypeOK, Shape, NoCode, Signalled, Killed, Exits, Steps, disk
  <2> QED
    BY <2>1, <2>2, OthersShape
<1>20. ASSUME NEW q \in Request, InspectFails(q), faults' = faults + 1 PROVE \A r \in Request : Shape(r)'
  <2>1. Frame(q)
    BY <1>20, InspectFailsFrame
  <2>2. Shape(q)'
    BY <1>20 DEF TypeOK, Shape, NoCode, InspectFails, Says, Handler
  <2> QED
    BY <2>1, <2>2, OthersShape
<1>21. ASSUME NEW q \in Request, CloseFails(q), faults' = faults + 1 PROVE \A r \in Request : Shape(r)'
  <2>1. Frame(q)
    BY <1>21, CloseFailsFrame
  <2>2. Shape(q)'
    BY <1>21 DEF TypeOK, Shape, NoCode, CloseFails
  <2> QED
    BY <2>1, <2>2, OthersShape
<1>19. CASE UNCHANGED vars
  BY <1>19 DEF Shape, vars, disk
<1> QED
  BY <1>1, <1>2, <1>3, <1>4, <1>5, <1>6, <1>7, <1>8, <1>9, <1>10, <1>11,
     <1>12, <1>13, <1>14, <1>15, <1>16, <1>17, <1>18, <1>19, <1>20, <1>21
     DEF Next, Write, Read, Delete, Answer, Fault

(***************************************************************************)
(* An x-fs that has ended does not begin again.                            *)
(***************************************************************************)
LEMMA NextEnded ==
    ASSUME TypeOK, \A q \in Request : Shape(q), [Next]_vars
    PROVE  \A i \in Request : x[i] = "end" => x'[i] = "end"
<1>1. ASSUME NEW q \in Request, Run(q) PROVE \A i \in Request : x[i] = "end" => x'[i] = "end"
  <2>1. Frame(q)
    BY <1>1, RunFrame
  <2>2. x[q] = "end" => x'[q] = "end"
    BY <1>1 DEF TypeOK, Run, FirstStep
  <2> QED
    BY <2>1, <2>2 DEF Frame
<1>2. ASSUME NEW q \in Request, MkdirAll(q) PROVE \A i \in Request : x[i] = "end" => x'[i] = "end"
  <2>1. Frame(q)
    BY <1>2, MkdirAllFrame
  <2>2. x[q] = "end" => x'[q] = "end"
    BY <1>2 DEF TypeOK, MkdirAll, Goes
  <2> QED
    BY <2>1, <2>2 DEF Frame
<1>3. ASSUME NEW q \in Request, CreateTemp(q) PROVE \A i \in Request : x[i] = "end" => x'[i] = "end"
  <2>1. Frame(q)
    BY <1>3, CreateTempFrame
  <2>2. x[q] = "end" => x'[q] = "end"
    BY <1>3 DEF TypeOK, CreateTemp, Goes, Exits
  <2> QED
    BY <2>1, <2>2 DEF Frame
<1>4. ASSUME NEW q \in Request, CopyChunk(q) PROVE \A i \in Request : x[i] = "end" => x'[i] = "end"
  <2>1. Frame(q)
    BY <1>4, CopyChunkFrame
  <2>2. x[q] = "end" => x'[q] = "end"
    BY <1>4 DEF TypeOK, CopyChunk, Tool
  <2> QED
    BY <2>1, <2>2 DEF Frame
<1>5. ASSUME NEW q \in Request, CopyEnds(q) PROVE \A i \in Request : x[i] = "end" => x'[i] = "end"
  <2>1. Frame(q)
    BY <1>5, CopyEndsFrame
  <2>2. x[q] = "end" => x'[q] = "end"
    BY <1>5 DEF TypeOK, CopyEnds, Goes
  <2> QED
    BY <2>1, <2>2 DEF Frame
<1>6. ASSUME NEW q \in Request, Rename(q) PROVE \A i \in Request : x[i] = "end" => x'[i] = "end"
  <2>1. Frame(q)
    BY <1>6, RenameFrame
  <2>2. x[q] = "end" => x'[q] = "end"
    BY <1>6 DEF TypeOK, Rename, Exits
  <2> QED
    BY <2>1, <2>2 DEF Frame
<1>7. ASSUME NEW q \in Request, OpenFile(q) PROVE \A i \in Request : x[i] = "end" => x'[i] = "end"
  <2>1. Frame(q)
    BY <1>7, OpenFileFrame
  <2>2. x[q] = "end" => x'[q] = "end"
    BY <1>7 DEF TypeOK, OpenFile, Goes, Exits
  <2> QED
    BY <2>1, <2>2 DEF Frame
<1>8. ASSUME NEW q \in Request, SendOut(q) PROVE \A i \in Request : x[i] = "end" => x'[i] = "end"
  <2>1. Frame(q)
    BY <1>8, SendOutFrame
  <2>2. x[q] = "end" => x'[q] = "end"
    BY <1>8 DEF TypeOK, SendOut, Exits
  <2> QED
    BY <2>1, <2>2 DEF Frame
<1>9. ASSUME NEW q \in Request, Lstat(q) PROVE \A i \in Request : x[i] = "end" => x'[i] = "end"
  <2>1. Frame(q)
    BY <1>9, LstatFrame
  <2>2. x[q] = "end" => x'[q] = "end"
    BY <1>9 DEF TypeOK, Lstat, Goes, Exits
  <2> QED
    BY <2>1, <2>2 DEF Frame
<1>10. ASSUME NEW q \in Request, RemoveFile(q) PROVE \A i \in Request : x[i] = "end" => x'[i] = "end"
  <2>1. Frame(q)
    BY <1>10, RemoveFileFrame
  <2>2. x[q] = "end" => x'[q] = "end"
    BY <1>10 DEF TypeOK, RemoveFile, Exits
  <2> QED
    BY <2>1, <2>2 DEF Frame
<1>11. ASSUME NEW q \in Request, EmptyDir(q) PROVE \A i \in Request : x[i] = "end" => x'[i] = "end"
  <2>1. Frame(q)
    BY <1>11, EmptyDirFrame
  <2>2. x[q] = "end" => x'[q] = "end"
    BY <1>11 DEF TypeOK, EmptyDir
  <2> QED
    BY <2>1, <2>2 DEF Frame
<1>12. ASSUME NEW q \in Request, RmDir(q) PROVE \A i \in Request : x[i] = "end" => x'[i] = "end"
  <2>1. Frame(q)
    BY <1>12, RmDirFrame
  <2>2. x[q] = "end" => x'[q] = "end"
    BY <1>12 DEF TypeOK, RmDir, Exits
  <2> QED
    BY <2>1, <2>2 DEF Frame
<1>13. ASSUME NEW q \in Request, AnswerCode(q) PROVE \A i \in Request : x[i] = "end" => x'[i] = "end"
  <2>1. Frame(q)
    BY <1>13, AnswerCodeFrame
  <2>2. x[q] = "end" => x'[q] = "end"
    BY <1>13 DEF TypeOK, AnswerCode, Says, Handler
  <2> QED
    BY <2>1, <2>2 DEF Frame
<1>14. ASSUME NEW q \in Request, AnswerBroken(q) PROVE \A i \in Request : x[i] = "end" => x'[i] = "end"
  <2>1. Frame(q)
    BY <1>14, AnswerBrokenFrame
  <2>2. x[q] = "end" => x'[q] = "end"
    BY <1>14 DEF TypeOK, AnswerBroken, Says, Handler
  <2> QED
    BY <2>1, <2>2 DEF Frame
<1>15. ASSUME NEW q \in Request, RunFails(q), faults' = faults + 1 PROVE \A i \in Request : x[i] = "end" => x'[i] = "end"
  <2>1. Frame(q)
    BY <1>15, RunFailsFrame
  <2>2. x[q] = "end" => x'[q] = "end"
    BY <1>15 DEF TypeOK, RunFails, Says, Handler
  <2> QED
    BY <2>1, <2>2 DEF Frame
<1>16. ASSUME NEW q \in Request, Break(q), faults' = faults + 1 PROVE \A i \in Request : x[i] = "end" => x'[i] = "end"
  <2>1. Frame(q)
    BY <1>16, BreakFrame
  <2>2. x[q] = "end" => x'[q] = "end"
    BY <1>16 DEF TypeOK, Break
  <2> QED
    BY <2>1, <2>2 DEF Frame
<1>17. ASSUME NEW q \in Request, StepFails(q), faults' = faults + 1 PROVE \A i \in Request : x[i] = "end" => x'[i] = "end"
  <2>1. Frame(q)
    BY <1>17, StepFailsFrame
  <2>2. x[q] = "end" => x'[q] = "end"
    BY <1>17 DEF TypeOK, StepFails, Exits
  <2> QED
    BY <2>1, <2>2 DEF Frame
<1>18. ASSUME NEW q \in Request, Killed(q), faults' = faults + 1 PROVE \A i \in Request : x[i] = "end" => x'[i] = "end"
  <2>1. Frame(q)
    BY <1>18, KilledFrame
  <2>2. x[q] = "end" => x'[q] = "end"
    BY <1>18 DEF TypeOK, Steps, Killed, Exits
  <2> QED
    BY <2>1, <2>2 DEF Frame
<1>20. ASSUME NEW q \in Request, InspectFails(q), faults' = faults + 1 PROVE \A i \in Request : x[i] = "end" => x'[i] = "end"
  <2>1. Frame(q)
    BY <1>20, InspectFailsFrame
  <2>2. x[q] = "end" => x'[q] = "end"
    BY <1>20 DEF TypeOK, InspectFails, Says, Handler
  <2> QED
    BY <2>1, <2>2 DEF Frame
<1>21. ASSUME NEW q \in Request, CloseFails(q), faults' = faults + 1 PROVE \A i \in Request : x[i] = "end" => x'[i] = "end"
  <2>1. Frame(q)
    BY <1>21, CloseFailsFrame
  <2>2. x[q] = "end" => x'[q] = "end"
    BY <1>21 DEF TypeOK, CloseFails
  <2> QED
    BY <2>1, <2>2 DEF Frame
<1>19. CASE UNCHANGED vars
  BY <1>19 DEF vars
<1> QED
  BY <1>1, <1>2, <1>3, <1>4, <1>5, <1>6, <1>7, <1>8, <1>9, <1>10, <1>11,
     <1>12, <1>13, <1>14, <1>15, <1>16, <1>17, <1>18, <1>19, <1>20, <1>21
     DEF Next, Write, Read, Delete, Answer, Fault

(***************************************************************************)
(* What has a name is finished.                                            *)
(***************************************************************************)
LEMMA NextNamed ==
    ASSUME TypeOK, \A q \in Request : Shape(q), Named, [Next]_vars
    PROVE  Named'
<1>1. ASSUME NEW q \in Request, Run(q) PROVE Named'
  <2>1. \A i \in Request : x[i] = "end" => x'[i] = "end"
    BY NextEnded
  <2>2. Frame(q)
    BY <1>1, RunFrame
  <2>3. file' = file \/ file' = Absent \/ (file' = q /\ x'[q] = "end")
    BY <1>1 DEF TypeOK, Run, FirstStep, disk
  <2>4. seen'[q] = seen[q] \/ seen'[q] = file
    BY <1>1 DEF TypeOK, Run, FirstStep
  <2>5. ~dir' => file' = Absent /\ temp' = {}
    BY <1>1 DEF TypeOK, Named, Run, FirstStep, disk
  <2>6. ASSUME NEW t \in temp' PROVE x'[t] \in {"copy", "rename", "end"}
    <3>1. t \in Request
      BY <2>6, <1>1 DEF TypeOK, Run, FirstStep, disk
    <3>2. t \in temp \/ (t = q /\ x'[q] = "copy")
      BY <2>6, <1>1 DEF TypeOK, Run, FirstStep, disk
    <3>3. CASE t = q /\ x'[q] = "copy"
      BY <3>3
    <3>4. CASE t \in temp /\ t # q
      BY <3>1, <3>4, <2>2 DEF Named, Frame
    <3>5. CASE t \in temp /\ t = q
      <4>1. x[q] \in {"copy", "rename", "end"}
        BY <3>5 DEF Named
      <4> QED
        BY <3>5, <4>1, <1>1, <2>1 DEF TypeOK, Run, FirstStep, disk
    <3> QED
      BY <3>2, <3>3, <3>4, <3>5
  <2> QED
    BY <2>1, <2>2, <2>3, <2>4, <2>5, <2>6, FileApiAssumption DEF Named, Finished, Frame
<1>2. ASSUME NEW q \in Request, MkdirAll(q) PROVE Named'
  <2>1. \A i \in Request : x[i] = "end" => x'[i] = "end"
    BY NextEnded
  <2>2. Frame(q)
    BY <1>2, MkdirAllFrame
  <2>3. file' = file \/ file' = Absent \/ (file' = q /\ x'[q] = "end")
    BY <1>2 DEF TypeOK, MkdirAll, Goes, Tool, disk
  <2>4. seen'[q] = seen[q] \/ seen'[q] = file
    BY <1>2 DEF TypeOK, MkdirAll, Goes, Tool
  <2>5. ~dir' => file' = Absent /\ temp' = {}
    BY <1>2 DEF TypeOK, Named, MkdirAll, Goes, Tool, disk
  <2>6. ASSUME NEW t \in temp' PROVE x'[t] \in {"copy", "rename", "end"}
    <3>1. t \in Request
      BY <2>6, <1>2 DEF TypeOK, MkdirAll, Goes, Tool, disk
    <3>2. t \in temp \/ (t = q /\ x'[q] = "copy")
      BY <2>6, <1>2 DEF TypeOK, MkdirAll, Goes, Tool, disk
    <3>3. CASE t = q /\ x'[q] = "copy"
      BY <3>3
    <3>4. CASE t \in temp /\ t # q
      BY <3>1, <3>4, <2>2 DEF Named, Frame
    <3>5. CASE t \in temp /\ t = q
      <4>1. x[q] \in {"copy", "rename", "end"}
        BY <3>5 DEF Named
      <4> QED
        BY <3>5, <4>1, <1>2, <2>1 DEF TypeOK, MkdirAll, Goes, Tool, disk
    <3> QED
      BY <3>2, <3>3, <3>4, <3>5
  <2> QED
    BY <2>1, <2>2, <2>3, <2>4, <2>5, <2>6, FileApiAssumption DEF Named, Finished, Frame
<1>3. ASSUME NEW q \in Request, CreateTemp(q) PROVE Named'
  <2>1. \A i \in Request : x[i] = "end" => x'[i] = "end"
    BY NextEnded
  <2>2. Frame(q)
    BY <1>3, CreateTempFrame
  <2>3. file' = file \/ file' = Absent \/ (file' = q /\ x'[q] = "end")
    BY <1>3 DEF TypeOK, CreateTemp, Goes, Exits, Tool, disk
  <2>4. seen'[q] = seen[q] \/ seen'[q] = file
    BY <1>3 DEF TypeOK, CreateTemp, Goes, Exits, Tool
  <2>5. ~dir' => file' = Absent /\ temp' = {}
    BY <1>3 DEF TypeOK, Named, CreateTemp, Goes, Exits, Tool, disk
  <2>6. ASSUME NEW t \in temp' PROVE x'[t] \in {"copy", "rename", "end"}
    <3>1. t \in Request
      BY <2>6, <1>3 DEF TypeOK, CreateTemp, Goes, Exits, Tool, disk
    <3>2. t \in temp \/ (t = q /\ x'[q] = "copy")
      BY <2>6, <1>3 DEF TypeOK, CreateTemp, Goes, Exits, Tool, disk
    <3>3. CASE t = q /\ x'[q] = "copy"
      BY <3>3
    <3>4. CASE t \in temp /\ t # q
      BY <3>1, <3>4, <2>2 DEF Named, Frame
    <3>5. CASE t \in temp /\ t = q
      <4>1. x[q] \in {"copy", "rename", "end"}
        BY <3>5 DEF Named
      <4> QED
        BY <3>5, <4>1, <1>3, <2>1 DEF TypeOK, CreateTemp, Goes, Exits, Tool, disk
    <3> QED
      BY <3>2, <3>3, <3>4, <3>5
  <2> QED
    BY <2>1, <2>2, <2>3, <2>4, <2>5, <2>6, FileApiAssumption DEF Named, Finished, Frame
<1>4. ASSUME NEW q \in Request, CopyChunk(q) PROVE Named'
  <2>1. \A i \in Request : x[i] = "end" => x'[i] = "end"
    BY NextEnded
  <2>2. Frame(q)
    BY <1>4, CopyChunkFrame
  <2>3. file' = file \/ file' = Absent \/ (file' = q /\ x'[q] = "end")
    BY <1>4 DEF TypeOK, CopyChunk, Tool, disk
  <2>4. seen'[q] = seen[q] \/ seen'[q] = file
    BY <1>4 DEF TypeOK, CopyChunk, Tool
  <2>5. ~dir' => file' = Absent /\ temp' = {}
    BY <1>4 DEF TypeOK, Named, CopyChunk, Tool, disk
  <2>6. ASSUME NEW t \in temp' PROVE x'[t] \in {"copy", "rename", "end"}
    <3>1. t \in Request
      BY <2>6, <1>4 DEF TypeOK, CopyChunk, Tool, disk
    <3>2. t \in temp \/ (t = q /\ x'[q] = "copy")
      BY <2>6, <1>4 DEF TypeOK, CopyChunk, Tool, disk
    <3>3. CASE t = q /\ x'[q] = "copy"
      BY <3>3
    <3>4. CASE t \in temp /\ t # q
      BY <3>1, <3>4, <2>2 DEF Named, Frame
    <3>5. CASE t \in temp /\ t = q
      <4>1. x[q] \in {"copy", "rename", "end"}
        BY <3>5 DEF Named
      <4> QED
        BY <3>5, <4>1, <1>4, <2>1 DEF TypeOK, CopyChunk, Tool, disk
    <3> QED
      BY <3>2, <3>3, <3>4, <3>5
  <2> QED
    BY <2>1, <2>2, <2>3, <2>4, <2>5, <2>6, FileApiAssumption DEF Named, Finished, Frame
<1>5. ASSUME NEW q \in Request, CopyEnds(q) PROVE Named'
  <2>1. \A i \in Request : x[i] = "end" => x'[i] = "end"
    BY NextEnded
  <2>2. Frame(q)
    BY <1>5, CopyEndsFrame
  <2>3. file' = file \/ file' = Absent \/ (file' = q /\ x'[q] = "end")
    BY <1>5 DEF TypeOK, CopyEnds, Goes, Tool, disk
  <2>4. seen'[q] = seen[q] \/ seen'[q] = file
    BY <1>5 DEF TypeOK, CopyEnds, Goes, Tool
  <2>5. ~dir' => file' = Absent /\ temp' = {}
    BY <1>5 DEF TypeOK, Named, CopyEnds, Goes, Tool, disk
  <2>6. ASSUME NEW t \in temp' PROVE x'[t] \in {"copy", "rename", "end"}
    <3>1. t \in Request
      BY <2>6, <1>5 DEF TypeOK, CopyEnds, Goes, Tool, disk
    <3>2. t \in temp \/ (t = q /\ x'[q] = "copy")
      BY <2>6, <1>5 DEF TypeOK, CopyEnds, Goes, Tool, disk
    <3>3. CASE t = q /\ x'[q] = "copy"
      BY <3>3
    <3>4. CASE t \in temp /\ t # q
      BY <3>1, <3>4, <2>2 DEF Named, Frame
    <3>5. CASE t \in temp /\ t = q
      <4>1. x[q] \in {"copy", "rename", "end"}
        BY <3>5 DEF Named
      <4> QED
        BY <3>5, <4>1, <1>5, <2>1 DEF TypeOK, CopyEnds, Goes, Tool, disk
    <3> QED
      BY <3>2, <3>3, <3>4, <3>5
  <2> QED
    BY <2>1, <2>2, <2>3, <2>4, <2>5, <2>6, FileApiAssumption DEF Named, Finished, Frame
<1>6. ASSUME NEW q \in Request, Rename(q) PROVE Named'
  <2>1. \A i \in Request : x[i] = "end" => x'[i] = "end"
    BY NextEnded
  <2>2. Frame(q)
    BY <1>6, RenameFrame
  <2>3. file' = file \/ file' = Absent \/ (file' = q /\ x'[q] = "end")
    BY <1>6 DEF TypeOK, Rename, Exits, Tool, disk
  <2>4. seen'[q] = seen[q] \/ seen'[q] = file
    BY <1>6 DEF TypeOK, Rename, Exits, Tool
  <2>5. ~dir' => file' = Absent /\ temp' = {}
    BY <1>6 DEF TypeOK, Named, Rename, Exits, Tool, disk
  <2>6. ASSUME NEW t \in temp' PROVE x'[t] \in {"copy", "rename", "end"}
    <3>1. t \in Request
      BY <2>6, <1>6 DEF TypeOK, Rename, Exits, Tool, disk
    <3>2. t \in temp \/ (t = q /\ x'[q] = "copy")
      BY <2>6, <1>6 DEF TypeOK, Rename, Exits, Tool, disk
    <3>3. CASE t = q /\ x'[q] = "copy"
      BY <3>3
    <3>4. CASE t \in temp /\ t # q
      BY <3>1, <3>4, <2>2 DEF Named, Frame
    <3>5. CASE t \in temp /\ t = q
      <4>1. x[q] \in {"copy", "rename", "end"}
        BY <3>5 DEF Named
      <4> QED
        BY <3>5, <4>1, <1>6, <2>1 DEF TypeOK, Rename, Exits, Tool, disk
    <3> QED
      BY <3>2, <3>3, <3>4, <3>5
  <2> QED
    BY <2>1, <2>2, <2>3, <2>4, <2>5, <2>6, FileApiAssumption DEF Named, Finished, Frame
<1>7. ASSUME NEW q \in Request, OpenFile(q) PROVE Named'
  <2>1. \A i \in Request : x[i] = "end" => x'[i] = "end"
    BY NextEnded
  <2>2. Frame(q)
    BY <1>7, OpenFileFrame
  <2>3. file' = file \/ file' = Absent \/ (file' = q /\ x'[q] = "end")
    BY <1>7 DEF TypeOK, OpenFile, Goes, Exits, Tool, disk
  <2>4. seen'[q] = seen[q] \/ seen'[q] = file
    BY <1>7 DEF TypeOK, OpenFile, Goes, Exits, Tool
  <2>5. ~dir' => file' = Absent /\ temp' = {}
    BY <1>7 DEF TypeOK, Named, OpenFile, Goes, Exits, Tool, disk
  <2>6. ASSUME NEW t \in temp' PROVE x'[t] \in {"copy", "rename", "end"}
    <3>1. t \in Request
      BY <2>6, <1>7 DEF TypeOK, OpenFile, Goes, Exits, Tool, disk
    <3>2. t \in temp \/ (t = q /\ x'[q] = "copy")
      BY <2>6, <1>7 DEF TypeOK, OpenFile, Goes, Exits, Tool, disk
    <3>3. CASE t = q /\ x'[q] = "copy"
      BY <3>3
    <3>4. CASE t \in temp /\ t # q
      BY <3>1, <3>4, <2>2 DEF Named, Frame
    <3>5. CASE t \in temp /\ t = q
      <4>1. x[q] \in {"copy", "rename", "end"}
        BY <3>5 DEF Named
      <4> QED
        BY <3>5, <4>1, <1>7, <2>1 DEF TypeOK, OpenFile, Goes, Exits, Tool, disk
    <3> QED
      BY <3>2, <3>3, <3>4, <3>5
  <2> QED
    BY <2>1, <2>2, <2>3, <2>4, <2>5, <2>6, FileApiAssumption DEF Named, Finished, Frame
<1>8. ASSUME NEW q \in Request, SendOut(q) PROVE Named'
  <2>1. \A i \in Request : x[i] = "end" => x'[i] = "end"
    BY NextEnded
  <2>2. Frame(q)
    BY <1>8, SendOutFrame
  <2>3. file' = file \/ file' = Absent \/ (file' = q /\ x'[q] = "end")
    BY <1>8 DEF TypeOK, SendOut, Exits, Tool, disk
  <2>4. seen'[q] = seen[q] \/ seen'[q] = file
    BY <1>8 DEF TypeOK, SendOut, Exits, Tool
  <2>5. ~dir' => file' = Absent /\ temp' = {}
    BY <1>8 DEF TypeOK, Named, SendOut, Exits, Tool, disk
  <2>6. ASSUME NEW t \in temp' PROVE x'[t] \in {"copy", "rename", "end"}
    <3>1. t \in Request
      BY <2>6, <1>8 DEF TypeOK, SendOut, Exits, Tool, disk
    <3>2. t \in temp \/ (t = q /\ x'[q] = "copy")
      BY <2>6, <1>8 DEF TypeOK, SendOut, Exits, Tool, disk
    <3>3. CASE t = q /\ x'[q] = "copy"
      BY <3>3
    <3>4. CASE t \in temp /\ t # q
      BY <3>1, <3>4, <2>2 DEF Named, Frame
    <3>5. CASE t \in temp /\ t = q
      <4>1. x[q] \in {"copy", "rename", "end"}
        BY <3>5 DEF Named
      <4> QED
        BY <3>5, <4>1, <1>8, <2>1 DEF TypeOK, SendOut, Exits, Tool, disk
    <3> QED
      BY <3>2, <3>3, <3>4, <3>5
  <2> QED
    BY <2>1, <2>2, <2>3, <2>4, <2>5, <2>6, FileApiAssumption DEF Named, Finished, Frame
<1>9. ASSUME NEW q \in Request, Lstat(q) PROVE Named'
  <2>1. \A i \in Request : x[i] = "end" => x'[i] = "end"
    BY NextEnded
  <2>2. Frame(q)
    BY <1>9, LstatFrame
  <2>3. file' = file \/ file' = Absent \/ (file' = q /\ x'[q] = "end")
    BY <1>9 DEF TypeOK, Lstat, Goes, Exits, Tool, disk
  <2>4. seen'[q] = seen[q] \/ seen'[q] = file
    BY <1>9 DEF TypeOK, Lstat, Goes, Exits, Tool
  <2>5. ~dir' => file' = Absent /\ temp' = {}
    BY <1>9 DEF TypeOK, Named, Lstat, Goes, Exits, Tool, disk
  <2>6. ASSUME NEW t \in temp' PROVE x'[t] \in {"copy", "rename", "end"}
    <3>1. t \in Request
      BY <2>6, <1>9 DEF TypeOK, Lstat, Goes, Exits, Tool, disk
    <3>2. t \in temp \/ (t = q /\ x'[q] = "copy")
      BY <2>6, <1>9 DEF TypeOK, Lstat, Goes, Exits, Tool, disk
    <3>3. CASE t = q /\ x'[q] = "copy"
      BY <3>3
    <3>4. CASE t \in temp /\ t # q
      BY <3>1, <3>4, <2>2 DEF Named, Frame
    <3>5. CASE t \in temp /\ t = q
      <4>1. x[q] \in {"copy", "rename", "end"}
        BY <3>5 DEF Named
      <4> QED
        BY <3>5, <4>1, <1>9, <2>1 DEF TypeOK, Lstat, Goes, Exits, Tool, disk
    <3> QED
      BY <3>2, <3>3, <3>4, <3>5
  <2> QED
    BY <2>1, <2>2, <2>3, <2>4, <2>5, <2>6, FileApiAssumption DEF Named, Finished, Frame
<1>10. ASSUME NEW q \in Request, RemoveFile(q) PROVE Named'
  <2>1. \A i \in Request : x[i] = "end" => x'[i] = "end"
    BY NextEnded
  <2>2. Frame(q)
    BY <1>10, RemoveFileFrame
  <2>3. file' = file \/ file' = Absent \/ (file' = q /\ x'[q] = "end")
    BY <1>10 DEF TypeOK, RemoveFile, Exits, Tool, disk
  <2>4. seen'[q] = seen[q] \/ seen'[q] = file
    BY <1>10 DEF TypeOK, RemoveFile, Exits, Tool
  <2>5. ~dir' => file' = Absent /\ temp' = {}
    BY <1>10 DEF TypeOK, Named, RemoveFile, Exits, Tool, disk
  <2>6. ASSUME NEW t \in temp' PROVE x'[t] \in {"copy", "rename", "end"}
    <3>1. t \in Request
      BY <2>6, <1>10 DEF TypeOK, RemoveFile, Exits, Tool, disk
    <3>2. t \in temp \/ (t = q /\ x'[q] = "copy")
      BY <2>6, <1>10 DEF TypeOK, RemoveFile, Exits, Tool, disk
    <3>3. CASE t = q /\ x'[q] = "copy"
      BY <3>3
    <3>4. CASE t \in temp /\ t # q
      BY <3>1, <3>4, <2>2 DEF Named, Frame
    <3>5. CASE t \in temp /\ t = q
      <4>1. x[q] \in {"copy", "rename", "end"}
        BY <3>5 DEF Named
      <4> QED
        BY <3>5, <4>1, <1>10, <2>1 DEF TypeOK, RemoveFile, Exits, Tool, disk
    <3> QED
      BY <3>2, <3>3, <3>4, <3>5
  <2> QED
    BY <2>1, <2>2, <2>3, <2>4, <2>5, <2>6, FileApiAssumption DEF Named, Finished, Frame
<1>11. ASSUME NEW q \in Request, EmptyDir(q) PROVE Named'
  <2>1. \A i \in Request : x[i] = "end" => x'[i] = "end"
    BY NextEnded
  <2>2. Frame(q)
    BY <1>11, EmptyDirFrame
  <2>3. file' = file \/ file' = Absent \/ (file' = q /\ x'[q] = "end")
    BY <1>11 DEF TypeOK, EmptyDir, Tool, disk
  <2>4. seen'[q] = seen[q] \/ seen'[q] = file
    BY <1>11 DEF TypeOK, EmptyDir, Tool
  <2>5. ~dir' => file' = Absent /\ temp' = {}
    BY <1>11 DEF TypeOK, Named, EmptyDir, Tool, disk
  <2>6. ASSUME NEW t \in temp' PROVE x'[t] \in {"copy", "rename", "end"}
    <3>1. t \in Request
      BY <2>6, <1>11 DEF TypeOK, EmptyDir, Tool, disk
    <3>2. t \in temp \/ (t = q /\ x'[q] = "copy")
      BY <2>6, <1>11 DEF TypeOK, EmptyDir, Tool, disk
    <3>3. CASE t = q /\ x'[q] = "copy"
      BY <3>3
    <3>4. CASE t \in temp /\ t # q
      BY <3>1, <3>4, <2>2 DEF Named, Frame
    <3>5. CASE t \in temp /\ t = q
      <4>1. x[q] \in {"copy", "rename", "end"}
        BY <3>5 DEF Named
      <4> QED
        BY <3>5, <4>1, <1>11, <2>1 DEF TypeOK, EmptyDir, Tool, disk
    <3> QED
      BY <3>2, <3>3, <3>4, <3>5
  <2> QED
    BY <2>1, <2>2, <2>3, <2>4, <2>5, <2>6, FileApiAssumption DEF Named, Finished, Frame
<1>12. ASSUME NEW q \in Request, RmDir(q) PROVE Named'
  <2>1. \A i \in Request : x[i] = "end" => x'[i] = "end"
    BY NextEnded
  <2>2. Frame(q)
    BY <1>12, RmDirFrame
  <2>3. file' = file \/ file' = Absent \/ (file' = q /\ x'[q] = "end")
    BY <1>12 DEF TypeOK, RmDir, Exits, Tool, disk
  <2>4. seen'[q] = seen[q] \/ seen'[q] = file
    BY <1>12 DEF TypeOK, RmDir, Exits, Tool
  <2>5. ~dir' => file' = Absent /\ temp' = {}
    BY <1>12 DEF TypeOK, Named, RmDir, Exits, Tool, disk
  <2>6. ASSUME NEW t \in temp' PROVE x'[t] \in {"copy", "rename", "end"}
    <3>1. t \in Request
      BY <2>6, <1>12 DEF TypeOK, RmDir, Exits, Tool, disk
    <3>2. t \in temp \/ (t = q /\ x'[q] = "copy")
      BY <2>6, <1>12 DEF TypeOK, RmDir, Exits, Tool, disk
    <3>3. CASE t = q /\ x'[q] = "copy"
      BY <3>3
    <3>4. CASE t \in temp /\ t # q
      BY <3>1, <3>4, <2>2 DEF Named, Frame
    <3>5. CASE t \in temp /\ t = q
      <4>1. x[q] \in {"copy", "rename", "end"}
        BY <3>5 DEF Named
      <4> QED
        BY <3>5, <4>1, <1>12, <2>1 DEF TypeOK, RmDir, Exits, Tool, disk
    <3> QED
      BY <3>2, <3>3, <3>4, <3>5
  <2> QED
    BY <2>1, <2>2, <2>3, <2>4, <2>5, <2>6, FileApiAssumption DEF Named, Finished, Frame
<1>13. ASSUME NEW q \in Request, AnswerCode(q) PROVE Named'
  <2>1. \A i \in Request : x[i] = "end" => x'[i] = "end"
    BY NextEnded
  <2>2. Frame(q)
    BY <1>13, AnswerCodeFrame
  <2>3. file' = file \/ file' = Absent \/ (file' = q /\ x'[q] = "end")
    BY <1>13 DEF TypeOK, AnswerCode, Says, Handler, disk
  <2>4. seen'[q] = seen[q] \/ seen'[q] = file
    BY <1>13 DEF TypeOK, AnswerCode, Says, Handler
  <2>5. ~dir' => file' = Absent /\ temp' = {}
    BY <1>13 DEF TypeOK, Named, AnswerCode, Says, Handler, disk
  <2>6. ASSUME NEW t \in temp' PROVE x'[t] \in {"copy", "rename", "end"}
    <3>1. t \in Request
      BY <2>6, <1>13 DEF TypeOK, AnswerCode, Says, Handler, disk
    <3>2. t \in temp \/ (t = q /\ x'[q] = "copy")
      BY <2>6, <1>13 DEF TypeOK, AnswerCode, Says, Handler, disk
    <3>3. CASE t = q /\ x'[q] = "copy"
      BY <3>3
    <3>4. CASE t \in temp /\ t # q
      BY <3>1, <3>4, <2>2 DEF Named, Frame
    <3>5. CASE t \in temp /\ t = q
      <4>1. x[q] \in {"copy", "rename", "end"}
        BY <3>5 DEF Named
      <4> QED
        BY <3>5, <4>1, <1>13, <2>1 DEF TypeOK, AnswerCode, Says, Handler, disk
    <3> QED
      BY <3>2, <3>3, <3>4, <3>5
  <2> QED
    BY <2>1, <2>2, <2>3, <2>4, <2>5, <2>6, FileApiAssumption DEF Named, Finished, Frame
<1>14. ASSUME NEW q \in Request, AnswerBroken(q) PROVE Named'
  <2>1. \A i \in Request : x[i] = "end" => x'[i] = "end"
    BY NextEnded
  <2>2. Frame(q)
    BY <1>14, AnswerBrokenFrame
  <2>3. file' = file \/ file' = Absent \/ (file' = q /\ x'[q] = "end")
    BY <1>14 DEF TypeOK, AnswerBroken, Says, Handler, disk
  <2>4. seen'[q] = seen[q] \/ seen'[q] = file
    BY <1>14 DEF TypeOK, AnswerBroken, Says, Handler
  <2>5. ~dir' => file' = Absent /\ temp' = {}
    BY <1>14 DEF TypeOK, Named, AnswerBroken, Says, Handler, disk
  <2>6. ASSUME NEW t \in temp' PROVE x'[t] \in {"copy", "rename", "end"}
    <3>1. t \in Request
      BY <2>6, <1>14 DEF TypeOK, AnswerBroken, Says, Handler, disk
    <3>2. t \in temp \/ (t = q /\ x'[q] = "copy")
      BY <2>6, <1>14 DEF TypeOK, AnswerBroken, Says, Handler, disk
    <3>3. CASE t = q /\ x'[q] = "copy"
      BY <3>3
    <3>4. CASE t \in temp /\ t # q
      BY <3>1, <3>4, <2>2 DEF Named, Frame
    <3>5. CASE t \in temp /\ t = q
      <4>1. x[q] \in {"copy", "rename", "end"}
        BY <3>5 DEF Named
      <4> QED
        BY <3>5, <4>1, <1>14, <2>1 DEF TypeOK, AnswerBroken, Says, Handler, disk
    <3> QED
      BY <3>2, <3>3, <3>4, <3>5
  <2> QED
    BY <2>1, <2>2, <2>3, <2>4, <2>5, <2>6, FileApiAssumption DEF Named, Finished, Frame
<1>15. ASSUME NEW q \in Request, RunFails(q), faults' = faults + 1 PROVE Named'
  <2>1. \A i \in Request : x[i] = "end" => x'[i] = "end"
    BY NextEnded
  <2>2. Frame(q)
    BY <1>15, RunFailsFrame
  <2>3. file' = file \/ file' = Absent \/ (file' = q /\ x'[q] = "end")
    BY <1>15 DEF TypeOK, RunFails, Says, Handler, disk
  <2>4. seen'[q] = seen[q] \/ seen'[q] = file
    BY <1>15 DEF TypeOK, RunFails, Says, Handler
  <2>5. ~dir' => file' = Absent /\ temp' = {}
    BY <1>15 DEF TypeOK, Named, RunFails, Says, Handler, disk
  <2>6. ASSUME NEW t \in temp' PROVE x'[t] \in {"copy", "rename", "end"}
    <3>1. t \in Request
      BY <2>6, <1>15 DEF TypeOK, RunFails, Says, Handler, disk
    <3>2. t \in temp \/ (t = q /\ x'[q] = "copy")
      BY <2>6, <1>15 DEF TypeOK, RunFails, Says, Handler, disk
    <3>3. CASE t = q /\ x'[q] = "copy"
      BY <3>3
    <3>4. CASE t \in temp /\ t # q
      BY <3>1, <3>4, <2>2 DEF Named, Frame
    <3>5. CASE t \in temp /\ t = q
      <4>1. x[q] \in {"copy", "rename", "end"}
        BY <3>5 DEF Named
      <4> QED
        BY <3>5, <4>1, <1>15, <2>1 DEF TypeOK, RunFails, Says, Handler, disk
    <3> QED
      BY <3>2, <3>3, <3>4, <3>5
  <2> QED
    BY <2>1, <2>2, <2>3, <2>4, <2>5, <2>6, FileApiAssumption DEF Named, Finished, Frame
<1>16. ASSUME NEW q \in Request, Break(q), faults' = faults + 1 PROVE Named'
  <2>1. \A i \in Request : x[i] = "end" => x'[i] = "end"
    BY NextEnded
  <2>2. Frame(q)
    BY <1>16, BreakFrame
  <2>3. file' = file \/ file' = Absent \/ (file' = q /\ x'[q] = "end")
    BY <1>16 DEF TypeOK, Break, disk
  <2>4. seen'[q] = seen[q] \/ seen'[q] = file
    BY <1>16 DEF TypeOK, Break
  <2>5. ~dir' => file' = Absent /\ temp' = {}
    BY <1>16 DEF TypeOK, Named, Break, disk
  <2>6. ASSUME NEW t \in temp' PROVE x'[t] \in {"copy", "rename", "end"}
    <3>1. t \in Request
      BY <2>6, <1>16 DEF TypeOK, Break, disk
    <3>2. t \in temp \/ (t = q /\ x'[q] = "copy")
      BY <2>6, <1>16 DEF TypeOK, Break, disk
    <3>3. CASE t = q /\ x'[q] = "copy"
      BY <3>3
    <3>4. CASE t \in temp /\ t # q
      BY <3>1, <3>4, <2>2 DEF Named, Frame
    <3>5. CASE t \in temp /\ t = q
      <4>1. x[q] \in {"copy", "rename", "end"}
        BY <3>5 DEF Named
      <4> QED
        BY <3>5, <4>1, <1>16, <2>1 DEF TypeOK, Break, disk
    <3> QED
      BY <3>2, <3>3, <3>4, <3>5
  <2> QED
    BY <2>1, <2>2, <2>3, <2>4, <2>5, <2>6, FileApiAssumption DEF Named, Finished, Frame
<1>17. ASSUME NEW q \in Request, StepFails(q), faults' = faults + 1 PROVE Named'
  <2>1. \A i \in Request : x[i] = "end" => x'[i] = "end"
    BY NextEnded
  <2>2. Frame(q)
    BY <1>17, StepFailsFrame
  <2>3. file' = file \/ file' = Absent \/ (file' = q /\ x'[q] = "end")
    BY <1>17 DEF TypeOK, StepFails, Exits, disk
  <2>4. seen'[q] = seen[q] \/ seen'[q] = file
    BY <1>17 DEF TypeOK, StepFails, Exits
  <2>5. ~dir' => file' = Absent /\ temp' = {}
    BY <1>17 DEF TypeOK, Named, StepFails, Exits, disk
  <2>6. ASSUME NEW t \in temp' PROVE x'[t] \in {"copy", "rename", "end"}
    <3>1. t \in Request
      BY <2>6, <1>17 DEF TypeOK, StepFails, Exits, disk
    <3>2. t \in temp \/ (t = q /\ x'[q] = "copy")
      BY <2>6, <1>17 DEF TypeOK, StepFails, Exits, disk
    <3>3. CASE t = q /\ x'[q] = "copy"
      BY <3>3
    <3>4. CASE t \in temp /\ t # q
      BY <3>1, <3>4, <2>2 DEF Named, Frame
    <3>5. CASE t \in temp /\ t = q
      <4>1. x[q] \in {"copy", "rename", "end"}
        BY <3>5 DEF Named
      <4> QED
        BY <3>5, <4>1, <1>17, <2>1 DEF TypeOK, StepFails, Exits, disk
    <3> QED
      BY <3>2, <3>3, <3>4, <3>5
  <2> QED
    BY <2>1, <2>2, <2>3, <2>4, <2>5, <2>6, FileApiAssumption DEF Named, Finished, Frame
<1>18. ASSUME NEW q \in Request, Killed(q), faults' = faults + 1 PROVE Named'
  <2>1. \A i \in Request : x[i] = "end" => x'[i] = "end"
    BY NextEnded
  <2>2. Frame(q)
    BY <1>18, KilledFrame
  <2>3. file' = file \/ file' = Absent \/ (file' = q /\ x'[q] = "end")
    BY <1>18 DEF TypeOK, Killed, Exits, disk
  <2>4. seen'[q] = seen[q] \/ seen'[q] = file
    BY <1>18 DEF TypeOK, Killed, Exits
  <2>5. ~dir' => file' = Absent /\ temp' = {}
    BY <1>18 DEF TypeOK, Named, Killed, Exits, disk
  <2>6. ASSUME NEW t \in temp' PROVE x'[t] \in {"copy", "rename", "end"}
    <3>1. t \in Request
      BY <2>6, <1>18 DEF TypeOK, Killed, Exits, disk
    <3>2. t \in temp \/ (t = q /\ x'[q] = "copy")
      BY <2>6, <1>18 DEF TypeOK, Killed, Exits, disk
    <3>3. CASE t = q /\ x'[q] = "copy"
      BY <3>3
    <3>4. CASE t \in temp /\ t # q
      BY <3>1, <3>4, <2>2 DEF Named, Frame
    <3>5. CASE t \in temp /\ t = q
      <4>1. x[q] \in {"copy", "rename", "end"}
        BY <3>5 DEF Named
      <4> QED
        BY <3>5, <4>1, <1>18, <2>1 DEF TypeOK, Killed, Exits, disk
    <3> QED
      BY <3>2, <3>3, <3>4, <3>5
  <2> QED
    BY <2>1, <2>2, <2>3, <2>4, <2>5, <2>6, FileApiAssumption DEF Named, Finished, Frame
<1>20. ASSUME NEW q \in Request, InspectFails(q), faults' = faults + 1 PROVE Named'
  <2>1. \A i \in Request : x[i] = "end" => x'[i] = "end"
    BY NextEnded
  <2>2. Frame(q)
    BY <1>20, InspectFailsFrame
  <2>3. file' = file \/ file' = Absent \/ (file' = q /\ x'[q] = "end")
    BY <1>20 DEF TypeOK, InspectFails, Says, Handler, disk
  <2>4. seen'[q] = seen[q] \/ seen'[q] = file
    BY <1>20 DEF TypeOK, InspectFails, Says, Handler
  <2>5. ~dir' => file' = Absent /\ temp' = {}
    BY <1>20 DEF TypeOK, Named, InspectFails, Says, Handler, disk
  <2>6. ASSUME NEW t \in temp' PROVE x'[t] \in {"copy", "rename", "end"}
    <3>1. t \in Request
      BY <2>6, <1>20 DEF TypeOK, InspectFails, Says, Handler, disk
    <3>2. t \in temp \/ (t = q /\ x'[q] = "copy")
      BY <2>6, <1>20 DEF TypeOK, InspectFails, Says, Handler, disk
    <3>3. CASE t = q /\ x'[q] = "copy"
      BY <3>3
    <3>4. CASE t \in temp /\ t # q
      BY <3>1, <3>4, <2>2 DEF Named, Frame
    <3>5. CASE t \in temp /\ t = q
      <4>1. x[q] \in {"copy", "rename", "end"}
        BY <3>5 DEF Named
      <4> QED
        BY <3>5, <4>1, <1>20, <2>1 DEF TypeOK, InspectFails, Says, Handler, disk
    <3> QED
      BY <3>2, <3>3, <3>4, <3>5
  <2> QED
    BY <2>1, <2>2, <2>3, <2>4, <2>5, <2>6, FileApiAssumption DEF Named, Finished, Frame
<1>21. ASSUME NEW q \in Request, CloseFails(q), faults' = faults + 1 PROVE Named'
  <2>1. \A i \in Request : x[i] = "end" => x'[i] = "end"
    BY NextEnded
  <2>2. Frame(q)
    BY <1>21, CloseFailsFrame
  <2>3. file' = file \/ file' = Absent \/ (file' = q /\ x'[q] = "end")
    BY <1>21 DEF TypeOK, CloseFails, disk
  <2>4. seen'[q] = seen[q] \/ seen'[q] = file
    BY <1>21 DEF TypeOK, CloseFails
  <2>5. ~dir' => file' = Absent /\ temp' = {}
    BY <1>21 DEF TypeOK, Named, CloseFails, disk
  <2>6. ASSUME NEW t \in temp' PROVE x'[t] \in {"copy", "rename", "end"}
    <3>1. t \in Request
      BY <2>6, <1>21 DEF TypeOK, CloseFails, disk
    <3>2. t \in temp \/ (t = q /\ x'[q] = "copy")
      BY <2>6, <1>21 DEF TypeOK, CloseFails, disk
    <3>3. CASE t = q /\ x'[q] = "copy"
      BY <3>3
    <3>4. CASE t \in temp /\ t # q
      BY <3>1, <3>4, <2>2 DEF Named, Frame
    <3>5. CASE t \in temp /\ t = q
      <4>1. x[q] \in {"copy", "rename", "end"}
        BY <3>5 DEF Named
      <4> QED
        BY <3>5, <4>1, <1>21, <2>1 DEF TypeOK, CloseFails, disk
    <3> QED
      BY <3>2, <3>3, <3>4, <3>5
  <2> QED
    BY <2>1, <2>2, <2>3, <2>4, <2>5, <2>6, FileApiAssumption DEF Named, Finished, Frame
<1>19. CASE UNCHANGED vars
  BY <1>19 DEF Named, Finished, vars, disk
<1> QED
  BY <1>1, <1>2, <1>3, <1>4, <1>5, <1>6, <1>7, <1>8, <1>9, <1>10, <1>11,
     <1>12, <1>13, <1>14, <1>15, <1>16, <1>17, <1>18, <1>19, <1>20, <1>21
     DEF Next, Write, Read, Delete, Answer, Fault

(***************************************************************************)
(* What was whole stays whole when another request takes a step.           *)
(***************************************************************************)
LEMMA WholeStays ==
    ASSUME TypeOK, Named, Whole, NEW q \in Request, NEW r \in Request, r # q, Shape(r),
           Frame(q), \A i \in Inode : Finished(i) => size'[i] = size[i], stream'[r] = "open",
           r \notin unsaved'
    PROVE  (x'[r] = "rename" => size'[r] = Size) /\ (code'[r] = 0 => Done(r)')
<1>1. /\ x'[r] = x[r] /\ code'[r] = code[r] /\ seen'[r] = seen[r] /\ stream'[r] = stream[r]
      /\ body'[r] = body[r] /\ op' = op /\ size'[r] = size[r] /\ r \notin unsaved
  BY DEF Frame, Inode
<1>2. ASSUME code[r] = 0 PROVE Done(r)'
  <2>1. Done(r)
    BY <1>1, <1>2 DEF Whole
  <2>2. CASE op[r] = "read"
    <3>1. seen[r] # Absent /\ seen[r] \in Inode /\ Finished(seen[r])
      BY <1>2, <2>2 DEF TypeOK, Shape, Named
    <3>2. size'[seen[r]] = size[seen[r]] /\ body[r] = size[seen[r]]
      BY <2>1, <2>2, <3>1 DEF Done
    <3> QED
      BY <1>1, <2>2, <3>1, <3>2 DEF Done
  <2>3. CASE op[r] # "read"
    BY <1>1, <2>1, <2>3 DEF Done
  <2> QED
    BY <2>2, <2>3
<1> QED
  BY <1>1, <1>2 DEF Whole

(***************************************************************************)
(* A content is whole unless its stream broke.                             *)
(***************************************************************************)
LEMMA NextWhole ==
    ASSUME TypeOK, \A q \in Request : Shape(q), Named, Whole, [Next]_vars
    PROVE  Whole'
<1>1. ASSUME NEW q \in Request, Run(q) PROVE Whole'
  <2>1. Frame(q)
    BY <1>1, RunFrame
  <2>2. \A i \in Inode : Finished(i) => size'[i] = size[i]
    BY <1>1 DEF Run, FirstStep, disk
  <2>3. ASSUME stream'[q] = "open", q \notin unsaved'
        PROVE  (x'[q] = "rename" => size'[q] = Size) /\ (code'[q] = 0 => Done(q)')
    BY <1>1, <2>3 DEF TypeOK, Shape, NoCode, Run, FirstStep
  <2>4. ASSUME NEW r \in Request, r # q, stream'[r] = "open", r \notin unsaved'
        PROVE  (x'[r] = "rename" => size'[r] = Size) /\ (code'[r] = 0 => Done(r)')
    BY <2>1, <2>2, <2>4, WholeStays
  <2> QED
    BY <2>3, <2>4 DEF Whole
<1>2. ASSUME NEW q \in Request, MkdirAll(q) PROVE Whole'
  <2>1. Frame(q)
    BY <1>2, MkdirAllFrame
  <2>2. \A i \in Inode : Finished(i) => size'[i] = size[i]
    BY <1>2 DEF MkdirAll, Goes, Tool, disk
  <2>3. ASSUME stream'[q] = "open", q \notin unsaved'
        PROVE  (x'[q] = "rename" => size'[q] = Size) /\ (code'[q] = 0 => Done(q)')
    BY <1>2, <2>3 DEF TypeOK, Shape, NoCode, MkdirAll, Goes, Tool, FirstStep
  <2>4. ASSUME NEW r \in Request, r # q, stream'[r] = "open", r \notin unsaved'
        PROVE  (x'[r] = "rename" => size'[r] = Size) /\ (code'[r] = 0 => Done(r)')
    BY <2>1, <2>2, <2>4, WholeStays
  <2> QED
    BY <2>3, <2>4 DEF Whole
<1>3. ASSUME NEW q \in Request, CreateTemp(q) PROVE Whole'
  <2>1. Frame(q)
    BY <1>3, CreateTempFrame
  <2>2. \A i \in Inode : Finished(i) => size'[i] = size[i]
    BY <1>3 DEF CreateTemp, Goes, Exits, Tool, disk
  <2>3. ASSUME stream'[q] = "open", q \notin unsaved'
        PROVE  (x'[q] = "rename" => size'[q] = Size) /\ (code'[q] = 0 => Done(q)')
    BY <1>3, <2>3 DEF TypeOK, Shape, NoCode, CreateTemp, Goes, Exits, Tool,
                    FirstStep
  <2>4. ASSUME NEW r \in Request, r # q, stream'[r] = "open", r \notin unsaved'
        PROVE  (x'[r] = "rename" => size'[r] = Size) /\ (code'[r] = 0 => Done(r)')
    BY <2>1, <2>2, <2>4, WholeStays
  <2> QED
    BY <2>3, <2>4 DEF Whole
<1>4. ASSUME NEW q \in Request, CopyChunk(q) PROVE Whole'
  <2>1. Frame(q)
    BY <1>4, CopyChunkFrame
  <2>2. \A i \in Inode : Finished(i) => size'[i] = size[i]
    <3>1. \A i \in Inode \ {q} : size'[i] = size[i]
      BY <2>1 DEF Frame
    <3>2. ~Finished(q)
      BY <1>4 DEF CopyChunk, Finished
    <3> QED
      BY <3>1, <3>2
  <2>3. ASSUME stream'[q] = "open", q \notin unsaved'
        PROVE  (x'[q] = "rename" => size'[q] = Size) /\ (code'[q] = 0 => Done(q)')
    BY <1>4, <2>3 DEF TypeOK, Shape, NoCode, CopyChunk, Tool, FirstStep
  <2>4. ASSUME NEW r \in Request, r # q, stream'[r] = "open", r \notin unsaved'
        PROVE  (x'[r] = "rename" => size'[r] = Size) /\ (code'[r] = 0 => Done(r)')
    BY <2>1, <2>2, <2>4, WholeStays
  <2> QED
    BY <2>3, <2>4 DEF Whole
<1>5. ASSUME NEW q \in Request, CopyEnds(q) PROVE Whole'
  <2>1. Frame(q)
    BY <1>5, CopyEndsFrame
  <2>2. \A i \in Inode : Finished(i) => size'[i] = size[i]
    BY <1>5 DEF CopyEnds, Goes, Tool, disk
  <2>3. ASSUME stream'[q] = "open", q \notin unsaved'
        PROVE  (x'[q] = "rename" => size'[q] = Size) /\ (code'[q] = 0 => Done(q)')
    <3>1. UNCHANGED <<stream, size, op, code>> /\ x[q] = "copy"
      BY <1>5 DEF CopyEnds, Goes, Tool, disk
    <3>2. size[q] = Size /\ code[q] # 0
      BY <1>5, <2>3, <3>1 DEF CopyEnds, Shape, NoCode
    <3> QED
      BY <3>1, <3>2
  <2>4. ASSUME NEW r \in Request, r # q, stream'[r] = "open", r \notin unsaved'
        PROVE  (x'[r] = "rename" => size'[r] = Size) /\ (code'[r] = 0 => Done(r)')
    BY <2>1, <2>2, <2>4, WholeStays
  <2> QED
    BY <2>3, <2>4 DEF Whole
<1>6. ASSUME NEW q \in Request, Rename(q) PROVE Whole'
  <2>1. Frame(q)
    BY <1>6, RenameFrame
  <2>2. \A i \in Inode : Finished(i) => size'[i] = size[i]
    BY <1>6 DEF Rename, Exits, Tool, disk
  <2>3. ASSUME stream'[q] = "open", q \notin unsaved'
        PROVE  (x'[q] = "rename" => size'[q] = Size) /\ (code'[q] = 0 => Done(q)')
    <3>1. UNCHANGED <<stream, size, op, unsaved>> /\ x'[q] = "end" /\ x[q] = "rename"
      BY <1>6 DEF TypeOK, Rename, Exits, Tool, disk
    <3>2. op[q] = "write" /\ size[q] = Size
      BY <2>3, <3>1 DEF Whole, Shape
    <3> QED
      BY <3>1, <3>2 DEF Done
  <2>4. ASSUME NEW r \in Request, r # q, stream'[r] = "open", r \notin unsaved'
        PROVE  (x'[r] = "rename" => size'[r] = Size) /\ (code'[r] = 0 => Done(r)')
    BY <2>1, <2>2, <2>4, WholeStays
  <2> QED
    BY <2>3, <2>4 DEF Whole
<1>7. ASSUME NEW q \in Request, OpenFile(q) PROVE Whole'
  <2>1. Frame(q)
    BY <1>7, OpenFileFrame
  <2>2. \A i \in Inode : Finished(i) => size'[i] = size[i]
    BY <1>7 DEF OpenFile, Goes, Exits, Tool, disk
  <2>3. ASSUME stream'[q] = "open", q \notin unsaved'
        PROVE  (x'[q] = "rename" => size'[q] = Size) /\ (code'[q] = 0 => Done(q)')
    BY <1>7, <2>3 DEF TypeOK, Shape, NoCode, OpenFile, Goes, Exits, Tool,
                    FirstStep
  <2>4. ASSUME NEW r \in Request, r # q, stream'[r] = "open", r \notin unsaved'
        PROVE  (x'[r] = "rename" => size'[r] = Size) /\ (code'[r] = 0 => Done(r)')
    BY <2>1, <2>2, <2>4, WholeStays
  <2> QED
    BY <2>3, <2>4 DEF Whole
<1>8. ASSUME NEW q \in Request, SendOut(q) PROVE Whole'
  <2>1. Frame(q)
    BY <1>8, SendOutFrame
  <2>2. \A i \in Inode : Finished(i) => size'[i] = size[i]
    BY <1>8 DEF SendOut, Exits, Tool, disk
  <2>3. ASSUME stream'[q] = "open", q \notin unsaved'
        PROVE  (x'[q] = "rename" => size'[q] = Size) /\ (code'[q] = 0 => Done(q)')
    <3>1. UNCHANGED <<stream, size, op, seen>> /\ x'[q] = "end"
      BY <1>8 DEF TypeOK, SendOut, Exits, Tool, disk
    <3>2. body'[q] = size[seen[q]] /\ op[q] = "read" /\ seen[q] # Absent
      BY <1>8, <2>3, <3>1 DEF TypeOK, Shape, SendOut
    <3> QED
      BY <3>1, <3>2 DEF Done
  <2>4. ASSUME NEW r \in Request, r # q, stream'[r] = "open", r \notin unsaved'
        PROVE  (x'[r] = "rename" => size'[r] = Size) /\ (code'[r] = 0 => Done(r)')
    BY <2>1, <2>2, <2>4, WholeStays
  <2> QED
    BY <2>3, <2>4 DEF Whole
<1>9. ASSUME NEW q \in Request, Lstat(q) PROVE Whole'
  <2>1. Frame(q)
    BY <1>9, LstatFrame
  <2>2. \A i \in Inode : Finished(i) => size'[i] = size[i]
    BY <1>9 DEF Lstat, Goes, Exits, Tool, disk
  <2>3. ASSUME stream'[q] = "open", q \notin unsaved'
        PROVE  (x'[q] = "rename" => size'[q] = Size) /\ (code'[q] = 0 => Done(q)')
    BY <1>9, <2>3 DEF TypeOK, Shape, NoCode, Lstat, Goes, Exits, Tool,
                    FirstStep
  <2>4. ASSUME NEW r \in Request, r # q, stream'[r] = "open", r \notin unsaved'
        PROVE  (x'[r] = "rename" => size'[r] = Size) /\ (code'[r] = 0 => Done(r)')
    BY <2>1, <2>2, <2>4, WholeStays
  <2> QED
    BY <2>3, <2>4 DEF Whole
<1>10. ASSUME NEW q \in Request, RemoveFile(q) PROVE Whole'
  <2>1. Frame(q)
    BY <1>10, RemoveFileFrame
  <2>2. \A i \in Inode : Finished(i) => size'[i] = size[i]
    BY <1>10 DEF RemoveFile, Exits, Tool, disk
  <2>3. ASSUME stream'[q] = "open", q \notin unsaved'
        PROVE  (x'[q] = "rename" => size'[q] = Size) /\ (code'[q] = 0 => Done(q)')
    BY <1>10, <2>3 DEF TypeOK, Shape, NoCode, Done, RemoveFile, Exits, Tool,
                    FirstStep
  <2>4. ASSUME NEW r \in Request, r # q, stream'[r] = "open", r \notin unsaved'
        PROVE  (x'[r] = "rename" => size'[r] = Size) /\ (code'[r] = 0 => Done(r)')
    BY <2>1, <2>2, <2>4, WholeStays
  <2> QED
    BY <2>3, <2>4 DEF Whole
<1>11. ASSUME NEW q \in Request, EmptyDir(q) PROVE Whole'
  <2>1. Frame(q)
    BY <1>11, EmptyDirFrame
  <2>2. \A i \in Inode : Finished(i) => size'[i] = size[i]
    BY <1>11 DEF EmptyDir, Tool, disk
  <2>3. ASSUME stream'[q] = "open", q \notin unsaved'
        PROVE  (x'[q] = "rename" => size'[q] = Size) /\ (code'[q] = 0 => Done(q)')
    BY <1>11, <2>3 DEF TypeOK, Shape, NoCode, EmptyDir, Tool, FirstStep
  <2>4. ASSUME NEW r \in Request, r # q, stream'[r] = "open", r \notin unsaved'
        PROVE  (x'[r] = "rename" => size'[r] = Size) /\ (code'[r] = 0 => Done(r)')
    BY <2>1, <2>2, <2>4, WholeStays
  <2> QED
    BY <2>3, <2>4 DEF Whole
<1>12. ASSUME NEW q \in Request, RmDir(q) PROVE Whole'
  <2>1. Frame(q)
    BY <1>12, RmDirFrame
  <2>2. \A i \in Inode : Finished(i) => size'[i] = size[i]
    BY <1>12 DEF RmDir, Exits, Tool, disk
  <2>3. ASSUME stream'[q] = "open", q \notin unsaved'
        PROVE  (x'[q] = "rename" => size'[q] = Size) /\ (code'[q] = 0 => Done(q)')
    BY <1>12, <2>3 DEF TypeOK, Shape, NoCode, Done, RmDir, Exits, Tool,
                    FirstStep
  <2>4. ASSUME NEW r \in Request, r # q, stream'[r] = "open", r \notin unsaved'
        PROVE  (x'[r] = "rename" => size'[r] = Size) /\ (code'[r] = 0 => Done(r)')
    BY <2>1, <2>2, <2>4, WholeStays
  <2> QED
    BY <2>3, <2>4 DEF Whole
<1>13. ASSUME NEW q \in Request, AnswerCode(q) PROVE Whole'
  <2>1. Frame(q)
    BY <1>13, AnswerCodeFrame
  <2>2. \A i \in Inode : Finished(i) => size'[i] = size[i]
    BY <1>13 DEF AnswerCode, Says, Handler, disk
  <2>3. ASSUME stream'[q] = "open", q \notin unsaved'
        PROVE  (x'[q] = "rename" => size'[q] = Size) /\ (code'[q] = 0 => Done(q)')
    <3>1. UNCHANGED <<stream, x, size, code, op, seen, body, unsaved>>
      BY <1>13 DEF AnswerCode, Says, Handler, disk
    <3> QED
      BY <2>3, <3>1 DEF Whole, Done
  <2>4. ASSUME NEW r \in Request, r # q, stream'[r] = "open", r \notin unsaved'
        PROVE  (x'[r] = "rename" => size'[r] = Size) /\ (code'[r] = 0 => Done(r)')
    BY <2>1, <2>2, <2>4, WholeStays
  <2> QED
    BY <2>3, <2>4 DEF Whole
<1>14. ASSUME NEW q \in Request, AnswerBroken(q) PROVE Whole'
  <2>1. Frame(q)
    BY <1>14, AnswerBrokenFrame
  <2>2. \A i \in Inode : Finished(i) => size'[i] = size[i]
    BY <1>14 DEF AnswerBroken, Says, Handler, disk
  <2>3. ASSUME stream'[q] = "open", q \notin unsaved'
        PROVE  (x'[q] = "rename" => size'[q] = Size) /\ (code'[q] = 0 => Done(q)')
    <3>1. UNCHANGED <<stream, x, size, code, op, seen, body, unsaved>>
      BY <1>14 DEF AnswerBroken, Says, Handler, disk
    <3> QED
      BY <2>3, <3>1 DEF Whole, Done
  <2>4. ASSUME NEW r \in Request, r # q, stream'[r] = "open", r \notin unsaved'
        PROVE  (x'[r] = "rename" => size'[r] = Size) /\ (code'[r] = 0 => Done(r)')
    BY <2>1, <2>2, <2>4, WholeStays
  <2> QED
    BY <2>3, <2>4 DEF Whole
<1>15. ASSUME NEW q \in Request, RunFails(q), faults' = faults + 1 PROVE Whole'
  <2>1. Frame(q)
    BY <1>15, RunFailsFrame
  <2>2. \A i \in Inode : Finished(i) => size'[i] = size[i]
    BY <1>15 DEF RunFails, Says, Handler, disk
  <2>3. ASSUME stream'[q] = "open", q \notin unsaved'
        PROVE  (x'[q] = "rename" => size'[q] = Size) /\ (code'[q] = 0 => Done(q)')
    BY <1>15, <2>3 DEF TypeOK, Shape, NoCode, RunFails, Says, Handler, FirstStep
  <2>4. ASSUME NEW r \in Request, r # q, stream'[r] = "open", r \notin unsaved'
        PROVE  (x'[r] = "rename" => size'[r] = Size) /\ (code'[r] = 0 => Done(r)')
    BY <2>1, <2>2, <2>4, WholeStays
  <2> QED
    BY <2>3, <2>4 DEF Whole
<1>16. ASSUME NEW q \in Request, Break(q), faults' = faults + 1 PROVE Whole'
  <2>1. Frame(q)
    BY <1>16, BreakFrame
  <2>2. \A i \in Inode : Finished(i) => size'[i] = size[i]
    BY <1>16 DEF Break, disk
  <2>3. ASSUME stream'[q] = "open", q \notin unsaved'
        PROVE  (x'[q] = "rename" => size'[q] = Size) /\ (code'[q] = 0 => Done(q)')
    BY <1>16, <2>3 DEF TypeOK, Shape, NoCode, Break, FirstStep
  <2>4. ASSUME NEW r \in Request, r # q, stream'[r] = "open", r \notin unsaved'
        PROVE  (x'[r] = "rename" => size'[r] = Size) /\ (code'[r] = 0 => Done(r)')
    BY <2>1, <2>2, <2>4, WholeStays
  <2> QED
    BY <2>3, <2>4 DEF Whole
<1>17. ASSUME NEW q \in Request, StepFails(q), faults' = faults + 1 PROVE Whole'
  <2>1. Frame(q)
    BY <1>17, StepFailsFrame
  <2>2. \A i \in Inode : Finished(i) => size'[i] = size[i]
    BY <1>17 DEF StepFails, Exits, disk
  <2>3. ASSUME stream'[q] = "open", q \notin unsaved'
        PROVE  (x'[q] = "rename" => size'[q] = Size) /\ (code'[q] = 0 => Done(q)')
    BY <1>17, <2>3 DEF TypeOK, Shape, NoCode, StepFails, Exits, FirstStep
  <2>4. ASSUME NEW r \in Request, r # q, stream'[r] = "open", r \notin unsaved'
        PROVE  (x'[r] = "rename" => size'[r] = Size) /\ (code'[r] = 0 => Done(r)')
    BY <2>1, <2>2, <2>4, WholeStays
  <2> QED
    BY <2>3, <2>4 DEF Whole
<1>18. ASSUME NEW q \in Request, Killed(q), faults' = faults + 1 PROVE Whole'
  <2>1. Frame(q)
    BY <1>18, KilledFrame
  <2>2. \A i \in Inode : Finished(i) => size'[i] = size[i]
    BY <1>18 DEF Killed, Exits, disk
  <2>3. ASSUME stream'[q] = "open", q \notin unsaved'
        PROVE  (x'[q] = "rename" => size'[q] = Size) /\ (code'[q] = 0 => Done(q)')
    BY <1>18, <2>3 DEF TypeOK, Shape, NoCode, Signalled, Killed, Exits
  <2>4. ASSUME NEW r \in Request, r # q, stream'[r] = "open", r \notin unsaved'
        PROVE  (x'[r] = "rename" => size'[r] = Size) /\ (code'[r] = 0 => Done(r)')
    BY <2>1, <2>2, <2>4, WholeStays
  <2> QED
    BY <2>3, <2>4 DEF Whole
<1>20. ASSUME NEW q \in Request, InspectFails(q), faults' = faults + 1 PROVE Whole'
  <2>1. Frame(q)
    BY <1>20, InspectFailsFrame
  <2>2. \A i \in Inode : Finished(i) => size'[i] = size[i]
    BY <1>20 DEF InspectFails, Says, Handler, disk
  <2>3. ASSUME stream'[q] = "open", q \notin unsaved'
        PROVE  (x'[q] = "rename" => size'[q] = Size) /\ (code'[q] = 0 => Done(q)')
    <3>1. UNCHANGED <<stream, x, size, code, op, seen, body, unsaved>>
      BY <1>20 DEF InspectFails, Says, Handler, disk
    <3> QED
      BY <2>3, <3>1 DEF Whole, Done
  <2>4. ASSUME NEW r \in Request, r # q, stream'[r] = "open", r \notin unsaved'
        PROVE  (x'[r] = "rename" => size'[r] = Size) /\ (code'[r] = 0 => Done(r)')
    BY <2>1, <2>2, <2>4, WholeStays
  <2> QED
    BY <2>3, <2>4 DEF Whole
<1>21. ASSUME NEW q \in Request, CloseFails(q), faults' = faults + 1 PROVE Whole'
  <2>1. Frame(q)
    BY <1>21, CloseFailsFrame
  <2>2. \A i \in Inode : Finished(i) => size'[i] = size[i]
    <3>1. \A i \in Inode \ {q} : size'[i] = size[i]
      BY <2>1 DEF Frame
    <3>2. ~Finished(q)
      BY <1>21 DEF CloseFails, Finished
    <3> QED
      BY <3>1, <3>2
  <2>3. ASSUME stream'[q] = "open", q \notin unsaved'
        PROVE  (x'[q] = "rename" => size'[q] = Size) /\ (code'[q] = 0 => Done(q)')
    BY <1>21, <2>3 DEF TypeOK, Shape, NoCode, CloseFails, FirstStep
  <2>4. ASSUME NEW r \in Request, r # q, stream'[r] = "open", r \notin unsaved'
        PROVE  (x'[r] = "rename" => size'[r] = Size) /\ (code'[r] = 0 => Done(r)')
    BY <2>1, <2>2, <2>4, WholeStays
  <2> QED
    BY <2>3, <2>4 DEF Whole
<1>19. CASE UNCHANGED vars
  BY <1>19 DEF Whole, Done, vars, disk
<1> QED
  BY <1>1, <1>2, <1>3, <1>4, <1>5, <1>6, <1>7, <1>8, <1>9, <1>10, <1>11,
     <1>12, <1>13, <1>14, <1>15, <1>16, <1>17, <1>18, <1>19, <1>20, <1>21
     DEF Next, Write, Read, Delete, Answer, Fault

(***************************************************************************)
(* Only a killed x-fs leaves its temporary file.                           *)
(***************************************************************************)
LEMMA NextNoLitter ==
    ASSUME TypeOK, \A q \in Request : Shape(q), NoLitter, [Next]_vars
    PROVE  NoLitter'
<1>1. ASSUME NEW q \in Request, Run(q) PROVE NoLitter'
  <2>1. Frame(q) /\ Shape(q)
    BY <1>1, RunFrame
  <2>2. \A t \in temp' : t \in temp \/ t = q
    BY <1>1 DEF Run, FirstStep, disk
  <2>3. q \in temp' => x'[q] \in {"copy", "rename"} \/ code'[q] = Signalled
    BY <1>1, <2>1 DEF TypeOK, Shape, NoLitter, NoCode, Signalled, Steps, Run, FirstStep, disk
  <2> QED
    BY <2>1, <2>2, <2>3 DEF TypeOK, NoLitter, Frame
<1>2. ASSUME NEW q \in Request, MkdirAll(q) PROVE NoLitter'
  <2>1. Frame(q) /\ Shape(q)
    BY <1>2, MkdirAllFrame
  <2>2. \A t \in temp' : t \in temp \/ t = q
    BY <1>2 DEF MkdirAll, Goes, Tool, disk
  <2>3. q \in temp' => x'[q] \in {"copy", "rename"} \/ code'[q] = Signalled
    BY <1>2, <2>1 DEF TypeOK, Shape, NoLitter, NoCode, Signalled, Steps, MkdirAll, Goes, Tool, disk
  <2> QED
    BY <2>1, <2>2, <2>3 DEF TypeOK, NoLitter, Frame
<1>3. ASSUME NEW q \in Request, CreateTemp(q) PROVE NoLitter'
  <2>1. Frame(q) /\ Shape(q)
    BY <1>3, CreateTempFrame
  <2>2. \A t \in temp' : t \in temp \/ t = q
    BY <1>3 DEF CreateTemp, Goes, Exits, Tool, disk
  <2>3. q \in temp' => x'[q] \in {"copy", "rename"} \/ code'[q] = Signalled
    BY <1>3, <2>1 DEF TypeOK, Shape, NoLitter, NoCode, Signalled, Steps, CreateTemp, Goes, Exits, Tool, disk
  <2> QED
    BY <2>1, <2>2, <2>3 DEF TypeOK, NoLitter, Frame
<1>4. ASSUME NEW q \in Request, CopyChunk(q) PROVE NoLitter'
  <2>1. Frame(q) /\ Shape(q)
    BY <1>4, CopyChunkFrame
  <2>2. \A t \in temp' : t \in temp \/ t = q
    BY <1>4 DEF CopyChunk, Tool, disk
  <2>3. q \in temp' => x'[q] \in {"copy", "rename"} \/ code'[q] = Signalled
    BY <1>4, <2>1 DEF TypeOK, Shape, NoLitter, NoCode, Signalled, Steps, CopyChunk, Tool, disk
  <2> QED
    BY <2>1, <2>2, <2>3 DEF TypeOK, NoLitter, Frame
<1>5. ASSUME NEW q \in Request, CopyEnds(q) PROVE NoLitter'
  <2>1. Frame(q) /\ Shape(q)
    BY <1>5, CopyEndsFrame
  <2>2. \A t \in temp' : t \in temp \/ t = q
    BY <1>5 DEF CopyEnds, Goes, Tool, disk
  <2>3. q \in temp' => x'[q] \in {"copy", "rename"} \/ code'[q] = Signalled
    BY <1>5, <2>1 DEF TypeOK, Shape, NoLitter, NoCode, Signalled, Steps, CopyEnds, Goes, Tool, disk
  <2> QED
    BY <2>1, <2>2, <2>3 DEF TypeOK, NoLitter, Frame
<1>6. ASSUME NEW q \in Request, Rename(q) PROVE NoLitter'
  <2>1. Frame(q) /\ Shape(q)
    BY <1>6, RenameFrame
  <2>2. \A t \in temp' : t \in temp \/ t = q
    BY <1>6 DEF Rename, Exits, Tool, disk
  <2>3. q \in temp' => x'[q] \in {"copy", "rename"} \/ code'[q] = Signalled
    BY <1>6, <2>1 DEF TypeOK, Shape, NoLitter, NoCode, Signalled, Steps, Rename, Exits, Tool, disk
  <2> QED
    BY <2>1, <2>2, <2>3 DEF TypeOK, NoLitter, Frame
<1>7. ASSUME NEW q \in Request, OpenFile(q) PROVE NoLitter'
  <2>1. Frame(q) /\ Shape(q)
    BY <1>7, OpenFileFrame
  <2>2. \A t \in temp' : t \in temp \/ t = q
    BY <1>7 DEF OpenFile, Goes, Exits, Tool, disk
  <2>3. q \in temp' => x'[q] \in {"copy", "rename"} \/ code'[q] = Signalled
    BY <1>7, <2>1 DEF TypeOK, Shape, NoLitter, NoCode, Signalled, Steps, OpenFile, Goes, Exits, Tool, disk
  <2> QED
    BY <2>1, <2>2, <2>3 DEF TypeOK, NoLitter, Frame
<1>8. ASSUME NEW q \in Request, SendOut(q) PROVE NoLitter'
  <2>1. Frame(q) /\ Shape(q)
    BY <1>8, SendOutFrame
  <2>2. \A t \in temp' : t \in temp \/ t = q
    BY <1>8 DEF SendOut, Exits, Tool, disk
  <2>3. q \in temp' => x'[q] \in {"copy", "rename"} \/ code'[q] = Signalled
    BY <1>8, <2>1 DEF TypeOK, Shape, NoLitter, NoCode, Signalled, Steps, SendOut, Exits, Tool, disk
  <2> QED
    BY <2>1, <2>2, <2>3 DEF TypeOK, NoLitter, Frame
<1>9. ASSUME NEW q \in Request, Lstat(q) PROVE NoLitter'
  <2>1. Frame(q) /\ Shape(q)
    BY <1>9, LstatFrame
  <2>2. \A t \in temp' : t \in temp \/ t = q
    BY <1>9 DEF Lstat, Goes, Exits, Tool, disk
  <2>3. q \in temp' => x'[q] \in {"copy", "rename"} \/ code'[q] = Signalled
    BY <1>9, <2>1 DEF TypeOK, Shape, NoLitter, NoCode, Signalled, Steps, Lstat, Goes, Exits, Tool, disk
  <2> QED
    BY <2>1, <2>2, <2>3 DEF TypeOK, NoLitter, Frame
<1>10. ASSUME NEW q \in Request, RemoveFile(q) PROVE NoLitter'
  <2>1. Frame(q) /\ Shape(q)
    BY <1>10, RemoveFileFrame
  <2>2. \A t \in temp' : t \in temp \/ t = q
    BY <1>10 DEF RemoveFile, Exits, Tool, disk
  <2>3. q \in temp' => x'[q] \in {"copy", "rename"} \/ code'[q] = Signalled
    BY <1>10, <2>1 DEF TypeOK, Shape, NoLitter, NoCode, Signalled, Steps, RemoveFile, Exits, Tool, disk
  <2> QED
    BY <2>1, <2>2, <2>3 DEF TypeOK, NoLitter, Frame
<1>11. ASSUME NEW q \in Request, EmptyDir(q) PROVE NoLitter'
  <2>1. Frame(q) /\ Shape(q)
    BY <1>11, EmptyDirFrame
  <2>2. \A t \in temp' : t \in temp \/ t = q
    BY <1>11 DEF EmptyDir, Tool, disk
  <2>3. q \in temp' => x'[q] \in {"copy", "rename"} \/ code'[q] = Signalled
    BY <1>11, <2>1 DEF TypeOK, Shape, NoLitter, NoCode, Signalled, Steps, EmptyDir, Tool, disk
  <2> QED
    BY <2>1, <2>2, <2>3 DEF TypeOK, NoLitter, Frame
<1>12. ASSUME NEW q \in Request, RmDir(q) PROVE NoLitter'
  <2>1. Frame(q) /\ Shape(q)
    BY <1>12, RmDirFrame
  <2>2. \A t \in temp' : t \in temp \/ t = q
    BY <1>12 DEF RmDir, Exits, Tool, disk
  <2>3. q \in temp' => x'[q] \in {"copy", "rename"} \/ code'[q] = Signalled
    BY <1>12, <2>1 DEF TypeOK, Shape, NoLitter, NoCode, Signalled, Steps, RmDir, Exits, Tool, disk
  <2> QED
    BY <2>1, <2>2, <2>3 DEF TypeOK, NoLitter, Frame
<1>13. ASSUME NEW q \in Request, AnswerCode(q) PROVE NoLitter'
  <2>1. Frame(q) /\ Shape(q)
    BY <1>13, AnswerCodeFrame
  <2>2. \A t \in temp' : t \in temp \/ t = q
    BY <1>13 DEF AnswerCode, Says, Handler, disk
  <2>3. q \in temp' => x'[q] \in {"copy", "rename"} \/ code'[q] = Signalled
    BY <1>13, <2>1 DEF TypeOK, Shape, NoLitter, NoCode, Signalled, Steps, AnswerCode, Says, Handler, disk
  <2> QED
    BY <2>1, <2>2, <2>3 DEF TypeOK, NoLitter, Frame
<1>14. ASSUME NEW q \in Request, AnswerBroken(q) PROVE NoLitter'
  <2>1. Frame(q) /\ Shape(q)
    BY <1>14, AnswerBrokenFrame
  <2>2. \A t \in temp' : t \in temp \/ t = q
    BY <1>14 DEF AnswerBroken, Says, Handler, disk
  <2>3. q \in temp' => x'[q] \in {"copy", "rename"} \/ code'[q] = Signalled
    BY <1>14, <2>1 DEF TypeOK, Shape, NoLitter, NoCode, Signalled, Steps, AnswerBroken, Says, Handler, disk
  <2> QED
    BY <2>1, <2>2, <2>3 DEF TypeOK, NoLitter, Frame
<1>15. ASSUME NEW q \in Request, RunFails(q), faults' = faults + 1 PROVE NoLitter'
  <2>1. Frame(q) /\ Shape(q)
    BY <1>15, RunFailsFrame
  <2>2. \A t \in temp' : t \in temp \/ t = q
    BY <1>15 DEF RunFails, Says, Handler, disk
  <2>3. q \in temp' => x'[q] \in {"copy", "rename"} \/ code'[q] = Signalled
    BY <1>15, <2>1 DEF TypeOK, Shape, NoLitter, NoCode, Signalled, Steps, RunFails, Says, Handler, disk
  <2> QED
    BY <2>1, <2>2, <2>3 DEF TypeOK, NoLitter, Frame
<1>16. ASSUME NEW q \in Request, Break(q), faults' = faults + 1 PROVE NoLitter'
  <2>1. Frame(q) /\ Shape(q)
    BY <1>16, BreakFrame
  <2>2. \A t \in temp' : t \in temp \/ t = q
    BY <1>16 DEF Break, disk
  <2>3. q \in temp' => x'[q] \in {"copy", "rename"} \/ code'[q] = Signalled
    BY <1>16, <2>1 DEF TypeOK, Shape, NoLitter, NoCode, Signalled, Steps, Break, disk
  <2> QED
    BY <2>1, <2>2, <2>3 DEF TypeOK, NoLitter, Frame
<1>17. ASSUME NEW q \in Request, StepFails(q), faults' = faults + 1 PROVE NoLitter'
  <2>1. Frame(q) /\ Shape(q)
    BY <1>17, StepFailsFrame
  <2>2. \A t \in temp' : t \in temp \/ t = q
    BY <1>17 DEF StepFails, Exits, disk
  <2>3. q \in temp' => x'[q] \in {"copy", "rename"} \/ code'[q] = Signalled
    BY <1>17, <2>1 DEF TypeOK, Shape, NoLitter, NoCode, Signalled, Steps, StepFails, Exits, disk
  <2> QED
    BY <2>1, <2>2, <2>3 DEF TypeOK, NoLitter, Frame
<1>18. ASSUME NEW q \in Request, Killed(q), faults' = faults + 1 PROVE NoLitter'
  <2>1. Frame(q) /\ Shape(q)
    BY <1>18, KilledFrame
  <2>2. \A t \in temp' : t \in temp \/ t = q
    BY <1>18 DEF Killed, Exits, disk
  <2>3. q \in temp' => x'[q] \in {"copy", "rename"} \/ code'[q] = Signalled
    BY <1>18, <2>1 DEF TypeOK, Shape, NoLitter, NoCode, Signalled, Steps, Killed, Exits, disk
  <2> QED
    BY <2>1, <2>2, <2>3 DEF TypeOK, NoLitter, Frame
<1>20. ASSUME NEW q \in Request, InspectFails(q), faults' = faults + 1 PROVE NoLitter'
  <2>1. Frame(q) /\ Shape(q)
    BY <1>20, InspectFailsFrame
  <2>2. \A t \in temp' : t \in temp \/ t = q
    BY <1>20 DEF InspectFails, Says, Handler, disk
  <2>3. q \in temp' => x'[q] \in {"copy", "rename"} \/ code'[q] = Signalled
    BY <1>20, <2>1 DEF TypeOK, Shape, NoLitter, NoCode, Signalled, Steps, InspectFails, Says, Handler, disk
  <2> QED
    BY <2>1, <2>2, <2>3 DEF TypeOK, NoLitter, Frame
<1>21. ASSUME NEW q \in Request, CloseFails(q), faults' = faults + 1 PROVE NoLitter'
  <2>1. Frame(q) /\ Shape(q)
    BY <1>21, CloseFailsFrame
  <2>2. \A t \in temp' : t \in temp \/ t = q
    BY <1>21 DEF CloseFails
  <2>3. q \in temp' => x'[q] \in {"copy", "rename"} \/ code'[q] = Signalled
    BY <1>21, <2>1 DEF TypeOK, Shape, NoLitter, NoCode, Signalled, Steps, CloseFails
  <2> QED
    BY <2>1, <2>2, <2>3 DEF TypeOK, NoLitter, Frame
<1>19. CASE UNCHANGED vars
  BY <1>19 DEF NoLitter, vars, disk
<1> QED
  BY <1>1, <1>2, <1>3, <1>4, <1>5, <1>6, <1>7, <1>8, <1>9, <1>10, <1>11,
     <1>12, <1>13, <1>14, <1>15, <1>16, <1>17, <1>18, <1>19, <1>20, <1>21
     DEF Next, Write, Read, Delete, Answer, Fault

-----------------------------------------------------------------------------
(***************************************************************************)
(* The inductive invariant holds in every reachable state.                 *)
(***************************************************************************)
LEMMA NextIInv == IInv /\ [Next]_vars => IInv'
<1> SUFFICES ASSUME IInv, [Next]_vars PROVE IInv'
  OBVIOUS
<1>1. TypeOK /\ (\A q \in Request : Shape(q)) /\ Named /\ Whole /\ NoLitter
  BY DEF IInv
<1>2. TypeOK'
  BY <1>1, NextType
<1>3. \A r \in Request : Shape(r)'
  BY <1>1, NextShape
<1>4. Named'
  BY <1>1, NextNamed
<1>5. Whole'
  BY <1>1, NextWhole
<1>6. NoLitter'
  BY <1>1, NextNoLitter
<1> QED
  BY <1>2, <1>3, <1>4, <1>5, <1>6 DEF IInv

THEOREM Invariant == Spec => []IInv
  BY InitIInv, NextIInv, PTL DEF Spec

(***************************************************************************)
(* Every variable keeps its type.                                          *)
(***************************************************************************)
THEOREM TypeCorrect == Spec => []TypeOK
<1>1. IInv => TypeOK
  BY DEF IInv
<1> QED
  BY Invariant, <1>1, PTL

(***************************************************************************)
(* 200 is the answer when the whole content was written or read, unless    *)
(* Docker gave the exit code of an x-fs whose stream broke (fsRun), or the *)
(* file was closed with an error (x-fs).                                   *)
(***************************************************************************)
THEOREM SuccessIsTrue == Spec => []SuccessIsWhole
<1>1. IInv => SuccessIsWhole
  <2> SUFFICES ASSUME IInv, NEW q \in Request, answer[q] = 200
               PROVE  Done(q) \/ (runtime = "docker" /\ stream[q] = "broken") \/ q \in unsaved
    BY DEF SuccessIsWhole
  <2>1. Shape(q) /\ stream[q] \in {"none", "open", "broken"}
    BY DEF IInv, TypeOK
  <2>2. code[q] = 0 /\ x[q] = "end" /\ stream[q] # "none" /\ (stream[q] = "open" \/ runtime = "docker")
    BY <2>1 DEF Shape, NoCode
  <2> QED
    BY <2>1, <2>2 DEF IInv, Whole
<1> QED
  BY Invariant, <1>1, PTL

(***************************************************************************)
(* Every way out of a write removes or renames its temporary file, unless  *)
(* x-fs is killed (x-fs).                                                  *)
(***************************************************************************)
THEOREM NothingIsLeft == Spec => []NoLitter
<1>1. IInv => NoLitter
  BY DEF IInv
<1> QED
  BY Invariant, <1>1, PTL

-----------------------------------------------------------------------------
(***************************************************************************)
(* What has a name is finished, so that the register's value is the inode  *)
(* at the path and what a request got the inode it opened.                 *)
(***************************************************************************)
LEMMA Values == ASSUME IInv PROVE Content(file) = file /\ Contents = seen
<1>1. \A i : Finished(i) => Content(i) = i
  BY DEF Finished, Content
<1>2. seen = [q \in Request |-> seen[q]]
  BY DEF IInv, TypeOK
<1> QED
  BY <1>1, <1>2 DEF IInv, Named, Contents

LEMMA ValuesNext == ASSUME IInv' PROVE Content(file)' = file' /\ Contents' = seen'
<1>2. seen' = [q \in Request |-> seen'[q]]
  BY DEF IInv, TypeOK
<1>3. Finished(file)' /\ \A q \in Request : Finished(seen[q])'
  BY DEF IInv, Named
<1>4. Content(file)' = file'
  BY <1>3 DEF Finished, Content
<1>5. \A q \in Request : Content(seen[q])' = seen'[q]
  BY <1>3 DEF Finished, Content
<1> QED
  BY <1>2, <1>4, <1>5 DEF Contents

LEMMA OthersPhase ==
    ASSUME NEW q \in Request, NEW r \in Request \ {q}, Frame(q)
    PROVE  Phase(r)' = Phase(r)
  BY DEF Frame, Phase

LEMMA Moved ==
    ASSUME NEW q \in Request, NEW v, Frame(q), Phase(q)' = v
    PROVE  Register!Moves(q, v)
<1>1. \A r \in Request : Phases'[r] = IF r = q THEN v ELSE Phases[r]
  BY OthersPhase DEF Phases
<1> QED
  BY <1>1 DEF Register!Moves, Phases

LEMMA Stayed ==
    ASSUME NEW q \in Request, Frame(q), Phase(q)' = Phase(q)
    PROVE  Phases' = Phases
  BY OthersPhase DEF Phases

\* What a step of x-fs does not touch.
LEMMA Kept ==
    ASSUME IInv, IInv', UNCHANGED <<op, seen, answer>>
    PROVE  UNCHANGED <<op, Contents, Replies>> /\ (file' = file => Content(file)' = Content(file))
  BY Values, ValuesNext DEF Replies

LEMMA MkdirAllImplements ==
    ASSUME IInv, IInv', NEW q \in Request, MkdirAll(q)
    PROVE  [Register!Next]_(Register!vars)
<1>0. TypeOK /\ Shape(q) /\ Named /\ Frame(q)
  BY MkdirAllFrame DEF IInv
<1>1. UNCHANGED <<op, seen, answer, file, code>>
  BY DEF MkdirAll, Goes, Tool, disk
<1>2. Phase(q)' = Phase(q)
  BY <1>0, <1>1 DEF TypeOK, Phase, MkdirAll, Goes
<1> QED
  BY <1>0, <1>1, <1>2, Stayed, Kept DEF Register!vars

LEMMA CopyChunkImplements ==
    ASSUME IInv, IInv', NEW q \in Request, CopyChunk(q)
    PROVE  [Register!Next]_(Register!vars)
<1>0. TypeOK /\ Shape(q) /\ Named /\ Frame(q)
  BY CopyChunkFrame DEF IInv
<1>1. UNCHANGED <<op, seen, answer, file, code, x>>
  BY DEF CopyChunk, Tool, disk
<1>2. Phase(q)' = Phase(q)
  BY <1>0, <1>1 DEF TypeOK, Phase, CopyChunk
<1> QED
  BY <1>0, <1>1, <1>2, Stayed, Kept DEF Register!vars

LEMMA CopyEndsImplements ==
    ASSUME IInv, IInv', NEW q \in Request, CopyEnds(q)
    PROVE  [Register!Next]_(Register!vars)
<1>0. TypeOK /\ Shape(q) /\ Named /\ Frame(q)
  BY CopyEndsFrame DEF IInv
<1>1. UNCHANGED <<op, seen, answer, file, code>>
  BY DEF CopyEnds, Goes, Tool, disk
<1>2. Phase(q)' = Phase(q)
  BY <1>0, <1>1 DEF TypeOK, Phase, CopyEnds, Goes
<1> QED
  BY <1>0, <1>1, <1>2, Stayed, Kept DEF Register!vars

LEMMA RunImplements ==
    ASSUME IInv, IInv', NEW q \in Request, Run(q)
    PROVE  [Register!Next]_(Register!vars)
<1>0. TypeOK /\ Shape(q) /\ Named /\ Frame(q)
  BY RunFrame DEF IInv
<1>1. UNCHANGED <<op, seen, answer, file, code>>
  BY DEF Run, FirstStep, disk
<1>2. Phase(q) = "idle" /\ Phase(q)' = "called"
  <2>1. x[q] = "none" /\ x'[q] = FirstStep(q)
    BY <1>0 DEF TypeOK, Run
  <2>2. op[q] \in {"write", "read", "delete", "prune"}
    BY <1>0, FileApiAssumption DEF TypeOK
  <2>3. x'[q] # "none"
    BY <2>1, <2>2 DEF FirstStep
  <2> QED
    BY <1>0, <1>1, <2>1, <2>3 DEF Shape, Phase, NoCode, Signalled
<1> QED
  BY <1>0, <1>1, <1>2, Moved, Kept DEF Register!Next, Register!Call, Phases

LEMMA CreateTempImplements ==
    ASSUME IInv, IInv', NEW q \in Request, CreateTemp(q)
    PROVE  [Register!Next]_(Register!vars)
<1>0. TypeOK /\ Shape(q) /\ Named /\ Frame(q)
  BY CreateTempFrame DEF IInv
<1>1. UNCHANGED <<op, seen, answer, file>>
  BY DEF CreateTemp, Goes, Exits, Tool, disk
<1>2. CASE dir
  <2>1. Phase(q)' = Phase(q)
    BY <1>0, <1>1, <1>2 DEF TypeOK, Phase, CreateTemp, Goes
  <2> QED
    BY <1>0, <1>1, <2>1, Stayed, Kept DEF Register!vars
<1>3. CASE ~dir
  <2>1. Phase(q) = "called" /\ Phase(q)' = "failed"
    BY <1>0, <1>1, <1>3 DEF TypeOK, Shape, Phase, NoCode, Signalled, CreateTemp, Exits
  <2> QED
    BY <1>0, <1>1, <2>1, Moved, Kept DEF Register!Next, Register!Fail, Phases
<1> QED
  BY <1>2, <1>3

LEMMA RenameImplements ==
    ASSUME IInv, IInv', NEW q \in Request, Rename(q)
    PROVE  [Register!Next]_(Register!vars)
<1>0. TypeOK /\ Shape(q) /\ Named /\ Frame(q)
  BY RenameFrame DEF IInv
<1>1. UNCHANGED <<op, seen, answer>>
  BY DEF Rename, Exits, Tool, disk
<1>2. op[q] = "write" /\ Phase(q) = "called"
  BY <1>0 DEF Shape, Phase, NoCode, Signalled, Rename
<1>3. CASE q \in temp
  <2>1. file' = q /\ Phase(q)' = "done"
    BY <1>0, <1>1, <1>3 DEF TypeOK, Phase, Rename, Exits
  <2>2. Content(file)' = q
    BY <2>1, ValuesNext
  <2> QED
    BY <1>0, <1>1, <1>2, <2>1, <2>2, Moved, Kept DEF Register!Next, Register!Put, Phases
<1>4. CASE q \notin temp
  <2>1. file' = file /\ Phase(q)' = "failed"
    BY <1>0, <1>1, <1>2, <1>4 DEF TypeOK, Shape, Phase, Rename, Exits
  <2> QED
    BY <1>0, <1>1, <1>2, <2>1, Moved, Kept DEF Register!Next, Register!Fail, Phases
<1> QED
  BY <1>3, <1>4

LEMMA OpenFileImplements ==
    ASSUME IInv, IInv', NEW q \in Request, OpenFile(q)
    PROVE  [Register!Next]_(Register!vars)
<1>0. TypeOK /\ Shape(q) /\ Named /\ Frame(q)
  BY OpenFileFrame DEF IInv
<1>1. UNCHANGED <<op, answer, file>>
  BY DEF OpenFile, Goes, Exits, Tool, disk
<1>2. op[q] = "read" /\ Phase(q) = "called" /\ seen' = [seen EXCEPT ![q] = file]
  BY <1>0 DEF Shape, Phase, NoCode, Signalled, OpenFile
<1>3. UNCHANGED <<op, Replies, Content(file)>> /\ Contents = seen /\ Contents' = seen'
  BY <1>1, Values, ValuesNext DEF Replies
<1>4. CASE file = Absent
  <2>1. Phase(q)' = "missed" /\ seen' = seen
    BY <1>0, <1>1, <1>2, <1>4 DEF TypeOK, Shape, Phase, NoCode, Signalled, OpenFile, Exits
  <2> QED
    BY <1>0, <1>1, <1>2, <1>3, <1>4, <2>1, Moved, Values DEF Register!Next, Register!Miss, Phases
<1>5. CASE file # Absent
  <2>1. Phase(q)' = "done"
    BY <1>0, <1>1, <1>2, <1>5 DEF TypeOK, Phase, OpenFile, Goes
  <2> QED
    BY <1>0, <1>1, <1>2, <1>3, <1>5, <2>1, Moved, Values DEF Register!Next, Register!Fetch, Phases
<1> QED
  BY <1>4, <1>5

LEMMA SendOutImplements ==
    ASSUME IInv, IInv', NEW q \in Request, SendOut(q)
    PROVE  [Register!Next]_(Register!vars)
<1>0. TypeOK /\ Shape(q) /\ Named /\ Frame(q)
  BY SendOutFrame DEF IInv
<1>1. UNCHANGED <<op, seen, answer, file>>
  BY DEF SendOut, Exits, Tool, disk
<1>2. Phase(q)' = Phase(q)
  <2>1. seen[q] # Absent /\ seen'[q] # Absent /\ x[q] # "none" /\ x'[q] # "none"
    BY <1>0, <1>1 DEF TypeOK, Shape, SendOut, Exits
  <2> QED
    BY <2>1 DEF Phase
<1> QED
  BY <1>0, <1>1, <1>2, Stayed, Kept DEF Register!vars

LEMMA LstatImplements ==
    ASSUME IInv, IInv', NEW q \in Request, Lstat(q)
    PROVE  [Register!Next]_(Register!vars)
<1>0. TypeOK /\ Shape(q) /\ Named /\ Frame(q)
  BY LstatFrame DEF IInv
<1>1. UNCHANGED <<op, seen, answer, file>>
  BY DEF Lstat, Goes, Exits, Tool, disk
<1>2. op[q] \in {"delete", "prune"} /\ Phase(q) = "called"
  BY <1>0 DEF Shape, Phase, NoCode, Signalled, Lstat
<1>3. CASE IF op[q] = "prune" THEN dir ELSE file # Absent
  <2>1. Phase(q)' = Phase(q)
    BY <1>0, <1>1, <1>3 DEF TypeOK, Phase, Lstat, Goes
  <2> QED
    BY <1>0, <1>1, <2>1, Stayed, Kept DEF Register!vars
<1>4. CASE ~(IF op[q] = "prune" THEN dir ELSE file # Absent)
  <2>1. file = Absent
    BY <1>0, <1>2, <1>4 DEF Named
  <2>2. Phase(q)' = "missed"
    BY <1>0, <1>1, <1>2, <1>4 DEF TypeOK, Shape, Phase, NoCode, Signalled, Lstat, Exits
  <2> QED
    BY <1>0, <1>1, <1>2, <2>1, <2>2, Moved, Kept, Values DEF Register!Next, Register!Miss, Phases
<1> QED
  BY <1>3, <1>4

LEMMA RemoveFileImplements ==
    ASSUME IInv, IInv', NEW q \in Request, RemoveFile(q)
    PROVE  [Register!Next]_(Register!vars)
<1>0. TypeOK /\ Shape(q) /\ Named /\ Frame(q)
  BY RemoveFileFrame DEF IInv
<1>1. UNCHANGED <<op, seen, answer>>
  BY DEF RemoveFile, Exits, Tool, disk
<1>2. op[q] = "delete" /\ Phase(q) = "called" /\ file' = Absent
  BY <1>0 DEF Shape, Phase, NoCode, Signalled, RemoveFile
<1>3. Content(file)' = Absent
  BY <1>2, ValuesNext
<1>4. CASE file = Absent
  <2>1. Phase(q)' = "missed"
    BY <1>0, <1>1, <1>2, <1>4 DEF TypeOK, Shape, Phase, NoCode, Signalled, RemoveFile, Exits
  <2> QED
    BY <1>0, <1>1, <1>2, <1>4, <2>1, Moved, Kept, Values DEF Register!Next, Register!Miss, Phases
<1>5. CASE file # Absent
  <2>1. Phase(q)' = "done"
    BY <1>0, <1>1, <1>2, <1>5 DEF TypeOK, Phase, RemoveFile, Exits
  <2> QED
    BY <1>0, <1>1, <1>2, <1>3, <2>1, Moved, Kept DEF Register!Next, Register!Clear, Phases
<1> QED
  BY <1>4, <1>5

LEMMA EmptyDirImplements ==
    ASSUME IInv, IInv', NEW q \in Request, EmptyDir(q)
    PROVE  [Register!Next]_(Register!vars)
<1>0. TypeOK /\ Shape(q) /\ Named /\ Frame(q)
  BY EmptyDirFrame DEF IInv
<1>1. UNCHANGED <<op, seen, answer, code>>
  BY DEF EmptyDir, Tool, disk
<1>2. /\ op[q] = "prune" /\ Phase(q) = "called" /\ Phase(q)' = Phase(q)
      /\ file' = Absent \/ file' = file
  BY <1>0, <1>1 DEF TypeOK, Shape, Phase, NoCode, Signalled, EmptyDir
<1>3. Phases' = Phases
  BY <1>0, <1>2, Stayed
<1>4. CASE file' = file
  BY <1>1, <1>3, <1>4, Kept DEF Register!vars
<1>5. CASE file' = Absent
  <2>1. Content(file)' = Absent
    BY <1>5, ValuesNext
  <2> QED
    BY <1>1, <1>2, <1>3, <2>1, Kept DEF Register!Next, Register!Clear, Phases
<1> QED
  BY <1>2, <1>4, <1>5

LEMMA RmDirImplements ==
    ASSUME IInv, IInv', NEW q \in Request, RmDir(q)
    PROVE  [Register!Next]_(Register!vars)
<1>0. TypeOK /\ Shape(q) /\ Named /\ Frame(q)
  BY RmDirFrame DEF IInv
<1>1. UNCHANGED <<op, seen, answer, file>>
  BY DEF RmDir, Exits, Tool, disk
<1>2. op[q] = "prune" /\ Phase(q) = "called"
  BY <1>0 DEF Shape, Phase, NoCode, Signalled, RmDir
<1>3. CASE file = Absent /\ temp = {}
  <2>1. Phase(q)' = "done"
    BY <1>0, <1>1, <1>2, <1>3 DEF TypeOK, Phase, RmDir, Exits
  <2>2. Content(file)' = Absent
    BY <1>1, <1>3, ValuesNext
  <2> QED
    BY <1>0, <1>1, <1>2, <2>1, <2>2, Moved, Kept DEF Register!Next, Register!Clear, Phases
<1>4. CASE ~(file = Absent /\ temp = {})
  <2>1. Phase(q)' = "failed"
    BY <1>0, <1>1, <1>2, <1>4 DEF TypeOK, Shape, Phase, RmDir, Exits
  <2> QED
    BY <1>0, <1>1, <1>2, <2>1, Moved, Kept DEF Register!Next, Register!Fail, Phases
<1> QED
  BY <1>3, <1>4

\* An answer that fits what the request has come to.
LEMMA Replied ==
    ASSUME IInv, IInv', NEW q \in Request, NEW status, Says(q, status), answer[q] = 0,
           UNCHANGED <<op, x, code, file, seen>>, ReplyOf(status) \in Register!Replies(q)
    PROVE  [Register!Next]_(Register!vars)
<1>1. Phases' = Phases /\ UNCHANGED <<op, Contents, Content(file)>>
  BY Values, ValuesNext DEF Phases, Phase
<1>2. Replies[q] = "none"
  BY DEF Replies, ReplyOf
<1>3. \A r \in Request : answer'[r] = IF r = q THEN status ELSE answer[r]
  BY DEF Says, IInv, TypeOK
<1>4. Replies' = [Replies EXCEPT ![q] = ReplyOf(status)]
  BY <1>3 DEF Replies
<1>5. Register!Reply(q)
  BY <1>1, <1>2, <1>4 DEF Register!Reply
<1> QED
  BY <1>5 DEF Register!Next

LEMMA AnswerBrokenImplements ==
    ASSUME IInv, IInv', NEW q \in Request, AnswerBroken(q)
    PROVE  [Register!Next]_(Register!vars)
<1>1. Says(q, 502) /\ answer[q] = 0 /\ UNCHANGED <<op, x, code, file, seen>>
  BY DEF AnswerBroken, Handler, disk
<1>2. ReplyOf(502) \in Register!Replies(q)
  BY DEF ReplyOf, Register!Replies
<1> QED
  BY <1>1, <1>2, Replied

LEMMA RunFailsImplements ==
    ASSUME IInv, IInv', NEW q \in Request, RunFails(q)
    PROVE  [Register!Next]_(Register!vars)
<1>1. Says(q, 502) /\ answer[q] = 0 /\ UNCHANGED <<op, x, code, file, seen>>
  BY DEF RunFails, Handler, disk
<1>2. ReplyOf(502) \in Register!Replies(q)
  BY DEF ReplyOf, Register!Replies
<1> QED
  BY <1>1, <1>2, Replied

LEMMA InspectFailsImplements ==
    ASSUME IInv, IInv', NEW q \in Request, InspectFails(q)
    PROVE  [Register!Next]_(Register!vars)
<1>1. Says(q, 502) /\ answer[q] = 0 /\ UNCHANGED <<op, x, code, file, seen>>
  BY DEF InspectFails, Handler, disk
<1>2. ReplyOf(502) \in Register!Replies(q)
  BY DEF ReplyOf, Register!Replies
<1> QED
  BY <1>1, <1>2, Replied

LEMMA AnswerCodeImplements ==
    ASSUME IInv, IInv', NEW q \in Request, AnswerCode(q)
    PROVE  [Register!Next]_(Register!vars)
<1>1. /\ Says(q, StatusOf(code[q])) /\ answer[q] = 0 /\ x[q] = "end"
      /\ UNCHANGED <<op, x, code, file, seen>>
  BY DEF AnswerCode, Handler, disk
<1>2. code[q] \in {0, 1, 2, Signalled} /\ Shape(q)
  BY <1>1 DEF IInv, TypeOK, Shape, NoCode
<1>3. Phases[q] = Phase(q)
  BY DEF Phases
<1>4. ASSUME code[q] = 0 PROVE ReplyOf(StatusOf(code[q])) \in Register!Replies(q)
  BY <1>1, <1>3, <1>4 DEF StatusOf, ReplyOf, Register!Replies, Phase
<1>5. ASSUME code[q] \in {1, Signalled} PROVE ReplyOf(StatusOf(code[q])) \in Register!Replies(q)
  BY <1>5 DEF Signalled, StatusOf, ReplyOf, Register!Replies
<1>6. ASSUME code[q] = 2 PROVE ReplyOf(StatusOf(code[q])) \in Register!Replies(q)
  <2>1. IF op[q] = "write" THEN Phase(q) = "failed" ELSE Phase(q) = "missed"
    BY <1>1, <1>2, <1>6 DEF Shape, Phase, Signalled
  <2> QED
    BY <1>3, <1>6, <2>1 DEF StatusOf, ReplyOf, Register!Replies
<1>7. ReplyOf(StatusOf(code[q])) \in Register!Replies(q)
  BY <1>2, <1>4, <1>5, <1>6
<1> QED
  BY <1>1, <1>7, Replied

LEMMA BreakImplements ==
    ASSUME IInv, IInv', NEW q \in Request, Break(q)
    PROVE  [Register!Next]_(Register!vars)
<1>0. TypeOK /\ Shape(q) /\ Named /\ Frame(q)
  BY BreakFrame DEF IInv
<1>1. UNCHANGED <<op, seen, answer, file, x, code>>
  BY DEF Break, disk
<1>2. Phase(q)' = Phase(q)
  BY <1>1 DEF Phase
<1> QED
  BY <1>0, <1>1, <1>2, Stayed, Kept DEF Register!vars

LEMMA CloseFailsImplements ==
    ASSUME IInv, IInv', NEW q \in Request, CloseFails(q)
    PROVE  [Register!Next]_(Register!vars)
<1>0. TypeOK /\ Shape(q) /\ Named /\ Frame(q)
  BY CloseFailsFrame DEF IInv
<1>1. UNCHANGED <<op, seen, answer, file, code, x>>
  BY DEF CloseFails
<1>2. Phase(q)' = Phase(q)
  BY <1>0, <1>1 DEF TypeOK, Phase, CloseFails
<1> QED
  BY <1>0, <1>1, <1>2, Stayed, Kept DEF Register!vars

LEMMA StepFailsImplements ==
    ASSUME IInv, IInv', NEW q \in Request, StepFails(q)
    PROVE  [Register!Next]_(Register!vars)
<1>0. TypeOK /\ Shape(q) /\ Named /\ Frame(q)
  BY StepFailsFrame DEF IInv
<1>1. UNCHANGED <<op, seen, answer, file>>
  BY DEF StepFails, Exits, disk
<1>2. code[q] = NoCode /\ code'[q] = 1 /\ x[q] # "none" /\ x'[q] # "none"
  BY <1>0 DEF TypeOK, Shape, StepFails, Exits, Steps
<1>3. CASE seen[q] = Absent
  <2>1. Phase(q) = "called" /\ Phase(q)' = "failed"
    BY <1>1, <1>2, <1>3 DEF Phase, NoCode, Signalled
  <2> QED
    BY <1>0, <1>1, <2>1, Moved, Kept DEF Register!Next, Register!Fail, Phases
<1>4. CASE seen[q] # Absent
  <2>1. Phase(q)' = Phase(q)
    BY <1>1, <1>2, <1>4 DEF Phase
  <2> QED
    BY <1>0, <1>1, <2>1, Stayed, Kept DEF Register!vars
<1> QED
  BY <1>3, <1>4

LEMMA KilledImplements ==
    ASSUME IInv, IInv', NEW q \in Request, Killed(q)
    PROVE  [Register!Next]_(Register!vars)
<1>0. TypeOK /\ Shape(q) /\ Named /\ Frame(q)
  BY KilledFrame DEF IInv
<1>1. UNCHANGED <<op, seen, answer, file>>
  BY DEF Killed, Exits, disk
<1>2. code[q] = NoCode /\ code'[q] = Signalled /\ x[q] # "none" /\ x'[q] # "none"
  BY <1>0 DEF TypeOK, Shape, Killed, Exits, Steps, Signalled, NoCode
<1>3. CASE seen[q] = Absent
  <2>1. Phase(q) = "called" /\ Phase(q)' = "failed"
    BY <1>1, <1>2, <1>3 DEF Phase, NoCode, Signalled
  <2> QED
    BY <1>0, <1>1, <2>1, Moved, Kept DEF Register!Next, Register!Fail, Phases
<1>4. CASE seen[q] # Absent
  <2>1. Phase(q)' = Phase(q)
    BY <1>1, <1>2, <1>4 DEF Phase
  <2> QED
    BY <1>0, <1>1, <2>1, Stayed, Kept DEF Register!vars
<1> QED
  BY <1>3, <1>4

(***************************************************************************)
(* One path is a register: every step of every request is a step of the    *)
(* register or none (fsRun, x-fs).                                         *)
(***************************************************************************)
THEOREM Refinement == Spec => Implements
<1>1. Init => Register!Init
  <2> SUFFICES ASSUME Init PROVE Register!Init
    OBVIOUS
  <2>1. Phases = Register!Each("idle") /\ Replies = Register!Each("none")
    BY DEF Init, Phases, Phase, Replies, ReplyOf, Register!Each
  <2>2. Contents = Register!Each(Absent)
    BY FileApiAssumption DEF Init, Contents, Content, Register!Each
  <2> QED
    BY <2>1, <2>2 DEF Register!Init
<1>2. IInv /\ IInv' /\ [Next]_vars => [Register!Next]_(Register!vars)
  <2> SUFFICES ASSUME IInv, IInv', [Next]_vars PROVE [Register!Next]_(Register!vars)
    OBVIOUS
  <2>1. CASE UNCHANGED vars
    <3>1. UNCHANGED <<op, x, code, file, seen, answer>>
      BY <2>1 DEF vars, disk
    <3> QED
      BY <3>1 DEF Register!vars, Phases, Phase, Contents, Content, Replies
  <2>2. ASSUME NEW q \in Request,
               Run(q) \/ Write(q) \/ Read(q) \/ Delete(q) \/ Answer(q) \/ Fault(q)
        PROVE  [Register!Next]_(Register!vars)
    <3>1. CASE Run(q) \/ Write(q)
      BY <3>1, RunImplements, MkdirAllImplements, CreateTempImplements, CopyChunkImplements,
         CopyEndsImplements, RenameImplements DEF Write
    <3>2. CASE Read(q) \/ Delete(q)
      BY <3>2, OpenFileImplements, SendOutImplements, LstatImplements, RemoveFileImplements,
         EmptyDirImplements, RmDirImplements DEF Read, Delete
    <3>3. CASE Answer(q) \/ Fault(q)
      BY <3>3, AnswerCodeImplements, AnswerBrokenImplements, RunFailsImplements, BreakImplements,
         InspectFailsImplements, StepFailsImplements, CloseFailsImplements, KilledImplements DEF Answer, Fault
    <3> QED
      BY <2>2, <3>1, <3>2, <3>3
  <2> QED
    BY <2>1, <2>2 DEF Next
<1> QED
  BY <1>1, <1>2, Invariant, PTL DEF Spec, Implements, Register!Spec
=============================================================================
