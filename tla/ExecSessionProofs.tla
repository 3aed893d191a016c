------------------------- MODULE ExecSessionProofs -------------------------
(***************************************************************************)
(* Proofs about ExecSession: the safety properties of a session, for any   *)
(* number of chunks, frames and failures.                                  *)
(***************************************************************************)
EXTENDS ExecSession, TLAPS

(***************************************************************************)
(* The initial state satisfies the inductive invariant.                    *)
(***************************************************************************)
LEMMA InitIInv == Init => IInv
<1> SUFFICES ASSUME Init PROVE IInv
  OBVIOUS
<1>1. TypeOK
  <2>1. open \in BOOLEAN /\ wantStdin \in BOOLEAN
    BY Zenon DEF Init
  <2>2. inbox \in Seq({"data", "eof"})
    BY DEF Init
  <2>3. /\ pump \in [Stream -> {"none", "read", "write", "drain", "done"}]
        /\ sent \in [Stream -> Nat] /\ produced \in [Stream -> Nat] /\ wire \in [Stream -> Nat]
    BY DEF Init, Each
  <2>4. closed \in BOOLEAN /\ found \in BOOLEAN /\ late \in BOOLEAN
    BY DEF Init
  <2> QED
    BY <2>1, <2>2, <2>3, <2>4 DEF Init, TypeOK
<1>2. Phase
  BY DEF Init, Phase, ClientGone
<1>3. Lossless
  BY DEF Init, Lossless, Each, Conserved, InHand
<1>4. CodeKnown /\ PidFile
  BY DEF Init, CodeKnown, PidFile, Codes, NoCode
<1> QED
  BY <1>1, <1>2, <1>3, <1>4 DEF IInv

(***************************************************************************)
(* What Wait can come to.                                                  *)
(***************************************************************************)
LEMMA Ranges ==
    /\ InRange(-1) = Failed
    /\ \A c \in Codes : InRange(c) = c
    /\ NoCode \notin Codes \cup {Failed} /\ Failed \notin Codes
  BY DEF InRange, Codes, NoCode, Failed

(***************************************************************************)
(* Every variable keeps its type.                                          *)
(***************************************************************************)
LEMMA NextType == TypeOK /\ Phase /\ CodeKnown /\ [Next]_vars => TypeOK'
<1> SUFFICES ASSUME TypeOK, Phase, CodeKnown, [Next]_vars PROVE TypeOK'
  OBVIOUS
<1> USE DEF TypeOK, config, handler, pumps, stdin, command, stream, ending
<1>1. CASE Exec
  BY <1>1 DEF Exec, Alive
<1>2. CASE SelectOut
  BY <1>2 DEF SelectOut
<1>3. CASE Accept
  BY <1>3 DEF Accept, Each
<1>4. CASE AcceptFails
  BY <1>4, Ranges DEF AcceptFails, Return, KillExec
<1>5. CASE SelectGone
  BY <1>5, Ranges DEF SelectGone, Return, KillExec
<1>6. CASE Wait
  BY <1>6, Ranges DEF Wait
<1>7. CASE Exit
  BY <1>7 DEF Exit, Return
<1>8. ASSUME NEW s \in Stream, Deliver(s) PROVE TypeOK'
  BY <1>8 DEF Deliver
<1>9. ASSUME NEW s \in Stream, PumpWrite(s) PROVE TypeOK'
  <2>1. CASE sent' = [sent EXCEPT ![s] = @ + 1] /\ pump' = [pump EXCEPT ![s] = "read"]
    BY <1>9, <2>1 DEF PumpWrite
  <2>2. CASE UNCHANGED sent /\ pump' = [pump EXCEPT ![s] = "drain"]
    BY <1>9, <2>2 DEF PumpWrite
  <2> QED
    BY <1>9, <2>1, <2>2 DEF PumpWrite
<1>10. ASSUME NEW s \in Stream, PumpEnd(s) PROVE TypeOK'
  BY <1>10 DEF PumpEnd
<1>11. CASE ReadFrame
  BY <1>11 DEF ReadFrame
<1>12. CASE ReadFails
  BY <1>12 DEF ReadFails
<1>13. CASE StdinFails
  <2>1. open' \in BOOLEAN
    BY <1>13, Zenon DEF StdinFails
  <2> QED
    BY <1>13, <2>1 DEF StdinFails
<1>14. CASE StdinTaken
  BY <1>14 DEF StdinTaken
<1>15. CASE Send
  BY <1>15 DEF Send
<1>16. CASE Disconnect
  BY <1>16 DEF Disconnect
<1>17. CASE XExec
  BY <1>17 DEF XExec, Command, Alive
<1>18. CASE Die
  BY <1>18 DEF Die, Command, Alive
<1>19. CASE Fork
  BY <1>19 DEF Fork, Command
<1>20. CASE ChildDies
  BY <1>20 DEF ChildDies, Command
<1>21. CASE CloseOutputs
  BY <1>21 DEF CloseOutputs, Command
<1>22. ASSUME NEW s \in Stream, Produce(s) PROVE TypeOK'
  BY <1>22 DEF Produce, Command
<1>23. CASE StreamEnds
  BY <1>23 DEF StreamEnds, Command
<1>24. CASE KillRead
  BY <1>24 DEF KillRead
<1>25. CASE KillSees
  BY <1>25 DEF KillSees
<1>26. CASE KillHard
  BY <1>26 DEF KillHard, Codes
<1>27. CASE Forget
  BY <1>27 DEF Forget
<1>28. CASE Fault /\ ExecFails
  BY <1>28 DEF ExecFails, Return, Alive, Fault
<1>29. CASE Fault /\ Break
  BY <1>29 DEF Break, Each, Fault
<1>30. CASE Fault /\ WaitFails
  BY <1>30, Ranges DEF WaitFails, Fault
<1>31. CASE Fault /\ ToolFails
  BY <1>31 DEF ToolFails, Fault
<1>32. CASE UNCHANGED vars
  BY <1>32 DEF vars
<1> QED
  BY <1>1, <1>2, <1>3, <1>4, <1>5, <1>6, <1>7, <1>8, <1>9, <1>10, <1>11, <1>12, <1>13,
     <1>14, <1>15, <1>16, <1>17, <1>18, <1>19, <1>20, <1>21, <1>22, <1>23, <1>24, <1>25,
     <1>26, <1>27, <1>28, <1>29, <1>30, <1>31, <1>32
     DEF Next, Handler, Pump, Reader, Sprite, Tools, Fault

(***************************************************************************)
(* The goroutines of the session stay in step.                             *)
(***************************************************************************)
LEMMA NextPhase == TypeOK /\ Phase /\ CodeKnown /\ [Next]_vars => Phase'
<1> SUFFICES ASSUME TypeOK, Phase, CodeKnown, [Next]_vars PROVE Phase'
  OBVIOUS
<1> USE DEF Phase, OutDone, ClientGone, TypeOK, config, handler, pumps, stdin, command, stream, ending
<1>1. CASE Exec \/ SelectOut
  BY <1>1 DEF Exec, SelectOut, Alive
<1>2. CASE Accept
  BY <1>2 DEF Accept, Each
<1>3. CASE AcceptFails \/ SelectGone
  BY <1>3 DEF AcceptFails, SelectGone, Return, KillExec
<1>4. CASE Wait
  BY <1>4 DEF Wait
<1>5. CASE Exit
  BY <1>5 DEF Exit, Return
<1>6. ASSUME NEW s \in Stream, Deliver(s) PROVE Phase'
  <2>1. pump[s] # Each("none")[s] /\ pump[s] # "done"
    BY <1>6 DEF Deliver, Each
  <2>2. h \notin {"exec", "accept", "wait", "exit"} /\ exit = NoCode
    BY <2>1
  <2> QED
    BY <1>6, <2>2 DEF Deliver
<1>7. ASSUME NEW s \in Stream, PumpWrite(s) PROVE Phase'
  <2>1. pump[s] # Each("none")[s] /\ pump[s] # "done"
    BY <1>7 DEF PumpWrite, Each
  <2>2. h \notin {"exec", "accept", "wait", "exit"} /\ exit = NoCode
    BY <2>1
  <2> QED
    BY <1>7, <2>2 DEF PumpWrite
<1>8. ASSUME NEW s \in Stream, PumpEnd(s) PROVE Phase'
  <2>1. pump[s] # Each("none")[s] /\ pump[s] # "done"
    BY <1>8 DEF PumpEnd, Each
  <2>2. h \notin {"exec", "accept", "wait", "exit"} /\ exit = NoCode
    BY <2>1
  <2> QED
    BY <1>8, <2>2 DEF PumpEnd
<1>9. CASE ReadFrame
  BY <1>9 DEF ReadFrame
<1>10. CASE ReadFails \/ StdinFails \/ StdinTaken
  BY <1>10 DEF ReadFails, StdinFails, StdinTaken
<1>11. CASE Send \/ Disconnect
  BY <1>11 DEF Send, Disconnect
<1>12. CASE XExec
  BY <1>12 DEF XExec, Command, Alive
<1>13. CASE Die
  BY <1>13 DEF Die, Command, Alive
<1>14. CASE Fork \/ ChildDies \/ CloseOutputs
  BY <1>14 DEF Fork, ChildDies, CloseOutputs, Command
<1>15. ASSUME NEW s \in Stream, Produce(s) PROVE Phase'
  BY <1>15 DEF Produce, Command
<1>16. CASE StreamEnds
  BY <1>16 DEF StreamEnds, Command
<1>17. CASE KillRead
  BY <1>17 DEF KillRead
<1>18. CASE KillSees \/ KillHard
  BY <1>18 DEF KillSees, KillHard, Codes
<1>19. CASE Forget
  BY <1>19 DEF Forget
<1>20. CASE Fault /\ ExecFails
  BY <1>20 DEF ExecFails, Return, Alive, Fault
<1>21. CASE Fault /\ Break
  BY <1>21 DEF Break, Each, Fault
<1>22. CASE Fault /\ WaitFails
  BY <1>22 DEF WaitFails, Fault
<1>23. CASE Fault /\ ToolFails
  BY <1>23 DEF ToolFails, Fault
<1>24. CASE UNCHANGED vars
  BY <1>24 DEF vars
<1> QED
  BY <1>1, <1>2, <1>3, <1>4, <1>5, <1>6, <1>7, <1>8, <1>9, <1>10, <1>11, <1>12, <1>13,
     <1>14, <1>15, <1>16, <1>17, <1>18, <1>19, <1>20, <1>21, <1>22, <1>23, <1>24
     DEF Next, Handler, Pump, Reader, Sprite, Tools, Fault

(***************************************************************************)
(* No chunk is lost while the stream holds and the client stays.           *)
(***************************************************************************)
LEMMA NextLossless == TypeOK /\ Phase /\ CodeKnown /\ Lossless /\ [Next]_vars => Lossless'
<1> SUFFICES ASSUME TypeOK, Phase, CodeKnown, Lossless, [Next]_vars PROVE Lossless'
  OBVIOUS
<1> USE DEF Lossless, Conserved, InHand, Phase, OutDone, ClientGone, TypeOK, config, handler, pumps, stdin, command, stream, ending
<1>1. CASE Exec \/ SelectOut
  BY <1>1 DEF Exec, SelectOut, Alive
<1>2. CASE Accept
  BY <1>2 DEF Accept, Each
<1>3. CASE AcceptFails \/ SelectGone
  BY <1>3 DEF AcceptFails, SelectGone, Return, KillExec
<1>4. CASE Wait
  BY <1>4 DEF Wait
<1>5. CASE Exit
  BY <1>5 DEF Exit, Return
<1>6. ASSUME NEW s \in Stream, Deliver(s) PROVE Lossless'
  BY <1>6 DEF Deliver
<1>7. ASSUME NEW s \in Stream, PumpWrite(s) PROVE Lossless'
  <2>1. TypeOK'
    BY NextType
  <2> QED
    BY <1>7, <2>1 DEF PumpWrite
<1>8. ASSUME NEW s \in Stream, PumpEnd(s) PROVE Lossless'
  BY <1>8 DEF PumpEnd
<1>9. CASE ReadFrame
  BY <1>9 DEF ReadFrame
<1>10. CASE ReadFails \/ StdinFails \/ StdinTaken
  BY <1>10 DEF ReadFails, StdinFails, StdinTaken
<1>11. CASE Send \/ Disconnect
  BY <1>11 DEF Send, Disconnect
<1>12. CASE XExec
  BY <1>12 DEF XExec, Command, Alive
<1>13. CASE Die
  BY <1>13 DEF Die, Command, Alive
<1>14. CASE Fork \/ ChildDies \/ CloseOutputs
  BY <1>14 DEF Fork, ChildDies, CloseOutputs, Command
<1>15. ASSUME NEW s \in Stream, Produce(s) PROVE Lossless'
  <2> SUFFICES ASSUME NEW x \in Stream
      PROVE  /\ eof' # "broken" /\ client' = "here" => pump'[x] # "drain" /\ Conserved(x)'
             /\ pump'[x] = "done" => eof' # "open"
    BY <1>15 DEF Produce, Command
  <2>1. /\ eof' = eof /\ eof = "open" /\ pump' = pump /\ client' = client /\ sent' = sent
        /\ produced' = [produced EXCEPT ![s] = @ + 1] /\ wire' = [wire EXCEPT ![s] = @ + 1]
    BY <1>15 DEF Produce, Command
  <2>2. Conserved(x) => Conserved(x)'
    <3>1. CASE x = s
      BY <2>1, <3>1
    <3>2. CASE x # s
      BY <2>1, <3>2
    <3> QED
      BY <3>1, <3>2
  <2> QED
    BY <2>1, <2>2
<1>16. CASE StreamEnds
  BY <1>16 DEF StreamEnds, Command
<1>17. CASE KillRead
  BY <1>17 DEF KillRead
<1>18. CASE KillSees \/ KillHard
  BY <1>18 DEF KillSees, KillHard, Codes
<1>19. CASE Forget
  BY <1>19 DEF Forget
<1>20. CASE Fault /\ ExecFails
  BY <1>20 DEF ExecFails, Return, Alive, Fault
<1>21. CASE Fault /\ Break
  BY <1>21 DEF Break, Each, Fault
<1>22. CASE Fault /\ WaitFails
  BY <1>22 DEF WaitFails, Fault
<1>23. CASE Fault /\ ToolFails
  BY <1>23 DEF ToolFails, Fault
<1>24. CASE UNCHANGED vars
  BY <1>24 DEF vars
<1> QED
  BY <1>1, <1>2, <1>3, <1>4, <1>5, <1>6, <1>7, <1>8, <1>9, <1>10, <1>11, <1>12, <1>13,
     <1>14, <1>15, <1>16, <1>17, <1>18, <1>19, <1>20, <1>21, <1>22, <1>23, <1>24
     DEF Next, Handler, Pump, Reader, Sprite, Tools, Fault

(***************************************************************************)
(* A process that ended has an exit code, and realExec takes no other.     *)
(***************************************************************************)
LEMMA NextCode == TypeOK /\ Phase /\ CodeKnown /\ [Next]_vars => CodeKnown'
<1> SUFFICES ASSUME TypeOK, Phase, CodeKnown, [Next]_vars PROVE CodeKnown'
  OBVIOUS
<1> USE DEF CodeKnown, Waited, Phase, TypeOK, config, handler, pumps, stdin, command, stream, ending
<1>1. CASE Exec \/ SelectOut
  BY <1>1 DEF Exec, SelectOut, Alive
<1>2. CASE Accept
  BY <1>2 DEF Accept, Each
<1>3. CASE AcceptFails \/ SelectGone
  BY <1>3 DEF AcceptFails, SelectGone, Return, KillExec
<1>4. CASE Wait
  BY <1>4, Ranges DEF Wait
<1>5. CASE Exit
  BY <1>5 DEF Exit, Return
<1>6. ASSUME NEW s \in Stream, Deliver(s) PROVE CodeKnown'
  BY <1>6 DEF Deliver
<1>7. ASSUME NEW s \in Stream, PumpWrite(s) PROVE CodeKnown'
  BY <1>7 DEF PumpWrite
<1>8. ASSUME NEW s \in Stream, PumpEnd(s) PROVE CodeKnown'
  BY <1>8 DEF PumpEnd
<1>9. CASE ReadFrame
  BY <1>9 DEF ReadFrame
<1>10. CASE ReadFails \/ StdinFails \/ StdinTaken
  BY <1>10 DEF ReadFails, StdinFails, StdinTaken
<1>11. CASE Send \/ Disconnect
  BY <1>11 DEF Send, Disconnect
<1>12. CASE XExec
  BY <1>12 DEF XExec, Command, Alive
<1>13. CASE Die
  BY <1>13, Ranges DEF Die, Command, Alive
<1>14. CASE Fork \/ ChildDies \/ CloseOutputs
  BY <1>14 DEF Fork, ChildDies, CloseOutputs, Command
<1>15. ASSUME NEW s \in Stream, Produce(s) PROVE CodeKnown'
  BY <1>15 DEF Produce, Command
<1>16. CASE StreamEnds
  BY <1>16 DEF StreamEnds, Command
<1>17. CASE KillRead
  BY <1>17 DEF KillRead
<1>18. CASE KillSees
  BY <1>18 DEF KillSees
<1>19. CASE KillHard
  BY <1>19, Ranges DEF KillHard, Codes
<1>20. CASE Forget
  BY <1>20 DEF Forget
<1>21. CASE Fault /\ ExecFails
  BY <1>21 DEF ExecFails, Return, Alive, Fault
<1>22. CASE Fault /\ Break
  BY <1>22 DEF Break, Each, Fault
<1>23. CASE Fault /\ WaitFails
  BY <1>23, Ranges DEF WaitFails, Fault
<1>24. CASE Fault /\ ToolFails
  BY <1>24 DEF ToolFails, Fault
<1>25. CASE UNCHANGED vars
  BY <1>25 DEF vars
<1> QED
  BY <1>1, <1>2, <1>3, <1>4, <1>5, <1>6, <1>7, <1>8, <1>9, <1>10, <1>11, <1>12, <1>13,
     <1>14, <1>15, <1>16, <1>17, <1>18, <1>19, <1>20, <1>21, <1>22, <1>23, <1>24, <1>25
     DEF Next, Handler, Pump, Reader, Sprite, Tools, Fault

(***************************************************************************)
(* The pid file is what x-exec made of it until x-kill or x-forget runs, and *)
(* an x-kill that comes late enough ends the command.                      *)
(***************************************************************************)
LEMMA NextPidFile == TypeOK /\ Phase /\ CodeKnown /\ PidFile /\ [Next]_vars => PidFile'
<1> SUFFICES ASSUME TypeOK, Phase, CodeKnown, PidFile, [Next]_vars PROVE PidFile'
  OBVIOUS
<1> USE DEF PidFile, Phase, CodeKnown, ClientGone, TypeOK, config, handler, pumps, stdin, command, stream, ending
<1>1. CASE Exec \/ SelectOut
  BY <1>1 DEF Exec, SelectOut, Alive
<1>2. CASE Accept
  BY <1>2 DEF Accept, Each
<1>3. CASE AcceptFails \/ SelectGone
  BY <1>3 DEF AcceptFails, SelectGone, Return, KillExec
<1>4. CASE Wait
  BY <1>4 DEF Wait
<1>5. CASE Exit
  BY <1>5 DEF Exit, Return
<1>6. ASSUME NEW s \in Stream, Deliver(s) PROVE PidFile'
  BY <1>6 DEF Deliver
<1>7. ASSUME NEW s \in Stream, PumpWrite(s) PROVE PidFile'
  BY <1>7 DEF PumpWrite
<1>8. ASSUME NEW s \in Stream, PumpEnd(s) PROVE PidFile'
  BY <1>8 DEF PumpEnd
<1>9. CASE ReadFrame
  BY <1>9 DEF ReadFrame
<1>10. CASE ReadFails \/ StdinFails \/ StdinTaken
  BY <1>10 DEF ReadFails, StdinFails, StdinTaken
<1>11. CASE Send \/ Disconnect
  BY <1>11 DEF Send, Disconnect
<1>12. CASE XExec
  BY <1>12 DEF XExec, Command, Alive
<1>13. CASE Die
  BY <1>13 DEF Die, Command, Alive
<1>14. CASE Fork \/ ChildDies \/ CloseOutputs
  BY <1>14 DEF Fork, ChildDies, CloseOutputs, Command
<1>15. ASSUME NEW s \in Stream, Produce(s) PROVE PidFile'
  BY <1>15 DEF Produce, Command
<1>16. CASE StreamEnds
  BY <1>16 DEF StreamEnds, Command
<1>17. CASE KillRead
  BY <1>17 DEF KillRead
<1>18. CASE KillSees \/ KillHard
  BY <1>18 DEF KillSees, KillHard, Codes
<1>19. CASE Forget
  BY <1>19 DEF Forget
<1>20. CASE Fault /\ ExecFails
  BY <1>20 DEF ExecFails, Return, Alive, Fault
<1>21. CASE Fault /\ Break
  BY <1>21 DEF Break, Each, Fault
<1>22. CASE Fault /\ WaitFails
  BY <1>22 DEF WaitFails, Fault
<1>23. CASE Fault /\ ToolFails
  BY <1>23 DEF ToolFails, Fault
<1>24. CASE UNCHANGED vars
  BY <1>24 DEF vars
<1> QED
  BY <1>1, <1>2, <1>3, <1>4, <1>5, <1>6, <1>7, <1>8, <1>9, <1>10, <1>11, <1>12, <1>13,
     <1>14, <1>15, <1>16, <1>17, <1>18, <1>19, <1>20, <1>21, <1>22, <1>23, <1>24
     DEF Next, Handler, Pump, Reader, Sprite, Tools, Fault

-----------------------------------------------------------------------------
(***************************************************************************)
(* The invariant holds in every reachable state.                           *)
(***************************************************************************)
THEOREM Invariant == Spec => []IInv
<1>1. IInv /\ [Next]_vars => IInv'
  BY NextType, NextPhase, NextLossless, NextCode, NextPidFile DEF IInv
<1> QED
  BY InitIInv, <1>1, PTL DEF Spec

(***************************************************************************)
(* Every variable of a session has its type, for any bounds.               *)
(***************************************************************************)
THEOREM TypeCorrect == Spec => []TypeOK
<1>1. IInv => TypeOK
  BY DEF IInv
<1> QED
  BY Invariant, <1>1, PTL

(***************************************************************************)
(* The exit frame comes after all output: realExec waits for both pumps,   *)
(* and a pump is done when the stream has ended and has nothing under way. *)
(***************************************************************************)
THEOREM OutputBeforeExit == Spec => []OutputComplete
<1>1. IInv => OutputComplete
  <2> SUFFICES ASSUME IInv, exit # NoCode, eof = "clean" PROVE sent = produced
    BY DEF OutputComplete
  <2>1. sent \in [Stream -> Nat] /\ produced \in [Stream -> Nat]
    BY DEF IInv, TypeOK
  <2>2. \A s \in Stream : sent[s] = produced[s]
    BY DEF IInv, Lossless
  <2> QED
    BY <2>1, <2>2
<1> QED
  BY Invariant, <1>1, PTL

(***************************************************************************)
(* The exit frame has the code of the command, which has ended, or 255.    *)
(***************************************************************************)
THEOREM ExitCodeIsTheirs == Spec => []ExitIsTheirs
<1>1. IInv => ExitIsTheirs
  BY DEF IInv, TypeOK, Phase, CodeKnown, ExitIsTheirs
<1> QED
  BY Invariant, <1>1, PTL

(***************************************************************************)
(* x-kill ends the command of a client that is gone while it ran: the pid  *)
(* file was whole before the command itself ran, and nothing but x-kill    *)
(* and x-forget, which realExec never both asks for, removes it.           *)
(***************************************************************************)
THEOREM LeaverKilled == Spec => []LeaverIsKilled
<1>1. IInv => LeaverIsKilled
  BY DEF IInv, PidFile, LeaverIsKilled
<1> QED
  BY Invariant, <1>1, PTL

(***************************************************************************)
(* realExec asks for x-kill only when the client left, was refused at the  *)
(* upgrade, or was cut off by SIGTERM or a frame that is too long.         *)
(***************************************************************************)
THEOREM StayerLives == Spec => []StayerIsNotKilled
<1>1. IInv => StayerIsNotKilled
  BY DEF IInv, Phase, StayerIsNotKilled
<1> QED
  BY Invariant, <1>1, PTL
=============================================================================
