---------------------------- MODULE RelayProofs ----------------------------
(***************************************************************************)
(* Proofs about Relay: nothing of an exchange is lost, for any number of   *)
(* chunks and any room on the way.                                         *)
(***************************************************************************)
EXTENDS Relay, TLAPS

(***************************************************************************)
(* The initial state satisfies the inductive invariant.                    *)
(***************************************************************************)
LEMMA InitIInv == Init => IInv
<1> SUFFICES ASSUME Init PROVE IInv
  OBVIOUS
<1>1. TypeOK
  <2>1. /\ fin \in BOOLEAN /\ end \in BOOLEAN /\ upEnd \in BOOLEAN
        /\ reqEnd \in BOOLEAN /\ respEnd \in BOOLEAN /\ sawEnd \in BOOLEAN
    BY DEF Init
  <2>2. /\ 0 \in 0 .. Cap /\ 0 \in 0 .. MaxRequest /\ 0 \in 0 .. MaxResponse
    BY RelayAssumption
  <2> QED
    BY <2>1, <2>2 DEF Init, TypeOK
<1>2. Beginning /\ RequestKept /\ ResponseKept /\ Endings
  BY DEF Init, Beginning, RequestKept, ResponseKept, Endings, One
<1> QED
  BY <1>1, <1>2 DEF IInv

(***************************************************************************)
(* Every variable keeps its type; that a count stays in its range follows  *)
(* from what the places hold.                                              *)
(***************************************************************************)
LEMMA NextType == IInv /\ [Next]_vars => TypeOK'
<1> SUFFICES ASSUME IInv, [Next]_vars PROVE TypeOK'
  OBVIOUS
<1> USE RelayAssumption DEF IInv, TypeOK, RequestKept, ResponseKept, One, host, pipes, copies, socket, server, splitter
<1>1. CASE Dial
  BY <1>1 DEF Dial
<1>2. CASE DialFails
  BY <1>2 DEF DialFails, Far
<1>3. CASE Write
  BY <1>3 DEF Write, Far
<1>4. CASE WriteTaken
  BY <1>4 DEF WriteTaken, Far
<1>5. CASE WriteFails
  BY <1>5 DEF WriteFails, Running, Far
<1>6. CASE CloseWrite
  <2>1. upEnd' \in BOOLEAN
    BY <1>6, Zenon DEF CloseWrite, StdinCloses, Far
  <2> QED
    BY <1>6, <2>1 DEF CloseWrite, StdinCloses, Far
<1>7. CASE Close
  BY <1>7 DEF Close, Far
<1>8. CASE CloseStdin
  <2>1. upEnd' \in BOOLEAN
    BY <1>8, Zenon DEF CloseStdin, StdinCloses, Far
  <2> QED
    BY <1>8, <2>1 DEF CloseStdin, StdinCloses, Far
<1>9. CASE CloseStream
  <2>1. CASE stream = "open" /\ Cut("closed")
    <3>1. up' \in 0 .. Cap /\ down' \in 0 .. Cap /\ errs' \in {0, 1}
      BY <2>1, RelayAssumption DEF Cut
    <3> QED
      BY <1>9, <2>1, <3>1 DEF CloseStream, Cut, Far
  <2>2. CASE stream # "open" /\ UNCHANGED pipes
    BY <1>9, <2>2 DEF CloseStream, Far
  <2> QED
    BY <1>9, <2>1, <2>2 DEF CloseStream
<1>10. CASE ReadChunk
  BY <1>10 DEF ReadChunk, Far
<1>11. CASE ReadEnd
  BY <1>11 DEF ReadEnd, Far
<1>12. CASE Split
  BY <1>12 DEF Split, Far
<1>13. CASE Discard
  BY <1>13 DEF Discard, Far
<1>14. CASE SplitEnd
  BY <1>14 DEF SplitEnd, Running, Far
<1>15. CASE Join
  BY <1>15 DEF Join, Near
<1>16. CASE GiveUp
  BY <1>16 DEF GiveUp, Near
<1>17. CASE CopyIn
  BY <1>17 DEF CopyIn, Near
<1>18. CASE CopyInEnd
  BY <1>18 DEF CopyInEnd, Near
<1>19. CASE CopyOut
  BY <1>19 DEF CopyOut, Near
<1>20. CASE CopyOutEnd
  BY <1>20 DEF CopyOutEnd, Near
<1>21. CASE CopyOutFails
  BY <1>21 DEF CopyOutFails, Near
<1>27. CASE Abort
  BY <1>27 DEF Abort, Near
<1>22. CASE Receive
  <2>1. CASE req > 0 /\ req' = req - 1 /\ read' = read + 1 /\ UNCHANGED sawEnd
    BY <1>22, <2>1 DEF Receive, Outside, Near
  <2>2. CASE req = 0 /\ reqEnd /\ sawEnd' = TRUE /\ UNCHANGED <<req, read>>
    BY <1>22, <2>2 DEF Receive, Outside, Near
  <2> QED
    BY <1>22, <2>1, <2>2 DEF Receive, Outside, Near
<1>23. CASE Respond
  BY <1>23 DEF Respond, Answers, Outside, Near
<1>24. CASE Finish
  BY <1>24 DEF Finish, Answers, Outside, Near
<1>25. CASE Break
  <2>1. up' \in 0 .. Cap /\ down' \in 0 .. Cap /\ errs' \in {0, 1}
    BY <1>25, RelayAssumption DEF Break, Cut
  <2> QED
    BY <1>25, <2>1 DEF Break, Cut, Near
<1>26. CASE UNCHANGED vars
  BY <1>26 DEF vars
<1> QED
  BY <1>1, <1>2, <1>3, <1>4, <1>5, <1>6, <1>7, <1>8, <1>9, <1>10, <1>11, <1>12, <1>13, <1>14,
     <1>15, <1>16, <1>17, <1>18, <1>19, <1>20, <1>21, <1>22, <1>23, <1>24, <1>25, <1>26, <1>27
     DEF Next, Host, Splitter, XRelay, Server

(***************************************************************************)
(* Nothing happens before Dial, or before x-relay has its connection.      *)
(***************************************************************************)
LEMMA NextBeginning == TypeOK /\ Beginning /\ [Next]_vars => Beginning'
<1> SUFFICES ASSUME TypeOK, Beginning, [Next]_vars PROVE Beginning'
  OBVIOUS
<1> USE DEF TypeOK, Beginning, Over, host, pipes, copies, socket, server, splitter
<1>1. CASE Dial
  BY <1>1 DEF Dial
<1>2. CASE DialFails
  BY <1>2 DEF DialFails, Far
<1>3. CASE Write
  BY <1>3 DEF Write, Far
<1>4. CASE WriteTaken
  BY <1>4 DEF WriteTaken, Far
<1>5. CASE WriteFails
  BY <1>5 DEF WriteFails, Running, Far
<1>6. CASE CloseWrite
  <2>1. upEnd' \in BOOLEAN
    BY <1>6, Zenon DEF CloseWrite, StdinCloses, Far
  <2> QED
    BY <1>6, <2>1 DEF CloseWrite, StdinCloses, Far
<1>7. CASE Close
  BY <1>7 DEF Close, Far
<1>8. CASE CloseStdin
  <2>1. upEnd' \in BOOLEAN
    BY <1>8, Zenon DEF CloseStdin, StdinCloses, Far
  <2> QED
    BY <1>8, <2>1 DEF CloseStdin, StdinCloses, Far
<1>9. CASE CloseStream
  BY <1>9 DEF CloseStream, Cut, Far
<1>10. CASE ReadChunk
  BY <1>10 DEF ReadChunk, Far
<1>11. CASE ReadEnd
  BY <1>11 DEF ReadEnd, Far
<1>12. CASE Split
  BY <1>12 DEF Split, Far
<1>13. CASE Discard
  BY <1>13 DEF Discard, Far
<1>14. CASE SplitEnd
  BY <1>14 DEF SplitEnd, Running, Far
<1>15. CASE Join
  BY <1>15 DEF Join, Near
<1>16. CASE GiveUp
  BY <1>16 DEF GiveUp, Near
<1>17. CASE CopyIn
  BY <1>17 DEF CopyIn, Near
<1>18. CASE CopyInEnd
  BY <1>18 DEF CopyInEnd, Near
<1>19. CASE CopyOut
  BY <1>19 DEF CopyOut, Near
<1>20. CASE CopyOutEnd
  BY <1>20 DEF CopyOutEnd, Near
<1>21. CASE CopyOutFails
  BY <1>21 DEF CopyOutFails, Near
<1>27. CASE Abort
  BY <1>27 DEF Abort, Near
<1>22. CASE Receive
  BY <1>22 DEF Receive, Outside, Near
<1>23. CASE Respond
  BY <1>23 DEF Respond, Answers, Outside, Near
<1>24. CASE Finish
  BY <1>24 DEF Finish, Answers, Outside, Near
<1>25. CASE Break
  BY <1>25 DEF Break, Cut, Near
<1>26. CASE UNCHANGED vars
  BY <1>26 DEF vars
<1> QED
  BY <1>1, <1>2, <1>3, <1>4, <1>5, <1>6, <1>7, <1>8, <1>9, <1>10, <1>11, <1>12, <1>13, <1>14,
     <1>15, <1>16, <1>17, <1>18, <1>19, <1>20, <1>21, <1>22, <1>23, <1>24, <1>25, <1>26, <1>27
     DEF Next, Host, Splitter, XRelay, Server

(***************************************************************************)
(* Every step moves a chunk of the request on, or loses it when the stream *)
(* is cut or x-relay is over.                                              *)
(***************************************************************************)
LEMMA NextRequest == IInv /\ [Next]_vars => RequestKept'
<1> SUFFICES ASSUME IInv, [Next]_vars PROVE RequestKept'
  OBVIOUS
<1> USE DEF IInv, TypeOK, Beginning, RequestKept, Endings, Over, host, pipes, copies, socket, server, splitter
<1>1. CASE Dial
  BY <1>1 DEF Dial, One
<1>2. CASE DialFails
  BY <1>2 DEF DialFails, Far, One
<1>3. CASE Write
  BY <1>3 DEF Write, Far, One
<1>4. CASE WriteTaken
  BY <1>4 DEF WriteTaken, Far, One
<1>5. CASE WriteFails
  BY <1>5 DEF WriteFails, Running, Far, One
<1>6. CASE CloseWrite
  <2>1. upEnd' \in BOOLEAN
    BY <1>6, Zenon DEF CloseWrite, StdinCloses, Far, One
  <2> QED
    BY <1>6, <2>1 DEF CloseWrite, StdinCloses, Far, One
<1>7. CASE Close
  BY <1>7 DEF Close, Far, One
<1>8. CASE CloseStdin
  <2>1. upEnd' \in BOOLEAN
    BY <1>8, Zenon DEF CloseStdin, StdinCloses, Far, One
  <2> QED
    BY <1>8, <2>1 DEF CloseStdin, StdinCloses, Far, One
<1>9. CASE CloseStream
  <2>1. up' \in Nat /\ up' <= up /\ UNCHANGED <<writer, wrote, in, req, read>>
    BY <1>9, RelayAssumption DEF CloseStream, Cut, Far
  <2>2. stream' # "open"
    BY <1>9 DEF CloseStream, Cut
  <2>3. One(in = "write") \in {0, 1}
    BY DEF One
  <2> QED
    BY <2>1, <2>2, <2>3, RelayAssumption
<1>10. CASE ReadChunk
  BY <1>10 DEF ReadChunk, Far, One
<1>11. CASE ReadEnd
  BY <1>11 DEF ReadEnd, Far, One
<1>12. CASE Split
  BY <1>12 DEF Split, Far, One
<1>13. CASE Discard
  BY <1>13 DEF Discard, Far, One
<1>14. CASE SplitEnd
  BY <1>14 DEF SplitEnd, Running, Far, One
<1>15. CASE Join
  BY <1>15 DEF Join, Near, One
<1>16. CASE GiveUp
  BY <1>16 DEF GiveUp, Near, One
<1>17. CASE CopyIn
  BY <1>17 DEF CopyIn, Near, One
<1>18. CASE CopyInEnd
  BY <1>18 DEF CopyInEnd, Near, One
<1>19. CASE CopyOut
  BY <1>19 DEF CopyOut, Near, One
<1>20. CASE CopyOutEnd
  BY <1>20 DEF CopyOutEnd, Near, One
<1>21. CASE CopyOutFails
  BY <1>21 DEF CopyOutFails, Near, One
<1>27. CASE Abort
  BY <1>27 DEF Abort, Near, One
<1>22. CASE Receive
  BY <1>22 DEF Receive, Outside, Near, One
<1>23. CASE Respond
  BY <1>23 DEF Respond, Answers, Outside, Near, One
<1>24. CASE Finish
  BY <1>24 DEF Finish, Answers, Outside, Near, One
<1>25. CASE Break
  <2>1. up' \in Nat /\ up' <= up /\ UNCHANGED <<writer, wrote, in, req, read>>
    BY <1>25, RelayAssumption DEF Break, Cut, Near
  <2>2. stream' # "open"
    BY <1>25 DEF Break, Cut
  <2>3. One(in = "write") \in {0, 1}
    BY DEF One
  <2> QED
    BY <2>1, <2>2, <2>3, RelayAssumption
<1>26. CASE UNCHANGED vars
  BY <1>26 DEF vars
<1> QED
  BY <1>1, <1>2, <1>3, <1>4, <1>5, <1>6, <1>7, <1>8, <1>9, <1>10, <1>11, <1>12, <1>13, <1>14,
     <1>15, <1>16, <1>17, <1>18, <1>19, <1>20, <1>21, <1>22, <1>23, <1>24, <1>25, <1>26, <1>27
     DEF Next, Host, Splitter, XRelay, Server

(***************************************************************************)
(* Every step moves a chunk of the response on, or loses it when the       *)
(* stream is cut.                                                          *)
(***************************************************************************)
LEMMA NextResponse == IInv /\ [Next]_vars => ResponseKept'
<1> SUFFICES ASSUME IInv, [Next]_vars PROVE ResponseKept'
  OBVIOUS
<1> USE DEF IInv, TypeOK, Beginning, ResponseKept, Over, host, pipes, copies, socket, server, splitter
<1>1. CASE Dial
  BY <1>1 DEF Dial, One
<1>2. CASE DialFails
  BY <1>2 DEF DialFails, Far, One
<1>3. CASE Write
  BY <1>3 DEF Write, Far, One
<1>4. CASE WriteTaken
  BY <1>4 DEF WriteTaken, Far, One
<1>5. CASE WriteFails
  BY <1>5 DEF WriteFails, Running, Far, One
<1>6. CASE CloseWrite
  <2>1. upEnd' \in BOOLEAN
    BY <1>6, Zenon DEF CloseWrite, StdinCloses, Far, One
  <2> QED
    BY <1>6, <2>1 DEF CloseWrite, StdinCloses, Far, One
<1>7. CASE Close
  BY <1>7 DEF Close, Far, One
<1>8. CASE CloseStdin
  <2>1. upEnd' \in BOOLEAN
    BY <1>8, Zenon DEF CloseStdin, StdinCloses, Far, One
  <2> QED
    BY <1>8, <2>1 DEF CloseStdin, StdinCloses, Far, One
<1>9. CASE CloseStream
  <2>1. down' \in Nat /\ down' <= down /\ UNCHANGED <<resp, out, demux, got, served>>
    BY <1>9, RelayAssumption DEF CloseStream, Cut, Far
  <2>2. stream' # "open"
    BY <1>9 DEF CloseStream, Cut
  <2>3. One(out = "write") \in {0, 1} /\ One(demux = "out") \in {0, 1}
    BY DEF One
  <2> QED
    BY <2>1, <2>2, <2>3, RelayAssumption
<1>10. CASE ReadChunk
  BY <1>10 DEF ReadChunk, Far, One
<1>11. CASE ReadEnd
  BY <1>11 DEF ReadEnd, Far, One
<1>12. CASE Split
  BY <1>12 DEF Split, Far, One
<1>13. CASE Discard
  BY <1>13 DEF Discard, Far, One
<1>14. CASE SplitEnd
  BY <1>14 DEF SplitEnd, Running, Far, One
<1>15. CASE Join
  BY <1>15 DEF Join, Near, One
<1>16. CASE GiveUp
  BY <1>16 DEF GiveUp, Near, One
<1>17. CASE CopyIn
  BY <1>17 DEF CopyIn, Near, One
<1>18. CASE CopyInEnd
  BY <1>18 DEF CopyInEnd, Near, One
<1>19. CASE CopyOut
  BY <1>19 DEF CopyOut, Near, One
<1>20. CASE CopyOutEnd
  BY <1>20 DEF CopyOutEnd, Near, One
<1>21. CASE CopyOutFails
  BY <1>21 DEF CopyOutFails, Near, One
<1>27. CASE Abort
  BY <1>27 DEF Abort, Near, One
<1>22. CASE Receive
  BY <1>22 DEF Receive, Outside, Near, One
<1>23. CASE Respond
  BY <1>23 DEF Respond, Answers, Outside, Near, One
<1>24. CASE Finish
  BY <1>24 DEF Finish, Answers, Outside, Near, One
<1>25. CASE Break
  <2>1. down' \in Nat /\ down' <= down /\ UNCHANGED <<resp, out, demux, got, served>>
    BY <1>25, RelayAssumption DEF Break, Cut, Near
  <2>2. stream' # "open"
    BY <1>25 DEF Break, Cut
  <2>3. One(out = "write") \in {0, 1} /\ One(demux = "out") \in {0, 1}
    BY DEF One
  <2> QED
    BY <2>1, <2>2, <2>3, RelayAssumption
<1>26. CASE UNCHANGED vars
  BY <1>26 DEF vars
<1> QED
  BY <1>1, <1>2, <1>3, <1>4, <1>5, <1>6, <1>7, <1>8, <1>9, <1>10, <1>11, <1>12, <1>13, <1>14,
     <1>15, <1>16, <1>17, <1>18, <1>19, <1>20, <1>21, <1>22, <1>23, <1>24, <1>25, <1>26, <1>27
     DEF Next, Host, Splitter, XRelay, Server

(***************************************************************************)
(* An end is only seen behind everything that comes before it.             *)
(***************************************************************************)
LEMMA NextEndings == IInv /\ [Next]_vars => Endings'
<1> SUFFICES ASSUME IInv, [Next]_vars PROVE Endings'
  OBVIOUS
<1> USE DEF IInv, TypeOK, Beginning, ResponseKept, Endings, One, Over, host, pipes, copies, socket, server, splitter
<1>1. CASE Dial
  BY <1>1 DEF Dial
<1>2. CASE DialFails
  BY <1>2 DEF DialFails, Far
<1>3. CASE Write
  BY <1>3 DEF Write, Far
<1>4. CASE WriteTaken
  BY <1>4 DEF WriteTaken, Far
<1>5. CASE WriteFails
  BY <1>5 DEF WriteFails, Running, Far
<1>6. CASE CloseWrite
  <2>1. upEnd' \in BOOLEAN
    BY <1>6, Zenon DEF CloseWrite, StdinCloses, Far
  <2> QED
    BY <1>6, <2>1 DEF CloseWrite, StdinCloses, Far
<1>7. CASE Close
  BY <1>7 DEF Close, Far
<1>8. CASE CloseStdin
  <2>1. upEnd' \in BOOLEAN
    BY <1>8, Zenon DEF CloseStdin, StdinCloses, Far
  <2> QED
    BY <1>8, <2>1 DEF CloseStdin, StdinCloses, Far
<1>9. CASE CloseStream
  BY <1>9 DEF CloseStream, Cut, Far
<1>10. CASE ReadChunk
  BY <1>10 DEF ReadChunk, Far
<1>11. CASE ReadEnd
  BY <1>11 DEF ReadEnd, Far
<1>12. CASE Split
  BY <1>12 DEF Split, Far
<1>13. CASE Discard
  BY <1>13 DEF Discard, Far
<1>14. CASE SplitEnd
  BY <1>14 DEF SplitEnd, Running, Far
<1>15. CASE Join
  BY <1>15 DEF Join, Near
<1>16. CASE GiveUp
  BY <1>16 DEF GiveUp, Near
<1>17. CASE CopyIn
  BY <1>17 DEF CopyIn, Near
<1>18. CASE CopyInEnd
  BY <1>18 DEF CopyInEnd, Near
<1>19. CASE CopyOut
  BY <1>19 DEF CopyOut, Near
<1>20. CASE CopyOutEnd
  BY <1>20 DEF CopyOutEnd, Near
<1>21. CASE CopyOutFails
  BY <1>21 DEF CopyOutFails, Near
<1>27. CASE Abort
  BY <1>27 DEF Abort, Near
<1>22. CASE Receive
  BY <1>22 DEF Receive, Outside, Near
<1>23. CASE Respond
  BY <1>23 DEF Respond, Answers, Outside, Near
<1>24. CASE Finish
  BY <1>24 DEF Finish, Answers, Outside, Near
<1>25. CASE Break
  BY <1>25 DEF Break, Cut, Near
<1>26. CASE UNCHANGED vars
  BY <1>26 DEF vars
<1> QED
  BY <1>1, <1>2, <1>3, <1>4, <1>5, <1>6, <1>7, <1>8, <1>9, <1>10, <1>11, <1>12, <1>13, <1>14,
     <1>15, <1>16, <1>17, <1>18, <1>19, <1>20, <1>21, <1>22, <1>23, <1>24, <1>25, <1>26, <1>27
     DEF Next, Host, Splitter, XRelay, Server

(***************************************************************************)
(* The inductive invariant holds in every reachable state.                 *)
(***************************************************************************)
THEOREM Invariant == Spec => []IInv
<1>1. IInv /\ [Next]_vars => IInv'
  BY NextType, NextBeginning, NextRequest, NextResponse, NextEndings DEF IInv
<1> QED
  BY InitIInv, <1>1, PTL DEF Spec

(***************************************************************************)
(* Every place on the way keeps to its room, every count to its bound.     *)
(***************************************************************************)
THEOREM TypeCorrect == Spec => []TypeOK
<1>1. IInv => TypeOK
  BY DEF IInv
<1> QED
  BY Invariant, <1>1, PTL

(***************************************************************************)
(* The end of a response, and the end of a request, are only read behind   *)
(* all of it, unless the stream was cut, or x-relay was killed or met a    *)
(* reset (execConn, x-relay).                                              *)
(***************************************************************************)
THEOREM ExchangeIsWhole == Spec => []NothingIsLost
<1>1. IInv => NothingIsLost
  <2> SUFFICES ASSUME IInv PROVE NothingIsLost
    OBVIOUS
  <2> USE DEF IInv, TypeOK, Beginning, Endings, One, Over
  <2>1. ASSUME end, stream = "open"
        PROVE relay = "aborted" \/ (got = served /\ relay = "ended" /\ (respEnd \/ served = 0))
    BY <2>1 DEF ResponseKept
  <2>2. ASSUME sawEnd, stream = "open", ~respEnd PROVE relay = "aborted" \/ (fin /\ read = wrote)
    BY <2>2 DEF RequestKept
  <2> QED
    BY <2>1, <2>2 DEF NothingIsLost
<1> QED
  BY Invariant, <1>1, PTL

=============================================================================
