--------------------------- MODULE SessionProofs ---------------------------
(***************************************************************************)
(* Proofs about Session: the client of an exec gets the whole output and   *)
(* the whole echo of its stdin, for any number of frames and any room in   *)
(* the connection.                                                         *)
(***************************************************************************)
EXTENDS Session, SequenceTheorems, TLAPS

-----------------------------------------------------------------------------
(***************************************************************************)
(* Frames and sequences of frames.                                         *)
(***************************************************************************)
LEMMA FrameTypes ==
    /\ Eof \in Frames /\ Exit \in Frames /\ Close \in Frames
    /\ \A k \in 0 .. MaxFrames : Stdin(k) \in Frames /\ Echo(k) \in Frames
    /\ \A f \in Frames : f[2] \in 0 .. MaxFrames
BY SessionAssumption DEF Eof, Exit, Close, Of, Stdin, Echo, Frames

\* The frames that the proofs tell apart.
LEMMA FramesDiffer ==
    /\ Exit # Close
    /\ \A k : Stdin(k) # Eof /\ Stdin(k)[2] = k /\ Echo(k) # Exit
BY DEF Eof, Exit, Close, Of, Stdin, Echo

\* An output has at most two frames, and none of them is an end.
LEMMA OutputTypes ==
    ASSUME NEW s \in Outputs
    PROVE  /\ s \in Seq(Frames) /\ Len(s) \in 0 .. 2
           /\ \A i \in 1 .. Len(s) : s[i] \in Frames /\ s[i] # Exit /\ s[i] # Close
<1>1. Of("stdout") \in Frames /\ Of("stderr") \in Frames
  BY SessionAssumption DEF Of, Frames
<1>2. /\ Of("stdout") # Exit /\ Of("stderr") # Exit
      /\ Of("stdout") # Close /\ Of("stderr") # Close
  BY DEF Of, Exit, Close
<1>3. CASE s = <<>>
  BY <1>3
<1>4. CASE s = <<Of("stdout")>>
  BY <1>1, <1>2, <1>4
<1>5. CASE s = <<Of("stderr")>>
  BY <1>1, <1>2, <1>5
<1>6. CASE s = <<Of("stdout"), Of("stderr")>>
  <2>1. Len(s) = 2 /\ s[1] = Of("stdout") /\ s[2] = Of("stderr")
    BY <1>6
  <2>2. s \in Seq(Frames)
    BY <1>1, <1>6
  <2> QED
    BY <1>1, <1>2, <2>1, <2>2
<1> QED
  BY <1>3, <1>4, <1>5, <1>6 DEF Outputs

\* A frame joins the end of a sequence.
LEMMA Appended ==
    ASSUME NEW s \in Seq(Frames), NEW f \in Frames
    PROVE  /\ Append(s, f) \in Seq(Frames) /\ Len(Append(s, f)) = Len(s) + 1
           /\ \A i \in 1 .. Len(s) : Append(s, f)[i] = s[i]
           /\ Append(s, f)[Len(s) + 1] = f
BY AppendProperties

\* The first frame leaves a sequence.
LEMMA Taking ==
    ASSUME NEW s \in Seq(Frames), s # <<>>
    PROVE  /\ Head(s) \in Frames /\ Head(s) = s[1]
           /\ Tail(s) \in Seq(Frames) /\ Len(s) \in Nat /\ Len(s) >= 1 /\ Len(Tail(s)) = Len(s) - 1
           /\ \A i \in 1 .. Len(s) - 1 : Tail(s)[i] = s[i + 1]
BY HeadTailProperties, ElementOfSeq

\* The empty sequence.
LEMMA Nothing == <<>> \in Seq(Frames) /\ Len(<<>>) = 0
OBVIOUS

-----------------------------------------------------------------------------
(***************************************************************************)
(* The initial state satisfies the inductive invariant.                    *)
(***************************************************************************)
LEMMA InitIInv == Init => IInv
<1> SUFFICES ASSUME Init PROVE IInv
  OBVIOUS
<1> USE SessionAssumption, Nothing
<1>1. TypeOK
  <2>1. wantStdin \in BOOLEAN /\ live \in BOOLEAN /\ cut \in BOOLEAN /\ unknown \in BOOLEAN /\ ended \in BOOLEAN
    BY Zenon DEF Init
  <2>2. <<>> \in Outputs
    BY DEF Outputs
  <2> QED
    BY <2>1, <2>2 DEF Init, TypeOK
<1>2. Written
  BY DEF Init, Written, Size, Ran, Due, Echoing
<1>3. Stage /\ Pending
  BY DEF Init, Stage, Pending, Size, Taken
<1> QED
  BY <1>1, <1>2, <1>3 DEF IInv

(***************************************************************************)
(* Every variable keeps its type.                                          *)
(***************************************************************************)
LEMMA NextType == IInv /\ [Next]_vars => TypeOK'
<1> SUFFICES ASSUME IInv, [Next]_vars PROVE TypeOK'
  OBVIOUS
<1> USE SessionAssumption, FrameTypes DEF TypeOK, handler, wires, peer, Server, Result, Peer
<1>0. TypeOK
  BY DEF IInv
<1>1. CASE Upgrade
  BY <1>0, <1>1 DEF Upgrade
<1>2. CASE Exec
  BY <1>0, <1>2 DEF Exec
<1>3. CASE WriteFails
  BY <1>0, <1>3 DEF WriteFails
<1>4. CASE Say
  <2>1. told' \in 1 .. Len(said) /\ said[told'] \in Frames /\ told' \in 0 .. 2
    <3>1. Len(said) \in 0 .. 2 /\ \A i \in 1 .. Len(said) : said[i] \in Frames
      BY <1>0, OutputTypes
    <3>2. told \in 0 .. 2 /\ told < Len(said) /\ told' = told + 1
      BY <1>0, <1>4 DEF Say
    <3> HIDE DEF TypeOK
    <3> QED
      BY <3>1, <3>2
  <2> QED
    BY <1>0, <1>4, <2>1, Appended DEF Say, Put
<1>5. CASE SaidAll
  BY <1>0, <1>5 DEF SaidAll
<1>6. CASE EchoFrame
  <2>1. Echo(Head(toServer)[2]) \in Frames /\ Tail(toServer) \in Seq(Frames)
        /\ Len(Tail(toServer)) <= Cap
    BY <1>0, <1>6, Taking DEF EchoFrame
  <2> QED
    BY <1>0, <1>6, <2>1, Appended DEF EchoFrame, Put
<1>7. CASE EchoEnd
  <2>1. CASE toServer # <<>> /\ toServer' = Tail(toServer)
    BY <1>0, <1>7, <2>1, Taking DEF EchoEnd
  <2>2. CASE UNCHANGED toServer
    BY <1>0, <1>7, <2>2 DEF EchoEnd
  <2> QED
    BY <1>7, <2>1, <2>2 DEF EchoEnd
<1>8. CASE WriteExit
  BY <1>0, <1>8, Appended DEF WriteExit, Put
<1>9. CASE WriteClose
  <2>1. CASE Put(Close)
    BY <1>0, <1>9, <2>1, Appended DEF WriteClose, Put
  <2>2. CASE UNCHANGED toClient
    BY <1>0, <1>9, <2>2 DEF WriteClose
  <2> QED
    BY <1>9, <2>1, <2>2 DEF WriteClose
<1>10. CASE DrainFrame
  BY <1>0, <1>10, Taking DEF DrainFrame
<1>11. CASE DrainFails
  BY <1>0, <1>11 DEF DrainFails
<1>12. CASE SendStdin
  <2>1. sent' \in 0 .. MaxFrames /\ Stdin(sent') \in Frames
    BY <1>0, <1>12 DEF SendStdin
  <2> QED
    BY <1>0, <1>12, <2>1, Appended DEF SendStdin, Send
<1>13. CASE SendEof
  BY <1>0, <1>13, Appended DEF SendEof, Send
<1>14. CASE SendMore
  BY <1>0, <1>14, Appended DEF SendMore, Send
<1>15. CASE Receive
  BY <1>0, <1>15, Appended, Taking DEF Receive
<1>16. CASE Leave
  BY <1>0, <1>16, Nothing DEF Leave
<1>17. CASE Another
  BY <1>0, <1>17 DEF Another
<1>18. CASE UNCHANGED vars
  BY <1>0, <1>18 DEF vars
<1>19. CASE Cut
  BY <1>0, <1>19 DEF Cut
<1> QED
  BY <1>1, <1>2, <1>3, <1>4, <1>5, <1>6, <1>7, <1>8, <1>9, <1>10, <1>11, <1>12, <1>13,
     <1>14, <1>15, <1>16, <1>17, <1>18, <1>19 DEF Next, Handler, Drain

-----------------------------------------------------------------------------
(***************************************************************************)
(* The frames written are a beginning of the whole line.                   *)
(***************************************************************************)
\* The lengths that the proofs below count with.
LEMMA Lengths ==
    ASSUME TypeOK
    PROVE  /\ Len(got) \in Nat /\ Len(toClient) \in Nat /\ Len(toServer) \in Nat
           /\ Len(said) \in 0 .. 2 /\ Due \in Nat /\ sent \in Nat /\ told \in Nat
<1>1. Len(got) \in Nat /\ Len(toClient) \in Nat /\ Len(toServer) \in Nat
  BY LenProperties DEF TypeOK
<1>2. Len(said) \in 0 .. 2
  BY OutputTypes DEF TypeOK
<1>3. sent \in Nat /\ told \in Nat
  BY DEF TypeOK
<1>4. Due \in Nat
  BY <1>3 DEF Due
<1> QED
  BY <1>1, <1>2, <1>3, <1>4

\* What is written stays what it was when nothing of the session changes.
LEMMA WrittenKept ==
    ASSUME Written, UNCHANGED <<said, unknown, wantStdin, sent, got, toClient>>, ended => ended'
    PROVE  Written'
<1>1. UNCHANGED <<Echoing, Due, Size, Ran>>
  BY DEF Echoing, Due, Size, Ran
<1>2. \A i : Line(i)' = Line(i)
  BY <1>1 DEF Line
<1> QED
  BY <1>1, <1>2 DEF Written

\* A frame in its place is written.
LEMMA WrittenMore ==
    ASSUME TypeOK, Written, NEW f \in Frames, toClient' = Append(toClient, f),
           UNCHANGED <<said, unknown, wantStdin, sent, ended, got>>,
           f = Line(Size + 1), Size < Ran + 2, Echoing /\ Size >= Ran => ended
    PROVE  Written'
<1>1. /\ toClient' \in Seq(Frames) /\ Len(toClient') = Len(toClient) + 1
      /\ \A i \in 1 .. Len(toClient) : toClient'[i] = toClient[i]
      /\ toClient'[Len(toClient) + 1] = f
  BY Appended DEF TypeOK
<1>2. UNCHANGED <<Echoing, Due, Ran>> /\ Size' = Size + 1
  BY <1>1, Lengths DEF Echoing, Due, Ran, Size
<1>3. \A i : Line(i)' = Line(i)
  BY <1>2 DEF Line
<1>4. ASSUME NEW i \in 1 .. Len(toClient') PROVE toClient'[i] = Line(Len(got) + i)
  <2>1. CASE i \in 1 .. Len(toClient)
    BY <1>1, <2>1 DEF Written
  <2>2. CASE i = Len(toClient) + 1
    <3>1. Len(got) + i = Size + 1
      BY <2>2, Lengths DEF Size
    <3> QED
      BY <1>1, <2>2, <3>1
  <2> QED
    BY <1>1, <1>4, <2>1, <2>2, Lengths
<1>5. Size' <= Ran' + 2 /\ (Echoing' /\ Size' > Ran' => ended')
  BY <1>2, Lengths DEF Ran, Size
<1> QED
  BY <1>2, <1>3, <1>4, <1>5 DEF Written

LEMMA NextWritten == IInv /\ [Next]_vars => (Written \/ Refused)'
<1> SUFFICES ASSUME IInv, [Next]_vars PROVE (Written \/ Refused)'
  OBVIOUS
<1>0. TypeOK /\ (Written \/ Refused) /\ Stage /\ Pending
  BY DEF IInv
<1>a. h # "done" => Written
  BY <1>0 DEF Refused
<1> USE DEF Server, Result, Peer, handler, wires, peer
<1>1. CASE Upgrade
  BY <1>a, <1>1, WrittenKept DEF Upgrade
<1>2. CASE Exec
  <2>1. Len(got') = 0 /\ Len(toClient') = 0 /\ Size' = 0
    BY <1>0, <1>2, Lengths DEF Exec, Stage, Size
  <2>2. 0 <= Ran' + 2 /\ ~(0 > Ran')
    <3>1. said' \in Outputs /\ sent' \in Nat
      BY NextType DEF TypeOK
    <3>2. Len(said') \in 0 .. 2
      BY <3>1, OutputTypes
    <3> QED
      BY <3>1, <3>2 DEF Ran, Due
  <2> QED
    BY <2>1, <2>2 DEF Written
<1>3. CASE WriteFails
  BY <1>a, <1>3, WrittenKept DEF WriteFails
<1>4. CASE Say
  <2>1. Size = told /\ Size + 1 \in 1 .. Len(said) /\ said[Size + 1] \in Frames
    BY <1>0, <1>4, OutputTypes, Lengths DEF Say, Put, Stage, TypeOK
  <2>2. Line(Size + 1) = said[Size + 1]
    BY <2>1 DEF Line
  <2> QED
    BY <1>0, <1>a, <1>4, <2>1, <2>2, WrittenMore, Lengths DEF Say, Put, Ran
<1>5. CASE SaidAll
  BY <1>a, <1>5, WrittenKept DEF SaidAll
<1>6. CASE EchoFrame
  <2>1. Echoing /\ Len(said) <= Size /\ Size <= Ran /\ Size \in Nat
    BY <1>0, <1>6, Lengths DEF EchoFrame, Put, Stage, Size
  <2>2. /\ Head(toServer) = toServer[1] /\ toServer[1] \in Frames /\ 1 \in 1 .. Len(toServer)
    BY <1>0, <1>6, Taking, Lengths DEF EchoFrame, TypeOK
  <2>3. Taken = Size - Len(said) /\ Due = sent
    BY <1>6, <2>1 DEF EchoFrame, Taken, Due
  <2>4. /\ IF ended THEN Len(toServer) > sent - Taken ELSE Len(toServer) = sent - Taken
        /\ toServer[1] = IF Taken + 1 <= sent THEN Stdin(Taken + 1)
                         ELSE IF Taken + 1 = sent + 1 THEN Eof ELSE Stdin(0)
    BY <1>0, <1>6, <2>2 DEF EchoFrame, Put, Pending
  <2>5. Taken + 1 <= sent
    BY <1>0, <1>6, <2>1, <2>2, <2>3, <2>4, Lengths DEF EchoFrame, Ran
  <2>6. Echo(Head(toServer)[2]) = Echo(Taken + 1)
    BY <2>2, <2>4, <2>5, FramesDiffer
  <2>7. Line(Size + 1) = Echo(Taken + 1)
    BY <1>0, <2>1, <2>3, <2>5, Lengths DEF Line
  <2>8. Echo(Head(toServer)[2]) \in Frames
    BY <2>2, FrameTypes
  <2> QED
    BY <1>0, <1>a, <1>6, <2>1, <2>3, <2>5, <2>6, <2>7, <2>8, WrittenMore, Lengths DEF EchoFrame, Put, Ran
<1>7. CASE EchoEnd
  BY <1>a, <1>7, WrittenKept DEF EchoEnd
<1>8. CASE WriteExit
  <2>1. Size = Ran /\ (Echoing => ended)
    BY <1>0, <1>8 DEF WriteExit, Put, Stage
  <2>2. Line(Size + 1) = Exit
    BY <1>0, <2>1, Lengths DEF Line, Ran
  <2> QED
    BY <1>0, <1>a, <1>8, <2>1, <2>2, WrittenMore, FrameTypes, Lengths DEF WriteExit, Put, Ran
<1>9. CASE WriteClose
  <2>1. CASE UNCHANGED toClient
    BY <1>a, <1>9, <2>1, WrittenKept DEF WriteClose
  <2>2. CASE h = "close" /\ Put(Close)
    <3>1. Size = Ran + 1 /\ (Echoing => ended)
      BY <1>0, <2>2 DEF Put, Stage
    <3>2. Line(Size + 1) = Close
      BY <1>0, <3>1, Lengths DEF Line, Ran
    <3> QED
      BY <1>0, <1>a, <1>9, <2>2, <3>1, <3>2, WrittenMore, FrameTypes, Lengths DEF WriteClose, Put, Ran
  <2>3. CASE h = "refuse" /\ Put(Close)
    <3>1. got = <<>> /\ toClient = <<>> /\ said = <<>>
      BY <1>0, <2>3, Lengths, EmptySeq DEF Stage, Size, TypeOK
    <3>2. toClient' = <<Close>>
      BY <2>3, <3>1 DEF Put
    <3> QED
      BY <1>9, <3>1, <3>2 DEF WriteClose, Refused
  <2> QED
    BY <1>9, <2>1, <2>2, <2>3 DEF WriteClose
<1>10. CASE Drain \/ Cut \/ Another \/ UNCHANGED vars
  <2>1. UNCHANGED <<h, said, unknown, wantStdin, sent, ended, got, toClient>>
    BY <1>10 DEF Drain, DrainFrame, DrainFails, Cut, Another, vars
  <2> QED
    BY <1>0, <2>1, WrittenKept DEF Refused
<1>11. CASE SendStdin
  <2>1. Written /\ ~ended
    BY <1>a, <1>11 DEF SendStdin, Send
  <2>2. /\ UNCHANGED <<said, unknown, wantStdin, got, toClient, ended, Echoing, Size>>
        /\ sent' = sent + 1
    BY <1>11 DEF SendStdin, Send, Echoing, Size
  <2>3. CASE Echoing
    <3>1. Size <= Ran /\ Due = sent /\ Due' = sent + 1
      BY <1>0, <2>1, <2>2, <2>3, Lengths DEF Written, Size, Ran, Due
    <3>2. \A i \in 1 .. Size : Line(i)' = Line(i)
      BY <1>0, <2>2, <3>1, Lengths DEF Line, Ran, Size
    <3>3. Ran' = Ran + 1
      BY <1>0, <2>2, <3>1, Lengths DEF Ran
    <3>4. /\ \A i \in 1 .. Len(got) : i \in 1 .. Size
          /\ \A i \in 1 .. Len(toClient) : Len(got) + i \in 1 .. Size
      BY <1>0, Lengths DEF Size
    <3>5. Size' <= Ran' + 2 /\ ~(Size' > Ran')
      BY <1>0, <2>2, <3>1, <3>3, Lengths DEF Size, Ran
    <3> QED
      BY <2>1, <2>2, <3>2, <3>4, <3>5 DEF Written
  <2>4. CASE ~Echoing
    <3>1. UNCHANGED <<Due, Ran>>
      BY <2>2, <2>4 DEF Due, Ran
    <3>2. \A i : Line(i)' = Line(i)
      BY <2>2, <3>1 DEF Line
    <3> QED
      BY <2>1, <2>2, <2>4, <3>1, <3>2 DEF Written
  <2> QED
    BY <2>3, <2>4
<1>12. CASE SendEof \/ SendMore
  BY <1>a, <1>12, WrittenKept DEF SendEof, SendMore, Send
<1>13. CASE Receive
  <2>1. /\ Head(toClient) \in Frames /\ Head(toClient) = toClient[1]
        /\ Len(toClient) >= 1 /\ Len(toClient') = Len(toClient) - 1
        /\ \A i \in 1 .. Len(toClient) - 1 : toClient'[i] = toClient[i + 1]
    BY <1>0, <1>13, Taking DEF Receive, TypeOK
  <2>2. /\ Len(got') = Len(got) + 1
        /\ \A i \in 1 .. Len(got) : got'[i] = got[i]
        /\ got'[Len(got) + 1] = toClient[1]
    BY <1>0, <1>13, <2>1, Appended DEF Receive, TypeOK
  <2>3. UNCHANGED <<h, said, unknown, wantStdin, sent, ended>>
    BY <1>13 DEF Receive
  <2>4. UNCHANGED <<Echoing, Due, Ran, Size>>
    BY <1>0, <2>1, <2>2, <2>3, Lengths DEF Echoing, Due, Ran, Size
  <2>5. \A i : Line(i)' = Line(i)
    BY <2>3, <2>4 DEF Line
  <2>6. CASE Written
    <3>1. ASSUME NEW i \in 1 .. Len(got') PROVE got'[i] = Line(i)
      <4>1. CASE i \in 1 .. Len(got)
        BY <2>2, <2>6, <4>1 DEF Written
      <4>2. CASE i = Len(got) + 1
        BY <1>0, <2>1, <2>2, <2>6, <4>2, Lengths DEF Written
      <4> QED
        BY <1>0, <2>2, <3>1, <4>1, <4>2, Lengths
    <3>2. ASSUME NEW i \in 1 .. Len(toClient') PROVE toClient'[i] = Line(Len(got') + i)
      <4>1. i \in 1 .. Len(toClient) - 1 /\ i + 1 \in 1 .. Len(toClient)
        BY <1>0, <2>1, <3>2, Lengths
      <4>2. Len(got') + i = Len(got) + (i + 1)
        BY <1>0, <2>2, <4>1, Lengths
      <4> QED
        BY <2>1, <2>6, <4>1, <4>2 DEF Written
    <3> QED
      BY <2>3, <2>4, <2>5, <2>6, <3>1, <3>2 DEF Written
  <2>7. CASE Refused
    <3>1. got = <<>> /\ toClient = <<Close>>
      BY <1>13, <2>7 DEF Refused, Receive
    <3>2. got' = <<Close>> /\ toClient' = <<>>
      BY <1>13, <3>1 DEF Receive
    <3> QED
      BY <2>3, <2>7, <3>2 DEF Refused
  <2> QED
    BY <1>0, <2>6, <2>7
<1>14. CASE Leave
  <2>1. /\ UNCHANGED <<h, said, unknown, wantStdin, sent, ended, got, Echoing, Due, Ran>>
        /\ toClient' = <<>> /\ Len(toClient') = 0 /\ Size' = Len(got)
    BY <1>0, <1>14, Lengths, Nothing DEF Leave, Echoing, Due, Ran, Size
  <2>2. \A i : Line(i)' = Line(i)
    BY <2>1 DEF Line
  <2>3. CASE Written
    <3>1. Size' <= Size
      BY <1>0, <2>1, Lengths DEF Size
    <3>2. Size' <= Ran + 2 /\ (Echoing /\ Size' > Ran => ended)
      BY <1>0, <2>1, <2>3, <3>1, Lengths DEF Written, Size, Ran
    <3> QED
      BY <2>1, <2>2, <2>3, <3>2 DEF Written
  <2>4. CASE Refused
    <3>1. CASE got = <<Close>>
      BY <2>1, <2>4, <3>1 DEF Refused
    <3>2. CASE got = <<>>
      <4>1. Len(got) = 0 /\ Ran \in Nat
        BY <1>0, <3>2, Lengths DEF Ran
      <4> QED
        BY <2>1, <2>2, <4>1 DEF Written
    <3> QED
      BY <2>4, <3>1, <3>2 DEF Refused
  <2> QED
    BY <1>0, <2>3, <2>4
<1> QED
  BY <1>1, <1>2, <1>3, <1>4, <1>5, <1>6, <1>7, <1>8, <1>9, <1>10, <1>11, <1>12, <1>13, <1>14
  DEF Next, Handler

-----------------------------------------------------------------------------
(***************************************************************************)
(* How far the handler is says how much is written.                        *)
(***************************************************************************)
LEMMA NextStage == IInv /\ [Next]_vars => Stage'
<1> SUFFICES ASSUME IInv, [Next]_vars PROVE Stage'
  OBVIOUS
<1>0. TypeOK /\ Stage /\ Pending
  BY DEF IInv
<1>l. /\ Len(got) \in Nat /\ Len(toClient) \in Nat /\ Len(toServer) \in Nat
      /\ Len(said) \in 0 .. 2 /\ Due \in Nat /\ sent \in Nat /\ told \in Nat
  BY <1>0, Lengths
<1>t. h \in {"request", "exec", "say", "hold", "exit", "close", "refuse", "done"}
  BY <1>0 DEF TypeOK
<1> USE DEF Server, Result, Peer, handler, wires, peer, Here, Open, Stage
<1>1. CASE Upgrade
  BY <1>0, <1>1 DEF Upgrade, Size, Ran, Due, Echoing
<1>2. CASE Exec
  <2>1. said' \in Outputs
    BY NextType DEF TypeOK
  <2>2. Len(said') \in 0 .. 2
    BY <2>1, OutputTypes
  <2> QED
    BY <1>0, <1>2, <2>2 DEF Exec, Size
<1>3. CASE WriteFails
  BY <1>0, <1>3 DEF WriteFails
<1>4. CASE Say
  <2>1. told \in 0 .. 2 /\ said[told'] \in Frames
    BY <1>0, <1>l, <1>4, OutputTypes DEF Say, TypeOK
  <2>2. Len(toClient') = Len(toClient) + 1
    BY <1>0, <1>4, <2>1, Appended DEF Say, Put, TypeOK
  <2> QED
    BY <1>0, <1>l, <1>4, <2>2 DEF Say, Put, Size
<1>5. CASE SaidAll
  BY <1>0, <1>l, <1>5 DEF SaidAll, Size, Ran, Due, Echoing
<1>6. CASE EchoFrame
  <2>1. Size < Ran /\ Len(toClient') = Len(toClient) + 1
    <3>1. /\ Head(toServer) = toServer[1] /\ toServer[1] \in Frames /\ 1 \in 1 .. Len(toServer)
      BY <1>0, <1>l, <1>6, Taking DEF EchoFrame, TypeOK
    <3>2. Len(toClient') = Len(toClient) + 1
      BY <1>0, <1>6, <3>1, FrameTypes, Appended DEF EchoFrame, Put, TypeOK
    <3>3. Taken = Size - Len(said) /\ Due = sent
      BY <1>0, <1>6 DEF EchoFrame, Taken, Due
    <3>4. /\ IF ended THEN Len(toServer) > sent - Taken ELSE Len(toServer) = sent - Taken
          /\ toServer[1] = IF Taken + 1 <= sent THEN Stdin(Taken + 1)
                           ELSE IF Taken + 1 = sent + 1 THEN Eof ELSE Stdin(0)
      BY <1>0, <1>6, <3>1 DEF EchoFrame, Put, Pending
    <3> QED
      BY <1>0, <1>l, <1>6, <3>1, <3>2, <3>3, <3>4 DEF EchoFrame, Put, Ran, Size
  <2> QED
    BY <1>0, <1>l, <1>6, <2>1 DEF EchoFrame, Put, Size, Ran, Due, Echoing
<1>7. CASE EchoEnd
  <2>1. CASE Open
    <3>1. /\ Head(toServer) = toServer[1] /\ 1 \in 1 .. Len(toServer) /\ toServer[1] = Eof
      BY <1>0, <1>l, <1>7, <2>1, Taking DEF EchoEnd, TypeOK
    <3>2. Taken = Size - Len(said) /\ Due = sent
      BY <1>0, <1>7 DEF EchoEnd, Taken, Due
    <3>3. /\ IF ended THEN Len(toServer) > sent - Taken ELSE Len(toServer) = sent - Taken
          /\ toServer[1] = IF Taken + 1 <= sent THEN Stdin(Taken + 1)
                           ELSE IF Taken + 1 = sent + 1 THEN Eof ELSE Stdin(0)
      BY <1>0, <1>7, <2>1, <3>1 DEF EchoEnd, Pending
    <3>4. ~(Taken + 1 <= sent)
      BY <3>1, <3>3, FramesDiffer
    <3>5. Size = Ran /\ ended
      BY <1>0, <1>l, <1>7, <2>1, <3>1, <3>2, <3>3, <3>4 DEF EchoEnd, Ran, Size
    <3> QED
      BY <1>0, <1>7, <3>5 DEF EchoEnd, Size, Ran, Due, Echoing
  <2>2. CASE ~Open
    BY <1>7, <2>2 DEF EchoEnd
  <2> QED
    BY <2>1, <2>2
<1>8. CASE WriteExit
  <2>1. Len(toClient') = Len(toClient) + 1
    BY <1>0, <1>8, FrameTypes, Appended DEF WriteExit, Put, TypeOK
  <2> QED
    BY <1>0, <1>l, <1>8, <2>1 DEF WriteExit, Put, Size, Ran, Due, Echoing
<1>9. CASE WriteClose
  BY <1>9 DEF WriteClose
<1>10. CASE DrainFrame \/ DrainFails
  BY <1>0, <1>10 DEF DrainFrame, DrainFails, Size, Ran, Due, Echoing
<1>11. CASE SendStdin
  <2>1. sent' = sent + 1 /\ ~ended /\ UNCHANGED <<h, client, cut, said, told, unknown, drain, Size, Echoing, ended>>
    BY <1>11 DEF SendStdin, Send, Size, Echoing
  <2>2. Ran <= Ran' /\ (~Echoing => Ran' = Ran)
    BY <1>l, <2>1 DEF Ran, Due
  <2>3. h \in {"exit", "close"} /\ Open => ~Echoing
    BY <1>0, <2>1
  <2>4. Size \in Nat /\ Ran \in Nat /\ Ran' \in Int
    BY <1>l, <2>1 DEF Size, Ran, Due
  <2> HIDE DEF Stage
  <2>5. Open /\ h = "hold" => Size' <= Ran'
    BY <1>0, <2>1, <2>2, <2>4 DEF Stage
  <2> QED
    BY <1>0, <2>1, <2>2, <2>3, <2>5 DEF Stage
<1>12. CASE SendEof \/ SendMore
  BY <1>0, <1>12 DEF SendEof, SendMore, Send, Size, Ran, Due, Echoing
<1>13. CASE Receive
  <2>1. Head(toClient) \in Frames /\ Len(toClient') = Len(toClient) - 1
    BY <1>0, <1>13, Taking DEF Receive, TypeOK
  <2>2. Len(got') = Len(got) + 1
    BY <1>0, <1>13, <2>1, Appended DEF Receive, TypeOK
  <2>3. Size' = Size
    BY <1>l, <2>1, <2>2 DEF Size
  <2>4. UNCHANGED <<h, client, cut, said, told, unknown, drain, ended, Ran, Echoing>>
    BY <1>13 DEF Receive, Ran, Due, Echoing
  <2> QED
    BY <1>0, <2>3, <2>4
<1>14. CASE Leave
  <2>1. h \in {"request", "exec", "refuse"} => Size' = 0
    BY <1>0, <1>l, <1>14, Nothing DEF Leave, Size
  <2> QED
    BY <1>0, <1>14, <2>1 DEF Leave, Echoing
<1>15. CASE Another \/ Cut \/ UNCHANGED vars
  BY <1>0, <1>15 DEF Another, Cut, vars, Size, Ran, Due, Echoing
<1> QED
  BY <1>1, <1>2, <1>3, <1>4, <1>5, <1>6, <1>7, <1>8, <1>9, <1>10, <1>11, <1>12, <1>13, <1>14, <1>15
  DEF Next, Handler, Drain

-----------------------------------------------------------------------------
(***************************************************************************)
(* What is under way to the handler is the rest of stdin, in order.        *)
(***************************************************************************)
\* What is under way stays what it was when nobody sends or takes.
LEMMA PendingKept ==
    ASSUME Pending, Open' => Open,
           UNCHANGED <<sent, ended, toServer, Taken>>,
           h' \in {"request", "exec", "say", "hold"} => h \in {"request", "exec", "say", "hold"}
    PROVE  Pending'
BY DEF Pending

LEMMA NextPending == IInv /\ [Next]_vars => Pending'
<1> SUFFICES ASSUME IInv, [Next]_vars PROVE Pending'
  OBVIOUS
<1>0. TypeOK /\ Stage /\ Pending
  BY DEF IInv
<1>l. /\ Len(got) \in Nat /\ Len(toClient) \in Nat /\ Len(toServer) \in Nat
      /\ Len(said) \in 0 .. 2 /\ Due \in Nat /\ sent \in Nat /\ told \in Nat
  BY <1>0, Lengths
<1>k. Open /\ h = "hold" => Taken \in Nat /\ Taken <= sent
  BY <1>0, <1>l DEF Stage, Taken, Ran, Due, Size
<1> USE DEF Server, Result, Peer, handler, wires, peer, Here, Open
<1>1. CASE Upgrade
  BY <1>0, <1>1, PendingKept DEF Upgrade, Taken
<1>2. CASE Exec
  BY <1>0, <1>2, PendingKept DEF Exec, Taken
<1>3. CASE WriteFails \/ EchoEnd \/ WriteExit \/ WriteClose
  BY <1>3 DEF WriteFails, EchoEnd, WriteExit, WriteClose, Pending
<1>4. CASE Say
  BY <1>0, <1>4, PendingKept DEF Say, Taken
<1>5. CASE SaidAll
  <2>1. CASE Open /\ h' = "hold"
    <3>1. Taken = 0 /\ Taken' = 0
      BY <1>0, <1>l, <1>5, <2>1 DEF SaidAll, Stage, Taken, Size
    <3> QED
      BY <1>0, <1>5, <2>1, <3>1, PendingKept DEF SaidAll
  <2>2. CASE ~(Open /\ h' = "hold")
    BY <1>5, <2>2 DEF SaidAll, Pending
  <2> QED
    BY <2>1, <2>2
<1>6. CASE EchoFrame
  <2>1. /\ toServer[1] \in Frames /\ Head(toServer) = toServer[1] /\ Len(toServer) >= 1
        /\ Len(toServer') = Len(toServer) - 1
        /\ \A i \in 1 .. Len(toServer) - 1 : toServer'[i] = toServer[i + 1]
    BY <1>0, <1>6, Taking DEF EchoFrame, TypeOK
  <2>2. Len(toClient') = Len(toClient) + 1
    BY <1>0, <1>6, <2>1, FrameTypes, Appended DEF EchoFrame, Put, TypeOK
  <2>3. Taken' = Taken + 1 /\ Taken \in Nat
    BY <1>l, <1>k, <1>6, <2>2 DEF EchoFrame, Put, Taken, Size
  <2>4. UNCHANGED <<h, client, sent, ended>> /\ Open /\ h = "hold"
    BY <1>6 DEF EchoFrame, Put
  <2>5. IF ended' THEN Len(toServer') > sent' - Taken' ELSE Len(toServer') = sent' - Taken'
    BY <1>0, <1>l, <2>1, <2>3, <2>4 DEF Pending
  <2>6. ASSUME NEW j \in 1 .. Len(toServer')
        PROVE  toServer'[j] = IF Taken' + j <= sent' THEN Stdin(Taken' + j)
                              ELSE IF Taken' + j = sent' + 1 THEN Eof ELSE Stdin(0)
    <3>1. j \in 1 .. Len(toServer) - 1 /\ j + 1 \in 1 .. Len(toServer)
      BY <1>l, <2>1, <2>6
    <3>2. Taken + (j + 1) = Taken' + j
      BY <1>l, <2>3, <3>1
    <3> QED
      BY <1>0, <2>1, <2>4, <3>1, <3>2 DEF Pending
  <2> QED
    BY <2>5, <2>6 DEF Pending
<1>7. CASE DrainFrame \/ DrainFails
  <2>1. h \notin {"request", "exec", "say", "hold"} /\ UNCHANGED h
    BY <1>0, <1>7 DEF DrainFrame, DrainFails, Stage
  <2> QED
    BY <2>1 DEF Pending
<1>8. ASSUME NEW f \in Frames, Send(f), NEW n \in Nat, h \in {"request", "exec", "say", "hold"},
             sent' = n, Taken' = Taken, n >= sent,
             \A j \in 1 .. Len(toServer) :
                toServer[j] = IF Taken + j <= n THEN Stdin(Taken + j)
                              ELSE IF Taken + j = n + 1 THEN Eof ELSE Stdin(0),
             IF ended' THEN Len(toServer) + 1 > n - Taken ELSE Len(toServer) + 1 = n - Taken,
             f = IF Taken + Len(toServer) + 1 <= n THEN Stdin(Taken + Len(toServer) + 1)
                 ELSE IF Taken + Len(toServer) + 1 = n + 1 THEN Eof ELSE Stdin(0)
      PROVE  Pending'
  <2>1. /\ Len(toServer') = Len(toServer) + 1
        /\ \A i \in 1 .. Len(toServer) : toServer'[i] = toServer[i]
        /\ toServer'[Len(toServer) + 1] = f
    BY <1>0, <1>8, Appended DEF Send, TypeOK
  <2>2. Taken \in Nat
    BY <1>l, <1>k, <1>8 DEF Send, Taken
  <2>3. ASSUME NEW j \in 1 .. Len(toServer')
        PROVE  toServer'[j] = IF Taken + j <= n THEN Stdin(Taken + j)
                              ELSE IF Taken + j = n + 1 THEN Eof ELSE Stdin(0)
    <3>1. CASE j \in 1 .. Len(toServer)
      BY <1>8, <2>1, <3>1
    <3>2. CASE j = Len(toServer) + 1
      <4>1. Taken + j = Taken + Len(toServer) + 1
        BY <1>l, <2>2, <3>2
      <4> QED
        BY <1>8, <2>1, <3>2, <4>1
    <3> QED
      BY <1>l, <2>1, <2>3, <3>1, <3>2
  <2> QED
    BY <1>8, <2>1, <2>3 DEF Pending
<1>9. ASSUME NEW f, Send(f)
      PROVE  /\ Open /\ Taken' = Taken
             /\ h \notin {"request", "exec", "say", "hold"} => Pending'
             /\ h \in {"request", "exec", "say", "hold"} => Taken \in Nat /\ Taken <= sent
  BY <1>l, <1>k, <1>9 DEF Send, Taken, Size, Pending
<1>10. CASE SendStdin
  <2>1. sent' = sent + 1 /\ ~ended /\ ~ended' /\ Send(Stdin(sent + 1)) /\ Stdin(sent + 1) \in Frames
    BY <1>0, <1>l, <1>10, FrameTypes, SessionAssumption DEF SendStdin, TypeOK
  <2>2. CASE h \in {"request", "exec", "say", "hold"}
    <3>1. Open /\ Taken' = Taken /\ Taken \in Nat /\ Taken <= sent
      BY <1>9, <2>1, <2>2
    <3>2. Len(toServer) = sent - Taken
      BY <1>0, <2>1, <2>2, <3>1 DEF Pending
    <3>3. ASSUME NEW j \in 1 .. Len(toServer)
          PROVE  Taken + j <= sent /\ Taken + j <= sent + 1 /\ toServer[j] = Stdin(Taken + j)
      BY <1>0, <1>l, <2>2, <3>1, <3>2 DEF Pending
    <3>4. Taken + Len(toServer) + 1 = sent + 1
      BY <1>l, <3>1, <3>2
    <3>5. Len(toServer) + 1 = (sent + 1) - Taken /\ sent + 1 \in Nat /\ sent + 1 >= sent
      BY <1>l, <3>1, <3>2
    <3> QED
      BY <1>8, <2>1, <2>2, <3>1, <3>3, <3>4, <3>5
  <2> QED
    BY <1>9, <2>1, <2>2
<1>11. CASE SendEof
  <2>1. sent' = sent /\ ~ended /\ ended' /\ Send(Eof) /\ Eof \in Frames
    BY <1>11, FrameTypes DEF SendEof
  <2>2. CASE h \in {"request", "exec", "say", "hold"}
    <3>1. Open /\ Taken' = Taken /\ Taken \in Nat /\ Taken <= sent
      BY <1>9, <2>1, <2>2
    <3>2. Len(toServer) = sent - Taken
      BY <1>0, <2>1, <2>2, <3>1 DEF Pending
    <3>3. Taken + Len(toServer) + 1 = sent + 1 /\ Len(toServer) + 1 > sent - Taken
      BY <1>l, <3>1, <3>2
    <3>4. \A j \in 1 .. Len(toServer) :
             toServer[j] = IF Taken + j <= sent THEN Stdin(Taken + j)
                           ELSE IF Taken + j = sent + 1 THEN Eof ELSE Stdin(0)
      BY <1>0, <2>2, <3>1 DEF Pending
    <3>5. ~(Taken + Len(toServer) + 1 <= sent) /\ sent >= sent
      BY <1>l, <3>3
    <3> QED
      BY <1>8, <1>l, <2>1, <2>2, <3>1, <3>3, <3>4, <3>5
  <2> QED
    BY <1>9, <2>1, <2>2
<1>12. CASE SendMore
  <2>1. sent' = sent /\ ended /\ ended' /\ Send(Stdin(0)) /\ Stdin(0) \in Frames
    BY <1>12, FrameTypes, SessionAssumption DEF SendMore
  <2>2. CASE h \in {"request", "exec", "say", "hold"}
    <3>1. Open /\ Taken' = Taken /\ Taken \in Nat /\ Taken <= sent
      BY <1>9, <2>1, <2>2
    <3>2. Len(toServer) > sent - Taken
      BY <1>0, <2>1, <2>2, <3>1 DEF Pending
    <3>3. Len(toServer) + 1 > sent - Taken /\ sent >= sent
      BY <1>l, <3>1, <3>2
    <3>4. \A j \in 1 .. Len(toServer) :
             toServer[j] = IF Taken + j <= sent THEN Stdin(Taken + j)
                           ELSE IF Taken + j = sent + 1 THEN Eof ELSE Stdin(0)
      BY <1>0, <2>2, <3>1 DEF Pending
    <3>5. ~(Taken + Len(toServer) + 1 <= sent) /\ Taken + Len(toServer) + 1 # sent + 1
      BY <1>l, <3>1, <3>2
    <3> QED
      BY <1>8, <1>l, <2>1, <2>2, <3>1, <3>3, <3>4, <3>5
  <2> QED
    BY <1>9, <2>1, <2>2
<1>13. CASE Receive
  <2>1. Head(toClient) \in Frames /\ Len(toClient') = Len(toClient) - 1
    BY <1>0, <1>13, Taking DEF Receive, TypeOK
  <2>2. Len(got') = Len(got) + 1
    BY <1>0, <1>13, <2>1, Appended DEF Receive, TypeOK
  <2>3. UNCHANGED <<h, said, client, cut, sent, ended, toServer, Taken>>
    BY <1>l, <1>13, <2>1, <2>2 DEF Receive, Taken, Size
  <2> QED
    BY <1>0, <2>3, PendingKept
<1>14. CASE Leave
  BY <1>14 DEF Leave, Pending
<1>15. CASE Another \/ Cut \/ UNCHANGED vars
  <2>1. UNCHANGED <<h, client, sent, ended, toServer, Taken>> /\ (Open' => Open)
    BY <1>15 DEF Another, Cut, vars, Taken, Size
  <2> QED
    BY <1>0, <2>1, PendingKept
<1> QED
  BY <1>1, <1>2, <1>3, <1>4, <1>5, <1>6, <1>7, <1>10, <1>11, <1>12, <1>13, <1>14, <1>15
  DEF Next, Handler, Drain

-----------------------------------------------------------------------------
(***************************************************************************)
(* The inductive invariant holds in every reachable state.                 *)
(***************************************************************************)
THEOREM Invariant == Spec => []IInv
<1>1. IInv /\ [Next]_vars => IInv'
  BY NextType, NextWritten, NextStage, NextPending DEF IInv
<1> QED
  BY InitIInv, <1>1, PTL DEF Spec

(***************************************************************************)
(* Every variable of execSpriteWS, its goroutine, the wires and the client *)
(* has its type.                                                           *)
(***************************************************************************)
THEOREM TypeCorrect == Spec => []TypeOK
<1>1. IInv => TypeOK
  BY DEF IInv
<1> QED
  BY Invariant, <1>1, PTL

-----------------------------------------------------------------------------
(***************************************************************************)
(* The whole line of a session, without its end.                           *)
(***************************************************************************)
LEMMA TranscriptLine ==
    ASSUME TypeOK
    PROVE  /\ Transcript \in Seq(Frames) /\ Len(Transcript) = Ran
           /\ \A i \in 1 .. Ran : Transcript[i] = Line(i) /\ Transcript[i] # Exit
<1>1. said \in Seq(Frames) /\ \A i \in 1 .. Len(said) : said[i] # Exit
  BY OutputTypes DEF TypeOK
<1>2. CASE Echoing
  <2>1. /\ Echoes(sent) \in Seq(Frames) /\ Len(Echoes(sent)) = sent
        /\ \A k \in 1 .. sent : Echoes(sent)[k] = Echo(k)
    <3>1. sent \in Nat /\ \A k \in 1 .. sent : Echo(k) \in Frames
      BY FrameTypes, SessionAssumption DEF TypeOK
    <3> QED
      BY <3>1, IsASeq DEF Echoes
  <2>2. Transcript = said \o Echoes(sent) /\ Due = sent
    BY <1>2 DEF Transcript, Echoing, Due
  <2>3. Transcript \in Seq(Frames) /\ Len(Transcript) = Ran
    <3>1. said \o Echoes(sent) \in Seq(Frames) /\ Len(said \o Echoes(sent)) = Len(said) + Len(Echoes(sent))
      BY <1>1, <2>1, ConcatProperties
    <3> QED
      BY <2>1, <2>2, <3>1 DEF Ran
  <2>4. ASSUME NEW i \in 1 .. Ran PROVE Transcript[i] = Line(i) /\ Transcript[i] # Exit
    <3>1. CASE i <= Len(said)
      BY <1>1, <2>1, <2>2, <2>4, <3>1, Lengths, ConcatProperties DEF Line, Ran
    <3>2. CASE i > Len(said)
      <4>1. i - Len(said) \in 1 .. sent
        BY <2>2, <2>4, <3>2, Lengths DEF Ran
      <4>2. Transcript[i] = Echo(i - Len(said))
        BY <1>1, <2>1, <2>2, <2>4, <3>2, <4>1, Lengths, ConcatProperties DEF Ran
      <4> QED
        BY <2>2, <2>4, <3>2, <4>2, FramesDiffer, Lengths DEF Line, Ran
    <3> QED
      BY <2>4, <3>1, <3>2, Lengths DEF Ran
  <2> QED
    BY <2>3, <2>4
<1>3. CASE ~Echoing
  <2>1. Transcript = said /\ Ran = Len(said)
    BY <1>1, <1>3, Lengths, ConcatEmptySeq DEF Transcript, Echoing, Due, Ran
  <2> QED
    BY <1>1, <2>1 DEF Line
<1> QED
  BY <1>2, <1>3

(***************************************************************************)
(* The client receives the output, the echo of all its stdin if the        *)
(* command echoes, and one exit frame, each in its place: what             *)
(* execSpriteWS and echoStdinUntilEOF write is never lost or reordered.    *)
(***************************************************************************)
THEOREM EchoWhole == Spec => []EchoIsWhole
<1>1. IInv => EchoIsWhole
  <2> SUFFICES ASSUME IInv PROVE EchoIsWhole
    OBVIOUS
  <2>0. TypeOK /\ (Written \/ Refused) /\ Stage
    BY DEF IInv
  <2>t. /\ Transcript \in Seq(Frames) /\ Len(Transcript) = Ran /\ Ran \in Nat
        /\ \A i \in 1 .. Ran : Transcript[i] = Line(i) /\ Transcript[i] # Exit
    BY <2>0, TranscriptLine, Lengths DEF Ran
  <2>1. CASE Written
    <3>1. /\ got \in Seq(Frames) /\ Len(got) \in Nat /\ Len(got) <= Size
          /\ \A i \in 1 .. Len(got) : got[i] = Line(i)
          /\ Len(got) <= Ran + 2 /\ (Echoing /\ Len(got) > Ran => ended)
      BY <2>0, <2>1, <2>t, Lengths DEF Written, Size, TypeOK
    <3>2. Line(Ran + 1) = Exit /\ Line(Ran + 2) = Close
      BY <2>0, Lengths DEF Line, Ran
    <3>3. CASE Len(got) <= Ran
      <4>1. Exit \notin Range(got)
        BY <2>t, <3>1, <3>3, LenProperties DEF Range
      <4>2. SubSeq(got, 1, Len(got)) = SubSeq(Transcript, 1, Len(got))
        <5>1. ASSUME NEW i \in 1 .. Len(got) PROVE got[i] = Transcript[i]
          BY <2>t, <3>1, <3>3, <5>1
        <5>2. Len(got) <= Len(Transcript)
          BY <2>t, <3>3
        <5> QED
          BY <2>t, <3>1, <5>1, <5>2
      <4> QED
        BY <2>t, <3>1, <3>3, <4>1, <4>2 DEF EchoIsWhole, IsPrefix
    <3>4. CASE Len(got) > Ran
      <4>1. Exit \in Range(got)
        BY <2>t, <3>1, <3>2, <3>4, LenProperties DEF Range
      <4>2. CASE Len(got) = Ran + 1
        <5>1. Append(Transcript, Exit) \in Seq(Frames)
          BY <2>t, FrameTypes, Appended
        <5>2. Len(Append(Transcript, Exit)) = Len(got)
          BY <2>t, <4>2, FrameTypes, Appended
        <5>3. \A i \in 1 .. Len(got) : got[i] = Append(Transcript, Exit)[i]
          BY <2>t, <3>1, <3>2, <4>2, FrameTypes, Appended
        <5>4. got = Append(Transcript, Exit)
          BY <3>1, <5>1, <5>2, <5>3, SeqEqual
        <5> QED
          BY <3>1, <3>4, <4>1, <5>4 DEF EchoIsWhole, Echoing
      <4>3. CASE Len(got) = Ran + 2
        <5>1. <<Exit, Close>> \in Seq(Frames) /\ Len(<<Exit, Close>>) = 2
          BY FrameTypes
        <5>2. /\ Transcript \o <<Exit, Close>> \in Seq(Frames)
              /\ Len(Transcript \o <<Exit, Close>>) = Len(got)
          BY <2>t, <4>3, <5>1, ConcatProperties
        <5>3. \A i \in 1 .. Len(got) : got[i] = (Transcript \o <<Exit, Close>>)[i]
          BY <2>t, <3>1, <3>2, <4>3, <5>1, ConcatProperties
        <5>4. got = Transcript \o <<Exit, Close>>
          BY <3>1, <5>2, <5>3, SeqEqual
        <5> QED
          BY <3>1, <3>4, <4>1, <5>4 DEF EchoIsWhole, Echoing
      <4> QED
        BY <2>t, <3>1, <3>4, <4>2, <4>3
    <3> QED
      BY <2>t, <3>1, <3>3, <3>4
  <2>2. CASE Refused
    <3>1. got = <<>> \/ got = <<Close>>
      BY <2>2 DEF Refused
    <3>2. Exit \notin Range(got)
      BY <3>1, FramesDiffer DEF Range
    <3>3. CASE got = <<>>
      <4>1. IsPrefix(got, Transcript)
        BY <2>t, <3>3 DEF IsPrefix
      <4> QED
        BY <3>2, <4>1 DEF EchoIsWhole
    <3>4. CASE got = <<Close>>
      BY <2>2, <3>2, <3>4 DEF EchoIsWhole, Refused
    <3> QED
      BY <3>1, <3>3, <3>4
  <2> QED
    BY <2>0, <2>1, <2>2
<1> QED
  BY Invariant, <1>1, PTL
=============================================================================
