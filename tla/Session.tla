------------------------------- MODULE Session -------------------------------
(***************************************************************************)
(* One exec of the interpreter over its control WebSocket: execSpriteWS    *)
(* with echoStdinUntilEOF and drainStdin (internal/server/ws.go).          *)
(*                                                                         *)
(* The store runs the command line at once; what it said is written to the *)
(* client.  No process exists, but a command the interpreter does not know *)
(* holds the session and echoes stdin until its end.  The connection holds *)
(* a few frames in each direction: who does not read makes the other wait. *)
(***************************************************************************)
EXTENDS Naturals, Sequences, SequencesExt

CONSTANTS
    Cap,            \* frames the connection holds in each direction
    MaxFrames       \* bound on the frames the client sends

ASSUME SessionAssumption == Cap \in Nat \ {0} /\ MaxFrames \in Nat

VARIABLES
    wantStdin,      \* the query does not say stdin=false
    live,           \* the sprite exists
    h,              \* execSpriteWS: the step it takes next
    said, unknown,  \* the result of the command line: stdout and stderr, Unrecognised
    told,           \* how much of it was written
    drain,          \* the goroutine of drainStdin
    toServer, toClient,     \* frames under way
    cut,            \* the server's library has closed the connection
    manners,        \* the client reads all the time ("duplex") or once it has sent all
    client,         \* "here" or "left"
    sent, ended,    \* the client: stdin frames sent before the end, and the end
    got             \* the client: the frames it received

handler == <<h, said, unknown, told, drain>>
wires == <<toServer, toClient>>
peer == <<client, sent, ended, got>>
vars == <<wantStdin, live, manners, cut, handler, wires, peer>>

-----------------------------------------------------------------------------
\* A frame: its stream, and for stdin and its echo which one it is.
Stdin(k) == <<"stdin", k>>
Echo(k) == <<"echo", k>>
Of(s) == <<s, 0>>
Eof == Of("eof")
Exit == Of("exit")
Close == Of("close")

Frames == {"stdin", "echo", "eof", "stdout", "stderr", "exit", "close"} \X (0 .. MaxFrames)

\* The outputs of a command line, in the order in which they are written.
Outputs == {<<>>, <<Of("stdout")>>, <<Of("stderr")>>, <<Of("stdout"), Of("stderr")>>}

TypeOK ==
    /\ wantStdin \in BOOLEAN /\ live \in BOOLEAN /\ cut \in BOOLEAN
    /\ h \in {"request", "exec", "say", "hold", "exit", "close", "refuse", "done"}
    /\ said \in Outputs /\ unknown \in BOOLEAN /\ told \in 0 .. 2 /\ drain \in {"none", "read", "end"}
    /\ toServer \in Seq(Frames) /\ toClient \in Seq(Frames)
    /\ Len(toServer) <= Cap /\ Len(toClient) <= Cap
    /\ manners \in {"duplex", "sequential"} /\ client \in {"here", "left"}
    /\ sent \in 0 .. MaxFrames /\ ended \in BOOLEAN /\ got \in Seq(Frames)

Init ==
    /\ wantStdin \in BOOLEAN /\ live \in BOOLEAN /\ manners \in {"duplex", "sequential"}
    /\ h = "request" /\ said = <<>> /\ unknown = FALSE /\ told = 0 /\ drain = "none"
    /\ toServer = <<>> /\ toClient = <<>> /\ cut = FALSE
    /\ client = "here" /\ sent = 0 /\ ended = FALSE /\ got = <<>>

Here == client = "here"
Open == Here /\ ~cut
Gone == ~Open \/ h = "done"

-----------------------------------------------------------------------------
(***************************************************************************)
(* execSpriteWS                                                            *)
(***************************************************************************)
Server == UNCHANGED <<wantStdin, live, manners, cut, peer>>
Result == UNCHANGED <<said, unknown, told>>

\* A plain GET is answered with an empty list, or 404, and is not a session.
Upgrade ==
    /\ h = "request" /\ h' = IF Here THEN "exec" ELSE "done"
    /\ Server /\ Result /\ UNCHANGED <<drain, wires>>

\* store.Exec; whatever was not recognised was also echoed to stdout.
Exec ==
    /\ h = "exec"
    /\ IF live
       THEN /\ h' = "say" /\ said' \in Outputs /\ unknown' \in BOOLEAN
            /\ unknown' => Of("stdout") \in Range(said')
            /\ UNCHANGED told
       ELSE h' = "refuse" /\ Result
    /\ Server /\ UNCHANGED <<drain, wires>>

\* writeFrame waits for room; it fails when the connection is no longer there.
Put(frame) == Open /\ Len(toClient) < Cap /\ toClient' = Append(toClient, frame)

WriteFails ==
    /\ ~Open /\ h \in {"say", "exit", "close", "refuse"} /\ h' = "done"
    /\ h = "say" => told < Len(said)
    /\ Server /\ Result /\ UNCHANGED <<drain, wires>>

Say ==
    /\ h = "say" /\ told < Len(said) /\ told' = told + 1 /\ Put(said[told'])
    /\ Server /\ UNCHANGED <<h, said, unknown, drain, toServer>>

\* Mistake: an unknown command exits at once, too.
SaidAllExiting ==
    /\ h = "say" /\ told = Len(said) /\ h' = "exit"
    /\ drain' = IF wantStdin THEN "read" ELSE drain
    /\ Server /\ Result /\ UNCHANGED wires

SaidAll ==
    /\ h = "say" /\ told = Len(said)
    /\ IF unknown /\ wantStdin
       THEN h' = "hold" /\ UNCHANGED drain
       ELSE h' = "exit" /\ drain' = IF wantStdin THEN "read" ELSE drain
    /\ Server /\ Result /\ UNCHANGED wires

\* echoStdinUntilEOF
EchoFrame ==
    /\ h = "hold" /\ toServer # <<>> /\ Head(toServer) # Eof
    /\ Put(Echo(Head(toServer)[2])) /\ toServer' = Tail(toServer)
    /\ Server /\ Result /\ UNCHANGED <<h, drain>>

\* Mistake: an error of Read does not end it.
EchoEndOnly ==
    /\ h = "hold" /\ h' = "exit"
    /\ toServer # <<>> /\ Head(toServer) = Eof /\ toServer' = Tail(toServer)
    /\ Server /\ Result /\ UNCHANGED <<drain, toClient>>

\* Its end, or an error of Read or of writeFrame.
EchoEnd ==
    /\ h = "hold" /\ h' = "exit"
    /\ \/ toServer # <<>> /\ Head(toServer) = Eof /\ toServer' = Tail(toServer)
       \/ ~Open /\ UNCHANGED toServer
    /\ Server /\ Result /\ UNCHANGED <<drain, toClient>>

WriteExit ==
    /\ h = "exit" /\ Put(Exit) /\ h' = "close"
    /\ Server /\ Result /\ UNCHANGED <<drain, toServer>>

\* Close gives up after five seconds; the deferred CloseNow ends the connection.
WriteClose ==
    /\ h \in {"close", "refuse"} /\ h' = "done"
    /\ Put(Close) \/ UNCHANGED toClient
    /\ Server /\ Result /\ UNCHANGED <<drain, toServer>>

\* drainStdin
DrainFrame ==
    /\ drain = "read" /\ toServer # <<>> /\ toServer' = Tail(toServer)
    /\ drain' = IF Head(toServer) = Eof THEN "end" ELSE "read"
    /\ Server /\ Result /\ UNCHANGED <<h, toClient>>

DrainFails ==
    /\ drain = "read" /\ Gone /\ drain' = "end"
    /\ Server /\ Result /\ UNCHANGED <<h, wires>>

\* Read meets a frame over the library's limit of 32 KiB (ws.go sets none), or SIGTERM
\* ends the context of the request.  The library's close frame is not among the frames.
Cut ==
    /\ ~cut /\ h # "done" /\ cut' = TRUE
    /\ UNCHANGED <<wantStdin, live, manners, handler, wires, peer>>

-----------------------------------------------------------------------------
(***************************************************************************)
(* The client, and another one who destroys or makes the sprite.           *)
(***************************************************************************)
Peer == UNCHANGED <<wantStdin, live, manners, cut, handler>>

Send(frame) ==
    /\ Open /\ h \notin {"request", "done"} /\ wantStdin /\ Len(toServer) < Cap
    /\ toServer' = Append(toServer, frame)
    /\ Peer /\ UNCHANGED <<toClient, client, got>>

SendStdin ==
    /\ ~ended /\ sent < MaxFrames /\ sent' = sent + 1 /\ Send(Stdin(sent')) /\ UNCHANGED ended

SendEof == ~ended /\ ended' = TRUE /\ Send(Eof) /\ UNCHANGED sent

\* A frame after the end.
SendMore == ended /\ Send(Stdin(0)) /\ UNCHANGED <<sent, ended>>

Receive ==
    /\ Here /\ toClient # <<>> /\ (manners = "duplex" \/ ended \/ ~wantStdin)
    /\ got' = Append(got, Head(toClient)) /\ toClient' = Tail(toClient)
    /\ Peer /\ UNCHANGED <<toServer, client, sent, ended>>

Leave ==
    /\ Here /\ client' = "left" /\ toServer' = <<>> /\ toClient' = <<>>
    /\ Peer /\ UNCHANGED <<sent, ended, got>>

Another ==
    /\ h \in {"request", "exec"} /\ live' = ~live
    /\ UNCHANGED <<wantStdin, manners, cut, handler, wires, peer>>

Handler ==
    \/ Upgrade \/ Exec \/ WriteFails \/ Say \/ SaidAll
    \/ EchoFrame \/ EchoEnd \/ WriteExit \/ WriteClose
Drain == DrainFrame \/ DrainFails

Next ==
    \/ Handler \/ Drain \/ Cut
    \/ SendStdin \/ SendEof \/ SendMore \/ Receive \/ Leave \/ Another

Spec == Init /\ [][Next]_vars

\* Both goroutines take their steps; a client reads, and ends its stdin at last.
FairSpec ==
    /\ Spec /\ WF_vars(Handler) /\ WF_vars(Drain)
    /\ WF_vars(Receive) /\ SF_vars(SendEof)

-----------------------------------------------------------------------------
(***************************************************************************)
(* Properties                                                              *)
(***************************************************************************)
(***************************************************************************)
(* What the client received is the output, then for an unknown command the *)
(* echo of its stdin, in order and with nothing missing or too much when   *)
(* the exit frame is there; the exit frame comes once, and after the end   *)
(* of stdin when there is an echo; nothing follows but the close.  A frame *)
(* over the library's limit, or SIGTERM, leaves a beginning of this and no *)
(* exit frame.  (docs/api-coverage.md:57-58 has all stdin frames drained   *)
(* and discarded; the code does that for the commands it knows, ws.go:86-  *)
(* 105, and echoes those of an unknown one.)                               *)
(***************************************************************************)
Echoes(n) == [k \in 1 .. n |-> Echo(k)]

Transcript == said \o (IF unknown /\ wantStdin THEN Echoes(sent) ELSE <<>>)

EchoIsWhole ==
    IF Exit \in Range(got)
    THEN /\ got \in {Append(Transcript, Exit), Transcript \o <<Exit, Close>>}
         /\ unknown /\ wantStdin => ended
    ELSE IsPrefix(got, Transcript) \/ (got = <<Close>> /\ said = <<>> /\ h = "done")

(***************************************************************************)
(* The handler and its goroutine end, once the client is gone, or when the *)
(* client reads while it writes.  One that first writes all its stdin may  *)
(* wait for the server while the server waits for it.                      *)
(***************************************************************************)
SessionEnds ==
    client = "left" \/ manners = "duplex" ~> h = "done" /\ drain # "read"
-----------------------------------------------------------------------------
(***************************************************************************)
(* What holds in every state, for the proofs: the frames written so far    *)
(* are a beginning of the whole line, as far as the handler is, and what   *)
(* is under way to it is the rest of stdin.                                *)
(***************************************************************************)
Echoing == unknown /\ wantStdin
Due == IF Echoing THEN sent ELSE 0

\* The frame at place i of a session that ran.
Line(i) ==
    IF i <= Len(said) THEN said[i]
    ELSE IF i <= Len(said) + Due THEN Echo(i - Len(said))
    ELSE IF i = Len(said) + Due + 1 THEN Exit ELSE Close

Size == Len(got) + Len(toClient)
Ran == Len(said) + Due

Written ==
    /\ \A i \in 1 .. Len(got) : got[i] = Line(i)
    /\ \A i \in 1 .. Len(toClient) : toClient[i] = Line(Len(got) + i)
    /\ Size <= Ran + 2
    /\ Echoing /\ Size > Ran => ended

Refused ==
    /\ h = "done" /\ said = <<>>
    /\ <<got, toClient>> \in {<< <<Close>>, <<>> >>, << <<>>, <<Close>> >>}

Stage ==
    /\ h \in {"request", "exec", "refuse"} => Size = 0 /\ said = <<>> /\ told = 0 /\ ~unknown
    /\ h \in {"request", "exec", "say", "hold", "refuse"} => drain = "none"
    /\ h = "say" => told <= Len(said)
    /\ h = "hold" => Echoing
    /\ Open =>
        /\ h = "say" => Size = told
        /\ h = "hold" => Len(said) <= Size /\ Size <= Ran
        /\ h = "exit" => Size = Ran
        /\ h = "close" => Size = Ran + 1
        /\ h \in {"exit", "close"} /\ Echoing => ended

\* The stdin frames the handler has taken.
Taken == IF h = "hold" THEN Size - Len(said) ELSE 0

Pending ==
    Open /\ h \in {"request", "exec", "say", "hold"} =>
        /\ IF ended THEN Len(toServer) > sent - Taken ELSE Len(toServer) = sent - Taken
        /\ \A j \in 1 .. Len(toServer) : toServer[j] =
              IF Taken + j <= sent THEN Stdin(Taken + j)
              ELSE IF Taken + j = sent + 1 THEN Eof ELSE Stdin(0)

IInv == TypeOK /\ (Written \/ Refused) /\ Stage /\ Pending
=============================================================================
