-------------------------------- MODULE Relay --------------------------------
(***************************************************************************)
(* A connection of the host into a sprite: runtime.Dial and execConn       *)
(* (internal/runtime/runtime.go) over the exec stream of a runtime         *)
(* (docker.go, kube.go), and x-relay (internal/agent/tools.go), which      *)
(* joins that stream to a server in the sprite.                            *)
(*                                                                         *)
(* What the host writes passes the exec's stdin, a goroutine of x-relay    *)
(* and the server's socket; what the server writes passes x-relay, the     *)
(* exec's stdout, the one goroutine that splits stdout from stderr (demux  *)
(* on Docker, read on Kubernetes) and an unbuffered pipe.  Each place on   *)
(* the way holds a few chunks, so that whoever does not read makes the one *)
(* before it wait.  Chunks are counted: no place changes their order.      *)
(***************************************************************************)
EXTENDS Naturals

CONSTANTS
    Runtime,        \* some of "docker", "kube5", "kube4" (which cannot close stdin)
    Cap,            \* chunks a place holds
    MaxRequest, MaxResponse     \* bounds on the chunks each side writes

ASSUME RelayAssumption ==
    /\ Runtime \subseteq {"docker", "kube5", "kube4"}
    /\ Cap \in Nat \ {0} /\ MaxRequest \in Nat /\ MaxResponse \in Nat

VARIABLES
    runtime,
    manners,        \* the server: "patient" reads all, then answers and closes; "free" may do anything
    conn,           \* execConn: "none", "failed", "open", and the steps of Close
    writer, fin,    \* a Write under way; stdin was closed
    wrote, got, end,    \* chunks written and read by the host; it read the end
    stream,         \* the exec's stream
    up, upEnd,      \* stdin under way, and its end
    relay, in, out, \* x-relay and its two copies
    req, reqEnd,    \* under way to the server
    read, sawEnd,   \* chunks the server read; it read the end
    served, resp, respEnd,      \* chunks the server wrote; under way to x-relay; it closed its side
    down, errs,     \* stdout and stderr under way
    demux, discard  \* the goroutine that splits, the one that reads stderr

host == <<conn, writer, fin, wrote, got, end>>
pipes == <<stream, up, upEnd, down, errs>>
copies == <<relay, in, out>>
socket == <<req, reqEnd, resp, respEnd>>
server == <<read, sawEnd, served>>
splitter == <<demux, discard>>
vars == <<runtime, manners, host, pipes, copies, socket, server, splitter>>

-----------------------------------------------------------------------------
TypeOK ==
    /\ runtime \in Runtime /\ manners \in {"patient", "free"}
    /\ conn \in {"none", "failed", "open", "closing", "shut", "closed"}
    /\ writer \in {"idle", "write", "failed"} /\ fin \in BOOLEAN
    /\ wrote \in 0 .. MaxRequest /\ got \in 0 .. MaxResponse /\ end \in BOOLEAN
    /\ stream \in {"none", "open", "closed", "broken"}
    /\ up \in 0 .. Cap /\ upEnd \in BOOLEAN
    /\ relay \in {"none", "dial", "joined", "ended", "aborted"}
    /\ in \in {"read", "write", "done"} /\ out \in {"read", "write"}
    /\ req \in 0 .. Cap /\ reqEnd \in BOOLEAN
    /\ read \in 0 .. MaxRequest /\ sawEnd \in BOOLEAN /\ served \in 0 .. MaxResponse
    /\ resp \in 0 .. Cap /\ respEnd \in BOOLEAN
    /\ down \in 0 .. Cap /\ errs \in {0, 1}
    /\ demux \in {"none", "read", "out", "err", "done"} /\ discard \in {"none", "read", "done"}

Init ==
    /\ runtime \in Runtime /\ manners \in {"patient", "free"}
    /\ conn = "none" /\ writer = "idle" /\ fin = FALSE
    /\ wrote = 0 /\ got = 0 /\ end = FALSE
    /\ stream = "none" /\ up = 0 /\ upEnd = FALSE /\ down = 0 /\ errs = 0
    /\ relay = "none" /\ in = "read" /\ out = "read"
    /\ req = 0 /\ reqEnd = FALSE /\ resp = 0 /\ respEnd = FALSE
    /\ read = 0 /\ sawEnd = FALSE /\ served = 0
    /\ demux = "none" /\ discard = "none"

Over == relay \in {"ended", "aborted"}

\* The exec takes input and gives output.
Running == stream = "open" /\ ~Over

\* The stream is cut: what is under way may be lost, and stdin ends.
Cut(how) ==
    /\ stream' = how /\ upEnd' = TRUE
    /\ up' \in 0 .. up /\ down' \in 0 .. down /\ errs' \in 0 .. errs

-----------------------------------------------------------------------------
(***************************************************************************)
(* The host                                                                *)
(***************************************************************************)
Far == UNCHANGED <<runtime, manners, copies, socket, server>>

\* Mistake: nobody reads stderr.
DialDeaf ==
    /\ conn = "none" /\ conn' = "open" /\ stream' = "open" /\ relay' = "dial"
    /\ demux' = "read" /\ discard' = "done"
    /\ UNCHANGED <<runtime, manners, writer, fin, wrote, got, end, up, upEnd, down, errs, in, out,
                   socket, server>>

Dial ==
    /\ conn = "none" /\ conn' = "open" /\ stream' = "open" /\ relay' = "dial"
    /\ demux' = "read" /\ discard' = "read"
    /\ UNCHANGED <<runtime, manners, writer, fin, wrote, got, end, up, upEnd, down, errs, in, out,
                   socket, server>>

DialFails ==
    /\ conn = "none" /\ conn' = "failed"
    /\ UNCHANGED <<writer, fin, wrote, got, end, pipes, splitter>> /\ Far

Write ==
    /\ conn = "open" /\ writer = "idle" /\ ~fin /\ wrote < MaxRequest /\ writer' = "write"
    /\ UNCHANGED <<conn, fin, wrote, got, end, pipes, splitter>> /\ Far

WriteTaken ==
    /\ writer = "write" /\ stream = "open" /\ ~fin /\ up < Cap
    /\ up' = up + 1 /\ wrote' = wrote + 1 /\ writer' = "idle"
    /\ UNCHANGED <<conn, fin, got, end, stream, upEnd, down, errs, splitter>> /\ Far

WriteFails ==
    /\ writer = "write" /\ (fin \/ ~Running) /\ writer' = "failed"
    /\ UNCHANGED <<conn, fin, wrote, got, end, pipes, splitter>> /\ Far

\* Mistake: a Write holds the mutex on every runtime.
StdinClosesLocked ==
    /\ writer # "write"
    /\ fin' = TRUE /\ upEnd' = (upEnd \/ runtime # "kube4")

\* Stdin().Close: kubeStdin takes the mutex that a Write under way holds.
StdinCloses ==
    /\ runtime # "docker" => writer # "write"
    /\ fin' = TRUE /\ upEnd' = (upEnd \/ runtime # "kube4")

CloseWrite ==
    /\ conn = "open" /\ writer # "write" /\ ~fin /\ StdinCloses
    /\ UNCHANGED <<conn, writer, wrote, got, end, stream, up, down, errs, splitter>> /\ Far

\* Close, at any time: first Stdin().Close, then the stream.
Close ==
    /\ conn = "open" /\ conn' = "closing"
    /\ UNCHANGED <<writer, fin, wrote, got, end, pipes, splitter>> /\ Far

CloseStdin ==
    /\ conn = "closing" /\ conn' = "shut" /\ StdinCloses
    /\ UNCHANGED <<writer, wrote, got, end, stream, up, down, errs, splitter>> /\ Far

\* Mistake: the stream is left open.
CloseStreamNot ==
    /\ conn = "shut" /\ conn' = "closed"
    /\ UNCHANGED <<pipes, writer, fin, wrote, got, end, splitter>> /\ Far

CloseStream ==
    /\ conn = "shut" /\ conn' = "closed"
    /\ IF stream = "open" THEN Cut("closed") ELSE UNCHANGED pipes
    /\ UNCHANGED <<writer, fin, wrote, got, end, splitter>> /\ Far

\* Somebody reads as long as the connection is open.
ReadChunk ==
    /\ conn = "open" /\ demux = "out" /\ got' = got + 1 /\ demux' = "read"
    /\ UNCHANGED <<conn, writer, fin, wrote, end, pipes, discard>> /\ Far

ReadEnd ==
    /\ conn = "open" /\ demux = "done" /\ ~end /\ end' = TRUE
    /\ UNCHANGED <<conn, writer, fin, wrote, got, pipes, splitter>> /\ Far

-----------------------------------------------------------------------------
(***************************************************************************)
(* The goroutine that splits the stream waits until its chunk is read.  It *)
(* takes a stream that broke for one that ended.                           *)
(***************************************************************************)
Split ==
    /\ demux = "read"
    /\ \/ down > 0 /\ down' = down - 1 /\ demux' = "out" /\ UNCHANGED errs
       \/ errs > 0 /\ errs' = errs - 1 /\ demux' = "err" /\ UNCHANGED down
    /\ UNCHANGED <<host, stream, up, upEnd, discard>> /\ Far

Discard ==
    /\ discard = "read"
    /\ \/ demux = "err" /\ demux' = "read" /\ UNCHANGED discard
       \/ demux = "done" /\ discard' = "done" /\ UNCHANGED demux
    /\ UNCHANGED <<host, pipes>> /\ Far

SplitEnd ==
    /\ demux = "read" /\ down = 0 /\ errs = 0 /\ ~Running /\ demux' = "done"
    /\ UNCHANGED <<host, pipes, discard>> /\ Far

-----------------------------------------------------------------------------
(***************************************************************************)
(* x-relay                                                                 *)
(***************************************************************************)
Near == UNCHANGED <<runtime, manners, host, splitter>>

Join ==
    /\ relay = "dial" /\ relay' = "joined"
    /\ Near /\ UNCHANGED <<pipes, in, out, socket, server>>

\* Nobody has listened for five seconds: a line on stderr.
GiveUp ==
    /\ relay = "dial" /\ relay' = "ended" /\ errs' = IF stream = "open" THEN 1 ELSE errs
    /\ Near /\ UNCHANGED <<stream, up, upEnd, down, in, out, socket, server>>

CopyIn ==
    /\ relay = "joined"
    /\ \/ in = "read" /\ up > 0 /\ up' = up - 1 /\ in' = "write" /\ UNCHANGED req
       \/ in = "write" /\ req < Cap /\ req' = req + 1 /\ in' = "read" /\ UNCHANGED up
    /\ Near /\ UNCHANGED <<stream, upEnd, down, errs, relay, out, reqEnd, resp, respEnd, server>>

\* Mistake: the end of stdin closes the connection.
CopyInEndClosing ==
    /\ relay = "joined" /\ in = "read" /\ up = 0 /\ upEnd
    /\ in' = "done" /\ reqEnd' = TRUE /\ relay' = "ended"
    /\ Near /\ UNCHANGED <<pipes, out, req, resp, respEnd, server>>

CopyInEnd ==
    /\ relay = "joined" /\ in = "read" /\ up = 0 /\ upEnd
    /\ in' = "done" /\ reqEnd' = TRUE
    /\ Near /\ UNCHANGED <<pipes, relay, out, req, resp, respEnd, server>>

\* What is written to a stream that was cut is discarded.
CopyOut ==
    /\ relay = "joined"
    /\ \/ out = "read" /\ resp > 0 /\ resp' = resp - 1 /\ out' = "write" /\ UNCHANGED down
       \/ out = "write" /\ stream = "open" /\ down < Cap /\ down' = down + 1
             /\ out' = "read" /\ UNCHANGED resp
       \/ out = "write" /\ stream # "open" /\ out' = "read" /\ UNCHANGED <<down, resp>>
    /\ Near /\ UNCHANGED <<stream, up, upEnd, errs, relay, in, req, reqEnd, respEnd, server>>

\* The server closed its side: x-relay closes the connection and exits.
CopyOutEnd ==
    /\ relay = "joined" /\ out = "read" /\ resp = 0 /\ respEnd
    /\ relay' = "ended" /\ in' = "done" /\ reqEnd' = TRUE
    /\ Near /\ UNCHANGED <<pipes, out, req, resp, respEnd, server>>

\* A write to the stream that was cut fails, too.
CopyOutFails ==
    /\ relay = "joined" /\ out = "write" /\ stream # "open"
    /\ relay' = "ended" /\ in' = "done" /\ reqEnd' = TRUE
    /\ Near /\ UNCHANGED <<pipes, out, req, resp, respEnd, server>>

\* The server resets the connection, whose error io.Copy returns and x-relay drops; or
\* x-relay is killed.  What it held is lost, and the exec ends as it always does.
Abort ==
    /\ relay = "joined" /\ relay' = "aborted" /\ in' = "done" /\ reqEnd' = TRUE
    /\ Near /\ UNCHANGED <<pipes, out, req, resp, respEnd, server>>

-----------------------------------------------------------------------------
(***************************************************************************)
(* The server, and what breaks the stream.                                 *)
(***************************************************************************)
Outside == Near /\ UNCHANGED <<pipes, copies>>

Receive ==
    /\ ~sawEnd
    /\ \/ req > 0 /\ req' = req - 1 /\ read' = read + 1 /\ UNCHANGED sawEnd
       \/ req = 0 /\ reqEnd /\ sawEnd' = TRUE /\ UNCHANGED <<req, read>>
    /\ Outside /\ UNCHANGED <<reqEnd, resp, respEnd, served>>

Answers == relay = "joined" /\ ~respEnd /\ (manners = "patient" => sawEnd)

Respond ==
    /\ Answers /\ served < MaxResponse /\ resp < Cap
    /\ served' = served + 1 /\ resp' = resp + 1
    /\ Outside /\ UNCHANGED <<req, reqEnd, respEnd, read, sawEnd>>

Finish ==
    /\ Answers /\ respEnd' = TRUE
    /\ Outside /\ UNCHANGED <<req, reqEnd, resp, server>>

Break ==
    /\ stream = "open" /\ Cut("broken")
    /\ Near /\ UNCHANGED <<copies, socket, server>>

Host == WriteTaken \/ WriteFails \/ CloseStdin \/ CloseStream \/ ReadChunk \/ ReadEnd
Splitter == Split \/ SplitEnd
XRelay == Join \/ GiveUp \/ CopyOut \/ CopyOutEnd \/ CopyOutFails
Server == Receive \/ Finish

Next ==
    \/ Dial \/ DialFails \/ Write \/ CloseWrite \/ Close \/ Host
    \/ Splitter \/ Discard
    \/ XRelay \/ CopyIn \/ CopyInEnd \/ Abort
    \/ Server \/ Respond \/ Break

Spec == Init /\ [][Next]_vars

\* Every goroutine takes its steps; only a patient server must.
FairSpec ==
    /\ Spec
    /\ WF_vars(WriteTaken \/ WriteFails) /\ WF_vars(CloseStdin \/ CloseStream)
    /\ WF_vars(ReadChunk \/ ReadEnd) /\ WF_vars(Splitter) /\ WF_vars(Discard)
    /\ WF_vars(XRelay) /\ WF_vars(CopyIn \/ CopyInEnd)
    /\ WF_vars(manners = "patient" /\ Receive) /\ WF_vars(manners = "patient" /\ Finish)

-----------------------------------------------------------------------------
(***************************************************************************)
(* Properties                                                              *)
(***************************************************************************)
(***************************************************************************)
(* When the host reads the end, it has everything the server wrote ("a     *)
(* response still in flight is delivered", tools.go), and the server did   *)
(* close, or nobody listened; a stream that broke, a server that reset the *)
(* connection and an x-relay that was killed look the same to the host.    *)
(* When the server reads the end of a request, the host ended it and the   *)
(* server has all of it: unless the stream was cut, x-relay was killed, or *)
(* the server closed its own side first, which ends x-relay with what it   *)
(* holds.                                                                  *)
(***************************************************************************)
NothingIsLost ==
    /\ end /\ stream = "open" =>
          relay = "aborted" \/ (got = served /\ relay = "ended" /\ (respEnd \/ served = 0))
    /\ sawEnd /\ stream = "open" /\ ~respEnd => relay = "aborted" \/ (fin /\ read = wrote)

(***************************************************************************)
(* A host that ended its request reads the end of the answer of a patient  *)
(* server, however little the places on the way hold, also when x-relay    *)
(* only has an error to tell; on the older protocol of Kubernetes the      *)
(* server never sees the end.                                              *)
(***************************************************************************)
ExchangeEnds ==
    fin /\ manners = "patient" /\ runtime # "kube4" ~> end \/ conn # "open"

(***************************************************************************)
(* Close returns.  On Kubernetes it waits for a Write under way, which     *)
(* only Close's second half would abort: it may wait for ever for a server *)
(* that does not read.                                                     *)
(***************************************************************************)
CloseReturns ==
    conn = "closing" /\ (runtime = "docker" \/ manners = "patient") ~> conn = "closed"

(***************************************************************************)
(* After Close, the goroutines of the connection end, except that the one  *)
(* that splits keeps a chunk nobody will read; and x-relay ends when its   *)
(* server does.                                                            *)
(***************************************************************************)
CloseFrees ==
    /\ conn = "closed" ~> discard = "done" \/ demux = "out"
    /\ conn = "closed" /\ manners = "patient" ~> Over

-----------------------------------------------------------------------------
(***************************************************************************)
(* The inductive invariant.                                                *)
(***************************************************************************)
One(b) == IF b THEN 1 ELSE 0

\* Before Dial there is nothing, and before x-relay has its connection the server saw nothing.
Beginning ==
    /\ conn \in {"none", "failed"} <=> stream = "none"
    /\ stream = "none" <=> relay = "none"
    /\ relay = "none" =>
        /\ ~upEnd /\ ~end /\ up = 0 /\ down = 0 /\ errs = 0
        /\ wrote = 0 /\ got = 0 /\ demux = "none" /\ writer = "idle"
    /\ relay \in {"none", "dial"} =>
        /\ in = "read" /\ out = "read" /\ req = 0 /\ ~reqEnd
        /\ resp = 0 /\ ~respEnd /\ served = 0 /\ read = 0 /\ ~sawEnd

\* The chunks of the request: none is made up, and none is gone while the stream holds.
RequestKept ==
    /\ writer = "write" => wrote < MaxRequest
    /\ up + One(in = "write") + req + read <= wrote
    /\ stream = "open" /\ ~Over => up + One(in = "write") + req + read = wrote

\* The chunks of the response.
ResponseKept ==
    /\ resp + One(out = "write") + down + One(demux = "out") + got <= served
    /\ stream = "open" => resp + One(out = "write") + down + One(demux = "out") + got = served

\* Each end comes after what it ends.
Endings ==
    /\ upEnd /\ stream = "open" => fin
    /\ sawEnd => reqEnd /\ req = 0
    /\ reqEnd => in = "done"
    /\ reqEnd /\ stream = "open" /\ ~Over => up = 0 /\ upEnd
    /\ reqEnd /\ stream = "open" /\ relay = "ended" => respEnd
    /\ relay = "ended" /\ stream = "open" => resp = 0 /\ out = "read" /\ (respEnd \/ served = 0)
    /\ demux = "done" /\ stream = "open" => Over /\ down = 0
    /\ end => demux = "done"

IInv == TypeOK /\ Beginning /\ RequestKept /\ ResponseKept /\ Endings

=============================================================================
