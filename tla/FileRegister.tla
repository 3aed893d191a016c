----------------------------- MODULE FileRegister -----------------------------
(***************************************************************************)
(* What the file API promises for one path: a register.  A request takes   *)
(* effect at once, between its call and its reply: a write puts its own    *)
(* content at the path, a read gets what is there, a delete takes it away. *)
(* A reply "ok" says that it did, "missing" that it did not; after "error" *)
(* it may still do.                                                        *)
(***************************************************************************)
CONSTANTS Request, Absent, None

VARIABLES
    op,         \* what a request asks for
    value,      \* what is at the path: the request that wrote it, what was there at first, or Absent
    phase,      \* per request: "idle", "called", "done", "missed" (nothing is there), "failed"
    got,        \* per request: what it read, or None
    reply       \* per request: "none", "ok", "missing", "error"

vars == <<op, value, phase, got, reply>>

Each(v) == [q \in Request |-> v]
Moves(q, to) == phase' = [phase EXCEPT ![q] = to]

Init ==
    phase = Each("idle") /\ got = Each(None) /\ reply = Each("none")

Call(q) ==
    phase[q] = "idle" /\ Moves(q, "called") /\ UNCHANGED <<op, value, got, reply>>

Put(q) ==
    /\ op[q] = "write" /\ phase[q] = "called" /\ Moves(q, "done")
    /\ value' = q /\ UNCHANGED <<op, got, reply>>

Fetch(q) ==
    /\ op[q] = "read" /\ phase[q] = "called" /\ value # Absent /\ Moves(q, "done")
    /\ got' = [got EXCEPT ![q] = value] /\ UNCHANGED <<op, value, reply>>

\* A prune takes the file away and then tries to take its directory.
Clear(q) ==
    /\ op[q] \in {"delete", "prune"} /\ phase[q] = "called" /\ value' = Absent
    /\ Moves(q, "done") \/ (op[q] = "prune" /\ UNCHANGED phase)
    /\ UNCHANGED <<op, got, reply>>

Miss(q) ==
    /\ op[q] # "write" /\ phase[q] = "called" /\ value = Absent /\ Moves(q, "missed")
    /\ UNCHANGED <<op, value, got, reply>>

Fail(q) ==
    phase[q] = "called" /\ Moves(q, "failed") /\ UNCHANGED <<op, value, got, reply>>

Replies(q) ==
    {"error"} \cup (IF phase[q] = "done" THEN {"ok"} ELSE {})
              \cup (IF phase[q] = "missed" \/ (phase[q] = "failed" /\ op[q] = "write")
                    THEN {"missing"} ELSE {})

Reply(q) ==
    /\ reply[q] = "none"
    /\ \E r \in Replies(q) : reply' = [reply EXCEPT ![q] = r]
    /\ UNCHANGED <<op, value, phase, got>>

Next ==
    \E q \in Request :
        Call(q) \/ Put(q) \/ Fetch(q) \/ Clear(q) \/ Miss(q) \/ Fail(q) \/ Reply(q)

Spec == Init /\ [][Next]_vars
=============================================================================
