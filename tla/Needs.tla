------------------------------- MODULE Needs -------------------------------
(***************************************************************************)
(* The two traversals of the `needs` graph in internal/agent/services.go,  *)
(* as operators over a graph: `known` is the set of defined names (the     *)
(* keys of Supervisor.services) and needs[n] the sequence of names in n's  *)
(* definition, in the order of the JSON list.                              *)
(*                                                                         *)
(* HasCycle is the check Define makes before it accepts a redefinition;    *)
(* StartWalk is what startLocked visits when a service is started.  Both   *)
(* carry a set of visited names; HasCycle forgets a name when it leaves    *)
(* it, StartWalk never does.  Acyclic is the reference definition, which   *)
(* neither of them uses.                                                   *)
(***************************************************************************)
EXTENDS Naturals, Sequences, Functions

(***************************************************************************)
(* hasCycle(name, seen): true when the walk meets a name already on its    *)
(* path.  A name that is not defined ends the path.                        *)
(***************************************************************************)
HasCycle(known, needs, name) ==
    LET visit[at \in known \X SUBSET known] ==
            LET n == at[1]
                seen == at[2]
            IN  \/ n \in seen
                \/ \E m \in Range(needs[n]) \cap known : visit[<<m, seen \cup {n}>>]
    IN  name \in known /\ visit[<<name, {}>>]

(***************************************************************************)
(* startLocked(name, visiting): the needs first, in order, then the        *)
(* service itself; the first error ends the walk.  `broken` is the set of  *)
(* names whose launch fails in this walk.  The result says whether the     *)
(* call succeeds and which names it got as far as starting (wantRunning is *)
(* set and, unless it runs already, the process is launched).  `seen` is   *)
(* the map `visiting` the recursive calls share: a name is added on entry  *)
(* and never removed.  visit[<<n, i, seen>>] is the rest of the call for   *)
(* n, from the i-th of its needs on.                                       *)
(***************************************************************************)
StartWalk(known, needs, broken, name) ==
    LET refused(seen) == [ok |-> FALSE, seen |-> seen, reached |-> {}]
        visit[at \in known \X (Nat \ {0}) \X SUBSET known] ==
            LET n == at[1]
                i == at[2]
                seen == at[3] \cup {n}
                m == needs[n][i]
                need == IF m \in known \ seen THEN visit[<<m, 1, seen>>] ELSE refused(seen)
                rest == visit[<<n, i + 1, need.seen>>]
            IN  IF i > Len(needs[n])
                THEN [ok |-> n \notin broken, seen |-> seen, reached |-> {n}]
                ELSE IF need.ok THEN [rest EXCEPT !.reached = @ \cup need.reached]
                ELSE need
    IN  IF name \in known THEN visit[<<name, 1, {}>>] ELSE refused({})

(***************************************************************************)
(* Reference definition: no name needs itself, directly or through others. *)
(* Among any of the names, one needs none of them.                         *)
(***************************************************************************)
Acyclic(known, needs) ==
    \A some \in SUBSET known :
        some # {} => \E n \in some : Range(needs[n]) \cap some = {}

(***************************************************************************)
(* The needs of a name form a tree: they all exist, none of them is needed *)
(* twice, and none needs the name itself.                                  *)
(***************************************************************************)
IsTree(known, needs, name) ==
    \E some \in SUBSET known :
        /\ name \in some
        /\ \A x \in some : Range(needs[x]) \subseteq some \ {name}
        /\ \A x, y \in some : \A i \in DOMAIN needs[x], j \in DOMAIN needs[y] :
              needs[x][i] = needs[y][j] => x = y /\ i = j
=============================================================================
