---------------------------- MODULE MCSupervisor ----------------------------
(***************************************************************************)
(* Instances of Supervisor for TLC.                                        *)
(***************************************************************************)
EXTENDS Supervisor, TLC

CONSTANTS a, b, c, c1, c2

Def(needs, port) == [needs |-> needs, port |-> port]

\* One service that needs nothing; the same with the port.
LoneDefs == {Def(<<>>, FALSE)}
PortDefs == {Def(<<>>, TRUE)}

\* A service alone, or one that needs the other.
LinkDefs == {Def(<<>>, FALSE), Def(<<a>>, FALSE)}

\* A service alone, with the port, or needing one of the two names, once or twice.
PairDefs == {Def(<<>>, FALSE), Def(<<>>, TRUE), Def(<<a>>, FALSE), Def(<<b>>, FALSE),
             Def(<<a, a>>, FALSE), Def(<<b, b>>, FALSE)}

\* A triangle: c needs a and b, and b needs a.
TriangleDefs == {Def(<<>>, FALSE), Def(<<a>>, FALSE), Def(<<a, b>>, FALSE)}

ClientSymmetry == Permutations({c1, c2})
PairSymmetry == Permutations({a, b})
=============================================================================
