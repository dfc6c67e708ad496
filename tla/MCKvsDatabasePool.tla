-------------------------- MODULE MCKvsDatabasePool --------------------------
(* Instances of KvsDatabasePool for TLC. *)
EXTENDS KvsDatabasePool, TLC

CONSTANTS c1, c2, redis, mongo, r1, r2, m1

TwoContexts == {c1, c2}

\* Redis with a connection for each thread and MongoDB with one.
BothTypes == {redis, mongo}
ThreeConns == {r1, r2, m1}
TypeOfName == [n \in {r1, r2, m1} |-> IF n = m1 THEN mongo ELSE redis]


Symmetry == Permutations({c1, c2}) \cup Permutations({r1, r2})
=============================================================================
