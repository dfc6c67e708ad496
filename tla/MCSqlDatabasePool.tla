-------------------------- MODULE MCSqlDatabasePool --------------------------
(* Instances of SqlDatabasePool for TLC. *)
EXTENDS SqlDatabasePool, TLC

CONSTANTS c1, c2, n1, n2, d1

TwoContexts == {c1, c2}
OneDb  == {d1}
TwoConns == {n1, n2}

Both     == BOOLEAN
OnlyTrue == {TRUE}

\* Both connections are to one database.
SameDb  == [n \in {n1, n2} |-> d1]
=============================================================================
