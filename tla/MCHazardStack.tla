---------------------------- MODULE MCHazardStack ----------------------------
(* Instances of HazardStack for TLC. *)
EXTENDS HazardStack

CONSTANTS t1, t2, n1, n2, r1, r2

TwoThreads == {t1, t2}
TwoNodes   == {n1, n2}
TwoRecs    == {r1, r2}

\* Bound: what follows the first ABA is not searched (it is 1.9 million states more).
UntilAba == ~aba
=============================================================================
