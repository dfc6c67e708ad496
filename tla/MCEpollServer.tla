--------------------------- MODULE MCEpollServer ---------------------------
(* Instances of EpollServer for TLC. *)
EXTENDS EpollServer, TLC

CONSTANTS s1, s2, w1, w2, w3, none

OneSock      == {s1}
TwoSocks     == {s1, s2}
TwoWorkers   == {w1, w2}
ThreeWorkers == {w1, w2, w3}

\* Sockets are interchangeable, and so are worker slots.
Symmetry == Permutations(Sock) \cup Permutations(Worker)
=============================================================================
