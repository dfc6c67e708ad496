----------------------------- MODULE MCSystemBus -----------------------------
(* Instances of SystemBus for TLC: two servers with a websocket each.        *)
EXTENDS SystemBus, TLC

CONSTANTS p1, p2, s1, s2
Servers == {p1, p2}
WebSockets == {s1, s2}
OneEach == s1 :> p1 @@ s2 :> p2
BothFlags == {"local", "others"}
=============================================================================
