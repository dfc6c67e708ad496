--------------------------- MODULE MCServerManager ---------------------------
(* Instances of ServerManager for TLC: one process more than servers, since  *)
(* a server is replaced before its QProcess is deleted.                      *)
EXTENDS ServerManager

CONSTANTS p1, p2, p3, p4
FourProcs == {p1, p2, p3, p4}
=============================================================================
