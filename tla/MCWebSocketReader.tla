-------------------------- MODULE MCWebSocketReader --------------------------
(* The instance of WebSocketReader for TLC. *)
EXTENDS WebSocketReader

Text(fin, len) == [op |-> "text", fin |-> fin, len |-> len]
Cont(fin, len) == [op |-> "cont", fin |-> fin, len |-> len]
Ping  == [op |-> "ping", fin |-> TRUE, len |-> 0]
Close == [op |-> "close", fin |-> TRUE, len |-> 1]

\* Frames one after the other.
OnWire(s) ==
  LET end[f \in 0..Len(s)] == IF f = 0 THEN 0 ELSE end[f - 1] + 2 + s[f].len
  IN [f \in DOMAIN s |->
        [op |-> s[f].op, fin |-> s[f].fin, len |-> s[f].len, end |-> end[f]]]

\* Three orderly scripts, a ping after the fragments of a message, a farewell.
FiveScripts == {OnWire(s) : s \in {
  <<Text(FALSE, 1), Cont(FALSE, 0), Cont(TRUE, 2), Text(TRUE, 1)>>,
  <<Ping, Ping, Text(TRUE, 2), Close>>,
  <<Text(TRUE, 0), Ping, Text(FALSE, 1), Cont(TRUE, 1)>>,
  <<Text(FALSE, 1), Cont(TRUE, 1), Ping>>,
  <<Text(TRUE, 1), Text(TRUE, 1), Close>> }}
=============================================================================
