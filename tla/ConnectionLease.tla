--------------------------- MODULE ConnectionLease ---------------------------
(***************************************************************************)
(* What a database pool promises to its users (tsqldatabasepool.h:23-24):  *)
(* database() lends a connection that nobody else has, at most one of each *)
(* database to a context, and pool() gives it back.                        *)
(***************************************************************************)
CONSTANTS
  Context,        \* the database contexts of the threads
  Conn,           \* the connection names
  DbId,           \* the databases
  getDatabaseId,  \* the database of a connection name
  NoContext

VARIABLE holder   \* who has the connection

TypeOK == holder \in [Conn -> Context \cup {NoContext}]

Init == holder = [n \in Conn |-> NoContext]

\* database() returns connection n to context c.
Lend(c, n) ==
  /\ holder[n] = NoContext
  /\ \A m \in Conn : getDatabaseId[m] = getDatabaseId[n] => holder[m] # c
  /\ holder' = [holder EXCEPT ![n] = c]

\* pool() takes n back.
GiveBack(n) ==
  /\ holder[n] # NoContext
  /\ holder' = [holder EXCEPT ![n] = NoContext]

Next == \E n \in Conn : GiveBack(n) \/ \E c \in Context : Lend(c, n)

Spec == Init /\ [][Next]_holder
=============================================================================
