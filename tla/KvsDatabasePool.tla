--------------------------- MODULE KvsDatabasePool ---------------------------
(***************************************************************************)
(* TKvsDatabasePool, which lends Redis and MongoDB connections to threads, *)
(* and TDatabaseContext::getKvsDatabase() and releaseKvsDatabases(). Only  *)
(* the types that the application configures are modelled: for the others  *)
(* database() returns an invalid handle at once. The two lock-free stacks  *)
(* of names of a type are multisets: which name a thread pops is left open.*)
(***************************************************************************)
EXTENDS Naturals

CONSTANTS
  Context,   \* TDatabaseContext objects (worker threads)
  Type,      \* TKvsDatabase::Type, those that are available
  Conn,      \* connection names "kvs%02d_%d", maxConnects for each type
  typeOf,    \* the type of a connection name
  NoConn,    \* the invalid TKvsDatabase
  NoContext  \* nobody

ASSUME KvsAssumption ==
  /\ typeOf \in [Conn -> Type]
  /\ NoConn \notin Conn
  /\ NoContext \notin Context

VARIABLES
  availableNames,  \* [Conn -> Nat]: copies of the name in the stack
  cachedDatabase,  \* [Conn -> Nat]: copies of the name in the cache
  expired,         \* lastCachedTime[t] is more than 30 seconds ago
  timerPc, timerConn,
  isOpen,          \* the driver of the connection is connected
  lost,            \* ghost: names whose open() failed
  pc,
  type,            \* the argument of database()
  name,            \* the local variable of database()
  kvsDatabases     \* TDatabaseContext::kvsDatabases

poolVars  == <<availableNames, cachedDatabase>>
timerVars == <<expired, timerPc, timerConn>>
connVars  == <<isOpen, lost>>
contextVars == <<pc, type, name, kvsDatabases>>
vars == <<poolVars, timerVars, connVars, contextVars>>

Pcs == {"action", "cache", "unpool", "stack", "open", "lent", "release", "pooled"}

TypeOK ==
  /\ availableNames \in [Conn -> Nat]
  /\ cachedDatabase \in [Conn -> Nat]
  /\ expired \in [Type -> BOOLEAN]
  /\ timerPc \in {"wait", "close", "push"}
  /\ timerConn \in Conn \cup {NoConn}
  /\ isOpen \in [Conn -> BOOLEAN]
  /\ lost \subseteq Conn
  /\ pc \in [Context -> Pcs]
  /\ type \in [Context -> Type]
  /\ name \in [Context -> Conn \cup {NoConn}]
  /\ kvsDatabases \in [Context -> [Type -> Conn \cup {NoConn}]]

Init ==
  /\ availableNames = [n \in Conn |-> 1]
  /\ cachedDatabase = [n \in Conn |-> 0]
  /\ expired = [t \in Type |-> TRUE]
  /\ timerPc = "wait" /\ timerConn = NoConn
  /\ isOpen = [n \in Conn |-> FALSE]
  /\ lost = {}
  /\ pc = [c \in Context |-> "action"]
  /\ type \in [Context -> Type]
  /\ name = [c \in Context |-> NoConn]
  /\ kvsDatabases = [c \in Context |-> [t \in Type |-> NoConn]]

-----------------------------------------------------------------------------
Goto(c, p) == pc' = [pc EXCEPT ![c] = p]

Holds(c, t) == kvsDatabases[c][t] # NoConn

push(stack, n) == [stack EXCEPT ![n] = @ + 1]
pop_Top(stack, n) == stack                 \* mutant: the name stays in the stack
pop(stack, n) == [stack EXCEPT ![n] = @ - 1]

\* TStack::pop(): any name of type t that is in the stack.
Poppable(stack, t) == {n \in Conn : stack[n] > 0 /\ typeOf[n] = t}

-----------------------------------------------------------------------------
(* database(), as getKvsDatabase() calls it *)

\* An action uses the KVS of type t for the first time in a request.
UseKvs(c, t) ==
  /\ pc[c] = "action" /\ ~Holds(c, t)
  /\ type' = [type EXCEPT ![c] = t]
  /\ Goto(c, "cache")
  /\ UNCHANGED <<poolVars, timerVars, connVars, name, kvsDatabases>>

\* cache.pop(): an open connection is lent, another goes to the names.
PopCache(c) ==
  /\ pc[c] = "cache"
  /\ \/ \E n \in Poppable(cachedDatabase, type[c]) :
          /\ cachedDatabase' = pop(cachedDatabase, n)
          /\ name' = [name EXCEPT ![c] = n]
          /\ Goto(c, IF isOpen[n] THEN "lent" ELSE "unpool")
     \/ /\ Poppable(cachedDatabase, type[c]) = {}
        /\ Goto(c, "stack")
        /\ UNCHANGED <<cachedDatabase, name>>
  /\ UNCHANGED <<availableNames, timerVars, connVars, type, kvsDatabases>>

\* "Pooled database is not open"
unpooled_Lost(c) == availableNames                             \* mutant
unpooled(c) == push(availableNames, name[c])

Unpool(c) ==
  /\ pc[c] = "unpool"
  /\ availableNames' = unpooled(c)
  /\ name' = [name EXCEPT ![c] = NoConn]
  /\ Goto(c, "cache")
  /\ UNCHANGED <<cachedDatabase, timerVars, connVars, type, kvsDatabases>>

\* stack.pop(); when both stacks are empty the loop starts again.
PopStack(c) ==
  /\ pc[c] = "stack"
  /\ \/ \E n \in Poppable(availableNames, type[c]) :
          /\ availableNames' = pop(availableNames, n)
          /\ name' = [name EXCEPT ![c] = n]
          /\ Goto(c, IF isOpen[n] THEN "lent" ELSE "open")
     \/ /\ Poppable(availableNames, type[c]) = {}
        /\ Goto(c, "cache")
        /\ UNCHANGED <<availableNames, name>>
  /\ UNCHANGED <<cachedDatabase, timerVars, connVars, type, kvsDatabases>>

\* db.open(). When it fails an invalid handle is returned; the name is not pushed.
Open(c) ==
  /\ pc[c] = "open"
  /\ \/ /\ isOpen' = [isOpen EXCEPT ![name[c]] = TRUE]
        /\ Goto(c, "lent")
        /\ UNCHANGED <<lost, name>>
     \/ /\ lost' = lost \cup {name[c]}
        /\ name' = [name EXCEPT ![c] = NoConn]
        /\ Goto(c, "action")
        /\ UNCHANGED isOpen
  /\ UNCHANGED <<poolVars, timerVars, type, kvsDatabases>>

\* Back in getKvsDatabase(): the handle is kept.
Keep(c) ==
  /\ pc[c] = "lent"
  /\ kvsDatabases' = [kvsDatabases EXCEPT ![c][type[c]] = name[c]]
  /\ name' = [name EXCEPT ![c] = NoConn]
  /\ Goto(c, "action")
  /\ UNCHANGED <<poolVars, timerVars, connVars, type>>

-----------------------------------------------------------------------------
(* pool(), as releaseKvsDatabases() calls it *)

Release(c) ==
  /\ pc[c] = "action" /\ \E t \in Type : Holds(c, t)
  /\ Goto(c, "release")
  /\ UNCHANGED <<poolVars, timerVars, connVars, type, name, kvsDatabases>>

\* The name is in the cache before lastCachedTime is set.
Pool(c, t) ==
  /\ pc[c] = "release" /\ Holds(c, t)
  /\ cachedDatabase' = push(cachedDatabase, kvsDatabases[c][t])
  /\ kvsDatabases' = [kvsDatabases EXCEPT ![c][t] = NoConn]
  /\ type' = [type EXCEPT ![c] = t]
  /\ Goto(c, "pooled")
  /\ UNCHANGED <<availableNames, timerVars, connVars, name>>

SetLastCachedTime(c) ==
  /\ pc[c] = "pooled"
  /\ expired' = [expired EXCEPT ![type[c]] = FALSE]
  /\ Goto(c, IF \E t \in Type : Holds(c, t) THEN "release" ELSE "action")
  /\ UNCHANGED <<poolVars, timerPc, timerConn, connVars, type, name, kvsDatabases>>

-----------------------------------------------------------------------------
(* timerEvent(), in the main thread *)

\* Thirty seconds without a call of pool().
Expire(t) ==
  /\ ~expired[t]
  /\ expired' = [expired EXCEPT ![t] = TRUE]
  /\ UNCHANGED <<poolVars, timerPc, timerConn, connVars, contextVars>>

TimerPop(t) ==
  /\ timerPc = "wait" /\ expired[t]
  /\ \E n \in Poppable(cachedDatabase, t) :
       /\ cachedDatabase' = pop(cachedDatabase, n)
       /\ timerConn' = n
  /\ timerPc' = "close"
  /\ UNCHANGED <<availableNames, expired, connVars, contextVars>>

closed(n) == [isOpen EXCEPT ![n] = FALSE]

TimerClose ==
  /\ timerPc = "close"
  /\ isOpen' = closed(timerConn)
  /\ timerPc' = "push"
  /\ UNCHANGED <<poolVars, expired, timerConn, lost, contextVars>>

TimerPush ==
  /\ timerPc = "push"
  /\ availableNames' = push(availableNames, timerConn)
  /\ timerConn' = NoConn /\ timerPc' = "wait"
  /\ UNCHANGED <<cachedDatabase, expired, connVars, contextVars>>

\* The server drops a connection, lent or pooled.
Disconnect(n) ==
  /\ isOpen[n]
  /\ isOpen' = [isOpen EXCEPT ![n] = FALSE]
  /\ UNCHANGED <<poolVars, timerVars, lost, contextVars>>

-----------------------------------------------------------------------------
database(c) == PopCache(c) \/ Unpool(c) \/ PopStack(c) \/ Open(c) \/ Keep(c)

\* What a thread does by itself: database() and the release at the end of a request.
Proceed(c) ==
  database(c) \/ Release(c) \/ (\E t \in Type : Pool(c, t)) \/ SetLastCachedTime(c)

Timer == TimerClose \/ TimerPush

Next ==
  \/ \E c \in Context : Proceed(c) \/ \E t \in Type : UseKvs(c, t)
  \/ \E t \in Type : Expire(t) \/ TimerPop(t)
  \/ Timer
  \/ \E n \in Conn : Disconnect(n)

Spec == Init /\ [][Next]_vars

Fairness == (\A c \in Context : WF_vars(Proceed(c))) /\ WF_vars(Timer)

FairSpec == Spec /\ Fairness

-----------------------------------------------------------------------------
(* Properties *)

InPool(n) == availableNames[n] + cachedDatabase[n]

Uses(c, n) == name[c] = n \/ \E t \in Type : kvsDatabases[c][t] = n

\* A name is in one of the stacks, with the timer, in the hands of one thread, or lost.
AtOnePlace(n) ==
  /\ InPool(n) <= 1
  /\ InPool(n) = 1 \/ n \in lost => timerConn # n /\ \A c \in Context : ~Uses(c, n)
  /\ timerConn = n => \A c \in Context : ~Uses(c, n)
  /\ \A b, c \in Context : Uses(b, n) /\ Uses(c, n) => b = c
  /\ n \in lost <=>
       ~(InPool(n) = 1 \/ timerConn = n \/ \E c \in Context : Uses(c, n))

\* Every connection name is at one place: in one of the stacks, with the timer or
\* in the hands of one thread. The only names that are nowhere are those whose
\* open() failed, and they are gone for good.
NameInOnePlace == \A n \in Conn : AtOnePlace(n)

\* A connection in the stack of available names is closed, so that idle
\* connections do not stay open unseen.
AvailableClosed == \A n \in Conn : availableNames[n] > 0 => ~isOpen[n]

\* With no more contexts than connections of a type, the busy loop of database()
\* ends: while a thread is in it, some thread gets a connection, or open() fails.
\* The statement after the loop, "No pooled connection", would be the other way
\* out (tkvsdatabasepool.cpp:226). (Names that are lost refute it: README, section 5.)
SomeoneServed ==
  (\E c \in Context : pc[c] \in {"cache", "stack"})
    ~> (\E c \in Context : pc[c] \in {"open", "lent"})

(* The pool implements the lease of connections. *)

holderOf(n) ==
  IF \E c \in Context : kvsDatabases[c][typeOf[n]] = n
  THEN CHOOSE c \in Context : kvsDatabases[c][typeOf[n]] = n
  ELSE NoContext

Lease == INSTANCE ConnectionLease WITH
  DbId <- Type, getDatabaseId <- typeOf, holder <- [n \in Conn |-> holderOf(n)]

\* A connection is lent to one context at a time, and a context has at most one
\* of each type, whatever the timer, open() and the server do.
LeaseSpec == Lease!Spec
=============================================================================
