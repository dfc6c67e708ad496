--------------------------- MODULE SqlDatabasePool ---------------------------
(***************************************************************************)
(* TSqlDatabasePool, which lends SQL connections to threads, and its users:*)
(* TDatabaseContext with its TSqlTransaction, driven by the requests that  *)
(* TActionContext::execute() handles one after the other on a context.     *)
(* The two lock-free stacks of names of each database are multisets here:  *)
(* which of the pooled names a thread gets is left open.                   *)
(***************************************************************************)
EXTENDS Naturals

CONSTANTS
  Context,        \* TDatabaseContext objects (worker threads)
  DbId,           \* database ids, 0 .. sqlDatabaseSettingsCount()-1
  Conn,           \* connection names "rdb%02d_%d", maxConnects for each id
  getDatabaseId,  \* the database id in a connection name
  SessionDb,      \* database id of the SqlObject session store
  NoConn,         \* the invalid QSqlDatabase
  NoContext,      \* nobody
  SessionChoices,     \* what the controllers of the application answer to
  TransactionChoices  \* sessionEnabled() and transactionEnabled()

ASSUME PoolAssumption ==
  /\ getDatabaseId \in [Conn -> DbId]
  /\ SessionDb \in DbId
  /\ NoConn \notin Conn
  /\ NoContext \notin Context
  /\ SessionChoices \subseteq BOOLEAN
  /\ TransactionChoices \subseteq BOOLEAN

VARIABLES
  \* the pool
  availableNames,  \* [Conn -> Nat]: copies of the name in the stack
  cachedDatabase,  \* [Conn -> Nat]: copies of the name in the cache
  expired,         \* lastCachedTime[d] is more than 30 seconds ago
  timerPc, timerConn,
  \* the connections
  isOpen,
  inTransaction,   \* the DBMS has a transaction open on the connection
  unfinished,      \* ghost: its last COMMIT or ROLLBACK failed and left it open
  \* the contexts
  pc,
  ret,             \* where getSqlDatabase() returns to
  want,            \* the database id asked for
  name,            \* the local variable of database()
  sqlDatabases,    \* TDatabaseContext::sqlDatabases
  databases,       \* TSqlTransaction::databases
  enabled,         \* TSqlTransaction::enabled
  session,         \* the controller of this request uses sessions
  openFailed       \* ghost: an open() failed during this request

poolVars    == <<availableNames, cachedDatabase, expired, timerPc, timerConn>>
connVars    == <<isOpen, inTransaction, unfinished>>
controlVars == <<pc, ret, want, name>>
contextVars == <<sqlDatabases, databases, enabled, session, openFailed>>
vars == <<poolVars, connVars, controlVars, contextVars>>

Phases == {"idle", "enable", "action", "commit", "rollback", "store", "stored",
           "gc", "release", "pooled"}
DatabasePcs == {"cache", "unpool", "stack", "open", "openError", "begin"}

TypeOK ==
  /\ availableNames \in [Conn -> Nat]
  /\ cachedDatabase \in [Conn -> Nat]
  /\ expired \in [DbId -> BOOLEAN]
  /\ timerPc \in {"wait", "close", "push"}
  /\ timerConn \in Conn \cup {NoConn}
  /\ isOpen \in [Conn -> BOOLEAN]
  /\ inTransaction \in [Conn -> BOOLEAN]
  /\ unfinished \in [Conn -> BOOLEAN]
  /\ pc \in [Context -> Phases \cup DatabasePcs]
  /\ ret \in [Context -> Phases]
  /\ want \in [Context -> DbId]
  /\ name \in [Context -> Conn \cup {NoConn}]
  /\ sqlDatabases \in [Context -> [DbId -> Conn \cup {NoConn}]]
  /\ databases \in [Context -> [DbId -> Conn \cup {NoConn}]]
  /\ enabled \in [Context -> BOOLEAN]
  /\ session \in [Context -> BOOLEAN]
  /\ openFailed \in [Context -> BOOLEAN]

Init ==
  /\ availableNames = [n \in Conn |-> 1]
  /\ cachedDatabase = [n \in Conn |-> 0]
  /\ expired = [d \in DbId |-> TRUE]
  /\ timerPc = "wait" /\ timerConn = NoConn
  /\ isOpen = [n \in Conn |-> FALSE]
  /\ inTransaction = [n \in Conn |-> FALSE]
  /\ unfinished = [n \in Conn |-> FALSE]
  /\ pc = [c \in Context |-> "idle"]
  /\ ret = [c \in Context |-> "idle"]
  /\ want = [c \in Context |-> SessionDb]
  /\ name = [c \in Context |-> NoConn]
  /\ sqlDatabases = [c \in Context |-> [d \in DbId |-> NoConn]]
  /\ databases = [c \in Context |-> [d \in DbId |-> NoConn]]
  /\ enabled = [c \in Context |-> TRUE]
  /\ session = [c \in Context |-> FALSE]
  /\ openFailed = [c \in Context |-> FALSE]

-----------------------------------------------------------------------------
(* Helpers *)

Goto(c, p) == pc' = [pc EXCEPT ![c] = p]

push(stack, n) == [stack EXCEPT ![n] = @ + 1]

\* TStack::pop(): any name of database d that is in the stack.
Poppable(stack, d) == {n \in Conn : stack[n] > 0 /\ getDatabaseId[n] = d}
pop_Top(stack, n) == stack            \* mutant: leaves the name in the stack
pop(stack, n) == [stack EXCEPT ![n] = @ - 1]

Holds(c, d) == sqlDatabases[c][d] # NoConn

\* database() returns to getSqlDatabase(); its locals are gone.
Return(c) ==
  /\ Goto(c, ret[c])
  /\ name' = [name EXCEPT ![c] = NoConn]
  /\ ret' = [ret EXCEPT ![c] = "idle"]
  /\ want' = [want EXCEPT ![c] = SessionDb]

\* getSqlDatabase(d), to go on at r: an invalid handle is asked of the pool.
getSqlDatabase(c, d, r) ==
  IF Holds(c, d)
  THEN Goto(c, r) /\ UNCHANGED <<ret, want, name>>
  ELSE /\ Goto(c, "cache")
       /\ ret' = [ret EXCEPT ![c] = r]
       /\ want' = [want EXCEPT ![c] = d]
       /\ UNCHANGED name

-----------------------------------------------------------------------------
(* TSqlDatabasePool::database() *)

\* cache.pop(): an open connection is taken, another goes to the names.
PopCache(c) ==
  /\ pc[c] = "cache"
  /\ \/ \E n \in Poppable(cachedDatabase, want[c]) :
          /\ cachedDatabase' = pop(cachedDatabase, n)
          /\ name' = [name EXCEPT ![c] = n]
          /\ Goto(c, IF isOpen[n] THEN "begin" ELSE "unpool")
     \/ /\ Poppable(cachedDatabase, want[c]) = {}
        /\ Goto(c, "stack")
        /\ UNCHANGED <<cachedDatabase, name>>
  /\ UNCHANGED <<availableNames, expired, timerPc, timerConn, connVars, ret, want,
                 contextVars>>

\* "Pooled database is not open"
Unpool(c) ==
  /\ pc[c] = "unpool"
  /\ availableNames' = push(availableNames, name[c])
  /\ name' = [name EXCEPT ![c] = NoConn]
  /\ Goto(c, "cache")
  /\ UNCHANGED <<cachedDatabase, expired, timerPc, timerConn, connVars, ret, want,
                 contextVars>>

\* stack.pop(); when both stacks are empty the loop starts again.
PopStack(c) ==
  /\ pc[c] = "stack"
  /\ \/ \E n \in Poppable(availableNames, want[c]) :
          /\ availableNames' = pop(availableNames, n)
          /\ name' = [name EXCEPT ![c] = n]
          /\ Goto(c, IF isOpen[n] THEN "begin" ELSE "open")
     \/ /\ Poppable(availableNames, want[c]) = {}
        /\ Goto(c, "cache")
        /\ UNCHANGED <<availableNames, name>>
  /\ UNCHANGED <<cachedDatabase, expired, timerPc, timerConn, connVars, ret, want,
                 contextVars>>

\* QSqlDatabase::open() and the setup queries
Open(c) ==
  /\ pc[c] = "open"
  /\ \/ /\ isOpen' = [isOpen EXCEPT ![name[c]] = TRUE]
        /\ Goto(c, "begin")
        /\ UNCHANGED openFailed
     \/ /\ Goto(c, "openError")
        /\ openFailed' = [openFailed EXCEPT ![c] = TRUE]
        /\ UNCHANGED isOpen
  /\ UNCHANGED <<poolVars, inTransaction, unfinished, ret, want, name,
                 sqlDatabases, databases, enabled, session>>

\* "Database open error": the name goes back, the caller gets an invalid handle.
returnName_Lost(c) == availableNames              \* mutant
returnName(c) == push(availableNames, name[c])

OpenError(c) ==
  /\ pc[c] = "openError"
  /\ availableNames' = returnName(c)
  /\ Return(c)
  /\ UNCHANGED <<cachedDatabase, expired, timerPc, timerConn, connVars, contextVars>>

\* databases[id] = database
recorded_Dropped(c) == NoConn                        \* mutant
recorded(c) == name[c]

\* Back in getSqlDatabase(): the handle is kept and TSqlTransaction::begin()
\* called. It records the handle even if BEGIN fails.
BeginTransaction(c) ==
  /\ pc[c] = "begin"
  /\ sqlDatabases' = [sqlDatabases EXCEPT ![c][want[c]] = name[c]]
  /\ Return(c)
  /\ IF enabled[c] /\ databases[c][want[c]] = NoConn
     THEN /\ databases' = [databases EXCEPT ![c][want[c]] = recorded(c)]
          /\ \E begun \in BOOLEAN :
               inTransaction' = [inTransaction EXCEPT ![name[c]] = @ \/ begun]
     ELSE UNCHANGED <<databases, inTransaction>>
  /\ UNCHANGED <<poolVars, isOpen, unfinished, enabled, session, openFailed>>

-----------------------------------------------------------------------------
(* The timer of the pool, in the main thread: timerEvent() *)

\* Thirty seconds without a call of pool().
Expire(d) ==
  /\ ~expired[d]
  /\ expired' = [expired EXCEPT ![d] = TRUE]
  /\ UNCHANGED <<availableNames, cachedDatabase, timerPc, timerConn, connVars,
                 controlVars, contextVars>>

TimerPop(d) ==
  /\ timerPc = "wait" /\ expired[d]
  /\ \E n \in Poppable(cachedDatabase, d) :
       /\ cachedDatabase' = pop(cachedDatabase, n)
       /\ timerConn' = n
  /\ timerPc' = "close"
  /\ UNCHANGED <<availableNames, expired, connVars, controlVars, contextVars>>

close(n) ==
  /\ isOpen' = [isOpen EXCEPT ![n] = FALSE]
  /\ inTransaction' = [inTransaction EXCEPT ![n] = FALSE]
  /\ unfinished' = [unfinished EXCEPT ![n] = FALSE]

TimerClose ==
  /\ timerPc = "close"
  /\ close(timerConn)
  /\ timerPc' = "push"
  /\ UNCHANGED <<availableNames, cachedDatabase, expired, timerConn, controlVars,
                 contextVars>>

TimerPush ==
  /\ timerPc = "push"
  /\ availableNames' = push(availableNames, timerConn)
  /\ timerConn' = NoConn /\ timerPc' = "wait"
  /\ UNCHANGED <<cachedDatabase, expired, connVars, controlVars, contextVars>>

-----------------------------------------------------------------------------
(* A request on a context: TActionContext::execute() and release() *)

\* A new thread or worker: a new context. Transactions are enabled.
NewContext(c) ==
  /\ pc[c] = "idle" /\ ~enabled[c]
  /\ enabled' = [enabled EXCEPT ![c] = TRUE]
  /\ UNCHANGED <<poolVars, connVars, controlVars, sqlDatabases, databases, session,
                 openFailed>>

\* With a session the session store is asked first, for the session of the
\* cookie or, in generateId(), for a clash of the new id.
LookUpSession_CookieOnly(c) ==      \* mutant: a new id is not looked up
  \E lookup \in BOOLEAN :
    IF lookup THEN getSqlDatabase(c, SessionDb, "enable")
    ELSE Goto(c, "enable") /\ UNCHANGED <<ret, want, name>>
LookUpSession(c) == getSqlDatabase(c, SessionDb, "enable")

StartRequest(c) ==
  /\ pc[c] = "idle"
  /\ \E s \in SessionChoices :
       /\ session' = [session EXCEPT ![c] = s]
       /\ IF s THEN LookUpSession(c)
          ELSE Goto(c, "enable") /\ UNCHANGED <<ret, want, name>>
  /\ UNCHANGED <<poolVars, connVars, sqlDatabases, databases, enabled, openFailed>>

\* setTransactionEnabled(currController->transactionEnabled())
SetTransactionEnabled(c) ==
  /\ pc[c] = "enable"
  /\ \E e \in TransactionChoices : enabled' = [enabled EXCEPT ![c] = e]
  /\ Goto(c, "action")
  /\ UNCHANGED <<poolVars, connVars, ret, want, name, sqlDatabases, databases,
                 session, openFailed>>

\* The action uses database d.
UseDatabase(c, d) ==
  /\ pc[c] = "action" /\ ~Holds(c, d)
  /\ getSqlDatabase(c, d, "action")
  /\ UNCHANGED <<poolVars, connVars, contextVars>>

\* The action closes the connection it was given; the DBMS rolls back.
ActionCloses(c, d) ==
  /\ pc[c] = "action" /\ Holds(c, d) /\ isOpen[sqlDatabases[c][d]]
  /\ close(sqlDatabases[c][d])
  /\ UNCHANGED <<poolVars, controlVars, contextVars>>

\* The action returns; or the filter rejects it, so that nothing is committed.
ReturnFromAction(c) ==
  /\ pc[c] = "action"
  /\ \E p \in {"commit", "rollback", "gc"} : Goto(c, p)
  /\ UNCHANGED <<poolVars, connVars, ret, want, name, contextVars>>

\* An exception: from the action, the session store or the session lookup.
Throw(c) ==
  /\ pc[c] \in {"enable", "action", "stored"}
  /\ Goto(c, "release")
  /\ UNCHANGED <<poolVars, connVars, ret, want, name, contextVars>>

\* TSqlTransaction::commit(d) or rollback(d). When it fails the DBMS may have
\* ended the transaction or not; the handle is reset in both cases.
EndTransaction(c, d) ==
  /\ databases[c][d] # NoConn
  /\ LET n == databases[c][d] IN
       \E left \in {FALSE, inTransaction[n]} :
         /\ inTransaction' = [inTransaction EXCEPT ![n] = left]
         /\ unfinished' = [unfinished EXCEPT ![n] = left]
  /\ databases' = [databases EXCEPT ![c][d] = NoConn]

AllEnded(c) == \A d \in DbId : databases[c][d] = NoConn

\* commitAll() or rollbackAll(), one database after the other
CommitOrRollback(c) ==
  /\ pc[c] \in {"commit", "rollback"}
  /\ \/ \E d \in DbId : EndTransaction(c, d)
        /\ UNCHANGED pc
     \/ /\ AllEnded(c)
        /\ Goto(c, IF session[c] THEN "store" ELSE "gc")
        /\ UNCHANGED <<inTransaction, unfinished, databases>>
  /\ UNCHANGED <<poolVars, isOpen, ret, want, name, sqlDatabases, enabled, session,
                 openFailed>>

\* TSessionManager::store()
StoreSession(c) ==
  /\ pc[c] = "store"
  /\ getSqlDatabase(c, SessionDb, "stored")
  /\ UNCHANGED <<poolVars, connVars, contextVars>>

SessionStored(c) ==
  /\ pc[c] = "stored"
  /\ Goto(c, "gc")
  /\ UNCHANGED <<poolVars, connVars, ret, want, name, contextVars>>

\* collectGarbage(), with some probability
CollectGarbage(c) ==
  /\ pc[c] = "gc"
  /\ \/ getSqlDatabase(c, SessionDb, "release")
     \/ Goto(c, "release") /\ UNCHANGED <<ret, want, name>>
  /\ UNCHANGED <<poolVars, connVars, contextVars>>

\* release(): rollbackTransactions() first ...
MayPool_Early(c) == TRUE                             \* mutant: no rollback
MayPool(c) == AllEnded(c)

ReleaseRollback(c) ==
  /\ pc[c] = "release"
  /\ \E d \in DbId : EndTransaction(c, d)
  /\ UNCHANGED <<poolVars, isOpen, controlVars, sqlDatabases, enabled, session,
                 openFailed>>

\* ... then pool() for each handle: the name is in the cache ...
Pool(c, d) ==
  /\ pc[c] = "release" /\ MayPool(c) /\ Holds(c, d)
  /\ cachedDatabase' = push(cachedDatabase, sqlDatabases[c][d])
  /\ sqlDatabases' = [sqlDatabases EXCEPT ![c][d] = NoConn]
  /\ want' = [want EXCEPT ![c] = d]
  /\ Goto(c, "pooled")
  /\ UNCHANGED <<availableNames, expired, timerPc, timerConn, connVars, ret, name,
                 databases, enabled, session, openFailed>>

\* ... before lastCachedTime is set.
SetLastCachedTime(c) ==
  /\ pc[c] = "pooled"
  /\ expired' = [expired EXCEPT ![want[c]] = FALSE]
  /\ want' = [want EXCEPT ![c] = SessionDb]
  /\ Goto(c, "release")
  /\ UNCHANGED <<availableNames, cachedDatabase, timerPc, timerConn, connVars, ret,
                 name, contextVars>>

EndRequest(c) ==
  /\ pc[c] = "release" /\ AllEnded(c) /\ \A d \in DbId : ~Holds(c, d)
  /\ Goto(c, "idle")
  /\ session' = [session EXCEPT ![c] = FALSE]
  /\ openFailed' = [openFailed EXCEPT ![c] = FALSE]
  /\ UNCHANGED <<poolVars, connVars, ret, want, name, sqlDatabases, databases, enabled>>

-----------------------------------------------------------------------------
database(c) ==
  PopCache(c) \/ Unpool(c) \/ PopStack(c) \/ Open(c) \/ OpenError(c)
    \/ BeginTransaction(c)

\* What a thread does by itself; it may stay in an action, or idle, for ever.
Proceed(c) ==
  \/ database(c)
  \/ CommitOrRollback(c) \/ StoreSession(c) \/ SessionStored(c) \/ CollectGarbage(c)
  \/ ReleaseRollback(c) \/ (\E d \in DbId : Pool(c, d)) \/ SetLastCachedTime(c)
  \/ EndRequest(c)

Request(c) ==
  \/ NewContext(c) \/ StartRequest(c) \/ SetTransactionEnabled(c)
  \/ \E d \in DbId : UseDatabase(c, d) \/ ActionCloses(c, d)
  \/ ReturnFromAction(c) \/ Throw(c)

Timer == TimerClose \/ TimerPush

Next ==
  \/ \E c \in Context : Proceed(c) \/ Request(c)
  \/ \E d \in DbId : Expire(d) \/ TimerPop(d)
  \/ Timer

Spec == Init /\ [][Next]_vars

Fairness ==
  /\ \A c \in Context : WF_vars(Proceed(c))
  /\ WF_vars(Timer)

FairSpec == Spec /\ Fairness

-----------------------------------------------------------------------------
(* Properties *)

InPool(n) == availableNames[n] + cachedDatabase[n]

Uses(c, n) == name[c] = n \/ sqlDatabases[c][getDatabaseId[n]] = n

AtOnePlace(n) ==
  /\ InPool(n) <= 1
  /\ InPool(n) = 1 => timerConn # n /\ \A c \in Context : ~Uses(c, n)
  /\ timerConn = n => \A c \in Context : ~Uses(c, n)
  /\ \A b, c \in Context : Uses(b, n) /\ Uses(c, n) => b = c
  /\ InPool(n) = 1 \/ timerConn = n \/ \E c \in Context : Uses(c, n)

\* Every connection name is at exactly one place: once in one of the stacks,
\* or in the hands of one thread. It is never lent twice and never lost,
\* whatever fails on the way.
NameInOnePlace == \A n \in Conn : AtOnePlace(n)

\* A connection in the stack of available names is closed: the timer closes it
\* before it gives the name back, so idle connections do not stay open unseen.
AvailableClosed ==
  \A n \in Conn : availableNames[n] > 0 => ~isOpen[n] /\ ~inTransaction[n]

\* A pooled connection has no transaction open, however the request ended,
\* unless the DBMS refused the COMMIT or ROLLBACK.
PooledWithoutTransaction ==
  \A n \in Conn : InPool(n) > 0 /\ inTransaction[n] => unfinished[n]

\* TSqlTransaction only has connections that its context still holds: it never
\* ends the transaction of another thread.
TransactionOfHolder ==
  \A c \in Context, d \in DbId :
    databases[c][d] # NoConn => databases[c][d] = sqlDatabases[c][d]

\* The session is stored after the transaction of the action was committed; it
\* is not part of another one, which release() would roll back: the lookup of
\* the session made the connection begin its transaction before the action.
SessionStoredDurably ==
  \A c \in Context :
    pc[c] = "stored" /\ ~openFailed[c] => databases[c][SessionDb] = NoConn

\* transaction.md:10: the framework starts the transaction just before the
\* action. During an action with transactions enabled, every connection the
\* context holds is in the hands of TSqlTransaction. (Not so with mixed settings:
\* README, section 5.)
ActionInTransaction ==
  \A c \in Context, d \in DbId :
    pc[c] = "action" /\ enabled[c] /\ Holds(c, d) => databases[c][d] = sqlDatabases[c][d]

\* With no more contexts than connections per database, the busy loop of
\* database() is lock-free: while a thread is in it, some thread gets a name.
\* (One thread can lose every race: the loop looks at one stack, then at the
\* other, and a name may move between them.)
SomeoneServed ==
  (\E c \in Context : pc[c] \in {"cache", "stack"})
    ~> (\E c \in Context : pc[c] \in {"open", "begin"})

(* The pool implements the lease of connections. *)

holderOf(n) ==
  IF \E c \in Context : sqlDatabases[c][getDatabaseId[n]] = n
  THEN CHOOSE c \in Context : sqlDatabases[c][getDatabaseId[n]] = n
  ELSE NoContext

Lease == INSTANCE ConnectionLease WITH holder <- [n \in Conn |-> holderOf(n)]

LeaseSpec == Lease!Spec
=============================================================================
