------------------------ MODULE SqlDatabasePoolProofs ------------------------
(***************************************************************************)
(* Proofs about SqlDatabasePool for every set of contexts, databases and   *)
(* connections: each connection name is at exactly one place, transactions *)
(* are only those of connections held, pooled connections have none, and   *)
(* the pool implements the lease of connections.                           *)
(***************************************************************************)
EXTENDS SqlDatabasePool, TLAPS

(* The inductive invariant, in named parts. *)

Idle(n) == ~isOpen[n] /\ ~inTransaction[n]

\* A thread has a name in its local variable between pop() and return, and then
\* the slot of the database it wants is empty.
NameAt ==
  \A c \in Context :
    /\ name[c] # NoConn <=> pc[c] \in {"unpool", "open", "openError", "begin"}
    /\ name[c] # NoConn => getDatabaseId[name[c]] = want[c]
    /\ pc[c] \in DatabasePcs => sqlDatabases[c][want[c]] = NoConn

\* The timer has a name between its pop() and its push().
TimerAt == timerConn # NoConn <=> timerPc # "wait"

\* The slot of a database has a connection of that database.
SlotOf ==
  \A c \in Context, d \in DbId :
    sqlDatabases[c][d] # NoConn => getDatabaseId[sqlDatabases[c][d]] = d

\* Only an open connection has a transaction.
OpenTransactions == \A n \in Conn : inTransaction[n] => isOpen[n]

\* Closed names are those on the way to the stack or to open().
ClosedOnTheWay ==
  /\ timerPc = "push" => Idle(timerConn)
  /\ \A c \in Context :
       /\ pc[c] \in {"unpool", "open", "openError"} => Idle(name[c])
       /\ pc[c] = "begin" => isOpen[name[c]]

\* A transaction that can still be ended is in the hands of its context.
TransactionHeld ==
  \A n \in Conn : inTransaction[n] /\ ~unfinished[n] =>
    \E c \in Context : databases[c][getDatabaseId[n]] = n

Places == TypeOK /\ NameInOnePlace /\ NameAt /\ TimerAt /\ SlotOf

Transactions == TransactionOfHolder /\ OpenTransactions /\ ClosedOnTheWay
                  /\ AvailableClosed /\ TransactionHeld

IInv == Places /\ Transactions

-----------------------------------------------------------------------------
(* Places: a step moves at most one name, from one place to the next. *)

LEMMA InitIInv == Init => IInv
<1> SUFFICES ASSUME Init PROVE IInv
  OBVIOUS
<1> USE PoolAssumption DEF Init
<1>1. TypeOK
  BY DEF TypeOK, Phases
<1>2. NameInOnePlace
  BY DEF NameInOnePlace, AtOnePlace, InPool, Uses
<1>3. NameAt /\ TimerAt /\ SlotOf
  BY DEF NameAt, TimerAt, SlotOf, DatabasePcs
<1>4. Transactions
  BY DEF Transactions, TransactionOfHolder, OpenTransactions, ClosedOnTheWay,
         AvailableClosed, TransactionHeld, Idle
<1> QED
  BY <1>1, <1>2, <1>3, <1>4 DEF IInv, Places

\* A name at the same place as before.
LEMMA Stays ==
  ASSUME NameInOnePlace, NEW n \in Conn, InPool(n)' = InPool(n),
         timerConn' = n <=> timerConn = n,
         \A b \in Context : Uses(b, n)' <=> Uses(b, n)
  PROVE  AtOnePlace(n)'
BY DEF NameInOnePlace, AtOnePlace

\* A name that is now in a stack, at the timer or with a context, and nowhere
\* else.
LEMMA Moved ==
  ASSUME NEW n \in Conn,
         \/ InPool(n)' = 1 /\ timerConn' # n /\ \A b \in Context : ~Uses(b, n)'
         \/ InPool(n)' = 0 /\ timerConn' = n /\ \A b \in Context : ~Uses(b, n)'
         \/ /\ InPool(n)' = 0 /\ timerConn' # n
            /\ \E c \in Context : \A b \in Context : Uses(b, n)' <=> b = c
  PROVE  AtOnePlace(n)'
BY DEF AtOnePlace

\* A step that moves no name.
LEMMA PlaceSame ==
  ASSUME NameInOnePlace,
         UNCHANGED <<availableNames, cachedDatabase, timerConn, name, sqlDatabases>>
  PROVE  NameInOnePlace'
BY Stays DEF NameInOnePlace, InPool, Uses

\* What is at one place is not at another.
LEMMA InStacks ==
  ASSUME Places, NEW n \in Conn, availableNames[n] > 0 \/ cachedDatabase[n] > 0
  PROVE  InPool(n) = 1 /\ timerConn # n /\ \A b \in Context : ~Uses(b, n)
<1>1. availableNames[n] \in Nat /\ cachedDatabase[n] \in Nat
  BY DEF Places, TypeOK
<1>2. AtOnePlace(n)
  BY DEF Places, NameInOnePlace
<1>3. InPool(n) = 1
  BY <1>1, <1>2 DEF AtOnePlace, InPool
<1> QED
  BY <1>2, <1>3 DEF AtOnePlace

LEMMA InHands ==
  ASSUME Places, NEW n \in Conn, NEW c \in Context, Uses(c, n)
  PROVE  /\ availableNames[n] = 0 /\ cachedDatabase[n] = 0 /\ InPool(n) = 0
         /\ timerConn # n
         /\ \A b \in Context : Uses(b, n) => b = c
<1>1. availableNames[n] \in Nat /\ cachedDatabase[n] \in Nat
  BY DEF Places, TypeOK
<1>2. AtOnePlace(n)
  BY DEF Places, NameInOnePlace
<1>3. InPool(n) # 1 /\ InPool(n) <= 1 /\ timerConn # n
  BY <1>2 DEF AtOnePlace
<1>4. \A b \in Context : Uses(b, n) => b = c
  BY <1>2 DEF AtOnePlace
<1> QED
  BY <1>1, <1>3, <1>4 DEF InPool

LEMMA AtTimer ==
  ASSUME Places, NEW n \in Conn, timerConn = n
  PROVE  /\ availableNames[n] = 0 /\ cachedDatabase[n] = 0 /\ InPool(n) = 0
         /\ \A b \in Context : ~Uses(b, n)
<1>1. availableNames[n] \in Nat /\ cachedDatabase[n] \in Nat
  BY DEF Places, TypeOK
<1>2. AtOnePlace(n)
  BY DEF Places, NameInOnePlace
<1>3. InPool(n) # 1 /\ InPool(n) <= 1 /\ \A b \in Context : ~Uses(b, n)
  BY <1>2 DEF AtOnePlace
<1> QED
  BY <1>1, <1>3 DEF InPool

LEMMA PopCachePlaces ==
  ASSUME Places, NEW c \in Context, PopCache(c)
  PROVE  Places'
<1> USE PoolAssumption
<1>1. CASE Poppable(cachedDatabase, want[c]) = {} /\ Goto(c, "stack")
           /\ UNCHANGED <<cachedDatabase, name>>
  <2>1. TypeOK'
    BY <1>1 DEF PopCache, Places, TypeOK, Goto, connVars, contextVars, Phases, DatabasePcs
  <2>2. NameInOnePlace'
    BY <1>1, PlaceSame DEF PopCache, Places, contextVars
  <2>3. NameAt' /\ TimerAt' /\ SlotOf'
    BY <1>1 DEF PopCache, Places, TypeOK, NameAt, TimerAt, SlotOf, Goto, contextVars,
                DatabasePcs
  <2> QED
    BY <2>1, <2>2, <2>3 DEF Places
<1>2. ASSUME NEW n \in Poppable(cachedDatabase, want[c]),
             cachedDatabase' = pop(cachedDatabase, n),
             name' = [name EXCEPT ![c] = n],
             Goto(c, IF isOpen[n] THEN "begin" ELSE "unpool")
      PROVE  Places'
  <2>1. n \in Conn /\ getDatabaseId[n] = want[c] /\ cachedDatabase[n] > 0
    BY DEF Poppable
  <2>2. TypeOK'
    BY <1>2, <2>1 DEF PopCache, Places, TypeOK, Goto, pop, connVars, contextVars, Phases,
                      DatabasePcs
  <2>3. NameInOnePlace'
    <3>1. InPool(n)' = InPool(n) - 1 /\ \A m \in Conn \ {n} : InPool(m)' = InPool(m)
      BY <1>2, <2>1 DEF PopCache, Places, TypeOK, InPool, pop
    <3>2. \A b \in Context, m \in Conn : b # c \/ m # n => (Uses(b, m)' <=> Uses(b, m))
      BY <1>2, <2>1 DEF PopCache, Places, TypeOK, NameAt, Uses, contextVars
    <3>3. Uses(c, n)'
      BY <1>2 DEF Places, TypeOK, Uses
    <3>4. InPool(n) = 1 /\ timerConn # n /\ \A b \in Context : ~Uses(b, n)
      BY <2>1, InStacks
    <3>5. timerConn' = timerConn
      BY DEF PopCache
    <3>6. AtOnePlace(n)'
      <4>1. InPool(n)' = 0 /\ timerConn' # n
        BY <3>1, <3>4, <3>5
      <4>2. \A b \in Context : Uses(b, n)' <=> b = c
        BY <2>1, <3>2, <3>3, <3>4
      <4> QED
        BY <2>1, <4>1, <4>2, Moved
    <3>7. \A m \in Conn \ {n} : AtOnePlace(m)'
      BY <3>1, <3>2, <3>5, Stays DEF Places
    <3> QED
      BY <3>6, <3>7 DEF NameInOnePlace
  <2>4. NameAt' /\ TimerAt' /\ SlotOf'
    BY <1>2, <2>1 DEF PopCache, Places, TypeOK, NameAt, TimerAt, SlotOf, Goto, contextVars,
                DatabasePcs
  <2> QED
    BY <2>2, <2>3, <2>4 DEF Places
<1> QED
  BY <1>1, <1>2 DEF PopCache

\* Going on, or going to database(), moves no name.
LEMMA GoesOn ==
  ASSUME Places, NEW c \in Context, NEW r \in Phases, pc[c] \in Phases,
         Goto(c, r), UNCHANGED <<ret, want, name, sqlDatabases>>
  PROVE  /\ pc' \in [Context -> Phases \cup DatabasePcs]
         /\ ret' \in [Context -> Phases]
         /\ want' \in [Context -> DbId]
         /\ name' = name
         /\ NameAt'
<1>1. pc' = [pc EXCEPT ![c] = r] /\ pc \in [Context -> Phases \cup DatabasePcs]
  BY DEF Goto, Places, TypeOK
<1> QED
  BY <1>1 DEF Places, TypeOK, NameAt, Phases, DatabasePcs

LEMMA AsksPool ==
  ASSUME Places, NEW c \in Context, NEW d \in DbId, NEW r \in Phases, pc[c] \in Phases,
         getSqlDatabase(c, d, r), UNCHANGED sqlDatabases
  PROVE  /\ pc' \in [Context -> Phases \cup DatabasePcs]
         /\ ret' \in [Context -> Phases]
         /\ want' \in [Context -> DbId]
         /\ name' = name
         /\ NameAt'
<1>1. CASE Holds(c, d)
  BY <1>1, GoesOn DEF getSqlDatabase
<1>2. CASE ~Holds(c, d)
  <2>1. /\ pc' = [pc EXCEPT ![c] = "cache"]
        /\ ret' = [ret EXCEPT ![c] = r]
        /\ want' = [want EXCEPT ![c] = d]
        /\ name' = name /\ sqlDatabases' = sqlDatabases /\ sqlDatabases[c][d] = NoConn
    BY <1>2 DEF getSqlDatabase, Holds, Goto
  <2>2. /\ pc' \in [Context -> Phases \cup DatabasePcs]
        /\ ret' \in [Context -> Phases]
        /\ want' \in [Context -> DbId]
    BY <2>1 DEF Places, TypeOK, DatabasePcs
  <2>3. NameAt'
    BY <2>1 DEF Places, TypeOK, NameAt, Phases, DatabasePcs
  <2> QED
    BY <2>1, <2>2, <2>3
<1> QED
  BY <1>1, <1>2

\* Ending a transaction changes the types of nothing.
LEMMA EndTyped ==
  ASSUME TypeOK, NEW c \in Context, NEW d \in DbId, EndTransaction(c, d)
  PROVE  /\ inTransaction' \in [Conn -> BOOLEAN]
         /\ unfinished' \in [Conn -> BOOLEAN]
         /\ databases' \in [Context -> [DbId -> Conn \cup {NoConn}]]
<1>1. databases[c][d] \in Conn
  BY DEF TypeOK, EndTransaction
<1>2. PICK left \in {FALSE, inTransaction[databases[c][d]]} :
        /\ inTransaction' = [inTransaction EXCEPT ![databases[c][d]] = left]
        /\ unfinished' = [unfinished EXCEPT ![databases[c][d]] = left]
  BY DEF EndTransaction
<1>3. left \in BOOLEAN
  BY <1>1 DEF TypeOK
<1>4. databases' = [databases EXCEPT ![c][d] = NoConn]
  BY DEF EndTransaction
<1> QED
  BY <1>2, <1>3, <1>4 DEF TypeOK

LEMMA StartRequestPlaces ==
  ASSUME Places, NEW c \in Context, StartRequest(c)
  PROVE  Places'
<1>1. pc[c] \in Phases /\ "enable" \in Phases
  BY DEF StartRequest, Phases
<1>2. PICK s \in SessionChoices :
        /\ session' = [session EXCEPT ![c] = s]
        /\ IF s THEN getSqlDatabase(c, SessionDb, "enable")
           ELSE Goto(c, "enable") /\ UNCHANGED <<ret, want, name>>
  BY DEF StartRequest, LookUpSession
<1>3. UNCHANGED <<poolVars, connVars, sqlDatabases, databases, enabled, openFailed>>
  BY DEF StartRequest
<1>4. /\ pc' \in [Context -> Phases \cup DatabasePcs]
      /\ ret' \in [Context -> Phases]
      /\ want' \in [Context -> DbId]
      /\ name' = name
      /\ NameAt'
  BY <1>1, <1>2, <1>3, GoesOn, AsksPool, PoolAssumption
<1>5. session' \in [Context -> BOOLEAN]
  BY <1>2, PoolAssumption DEF Places, TypeOK
<1>6. TypeOK'
  BY <1>3, <1>4, <1>5 DEF Places, TypeOK, poolVars, connVars
<1>7. NameInOnePlace' /\ TimerAt' /\ SlotOf'
  BY <1>3, <1>4, PlaceSame DEF Places, TimerAt, SlotOf, poolVars
<1> QED
  BY <1>4, <1>6, <1>7 DEF Places

LEMMA UseDatabasePlaces ==
  ASSUME Places, NEW c \in Context, NEW d \in DbId, UseDatabase(c, d)
  PROVE  Places'
<1>1. pc[c] \in Phases /\ "action" \in Phases
  BY DEF UseDatabase, Phases
<1>2. getSqlDatabase(c, d, "action")
  BY DEF UseDatabase
<1>3. UNCHANGED <<poolVars, connVars, contextVars>>
  BY DEF UseDatabase
<1>4. /\ pc' \in [Context -> Phases \cup DatabasePcs]
      /\ ret' \in [Context -> Phases]
      /\ want' \in [Context -> DbId]
      /\ name' = name
      /\ NameAt'
  BY <1>1, <1>2, <1>3, GoesOn, AsksPool, PoolAssumption DEF contextVars
<1>5. TypeOK'
  BY <1>3, <1>4 DEF Places, TypeOK, poolVars, connVars, contextVars
<1>6. NameInOnePlace' /\ TimerAt' /\ SlotOf'
  BY <1>3, <1>4, PlaceSame DEF Places, TimerAt, SlotOf, poolVars, contextVars
<1> QED
  BY <1>4, <1>5, <1>6 DEF Places

LEMMA StoreSessionPlaces ==
  ASSUME Places, NEW c \in Context, StoreSession(c)
  PROVE  Places'
<1>1. pc[c] \in Phases /\ "stored" \in Phases
  BY DEF StoreSession, Phases
<1>2. getSqlDatabase(c, SessionDb, "stored")
  BY DEF StoreSession
<1>3. UNCHANGED <<poolVars, connVars, contextVars>>
  BY DEF StoreSession
<1>4. /\ pc' \in [Context -> Phases \cup DatabasePcs]
      /\ ret' \in [Context -> Phases]
      /\ want' \in [Context -> DbId]
      /\ name' = name
      /\ NameAt'
  BY <1>1, <1>2, <1>3, GoesOn, AsksPool, PoolAssumption DEF contextVars
<1>5. TypeOK'
  BY <1>3, <1>4 DEF Places, TypeOK, poolVars, connVars, contextVars
<1>6. NameInOnePlace' /\ TimerAt' /\ SlotOf'
  BY <1>3, <1>4, PlaceSame DEF Places, TimerAt, SlotOf, poolVars, contextVars
<1> QED
  BY <1>4, <1>5, <1>6 DEF Places

LEMMA CollectGarbagePlaces ==
  ASSUME Places, NEW c \in Context, CollectGarbage(c)
  PROVE  Places'
<1>1. pc[c] \in Phases /\ "release" \in Phases
  BY DEF CollectGarbage, Phases
<1>2. \/ getSqlDatabase(c, SessionDb, "release")
      \/ Goto(c, "release") /\ UNCHANGED <<ret, want, name>>
  BY DEF CollectGarbage
<1>3. UNCHANGED <<poolVars, connVars, contextVars>>
  BY DEF CollectGarbage
<1>4. /\ pc' \in [Context -> Phases \cup DatabasePcs]
      /\ ret' \in [Context -> Phases]
      /\ want' \in [Context -> DbId]
      /\ name' = name
      /\ NameAt'
  BY <1>1, <1>2, <1>3, GoesOn, AsksPool, PoolAssumption DEF contextVars
<1>5. TypeOK'
  BY <1>3, <1>4 DEF Places, TypeOK, poolVars, connVars, contextVars
<1>6. NameInOnePlace' /\ TimerAt' /\ SlotOf'
  BY <1>3, <1>4, PlaceSame DEF Places, TimerAt, SlotOf, poolVars, contextVars
<1> QED
  BY <1>4, <1>5, <1>6 DEF Places

LEMMA CommitOrRollbackPlaces ==
  ASSUME Places, NEW c \in Context, CommitOrRollback(c)
  PROVE  Places'
<1>1. UNCHANGED <<poolVars, isOpen, ret, want, name, sqlDatabases, enabled, session,
                  openFailed>>
  BY DEF CommitOrRollback
<1>2. CASE (\E d \in DbId : EndTransaction(c, d)) /\ UNCHANGED pc
  <2>1. TypeOK'
    BY <1>1, <1>2, EndTyped DEF Places, TypeOK, poolVars
  <2>2. NameInOnePlace' /\ NameAt' /\ TimerAt' /\ SlotOf'
    BY <1>1, <1>2, PlaceSame DEF Places, NameAt, TimerAt, SlotOf, poolVars
  <2> QED
    BY <2>1, <2>2 DEF Places
<1>3. CASE AllEnded(c) /\ Goto(c, IF session[c] THEN "store" ELSE "gc")
           /\ UNCHANGED <<inTransaction, unfinished, databases>>
  <2>1. pc[c] \in Phases /\ (IF session[c] THEN "store" ELSE "gc") \in Phases
    BY DEF CommitOrRollback, Phases
  <2>2. pc' \in [Context -> Phases \cup DatabasePcs] /\ NameAt'
    BY <1>1, <1>3, <2>1, GoesOn
  <2>3. TypeOK'
    BY <1>1, <1>3, <2>2 DEF Places, TypeOK, poolVars
  <2>4. NameInOnePlace' /\ TimerAt' /\ SlotOf'
    BY <1>1, <1>3, PlaceSame DEF Places, TimerAt, SlotOf, poolVars
  <2> QED
    BY <2>2, <2>3, <2>4 DEF Places
<1> QED
  BY <1>2, <1>3 DEF CommitOrRollback

LEMMA ReleaseRollbackPlaces ==
  ASSUME Places, NEW c \in Context, ReleaseRollback(c)
  PROVE  Places'
<1>1. UNCHANGED <<poolVars, isOpen, controlVars, sqlDatabases, enabled, session,
                  openFailed>>
  BY DEF ReleaseRollback
<1>2. \E d \in DbId : EndTransaction(c, d)
  BY DEF ReleaseRollback
<1>3. TypeOK'
  BY <1>1, <1>2, EndTyped DEF Places, TypeOK, poolVars, controlVars
<1>4. NameInOnePlace' /\ NameAt' /\ TimerAt' /\ SlotOf'
  BY <1>1, PlaceSame DEF Places, NameAt, TimerAt, SlotOf, poolVars, controlVars
<1> QED
  BY <1>3, <1>4 DEF Places

LEMMA OpenPlaces ==
  ASSUME Places, NEW c \in Context, Open(c)
  PROVE  Places'
<1>1. TypeOK'
  BY PoolAssumption DEF Open, Places, TypeOK, Goto, Phases, DatabasePcs, connVars,
            poolVars, controlVars, contextVars
<1>2. NameInOnePlace'
  BY PlaceSame DEF Open, Places, connVars, poolVars, controlVars, contextVars
<1>3. NameAt' /\ TimerAt' /\ SlotOf'
  BY PoolAssumption DEF Open, Places, TypeOK, NameAt, TimerAt, SlotOf, Goto, Phases,
            DatabasePcs, connVars, poolVars, controlVars, contextVars
<1> QED
  BY <1>1, <1>2, <1>3 DEF Places

LEMMA NewContextPlaces ==
  ASSUME Places, NEW c \in Context, NewContext(c)
  PROVE  Places'
<1>1. TypeOK'
  BY PoolAssumption DEF NewContext, Places, TypeOK, Goto, Phases, DatabasePcs,
            connVars, poolVars, controlVars, contextVars
<1>2. NameInOnePlace'
  BY PlaceSame DEF NewContext, Places, connVars, poolVars, controlVars, contextVars
<1>3. NameAt' /\ TimerAt' /\ SlotOf'
  BY PoolAssumption DEF NewContext, Places, TypeOK, NameAt, TimerAt, SlotOf, Goto,
            Phases, DatabasePcs, connVars, poolVars, controlVars, contextVars
<1> QED
  BY <1>1, <1>2, <1>3 DEF Places

LEMMA SetTransactionEnabledPlaces ==
  ASSUME Places, NEW c \in Context, SetTransactionEnabled(c)
  PROVE  Places'
<1>1. TypeOK'
  BY PoolAssumption DEF SetTransactionEnabled, Places, TypeOK, Goto, Phases,
            DatabasePcs, connVars, poolVars, controlVars, contextVars
<1>2. NameInOnePlace'
  BY PlaceSame DEF SetTransactionEnabled, Places, connVars, poolVars, controlVars,
            contextVars
<1>3. NameAt' /\ TimerAt' /\ SlotOf'
  BY PoolAssumption DEF SetTransactionEnabled, Places, TypeOK, NameAt, TimerAt,
            SlotOf, Goto, Phases, DatabasePcs, connVars, poolVars, controlVars,
            contextVars
<1> QED
  BY <1>1, <1>2, <1>3 DEF Places

LEMMA ActionClosesPlaces ==
  ASSUME Places, NEW c \in Context, NEW d \in DbId, ActionCloses(c, d)
  PROVE  Places'
<1>1. TypeOK'
  BY PoolAssumption DEF ActionCloses, close, Holds, Places, TypeOK, Goto, Phases,
            DatabasePcs, connVars, poolVars, controlVars, contextVars
<1>2. NameInOnePlace'
  BY PlaceSame DEF ActionCloses, Places, connVars, poolVars, controlVars,
            contextVars
<1>3. NameAt' /\ TimerAt' /\ SlotOf'
  BY PoolAssumption DEF ActionCloses, close, Holds, Places, TypeOK, NameAt, TimerAt,
            SlotOf, Goto, Phases, DatabasePcs, connVars, poolVars, controlVars,
            contextVars
<1> QED
  BY <1>1, <1>2, <1>3 DEF Places

LEMMA ReturnFromActionPlaces ==
  ASSUME Places, NEW c \in Context, ReturnFromAction(c)
  PROVE  Places'
<1>1. TypeOK'
  BY PoolAssumption DEF ReturnFromAction, Places, TypeOK, Goto, Phases, DatabasePcs,
            connVars, poolVars, controlVars, contextVars
<1>2. NameInOnePlace'
  BY PlaceSame DEF ReturnFromAction, Places, connVars, poolVars, controlVars,
            contextVars
<1>3. NameAt' /\ TimerAt' /\ SlotOf'
  BY PoolAssumption DEF ReturnFromAction, Places, TypeOK, NameAt, TimerAt, SlotOf,
            Goto, Phases, DatabasePcs, connVars, poolVars, controlVars, contextVars
<1> QED
  BY <1>1, <1>2, <1>3 DEF Places

LEMMA ThrowPlaces ==
  ASSUME Places, NEW c \in Context, Throw(c)
  PROVE  Places'
<1>1. TypeOK'
  BY PoolAssumption DEF Throw, Places, TypeOK, Goto, Phases, DatabasePcs, connVars,
            poolVars, controlVars, contextVars
<1>2. NameInOnePlace'
  BY PlaceSame DEF Throw, Places, connVars, poolVars, controlVars, contextVars
<1>3. NameAt' /\ TimerAt' /\ SlotOf'
  BY PoolAssumption DEF Throw, Places, TypeOK, NameAt, TimerAt, SlotOf, Goto,
            Phases, DatabasePcs, connVars, poolVars, controlVars, contextVars
<1> QED
  BY <1>1, <1>2, <1>3 DEF Places

LEMMA SessionStoredPlaces ==
  ASSUME Places, NEW c \in Context, SessionStored(c)
  PROVE  Places'
<1>1. TypeOK'
  BY PoolAssumption DEF SessionStored, Places, TypeOK, Goto, Phases, DatabasePcs,
            connVars, poolVars, controlVars, contextVars
<1>2. NameInOnePlace'
  BY PlaceSame DEF SessionStored, Places, connVars, poolVars, controlVars,
            contextVars
<1>3. NameAt' /\ TimerAt' /\ SlotOf'
  BY PoolAssumption DEF SessionStored, Places, TypeOK, NameAt, TimerAt, SlotOf,
            Goto, Phases, DatabasePcs, connVars, poolVars, controlVars, contextVars
<1> QED
  BY <1>1, <1>2, <1>3 DEF Places

LEMMA SetLastCachedTimePlaces ==
  ASSUME Places, NEW c \in Context, SetLastCachedTime(c)
  PROVE  Places'
<1>1. TypeOK'
  BY PoolAssumption DEF SetLastCachedTime, Places, TypeOK, Goto, Phases,
            DatabasePcs, connVars, poolVars, controlVars, contextVars
<1>2. NameInOnePlace'
  BY PlaceSame DEF SetLastCachedTime, Places, connVars, poolVars, controlVars,
            contextVars
<1>3. NameAt' /\ TimerAt' /\ SlotOf'
  BY PoolAssumption DEF SetLastCachedTime, Places, TypeOK, NameAt, TimerAt, SlotOf,
            Goto, Phases, DatabasePcs, connVars, poolVars, controlVars, contextVars
<1> QED
  BY <1>1, <1>2, <1>3 DEF Places

LEMMA EndRequestPlaces ==
  ASSUME Places, NEW c \in Context, EndRequest(c)
  PROVE  Places'
<1>1. TypeOK'
  BY PoolAssumption DEF EndRequest, Places, TypeOK, Goto, Phases, DatabasePcs,
            connVars, poolVars, controlVars, contextVars
<1>2. NameInOnePlace'
  BY PlaceSame DEF EndRequest, Places, connVars, poolVars, controlVars, contextVars
<1>3. NameAt' /\ TimerAt' /\ SlotOf'
  BY PoolAssumption DEF EndRequest, Places, TypeOK, NameAt, TimerAt, SlotOf, Goto,
            Phases, DatabasePcs, connVars, poolVars, controlVars, contextVars
<1> QED
  BY <1>1, <1>2, <1>3 DEF Places

LEMMA ExpirePlaces ==
  ASSUME Places, NEW d \in DbId, Expire(d)
  PROVE  Places'
<1>1. TypeOK'
  BY PoolAssumption DEF Expire, Places, TypeOK, Goto, Phases, DatabasePcs, connVars,
            poolVars, controlVars, contextVars
<1>2. NameInOnePlace'
  BY PlaceSame DEF Expire, Places, connVars, poolVars, controlVars, contextVars
<1>3. NameAt' /\ TimerAt' /\ SlotOf'
  BY PoolAssumption DEF Expire, Places, TypeOK, NameAt, TimerAt, SlotOf, Goto,
            Phases, DatabasePcs, connVars, poolVars, controlVars, contextVars
<1> QED
  BY <1>1, <1>2, <1>3 DEF Places

LEMMA TimerClosePlaces ==
  ASSUME Places, TimerClose
  PROVE  Places'
<1>1. TypeOK'
  BY PoolAssumption DEF TimerClose, close, Places, TypeOK, Goto, Phases,
            DatabasePcs, connVars, poolVars, controlVars, contextVars
<1>2. NameInOnePlace'
  BY PlaceSame DEF TimerClose, Places, connVars, poolVars, controlVars, contextVars
<1>3. NameAt' /\ TimerAt' /\ SlotOf'
  BY PoolAssumption DEF TimerClose, close, Places, TypeOK, NameAt, TimerAt, SlotOf,
            Goto, Phases, DatabasePcs, connVars, poolVars, controlVars, contextVars
<1> QED
  BY <1>1, <1>2, <1>3 DEF Places

LEMMA PopStackPlaces ==
  ASSUME Places, NEW c \in Context, PopStack(c)
  PROVE  Places'
<1> USE PoolAssumption
<1>1. CASE Poppable(availableNames, want[c]) = {} /\ Goto(c, "cache")
           /\ UNCHANGED <<availableNames, name>>
  <2>1. TypeOK'
    BY <1>1 DEF PopStack, Places, TypeOK, Goto, connVars, contextVars, Phases, DatabasePcs
  <2>2. NameInOnePlace'
    BY <1>1, PlaceSame DEF PopStack, Places, contextVars
  <2>3. NameAt' /\ TimerAt' /\ SlotOf'
    BY <1>1 DEF PopStack, Places, TypeOK, NameAt, TimerAt, SlotOf, Goto, contextVars,
                DatabasePcs
  <2> QED
    BY <2>1, <2>2, <2>3 DEF Places
<1>2. ASSUME NEW n \in Poppable(availableNames, want[c]),
             availableNames' = pop(availableNames, n),
             name' = [name EXCEPT ![c] = n],
             Goto(c, IF isOpen[n] THEN "begin" ELSE "open")
      PROVE  Places'
  <2>1. n \in Conn /\ getDatabaseId[n] = want[c] /\ availableNames[n] > 0
    BY DEF Poppable
  <2>2. TypeOK'
    BY <1>2, <2>1 DEF PopStack, Places, TypeOK, Goto, pop, connVars, contextVars, Phases,
                      DatabasePcs
  <2>3. NameInOnePlace'
    <3>1. InPool(n)' = InPool(n) - 1 /\ \A m \in Conn \ {n} : InPool(m)' = InPool(m)
      BY <1>2, <2>1 DEF PopStack, Places, TypeOK, InPool, pop
    <3>2. \A b \in Context, m \in Conn : b # c \/ m # n => (Uses(b, m)' <=> Uses(b, m))
      BY <1>2, <2>1 DEF PopStack, Places, TypeOK, NameAt, Uses, contextVars
    <3>3. Uses(c, n)'
      BY <1>2 DEF Places, TypeOK, Uses
    <3>4. InPool(n) = 1 /\ timerConn # n /\ \A b \in Context : ~Uses(b, n)
      BY <2>1, InStacks
    <3>5. timerConn' = timerConn
      BY DEF PopStack
    <3>6. AtOnePlace(n)'
      <4>1. InPool(n)' = 0 /\ timerConn' # n
        BY <3>1, <3>4, <3>5
      <4>2. \A b \in Context : Uses(b, n)' <=> b = c
        BY <2>1, <3>2, <3>3, <3>4
      <4> QED
        BY <2>1, <4>1, <4>2, Moved
    <3>7. \A m \in Conn \ {n} : AtOnePlace(m)'
      BY <3>1, <3>2, <3>5, Stays DEF Places
    <3> QED
      BY <3>6, <3>7 DEF NameInOnePlace
  <2>4. NameAt' /\ TimerAt' /\ SlotOf'
    BY <1>2, <2>1 DEF PopStack, Places, TypeOK, NameAt, TimerAt, SlotOf, Goto, contextVars,
                DatabasePcs
  <2> QED
    BY <2>2, <2>3, <2>4 DEF Places
<1> QED
  BY <1>1, <1>2 DEF PopStack

\* A name given back to the stack of available names.
LEMMA PushedAtOnePlace ==
  ASSUME Places, NEW n \in Conn,
         availableNames[n] = 0, cachedDatabase[n] = 0,
         \/ availableNames' = push(availableNames, n) /\ UNCHANGED cachedDatabase
         \/ cachedDatabase' = push(cachedDatabase, n) /\ UNCHANGED availableNames,
         \A b \in Context : ~Uses(b, n)',
         timerConn' # n,
         \A m \in Conn \ {n} :
           /\ timerConn' = m <=> timerConn = m
           /\ \A b \in Context : Uses(b, m)' <=> Uses(b, m)
  PROVE  /\ NameInOnePlace'
         /\ availableNames' \in [Conn -> Nat] /\ cachedDatabase' \in [Conn -> Nat]
<1>1. availableNames \in [Conn -> Nat] /\ cachedDatabase \in [Conn -> Nat]
  BY DEF Places, TypeOK
<1>2. availableNames' \in [Conn -> Nat] /\ cachedDatabase' \in [Conn -> Nat]
  BY <1>1 DEF push
<1>3. InPool(n)' = 1
  BY <1>1 DEF InPool, push
<1>4. \A m \in Conn \ {n} : InPool(m)' = InPool(m)
  BY <1>1 DEF InPool, push
<1>5. AtOnePlace(n)'
  BY <1>3, Moved
<1>6. \A m \in Conn \ {n} : AtOnePlace(m)'
  BY <1>4, Stays DEF Places
<1> QED
  BY <1>2, <1>5, <1>6 DEF NameInOnePlace

LEMMA UnpoolPlaces ==
  ASSUME Places, NEW c \in Context, Unpool(c)
  PROVE  Places'
<1>1. /\ pc[c] = "unpool" /\ pc' = [pc EXCEPT ![c] = "cache"]
      /\ name' = [name EXCEPT ![c] = NoConn]
      /\ availableNames' = push(availableNames, name[c])
      /\ UNCHANGED <<cachedDatabase, expired, timerPc, timerConn, connVars, ret, want,
                     contextVars>>
  BY DEF Unpool, Goto
<1>2. name[c] \in Conn /\ Uses(c, name[c]) /\ sqlDatabases[c][want[c]] = NoConn
      /\ getDatabaseId[name[c]] = want[c]
  BY <1>1 DEF Places, TypeOK, NameAt, Uses, DatabasePcs
<1>n. PICK n \in Conn : n = name[c]
  BY <1>2
<1>3. \A b \in Context : ~Uses(b, n)'
  <2>1. ~Uses(c, n)'
    BY <1>1, <1>2, <1>n, PoolAssumption DEF Uses, Places, TypeOK, contextVars
  <2>2. \A b \in Context \ {c} : Uses(b, n)' => Uses(b, n)
    BY <1>1, <1>2, <1>n DEF Uses, Places, TypeOK, contextVars
  <2>3. \A b \in Context : Uses(b, n) => b = c
    BY <1>2, <1>n, InHands
  <2> QED
    BY <2>1, <2>2, <2>3
<1>4. \A b \in Context, m \in Conn \ {n} : Uses(b, m)' <=> Uses(b, m)
  BY <1>1, <1>n, PoolAssumption DEF Uses, Places, TypeOK, contextVars
<1>5. /\ NameInOnePlace'
      /\ availableNames' \in [Conn -> Nat] /\ cachedDatabase' \in [Conn -> Nat]
  <2>1. availableNames[n] = 0 /\ cachedDatabase[n] = 0 /\ timerConn # n
    BY <1>2, <1>n, InHands
  <2>2. UNCHANGED <<cachedDatabase, timerConn>>
    BY <1>1
  <2>3. availableNames' = push(availableNames, n)
    BY <1>1, <1>n
  <2> QED
    BY <1>2, <1>3, <1>4, <2>1, <2>2, <2>3, PushedAtOnePlace
<1>6. TypeOK'
  BY <1>1, <1>5 DEF Places, TypeOK, connVars, contextVars, DatabasePcs
<1>7. NameAt' /\ TimerAt' /\ SlotOf'
  BY <1>1, <1>2, PoolAssumption DEF Places, TypeOK, NameAt, TimerAt, SlotOf, contextVars,
     DatabasePcs
<1> QED
  BY <1>5, <1>6, <1>7 DEF Places

LEMMA OpenErrorPlaces ==
  ASSUME Places, NEW c \in Context, OpenError(c)
  PROVE  Places'
<1>1. /\ pc[c] = "openError" /\ pc' = [pc EXCEPT ![c] = ret[c]]
      /\ name' = [name EXCEPT ![c] = NoConn]
      /\ ret' = [ret EXCEPT ![c] = "idle"]
      /\ want' = [want EXCEPT ![c] = SessionDb]
      /\ availableNames' = push(availableNames, name[c])
      /\ UNCHANGED <<cachedDatabase, expired, timerPc, timerConn, connVars, contextVars>>
  BY DEF OpenError, Return, returnName, Goto
<1>2. name[c] \in Conn /\ Uses(c, name[c]) /\ sqlDatabases[c][want[c]] = NoConn
      /\ getDatabaseId[name[c]] = want[c] /\ ret[c] \in Phases
  BY <1>1 DEF Places, TypeOK, NameAt, Uses, DatabasePcs
<1>n. PICK n \in Conn : n = name[c]
  BY <1>2
<1>3. \A b \in Context : ~Uses(b, n)'
  <2>1. ~Uses(c, n)'
    BY <1>1, <1>2, <1>n, PoolAssumption DEF Uses, Places, TypeOK, contextVars
  <2>2. \A b \in Context \ {c} : Uses(b, n)' => Uses(b, n)
    BY <1>1, <1>2, <1>n DEF Uses, Places, TypeOK, contextVars
  <2>3. \A b \in Context : Uses(b, n) => b = c
    BY <1>2, <1>n, InHands
  <2> QED
    BY <2>1, <2>2, <2>3
<1>4. \A b \in Context, m \in Conn \ {n} : Uses(b, m)' <=> Uses(b, m)
  BY <1>1, <1>n, PoolAssumption DEF Uses, Places, TypeOK, contextVars
<1>5. /\ NameInOnePlace'
      /\ availableNames' \in [Conn -> Nat] /\ cachedDatabase' \in [Conn -> Nat]
  <2>1. availableNames[n] = 0 /\ cachedDatabase[n] = 0 /\ timerConn # n
    BY <1>2, <1>n, InHands
  <2>2. UNCHANGED <<cachedDatabase, timerConn>>
    BY <1>1
  <2>3. availableNames' = push(availableNames, n)
    BY <1>1, <1>n
  <2> QED
    BY <1>2, <1>3, <1>4, <2>1, <2>2, <2>3, PushedAtOnePlace
<1>6. TypeOK'
  BY <1>1, <1>2, <1>5, PoolAssumption DEF Places, TypeOK, connVars, contextVars, Phases
<1>7. NameAt' /\ TimerAt' /\ SlotOf'
  BY <1>1, <1>2, PoolAssumption DEF Places, TypeOK, NameAt, TimerAt, SlotOf, contextVars,
     DatabasePcs, Phases
<1> QED
  BY <1>5, <1>6, <1>7 DEF Places

LEMMA BeginTransactionPlaces ==
  ASSUME Places, NEW c \in Context, BeginTransaction(c)
  PROVE  Places'
<1>1. /\ pc[c] = "begin" /\ pc' = [pc EXCEPT ![c] = ret[c]]
      /\ name' = [name EXCEPT ![c] = NoConn]
      /\ ret' = [ret EXCEPT ![c] = "idle"]
      /\ want' = [want EXCEPT ![c] = SessionDb]
      /\ sqlDatabases' = [sqlDatabases EXCEPT ![c][want[c]] = name[c]]
      /\ UNCHANGED <<poolVars, isOpen, unfinished, enabled, session, openFailed>>
  BY DEF BeginTransaction, Return, Goto
<1>2. name[c] \in Conn /\ Uses(c, name[c]) /\ sqlDatabases[c][want[c]] = NoConn
      /\ getDatabaseId[name[c]] = want[c] /\ ret[c] \in Phases /\ want[c] \in DbId
  BY <1>1 DEF Places, TypeOK, NameAt, Uses, DatabasePcs
<1>3. sqlDatabases' \in [Context -> [DbId -> Conn \cup {NoConn}]]
  BY <1>1, <1>2 DEF Places, TypeOK
<1>4. \A b \in Context, d \in DbId : sqlDatabases'[b][d] =
        IF b = c /\ d = want[c] THEN name[c] ELSE sqlDatabases[b][d]
  BY <1>1, <1>2 DEF Places, TypeOK
<1>5. \A b \in Context : name'[b] = IF b = c THEN NoConn ELSE name[b]
  BY <1>1 DEF Places, TypeOK
<1>6. \A b \in Context, m \in Conn : Uses(b, m)' <=> Uses(b, m)
  BY <1>2, <1>4, <1>5, PoolAssumption DEF Uses
<1>7. NameInOnePlace'
  BY <1>1, <1>6, Stays DEF Places, NameInOnePlace, InPool, poolVars
<1>8. /\ databases' \in [Context -> [DbId -> Conn \cup {NoConn}]]
      /\ inTransaction' \in [Conn -> BOOLEAN]
  <2>1. CASE enabled[c] /\ databases[c][want[c]] = NoConn
    <3>1. databases' = [databases EXCEPT ![c][want[c]] = name[c]]
      BY <2>1 DEF BeginTransaction, recorded
    <3>2. PICK begun \in BOOLEAN :
            inTransaction' = [inTransaction EXCEPT ![name[c]] = @ \/ begun]
      BY <2>1 DEF BeginTransaction
    <3>3. inTransaction' \in [Conn -> BOOLEAN]
      BY <3>2 DEF Places, TypeOK
    <3> QED
      BY <1>2, <3>1, <3>3 DEF Places, TypeOK
  <2>2. CASE ~(enabled[c] /\ databases[c][want[c]] = NoConn)
    BY <2>2 DEF BeginTransaction, Places, TypeOK
  <2> QED
    BY <2>1, <2>2
<1>9. TypeOK'
  BY <1>1, <1>2, <1>3, <1>8, PoolAssumption DEF Places, TypeOK, poolVars, Phases
<1>10. SlotOf'
  BY <1>2, <1>4 DEF Places, SlotOf
<1>11. NameAt' /\ TimerAt'
  BY <1>1, <1>2, <1>4, <1>5 DEF Places, TypeOK, NameAt, TimerAt, poolVars, DatabasePcs, Phases
<1> QED
  BY <1>7, <1>9, <1>10, <1>11 DEF Places

LEMMA TimerPopPlaces ==
  ASSUME Places, NEW d \in DbId, TimerPop(d)
  PROVE  Places'
<1>1. PICK n \in Poppable(cachedDatabase, d) :
        cachedDatabase' = pop(cachedDatabase, n) /\ timerConn' = n
  BY DEF TimerPop
<1>2. /\ timerPc = "wait" /\ timerPc' = "close"
      /\ UNCHANGED <<availableNames, expired, connVars, controlVars, contextVars>>
  BY DEF TimerPop
<1>3. n \in Conn /\ cachedDatabase[n] > 0 /\ timerConn = NoConn
  BY <1>2 DEF Poppable, Places, TimerAt
<1>4. /\ cachedDatabase' \in [Conn -> Nat]
      /\ InPool(n)' = InPool(n) - 1 /\ \A m \in Conn \ {n} : InPool(m)' = InPool(m)
  BY <1>1, <1>2, <1>3 DEF Places, TypeOK, InPool, pop
<1>5. TypeOK'
  BY <1>1, <1>2, <1>3, <1>4 DEF Places, TypeOK, connVars, controlVars, contextVars
<1>6. \A b \in Context, m \in Conn : Uses(b, m)' <=> Uses(b, m)
  BY <1>2 DEF Uses, controlVars, contextVars
<1>7. AtOnePlace(n)'
  BY <1>1, <1>3, <1>4, <1>6, InStacks, Moved
<1>8. \A m \in Conn \ {n} : AtOnePlace(m)'
  BY <1>1, <1>3, <1>4, <1>6, Stays, PoolAssumption DEF Places
<1>9. NameAt' /\ TimerAt' /\ SlotOf'
  BY <1>1, <1>2, <1>3, PoolAssumption DEF Places, NameAt, TimerAt, SlotOf, controlVars, contextVars
<1> QED
  BY <1>5, <1>7, <1>8, <1>9 DEF Places, NameInOnePlace

LEMMA TimerPushPlaces ==
  ASSUME Places, TimerPush
  PROVE  Places'
<1>1. /\ timerPc = "push" /\ timerPc' = "wait" /\ timerConn' = NoConn
      /\ availableNames' = push(availableNames, timerConn)
      /\ UNCHANGED <<cachedDatabase, expired, connVars, controlVars, contextVars>>
  BY DEF TimerPush
<1>2. timerConn \in Conn
  BY <1>1 DEF Places, TypeOK, TimerAt
<1>3. \A b \in Context, m \in Conn : Uses(b, m)' <=> Uses(b, m)
  BY <1>1 DEF Uses, controlVars, contextVars
<1>4. /\ NameInOnePlace'
      /\ availableNames' \in [Conn -> Nat] /\ cachedDatabase' \in [Conn -> Nat]
  BY <1>1, <1>2, <1>3, AtTimer, PushedAtOnePlace, PoolAssumption
<1>5. TypeOK'
  BY <1>1, <1>4 DEF Places, TypeOK, connVars, controlVars, contextVars
<1>6. NameAt' /\ TimerAt' /\ SlotOf'
  BY <1>1 DEF Places, NameAt, TimerAt, SlotOf, controlVars, contextVars
<1> QED
  BY <1>4, <1>5, <1>6 DEF Places

LEMMA PoolPlaces ==
  ASSUME Places, NEW c \in Context, NEW d \in DbId, Pool(c, d)
  PROVE  Places'
<1>n. PICK n \in Conn : n = sqlDatabases[c][d]
  BY DEF Places, TypeOK, Pool, Holds
<1>1. /\ pc[c] = "release" /\ n # NoConn
      /\ pc' = [pc EXCEPT ![c] = "pooled"]
      /\ cachedDatabase' = push(cachedDatabase, n)
      /\ sqlDatabases' = [sqlDatabases EXCEPT ![c][d] = NoConn]
      /\ want' = [want EXCEPT ![c] = d]
      /\ UNCHANGED <<availableNames, expired, timerPc, timerConn, connVars, ret, name,
                     databases, enabled, session, openFailed>>
  BY <1>n DEF Pool, Holds, Goto
<1>2. n \in Conn /\ getDatabaseId[n] = d /\ Uses(c, n) /\ name[c] = NoConn
  <2>1. n \in Conn
    OBVIOUS
  <2>2. getDatabaseId[n] = d
    BY <1>1, <1>n DEF Places, SlotOf
  <2>3. name[c] = NoConn
    BY <1>1 DEF Places, NameAt
  <2> QED
    BY <2>1, <2>2, <2>3, <1>n DEF Uses
<1>3. \A b \in Context, e \in DbId : sqlDatabases'[b][e] =
        IF b = c /\ e = d THEN NoConn ELSE sqlDatabases[b][e]
  BY <1>1 DEF Places, TypeOK
<1>4. sqlDatabases' \in [Context -> [DbId -> Conn \cup {NoConn}]]
  BY <1>1 DEF Places, TypeOK
<1>5. \A b \in Context : ~Uses(b, n)'
  <2>1. ~Uses(c, n)'
    BY <1>1, <1>2, <1>3, PoolAssumption DEF Uses
  <2>2. \A b \in Context \ {c} : Uses(b, n)' => Uses(b, n)
    BY <1>1, <1>2, <1>3, PoolAssumption DEF Uses
  <2>3. \A b \in Context : Uses(b, n) => b = c
    BY <1>2, InHands
  <2> QED
    BY <2>1, <2>2, <2>3
<1>6. \A b \in Context, m \in Conn \ {n} : Uses(b, m)' <=> Uses(b, m)
  BY <1>1, <1>2, <1>3, <1>n, PoolAssumption DEF Uses
<1>7. /\ NameInOnePlace'
      /\ availableNames' \in [Conn -> Nat] /\ cachedDatabase' \in [Conn -> Nat]
  <2>1. availableNames[n] = 0 /\ cachedDatabase[n] = 0 /\ timerConn # n
    BY <1>2, InHands
  <2>2. UNCHANGED <<availableNames, timerConn>>
    BY <1>1
  <2>3. cachedDatabase' = push(cachedDatabase, n)
    BY <1>1
  <2> QED
    BY <1>2, <1>5, <1>6, <2>1, <2>2, <2>3, PushedAtOnePlace
<1>8. TypeOK'
  BY <1>1, <1>4, <1>7 DEF Places, TypeOK, connVars, Phases
<1>9. NameAt' /\ TimerAt' /\ SlotOf'
  BY <1>1, <1>2, <1>3 DEF Places, TypeOK, NameAt, TimerAt, SlotOf, DatabasePcs
<1> QED
  BY <1>7, <1>8, <1>9 DEF Places

-----------------------------------------------------------------------------
(* Transactions *)

OnTheWay == {"unpool", "open", "openError", "begin"}

\* A step that touches neither a connection nor who has it.
LEMMA TransactionsSame ==
  ASSUME Transactions,
         UNCHANGED <<isOpen, inTransaction, unfinished, databases, sqlDatabases,
                     availableNames, timerPc, timerConn, name>>,
         \A c \in Context : pc'[c] \in OnTheWay => pc'[c] = pc[c]
  PROVE  Transactions'
<1>1. TransactionOfHolder' /\ OpenTransactions' /\ AvailableClosed' /\ TransactionHeld'
  BY DEF Transactions, TransactionOfHolder, OpenTransactions, AvailableClosed,
         TransactionHeld
<1>2. ClosedOnTheWay'
  BY DEF Transactions, ClosedOnTheWay, Idle, OnTheWay
<1> QED
  BY <1>1, <1>2 DEF Transactions

LEMMA OffTheWay ==
  ASSUME TypeOK, NEW c \in Context, NEW d \in DbId, NEW r \in Phases,
         Goto(c, r) \/ Goto(c, "cache") \/ Goto(c, "stack") \/ getSqlDatabase(c, d, r)
  PROVE  \A b \in Context : pc'[b] \in OnTheWay => pc'[b] = pc[b]
<1>1. Goto(c, r) \/ Goto(c, "cache") \/ Goto(c, "stack")
  BY DEF getSqlDatabase
<1> QED
  BY <1>1 DEF Goto, TypeOK, Phases, OnTheWay

LEMMA QuietTransactions ==
  ASSUME IInv, NEW c \in Context, NEW d \in DbId,
         \/ NewContext(c) \/ StartRequest(c) \/ SetTransactionEnabled(c) \/ UseDatabase(c, d)
         \/ ReturnFromAction(c) \/ Throw(c) \/ StoreSession(c) \/ SessionStored(c)
         \/ CollectGarbage(c) \/ SetLastCachedTime(c) \/ EndRequest(c) \/ Expire(d)
  PROVE  Transactions'
<1> USE DEF IInv, Places
<1>1. UNCHANGED <<isOpen, inTransaction, unfinished, databases, sqlDatabases,
                  availableNames, timerPc, timerConn>>
  BY DEF NewContext, StartRequest, SetTransactionEnabled, UseDatabase, ReturnFromAction,
         Throw, StoreSession, SessionStored, CollectGarbage, SetLastCachedTime, EndRequest,
         Expire, poolVars, connVars, contextVars
<1>2. UNCHANGED name
  BY DEF NewContext, StartRequest, SetTransactionEnabled, UseDatabase, ReturnFromAction,
         Throw, StoreSession, SessionStored, CollectGarbage, SetLastCachedTime, EndRequest,
         Expire, controlVars, LookUpSession, getSqlDatabase
<1>3. \/ UNCHANGED pc
      \/ \E r \in Phases, e \in DbId : Goto(c, r) \/ getSqlDatabase(c, e, r)
  <2>1. CASE NewContext(c)
    BY <2>1 DEF NewContext, controlVars
  <2>2. CASE Expire(d)
    BY <2>2 DEF Expire, controlVars
  <2>3. CASE StartRequest(c)
    BY <2>3, PoolAssumption DEF StartRequest, Phases, LookUpSession
  <2>4. CASE SetTransactionEnabled(c)
    BY <2>4, PoolAssumption DEF SetTransactionEnabled, Phases
  <2>5. CASE UseDatabase(c, d)
    BY <2>5, PoolAssumption DEF UseDatabase, Phases
  <2>6. CASE Throw(c)
    BY <2>6, PoolAssumption DEF Throw, Phases
  <2>7. CASE StoreSession(c)
    BY <2>7, PoolAssumption DEF StoreSession, Phases
  <2>8. CASE SessionStored(c)
    BY <2>8, PoolAssumption DEF SessionStored, Phases
  <2>9. CASE CollectGarbage(c)
    BY <2>9, PoolAssumption DEF CollectGarbage, Phases
  <2>10. CASE SetLastCachedTime(c)
    BY <2>10, PoolAssumption DEF SetLastCachedTime, Phases
  <2>11. CASE EndRequest(c)
    BY <2>11, PoolAssumption DEF EndRequest, Phases
  <2>12. CASE ReturnFromAction(c)
    BY <2>12, PoolAssumption DEF ReturnFromAction, Phases
  <2> QED
    BY <2>1, <2>2, <2>3, <2>4, <2>5, <2>6, <2>7, <2>8, <2>9, <2>10, <2>11, <2>12
<1>4. \A b \in Context : pc'[b] \in OnTheWay => pc'[b] = pc[b]
  BY <1>3, OffTheWay
<1> QED
  BY <1>1, <1>2, <1>4, TransactionsSame

\* Who has a connection in his slot has it not in his local variable, and it is
\* not in the stack: it is idle nowhere.
LEMMA PopCacheTransactions ==
  ASSUME IInv, NEW c \in Context, PopCache(c)
  PROVE  Transactions'
<1> USE DEF IInv, Places
<1>1. UNCHANGED <<isOpen, inTransaction, unfinished, databases, sqlDatabases,
                  availableNames, timerPc, timerConn>>
  BY DEF PopCache, connVars, contextVars
<1>2. CASE Goto(c, "stack") /\ UNCHANGED <<cachedDatabase, name>>
  BY <1>1, <1>2, OffTheWay, TransactionsSame, PoolAssumption DEF Phases
<1>3. ASSUME NEW n \in Poppable(cachedDatabase, want[c]),
             name' = [name EXCEPT ![c] = n],
             Goto(c, IF isOpen[n] THEN "begin" ELSE "unpool")
      PROVE  Transactions'
  <2>1. n \in Conn
    BY DEF Poppable
  <2>2. TransactionOfHolder' /\ OpenTransactions' /\ AvailableClosed' /\ TransactionHeld'
    BY <1>1 DEF Transactions, TransactionOfHolder, OpenTransactions, AvailableClosed,
                TransactionHeld
  <2>3. ClosedOnTheWay'
    BY <1>1, <1>3, <2>1 DEF Transactions, ClosedOnTheWay, OpenTransactions, Idle, TypeOK, Goto
  <2> QED
    BY <2>2, <2>3 DEF Transactions
<1> QED
  BY <1>2, <1>3 DEF PopCache

LEMMA PopStackTransactions ==
  ASSUME IInv, NEW c \in Context, PopStack(c)
  PROVE  Transactions'
<1> USE DEF IInv, Places
<1>1. UNCHANGED <<isOpen, inTransaction, unfinished, databases, sqlDatabases,
                  timerPc, timerConn>>
  BY DEF PopStack, connVars, contextVars
<1>2. CASE Goto(c, "cache") /\ UNCHANGED <<availableNames, name>>
  BY <1>1, <1>2, OffTheWay, TransactionsSame, PoolAssumption DEF Phases
<1>3. ASSUME NEW n \in Poppable(availableNames, want[c]),
             availableNames' = pop(availableNames, n),
             name' = [name EXCEPT ![c] = n],
             Goto(c, IF isOpen[n] THEN "begin" ELSE "open")
      PROVE  Transactions'
  <2>1. n \in Conn /\ availableNames[n] > 0
    BY DEF Poppable
  <2>2. TransactionOfHolder' /\ OpenTransactions' /\ TransactionHeld'
    BY <1>1 DEF Transactions, TransactionOfHolder, OpenTransactions, TransactionHeld
  <2>3. AvailableClosed'
    BY <1>1, <1>3, <2>1 DEF Transactions, AvailableClosed, TypeOK, pop
  <2>4. Idle(n)
    BY <2>1 DEF Transactions, AvailableClosed, Idle
  <2>5. ClosedOnTheWay'
    BY <1>1, <1>3, <2>1, <2>4 DEF Transactions, ClosedOnTheWay, Idle, TypeOK, Goto
  <2> QED
    BY <2>2, <2>3, <2>5 DEF Transactions
<1> QED
  BY <1>2, <1>3 DEF PopStack

LEMMA PutBackTransactions ==
  ASSUME IInv, NEW c \in Context, Unpool(c) \/ OpenError(c)
  PROVE  Transactions'
<1> USE DEF IInv, Places
<1>1. /\ UNCHANGED <<isOpen, inTransaction, unfinished, databases, sqlDatabases,
                     timerPc, timerConn>>
      /\ availableNames' = push(availableNames, name[c])
      /\ name' = [name EXCEPT ![c] = NoConn]
      /\ pc[c] \in {"unpool", "openError"}
      /\ Goto(c, "cache") \/ Goto(c, ret[c])
  BY DEF Unpool, OpenError, Return, returnName, connVars, contextVars
<1>2. PICK n \in Conn : n = name[c] /\ Idle(n)
  BY <1>1 DEF TypeOK, NameAt, Transactions, ClosedOnTheWay
<1>3. TransactionOfHolder' /\ OpenTransactions' /\ TransactionHeld'
  BY <1>1 DEF Transactions, TransactionOfHolder, OpenTransactions, TransactionHeld
<1>4. AvailableClosed'
  BY <1>1, <1>2 DEF Transactions, AvailableClosed, TypeOK, push, Idle
<1>5. \A b \in Context : pc'[b] \in OnTheWay => pc'[b] = pc[b] /\ b # c
  BY <1>1 DEF TypeOK, Goto, Phases, OnTheWay
<1>6. ClosedOnTheWay'
  BY <1>1, <1>5 DEF Transactions, ClosedOnTheWay, Idle, TypeOK, OnTheWay
<1> QED
  BY <1>3, <1>4, <1>6 DEF Transactions

LEMMA OpenTransactionsStep ==
  ASSUME IInv, NEW c \in Context, Open(c)
  PROVE  Transactions'
<1> USE DEF IInv, Places
<1>1. /\ UNCHANGED <<inTransaction, unfinished, databases, sqlDatabases, availableNames,
                     timerPc, timerConn, name>>
      /\ pc[c] = "open"
  BY DEF Open, poolVars
<1>2. PICK n \in Conn : n = name[c] /\ Uses(c, n)
  BY <1>1 DEF TypeOK, NameAt, Uses
<1>3. /\ availableNames[n] = 0 /\ timerConn # n
      /\ \A b \in Context : Uses(b, n) => b = c
  BY <1>2, InHands
<1>4. \A b \in Context : b # c => name[b] # n
  BY <1>3 DEF Uses
<1>5. TransactionOfHolder' /\ TransactionHeld'
  BY <1>1 DEF Transactions, TransactionOfHolder, TransactionHeld
<1>6. CASE isOpen' = [isOpen EXCEPT ![n] = TRUE] /\ Goto(c, "begin")
  <2>1. OpenTransactions' /\ AvailableClosed'
    BY <1>1, <1>3, <1>6 DEF Transactions, OpenTransactions, AvailableClosed, TypeOK
  <2>2. ClosedOnTheWay'
    BY <1>1, <1>2, <1>3, <1>4, <1>6 DEF Transactions, ClosedOnTheWay, Idle, TypeOK, Goto,
       NameAt, TimerAt
  <2> QED
    BY <1>5, <2>1, <2>2 DEF Transactions
<1>7. CASE isOpen' = isOpen /\ Goto(c, "openError")
  <2>1. OpenTransactions' /\ AvailableClosed'
    BY <1>1, <1>7 DEF Transactions, OpenTransactions, AvailableClosed
  <2>2. ClosedOnTheWay'
    BY <1>1, <1>7 DEF Transactions, ClosedOnTheWay, Idle, TypeOK, Goto
  <2> QED
    BY <1>5, <2>1, <2>2 DEF Transactions
<1> QED
  BY <1>2, <1>6, <1>7 DEF Open

LEMMA BeginTransactionTransactions ==
  ASSUME IInv, NEW c \in Context, BeginTransaction(c)
  PROVE  Transactions'
<1> USE DEF IInv, Places
<1>1. /\ pc[c] = "begin" /\ Goto(c, ret[c])
      /\ name' = [name EXCEPT ![c] = NoConn]
      /\ sqlDatabases' = [sqlDatabases EXCEPT ![c][want[c]] = name[c]]
      /\ UNCHANGED <<availableNames, timerPc, timerConn, isOpen, unfinished>>
  BY DEF BeginTransaction, Return, poolVars
<1>2. PICK n \in Conn : n = name[c] /\ Uses(c, n) /\ getDatabaseId[n] = want[c]
                       /\ isOpen[n]
  BY <1>1 DEF TypeOK, NameAt, Uses, Transactions, ClosedOnTheWay
<1>3. /\ availableNames[n] = 0 /\ timerConn # n
      /\ \A b \in Context : Uses(b, n) => b = c
  BY <1>2, InHands
<1>4. \A b \in Context : b # c => name[b] # n
  BY <1>3 DEF Uses
<1>5. want[c] \in DbId /\ sqlDatabases[c][want[c]] = NoConn
  BY <1>1 DEF TypeOK, NameAt, DatabasePcs
<1>6. databases[c][want[c]] = NoConn
  BY <1>5 DEF Transactions, TransactionOfHolder
<1>7. \A b \in Context, d \in DbId : sqlDatabases'[b][d] =
        IF b = c /\ d = want[c] THEN n ELSE sqlDatabases[b][d]
  BY <1>1, <1>2, <1>5 DEF TypeOK
<1>8. \A b \in Context : pc'[b] \in OnTheWay => pc'[b] = pc[b] /\ b # c
  BY <1>1 DEF TypeOK, Goto, Phases, OnTheWay
<1>9. CASE ~enabled[c]
  <2>1. UNCHANGED <<databases, inTransaction>>
    BY <1>9 DEF BeginTransaction
  <2>2. OpenTransactions' /\ AvailableClosed' /\ TransactionHeld'
    BY <1>1, <2>1 DEF Transactions, OpenTransactions, AvailableClosed, TransactionHeld
  <2>3. TransactionOfHolder'
    BY <1>6, <1>7, <2>1 DEF Transactions, TransactionOfHolder
  <2>4. ClosedOnTheWay'
    BY <1>1, <1>8, <2>1 DEF Transactions, ClosedOnTheWay, Idle, TypeOK, OnTheWay
  <2> QED
    BY <2>2, <2>3, <2>4 DEF Transactions
<1>10. CASE enabled[c]
  <2>1. databases' = [databases EXCEPT ![c][want[c]] = n]
    BY <1>2, <1>6, <1>10 DEF BeginTransaction, recorded
  <2>2. PICK begun \in BOOLEAN : inTransaction' = [inTransaction EXCEPT ![n] = @ \/ begun]
    BY <1>2, <1>6, <1>10 DEF BeginTransaction
  <2>3. \A b \in Context, d \in DbId : databases'[b][d] =
          IF b = c /\ d = want[c] THEN n ELSE databases[b][d]
    BY <1>5, <2>1 DEF TypeOK
  <2>4. \A m \in Conn \ {n} : inTransaction'[m] = inTransaction[m]
    BY <2>2 DEF TypeOK
  <2>5. TransactionOfHolder'
    BY <1>7, <2>3 DEF Transactions, TransactionOfHolder
  <2>6. OpenTransactions' /\ AvailableClosed'
    BY <1>1, <1>2, <1>3, <2>4 DEF Transactions, OpenTransactions, AvailableClosed
  <2>7. TransactionHeld'
    <3> SUFFICES ASSUME NEW m \in Conn, inTransaction'[m], ~unfinished'[m]
                 PROVE  \E b \in Context : databases'[b][getDatabaseId[m]] = m
      BY DEF TransactionHeld
    <3>1. CASE m = n
      BY <1>2, <1>5, <2>3, <3>1
    <3>2. CASE m # n
      <4>1. inTransaction[m] /\ ~unfinished[m]
        BY <1>1, <2>4, <3>2
      <4>2. PICK b \in Context : databases[b][getDatabaseId[m]] = m
        BY <4>1 DEF Transactions, TransactionHeld
      <4>3. getDatabaseId[m] \in DbId /\ m # NoConn
        BY PoolAssumption
      <4>4. ~(b = c /\ getDatabaseId[m] = want[c])
        BY <1>6, <4>2, <4>3
      <4> QED
        BY <2>3, <4>2, <4>3, <4>4
    <3> QED
      BY <3>1, <3>2
  <2>8. ClosedOnTheWay'
    BY <1>1, <1>2, <1>3, <1>4, <1>8, <2>4 DEF Transactions, ClosedOnTheWay, Idle, TypeOK,
       OnTheWay, NameAt, TimerAt
  <2> QED
    BY <2>5, <2>6, <2>7, <2>8 DEF Transactions
<1> QED
  BY <1>9, <1>10 DEF TypeOK

LEMMA TimerTransactions ==
  ASSUME IInv, (\E d \in DbId : TimerPop(d)) \/ TimerPush
  PROVE  Transactions'
<1> USE DEF IInv, Places
<1>1. UNCHANGED <<isOpen, inTransaction, unfinished, databases, sqlDatabases, name, pc>>
  BY DEF TimerPop, TimerPush, connVars, controlVars, contextVars
<1>2. TransactionOfHolder' /\ OpenTransactions' /\ TransactionHeld'
  BY <1>1 DEF Transactions, TransactionOfHolder, OpenTransactions, TransactionHeld
<1>3. timerPc' # "push"
  BY DEF TimerPop, TimerPush
<1>4. ClosedOnTheWay'
  BY <1>1, <1>3 DEF Transactions, ClosedOnTheWay, Idle
<1>5. CASE TimerPush
  <2>1. timerConn \in Conn /\ Idle(timerConn)
    BY <1>5 DEF TimerPush, TypeOK, TimerAt, Transactions, ClosedOnTheWay
  <2>2. AvailableClosed'
    BY <1>1, <1>5, <2>1 DEF TimerPush, Transactions, AvailableClosed, TypeOK, push, Idle
  <2> QED
    BY <1>2, <1>4, <2>2 DEF Transactions
<1>6. CASE \E d \in DbId : TimerPop(d)
  <2>1. AvailableClosed'
    BY <1>1, <1>6 DEF TimerPop, Transactions, AvailableClosed
  <2> QED
    BY <1>2, <1>4, <2>1 DEF Transactions
<1> QED
  BY <1>5, <1>6

\* Closing a connection that is in nobody's local variable.
LEMMA CloseTransactions ==
  ASSUME IInv, NEW n \in Conn, close(n), \A b \in Context : name[b] # n,
         UNCHANGED <<databases, sqlDatabases, availableNames, timerConn, name, pc>>,
         timerPc' = "push" => timerConn = n \/ timerPc = "push"
  PROVE  Transactions'
<1> USE DEF IInv, Places
<1>1. /\ \A m \in Conn \ {n} : /\ isOpen'[m] = isOpen[m]
                               /\ inTransaction'[m] = inTransaction[m]
                               /\ unfinished'[m] = unfinished[m]
      /\ ~isOpen'[n] /\ ~inTransaction'[n]
  BY DEF close, TypeOK
<1>2. TransactionOfHolder'
  BY DEF Transactions, TransactionOfHolder
<1>3. OpenTransactions' /\ AvailableClosed'
  BY <1>1 DEF Transactions, OpenTransactions, AvailableClosed
<1>4. TransactionHeld'
  BY <1>1 DEF Transactions, TransactionHeld
<1>5. \A c \in Context : name[c] # NoConn => name[c] \in Conn \ {n}
  BY DEF TypeOK
<1>6. timerPc' = "push" => Idle(timerConn)'
  <2>1. CASE timerConn = n
    BY <1>1, <2>1 DEF Idle
  <2>2. CASE timerConn # n
    BY <1>1, <2>2 DEF Idle, Transactions, ClosedOnTheWay, TypeOK, TimerAt
  <2> QED
    BY <2>1, <2>2
<1>7. ClosedOnTheWay'
  BY <1>1, <1>5, <1>6 DEF Transactions, ClosedOnTheWay, Idle, NameAt
<1> QED
  BY <1>2, <1>3, <1>4, <1>7 DEF Transactions

LEMMA TimerCloseTransactions ==
  ASSUME IInv, TimerClose
  PROVE  Transactions'
<1>1. timerConn \in Conn /\ \A b \in Context : ~Uses(b, timerConn)
  BY AtTimer DEF TimerClose, IInv, Places, TypeOK, TimerAt
<1>2. close(timerConn) /\ UNCHANGED <<databases, sqlDatabases, availableNames, timerConn,
                                      name, pc>>
  BY DEF TimerClose, controlVars, contextVars
<1>3. \A b \in Context : name[b] # timerConn
  BY <1>1 DEF Uses
<1> QED
  BY <1>1, <1>2, <1>3, CloseTransactions

LEMMA ActionClosesTransactions ==
  ASSUME IInv, NEW c \in Context, NEW d \in DbId, ActionCloses(c, d)
  PROVE  Transactions'
<1> USE DEF IInv, Places
<1>1. PICK n \in Conn : n = sqlDatabases[c][d]
  BY DEF ActionCloses, Holds, TypeOK
<1>2. Uses(c, n) /\ name[c] = NoConn
  BY <1>1, PoolAssumption DEF Uses, SlotOf, NameAt, ActionCloses
<1>3. \A b \in Context : Uses(b, n) => b = c
  BY <1>2, InHands
<1>4. \A b \in Context : name[b] # n
  BY <1>2, <1>3, PoolAssumption DEF Uses
<1>5. close(n)
  BY <1>1 DEF ActionCloses
<1>6. UNCHANGED <<databases, sqlDatabases, availableNames, timerConn, timerPc, name, pc>>
  BY DEF ActionCloses, poolVars, controlVars, contextVars
<1> QED
  BY <1>4, <1>5, <1>6, CloseTransactions

LEMMA EndTransactions ==
  ASSUME IInv, NEW c \in Context, NEW d \in DbId, EndTransaction(c, d),
         UNCHANGED <<isOpen, sqlDatabases, availableNames, timerPc, timerConn, name, pc>>
  PROVE  Transactions'
<1> USE DEF IInv, Places
<1>1. PICK n \in Conn : n = databases[c][d]
  BY DEF EndTransaction, TypeOK
<1>2. PICK left \in {FALSE, inTransaction[n]} :
        /\ inTransaction' = [inTransaction EXCEPT ![n] = left]
        /\ unfinished' = [unfinished EXCEPT ![n] = left]
  BY <1>1 DEF EndTransaction
<1>3. \A b \in Context, e \in DbId : databases'[b][e] =
        IF b = c /\ e = d THEN NoConn ELSE databases[b][e]
  BY DEF EndTransaction, TypeOK
<1>4. \A m \in Conn : inTransaction'[m] => inTransaction[m]
  BY <1>2 DEF TypeOK
<1>5. inTransaction'[n] => unfinished'[n]
  BY <1>2 DEF TypeOK
<1>6. \A m \in Conn \ {n} : unfinished'[m] = unfinished[m]
  BY <1>2 DEF TypeOK
<1>7. TransactionOfHolder'
  BY <1>3 DEF Transactions, TransactionOfHolder
<1>8. OpenTransactions' /\ AvailableClosed'
  BY <1>4 DEF Transactions, OpenTransactions, AvailableClosed
<1>9. TransactionHeld'
  <2> SUFFICES ASSUME NEW m \in Conn, inTransaction'[m], ~unfinished'[m]
               PROVE  \E b \in Context : databases'[b][getDatabaseId[m]] = m
    BY DEF TransactionHeld
  <2>1. m # n /\ inTransaction[m] /\ ~unfinished[m]
    BY <1>4, <1>5, <1>6
  <2>2. PICK b \in Context : databases[b][getDatabaseId[m]] = m
    BY <2>1 DEF Transactions, TransactionHeld
  <2>3. ~(b = c /\ getDatabaseId[m] = d)
    BY <1>1, <2>1, <2>2
  <2> QED
    BY <1>3, <2>2, <2>3, PoolAssumption
<1>10. ClosedOnTheWay'
  <2>1. timerPc = "push" => timerConn \in Conn
    BY DEF TypeOK, TimerAt
  <2>2. \A b \in Context : pc[b] \in {"unpool", "open", "openError"} => name[b] \in Conn
    BY DEF TypeOK, NameAt
  <2> QED
    BY <1>4, <2>1, <2>2 DEF Transactions, ClosedOnTheWay, Idle
<1> QED
  BY <1>7, <1>8, <1>9, <1>10 DEF Transactions

LEMMA CommitOrRollbackTransactions ==
  ASSUME IInv, NEW c \in Context, CommitOrRollback(c)
  PROVE  Transactions'
<1>1. UNCHANGED <<isOpen, sqlDatabases, availableNames, timerPc, timerConn, name>>
  BY DEF CommitOrRollback, poolVars
<1>2. CASE (\E d \in DbId : EndTransaction(c, d)) /\ UNCHANGED pc
  BY <1>1, <1>2, EndTransactions
<1>3. CASE Goto(c, IF session[c] THEN "store" ELSE "gc")
           /\ UNCHANGED <<inTransaction, unfinished, databases>>
  <2>1. (IF session[c] THEN "store" ELSE "gc") \in Phases
    BY DEF Phases
  <2>2. \A b \in Context : pc'[b] \in OnTheWay => pc'[b] = pc[b]
    BY <1>3, <2>1, OffTheWay, PoolAssumption DEF IInv, Places
  <2> QED
    BY <1>1, <1>3, <2>2, TransactionsSame DEF IInv
<1> QED
  BY <1>2, <1>3 DEF CommitOrRollback

LEMMA ReleaseRollbackTransactions ==
  ASSUME IInv, NEW c \in Context, ReleaseRollback(c)
  PROVE  Transactions'
BY EndTransactions DEF ReleaseRollback, poolVars, controlVars

LEMMA PoolTransactions ==
  ASSUME IInv, NEW c \in Context, NEW d \in DbId, Pool(c, d)
  PROVE  Transactions'
<1> USE DEF IInv, Places
<1>1. UNCHANGED <<isOpen, inTransaction, unfinished, databases, availableNames, timerPc,
                  timerConn, name>>
  BY DEF Pool, connVars
<1>2. sqlDatabases' = [sqlDatabases EXCEPT ![c][d] = NoConn] /\ AllEnded(c)
  BY DEF Pool, MayPool
<1>3. Goto(c, "pooled")
  BY DEF Pool
<1>4. TransactionOfHolder'
  BY <1>1, <1>2 DEF Transactions, TransactionOfHolder, AllEnded, TypeOK
<1>5. OpenTransactions' /\ AvailableClosed' /\ TransactionHeld'
  BY <1>1 DEF Transactions, OpenTransactions, AvailableClosed, TransactionHeld
<1>6. \A b \in Context : pc'[b] \in OnTheWay => pc'[b] = pc[b]
  BY <1>3, OffTheWay DEF Phases
<1>7. ClosedOnTheWay'
  BY <1>1, <1>6 DEF Transactions, ClosedOnTheWay, Idle, OnTheWay
<1> QED
  BY <1>4, <1>5, <1>7 DEF Transactions

-----------------------------------------------------------------------------
(* Theorems *)

LEMMA NextIInv == IInv /\ [Next]_vars => IInv'
<1> SUFFICES ASSUME IInv, [Next]_vars PROVE IInv'
  OBVIOUS
<1>1. Places
  BY DEF IInv
<1>2. ASSUME NEW c \in Context, database(c)
      PROVE  IInv'
  <2>1. CASE PopCache(c)
    BY <1>1, <2>1, PopCachePlaces, PopCacheTransactions DEF IInv
  <2>2. CASE Unpool(c)
    BY <1>1, <2>2, UnpoolPlaces, PutBackTransactions DEF IInv
  <2>3. CASE PopStack(c)
    BY <1>1, <2>3, PopStackPlaces, PopStackTransactions DEF IInv
  <2>4. CASE Open(c)
    BY <1>1, <2>4, OpenPlaces, OpenTransactionsStep DEF IInv
  <2>5. CASE OpenError(c)
    BY <1>1, <2>5, OpenErrorPlaces, PutBackTransactions DEF IInv
  <2>6. CASE BeginTransaction(c)
    BY <1>1, <2>6, BeginTransactionPlaces, BeginTransactionTransactions DEF IInv
  <2> QED
    BY <1>2, <2>1, <2>2, <2>3, <2>4, <2>5, <2>6 DEF database
<1>3. ASSUME NEW c \in Context, Proceed(c)
      PROVE  IInv'
  <2>0. PICK d0 \in DbId : TRUE
    BY PoolAssumption
  <2>1. CASE database(c)
    BY <1>2, <2>1
  <2>2. CASE CommitOrRollback(c)
    BY <1>1, <2>2, CommitOrRollbackPlaces, CommitOrRollbackTransactions DEF IInv
  <2>3. CASE StoreSession(c)
    BY <1>1, <2>0, <2>3, StoreSessionPlaces, QuietTransactions DEF IInv
  <2>4. CASE SessionStored(c)
    BY <1>1, <2>0, <2>4, SessionStoredPlaces, QuietTransactions DEF IInv
  <2>5. CASE CollectGarbage(c)
    BY <1>1, <2>0, <2>5, CollectGarbagePlaces, QuietTransactions DEF IInv
  <2>6. CASE ReleaseRollback(c)
    BY <1>1, <2>6, ReleaseRollbackPlaces, ReleaseRollbackTransactions DEF IInv
  <2>7. ASSUME NEW d \in DbId, Pool(c, d) PROVE IInv'
    BY <1>1, <2>7, PoolPlaces, PoolTransactions DEF IInv
  <2>8. CASE SetLastCachedTime(c)
    BY <1>1, <2>0, <2>8, SetLastCachedTimePlaces, QuietTransactions DEF IInv
  <2>9. CASE EndRequest(c)
    BY <1>1, <2>0, <2>9, EndRequestPlaces, QuietTransactions DEF IInv
  <2> QED
    BY <1>3, <2>1, <2>2, <2>3, <2>4, <2>5, <2>6, <2>7, <2>8, <2>9 DEF Proceed
<1>4. ASSUME NEW c \in Context, Request(c)
      PROVE  IInv'
  <2>0. PICK d0 \in DbId : TRUE
    BY PoolAssumption
  <2>1. CASE NewContext(c)
    BY <1>1, <2>0, <2>1, NewContextPlaces, QuietTransactions DEF IInv
  <2>2. CASE StartRequest(c)
    BY <1>1, <2>0, <2>2, StartRequestPlaces, QuietTransactions DEF IInv
  <2>3. CASE SetTransactionEnabled(c)
    BY <1>1, <2>0, <2>3, SetTransactionEnabledPlaces, QuietTransactions DEF IInv
  <2>4. ASSUME NEW d \in DbId, UseDatabase(c, d) PROVE IInv'
    BY <1>1, <2>4, UseDatabasePlaces, QuietTransactions DEF IInv
  <2>5. ASSUME NEW d \in DbId, ActionCloses(c, d) PROVE IInv'
    BY <1>1, <2>5, ActionClosesPlaces, ActionClosesTransactions DEF IInv
  <2>6. CASE ReturnFromAction(c)
    BY <1>1, <2>0, <2>6, ReturnFromActionPlaces, QuietTransactions DEF IInv
  <2>7. CASE Throw(c)
    BY <1>1, <2>0, <2>7, ThrowPlaces, QuietTransactions DEF IInv
  <2> QED
    BY <1>4, <2>1, <2>2, <2>3, <2>4, <2>5, <2>6, <2>7 DEF Request
<1>5. ASSUME NEW d \in DbId, Expire(d)
      PROVE  IInv'
  <2>1. Places'
    BY <1>1, <1>5, ExpirePlaces
  <2>2. Transactions'
    <3>1. UNCHANGED <<isOpen, inTransaction, unfinished, databases, sqlDatabases,
                      availableNames, timerPc, timerConn, name, pc>>
      BY <1>5 DEF Expire, connVars, controlVars, contextVars
    <3> QED
      BY <3>1, TransactionsSame DEF IInv
  <2> QED
    BY <2>1, <2>2 DEF IInv
<1>6. ASSUME NEW d \in DbId, TimerPop(d)
      PROVE  IInv'
  BY <1>1, <1>6, TimerPopPlaces, TimerTransactions DEF IInv
<1>7. CASE TimerClose
  BY <1>1, <1>7, TimerClosePlaces, TimerCloseTransactions DEF IInv
<1>8. CASE TimerPush
  BY <1>1, <1>8, TimerPushPlaces, TimerTransactions DEF IInv
<1>9. CASE UNCHANGED vars
  <2>1. UNCHANGED <<availableNames, cachedDatabase, expired, timerPc, timerConn,
                    isOpen, inTransaction, unfinished, pc, ret, want, name,
                    sqlDatabases, databases, enabled, session, openFailed>>
    BY <1>9 DEF vars, poolVars, connVars, controlVars, contextVars
  <2>2. TypeOK' /\ NameAt' /\ TimerAt' /\ SlotOf'
    BY <1>1, <2>1 DEF Places, TypeOK, NameAt, TimerAt, SlotOf
  <2>3. NameInOnePlace' /\ Transactions'
    BY <1>1, <2>1, PlaceSame, TransactionsSame DEF IInv, Places
  <2> QED
    BY <2>2, <2>3 DEF IInv, Places
<1> QED
  BY <1>3, <1>4, <1>5, <1>6, <1>7, <1>8, <1>9 DEF Next, Timer

\* The invariant that the proofs of this module rest on: which thread has which
\* connection at each step of database(), pool() and the timer.
THEOREM SpecIInv == Spec => []IInv
<1>1. Init => IInv
  BY InitIInv
<1>2. IInv /\ [Next]_vars => IInv'
  BY NextIInv
<1> QED
  BY <1>1, <1>2, PTL DEF Spec

\* Every variable keeps its type.
THEOREM SpecTypeOK == Spec => []TypeOK
<1>1. IInv => TypeOK
  BY DEF IInv, Places
<1> QED
  BY <1>1, SpecIInv, PTL

\* No connection is lent twice and none is lost, whatever open() answers,
\* whatever is thrown, and wherever the timer is (tsqldatabasepool.cpp).
THEOREM SpecNameInOnePlace == Spec => []NameInOnePlace
<1>1. IInv => NameInOnePlace
  BY DEF IInv, Places
<1> QED
  BY <1>1, SpecIInv, PTL

\* TSqlTransaction never has a connection that its context does not hold.
THEOREM SpecTransactionOfHolder == Spec => []TransactionOfHolder
<1>1. IInv => TransactionOfHolder
  BY DEF IInv, Transactions
<1> QED
  BY <1>1, SpecIInv, PTL

\* The names in the stack are of closed connections.
THEOREM SpecAvailableClosed == Spec => []AvailableClosed
<1>1. IInv => AvailableClosed
  BY DEF IInv, Transactions
<1> QED
  BY <1>1, SpecIInv, PTL

\* No request leaves its transaction to the next user of a connection, unless
\* the DBMS refused to end it.
THEOREM SpecPooledWithoutTransaction == Spec => []PooledWithoutTransaction
<1>1. IInv => PooledWithoutTransaction
  <2> SUFFICES ASSUME IInv, NEW n \in Conn, InPool(n) > 0, inTransaction[n], ~unfinished[n]
               PROVE  FALSE
    BY DEF PooledWithoutTransaction, IInv, Places, TypeOK
  <2>1. availableNames[n] > 0 \/ cachedDatabase[n] > 0
    <3>1. availableNames[n] \in Nat /\ cachedDatabase[n] \in Nat
      BY DEF IInv, Places, TypeOK
    <3> QED
      BY <3>1 DEF InPool
  <2>2. \A b \in Context : ~Uses(b, n)
    BY <2>1, InStacks DEF IInv
  <2>3. PICK c \in Context : databases[c][getDatabaseId[n]] = n
    BY DEF IInv, Transactions, TransactionHeld
  <2>4. sqlDatabases[c][getDatabaseId[n]] = n
    BY <2>3, PoolAssumption DEF IInv, Transactions, TransactionOfHolder
  <2> QED
    BY <2>2, <2>4 DEF Uses
<1> QED
  BY <1>1, SpecIInv, PTL

-----------------------------------------------------------------------------
(* The session is stored outside the transactions of the request. *)

\* Where a request with a session has found its session already: the context
\* holds the connection of the session store from then on.
AfterLookUp(c) ==
  \/ pc[c] \in {"enable", "action", "commit", "rollback", "store", "stored"}
  \/ pc[c] \in DatabasePcs /\ ret[c] = "action"

SessionAt(c) ==
  /\ pc[c] \in DatabasePcs => ret[c] \in {"enable", "action", "stored", "release"}
  /\ pc[c] \in DatabasePcs /\ ret[c] = "enable" => want[c] = SessionDb
  /\ pc[c] \in DatabasePcs /\ ret[c] = "stored" => openFailed[c]
  /\ pc[c] = "openError" => openFailed[c]
  /\ pc[c] = "store" => session[c]
  /\ session[c] /\ ~openFailed[c] /\ AfterLookUp(c) => Holds(c, SessionDb)
  /\ pc[c] \in {"store", "stored"} /\ ~openFailed[c] => databases[c][SessionDb] = NoConn

SessionInv == \A c \in Context : SessionAt(c)

\* A step that leaves the variables of a context alone.
LEMMA SessionSame ==
  ASSUME NEW c \in Context, SessionAt(c), pc'[c] = pc[c], ret'[c] = ret[c],
         want'[c] = want[c], session'[c] = session[c], openFailed'[c] = openFailed[c],
         sqlDatabases'[c] = sqlDatabases[c], databases'[c] = databases[c]
  PROVE  SessionAt(c)'
BY DEF SessionAt, AfterLookUp, Holds

\* The steps of a context are its own.
LEMMA OthersSame ==
  ASSUME TypeOK, NEW b \in Context, Proceed(b) \/ Request(b), NEW c \in Context, c # b
  PROVE  /\ pc'[c] = pc[c] /\ ret'[c] = ret[c] /\ want'[c] = want[c]
         /\ session'[c] = session[c] /\ openFailed'[c] = openFailed[c]
         /\ sqlDatabases'[c] = sqlDatabases[c] /\ databases'[c] = databases[c]
<1> USE DEF TypeOK, controlVars, contextVars, Goto, Return, getSqlDatabase, EndTransaction
<1>1. CASE PopCache(b) \/ Unpool(b) \/ PopStack(b)
  BY <1>1 DEF PopCache, Unpool, PopStack
<1>2. CASE Open(b) \/ OpenError(b)
  BY <1>2 DEF Open, OpenError
<1>3. CASE BeginTransaction(b)
  BY <1>3 DEF BeginTransaction
<1>4. CASE CommitOrRollback(b) \/ ReleaseRollback(b)
  BY <1>4 DEF CommitOrRollback, ReleaseRollback
<1>5. CASE StoreSession(b) \/ SessionStored(b) \/ CollectGarbage(b)
  BY <1>5 DEF StoreSession, SessionStored, CollectGarbage
<1>6. CASE (\E d \in DbId : Pool(b, d)) \/ SetLastCachedTime(b) \/ EndRequest(b)
  BY <1>6 DEF Pool, SetLastCachedTime, EndRequest
<1>7. CASE NewContext(b) \/ StartRequest(b) \/ SetTransactionEnabled(b)
  BY <1>7 DEF NewContext, StartRequest, SetTransactionEnabled, LookUpSession
<1>8. CASE (\E d \in DbId : UseDatabase(b, d) \/ ActionCloses(b, d))
           \/ ReturnFromAction(b) \/ Throw(b)
  BY <1>8 DEF UseDatabase, ActionCloses, ReturnFromAction, Throw
<1> QED
  BY <1>1, <1>2, <1>3, <1>4, <1>5, <1>6, <1>7, <1>8 DEF Proceed, Request, database

LEMMA DatabaseSession ==
  ASSUME IInv, NEW c \in Context, SessionAt(c), database(c)
  PROVE  SessionAt(c)'
<1> USE PoolAssumption DEF SessionAt, AfterLookUp, Holds
<1>1. TypeOK
  BY DEF IInv, Places
<1>2. CASE PopCache(c) \/ Unpool(c) \/ PopStack(c)
  <2>1. /\ pc[c] \in DatabasePcs /\ pc'[c] \in DatabasePcs \ {"openError"}
        /\ UNCHANGED <<ret, want, session, openFailed, sqlDatabases, databases>>
    BY <1>1, <1>2 DEF PopCache, Unpool, PopStack, TypeOK, Goto, contextVars, DatabasePcs
  <2> QED
    BY <2>1 DEF DatabasePcs
<1>3. CASE Open(c)
  <2>1. /\ pc[c] = "open" /\ pc'[c] \in {"begin", "openError"}
        /\ openFailed'[c] = (openFailed[c] \/ pc'[c] = "openError")
        /\ UNCHANGED <<ret, want, session, sqlDatabases, databases>>
    BY <1>1, <1>3 DEF Open, TypeOK, Goto
  <2> QED
    BY <2>1 DEF DatabasePcs
<1>4. CASE OpenError(c)
  <2>1. /\ pc[c] = "openError" /\ pc'[c] = ret[c]
        /\ UNCHANGED <<session, openFailed, sqlDatabases, databases>>
    BY <1>1, <1>4 DEF OpenError, Return, TypeOK, Goto, contextVars
  <2> QED
    BY <2>1 DEF DatabasePcs
<1>5. CASE BeginTransaction(c)
  <2>1. /\ pc[c] = "begin" /\ pc'[c] = ret[c] /\ name[c] \in Conn
        /\ sqlDatabases'[c] = [sqlDatabases[c] EXCEPT ![want[c]] = name[c]]
        /\ want[c] \in DbId /\ UNCHANGED <<session, openFailed>>
    BY <1>1, <1>5 DEF BeginTransaction, Return, TypeOK, Goto, IInv, Places, NameAt
  <2>2. Holds(c, SessionDb) \/ want[c] = SessionDb => sqlDatabases'[c][SessionDb] # NoConn
    BY <1>1, <2>1 DEF TypeOK
  <2> QED
    BY <2>1, <2>2 DEF DatabasePcs
<1> QED
  BY <1>2, <1>3, <1>4, <1>5 DEF database

LEMMA ProceedSession ==
  ASSUME IInv, NEW c \in Context, SessionAt(c), Proceed(c), ~database(c)
  PROVE  SessionAt(c)'
<1> USE PoolAssumption DEF SessionAt, AfterLookUp, Holds
<1>1. TypeOK
  BY DEF IInv, Places
<1>2. CASE CommitOrRollback(c)
  <2>1. CASE UNCHANGED pc
    BY <1>1, <1>2, <2>1 DEF CommitOrRollback, TypeOK, DatabasePcs
  <2>2. CASE AllEnded(c) /\ Goto(c, IF session[c] THEN "store" ELSE "gc")
             /\ UNCHANGED databases
    <3>1. /\ pc[c] \in {"commit", "rollback"}
          /\ pc'[c] = IF session[c] THEN "store" ELSE "gc"
          /\ UNCHANGED <<session, openFailed, sqlDatabases, databases>>
          /\ databases[c][SessionDb] = NoConn
      BY <1>1, <1>2, <2>2 DEF CommitOrRollback, TypeOK, Goto, AllEnded
    <3> QED
      BY <3>1 DEF DatabasePcs
  <2> QED
    BY <1>2, <2>1, <2>2 DEF CommitOrRollback
<1>3. CASE StoreSession(c)
  <2>1. /\ pc[c] = "store" /\ UNCHANGED <<session, openFailed, sqlDatabases, databases>>
        /\ \/ pc'[c] = "stored" /\ Holds(c, SessionDb)
           \/ pc'[c] = "cache" /\ ret'[c] = "stored" /\ ~Holds(c, SessionDb)
    BY <1>1, <1>3 DEF StoreSession, getSqlDatabase, TypeOK, Goto, contextVars
  <2> QED
    BY <2>1 DEF DatabasePcs
<1>4. CASE SessionStored(c) \/ ReleaseRollback(c) \/ (\E d \in DbId : Pool(c, d))
           \/ SetLastCachedTime(c) \/ EndRequest(c)
  <2>1. pc'[c] \in {"gc", "release", "pooled", "idle"}
    BY <1>1, <1>4 DEF SessionStored, ReleaseRollback, Pool, SetLastCachedTime, EndRequest,
       TypeOK, Goto, controlVars
  <2> QED
    BY <2>1 DEF DatabasePcs
<1>5. CASE CollectGarbage(c)
  <2>1. pc'[c] = "release" \/ (pc'[c] = "cache" /\ ret'[c] = "release")
    BY <1>1, <1>5 DEF CollectGarbage, getSqlDatabase, TypeOK, Goto
  <2> QED
    BY <2>1 DEF DatabasePcs
<1> QED
  BY <1>2, <1>3, <1>4, <1>5 DEF Proceed

LEMMA RequestSession ==
  ASSUME IInv, NEW c \in Context, SessionAt(c), Request(c)
  PROVE  SessionAt(c)'
<1> USE PoolAssumption DEF SessionAt, AfterLookUp, Holds
<1>1. TypeOK
  BY DEF IInv, Places
<1>2. CASE NewContext(c)
  BY <1>2 DEF NewContext, controlVars, DatabasePcs
<1>3. CASE StartRequest(c)
  <2>1. /\ UNCHANGED <<openFailed, sqlDatabases, databases>>
        /\ \/ pc'[c] = "enable" /\ (session'[c] => Holds(c, SessionDb))
           \/ pc'[c] = "cache" /\ ret'[c] = "enable" /\ want'[c] = SessionDb
    BY <1>1, <1>3 DEF StartRequest, LookUpSession, getSqlDatabase, TypeOK, Goto
  <2> QED
    BY <2>1 DEF DatabasePcs
<1>4. CASE SetTransactionEnabled(c) \/ ReturnFromAction(c) \/ Throw(c)
  <2>1. /\ pc[c] \in {"enable", "action", "stored"}
        /\ pc'[c] \in {"action", "commit", "rollback", "gc", "release"}
        /\ pc'[c] \in {"action", "commit", "rollback"} => pc[c] \in {"enable", "action"}
        /\ UNCHANGED <<session, openFailed, sqlDatabases, databases>>
    BY <1>1, <1>4 DEF SetTransactionEnabled, ReturnFromAction, Throw, TypeOK, Goto,
       contextVars
  <2> QED
    BY <2>1 DEF DatabasePcs
<1>5. ASSUME NEW d \in DbId, UseDatabase(c, d)
      PROVE  SessionAt(c)'
  <2>1. /\ pc[c] = "action" /\ pc'[c] = "cache" /\ ret'[c] = "action"
        /\ UNCHANGED <<session, openFailed, sqlDatabases, databases>>
    BY <1>1, <1>5 DEF UseDatabase, getSqlDatabase, TypeOK, Goto, contextVars
  <2> QED
    BY <2>1 DEF DatabasePcs
<1>6. ASSUME NEW d \in DbId, ActionCloses(c, d)
      PROVE  SessionAt(c)'
  BY <1>6 DEF ActionCloses, controlVars, contextVars
<1> QED
  BY <1>2, <1>3, <1>4, <1>5, <1>6 DEF Request

LEMMA NextSession == IInv /\ SessionInv /\ [Next]_vars => SessionInv'
<1> SUFFICES ASSUME IInv, SessionInv, [Next]_vars, NEW c \in Context
             PROVE  SessionAt(c)'
  BY DEF SessionInv
<1>1. SessionAt(c) /\ TypeOK
  BY DEF SessionInv, IInv, Places
<1>2. ASSUME NEW b \in Context, Proceed(b) \/ Request(b)
      PROVE  SessionAt(c)'
  <2>1. CASE b = c
    BY <1>1, <1>2, <2>1, DatabaseSession, ProceedSession, RequestSession
  <2>2. CASE b # c
    BY <1>1, <1>2, <2>2, OthersSame, SessionSame
  <2> QED
    BY <2>1, <2>2
<1>3. CASE (\E d \in DbId : Expire(d) \/ TimerPop(d)) \/ Timer \/ UNCHANGED vars
  <2>1. UNCHANGED <<pc, ret, want, session, openFailed, sqlDatabases, databases>>
    BY <1>3 DEF Expire, TimerPop, Timer, TimerClose, TimerPush, vars, controlVars, contextVars
  <2> QED
    BY <1>1, <2>1, SessionSame
<1> QED
  BY <1>2, <1>3 DEF Next

\* A session is stored when the transaction of its connection has ended, so that
\* release() does not roll it back, whatever the databases, the controllers'
\* settings and the exceptions (tactioncontext.cpp:251-259).
THEOREM SpecSessionStoredDurably == Spec => []SessionStoredDurably
<1>1. Init => SessionInv
  BY PoolAssumption DEF Init, SessionInv, SessionAt, AfterLookUp, DatabasePcs
<1>2. IInv /\ SessionInv /\ [Next]_vars => SessionInv'
  BY NextSession
<1>3. SessionInv => SessionStoredDurably
  BY DEF SessionInv, SessionAt, SessionStoredDurably
<1> QED
  BY <1>1, <1>2, <1>3, SpecIInv, PTL DEF Spec

-----------------------------------------------------------------------------
(* The pool implements the lease of connections. *)

holder == [n \in Conn |-> holderOf(n)]

\* holderOf(n) is the context with n in its slot, if there is one.
Holders ==
  \A n \in Conn :
    /\ holderOf(n) \in Context \cup {NoContext}
    /\ \A c \in Context : holderOf(n) = c <=> sqlDatabases[c][getDatabaseId[n]] = n

LEMMA IInvHolders == IInv => Holders
<1> SUFFICES ASSUME IInv, NEW n \in Conn
             PROVE  /\ holderOf(n) \in Context \cup {NoContext}
                    /\ \A c \in Context :
                         holderOf(n) = c <=> sqlDatabases[c][getDatabaseId[n]] = n
  BY DEF Holders
<1>1. \A b, c \in Context : sqlDatabases[b][getDatabaseId[n]] = n
                            /\ sqlDatabases[c][getDatabaseId[n]] = n => b = c
  BY InHands DEF Uses, IInv
<1>2. CASE \E c \in Context : sqlDatabases[c][getDatabaseId[n]] = n
  <2>1. /\ holderOf(n) \in Context
        /\ sqlDatabases[holderOf(n)][getDatabaseId[n]] = n
    BY <1>2 DEF holderOf
  <2> QED
    BY <1>1, <2>1
<1>3. CASE ~\E c \in Context : sqlDatabases[c][getDatabaseId[n]] = n
  <2>1. holderOf(n) = NoContext
    BY <1>3 DEF holderOf
  <2> QED
    BY <1>3, <2>1, PoolAssumption
<1> QED
  BY <1>2, <1>3

LEMMA LeaseInit == Init => Lease!Init
BY PoolAssumption DEF Init, Lease!Init, holderOf

LEMMA LeaseSame ==
  ASSUME UNCHANGED sqlDatabases
  PROVE  UNCHANGED holder
BY DEF holder, holderOf

LEMMA LeaseLend ==
  ASSUME IInv, Holders, Holders', NEW c \in Context, BeginTransaction(c)
  PROVE  \E n \in Conn : Lease!Lend(c, n)
<1>1. PICK n \in Conn : n = name[c] /\ getDatabaseId[n] = want[c] /\ want[c] \in DbId
  BY DEF BeginTransaction, IInv, Places, NameAt, TypeOK
<1>2. sqlDatabases[c][want[c]] = NoConn /\ Uses(c, n)
  BY <1>1 DEF BeginTransaction, IInv, Places, NameAt, Uses, DatabasePcs
<1>3. sqlDatabases' = [sqlDatabases EXCEPT ![c][want[c]] = n]
  BY <1>1 DEF BeginTransaction
<1>4. \A b \in Context, d \in DbId : sqlDatabases'[b][d] =
        IF b = c /\ d = want[c] THEN n ELSE sqlDatabases[b][d]
  BY <1>1, <1>3 DEF IInv, Places, TypeOK
<1>5. holderOf(n) = NoContext
  <2>1. \A b \in Context : Uses(b, n) => b = c
    BY <1>2, InHands DEF IInv
  <2>2. sqlDatabases[c][getDatabaseId[n]] # n
    BY <1>1, <1>2, PoolAssumption
  <2>3. \A b \in Context : sqlDatabases[b][getDatabaseId[n]] # n
    BY <2>1, <2>2 DEF Uses
  <2> QED
    BY <2>3 DEF holderOf
<1>6. \A m \in Conn : getDatabaseId[m] = getDatabaseId[n] => holderOf(m) # c
  BY <1>1, <1>2, PoolAssumption DEF Holders
<1>7. holder' = [holder EXCEPT ![n] = c]
  <2>1. holderOf(n)' = c
    <3>1. sqlDatabases'[c][getDatabaseId[n]] = n
      BY <1>1, <1>4
    <3> QED
      BY <3>1 DEF Holders
  <2>2. ASSUME NEW m \in Conn, m # n
        PROVE  holderOf(m)' = holderOf(m)
    <3>1. getDatabaseId[m] \in DbId /\ m # NoConn
      BY PoolAssumption
    <3>2. \A b \in Context : sqlDatabases'[b][getDatabaseId[m]] = m
                             <=> sqlDatabases[b][getDatabaseId[m]] = m
      BY <1>2, <1>4, <2>2, <3>1
    <3> QED
      BY <3>2 DEF holderOf
  <2> QED
    BY <2>1, <2>2 DEF holder
<1> QED
  BY <1>5, <1>6, <1>7 DEF Lease!Lend, holder

LEMMA LeaseGiveBack ==
  ASSUME IInv, Holders, Holders', NEW c \in Context, NEW d \in DbId, Pool(c, d)
  PROVE  \E n \in Conn : Lease!GiveBack(n)
<1>1. PICK n \in Conn : n = sqlDatabases[c][d] /\ getDatabaseId[n] = d
  BY DEF Pool, Holds, IInv, Places, TypeOK, SlotOf
<1>2. \A b \in Context, e \in DbId : sqlDatabases'[b][e] =
        IF b = c /\ e = d THEN NoConn ELSE sqlDatabases[b][e]
  BY DEF Pool, IInv, Places, TypeOK
<1>3. holderOf(n) = c
  BY <1>1 DEF Holders
<1>4. holder' = [holder EXCEPT ![n] = NoContext]
  <2>1. holderOf(n)' = NoContext
    <3>1. \A b \in Context : sqlDatabases[b][d] = n => b = c
      BY <1>1, <1>3 DEF Holders
    <3>2. \A b \in Context : sqlDatabases'[b][getDatabaseId[n]] # n
      BY <1>1, <1>2, <3>1, PoolAssumption
    <3> QED
      BY <3>2 DEF holderOf
  <2>2. ASSUME NEW m \in Conn, m # n
        PROVE  holderOf(m)' = holderOf(m)
    <3>1. getDatabaseId[m] \in DbId /\ m # NoConn
      BY PoolAssumption
    <3>2. \A b \in Context : sqlDatabases'[b][getDatabaseId[m]] = m
                             <=> sqlDatabases[b][getDatabaseId[m]] = m
      BY <1>1, <1>2, <2>2, <3>1
    <3> QED
      BY <3>2 DEF holderOf
  <2> QED
    BY <2>1, <2>2 DEF holder
<1> QED
  BY <1>3, <1>4, PoolAssumption DEF Lease!GiveBack, holder

\* All other steps keep the slots.
LEMMA LeaseStep ==
  ASSUME IInv, Holders, Holders', [Next]_vars
  PROVE  Lease!Next \/ UNCHANGED holder
<1>1. ASSUME NEW c \in Context, BeginTransaction(c)
      PROVE  Lease!Next
  BY <1>1, LeaseLend DEF Lease!Next
<1>2. ASSUME NEW c \in Context, NEW d \in DbId, Pool(c, d)
      PROVE  Lease!Next
  BY <1>2, LeaseGiveBack DEF Lease!Next
<1>3. ASSUME NEW c \in Context,
             \/ PopCache(c) \/ Unpool(c) \/ PopStack(c) \/ Open(c) \/ OpenError(c)
             \/ CommitOrRollback(c) \/ StoreSession(c) \/ SessionStored(c)
             \/ CollectGarbage(c) \/ ReleaseRollback(c) \/ SetLastCachedTime(c)
             \/ EndRequest(c) \/ Request(c)
      PROVE  UNCHANGED sqlDatabases
  BY <1>3 DEF PopCache, Unpool, PopStack, Open, OpenError, CommitOrRollback, StoreSession,
     SessionStored, CollectGarbage, ReleaseRollback, SetLastCachedTime, EndRequest, Request,
     NewContext, StartRequest, SetTransactionEnabled, UseDatabase, ActionCloses,
     ReturnFromAction, Throw, contextVars
<1>4. ASSUME (\E d \in DbId : Expire(d) \/ TimerPop(d)) \/ Timer \/ UNCHANGED vars
      PROVE  UNCHANGED sqlDatabases
  BY <1>4 DEF Expire, TimerPop, Timer, TimerClose, TimerPush, vars, contextVars
<1> QED
  BY <1>1, <1>2, <1>3, <1>4, LeaseSame DEF Next, Proceed, database

\* The pool lends each connection to one context at a time, and to a context at
\* most one connection of each database: database(), getSqlDatabase(), pool()
\* and the timer implement ConnectionLease.
THEOREM SpecLease == Spec => LeaseSpec
<1>1. Init => Lease!Init
  BY LeaseInit
<1>2. IInv => Holders
  BY IInvHolders
<1>3. IInv /\ Holders /\ Holders' /\ [Next]_vars => [Lease!Next]_holder
  BY LeaseStep
<1>4. Spec => []IInv
  BY SpecIInv
<1> QED
  BY <1>1, <1>2, <1>3, <1>4, PTL DEF Spec, LeaseSpec, Lease!Spec, holder

=============================================================================
