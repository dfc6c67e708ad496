------------------------ MODULE KvsDatabasePoolProofs ------------------------
(***************************************************************************)
(* Proofs about KvsDatabasePool for every set of contexts, types and       *)
(* connections: each connection name is at one place or lost by a failed   *)
(* open(), available connections are closed, and the pool implements the   *)
(* lease of connections.                                                   *)
(***************************************************************************)
EXTENDS KvsDatabasePool, TLAPS

(* The inductive invariant, in named parts. *)

\* A thread has a name in its local variable between pop() and return, and then
\* the slot of the type it wants is empty.
NameAt ==
  \A c \in Context :
    /\ name[c] # NoConn <=> pc[c] \in {"unpool", "open", "lent"}
    /\ name[c] # NoConn => typeOf[name[c]] = type[c]
    /\ pc[c] \in {"cache", "unpool", "stack", "open", "lent"} =>
         kvsDatabases[c][type[c]] = NoConn

\* The timer has a name between its pop() and its push().
TimerAt == timerConn # NoConn <=> timerPc # "wait"

\* The slot of a type has a connection of that type.
SlotOf ==
  \A c \in Context, t \in Type :
    kvsDatabases[c][t] # NoConn => typeOf[kvsDatabases[c][t]] = t

\* Closed names are those on the way to the stack or to open().
ClosedOnTheWay ==
  /\ timerPc = "push" => ~isOpen[timerConn]
  /\ \A c \in Context : pc[c] \in {"unpool", "open"} => ~isOpen[name[c]]

Slots == NameAt /\ TimerAt /\ SlotOf

Closed == AvailableClosed /\ ClosedOnTheWay

IInv == TypeOK /\ NameInOnePlace /\ Slots /\ Closed

LEMMA InitIInv == Init => IInv
<1> SUFFICES ASSUME Init PROVE IInv
  OBVIOUS
<1> USE KvsAssumption DEF Init
<1>1. TypeOK
  BY DEF TypeOK, Pcs
<1>2. NameInOnePlace
  BY DEF NameInOnePlace, AtOnePlace, InPool, Uses
<1>3. Slots /\ Closed
  BY DEF Slots, NameAt, TimerAt, SlotOf, Closed, AvailableClosed, ClosedOnTheWay
<1> QED
  BY <1>1, <1>2, <1>3 DEF IInv

-----------------------------------------------------------------------------
(* The names: a step moves at most one, from one place to the next. *)

\* A name at the same place as before.
LEMMA Stays ==
  ASSUME NameInOnePlace, NEW n \in Conn, InPool(n)' = InPool(n),
         timerConn' = n <=> timerConn = n, n \in lost' <=> n \in lost,
         \A b \in Context : Uses(b, n)' <=> Uses(b, n)
  PROVE  AtOnePlace(n)'
BY DEF NameInOnePlace, AtOnePlace

\* A name that is now at one place and nowhere else.
LEMMA Moved ==
  ASSUME NEW n \in Conn,
         \/ /\ InPool(n)' = 1 /\ timerConn' # n /\ n \notin lost'
            /\ \A b \in Context : ~Uses(b, n)'
         \/ /\ InPool(n)' = 0 /\ timerConn' = n /\ n \notin lost'
            /\ \A b \in Context : ~Uses(b, n)'
         \/ /\ InPool(n)' = 0 /\ timerConn' # n /\ n \in lost'
            /\ \A b \in Context : ~Uses(b, n)'
         \/ /\ InPool(n)' = 0 /\ timerConn' # n /\ n \notin lost'
            /\ \E c \in Context : \A b \in Context : Uses(b, n)' <=> b = c
  PROVE  AtOnePlace(n)'
BY DEF AtOnePlace

\* A step that moves no name.
LEMMA PlaceSame ==
  ASSUME NameInOnePlace,
         UNCHANGED <<availableNames, cachedDatabase, timerConn, lost, name, kvsDatabases>>
  PROVE  NameInOnePlace'
BY Stays DEF NameInOnePlace, InPool, Uses

\* What is at one place is not at another.
LEMMA InStacks ==
  ASSUME TypeOK, NameInOnePlace, NEW n \in Conn,
         availableNames[n] > 0 \/ cachedDatabase[n] > 0
  PROVE  /\ InPool(n) = 1 /\ timerConn # n /\ n \notin lost
         /\ \A b \in Context : ~Uses(b, n)
<1>1. availableNames[n] \in Nat /\ cachedDatabase[n] \in Nat
  BY DEF TypeOK
<1>2. AtOnePlace(n)
  BY DEF NameInOnePlace
<1>3. InPool(n) = 1
  BY <1>1, <1>2 DEF AtOnePlace, InPool
<1> QED
  BY <1>2, <1>3 DEF AtOnePlace

LEMMA InHands ==
  ASSUME TypeOK, NameInOnePlace, NEW n \in Conn, NEW c \in Context, Uses(c, n)
  PROVE  /\ availableNames[n] = 0 /\ cachedDatabase[n] = 0 /\ InPool(n) = 0
         /\ timerConn # n /\ n \notin lost
         /\ \A b \in Context : Uses(b, n) => b = c
<1>1. availableNames[n] \in Nat /\ cachedDatabase[n] \in Nat
  BY DEF TypeOK
<1>2. AtOnePlace(n)
  BY DEF NameInOnePlace
<1>3. InPool(n) # 1 /\ InPool(n) <= 1 /\ timerConn # n /\ n \notin lost
  BY <1>2 DEF AtOnePlace
<1>4. \A b \in Context : Uses(b, n) => b = c
  BY <1>2 DEF AtOnePlace
<1> QED
  BY <1>1, <1>3, <1>4 DEF InPool

LEMMA AtTimer ==
  ASSUME TypeOK, NameInOnePlace, NEW n \in Conn, timerConn = n
  PROVE  /\ availableNames[n] = 0 /\ cachedDatabase[n] = 0 /\ InPool(n) = 0
         /\ n \notin lost /\ \A b \in Context : ~Uses(b, n)
<1>1. availableNames[n] \in Nat /\ cachedDatabase[n] \in Nat
  BY DEF TypeOK
<1>2. AtOnePlace(n)
  BY DEF NameInOnePlace
<1>3. InPool(n) # 1 /\ InPool(n) <= 1 /\ n \notin lost /\ \A b \in Context : ~Uses(b, n)
  BY <1>2 DEF AtOnePlace
<1> QED
  BY <1>1, <1>3 DEF InPool

\* pop() from either stack: the name is now in the local variable of the thread.
LEMMA PoppedPlace ==
  ASSUME TypeOK, NameInOnePlace, NEW c \in Context, NEW n \in Conn,
         InPool(n) = 1, InPool(n)' = 0,
         timerConn # n, n \notin lost, \A b \in Context : ~Uses(b, n),
         \A m \in Conn \ {n} : InPool(m)' = InPool(m),
         name[c] = NoConn, name' = [name EXCEPT ![c] = n],
         UNCHANGED <<timerConn, lost, kvsDatabases>>
  PROVE  NameInOnePlace'
<1>1. \A b \in Context, m \in Conn : b # c \/ m # n => (Uses(b, m)' <=> Uses(b, m))
  BY KvsAssumption DEF TypeOK, Uses
<1>2. Uses(c, n)'
  BY DEF TypeOK, Uses
<1>3. AtOnePlace(n)'
  <2>1. \A b \in Context : Uses(b, n)' <=> b = c
    BY <1>1, <1>2
  <2> QED
    BY <2>1, Moved
<1>4. \A m \in Conn \ {n} : AtOnePlace(m)'
  BY <1>1, Stays
<1> QED
  BY <1>3, <1>4 DEF NameInOnePlace

\* A thread gives away the only name it uses as n: to a stack, or to nobody.
LEMMA GivenPlace ==
  ASSUME TypeOK, NameInOnePlace, NEW n \in Conn, NEW c \in Context, Uses(c, n),
         \A b \in Context, m \in Conn : m # n => (Uses(b, m)' <=> Uses(b, m)),
         \A b \in Context : ~(b # c /\ Uses(b, n)' /\ ~Uses(b, n)), ~Uses(c, n)',
         \A m \in Conn \ {n} : InPool(m)' = InPool(m) /\ (m \in lost' <=> m \in lost),
         \/ InPool(n)' = 1 /\ lost' = lost
         \/ InPool(n)' = 0 /\ n \in lost',
         UNCHANGED timerConn
  PROVE  NameInOnePlace'
<1>1. /\ InPool(n) = 0 /\ timerConn # n /\ n \notin lost
      /\ \A b \in Context : Uses(b, n) => b = c
  BY InHands
<1>2. AtOnePlace(n)'
  BY <1>1, Moved
<1>3. \A m \in Conn \ {n} : AtOnePlace(m)'
  BY Stays
<1> QED
  BY <1>2, <1>3 DEF NameInOnePlace

\* pop() of one of the stacks.
LEMMA PopStacks ==
  ASSUME TypeOK, NameInOnePlace, NEW c \in Context, NEW n \in Conn, name[c] = NoConn,
         \/ /\ cachedDatabase[n] > 0 /\ cachedDatabase' = pop(cachedDatabase, n)
            /\ UNCHANGED availableNames
         \/ /\ availableNames[n] > 0 /\ availableNames' = pop(availableNames, n)
            /\ UNCHANGED cachedDatabase,
         name' = [name EXCEPT ![c] = n], UNCHANGED <<timerConn, lost, kvsDatabases>>
  PROVE  NameInOnePlace'
<1>1. InPool(n)' = InPool(n) - 1 /\ \A m \in Conn \ {n} : InPool(m)' = InPool(m)
  BY DEF TypeOK, InPool, pop
<1>2. InPool(n) = 1 /\ timerConn # n /\ n \notin lost /\ \A b \in Context : ~Uses(b, n)
  BY InStacks
<1>3. InPool(n)' = 0
  BY <1>1, <1>2
<1> QED
  BY <1>1, <1>2, <1>3, PoppedPlace

LEMMA PushedInPool ==
  ASSUME TypeOK, NEW n \in Conn,
         \/ cachedDatabase' = push(cachedDatabase, n) /\ UNCHANGED availableNames
         \/ availableNames' = push(availableNames, n) /\ UNCHANGED cachedDatabase
  PROVE  InPool(n)' = InPool(n) + 1 /\ \A m \in Conn \ {n} : InPool(m)' = InPool(m)
<1>1. CASE cachedDatabase' = push(cachedDatabase, n) /\ UNCHANGED availableNames
  BY <1>1 DEF TypeOK, InPool, push
<1>2. CASE availableNames' = push(availableNames, n) /\ UNCHANGED cachedDatabase
  BY <1>2 DEF TypeOK, InPool, push
<1> QED
  BY <1>1, <1>2

LEMMA PopCacheIInv ==
  ASSUME IInv, NEW c \in Context, PopCache(c)
  PROVE  IInv'
<1> USE KvsAssumption
<1>1. UNCHANGED <<availableNames, expired, timerPc, timerConn, isOpen, lost, type,
                  kvsDatabases>>
  BY DEF PopCache, timerVars, connVars
<1>2. pc[c] = "cache" /\ name[c] = NoConn
  BY DEF PopCache, IInv, Slots, NameAt
<1>3. CASE Goto(c, "stack") /\ UNCHANGED <<cachedDatabase, name>>
  <2>1. TypeOK' /\ Slots'
    BY <1>1, <1>2, <1>3 DEF IInv, TypeOK, Pcs, Goto, Slots, NameAt, TimerAt, SlotOf
  <2>2. NameInOnePlace'
    BY <1>1, <1>3, PlaceSame DEF IInv
  <2>3. Closed'
    BY <1>1, <1>2, <1>3 DEF IInv, TypeOK, Goto, Closed, AvailableClosed, ClosedOnTheWay
  <2> QED
    BY <2>1, <2>2, <2>3 DEF IInv
<1>4. ASSUME NEW n \in Poppable(cachedDatabase, type[c]),
             cachedDatabase' = pop(cachedDatabase, n),
             name' = [name EXCEPT ![c] = n],
             Goto(c, IF isOpen[n] THEN "lent" ELSE "unpool")
      PROVE  IInv'
  <2>1. n \in Conn /\ typeOf[n] = type[c] /\ cachedDatabase[n] > 0
    BY DEF Poppable
  <2>2. TypeOK'
    BY <1>1, <1>4, <2>1 DEF IInv, TypeOK, Pcs, Goto, pop
  <2>3. NameInOnePlace'
    BY <1>1, <1>2, <1>4, <2>1, PopStacks DEF IInv
  <2>4. Slots'
    BY <1>1, <1>2, <1>4, <2>1 DEF IInv, TypeOK, Goto, Slots, NameAt, TimerAt, SlotOf
  <2>5. Closed'
    BY <1>1, <1>4, <2>1 DEF IInv, TypeOK, Goto, Closed, AvailableClosed, ClosedOnTheWay
  <2> QED
    BY <2>2, <2>3, <2>4, <2>5 DEF IInv
<1> QED
  BY <1>3, <1>4 DEF PopCache

LEMMA PopStackIInv ==
  ASSUME IInv, NEW c \in Context, PopStack(c)
  PROVE  IInv'
<1> USE KvsAssumption
<1>1. UNCHANGED <<cachedDatabase, expired, timerPc, timerConn, isOpen, lost, type,
                  kvsDatabases>>
  BY DEF PopStack, timerVars, connVars
<1>2. pc[c] = "stack" /\ name[c] = NoConn
  BY DEF PopStack, IInv, Slots, NameAt
<1>3. CASE Goto(c, "cache") /\ UNCHANGED <<availableNames, name>>
  <2>1. TypeOK' /\ Slots'
    BY <1>1, <1>2, <1>3 DEF IInv, TypeOK, Pcs, Goto, Slots, NameAt, TimerAt, SlotOf
  <2>2. NameInOnePlace'
    BY <1>1, <1>3, PlaceSame DEF IInv
  <2>3. Closed'
    BY <1>1, <1>2, <1>3 DEF IInv, TypeOK, Goto, Closed, AvailableClosed, ClosedOnTheWay
  <2> QED
    BY <2>1, <2>2, <2>3 DEF IInv
<1>4. ASSUME NEW n \in Poppable(availableNames, type[c]),
             availableNames' = pop(availableNames, n),
             name' = [name EXCEPT ![c] = n],
             Goto(c, IF isOpen[n] THEN "lent" ELSE "open")
      PROVE  IInv'
  <2>1. n \in Conn /\ typeOf[n] = type[c] /\ availableNames[n] > 0
    BY DEF Poppable
  <2>2. TypeOK'
    BY <1>1, <1>4, <2>1 DEF IInv, TypeOK, Pcs, Goto, pop
  <2>3. NameInOnePlace'
    BY <1>1, <1>2, <1>4, <2>1, PopStacks DEF IInv
  <2>4. Slots'
    BY <1>1, <1>2, <1>4, <2>1 DEF IInv, TypeOK, Goto, Slots, NameAt, TimerAt, SlotOf
  <2>5. \A m \in Conn : availableNames'[m] > 0 => availableNames[m] > 0
    BY <1>4, <2>1 DEF IInv, TypeOK, pop
  <2>6. Closed'
    BY <1>1, <1>4, <2>1, <2>5 DEF IInv, TypeOK, Goto, Closed, AvailableClosed, ClosedOnTheWay
  <2> QED
    BY <2>2, <2>3, <2>4, <2>6 DEF IInv
<1> QED
  BY <1>3, <1>4 DEF PopStack

LEMMA UnpoolIInv ==
  ASSUME IInv, NEW c \in Context, Unpool(c)
  PROVE  IInv'
<1> USE KvsAssumption
<1>1. UNCHANGED <<cachedDatabase, expired, timerPc, timerConn, isOpen, lost, type,
                  kvsDatabases>>
  BY DEF Unpool, timerVars, connVars
<1>2. PICK n \in Conn : n = name[c]
  BY DEF Unpool, IInv, TypeOK, Slots, NameAt
<1>3. /\ pc[c] = "unpool" /\ availableNames' = push(availableNames, n)
      /\ name' = [name EXCEPT ![c] = NoConn] /\ Goto(c, "cache")
  BY <1>2 DEF Unpool, unpooled
<1>4. TypeOK'
  BY <1>1, <1>3 DEF IInv, TypeOK, Pcs, Goto, push
<1>5. Slots'
  BY <1>1, <1>2, <1>3 DEF IInv, TypeOK, Goto, Slots, NameAt, TimerAt, SlotOf
<1>6. NameInOnePlace'
  <2>1. InPool(n)' = InPool(n) + 1 /\ \A m \in Conn \ {n} : InPool(m)' = InPool(m)
    BY <1>1, <1>3, PushedInPool DEF IInv
  <2>2. Uses(c, n)
    BY <1>2 DEF Uses
  <2>3. /\ InPool(n) = 0 /\ \A b \in Context : Uses(b, n) => b = c
    BY <2>2, InHands DEF IInv
  <2>4. \A b \in Context, m \in Conn : b # c \/ m # n => (Uses(b, m)' <=> Uses(b, m))
    BY <1>1, <1>2, <1>3 DEF IInv, TypeOK, Uses
  <2>5. ~Uses(c, n)'
    <3>1. \A t \in Type : kvsDatabases[c][t] # n
      <4>1. kvsDatabases[c][typeOf[n]] = NoConn
        BY <1>2, <1>3 DEF IInv, Slots, NameAt
      <4> QED
        BY <4>1, <1>2 DEF IInv, Slots, SlotOf, TypeOK
    <3> QED
      BY <1>1, <1>3, <3>1 DEF IInv, TypeOK, Uses
  <2> QED
    BY <1>1, <2>1, <2>2, <2>3, <2>4, <2>5, GivenPlace DEF IInv
<1>7. Closed'
  <2>1. ~isOpen[n]
    BY <1>2, <1>3 DEF IInv, Closed, ClosedOnTheWay
  <2>2. AvailableClosed'
    BY <1>1, <1>3, <2>1 DEF IInv, TypeOK, push, Closed, AvailableClosed
  <2> QED
    BY <1>1, <1>3, <2>2 DEF IInv, TypeOK, Goto, Closed, ClosedOnTheWay
<1> QED
  BY <1>4, <1>5, <1>6, <1>7 DEF IInv

LEMMA OpenIInv ==
  ASSUME IInv, NEW c \in Context, Open(c)
  PROVE  IInv'
<1> USE KvsAssumption
<1>1. UNCHANGED <<availableNames, cachedDatabase, expired, timerPc, timerConn, type,
                  kvsDatabases>>
  BY DEF Open, poolVars, timerVars
<1>2. PICK n \in Conn : n = name[c]
  BY DEF Open, IInv, TypeOK, Slots, NameAt
<1>3. pc[c] = "open" /\ Uses(c, n)
  BY <1>2 DEF Open, Uses
<1>4. /\ InPool(n) = 0 /\ availableNames[n] = 0 /\ timerConn # n
      /\ \A b \in Context : Uses(b, n) => b = c
  BY <1>3, InHands DEF IInv
<1>5. CASE isOpen' = [isOpen EXCEPT ![n] = TRUE] /\ Goto(c, "lent") /\ UNCHANGED <<lost, name>>
  <2>1. TypeOK' /\ Slots'
    BY <1>1, <1>3, <1>5 DEF IInv, TypeOK, Pcs, Goto, Slots, NameAt, TimerAt, SlotOf
  <2>2. NameInOnePlace'
    BY <1>1, <1>5, PlaceSame DEF IInv
  <2>3. AvailableClosed'
    BY <1>1, <1>4, <1>5 DEF IInv, TypeOK, Closed, AvailableClosed
  <2>4. \A b \in Context : b # c => name[b] # n
    BY <1>4 DEF Uses
  <2>5. ClosedOnTheWay'
    BY <1>1, <1>4, <1>5, <2>4 DEF IInv, TypeOK, Goto, Closed, ClosedOnTheWay
  <2> QED
    BY <2>1, <2>2, <2>3, <2>5 DEF IInv, Closed
<1>6. CASE lost' = lost \cup {n} /\ name' = [name EXCEPT ![c] = NoConn] /\ Goto(c, "action")
           /\ UNCHANGED isOpen
  <2>1. TypeOK' /\ Slots'
    BY <1>1, <1>2, <1>3, <1>6 DEF IInv, TypeOK, Pcs, Goto, Slots, NameAt, TimerAt, SlotOf
  <2>2. \A b \in Context, m \in Conn : b # c \/ m # n => (Uses(b, m)' <=> Uses(b, m))
    BY <1>1, <1>2, <1>6 DEF IInv, TypeOK, Uses
  <2>3. ~Uses(c, n)'
    <3>1. \A t \in Type : kvsDatabases[c][t] # n
      BY <1>2, <1>3 DEF IInv, Slots, NameAt, SlotOf, TypeOK
    <3> QED
      BY <1>1, <1>6, <3>1 DEF IInv, TypeOK, Uses
  <2>4. \A m \in Conn : InPool(m)' = InPool(m)
    BY <1>1 DEF InPool
  <2>5. NameInOnePlace'
    BY <1>1, <1>3, <1>4, <1>6, <2>2, <2>3, <2>4, GivenPlace DEF IInv
  <2>6. Closed'
    BY <1>1, <1>3, <1>6 DEF IInv, TypeOK, Goto, Closed, AvailableClosed, ClosedOnTheWay
  <2> QED
    BY <2>1, <2>5, <2>6 DEF IInv
<1> QED
  BY <1>2, <1>5, <1>6 DEF Open

\* The name moves from the local variable to the slot of the same thread.
LEMMA KeepIInv ==
  ASSUME IInv, NEW c \in Context, Keep(c)
  PROVE  IInv'
<1> USE KvsAssumption
<1>1. UNCHANGED <<availableNames, cachedDatabase, expired, timerPc, timerConn, isOpen,
                  lost, type>>
  BY DEF Keep, poolVars, timerVars, connVars
<1>2. PICK n \in Conn : n = name[c] /\ typeOf[n] = type[c] /\ type[c] \in Type
  BY DEF Keep, IInv, TypeOK, Slots, NameAt
<1>3. /\ pc[c] = "lent" /\ kvsDatabases[c][type[c]] = NoConn
      /\ kvsDatabases' = [kvsDatabases EXCEPT ![c][type[c]] = n]
      /\ name' = [name EXCEPT ![c] = NoConn] /\ Goto(c, "action")
  BY <1>2 DEF Keep, IInv, Slots, NameAt
<1>4. \A b \in Context, t \in Type : kvsDatabases'[b][t] =
        IF b = c /\ t = type[c] THEN n ELSE kvsDatabases[b][t]
  BY <1>2, <1>3 DEF IInv, TypeOK
<1>5. TypeOK'
  BY <1>1, <1>2, <1>3 DEF IInv, TypeOK, Pcs, Goto
<1>6. Slots'
  BY <1>1, <1>2, <1>3, <1>4 DEF IInv, TypeOK, Goto, Slots, NameAt, TimerAt, SlotOf
<1>7. NameInOnePlace'
  <2>1. \A b \in Context, m \in Conn : Uses(b, m)' <=> Uses(b, m)
    <3>1. ASSUME NEW b \in Context, NEW m \in Conn
          PROVE  Uses(b, m)' <=> Uses(b, m)
      <4>1. CASE b = c /\ m = n
        BY <1>2, <1>4, <4>1 DEF Uses
      <4>2. CASE b = c /\ m # n
        BY <1>2, <1>3, <1>4, <4>2 DEF Uses, IInv, TypeOK
      <4>3. CASE b # c
        BY <1>3, <1>4, <4>3 DEF Uses, IInv, TypeOK
      <4> QED
        BY <4>1, <4>2, <4>3
    <3> QED
      BY <3>1
  <2>2. \A m \in Conn : InPool(m)' = InPool(m)
    BY <1>1 DEF InPool
  <2> QED
    BY <1>1, <2>1, <2>2, Stays DEF IInv, NameInOnePlace
<1>8. Closed'
  BY <1>1, <1>3 DEF IInv, TypeOK, Goto, Closed, AvailableClosed, ClosedOnTheWay
<1> QED
  BY <1>5, <1>6, <1>7, <1>8 DEF IInv

LEMMA PoolIInv ==
  ASSUME IInv, NEW c \in Context, NEW t \in Type, Pool(c, t)
  PROVE  IInv'
<1> USE KvsAssumption
<1>1. UNCHANGED <<availableNames, expired, timerPc, timerConn, isOpen, lost, name>>
  BY DEF Pool, timerVars, connVars
<1>2. PICK n \in Conn : n = kvsDatabases[c][t] /\ typeOf[n] = t
  BY DEF Pool, Holds, IInv, TypeOK, Slots, SlotOf
<1>3. /\ pc[c] = "release" /\ cachedDatabase' = push(cachedDatabase, n)
      /\ kvsDatabases' = [kvsDatabases EXCEPT ![c][t] = NoConn]
      /\ type' = [type EXCEPT ![c] = t] /\ Goto(c, "pooled")
  BY <1>2 DEF Pool
<1>4. \A b \in Context, u \in Type : kvsDatabases'[b][u] =
        IF b = c /\ u = t THEN NoConn ELSE kvsDatabases[b][u]
  BY <1>3 DEF IInv, TypeOK
<1>5. TypeOK'
  BY <1>1, <1>3 DEF IInv, TypeOK, Pcs, Goto, push
<1>6. name[c] = NoConn
  BY <1>3 DEF IInv, Slots, NameAt
<1>7. Slots'
  <2>1. NameAt'
    BY <1>1, <1>3, <1>4, <1>6 DEF IInv, TypeOK, Goto, Slots, NameAt
  <2> QED
    BY <1>1, <1>4, <2>1 DEF IInv, Slots, TimerAt, SlotOf
<1>8. NameInOnePlace'
  <2>1. InPool(n)' = InPool(n) + 1 /\ \A m \in Conn \ {n} : InPool(m)' = InPool(m)
    BY <1>1, <1>3, PushedInPool DEF IInv
  <2>2. Uses(c, n)
    BY <1>2 DEF Uses
  <2>3. /\ InPool(n) = 0 /\ \A b \in Context : Uses(b, n) => b = c
    BY <2>2, InHands DEF IInv
  <2>4. \A b \in Context, m \in Conn : b # c \/ m # n => (Uses(b, m)' <=> Uses(b, m))
    BY <1>1, <1>2, <1>4 DEF Uses
  <2>5. ~Uses(c, n)'
    BY <1>1, <1>2, <1>4, <1>6 DEF Uses, IInv, Slots, SlotOf
  <2> QED
    BY <1>1, <2>1, <2>2, <2>3, <2>4, <2>5, GivenPlace DEF IInv
<1>9. Closed'
  BY <1>1, <1>3 DEF IInv, TypeOK, Goto, Closed, AvailableClosed, ClosedOnTheWay
<1> QED
  BY <1>5, <1>7, <1>8, <1>9 DEF IInv

LEMMA TimerPopIInv ==
  ASSUME IInv, NEW t \in Type, TimerPop(t)
  PROVE  IInv'
<1> USE KvsAssumption
<1>1. UNCHANGED <<availableNames, expired, isOpen, lost, pc, type, name, kvsDatabases>>
  BY DEF TimerPop, connVars, contextVars
<1>2. PICK n \in Conn : /\ cachedDatabase[n] > 0 /\ cachedDatabase' = pop(cachedDatabase, n)
                        /\ timerConn' = n
  BY DEF TimerPop, Poppable
<1>3. timerPc = "wait" /\ timerConn = NoConn /\ timerPc' = "close"
  BY DEF TimerPop, IInv, Slots, TimerAt
<1>4. TypeOK' /\ Slots' /\ Closed'
  BY <1>1, <1>2, <1>3 DEF IInv, TypeOK, pop, Slots, NameAt, TimerAt, SlotOf, Closed,
     AvailableClosed, ClosedOnTheWay
<1>5. InPool(n)' = InPool(n) - 1 /\ \A m \in Conn \ {n} : InPool(m)' = InPool(m)
  BY <1>1, <1>2 DEF IInv, TypeOK, InPool, pop
<1>6. InPool(n) = 1 /\ n \notin lost /\ \A b \in Context : ~Uses(b, n)
  BY <1>2, InStacks DEF IInv
<1>7. \A b \in Context, m \in Conn : Uses(b, m)' <=> Uses(b, m)
  BY <1>1 DEF Uses
<1>8. AtOnePlace(n)'
  BY <1>1, <1>2, <1>5, <1>6, <1>7, Moved
<1>9. \A m \in Conn \ {n} : AtOnePlace(m)'
  BY <1>1, <1>2, <1>3, <1>5, <1>7, Stays DEF IInv
<1> QED
  BY <1>4, <1>8, <1>9 DEF IInv, NameInOnePlace

LEMMA TimerCloseIInv ==
  ASSUME IInv, TimerClose
  PROVE  IInv'
<1>1. UNCHANGED <<availableNames, cachedDatabase, expired, timerConn, lost, pc, type,
                  name, kvsDatabases>>
  BY DEF TimerClose, poolVars, contextVars
<1>2. PICK n \in Conn : n = timerConn
  BY DEF TimerClose, IInv, TypeOK, Slots, TimerAt
<1>3. timerPc = "close" /\ timerPc' = "push" /\ isOpen' = [isOpen EXCEPT ![n] = FALSE]
  BY <1>2 DEF TimerClose, closed
<1>4. TypeOK' /\ Slots'
  BY <1>1, <1>3 DEF IInv, TypeOK, Slots, NameAt, TimerAt, SlotOf
<1>5. Closed'
  BY <1>1, <1>2, <1>3 DEF IInv, TypeOK, Closed, AvailableClosed, ClosedOnTheWay
<1>6. NameInOnePlace'
  BY <1>1, PlaceSame DEF IInv
<1> QED
  BY <1>4, <1>5, <1>6 DEF IInv

LEMMA TimerPushIInv ==
  ASSUME IInv, TimerPush
  PROVE  IInv'
<1> USE KvsAssumption
<1>1. UNCHANGED <<cachedDatabase, expired, isOpen, lost, pc, type, name, kvsDatabases>>
  BY DEF TimerPush, connVars, contextVars
<1>2. PICK n \in Conn : n = timerConn
  BY DEF TimerPush, IInv, TypeOK, Slots, TimerAt
<1>3. /\ timerPc = "push" /\ timerPc' = "wait" /\ timerConn' = NoConn
      /\ availableNames' = push(availableNames, n)
  BY <1>2 DEF TimerPush
<1>4. TypeOK' /\ Slots'
  BY <1>1, <1>3 DEF IInv, TypeOK, push, Slots, NameAt, TimerAt, SlotOf
<1>5. Closed'
  <2>1. ~isOpen[n]
    BY <1>2, <1>3 DEF IInv, Closed, ClosedOnTheWay
  <2>2. AvailableClosed'
    BY <1>1, <1>3, <2>1 DEF IInv, TypeOK, push, Closed, AvailableClosed
  <2> QED
    BY <1>1, <1>3, <2>2 DEF IInv, Closed, ClosedOnTheWay
<1>6. InPool(n)' = InPool(n) + 1 /\ \A m \in Conn \ {n} : InPool(m)' = InPool(m)
  BY <1>1, <1>3, PushedInPool DEF IInv
<1>7. InPool(n) = 0 /\ n \notin lost /\ \A b \in Context : ~Uses(b, n)
  BY <1>2, AtTimer DEF IInv
<1>8. \A b \in Context, m \in Conn : Uses(b, m)' <=> Uses(b, m)
  BY <1>1 DEF Uses
<1>9. AtOnePlace(n)'
  BY <1>1, <1>3, <1>6, <1>7, <1>8, Moved
<1>10. \A m \in Conn \ {n} : AtOnePlace(m)'
  BY <1>1, <1>2, <1>3, <1>6, <1>8, Stays DEF IInv
<1> QED
  BY <1>4, <1>5, <1>9, <1>10 DEF IInv, NameInOnePlace

\* The steps that touch neither the stacks nor the names.
LEMMA OtherIInv ==
  ASSUME IInv,
         \/ \E c \in Context : Release(c) \/ SetLastCachedTime(c)
         \/ \E c \in Context, t \in Type : UseKvs(c, t)
         \/ \E t \in Type : Expire(t)
         \/ \E n \in Conn : Disconnect(n)
         \/ UNCHANGED vars
  PROVE  IInv'
<1> USE KvsAssumption
<1>1. ASSUME NEW c \in Context, Release(c) \/ SetLastCachedTime(c)
      PROVE  IInv'
  <2>1. UNCHANGED <<availableNames, cachedDatabase, timerPc, timerConn, isOpen, lost,
                    type, name, kvsDatabases>>
    BY <1>1 DEF Release, SetLastCachedTime, poolVars, timerVars, connVars
  <2>2. \E p \in {"release", "action"} : Goto(c, p) /\ pc[c] \in {"action", "pooled"}
    BY <1>1 DEF Release, SetLastCachedTime
  <2>3. expired' \in [Type -> BOOLEAN]
    BY <1>1 DEF Release, SetLastCachedTime, timerVars, IInv, TypeOK
  <2>4. TypeOK' /\ Slots' /\ Closed'
    BY <2>1, <2>2, <2>3 DEF IInv, TypeOK, Pcs, Goto, Slots, NameAt, TimerAt, SlotOf, Closed,
       AvailableClosed, ClosedOnTheWay
  <2> QED
    BY <2>1, <2>4, PlaceSame DEF IInv
<1>2. ASSUME NEW c \in Context, NEW t \in Type, UseKvs(c, t)
      PROVE  IInv'
  <2>1. UNCHANGED <<availableNames, cachedDatabase, expired, timerPc, timerConn, isOpen,
                    lost, name, kvsDatabases>>
    BY <1>2 DEF UseKvs, poolVars, timerVars, connVars
  <2>2. TypeOK' /\ Slots' /\ Closed'
    BY <1>2, <2>1 DEF UseKvs, Holds, IInv, TypeOK, Pcs, Goto, Slots, NameAt, TimerAt, SlotOf,
       Closed, AvailableClosed, ClosedOnTheWay
  <2> QED
    BY <2>1, <2>2, PlaceSame DEF IInv
<1>3. ASSUME NEW t \in Type, Expire(t)
      PROVE  IInv'
  <2>1. UNCHANGED <<availableNames, cachedDatabase, timerPc, timerConn, isOpen,
                    lost, pc, type, name, kvsDatabases>>
    BY <1>3 DEF Expire, poolVars, connVars, contextVars
  <2>2. TypeOK' /\ Slots' /\ Closed'
    BY <1>3, <2>1 DEF Expire, IInv, TypeOK, Slots, NameAt, TimerAt, SlotOf, Closed,
       AvailableClosed, ClosedOnTheWay
  <2> QED
    BY <2>1, <2>2, PlaceSame DEF IInv
<1>4. ASSUME NEW n \in Conn, Disconnect(n)
      PROVE  IInv'
  <2>1. UNCHANGED <<availableNames, cachedDatabase, expired, timerPc, timerConn,
                    lost, pc, type, name, kvsDatabases>>
    BY <1>4 DEF Disconnect, poolVars, timerVars, contextVars
  <2>2. isOpen' = [isOpen EXCEPT ![n] = FALSE]
    BY <1>4 DEF Disconnect
  <2>3. TypeOK' /\ Slots'
    BY <2>1, <2>2 DEF IInv, TypeOK, Slots, NameAt, TimerAt, SlotOf
  <2>4. \A m \in Conn \cup {NoConn} : isOpen'[m] => isOpen[m]
    BY <2>2 DEF IInv, TypeOK
  <2>5. Closed'
    BY <2>1, <2>4 DEF IInv, TypeOK, Closed, AvailableClosed, ClosedOnTheWay
  <2> QED
    BY <2>1, <2>3, <2>5, PlaceSame DEF IInv
<1>5. CASE UNCHANGED vars
  <2>1. UNCHANGED <<availableNames, cachedDatabase, expired, timerPc, timerConn, isOpen,
                    lost, pc, type, name, kvsDatabases>>
    BY <1>5 DEF vars, poolVars, timerVars, connVars, contextVars
  <2>2. TypeOK' /\ Slots' /\ Closed'
    BY <2>1 DEF IInv, TypeOK, Slots, NameAt, TimerAt, SlotOf, Closed, AvailableClosed,
       ClosedOnTheWay
  <2> QED
    BY <2>1, <2>2, PlaceSame DEF IInv
<1> QED
  BY <1>1, <1>2, <1>3, <1>4, <1>5

LEMMA NextIInv == IInv /\ [Next]_vars => IInv'
<1> SUFFICES ASSUME IInv, [Next]_vars PROVE IInv'
  OBVIOUS
<1>1. ASSUME NEW c \in Context, Proceed(c)
      PROVE  IInv'
  BY <1>1, PopCacheIInv, UnpoolIInv, PopStackIInv, OpenIInv, KeepIInv, PoolIInv, OtherIInv
     DEF Proceed, database
<1>2. CASE Timer
  BY <1>2, TimerCloseIInv, TimerPushIInv DEF Timer
<1> QED
  BY <1>1, <1>2, TimerPopIInv, OtherIInv DEF Next

\* The invariant the other theorems rest on: which thread has which name at each
\* step of database(), pool() and the timer, and which of the names are closed.
THEOREM SpecIInv == Spec => []IInv
<1> QED
  BY InitIInv, NextIInv, PTL DEF Spec

\* Every variable keeps its type.
THEOREM SpecTypeOK == Spec => []TypeOK
<1>1. IInv => TypeOK
  BY DEF IInv
<1> QED
  BY <1>1, SpecIInv, PTL

\* No name is lent twice, and the only names lost are those whose open() failed,
\* wherever the timer is and whenever a server drops a connection
\* (tkvsdatabasepool.cpp:196-228).
THEOREM SpecNameInOnePlace == Spec => []NameInOnePlace
<1>1. IInv => NameInOnePlace
  BY DEF IInv
<1> QED
  BY <1>1, SpecIInv, PTL

\* The names in the stack of available names are of closed connections.
THEOREM SpecAvailableClosed == Spec => []AvailableClosed
<1>1. IInv => AvailableClosed
  BY DEF IInv, Closed
<1> QED
  BY <1>1, SpecIInv, PTL

-----------------------------------------------------------------------------
(* The pool implements the lease of connections. *)

holder == [n \in Conn |-> holderOf(n)]

\* holderOf(n) is the context with n in its slot, if there is one.
Holders ==
  \A n \in Conn :
    /\ holderOf(n) \in Context \cup {NoContext}
    /\ \A c \in Context : holderOf(n) = c <=> kvsDatabases[c][typeOf[n]] = n

LEMMA IInvHolders == IInv => Holders
<1> SUFFICES ASSUME IInv, NEW n \in Conn
             PROVE  /\ holderOf(n) \in Context \cup {NoContext}
                    /\ \A c \in Context : holderOf(n) = c <=> kvsDatabases[c][typeOf[n]] = n
  BY DEF Holders
<1>1. \A b, c \in Context : kvsDatabases[b][typeOf[n]] = n
                            /\ kvsDatabases[c][typeOf[n]] = n => b = c
  <2>1. typeOf[n] \in Type
    BY KvsAssumption
  <2> QED
    BY <2>1, InHands DEF Uses, IInv
<1>2. CASE \E c \in Context : kvsDatabases[c][typeOf[n]] = n
  <2>1. holderOf(n) \in Context /\ kvsDatabases[holderOf(n)][typeOf[n]] = n
    BY <1>2 DEF holderOf
  <2> QED
    BY <1>1, <2>1
<1>3. CASE ~\E c \in Context : kvsDatabases[c][typeOf[n]] = n
  <2>1. holderOf(n) = NoContext
    BY <1>3 DEF holderOf
  <2> QED
    BY <1>3, <2>1, KvsAssumption
<1> QED
  BY <1>2, <1>3

LEMMA LeaseInit == Init => Lease!Init
BY KvsAssumption DEF Init, Lease!Init, holderOf

LEMMA LeaseSame ==
  ASSUME UNCHANGED kvsDatabases
  PROVE  UNCHANGED holder
BY DEF holder, holderOf

\* getKvsDatabase() keeps the handle: the name is lent.
LEMMA LeaseLend ==
  ASSUME IInv, Holders, Holders', NEW c \in Context, Keep(c)
  PROVE  \E n \in Conn : Lease!Lend(c, n)
<1>1. PICK n \in Conn : n = name[c] /\ typeOf[n] = type[c] /\ type[c] \in Type
  BY DEF Keep, IInv, TypeOK, Slots, NameAt
<1>2. kvsDatabases[c][type[c]] = NoConn /\ Uses(c, n)
  BY <1>1 DEF Keep, IInv, Slots, NameAt, Uses
<1>3. \A b \in Context, t \in Type : kvsDatabases'[b][t] =
        IF b = c /\ t = type[c] THEN n ELSE kvsDatabases[b][t]
  BY <1>1 DEF Keep, IInv, TypeOK
<1>4. holderOf(n) = NoContext
  <2>1. \A b \in Context : Uses(b, n) => b = c
    BY <1>2, InHands DEF IInv
  <2>2. \A b \in Context : kvsDatabases[b][typeOf[n]] # n
    BY <1>1, <1>2, <2>1, KvsAssumption DEF Uses
  <2> QED
    BY <2>2 DEF holderOf
<1>5. \A m \in Conn : typeOf[m] = typeOf[n] => holderOf(m) # c
  BY <1>1, <1>2, KvsAssumption DEF Holders
<1>6. holder' = [holder EXCEPT ![n] = c]
  <2>1. holderOf(n)' = c
    <3>1. kvsDatabases'[c][typeOf[n]] = n
      BY <1>1, <1>3
    <3> QED
      BY <3>1 DEF Holders
  <2>2. ASSUME NEW m \in Conn, m # n
        PROVE  holderOf(m)' = holderOf(m)
    <3>1. typeOf[m] \in Type /\ m # NoConn
      BY KvsAssumption
    <3>2. \A b \in Context : kvsDatabases'[b][typeOf[m]] = m
                             <=> kvsDatabases[b][typeOf[m]] = m
      BY <1>2, <1>3, <2>2, <3>1
    <3> QED
      BY <3>2 DEF holderOf
  <2> QED
    BY <2>1, <2>2 DEF holder
<1> QED
  BY <1>4, <1>5, <1>6 DEF Lease!Lend, holder

\* pool() takes the name back.
LEMMA LeaseGiveBack ==
  ASSUME IInv, Holders, Holders', NEW c \in Context, NEW t \in Type, Pool(c, t)
  PROVE  \E n \in Conn : Lease!GiveBack(n)
<1>1. PICK n \in Conn : n = kvsDatabases[c][t] /\ typeOf[n] = t
  BY DEF Pool, Holds, IInv, TypeOK, Slots, SlotOf
<1>2. \A b \in Context, u \in Type : kvsDatabases'[b][u] =
        IF b = c /\ u = t THEN NoConn ELSE kvsDatabases[b][u]
  BY DEF Pool, IInv, TypeOK
<1>3. holderOf(n) = c
  BY <1>1 DEF Holders
<1>4. holder' = [holder EXCEPT ![n] = NoContext]
  <2>1. holderOf(n)' = NoContext
    <3>1. \A b \in Context : kvsDatabases[b][t] = n => b = c
      BY <1>1, <1>3 DEF Holders
    <3>2. \A b \in Context : kvsDatabases'[b][typeOf[n]] # n
      BY <1>1, <1>2, <3>1, KvsAssumption
    <3> QED
      BY <3>2 DEF holderOf
  <2>2. ASSUME NEW m \in Conn, m # n
        PROVE  holderOf(m)' = holderOf(m)
    <3>1. typeOf[m] \in Type /\ m # NoConn
      BY KvsAssumption
    <3>2. \A b \in Context : kvsDatabases'[b][typeOf[m]] = m
                             <=> kvsDatabases[b][typeOf[m]] = m
      BY <1>1, <1>2, <2>2, <3>1
    <3> QED
      BY <3>2 DEF holderOf
  <2> QED
    BY <2>1, <2>2 DEF holder
<1> QED
  BY <1>3, <1>4, KvsAssumption DEF Lease!GiveBack, holder

\* All other steps keep the slots.
LEMMA LeaseStep ==
  ASSUME IInv, Holders, Holders', [Next]_vars
  PROVE  Lease!Next \/ UNCHANGED holder
<1>1. ASSUME NEW c \in Context, Keep(c)
      PROVE  Lease!Next
  BY <1>1, LeaseLend DEF Lease!Next
<1>2. ASSUME NEW c \in Context, NEW t \in Type, Pool(c, t)
      PROVE  Lease!Next
  BY <1>2, LeaseGiveBack DEF Lease!Next
<1>3. ASSUME NEW c \in Context,
             \/ PopCache(c) \/ Unpool(c) \/ PopStack(c) \/ Open(c) \/ Release(c)
             \/ SetLastCachedTime(c) \/ \E t \in Type : UseKvs(c, t)
      PROVE  UNCHANGED kvsDatabases
  BY <1>3 DEF PopCache, Unpool, PopStack, Open, Release, SetLastCachedTime, UseKvs
<1>4. ASSUME \/ \E t \in Type : Expire(t) \/ TimerPop(t)
             \/ \E n \in Conn : Disconnect(n)
             \/ Timer \/ UNCHANGED vars
      PROVE  UNCHANGED kvsDatabases
  BY <1>4 DEF Expire, TimerPop, Disconnect, Timer, TimerClose, TimerPush, vars, contextVars
<1> QED
  BY <1>1, <1>2, <1>3, <1>4, LeaseSame DEF Next, Proceed, database

\* Each connection is lent to one context at a time, and a context has at most one
\* of each type: database(), getKvsDatabase(), pool() and the timer implement
\* ConnectionLease.
THEOREM SpecLease == Spec => LeaseSpec
<1>1. Init => Lease!Init
  BY LeaseInit
<1>2. IInv => Holders
  BY IInvHolders
<1>3. IInv /\ Holders /\ Holders' /\ [Next]_vars => [Lease!Next]_holder
  BY LeaseStep
<1> QED
  BY <1>1, <1>2, <1>3, SpecIInv, PTL DEF Spec, LeaseSpec, Lease!Spec, holder
=============================================================================
