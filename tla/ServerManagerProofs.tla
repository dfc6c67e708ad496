------------------------ MODULE ServerManagerProofs ------------------------
(***************************************************************************)
(* Proofs about ServerManager for any number of servers and processes: no  *)
(* number is given twice, no process escapes the table, and the numbers    *)
(* are complete once all servers have been started.                        *)
(***************************************************************************)
EXTENDS ServerManager, FiniteSetTheorems, TLAPS

(* The inductive invariant, in named parts. *)

\* The table lists exactly the processes that the manager has not let go of,
\* with the number they were given.
Table ==
  \A p \in Procs :
    /\ serversStatus[p] # NotListed <=> process[p] # "none"
    /\ serversStatus[p] # NotListed => appServerId[p] = given(serversStatus[p])

\* Numbers differ, and a number not yet given is not below startCounter.
NumbersDiffer ==
  \A p \in listed :
    /\ serversStatus[p] < startCounter
    /\ \A q \in listed : serversStatus[p] = serversStatus[q] => p = q

\* The table is empty while nothing runs, and full from the end of the start on.
Counted ==
  /\ serverCount <= MinServers
  /\ managerState = "NotRunning" => listed = {} /\ startCounter = 0
  /\ managerState = "Running" => serverCount = MinServers

Numbers == {serversStatus[p] : p \in listed}

\* Unless a server dies meanwhile, the start gives the numbers in their order.
InOrder ==
  ~early =>
    /\ managerState = "Starting" => startCounter = serverCount /\ Numbers = 0..(startCounter - 1)
    /\ managerState = "Running" => Numbers = 0..(MinServers - 1)

IInv == TypeOK /\ Table /\ NumbersDiffer /\ Counted /\ InOrder

-----------------------------------------------------------------------------
LEMMA ListedFinite == IsFiniteSet(listed) /\ serverCount \in Nat
BY FS_Subset, FS_CardinalityType, ManagerAssumption DEF listed, serverCount

LEMMA NeedsMeansFewer == NeedsServer <=> serverCount < MinServers
BY ListedFinite, ManagerAssumption DEF NeedsServer

\* A process that the table does not list joins it: one server more.
LEMMA Joins ==
  ASSUME TypeOK, NEW p \in Procs, serversStatus[p] = NotListed, NEW id \in Nat,
         serversStatus' = [serversStatus EXCEPT ![p] = id]
  PROVE  /\ listed' = listed \cup {p}
         /\ serverCount' = serverCount + 1
         /\ Numbers' = Numbers \cup {id}
<1>1. serversStatus \in [Procs -> Nat \cup {NotListed}] /\ id # NotListed
  BY DEF TypeOK, NotListed
<1>2. listed' = listed \cup {p} /\ p \notin listed
  BY <1>1 DEF listed
<1>3. serverCount' = serverCount + 1
  BY <1>2, ListedFinite, FS_AddElement DEF serverCount
<1>4. Numbers' = Numbers \cup {id}
  BY <1>1, <1>2 DEF Numbers
<1> QED
  BY <1>2, <1>3, <1>4

\* Another process takes the place of p in the table, under its number.
LEMMA Replaces ==
  ASSUME TypeOK, NEW p \in listed, NEW q \in Procs, serversStatus[q] = NotListed,
         serversStatus' =
           [[serversStatus EXCEPT ![p] = NotListed] EXCEPT ![q] = serversStatus[p]]
  PROVE  /\ listed' = (listed \ {p}) \cup {q}
         /\ serverCount' = serverCount
         /\ Numbers' = Numbers
<1>1. serversStatus \in [Procs -> Nat \cup {NotListed}] /\ p \in Procs /\ p # q
  BY DEF TypeOK, listed
<1>2. listed' = (listed \ {p}) \cup {q} /\ p \in listed /\ q \notin listed \ {p}
  BY <1>1 DEF listed
<1>3. serverCount' = serverCount
  <2>1. IsFiniteSet(listed \ {p}) /\ Cardinality(listed \ {p}) = serverCount - 1
    BY <1>2, ListedFinite, FS_RemoveElement DEF serverCount
  <2>2. Cardinality((listed \ {p}) \cup {q}) = (serverCount - 1) + 1
    BY <1>2, <2>1, FS_AddElement
  <2>3. serverCount' = Cardinality((listed \ {p}) \cup {q})
    BY <1>2 DEF serverCount
  <2> QED
    BY <2>2, <2>3, ListedFinite
<1>4. Numbers' = Numbers
  <2>1. serversStatus'[q] = serversStatus[p]
    BY <1>1
  <2>2. \A r \in listed \ {p} : serversStatus'[r] = serversStatus[r]
    BY <1>1, <1>2 DEF listed
  <2> QED
    BY <1>2, <2>1, <2>2 DEF Numbers
<1> QED
  BY <1>2, <1>3, <1>4

\* A step that keeps the table keeps what is said about the numbers.
LEMMA SameTable ==
  ASSUME UNCHANGED <<serversStatus, startCounter>>
  PROVE  /\ listed' = listed /\ serverCount' = serverCount /\ Numbers' = Numbers
         /\ NumbersDiffer' <=> NumbersDiffer
BY DEF listed, serverCount, Numbers, NumbersDiffer

LEMMA GivenType ==
  ASSUME NEW id \in Nat
  PROVE  /\ given(id) \in -1..(MaxServers - 1)
         /\ given(id) = 0 => id = 0
BY ManagerAssumption DEF given

-----------------------------------------------------------------------------
LEMMA InitIInv == Init => IInv
<1> SUFFICES ASSUME Init PROVE IInv
  OBVIOUS
<1> USE ManagerAssumption DEF Init
<1>1. TypeOK
  <2>1. -1 \in -1..(MaxServers - 1) /\ NotListed = -1
    BY DEF NotListed
  <2> QED
    BY <2>1 DEF TypeOK
<1>2. listed = {} /\ serverCount = 0
  BY FS_EmptySet DEF listed, serverCount
<1>3. Table /\ NumbersDiffer /\ Counted /\ InOrder
  BY <1>2 DEF Table, NumbersDiffer, Counted, InOrder
<1> QED
  BY <1>1, <1>3 DEF IInv

\* A server joins under the next number: start() or updateServerStatus().
LEMMA JoinIInv ==
  ASSUME IInv, NEW p \in Procs, NEW state \in [Procs -> {"none", "forked", "execed",
           "running", "diedEarly", "dead", "failed", "error"}],
         \A q \in Procs : state[q] = "none" <=> process[q] = "none",
         startServer(p, startCounter, serversStatus, state), NeedsServer,
         managerState \in {"NotRunning", "Starting"}, managerState' = "Starting",
         managerState = "NotRunning" => early' = FALSE,
         managerState = "Starting" => early' = early
  PROVE  IInv'
<1> USE DEF IInv, startServer
<1>1. /\ serversStatus[p] = NotListed /\ startCounter \in Nat
      /\ serversStatus \in [Procs -> Nat \cup {NotListed}]
  BY DEF Table, TypeOK
<1>2. /\ listed' = listed \cup {p}
      /\ serverCount' = serverCount + 1
      /\ Numbers' = Numbers \cup {startCounter}
  BY <1>1, Joins
<1>3. TypeOK'
  <2>1. given(startCounter) \in -1..(MaxServers - 1)
    BY <1>1, GivenType
  <2>2. early' \in BOOLEAN
    BY DEF TypeOK
  <2> QED
    BY <1>1, <2>1, <2>2 DEF TypeOK
<1>4. Table'
  BY <1>1 DEF Table, TypeOK, NotListed, given
<1>5. NumbersDiffer'
  <2>1. \A q \in listed : q # p /\ serversStatus'[q] = serversStatus[q]
    BY <1>1 DEF listed
  <2>2. \A q \in listed : serversStatus[q] \in Nat
    BY <1>1 DEF listed
  <2>3. serversStatus'[p] = startCounter
    BY <1>1
  <2> QED
    BY <1>1, <1>2, <2>1, <2>2, <2>3 DEF NumbersDiffer
<1>6. Counted'
  BY <1>2, ListedFinite, NeedsMeansFewer, ManagerAssumption DEF Counted
<1>7. InOrder'
  <2> SUFFICES ASSUME ~early'
               PROVE  startCounter' = serverCount' /\ Numbers' = 0..(startCounter' - 1)
    BY DEF InOrder
  <2>1. startCounter = serverCount /\ Numbers = 0..(startCounter - 1)
    <3>1. CASE managerState = "NotRunning"
      BY <3>1, FS_EmptySet DEF Counted, serverCount, Numbers
    <3>2. CASE managerState = "Starting"
      BY <3>2 DEF InOrder
    <3> QED
      BY <3>1, <3>2
  <2> QED
    BY <1>1, <1>2, <2>1
<1> QED
  BY <1>3, <1>4, <1>5, <1>6, <1>7

LEMMA StartIInv == IInv /\ Start => IInv'
<1> SUFFICES ASSUME IInv, Start PROVE IInv'
  OBVIOUS
<1>1. PICK p \in Procs : startServer(p, startCounter, serversStatus, process)
  BY DEF Start
<1> QED
  BY <1>1, JoinIInv DEF Start, IInv, TypeOK

\* While all are running, ajustServers() starts nothing.
LEMMA UpdateIInv ==
  ASSUME IInv, NEW p \in Procs, updateServerStatus(p)
  PROVE  IInv'
<1> DEFINE state == [process EXCEPT ![p] = IF @ = "execed" THEN "running" ELSE "dead"]
<1>1. /\ state \in [Procs -> {"none", "forked", "execed", "running", "diedEarly",
                              "dead", "failed", "error"}]
      /\ \A q \in Procs : state[q] = "none" <=> process[q] = "none"
  BY DEF updateServerStatus, IInv, TypeOK
<1>2. CASE NeedsServer
  <2>1. managerState = "Starting" /\ managerState' = managerState /\ early' = early
    BY <1>2, NeedsMeansFewer, ListedFinite, ManagerAssumption
       DEF updateServerStatus, isRunning, IInv, Counted
  <2>2. PICK q \in Procs : startServer(q, startCounter, serversStatus, state)
    BY <1>2 DEF updateServerStatus
  <2> HIDE DEF state
  <2> QED
    BY <1>1, <1>2, <2>1, <2>2, JoinIInv
<1>3. CASE ~NeedsServer
  <2>1. /\ managerState' = "Running" /\ process' = state
        /\ UNCHANGED <<serversStatus, startCounter, appServerId, early>>
    BY <1>3 DEF updateServerStatus
  <2>2. /\ listed' = listed /\ serverCount' = serverCount /\ Numbers' = Numbers
        /\ NumbersDiffer' <=> NumbersDiffer
    BY <2>1, SameTable
  <2>3. TypeOK' /\ Table' /\ NumbersDiffer'
    BY <1>1, <2>1, <2>2 DEF IInv, TypeOK, Table, given
  <2>4. serverCount = MinServers /\ managerState \in {"Starting", "Running"}
    BY <1>3, NeedsMeansFewer, ListedFinite, ManagerAssumption
       DEF updateServerStatus, isRunning, IInv, Counted
  <2>5. Counted' /\ InOrder'
    BY <2>1, <2>2, <2>4, ManagerAssumption DEF IInv, Counted, InOrder
  <2> QED
    BY <2>3, <2>5 DEF IInv
<1> QED
  BY <1>2, <1>3

LEMMA FinishIInv ==
  ASSUME IInv, NEW p \in Procs, serverFinish(p)
  PROVE  IInv'
<1>1. PICK q \in Procs \ {p} :
        startServer(q, serversStatus[p], [serversStatus EXCEPT ![p] = NotListed],
                    [process EXCEPT ![p] = "none"])
  BY DEF serverFinish, restarted
<1> USE DEF IInv
<1>2. /\ p \in listed /\ serversStatus[q] = NotListed /\ process[q] = "none"
      /\ process[p] = "dead" /\ serversStatus[p] \in Nat /\ startCounter \in Nat
      /\ serversStatus \in [Procs -> Nat \cup {NotListed}]
  BY <1>1 DEF serverFinish, startServer, Table, listed, TypeOK
<1>3. /\ serversStatus' =
           [[serversStatus EXCEPT ![p] = NotListed] EXCEPT ![q] = serversStatus[p]]
      /\ process' = [[process EXCEPT ![p] = "none"] EXCEPT ![q] = "forked"]
      /\ appServerId' = [appServerId EXCEPT ![q] = given(serversStatus[p])]
      /\ startCounter' = startCounter + 1 /\ managerState' = managerState
      /\ early' = (early \/ managerState = "Starting")
  BY <1>1 DEF startServer, serverFinish
<1>4. /\ listed' = (listed \ {p}) \cup {q}
      /\ serverCount' = serverCount /\ Numbers' = Numbers
  BY <1>2, <1>3, Replaces
<1>5. TypeOK'
  <2>1. given(serversStatus[p]) \in -1..(MaxServers - 1)
    BY <1>2, GivenType
  <2> QED
    BY <1>2, <1>3, <2>1 DEF TypeOK
<1>6. Table'
  BY <1>1, <1>2, <1>3 DEF Table, TypeOK, NotListed, given
<1>7. NumbersDiffer'
  <2>1. serversStatus'[q] = serversStatus[p]
    BY <1>1, <1>2, <1>3
  <2>2. \A r \in listed \ {p} : r # q /\ serversStatus'[r] = serversStatus[r]
    BY <1>1, <1>2, <1>3 DEF listed
  <2>3. \A r \in listed : serversStatus[r] \in Nat
    BY <1>2 DEF listed
  <2>4. \A r \in listed' : serversStatus'[r] < startCounter'
    <3>1. \A r \in listed : serversStatus[r] < startCounter
      BY DEF NumbersDiffer
    <3>2. \A r \in listed : serversStatus[r] < startCounter + 1
      BY <1>2, <2>3, <3>1
    <3>3. \A r \in listed' : \E s \in listed : serversStatus'[r] = serversStatus[s]
      BY <1>2, <1>4, <2>1, <2>2
    <3> QED
      BY <1>3, <3>2, <3>3
  <2>5. \A r \in listed \ {p} : serversStatus[r] # serversStatus[p]
    BY <1>2 DEF NumbersDiffer
  <2>6. \A r, s \in listed \ {p} : serversStatus[r] = serversStatus[s] => r = s
    BY DEF NumbersDiffer
  <2>7. \A r, s \in listed' : serversStatus'[r] = serversStatus'[s] => r = s
    BY <1>4, <2>1, <2>2, <2>5, <2>6
  <2> QED
    BY <2>4, <2>7 DEF NumbersDiffer
<1>8. Counted' /\ InOrder'
  BY <1>3, <1>4 DEF Counted, InOrder, serverFinish, isRunning
<1> QED
  BY <1>5, <1>6, <1>7, <1>8

\* Once the servers have finished, none of the listed processes is left.
LEMMA StoppedIInv == IInv /\ Stopped => IInv'
<1> SUFFICES ASSUME IInv, Stopped PROVE IInv'
  OBVIOUS
<1> USE DEF IInv, Stopped, counterAfterStop
<1>1. \A p \in Procs : serversStatus'[p] = NotListed /\ process'[p] = "none"
  BY DEF AllFinished, Table, listed, TypeOK
<1>2. listed' = {} /\ serverCount' = 0
  BY <1>1, FS_EmptySet DEF listed, serverCount
<1>3. TypeOK'
  BY DEF TypeOK
<1>4. Table' /\ NumbersDiffer' /\ Counted' /\ InOrder'
  BY <1>1, <1>2, ManagerAssumption DEF Table, NumbersDiffer, Counted, InOrder
<1> QED
  BY <1>3, <1>4

\* The other steps change no number: a process moves on, or the stop begins.
LEMMA OthersIInv ==
  ASSUME IInv,
         \/ Stop \/ UNCHANGED vars
         \/ \E p \in Procs : errorDetect(p) \/ Exec(p) \/ Dies(p)
  PROVE  IInv'
<1>1. /\ UNCHANGED <<serversStatus, startCounter, appServerId, early>>
      /\ managerState' = managerState \/ managerState' = "Stopping"
  BY DEF Stop, errorDetect, Exec, Dies, vars
<1>2. /\ process' \in [Procs -> {"none", "forked", "execed", "running", "diedEarly",
                                 "dead", "failed", "error"}]
      /\ \A p \in Procs : process'[p] = "none" <=> process[p] = "none"
  BY DEF Stop, errorDetect, Exec, Dies, Alive, vars, IInv, TypeOK
<1>3. /\ listed' = listed /\ serverCount' = serverCount /\ Numbers' = Numbers
      /\ NumbersDiffer' <=> NumbersDiffer
  BY <1>1, SameTable
<1>4. TypeOK' /\ Table' /\ NumbersDiffer'
  BY <1>1, <1>2, <1>3 DEF IInv, TypeOK, Table, given
<1>5. Counted' /\ InOrder'
  BY <1>1, <1>3 DEF IInv, Counted, InOrder
<1> QED
  BY <1>4, <1>5 DEF IInv

\* Every state the manager can be in has the numbers in order, as IInv says.
THEOREM SpecIInv == Spec => []IInv
<1>1. IInv /\ [Next]_vars => IInv'
  <2> SUFFICES ASSUME IInv, [Next]_vars PROVE IInv'
    OBVIOUS
  <2>1. CASE Start
    BY <2>1, StartIInv
  <2>2. CASE Stopped
    BY <2>2, StoppedIInv
  <2>3. ASSUME NEW p \in Procs, updateServerStatus(p) PROVE IInv'
    BY <2>3, UpdateIInv
  <2>4. ASSUME NEW p \in Procs, serverFinish(p) PROVE IInv'
    BY <2>4, FinishIInv
  <2>5. CASE \/ Stop \/ UNCHANGED vars
             \/ \E p \in Procs : errorDetect(p) \/ Exec(p) \/ Dies(p)
    BY <2>5, OthersIInv
  <2> QED
    BY <2>1, <2>2, <2>3, <2>4, <2>5 DEF Next, Slot
<1> QED
  BY <1>1, InitIInv, PTL DEF Spec

-----------------------------------------------------------------------------
\* The variables of ServerManager keep their types for any number of servers.
THEOREM SpecTypeOK == Spec => []TypeOK
<1>1. IInv => TypeOK
  BY DEF IInv
<1> QED
  BY <1>1, SpecIInv, PTL

LEMMA ForkedListed == IInv => Forked \subseteq listed
BY DEF IInv, Table, Forked, listed

\* Scheduled jobs run in one server: startServer() and serverFinish() never have
\* two processes with the number 0.
THEOREM SpecOneScheduler == Spec => []OneScheduler
<1>1. IInv => OneScheduler
  <2> SUFFICES ASSUME IInv, NEW p \in Forked, NEW q \in Forked,
                      appServerId[p] = 0, appServerId[q] = 0
               PROVE  p = q
    BY DEF OneScheduler
  <2>1. /\ p \in listed /\ q \in listed
        /\ serversStatus[p] \in Nat /\ serversStatus[q] \in Nat
    BY ForkedListed DEF IInv, TypeOK, listed
  <2>2. serversStatus[p] = 0 /\ serversStatus[q] = 0
    BY <2>1, GivenType DEF IInv, Table, listed
  <2> QED
    BY <2>1, <2>2 DEF IInv, NumbersDiffer
<1> QED
  BY <1>1, SpecIInv, PTL

\* No process escapes the table that stop() goes through, and the table never
\* has more servers than were asked for.
THEOREM SpecAllServersListed == Spec => []AllServersListed
<1>1. IInv => AllServersListed
  BY ForkedListed DEF IInv, Counted, AllServersListed
<1> QED
  BY <1>1, SpecIInv, PTL

\* After a start without deaths the numbers are 0 .. MinServers - 1, through every
\* replacement by serverFinish().
THEOREM SpecNumbersComplete == Spec => []NumbersComplete
<1>1. IInv => NumbersComplete
  BY DEF IInv, InOrder, Numbers, NumbersComplete
<1> QED
  BY <1>1, SpecIInv, PTL
=============================================================================
