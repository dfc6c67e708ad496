---------------------------- MODULE ServerManager ----------------------------
(***************************************************************************)
(* ServerManager of the process "treefrog": it starts the application      *)
(* servers one after the other, starts a server again that has died, and   *)
(* stops them all for a shutdown or a restart (SIGHUP). Its slots run in   *)
(* the main thread, one at a time; the servers run beside it.              *)
(***************************************************************************)
EXTENDS Integers, FiniteSets

CONSTANTS
  Procs,       \* QProcess objects; one is used again when it was deleted
  MaxServers, MinServers,
  MaxStarts    \* bound: starts for which a server may still die

ASSUME ManagerAssumption ==
  /\ IsFiniteSet(Procs)
  /\ MinServers \in Nat \ {0}
  /\ MaxServers \in Nat /\ MinServers <= MaxServers
  /\ MaxStarts \in Nat

VARIABLES
  managerState,
  serversStatus,  \* [Procs -> Int]: the numbers of the listed servers
  startCounter,
  process,        \* where a process and the signals of its QProcess are
  appServerId,    \* the number given to the server with -i, or -1
  early           \* ghost: a server died before all had been started

vars == <<managerState, serversStatus, startCounter, process, appServerId, early>>

NotListed == -1
listed == {p \in Procs : serversStatus[p] # NotListed}
serverCount == Cardinality(listed)
isRunning_WhenStarted == managerState = "Running"              \* mutant
isRunning == managerState \in {"Running", "Starting"}

\* Processes that exist. A process has a number from "execed" on.
Forked == {p \in Procs : process[p] \in {"forked", "execed", "running"}}
Alive  == {p \in Procs : process[p] \in {"execed", "running"}}
\* Processes that have died, before or after started() was emitted.
Dead   == {p \in Procs : process[p] \in {"diedEarly", "dead"}}

TypeOK ==
  /\ managerState \in {"NotRunning", "Starting", "Running", "Stopping"}
  /\ serversStatus \in [Procs -> Nat \cup {NotListed}]
  /\ startCounter \in Nat
  /\ process \in [Procs -> {"none", "forked", "execed", "running", "diedEarly",
                            "dead", "failed", "error"}]
  /\ appServerId \in [Procs -> -1..(MaxServers - 1)]
  /\ early \in BOOLEAN

Init ==
  /\ managerState = "NotRunning"
  /\ serversStatus = [p \in Procs |-> NotListed]
  /\ startCounter = 0
  /\ process = [p \in Procs |-> "none"]
  /\ appServerId = [p \in Procs |-> -1]
  /\ early = FALSE

-----------------------------------------------------------------------------
\* The number in the arguments; one beyond the maximum is not passed on.
given(id) == IF id < MaxServers THEN id ELSE -1

\* startServer(), with serversStatus and process as the caller leaves them.
startServer(p, id, status, state) ==
  /\ process[p] = "none"
  /\ serversStatus' = [status EXCEPT ![p] = id]
  /\ process' = [state EXCEPT ![p] = "forked"]
  /\ appServerId' = [appServerId EXCEPT ![p] = given(id)]
  /\ startCounter' = startCounter + 1

\* The condition of ajustServers().
NeedsServer == serverCount < MaxServers /\ serverCount < MinServers

\* start(), then ajustServers(). The manager is new, the table was cleared.
Start ==
  /\ managerState = "NotRunning"
  /\ managerState' = "Starting"
  /\ NeedsServer
  /\ \E p \in Procs : startServer(p, startCounter, serversStatus, process)
  /\ early' = FALSE

\* updateServerStatus(), when started() is emitted: it starts the next server,
\* or finds that all have been started. While the manager stops it does nothing.
updateServerStatus(p) ==
  /\ process[p] \in {"execed", "diedEarly"} /\ isRunning
  /\ LET state == [process EXCEPT ![p] = IF @ = "execed" THEN "running" ELSE "dead"]
     IN \/ /\ NeedsServer
           /\ \E q \in Procs : startServer(q, startCounter, serversStatus, state)
           /\ UNCHANGED managerState
        \/ /\ ~NeedsServer
           /\ managerState' = "Running"
           /\ process' = state
           /\ UNCHANGED <<serversStatus, startCounter, appServerId>>
  /\ UNCHANGED early

\* errorDetect() with FailedToStart: there is nothing to kill, and finished()
\* will not come. Other errors kill the server, see Dies.
errorDetect(p) ==
  /\ process[p] = "failed" /\ isRunning
  /\ process' = [process EXCEPT ![p] = "error"]
  /\ UNCHANGED <<managerState, serversStatus, startCounter, appServerId, early>>

\* serverFinish(): a new server gets the number of the dead one. (finished()
\* is disconnected before the manager stops, so its other branch is not taken.)
restarted_NewNumber(p) == startCounter                         \* mutant
restarted(p) == serversStatus[p]

serverFinish(p) ==
  /\ process[p] = "dead" /\ isRunning
  /\ \E q \in Procs \ {p} :
       startServer(q, restarted(p), [serversStatus EXCEPT ![p] = NotListed],
                   [process EXCEPT ![p] = "none"])
  /\ early' = (early \/ managerState = "Starting")
  /\ UNCHANGED managerState

\* stop(): all servers get SIGTERM, and the main thread waits for each.
Stop ==
  /\ isRunning
  /\ managerState' = "Stopping"
  /\ UNCHANGED <<serversStatus, startCounter, process, appServerId, early>>

AllFinished_Not == TRUE                                        \* mutant
AllFinished == listed \cap Forked = {}

counterAfterStop_Kept == startCounter                          \* mutant
counterAfterStop == 0

Stopped ==
  /\ managerState = "Stopping"
  /\ AllFinished
  /\ serversStatus' = [p \in Procs |-> NotListed]
  /\ process' = [p \in Procs |-> IF p \in listed \ Forked THEN "none" ELSE process[p]]
  /\ startCounter' = counterAfterStop
  /\ managerState' = "NotRunning"
  /\ UNCHANGED <<appServerId, early>>

-----------------------------------------------------------------------------
(* The processes *)

Exec(p) ==
  /\ process[p] = "forked"
  /\ \E outcome \in {"execed", "failed"} : process' = [process EXCEPT ![p] = outcome]
  /\ UNCHANGED <<managerState, serversStatus, startCounter, appServerId, early>>

Dies(p) ==
  /\ p \in Alive
  /\ managerState = "Stopping" \/ startCounter + Cardinality(Dead) < MaxStarts
  /\ process' = [process EXCEPT ![p] = IF @ = "execed" THEN "diedEarly" ELSE "dead"]
  /\ UNCHANGED <<managerState, serversStatus, startCounter, appServerId, early>>

-----------------------------------------------------------------------------
Slot(p) == updateServerStatus(p) \/ errorDetect(p) \/ serverFinish(p)

Next ==
  \/ Start \/ Stop \/ Stopped
  \/ \E p \in Procs : Slot(p) \/ Exec(p) \/ Dies(p)

\* The event loop of the manager serves every signal; the operating system runs
\* what was forked, and a server obeys SIGTERM. Nothing else has to happen.
Terminates(p) == managerState = "Stopping" /\ Dies(p)

Fairness ==
  /\ WF_vars(Stopped)
  /\ \A p \in Procs : WF_vars(Slot(p)) /\ WF_vars(Exec(p)) /\ WF_vars(Terminates(p))

Spec == Init /\ [][Next]_vars
FairSpec == Spec /\ Fairness

-----------------------------------------------------------------------------
(* Properties *)

\* "Jobs scheduled by this class will be executed in only one application
\* server process" (tapplicationscheduler.cpp:14): whatever dies, is started
\* again or is stopped, two processes never have the number 0 at once.
OneScheduler ==
  \A p, q \in Forked : appServerId[p] = 0 /\ appServerId[q] = 0 => p = q

\* The manager watches over every process it started, and these are never more
\* than it was told to start.
AllServersListed == Forked \subseteq listed /\ serverCount <= MinServers

\* Once all have been started, and none died before that, the numbers are those
\* from 0 on: a server that died was replaced under its number. (A death during
\* start-up uses up a number of startCounter, and a later server starts without.)
NumbersComplete ==
  managerState = "Running" /\ ~early =>
    {serversStatus[p] : p \in listed} = 0..(MinServers - 1)

\* A number whose server died is taken over by a process that runs, unless the
\* manager is told to stop or the process cannot be started.
Has(id, states) == \E p \in Procs : serversStatus[p] = id /\ process[p] \in states

Replaced ==
  \A id \in 0..(MaxServers - 1) :
    isRunning /\ Has(id, {"diedEarly", "dead"}) ~>
      ~isRunning \/ Has(id, {"execed", "running", "failed"})

\* A start comes to its end, and a stop as well, whatever dies meanwhile, unless a
\* process cannot be started.
Settles ==
  managerState \in {"Starting", "Stopping"} ~>
    \/ managerState \in {"Running", "NotRunning"}
    \/ isRunning /\ \E p \in Procs : process[p] = "error"
==============================================================================
