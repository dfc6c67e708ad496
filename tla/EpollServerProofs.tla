-------------------------- MODULE EpollServerProofs --------------------------
(***************************************************************************)
(* Proofs about EpollServer for every set of sockets and workers, every    *)
(* worker limit and every bound on the requests: type correctness, one     *)
(* worker per connection, sockets outlive their users, and the limit on    *)
(* the number of workers.                                                  *)
(***************************************************************************)
EXTENDS EpollServer, FiniteSetTheorems, TLAPS

(* The inductive invariant, in named parts. *)

\* A connection never holds more requests than were sent.
Arrivals == \A s \in Sock : inbox[s] <= asked

\* myWorkerCounter counts exactly the started, unreleased workers of a socket.
Counting ==
  \A s \in Sock : myWorkerCounter[s] =
    IF \E w \in Worker : Counted(w) /\ wsock[w] = s THEN 1 ELSE 0

\* A worker object has a socket.
WorkerSocks == \A w \in Worker : wpc[w] # "none" => wsock[w] \in Sock

\* Life of a socket: accepted, polled, told to delete itself, queued, dead.
Lives ==
  \A s \in Sock :
    /\ peer[s] \in {"none", "backlog"} => obj[s] = "none" /\ deleting[s] = "no"
    /\ obj[s] = "none" => deleting[s] = "no"
    /\ sd[s] => obj[s] = "live"
    /\ ready[s] => polling[s]
    /\ polling[s] => obj[s] = "live" /\ deleting[s] = "no"
    /\ posted[s] \/ obj[s] = "dead" =>
         deleting[s] # "no" /\ ~polling[s] /\ myWorkerCounter[s] = 0
    /\ myWorkerCounter[s] > 0 => obj[s] = "live"

\* Where the epoll thread is.
EpollAt ==
  /\ \A s \in Sock : batch[s] # {} => polling[s]
  /\ epc \in {"dispatch", "scan", "release", "drain", "exit"} =>
       \A s \in Sock : batch[s] = {}
  /\ epc \in {"recv", "count", "pollIn", "read"} =>
       cur \in Sock /\ polling[cur] /\ batch[cur] = {}
  /\ epc = "read" => myWorkerCounter[cur] = 0
  /\ epc = "delete" =>
       /\ cur \in Sock /\ deleting[cur] # "no"
       /\ back \in {"dispatch", "event", "scan", "release"}
       /\ back # "event" => \A s \in Sock : batch[s] = {}

\* Where the main thread is.
MainAt == mpc \in {"check", "exchange"} => msock \in Sock /\ obj[msock] = "live"

IInv == TypeOK /\ Arrivals /\ Counting /\ OneWorkerPerSocket /\ WorkerSocks /\ Lives
          /\ EpollAt /\ MainAt

-----------------------------------------------------------------------------
(* The invariant is inductive. *)

LEMMA InitIInv == Init => IInv
<1> SUFFICES ASSUME Init PROVE IInv
  OBVIOUS
<1> USE DEF Init, Counted
<1>1. TypeOK
  <2>1. 0 \in 0..MaxRequests
    BY ConstantsAssumption DEF ConstantsAssumption
  <2>2. sendRequests \in Seq(TSendData)
    OBVIOUS
  <2>3. batch \in [Sock -> Masks] /\ fresh \in SUBSET Sock /\ scan \in SUBSET Sock
          /\ dangling \in SUBSET Sock
    BY DEF Masks
  <2>4. QED
    BY <2>1, <2>2, <2>3 DEF TypeOK, WorkerPcs, MainPcs, EpollPcs
<1>2. Arrivals
  BY DEF Arrivals
<1>3. Counting /\ OneWorkerPerSocket /\ WorkerSocks
  BY DEF Counting, OneWorkerPerSocket, WorkerSocks
<1>4. Lives
  BY DEF Lives
<1>5. EpollAt /\ MainAt
  BY DEF EpollAt, MainAt
<1>6. QED
  BY <1>1, <1>2, <1>3, <1>4, <1>5 DEF IInv

\* Clients only touch the kernel state of a connection.
LEMMA ClientIInv == ASSUME IInv, Client PROVE IInv'
<1> USE DEF IInv, kernelVars, objVars, workerVars, mainVars, epollVars
<1>1. ASSUME NEW s \in Sock, Connect(s) PROVE IInv'
  <2> USE <1>1 DEF Connect
  <2>1. TypeOK'
    BY SMTT(60) DEF TypeOK, WorkerPcs, MainPcs, EpollPcs
  <2>2. Arrivals' /\ Counting' /\ OneWorkerPerSocket' /\ WorkerSocks'
          /\ Lives' /\ EpollAt' /\ MainAt'
    BY SMTT(60) DEF Arrivals, TypeOK, Counting, OneWorkerPerSocket, WorkerSocks, Counted,
       Lives, EpollAt, MainAt
  <2>3. QED
    BY <2>1, <2>2
<1>2. ASSUME NEW s \in Sock, SendRequest(s) PROVE IInv'
  <2> USE <1>2 DEF SendRequest, Notify
  <2>1. TypeOK'
    BY SMTT(60), ConstantsAssumption DEF TypeOK, WorkerPcs, MainPcs, EpollPcs, Arrivals,
       ConstantsAssumption
  <2>2. Arrivals'
    BY SMTT(60), ConstantsAssumption DEF Arrivals, TypeOK, ConstantsAssumption
  <2>3. Counting' /\ OneWorkerPerSocket' /\ WorkerSocks' /\ Lives'
          /\ EpollAt' /\ MainAt'
    BY SMTT(60) DEF Counting, OneWorkerPerSocket, WorkerSocks, Counted, Lives, TypeOK,
       EpollAt, MainAt
  <2>4. QED
    BY <2>1, <2>2, <2>3
<1>3. ASSUME NEW s \in Sock, Hangup(s) PROVE IInv'
  <2> USE <1>3 DEF Hangup, Notify
  <2>1. TypeOK'
    BY SMTT(60) DEF TypeOK, WorkerPcs, MainPcs, EpollPcs
  <2>2. Arrivals' /\ Counting' /\ OneWorkerPerSocket' /\ WorkerSocks'
          /\ Lives' /\ EpollAt' /\ MainAt'
    BY SMTT(60) DEF Arrivals, TypeOK, Counting, OneWorkerPerSocket, WorkerSocks, Counted,
       Lives, EpollAt, MainAt
  <2>3. QED
    BY <2>1, <2>2
<1>4. ASSUME NEW s \in Sock, Drain(s) PROVE IInv'
  <2> USE <1>4 DEF Drain, Notify
  <2>1. TypeOK'
    BY SMTT(60) DEF TypeOK, WorkerPcs, MainPcs, EpollPcs
  <2>2. Arrivals' /\ Counting' /\ OneWorkerPerSocket' /\ WorkerSocks'
          /\ Lives' /\ EpollAt' /\ MainAt'
    BY SMTT(60) DEF Arrivals, TypeOK, Counting, OneWorkerPerSocket, WorkerSocks, Counted,
       Lives, EpollAt, MainAt
  <2>3. QED
    BY <2>1, <2>2
<1>5. QED
  BY <1>1, <1>2, <1>3, <1>4 DEF Client

\* Steps that touch only the queue, the list of the scan and the ghosts.
LEMMA SameIInv ==
  ASSUME IInv, UNCHANGED <<kernelVars, objVars, workerVars, mainVars>>,
         UNCHANGED <<epc, cur, batch, back, stopped>>,
         sendRequests' \in Seq(TSendData), dangling' \in SUBSET Sock,
         fresh' \in SUBSET Sock, scan' \in SUBSET Sock
  PROVE  IInv'
  BY SMTT(60) DEF IInv, TypeOK, Arrivals, Counting, OneWorkerPerSocket, WorkerSocks, Counted,
     Lives, EpollAt, MainAt, kernelVars, objVars, workerVars, mainVars

\* Closing a socket, from whichever loop of the epoll thread: deletePoll(),
\* close() and the first half of deleteLater().
LEMMA ClosingIInv ==
  ASSUME IInv, NEW s \in Sock, obj[s] = "live",
         NEW where \in {"dispatch", "event", "scan"},
         ClosePoll(s), SetDeleting(s, where), TypeOK',
         UNCHANGED <<peer, asked, obj, posted, myWorkerCounter, workerVars, mainVars>>,
         \A t \in Sock : batch'[t] # {} => batch[t] # {} /\ t # s,
         where # "event" => \A t \in Sock : batch'[t] = {}
  PROVE  IInv'
<1>1. \A t \in Sock :
        /\ polling'[t] <=> polling[t] /\ t # s
        /\ sd'[t] <=> sd[t] /\ t # s
        /\ ready'[t] <=> ready[t] /\ t # s
        /\ inbox'[t] = IF t = s THEN 0 ELSE inbox[t]
        /\ deleting'[t] # "no" <=> deleting[t] # "no" \/ t = s
  BY DEF IInv, TypeOK, ClosePoll, SetDeleting
<1>2. cur' = s /\ back' = where /\ epc' = "delete"
  BY DEF SetDeleting
<1>3. Arrivals'
  <2>1. asked \in Nat
    BY ConstantsAssumption DEF IInv, TypeOK, ConstantsAssumption
  <2>2. QED
    BY <1>1, <2>1 DEF IInv, Arrivals
<1>4. Counting' /\ OneWorkerPerSocket' /\ WorkerSocks' /\ MainAt'
  BY DEF IInv, Counting, OneWorkerPerSocket, WorkerSocks, Counted, MainAt, workerVars,
     mainVars
<1>5. Lives'
  BY <1>1 DEF IInv, Lives
<1>6. EpollAt'
  BY <1>1, <1>2 DEF IInv, EpollAt
<1>7. QED
  BY <1>3, <1>4, <1>5, <1>6 DEF IInv

\* The epoll thread: it alone closes, starts workers and clears polling.
LEMMA EpollIInv == ASSUME IInv, EpollThread \/ EDrainTimeout PROVE IInv'
<1> USE DEF IInv, kernelVars, objVars, workerVars, mainVars, epollVars
<1>1. ASSUME EDispatch PROVE IInv'
  <2> DEFINE method == Head(sendRequests).method
             s      == Head(sendRequests).socket
  <2>1. method \in Methods /\ s \in Sock
    <3>1. Head(sendRequests) \in TSendData
      BY <1>1 DEF EDispatch, TypeOK
    <3>2. QED
      BY <3>1 DEF TSendData
  <2>2. sendRequests' \in Seq(TSendData) /\ dangling' \in SUBSET Sock
    BY <1>1, <2>1 DEF EDispatch, TypeOK, Touch
  <2> HIDE DEF method, s
  <2>3. CASE ~sd[s]
    <3>1. UNCHANGED <<kernelVars, objVars, workerVars, mainVars, epollVars, stopped>>
      BY <1>1, <2>3 DEF EDispatch, method, s
    <3>2. QED
      BY <2>2, <3>1, SameIInv DEF TypeOK, epollVars
  <2>4. CASE sd[s] /\ method = "Disconnect"
    <3>1. /\ ClosePoll(s) /\ SetDeleting(s, "dispatch")
          /\ UNCHANGED <<peer, asked, writable, obj, posted, registered, pollIn,
                         myWorkerCounter, sendBuf, batch, fresh, scan,
                         workerVars, mainVars, stopped>>
      BY <1>1, <2>4 DEF EDispatch, method, s
    <3>2. TypeOK'
      BY SMTT(60), <2>1, <2>2, <3>1, ConstantsAssumption
      DEF TypeOK, ClosePoll, SetDeleting, EpollPcs, workerVars, mainVars,
         ConstantsAssumption
    <3>3. obj[s] = "live" /\ \A t \in Sock : batch[t] = {}
      BY <1>1, <2>1, <2>4 DEF EDispatch, Lives, EpollAt
    <3>4. QED
      BY <2>1, <3>1, <3>2, <3>3, ClosingIInv
  <2>5. CASE sd[s] /\ method = "SwitchToWebSocket"
    <3>1. /\ polling' = [polling EXCEPT ![s] = FALSE]
          /\ ready' = [ready EXCEPT ![s] = FALSE]
          /\ SetDeleting(s, "dispatch")
          /\ UNCHANGED <<peer, asked, inbox, writable, obj, sd, posted, registered,
                         pollIn, myWorkerCounter, sendBuf, batch, fresh, scan,
                         workerVars, mainVars, stopped>>
      BY <1>1, <2>5 DEF EDispatch, method, s
    <3>2. TypeOK'
      BY <2>1, <2>2, <3>1
      DEF TypeOK, SetDeleting, EpollPcs, workerVars, mainVars
    <3>3. obj[s] = "live" /\ epc = "dispatch" /\ \A t \in Sock : batch[t] = {}
      BY <1>1, <2>1, <2>5 DEF EDispatch, Lives, EpollAt
    <3>4. Lives' /\ EpollAt'
      BY <2>1, <3>1, <3>3 DEF SetDeleting, Lives, EpollAt, TypeOK
    <3>5. Arrivals' /\ Counting' /\ OneWorkerPerSocket' /\ WorkerSocks' /\ MainAt'
      BY <3>1 DEF Arrivals, Counting, OneWorkerPerSocket, WorkerSocks, Counted,
         MainAt, workerVars, mainVars
    <3>6. QED
      BY <3>2, <3>4, <3>5
  <2>6. QED
    BY <2>1, <2>3, <2>4, <2>5 DEF Methods
<1>2. ASSUME EDelete PROVE IInv'
  <2> USE <1>2 DEF EDelete, Touch, PostsDestruction, LeaveRegistered
  <2>1. cur \in Sock /\ back \in {"dispatch", "event", "scan", "release"}
    BY DEF EpollAt
  <2>2. TypeOK'
    BY <2>1 DEF TypeOK, EpollPcs
  <2>3. Arrivals' /\ Counting' /\ OneWorkerPerSocket' /\ WorkerSocks' /\ MainAt'
    BY DEF Arrivals, Counting, OneWorkerPerSocket, WorkerSocks, Counted, MainAt
  <2>4. Lives'
    BY DEF Lives, TypeOK, EpollAt
  <2>5. EpollAt'
    BY DEF EpollAt, Lives, TypeOK
  <2>6. QED
    BY <2>2, <2>3, <2>4, <2>5
<1>3. ASSUME EWait PROVE IInv'
  <2> USE <1>3 DEF EWait
  <2>1. TypeOK'
    BY DEF TypeOK, WorkerPcs, MainPcs, EpollPcs, Mask, Masks
  <2>2. Arrivals' /\ Counting' /\ OneWorkerPerSocket' /\ WorkerSocks'
          /\ Lives' /\ EpollAt' /\ MainAt'
    BY DEF Arrivals, TypeOK, Counting, OneWorkerPerSocket, WorkerSocks, Counted,
       Lives, EpollAt, MainAt
  <2>3. QED
    BY <2>1, <2>2
<1>4. ASSUME NEW s \in Sock, EAccept(s) PROVE IInv'
  <2> USE <1>4 DEF EAccept, addPoll
  <2>1. TypeOK'
    BY SMTT(60) DEF TypeOK, WorkerPcs, MainPcs, EpollPcs
  <2>2. Arrivals' /\ Counting' /\ OneWorkerPerSocket' /\ WorkerSocks'
          /\ Lives' /\ EpollAt' /\ MainAt'
    BY SMTT(60) DEF Arrivals, TypeOK, Counting, OneWorkerPerSocket, WorkerSocks, Counted,
       Lives, EpollAt, MainAt
  <2>3. QED
    BY <2>1, <2>2
<1>5. ASSUME NEW s \in Sock, EEvent(s) PROVE IInv'
  <2>1. polling[s] /\ obj[s] = "live" /\ epc = "event" /\ dangling' \in SUBSET Sock
    BY <1>5 DEF EEvent, send, EpollAt, Lives, Touch, TypeOK
  <2>2. batch' = [batch EXCEPT ![s] = {}] /\ batch' \in [Sock -> Masks]
    BY <1>5 DEF EEvent, send, TypeOK, Masks
  <2>3. CASE ClosePoll(s) /\ SetDeleting(s, "event")
             /\ UNCHANGED <<peer, asked, writable, obj, posted, registered, pollIn,
                            myWorkerCounter, sendBuf, fresh, scan>>
    <3>1. UNCHANGED <<sendRequests, workerVars, mainVars, stopped>>
      BY <1>5 DEF EEvent, send
    <3>2. TypeOK'
      BY SMTT(60), <2>1, <2>2, <2>3, <3>1, ConstantsAssumption
      DEF TypeOK, ClosePoll, SetDeleting, EpollPcs, workerVars, mainVars,
         ConstantsAssumption
    <3>3. \A t \in Sock : batch'[t] # {} => batch[t] # {} /\ t # s
      BY <2>2 DEF TypeOK
    <3>4. QED
      BY <2>1, <2>3, <3>1, <3>2, <3>3, ClosingIInv
  <2>4. CASE ~(ClosePoll(s) /\ SetDeleting(s, "event")
               /\ UNCHANGED <<peer, asked, writable, obj, posted, registered, pollIn,
                              myWorkerCounter, sendBuf, fresh, scan>>)
    <3>1. UNCHANGED <<peer, asked, inbox, ready, obj, sd, polling, deleting, posted,
                      registered, pollIn, myWorkerCounter, scan, back, sendRequests,
                      workerVars, mainVars, stopped>>
      BY <1>5, <2>4 DEF EEvent, send
    <3>2. (epc' = "recv" /\ cur' = s) \/ UNCHANGED <<epc, cur>>
      BY <1>5, <2>4 DEF EEvent, send
    <3>3. /\ writable' \in [Sock -> BOOLEAN]
          /\ fresh' \in SUBSET Sock
      BY <1>5, <2>4 DEF EEvent, send, TypeOK
    <3>8. sendBuf' \in [Sock -> Nat]
      <4>1. sendBuf' = sendBuf \/ \E n \in 0..sendBuf[s] : sendBuf' = [sendBuf EXCEPT ![s] = n]
        BY <1>5, <2>4 DEF EEvent, send, TypeOK
      <4>2. sendBuf \in [Sock -> Nat]
        BY DEF TypeOK
      <4>3. QED
        BY <4>1, <4>2
    <3>4. TypeOK'
      BY ZenonT(60), <2>1, <2>2, <3>1, <3>2, <3>3, <3>8 DEF TypeOK, EpollPcs, workerVars, mainVars
    <3>5. Arrivals' /\ Counting' /\ OneWorkerPerSocket' /\ WorkerSocks' /\ Lives'
            /\ MainAt'
      BY <3>1 DEF Arrivals, Counting, OneWorkerPerSocket, WorkerSocks, Counted,
         Lives, MainAt, workerVars, mainVars
    <3>6. EpollAt'
      BY SMTT(60), <2>1, <2>2, <3>1, <3>2 DEF EpollAt, TypeOK
    <3>7. QED
      BY <3>4, <3>5, <3>6
  <2>5. QED
    BY <2>3, <2>4
<1>6. ASSUME ERecvLimit PROVE IInv'
  <2> USE <1>6 DEF ERecvLimit, modifyPoll
  <2>1. TypeOK'
    BY ZenonT(60) DEF TypeOK, WorkerPcs, MainPcs, EpollPcs
  <2>2. Arrivals'
    BY DEF Arrivals, TypeOK
  <2>3. Counting' /\ OneWorkerPerSocket' /\ WorkerSocks'
    BY DEF Counting, OneWorkerPerSocket, WorkerSocks, Counted, TypeOK, Lives
  <2>4. Lives'
    BY ZenonT(60) DEF Lives, TypeOK
  <2>5. EpollAt'
    BY DEF EpollAt, Lives, TypeOK
  <2>6. MainAt'
    BY DEF MainAt, TypeOK, Lives
  <2>7. QED
    BY <2>1, <2>2, <2>3, <2>4, <2>5, <2>6
<1>7. ASSUME ECountWorker PROVE IInv'
  <2> USE <1>7 DEF ECountWorker, HasWorker
  <2>1. TypeOK'
    BY DEF TypeOK, WorkerPcs, MainPcs, EpollPcs
  <2>2. Arrivals'
    BY DEF Arrivals, TypeOK
  <2>3. Counting' /\ OneWorkerPerSocket' /\ WorkerSocks'
    BY DEF Counting, OneWorkerPerSocket, WorkerSocks, Counted, TypeOK, Lives
  <2>4. Lives'
    BY DEF Lives, TypeOK
  <2>5. EpollAt'
    BY DEF EpollAt, Lives, TypeOK
  <2>6. MainAt'
    BY DEF MainAt, TypeOK, Lives
  <2>7. QED
    BY <2>1, <2>2, <2>3, <2>4, <2>5, <2>6
<1>8. ASSUME ESetPollIn PROVE IInv'
  <2> USE <1>8 DEF ESetPollIn
  <2>1. TypeOK'
    BY ZenonT(60) DEF TypeOK, WorkerPcs, MainPcs, EpollPcs
  <2>2. Arrivals' /\ Counting' /\ OneWorkerPerSocket' /\ WorkerSocks'
          /\ Lives' /\ EpollAt' /\ MainAt'
    BY DEF Arrivals, TypeOK, Counting, OneWorkerPerSocket, WorkerSocks, Counted,
       Lives, EpollAt, MainAt
  <2>3. QED
    BY <2>1, <2>2
<1>9. ASSUME ERecv PROVE IInv'
  <2>1. /\ cur \in Sock /\ polling[cur] /\ batch[cur] = {}
        /\ obj[cur] = "live" /\ myWorkerCounter[cur] = 0
    BY <1>9 DEF ERecv, recvFails, Upgrade, EpollAt, Lives
  <2>2. UNCHANGED <<peer, asked, writable, obj, posted, registered, pollIn, sendBuf,
                    mainVars, batch, scan, stopped, dangling>>
    BY <1>9 DEF ERecv, recvFails, Upgrade
  <2>3. CASE peer[cur] \in {"fin", "reset"}
    <3>1. /\ ClosePoll(cur) /\ SetDeleting(cur, "event")
          /\ UNCHANGED <<myWorkerCounter, sendRequests, workerVars, fresh>>
      BY <1>9, <2>3 DEF ERecv, recvFails, Upgrade
    <3>2. TypeOK'
      BY <2>1, <2>2, <3>1, ConstantsAssumption
      DEF TypeOK, ClosePoll, SetDeleting, EpollPcs, workerVars, mainVars,
         ConstantsAssumption
    <3>3. QED
      BY <2>1, <2>2, <3>1, <3>2, ClosingIInv
  <2>4. CASE peer[cur] \notin {"fin", "reset"}
    <3>1. /\ inbox' = [inbox EXCEPT ![cur] = 0]
          /\ fresh' = fresh \cup {cur} /\ epc' = "event" /\ cur' = NoSock
          /\ UNCHANGED <<ready, sd, polling, deleting, back>>
      BY <1>9, <2>4 DEF ERecv, recvFails, Upgrade
    <3>2. sendRequests' \in Seq(TSendData)
      <4>1. ASSUME NEW m \in Methods,
                   sendRequests' = IF deleting[cur] = "no"
                                   THEN Append(sendRequests, [method |-> m, socket |-> cur])
                                   ELSE sendRequests
            PROVE  sendRequests' \in Seq(TSendData)
        <5>1. [method |-> m, socket |-> cur] \in TSendData
          BY <2>1 DEF TSendData
        <5>2. QED
          BY <4>1, <5>1 DEF TypeOK
      <4>2. CASE UNCHANGED sendRequests
        BY <4>2 DEF TypeOK
      <4>3. QED
        BY <1>9, <2>4, <4>1, <4>2 DEF ERecv, recvFails, Upgrade
    <3>3. CASE UNCHANGED <<myWorkerCounter, workerVars>>
      <4>1. TypeOK'
        BY <2>1, <2>2, <3>1, <3>2, <3>3, ConstantsAssumption
        DEF TypeOK, EpollPcs, workerVars, mainVars, ConstantsAssumption
      <4>2. Arrivals'
        BY <2>1, <2>2, <3>1 DEF Arrivals, TypeOK
      <4>3. Counting' /\ OneWorkerPerSocket' /\ WorkerSocks' /\ Lives' /\ MainAt'
        BY <2>2, <3>1, <3>3 DEF Counting, OneWorkerPerSocket, WorkerSocks, Counted,
           Lives, MainAt, workerVars, mainVars
      <4>4. EpollAt'
        BY <1>9, <2>2, <3>1 DEF ERecv, recvFails, Upgrade, EpollAt
      <4>5. QED
        BY <4>1, <4>2, <4>3, <4>4
    <3>4. CASE inbox[cur] > 0 /\ startWorker(cur, inbox[cur])
      <4>1. PICK w \in Worker :
               /\ wpc[w] = "none"
               /\ wpc' = [wpc EXCEPT ![w] = "run"]
               /\ wsock' = [wsock EXCEPT ![w] = cur]
               /\ wleft' = [wleft EXCEPT ![w] = inbox[cur]]
               /\ myWorkerCounter' = [myWorkerCounter EXCEPT ![cur] = @ + 1]
        BY <3>4 DEF startWorker
      <4>2. TypeOK'
        BY SMTT(60), <2>1, <2>2, <3>1, <3>2, <4>1, ConstantsAssumption
        DEF TypeOK, EpollPcs, WorkerPcs, mainVars, ConstantsAssumption
      <4>3. Arrivals'
        BY <2>1, <2>2, <3>1 DEF Arrivals, TypeOK
      <4>4. ~Counted(w) /\ \A v \in Worker : Counted(v) => wsock[v] # cur
        BY <2>1, <4>1 DEF Counting, Counted
      <4>5. \A v \in Worker : (Counted(v)' <=> Counted(v) \/ v = w)
                             /\ wsock'[v] = IF v = w THEN cur ELSE wsock[v]
        BY <4>1, <4>4 DEF Counted, TypeOK
      <4>6. OneWorkerPerSocket'
        BY <4>4, <4>5 DEF OneWorkerPerSocket
      <4>7. WorkerSocks'
        BY <2>1, <4>1, <4>5 DEF WorkerSocks, TypeOK
      <4>8. Counting'
        BY <2>1, <4>1, <4>4, <4>5 DEF Counting, TypeOK
      <4>9. Lives'
        BY <2>1, <2>2, <3>1, <4>1 DEF Lives, TypeOK
      <4>10. EpollAt' /\ MainAt'
        BY <1>9, <2>2, <3>1 DEF ERecv, recvFails, Upgrade, EpollAt, MainAt, mainVars
      <4>11. QED
        BY <4>2, <4>3, <4>6, <4>7, <4>8, <4>9, <4>10
    <3>5. QED
      BY <1>9, <2>4, <3>3, <3>4 DEF ERecv, recvFails, Upgrade
  <2>5. QED
    BY <2>3, <2>4
<1>10. ASSUME EScanBegin PROVE IInv'
  <2> USE <1>10 DEF EScanBegin, allSockets
  <2>1. TypeOK'
    BY DEF TypeOK, WorkerPcs, MainPcs, EpollPcs
  <2>2. Arrivals'
    BY DEF Arrivals, TypeOK
  <2>3. Counting' /\ OneWorkerPerSocket' /\ WorkerSocks'
    BY DEF Counting, OneWorkerPerSocket, WorkerSocks, Counted, TypeOK, Lives
  <2>4. Lives'
    BY DEF Lives, TypeOK
  <2>5. EpollAt'
    BY DEF EpollAt, Lives, TypeOK
  <2>6. MainAt'
    BY DEF MainAt, TypeOK, Lives
  <2>7. QED
    BY <2>1, <2>2, <2>3, <2>4, <2>5, <2>6
<1>11. ASSUME ERoundEnd PROVE IInv'
  <2> USE <1>11 DEF ERoundEnd
  <2>1. TypeOK'
    BY DEF TypeOK, WorkerPcs, MainPcs, EpollPcs
  <2>2. Arrivals' /\ Counting' /\ OneWorkerPerSocket' /\ WorkerSocks'
          /\ Lives' /\ EpollAt' /\ MainAt'
    BY DEF Arrivals, TypeOK, Counting, OneWorkerPerSocket, WorkerSocks, Counted,
       Lives, EpollAt, MainAt
  <2>3. QED
    BY <2>1, <2>2
<1>12. ASSUME NEW s \in Sock, EScanSkip(s) PROVE IInv'
  <2> USE <1>12 DEF EScanSkip, Touch
  <2>1. TypeOK'
    BY SMTT(60) DEF TypeOK, WorkerPcs, MainPcs, EpollPcs
  <2>2. Arrivals' /\ Counting' /\ OneWorkerPerSocket' /\ WorkerSocks'
          /\ Lives' /\ EpollAt' /\ MainAt'
    BY SMTT(60) DEF Arrivals, TypeOK, Counting, OneWorkerPerSocket, WorkerSocks, Counted,
       Lives, EpollAt, MainAt
  <2>3. QED
    BY <2>1, <2>2
<1>13. ASSUME NEW s \in Sock, EScanTimeout(s) PROVE IInv'
  <2>1. scan' \in SUBSET Sock /\ dangling' \in SUBSET Sock
    BY <1>13 DEF EScanTimeout, TypeOK, Touch
  <2>2. UNCHANGED <<peer, asked, writable, obj, posted, registered, pollIn,
                    myWorkerCounter, sendBuf, sendRequests, workerVars, mainVars,
                    batch, fresh, stopped>>
    BY <1>13 DEF EScanTimeout
  <2>3. CASE obj[s] = "live"
    <3>1. ClosePoll(s) /\ SetDeleting(s, "scan")
      BY <1>13, <2>3 DEF EScanTimeout
    <3>2. TypeOK'
      BY SMTT(60), <2>1, <2>2, <3>1, ConstantsAssumption
      DEF TypeOK, ClosePoll, SetDeleting, EpollPcs, workerVars, mainVars,
         ConstantsAssumption
    <3>3. \A t \in Sock : batch[t] = {}
      BY <1>13 DEF EScanTimeout, EpollAt
    <3>4. QED
      BY <2>2, <2>3, <3>1, <3>2, <3>3, ClosingIInv
  <2>4. CASE obj[s] # "live"
    <3>1. UNCHANGED <<polling, sd, ready, inbox, deleting, cur, back, epc>>
      BY <1>13, <2>4 DEF EScanTimeout
    <3>2. QED
      BY <2>1, <2>2, <3>1, SameIInv DEF TypeOK, kernelVars, objVars
  <2>5. QED
    BY <2>3, <2>4
<1>14. ASSUME ERelease PROVE IInv'
  <2> USE <1>14 DEF ERelease, SetDeleting
  <2>1. TypeOK'
    BY ZenonT(60) DEF TypeOK, WorkerPcs, MainPcs, EpollPcs
  <2>2. Arrivals'
    BY DEF Arrivals, TypeOK
  <2>3. Counting' /\ OneWorkerPerSocket' /\ WorkerSocks'
    BY DEF Counting, OneWorkerPerSocket, WorkerSocks, Counted, TypeOK, Lives
  <2>4. Lives'
    BY DEF Lives, TypeOK
  <2>5. EpollAt'
    BY SMTT(60) DEF EpollAt, Lives, TypeOK
  <2>6. MainAt'
    BY DEF MainAt, TypeOK, Lives
  <2>7. QED
    BY <2>1, <2>2, <2>3, <2>4, <2>5, <2>6
<1>15. ASSUME EDrained PROVE IInv'
  <2> USE <1>15 DEF EDrained
  <2>1. TypeOK'
    BY DEF TypeOK, WorkerPcs, MainPcs, EpollPcs
  <2>2. Arrivals'
    BY DEF Arrivals, TypeOK
  <2>3. Counting' /\ OneWorkerPerSocket' /\ WorkerSocks'
    BY DEF Counting, OneWorkerPerSocket, WorkerSocks, Counted, TypeOK, Lives
  <2>4. Lives'
    BY DEF Lives, TypeOK
  <2>5. EpollAt'
    BY DEF EpollAt, Lives, TypeOK
  <2>6. MainAt'
    BY DEF MainAt, TypeOK, Lives
  <2>7. QED
    BY <2>1, <2>2, <2>3, <2>4, <2>5, <2>6
<1>16. ASSUME EDrainTimeout PROVE IInv'
  <2> USE <1>16 DEF EDrainTimeout
  <2>1. TypeOK'
    BY DEF TypeOK, WorkerPcs, MainPcs, EpollPcs
  <2>2. Arrivals' /\ Counting' /\ OneWorkerPerSocket' /\ WorkerSocks'
          /\ Lives' /\ EpollAt' /\ MainAt'
    BY DEF Arrivals, TypeOK, Counting, OneWorkerPerSocket, WorkerSocks, Counted,
       Lives, EpollAt, MainAt
  <2>3. QED
    BY <2>1, <2>2
<1>17. QED
  BY <1>1, <1>2, <1>3, <1>4, <1>5, <1>6, <1>7, <1>8, <1>9, <1>10, <1>11, <1>12,
     <1>13, <1>14, <1>15, <1>16 DEF EpollThread

\* Worker threads: they only use a socket whose counter holds them.
LEMMA WorkerIInv == ASSUME IInv, NEW w \in Worker, WorkerThread(w) PROVE IInv'
<1> USE DEF IInv, kernelVars, objVars, workerVars, mainVars, epollVars
<1>1. ASSUME WExecute(w) PROVE IInv'
  <2> USE <1>1 DEF WExecute, SeesDeleting
  <2>1. TypeOK'
    BY SMTT(60), ConstantsAssumption DEF TypeOK, WorkerPcs, MainPcs, EpollPcs,
       ConstantsAssumption
  <2>2. Arrivals' /\ Counting' /\ OneWorkerPerSocket' /\ WorkerSocks'
          /\ Lives' /\ EpollAt' /\ MainAt'
    BY SMTT(60) DEF Arrivals, TypeOK, Counting, OneWorkerPerSocket, WorkerSocks, Counted,
       Lives, EpollAt, MainAt
  <2>3. QED
    BY <2>1, <2>2
<1>2. ASSUME WEnqueue(w) PROVE IInv'
  <2> USE <1>2 DEF WEnqueue
  <2>1. wsock[w] \in Sock
    BY DEF WorkerSocks
  <2>2. TypeOK'
    BY SMTT(60), <2>1 DEF TypeOK, WorkerPcs
  <2>3. Arrivals' /\ Counting' /\ OneWorkerPerSocket' /\ WorkerSocks'
    BY SMTT(60) DEF Arrivals, Counting, OneWorkerPerSocket, WorkerSocks, Counted, TypeOK
  <2>4. Lives' /\ EpollAt' /\ MainAt'
    BY DEF Lives, EpollAt, MainAt
  <2>5. QED
    BY <2>2, <2>3, <2>4
<1>3. ASSUME WRearm(w) PROVE IInv'
  <2>1. wsock[w] \in Sock /\ ready' \in [Sock -> BOOLEAN]
          /\ \A s \in Sock : ready'[s] => ready[s] \/ polling[s]
    BY <1>3 DEF WRearm, modifyPoll, WorkerSocks, TypeOK
  <2>2. UNCHANGED <<peer, asked, inbox, writable, objVars, sendRequests, wsock, wleft,
                    mainVars, epollVars, stopped, dangling>>
          /\ wpc[w] = "rearm" /\ wpc' = [wpc EXCEPT ![w] = "run"]
    BY <1>3 DEF WRearm
  <2>3. TypeOK'
    BY <2>1, <2>2 DEF TypeOK, WorkerPcs
  <2>4. Arrivals' /\ Counting' /\ OneWorkerPerSocket' /\ WorkerSocks'
    BY SMTT(60), <2>1, <2>2 DEF Arrivals, Counting, OneWorkerPerSocket, WorkerSocks, Counted, TypeOK
  <2>5. Lives' /\ EpollAt' /\ MainAt'
    BY <2>1, <2>2 DEF Lives, EpollAt, MainAt
  <2>6. QED
    BY <2>3, <2>4, <2>5
<1>4. ASSUME WDisconnect(w) PROVE IInv'
  <2> USE <1>4 DEF WDisconnect
  <2>1. [method |-> "Disconnect", socket |-> wsock[w]] \in TSendData
    BY DEF WorkerSocks, TSendData, Methods
  <2>2. TypeOK'
    BY SMTT(60), <2>1 DEF TypeOK, WorkerPcs
  <2>3. Arrivals' /\ Counting' /\ OneWorkerPerSocket' /\ WorkerSocks'
    BY SMTT(60) DEF Arrivals, Counting, OneWorkerPerSocket, WorkerSocks, Counted, TypeOK
  <2>4. Lives' /\ EpollAt' /\ MainAt'
    BY DEF Lives, EpollAt, MainAt
  <2>5. QED
    BY <2>2, <2>3, <2>4
<1>5. ASSUME WFinish(w) PROVE IInv'
  <2> USE <1>5 DEF WFinish
  <2>1. TypeOK'
    BY DEF TypeOK, WorkerPcs, MainPcs, EpollPcs
  <2>2. Arrivals' /\ Counting' /\ OneWorkerPerSocket' /\ WorkerSocks'
          /\ Lives' /\ EpollAt' /\ MainAt'
    BY SMTT(60) DEF Arrivals, TypeOK, Counting, OneWorkerPerSocket, WorkerSocks, Counted,
       Lives, EpollAt, MainAt
  <2>3. QED
    BY <2>1, <2>2
<1>6. QED
  BY <1>1, <1>2, <1>3, <1>4, <1>5 DEF WorkerThread

\* The main thread releases workers and destroys what nobody counts any more.
LEMMA MainIInv == ASSUME IInv, MainThread \/ MStop \/ MStopped \/ MStopTimeout PROVE IInv'
<1> USE DEF IInv, kernelVars, objVars, workerVars, mainVars, epollVars
<1>1. ASSUME NEW w \in Worker, MReleaseWorker(w) PROVE IInv'
  <2> USE <1>1 DEF MReleaseWorker
  <2> DEFINE s == wsock[w]
  <2>1. s \in Sock /\ Counted(w) /\ myWorkerCounter[s] = 1 /\ obj[s] = "live"
    BY DEF WorkerSocks, Counting, Counted, Lives
  <2>2. \A v \in Worker : Counted(v)' <=> Counted(v) /\ v # w
    BY DEF Counted, TypeOK
  <2>3. \A v \in Worker : Counted(v) /\ v # w => wsock[v] # s
    BY <2>1 DEF OneWorkerPerSocket
  <2>4. TypeOK'
    BY <2>1 DEF TypeOK, WorkerPcs, MainPcs
  <2>5. Counting'
    BY <2>1, <2>2, <2>3 DEF Counting, TypeOK
  <2>6. Arrivals' /\ OneWorkerPerSocket' /\ WorkerSocks'
    BY <2>2 DEF Arrivals, OneWorkerPerSocket, WorkerSocks, TypeOK
  <2>7. Lives'
    BY <2>1 DEF Lives, TypeOK
  <2>8. EpollAt'
    BY <2>1 DEF EpollAt, TypeOK
  <2>9. MainAt'
    BY <2>1 DEF MainAt
  <2>10. QED
    BY <2>4, <2>5, <2>6, <2>7, <2>8, <2>9
<1>2. ASSUME NEW w \in Worker, MDestroyWorker(w) PROVE IInv'
  <2>1. UNCHANGED <<kernelVars, objVars, sendRequests, wleft, mainVars, epollVars,
                    stopped, dangling>>
    BY <1>2 DEF MDestroyWorker
  <2>2. TypeOK'
    BY <1>2, <2>1 DEF MDestroyWorker, TypeOK, WorkerPcs
  <2>3. \A v \in Worker : (Counted(v)' <=> Counted(v))
                         /\ (Counted(v) => wsock'[v] = wsock[v])
    BY <1>2 DEF MDestroyWorker, Counted, TypeOK
  <2>4. Counting'
    BY <2>1, <2>3 DEF Counting
  <2>5. OneWorkerPerSocket'
    BY <2>3 DEF OneWorkerPerSocket
  <2>6. Arrivals' /\ WorkerSocks'
    BY <1>2 DEF MDestroyWorker, Arrivals, WorkerSocks, TypeOK
  <2>7. Lives' /\ EpollAt' /\ MainAt'
    BY <2>1 DEF Lives, EpollAt, MainAt
  <2>8. QED
    BY <2>2, <2>4, <2>5, <2>6, <2>7
<1>3. ASSUME MCheckDeleting PROVE IInv'
  <2> USE <1>3 DEF MCheckDeleting, deleteLater, SeesDeleting
  <2>1. TypeOK'
    BY ZenonT(60) DEF TypeOK, WorkerPcs, MainPcs, EpollPcs, MainAt
  <2>2. Arrivals'
    BY DEF Arrivals, TypeOK
  <2>3. Counting' /\ OneWorkerPerSocket' /\ WorkerSocks'
    BY DEF Counting, OneWorkerPerSocket, WorkerSocks, Counted, TypeOK, Lives
  <2>4. Lives'
    BY DEF Lives, TypeOK, MainAt
  <2>5. EpollAt'
    BY DEF EpollAt, Lives, TypeOK
  <2>6. MainAt'
    BY DEF MainAt, TypeOK, Lives
  <2>7. QED
    BY <2>1, <2>2, <2>3, <2>4, <2>5, <2>6
<1>4. ASSUME MExchangePollIn PROVE IInv'
  <2> USE <1>4 DEF MExchangePollIn, modifyPoll
  <2>1. TypeOK'
    BY ZenonT(60) DEF TypeOK, WorkerPcs, MainPcs, EpollPcs
  <2>2. Arrivals'
    BY DEF Arrivals, TypeOK
  <2>3. Counting' /\ OneWorkerPerSocket' /\ WorkerSocks'
    BY DEF Counting, OneWorkerPerSocket, WorkerSocks, Counted, TypeOK, Lives
  <2>4. Lives'
    BY ZenonT(60) DEF Lives, TypeOK
  <2>5. EpollAt'
    BY DEF EpollAt, Lives, TypeOK
  <2>6. MainAt'
    BY DEF MainAt, TypeOK, Lives
  <2>7. QED
    BY <2>1, <2>2, <2>3, <2>4, <2>5, <2>6
<1>5. ASSUME NEW s \in Sock, MDestroySocket(s) PROVE IInv'
  <2> USE <1>5 DEF MDestroySocket
  <2>1. TypeOK'
    BY SMTT(60), ConstantsAssumption DEF TypeOK, WorkerPcs, MainPcs, EpollPcs, Methods,
       TSendData, Masks, EpollAt, ConstantsAssumption
  <2>2. Arrivals'
    BY ConstantsAssumption DEF Arrivals, TypeOK, Methods, TSendData, EpollAt,
       ConstantsAssumption
  <2>3. Counting' /\ OneWorkerPerSocket' /\ WorkerSocks'
    BY SMTT(60) DEF Counting, OneWorkerPerSocket, WorkerSocks, Counted, TypeOK, Lives,
       EpollAt
  <2>4. Lives'
    BY SMTT(60) DEF Lives, TypeOK, EpollAt, Counting, Counted, WorkerSocks, TSendData
  <2>5. EpollAt'
    BY DEF EpollAt, Lives, TypeOK, TSendData, Methods
  <2>6. MainAt'
    BY DEF MainAt, TypeOK, Lives, EpollAt, WorkerSocks, Counting, Counted
  <2>7. QED
    BY <2>1, <2>2, <2>3, <2>4, <2>5, <2>6
<1>6. ASSUME MStop PROVE IInv'
  <2> USE <1>6 DEF MStop
  <2>1. TypeOK'
    BY SMTT(60) DEF TypeOK, WorkerPcs, MainPcs, EpollPcs
  <2>2. Arrivals' /\ Counting' /\ OneWorkerPerSocket' /\ WorkerSocks'
          /\ Lives' /\ EpollAt' /\ MainAt'
    BY SMTT(60) DEF Arrivals, TypeOK, Counting, OneWorkerPerSocket, WorkerSocks, Counted,
       Lives, EpollAt, MainAt
  <2>3. QED
    BY <2>1, <2>2
<1>7. ASSUME MStopped PROVE IInv'
  <2> USE <1>7 DEF MStopped
  <2>1. TypeOK'
    BY DEF TypeOK, WorkerPcs, MainPcs, EpollPcs
  <2>2. Arrivals' /\ Counting' /\ OneWorkerPerSocket' /\ WorkerSocks'
          /\ Lives' /\ EpollAt' /\ MainAt'
    BY DEF Arrivals, TypeOK, Counting, OneWorkerPerSocket, WorkerSocks, Counted,
       Lives, EpollAt, MainAt
  <2>3. QED
    BY <2>1, <2>2
<1>8. ASSUME MStopTimeout PROVE IInv'
  <2> USE <1>8 DEF MStopTimeout
  <2>1. TypeOK'
    BY DEF TypeOK, WorkerPcs, MainPcs, EpollPcs
  <2>2. Arrivals' /\ Counting' /\ OneWorkerPerSocket' /\ WorkerSocks'
          /\ Lives' /\ EpollAt' /\ MainAt'
    BY DEF Arrivals, TypeOK, Counting, OneWorkerPerSocket, WorkerSocks, Counted,
       Lives, EpollAt, MainAt
  <2>3. QED
    BY <2>1, <2>2
<1>9. QED
  BY <1>1, <1>2, <1>3, <1>4, <1>5, <1>6, <1>7, <1>8 DEF MainThread

\* The store of the epoll thread becomes visible to the others.
LEMMA FlushIInv == ASSUME IInv, NEW s \in Sock, Flush(s) PROVE IInv'
<1> USE DEF IInv, kernelVars, objVars, workerVars, mainVars, epollVars
<1>1. ASSUME Flush(s) PROVE IInv'
  <2> USE <1>1 DEF Flush
  <2>1. TypeOK'
    BY SMTT(60) DEF TypeOK, WorkerPcs, MainPcs, EpollPcs
  <2>2. Arrivals' /\ Counting' /\ OneWorkerPerSocket' /\ WorkerSocks'
          /\ Lives' /\ EpollAt' /\ MainAt'
    BY SMTT(60) DEF Arrivals, TypeOK, Counting, OneWorkerPerSocket, WorkerSocks, Counted,
       Lives, EpollAt, MainAt
  <2>3. QED
    BY <2>1, <2>2
<1>2. QED
  BY <1>1

THEOREM SpecIInv == Spec => []IInv
<1>1. ASSUME IInv, [Next]_vars PROVE IInv'
  <2>1. CASE Next
    BY <1>1, <2>1, ClientIInv, EpollIInv, WorkerIInv, MainIInv, FlushIInv DEF Next
  <2>2. CASE UNCHANGED vars
    BY SMTT(60), <1>1, <2>2 DEF vars, kernelVars, objVars, workerVars, mainVars, epollVars, IInv,
       TypeOK, Arrivals, Counting, OneWorkerPerSocket, WorkerSocks, Lives, EpollAt,
       MainAt, Counted
  <2>3. QED
    BY <1>1, <2>1, <2>2
<1>2. QED
  BY InitIInv, <1>1, PTL DEF Spec

-----------------------------------------------------------------------------
(* The properties. *)

\* Every variable keeps its type, the queue of TEpoll and the sockets that the
\* threads hold included.
THEOREM SpecTypeOK == Spec => []TypeOK
<1>1. IInv => TypeOK
  BY DEF IInv
<1>2. QED
  BY SpecIInv, <1>1, PTL

\* Two workers never run for one connection, whatever the main thread does
\* between countWorker() and the start of the worker.
THEOREM SpecOneWorkerPerSocket == Spec => []OneWorkerPerSocket
<1>1. IInv => OneWorkerPerSocket
  BY DEF IInv
<1>2. QED
  BY SpecIInv, <1>1, PTL

\* A socket object lives as long as a worker, releaseWorker() or the loop body
\* of the epoll thread uses it.
THEOREM SpecSocketOutlivesUsers == Spec => []SocketOutlivesUsers
<1>1. ASSUME IInv PROVE SocketOutlivesUsers
  <2>1. ASSUME NEW w \in Worker, Counted(w) PROVE obj[wsock[w]] = "live"
    <3>1. wsock[w] \in Sock
      BY <1>1, <2>1 DEF IInv, WorkerSocks, Counted
    <3>2. myWorkerCounter[wsock[w]] > 0
      BY <1>1, <2>1, <3>1 DEF IInv, Counting
    <3>3. QED
      BY <1>1, <3>1, <3>2 DEF IInv, Lives
  <2>2. mpc \in {"check", "exchange"} => obj[msock] = "live"
    BY <1>1 DEF IInv, MainAt
  <2>3. epc \in {"recv", "count", "pollIn", "read"} => obj[cur] = "live"
    BY <1>1 DEF IInv, EpollAt, Lives
  <2>4. \A s \in Sock : batch[s] # {} => obj[s] = "live"
    BY <1>1 DEF IInv, EpollAt, Lives
  <2>5. QED
    BY <2>1, <2>2, <2>3, <2>4 DEF SocketOutlivesUsers
<1>2. QED
  BY SpecIInv, <1>1, PTL

-----------------------------------------------------------------------------
(* No socket is forgotten. *)

\* Because TEpollHttpSocket::deleteLater() leaves socketManager[] alone, every
\* socket object that exists is in it or queued for its destructor.
Remembered == \A s \in Sock : obj[s] = "live" => posted[s] \/ registered[s]

LEMMA RememberedStep == ASSUME IInv, Remembered, [Next]_vars PROVE Remembered'
<1> USE DEF objVars
<1>1. TypeOK
  BY DEF IInv
<1>2. CASE UNCHANGED <<obj, posted, registered>>
  BY <1>2 DEF Remembered
<1>3. ASSUME NEW s \in Sock, EAccept(s)
      PROVE  Remembered'
  BY <1>1, <1>3 DEF EAccept, Remembered, TypeOK
<1>4. CASE EDelete
  <2>1. UNCHANGED <<obj, registered>>
    BY <1>4 DEF EDelete, LeaveRegistered
  <2>2. \A s \in Sock : posted[s] => posted'[s]
    BY <1>1, <1>4 DEF EDelete, TypeOK
  <2> QED
    BY <2>1, <2>2 DEF Remembered
<1>5. CASE MCheckDeleting
  <2>1. obj' = obj
    BY <1>5 DEF MCheckDeleting
  <2>2. CASE UNCHANGED <<posted, registered>>
    BY <2>1, <2>2 DEF Remembered
  <2>3. CASE /\ posted' = [posted EXCEPT ![msock] = TRUE]
             /\ registered' = [registered EXCEPT ![msock] = FALSE]
    BY <1>1, <2>1, <2>3 DEF Remembered, TypeOK
  <2> QED
    BY <1>5, <2>2, <2>3 DEF MCheckDeleting, deleteLater
<1>6. ASSUME NEW s \in Sock, MDestroySocket(s)
      PROVE  Remembered'
  BY <1>1, <1>6 DEF MDestroySocket, Remembered, TypeOK
<1>7. ASSUME NEW s \in Sock, EEvent(s) \/ EScanSkip(s) \/ EScanTimeout(s) \/ Flush(s)
      PROVE  UNCHANGED <<obj, posted, registered>>
  BY <1>7 DEF EEvent, EScanSkip, EScanTimeout, Flush
<1>8. ASSUME \/ EDispatch \/ EWait \/ ERecvLimit \/ ECountWorker \/ ESetPollIn \/ ERecv
             \/ EScanBegin \/ ERoundEnd \/ ERelease \/ EDrained \/ EDrainTimeout
      PROVE  UNCHANGED <<obj, posted, registered>>
  BY <1>8 DEF EDispatch, EWait, ERecvLimit, ECountWorker, ESetPollIn, ERecv, EScanBegin,
     ERoundEnd, ERelease, EDrained, EDrainTimeout
<1>9. ASSUME NEW w \in Worker, WorkerThread(w) \/ MReleaseWorker(w) \/ MDestroyWorker(w)
      PROVE  UNCHANGED <<obj, posted, registered>>
  BY <1>9 DEF WorkerThread, WExecute, WEnqueue, WRearm, WDisconnect, WFinish,
     MReleaseWorker, MDestroyWorker
<1>10. ASSUME Client \/ MExchangePollIn \/ MStop \/ MStopped \/ MStopTimeout \/ UNCHANGED vars
       PROVE  UNCHANGED <<obj, posted, registered>>
  BY <1>10 DEF Client, Connect, SendRequest, Hangup, Drain, MExchangePollIn, MStop, MStopped,
     MStopTimeout, vars
<1> QED
  BY <1>2, <1>3, <1>4, <1>5, <1>6, <1>7, <1>8, <1>9, <1>10 DEF Next, EpollThread, MainThread

\* A socket that was told to delete itself can still be destroyed: it is queued,
\* or the keep-alive scan finds it (tepollhttpsocket.cpp:193, tepollsocket.cpp:321).
THEOREM SpecNoForgottenSocket == Spec => []NoForgottenSocket
<1>1. Init => Remembered
  BY DEF Init, Remembered
<1>2. IInv /\ Remembered /\ [Next]_vars => Remembered'
  BY RememberedStep
<1>3. Remembered => NoForgottenSocket
  BY DEF Remembered, NoForgottenSocket
<1> QED
  BY <1>1, <1>2, <1>3, SpecIInv, PTL DEF Spec

-----------------------------------------------------------------------------
(* The limit on the workers. Between the test of the limit and the start of *)
(* a worker other threads can only lower the count.                         *)

Busy == {w \in Worker : wpc[w] # "none"}

Testing == epc \in {"count", "read"}

LimitInv == WorkerLimit /\ (Testing => workerCount < MaxWorkers)

LEMMA BusyFinite == IsFiniteSet(Busy) /\ workerCount = Cardinality(Busy)
<1>1. Busy \subseteq Worker
  BY DEF Busy
<1>2. QED
  BY <1>1, ConstantsAssumption, FS_Subset DEF ConstantsAssumption, workerCount, Busy

\* Only recv() of the epoll thread makes a worker; the others keep or lose one.
LEMMA BusyShrinks ==
  ASSUME IInv, [Next]_vars, ~ERecv
  PROVE  Busy' \subseteq Busy
<1> USE DEF Busy, kernelVars, objVars, workerVars, mainVars, epollVars
<1>1. CASE Client
  BY <1>1 DEF Client, Connect, SendRequest, Hangup, Drain
<1>2. CASE EpollThread \/ EDrainTimeout
  BY <1>2 DEF EpollThread, EDispatch, EDelete, EWait, EAccept, addPoll, EEvent, send,
     ERecvLimit, ECountWorker, ESetPollIn, EScanBegin, allSockets, ERoundEnd,
     EScanSkip, EScanTimeout,
     ERelease, EDrained, EDrainTimeout
<1>3. ASSUME NEW s \in Sock, Flush(s) PROVE Busy' \subseteq Busy
  BY <1>3 DEF Flush
<1>4. ASSUME NEW w \in Worker, WorkerThread(w) PROVE Busy' \subseteq Busy
  <2>1. wpc[w] # "none" /\ \A v \in Worker : v # w => wpc'[v] = wpc[v]
    BY <1>4 DEF WorkerThread, WExecute, WEnqueue, WRearm, WDisconnect, WFinish, IInv,
       TypeOK
  <2>2. QED
    BY <2>1
<1>5. CASE MainThread \/ MStop \/ MStopped \/ MStopTimeout
  <2>1. ASSUME NEW w \in Worker, MReleaseWorker(w) \/ MDestroyWorker(w)
        PROVE  Busy' \subseteq Busy
    BY <2>1 DEF MReleaseWorker, MDestroyWorker, IInv, TypeOK
  <2>2. CASE UNCHANGED workerVars
    BY <2>2
  <2>3. QED
    BY <1>5, <2>1, <2>2 DEF MainThread, MCheckDeleting, deleteLater,
       MExchangePollIn, MDestroySocket,
       MStop, MStopped, MStopTimeout
<1>6. CASE UNCHANGED vars
  BY <1>6 DEF vars
<1>7. QED
  BY <1>1, <1>2, <1>3, <1>4, <1>5, <1>6 DEF Next

\* The epoll thread gets past the test of the limit only below the limit.
LEMMA TestingStarts ==
  ASSUME IInv, [Next]_vars, Testing', ~Testing
  PROVE  workerCount < MaxWorkers
<1> USE DEF Testing, kernelVars, objVars, workerVars, mainVars, epollVars
<1>1. CASE EpollThread \/ EDrainTimeout
  <2>1. CASE ERecvLimit
    <3>1. ~AtWorkerLimit
      BY <2>1 DEF ERecvLimit
    <3>2. workerCount \in Nat /\ MaxWorkers \in Nat
      BY BusyFinite, ConstantsAssumption, FS_CardinalityType DEF ConstantsAssumption
    <3>3. QED
      BY <3>1, <3>2 DEF AtWorkerLimit
  <2>2. CASE EDelete
    BY <2>2 DEF EDelete, IInv, EpollAt
  <2>3. CASE EDispatch
    BY <2>3 DEF EDispatch, SetDeleting
  <2>4. CASE ERelease
    BY <2>4 DEF ERelease, SetDeleting
  <2>5. ASSUME NEW s \in Sock, EEvent(s) PROVE FALSE
    BY <2>5 DEF EEvent, send, SetDeleting
  <2>6. ASSUME NEW s \in Sock, EScanTimeout(s) PROVE FALSE
    BY <2>6 DEF EScanTimeout, SetDeleting
  <2>7. QED
    BY <1>1, <2>1, <2>2, <2>3, <2>4, <2>5, <2>6
    DEF EpollThread, EWait, EAccept, addPoll, ECountWorker, ESetPollIn, ERecv,
       recvFails, Upgrade, EScanBegin, allSockets,
        ERoundEnd, EScanSkip, EDrained, EDrainTimeout
<1>2. CASE UNCHANGED epc
  BY <1>2
<1>3. CASE Next /\ ~(EpollThread \/ EDrainTimeout)
  <2>1. UNCHANGED epc
    BY <1>3 DEF Next, Client, Connect, SendRequest, Hangup, Drain, Flush, WorkerThread,
       WExecute, WEnqueue, WRearm, WDisconnect, WFinish, MainThread, MReleaseWorker,
       MDestroyWorker, MCheckDeleting, deleteLater, MExchangePollIn, MDestroySocket, MStop, MStopped,
       MStopTimeout
  <2>2. QED
    BY SMTT(60), <2>1
<1>4. QED
  BY <1>1, <1>2, <1>3 DEF vars

LEMMA LimitStep == ASSUME IInv, LimitInv, [Next]_vars PROVE LimitInv'
<1> workerCount' = Cardinality(Busy') /\ IsFiniteSet(Busy')
  <2>1. Busy' \subseteq Worker
    BY DEF Busy
  <2>2. QED
    BY <2>1, ConstantsAssumption, FS_Subset DEF ConstantsAssumption, workerCount, Busy
<1> workerCount \in Nat /\ workerCount' \in Nat /\ MaxWorkers \in Nat
  BY BusyFinite, ConstantsAssumption, FS_CardinalityType DEF ConstantsAssumption
<1>1. CASE ERecv
  <2>1. Testing /\ ~Testing'
    BY <1>1 DEF ERecv, recvFails, Upgrade, SetDeleting, Testing
  <2>2. \E w : Busy' \subseteq Busy \cup {w}
    <3>1. CASE UNCHANGED workerVars
      BY <3>1, <1>1 DEF workerVars, Busy, ERecv, recvFails, Upgrade
    <3>2. CASE startWorker(cur, inbox[cur])
      <4>1. PICK w \in Worker : wpc' = [wpc EXCEPT ![w] = "run"]
        BY <3>2 DEF startWorker
      <4>2. Busy' \subseteq Busy \cup {w}
        BY <4>1 DEF Busy, IInv, TypeOK
      <4>3. QED
        BY <4>2
    <3>3. QED
      BY <1>1, <3>1, <3>2 DEF ERecv, recvFails, Upgrade
  <2>3. PICK w : Busy' \subseteq Busy \cup {w}
    BY <2>2
  <2>4. workerCount' <= workerCount + 1
    <3>1. /\ IsFiniteSet(Busy \cup {w})
          /\ Cardinality(Busy \cup {w})
               = IF w \in Busy THEN Cardinality(Busy) ELSE Cardinality(Busy) + 1
      BY BusyFinite, FS_AddElement
    <3>2. Cardinality(Busy') <= Cardinality(Busy \cup {w})
      BY <2>3, <3>1, FS_Subset
    <3>3. QED
      BY <3>1, <3>2, BusyFinite, FS_CardinalityType
  <2>5. QED
    BY <2>1, <2>4 DEF LimitInv, WorkerLimit
<1>2. CASE ~ERecv
  <2>1. workerCount' <= workerCount
    BY <1>2, BusyShrinks, BusyFinite, FS_Subset
  <2>2. CASE Testing' /\ ~Testing
    BY <2>1, <2>2, TestingStarts DEF LimitInv, WorkerLimit
  <2>3. CASE ~Testing' \/ Testing
    BY <2>1, <2>3 DEF LimitInv, WorkerLimit
  <2>4. QED
    BY <2>2, <2>3
<1>3. QED
  BY <1>1, <1>2

\* MPM.hybrid.MaxWorkersPerAppServer is never exceeded, although the count is
\* read several steps before it grows and the main thread changes it meanwhile.
THEOREM SpecWorkerLimit == Spec => []WorkerLimit
<1>1. Init => LimitInv
  <2>1. ASSUME Init PROVE Busy = {} /\ ~Testing
    BY <2>1 DEF Init, Busy, Testing
  <2>2. ASSUME Init PROVE workerCount = 0
    BY <2>1, <2>2, BusyFinite, FS_EmptySet
  <2>3. QED
    BY <2>1, <2>2, ConstantsAssumption DEF LimitInv, WorkerLimit, ConstantsAssumption
<1>2. IInv /\ LimitInv /\ [Next]_vars => LimitInv'
  BY LimitStep
<1>3. LimitInv => WorkerLimit
  BY DEF LimitInv
<1>4. QED
  BY <1>1, <1>2, <1>3, SpecIInv, PTL DEF Spec

=============================================================================
