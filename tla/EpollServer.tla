----------------------------- MODULE EpollServer -----------------------------
(***************************************************************************)
(* The hybrid multiprocessing module of TreeFrog (TMultiplexingServer): an *)
(* epoll thread that owns the polling loop, one TActionWorker thread per   *)
(* request batch, and the main thread, which runs the queued slot          *)
(* releaseWorker() and destroys sockets and workers (deleteLater).         *)
(* Names are those of tmultiplexingserver_linux.cpp, tepoll.cpp,           *)
(* tepollsocket.cpp, tepollhttpsocket.cpp and tactionworker.cpp.           *)
(***************************************************************************)
EXTENDS Naturals, Sequences, FiniteSets

CONSTANTS
  Sock,          \* TEpollHttpSocket objects; an identity is used once
  Worker,        \* slots for TActionWorker threads
  NoSock,        \* the null pointer
  MaxWorkers,    \* MPM.hybrid.MaxWorkersPerAppServer
  MaxRequests,   \* bound: requests the clients send, all together
  KeepAlive,     \* HttpKeepAliveTimeout > 0
  MayStop        \* the process may be asked to quit

ASSUME ConstantsAssumption ==
  /\ NoSock \notin Sock
  /\ IsFiniteSet(Worker)
  /\ MaxWorkers \in Nat \ {0}
  /\ MaxRequests \in Nat
  /\ KeepAlive \in BOOLEAN
  /\ MayStop \in BOOLEAN

VARIABLES
  \* the peer and the kernel, per connection
  peer,        \* "none", "backlog", "open", "fin" (half closed), "reset"
  asked,       \* requests sent so far (bounds the behaviours)
  inbox,       \* complete requests in the receive buffer of the kernel
  writable,    \* room in the send buffer of the kernel
  ready,       \* on the ready list of the epoll instance (EPOLLET)
  \* the socket object
  obj,         \* "none", "live", "dead" (destructor has run)
  sd,          \* sd > 0
  polling,     \* member of TEpoll::pollingSockets
  deleting,    \* "no", "buffered" (stored, not yet visible), "yes"
  posted,      \* a DeferredDelete event is queued for the main thread
  registered,  \* in socketManager[]
  pollIn,
  myWorkerCounter,
  sendBuf,     \* buffers enqueued and not yet sent
  sendRequests, \* TEpoll::sendRequests, a queue of TSendData
  \* TActionWorker threads
  wpc, wsock, wleft,
  \* the main thread
  mpc, msock,
  \* the epoll thread
  epc, cur, batch, fresh, scan, back,
  stopped,
  dangling     \* ghost: sockets the epoll thread used after their destruction

kernelVars == <<peer, asked, inbox, writable, ready>>
objVars    == <<obj, sd, polling, deleting, posted, registered, pollIn,
                myWorkerCounter, sendBuf>>
workerVars == <<wpc, wsock, wleft>>
mainVars   == <<mpc, msock>>
epollVars  == <<epc, cur, batch, fresh, scan, back>>
vars == <<kernelVars, objVars, sendRequests, workerVars, mainVars, epollVars,
          stopped, dangling>>

Methods == {"Disconnect", "SwitchToWebSocket"}
TSendData == [method : Methods, socket : Sock]
\* No event, or the mask epoll_wait() reports.
Masks   == SUBSET {"in", "out"}
WorkerPcs == {"none", "run", "send", "rearm", "disconnect", "finished", "zombie"}
MainPcs   == {"idle", "check", "exchange", "wait", "stopped"}
EpollPcs  == {"dispatch", "event", "recv", "count", "pollIn", "read", "delete",
              "scan", "release", "drain", "exit"}

TypeOK ==
  /\ peer \in [Sock -> {"none", "backlog", "open", "fin", "reset"}]
  /\ asked \in 0..MaxRequests
  /\ inbox \in [Sock -> 0..MaxRequests]
  /\ writable \in [Sock -> BOOLEAN]
  /\ ready \in [Sock -> BOOLEAN]
  /\ obj \in [Sock -> {"none", "live", "dead"}]
  /\ sd \in [Sock -> BOOLEAN]
  /\ polling \in [Sock -> BOOLEAN]
  /\ deleting \in [Sock -> {"no", "buffered", "yes"}]
  /\ posted \in [Sock -> BOOLEAN]
  /\ registered \in [Sock -> BOOLEAN]
  /\ pollIn \in [Sock -> BOOLEAN]
  /\ myWorkerCounter \in [Sock -> Nat]
  /\ sendBuf \in [Sock -> Nat]
  /\ sendRequests \in Seq(TSendData)
  /\ wpc \in [Worker -> WorkerPcs]
  /\ wsock \in [Worker -> Sock \cup {NoSock}]
  /\ wleft \in [Worker -> 0..MaxRequests]
  /\ mpc \in MainPcs
  /\ msock \in Sock \cup {NoSock}
  /\ epc \in EpollPcs
  /\ cur \in Sock \cup {NoSock}
  /\ batch \in [Sock -> Masks]
  /\ fresh \in SUBSET Sock
  /\ scan \in SUBSET Sock
  /\ back \in EpollPcs
  /\ stopped \in BOOLEAN
  /\ dangling \in SUBSET Sock

-----------------------------------------------------------------------------
(* Helpers *)

\* TActionWorker::workerCount(): from the constructor to the destructor.
workerCount == Cardinality({w \in Worker : wpc[w] # "none"})

\* TActionWorker::workerCount() >= maxWorkers
AtWorkerLimit_OffByOne == workerCount > MaxWorkers   \* mutant
AtWorkerLimit == workerCount >= MaxWorkers

\* sock->countWorker() > 0
HasWorker_OffByOne(s) == myWorkerCounter[s] > 1      \* mutant
HasWorker(s) == myWorkerCounter[s] > 0

\* What the kernel would report for s now.
Mask(s) == {m \in {"in", "out"} :
              \/ m = "in" /\ (inbox[s] > 0 \/ peer[s] \in {"fin", "reset"})
              \/ m = "out" /\ (writable[s] \/ peer[s] = "reset")}

\* The value of `deleting` that a thread other than the epoll thread reads:
\* TAtomic stores with release order, so the store may still be in the store
\* buffer of the epoll thread.
SeesDeleting(s) == deleting[s] = "yes"

\* TEpoll::modifyPoll(): EPOLL_CTL_MOD queues an event if the descriptor is
\* ready now; it fails on a descriptor that is closed or no longer polled.
modifyPoll_NoRearm(s) == UNCHANGED ready   \* mutant: assumes level-triggering
modifyPoll(s) ==
  ready' = IF sd[s] /\ polling[s] /\ Mask(s) # {}
           THEN [ready EXCEPT ![s] = TRUE] ELSE ready

\* An arrival queues an event for a polled descriptor.
Notify(s) ==
  ready' = IF sd[s] /\ polling[s] THEN [ready EXCEPT ![s] = TRUE] ELSE ready

\* The epoll thread uses socket s; recorded when s is dead.
Touch(s) ==
  dangling' = IF obj[s] = "dead" THEN dangling \cup {s} ELSE dangling

-----------------------------------------------------------------------------
Init ==
  /\ peer = [s \in Sock |-> "none"]
  /\ asked = 0
  /\ inbox = [s \in Sock |-> 0]
  /\ writable = [s \in Sock |-> TRUE]
  /\ ready = [s \in Sock |-> FALSE]
  /\ obj = [s \in Sock |-> "none"]
  /\ sd = [s \in Sock |-> FALSE]
  /\ polling = [s \in Sock |-> FALSE]
  /\ deleting = [s \in Sock |-> "no"]
  /\ posted = [s \in Sock |-> FALSE]
  /\ registered = [s \in Sock |-> FALSE]
  /\ pollIn = [s \in Sock |-> FALSE]
  /\ myWorkerCounter = [s \in Sock |-> 0]
  /\ sendBuf = [s \in Sock |-> 0]
  /\ sendRequests = <<>>
  /\ wpc = [w \in Worker |-> "none"]
  /\ wsock = [w \in Worker |-> NoSock]
  /\ wleft = [w \in Worker |-> 0]
  /\ mpc = "idle" /\ msock = NoSock
  /\ epc = "dispatch" /\ cur = NoSock /\ back = "dispatch"
  /\ batch = [s \in Sock |-> {}]
  /\ fresh = {} /\ scan = {}
  /\ stopped = FALSE
  /\ dangling = {}

-----------------------------------------------------------------------------
(* Clients (outside the program) *)

Connect(s) ==
  /\ peer[s] = "none"
  /\ peer' = [peer EXCEPT ![s] = "backlog"]
  /\ UNCHANGED <<asked, inbox, writable, ready, objVars, sendRequests,
                 workerVars, mainVars, epollVars, stopped, dangling>>

SendRequest(s) ==
  /\ peer[s] \in {"backlog", "open"}
  /\ asked < MaxRequests
  /\ peer[s] = "open" => sd[s]
  /\ asked' = asked + 1
  /\ inbox' = [inbox EXCEPT ![s] = @ + 1]
  /\ Notify(s)
  /\ UNCHANGED <<peer, writable, objVars, sendRequests, workerVars, mainVars,
                 epollVars, stopped, dangling>>

\* shutdown(SHUT_WR) or a vanished peer.
Hangup(s) ==
  /\ peer[s] = "open" /\ sd[s]
  /\ \E p \in {"fin", "reset"} : peer' = [peer EXCEPT ![s] = p]
  /\ Notify(s)
  /\ UNCHANGED <<asked, inbox, writable, objVars, sendRequests, workerVars,
                 mainVars, epollVars, stopped, dangling>>

\* The client reads: the send buffer of the kernel has room again.
Drain(s) ==
  /\ ~writable[s] /\ sd[s] /\ peer[s] \in {"open", "fin"}
  /\ writable' = [writable EXCEPT ![s] = TRUE]
  /\ Notify(s)
  /\ UNCHANGED <<peer, asked, inbox, objVars, sendRequests, workerVars, mainVars,
                 epollVars, stopped, dangling>>

-----------------------------------------------------------------------------
(* Epoll thread: TMultiplexingServer::run() *)

\* TEpoll::deletePoll() and TEpollSocket::close().
ClosePoll(s) ==
  /\ polling' = [polling EXCEPT ![s] = FALSE]
  /\ sd' = [sd EXCEPT ![s] = FALSE]
  /\ ready' = [ready EXCEPT ![s] = FALSE]
  /\ inbox' = [inbox EXCEPT ![s] = 0]

\* TEpollHttpSocket::deleteLater(), first half: deleting = true.
\* `where` is the loop to return to.
SetDeleting(s, where) ==
  /\ deleting' = [deleting EXCEPT ![s] = IF @ = "no" THEN "buffered" ELSE @]
  /\ cur' = s /\ back' = where
  /\ epc' = "delete"

\* dispatchSendData(): one request of the queue.
EDispatch ==
  /\ epc = "dispatch" /\ sendRequests # <<>>
  /\ LET method == Head(sendRequests).method
         s      == Head(sendRequests).socket
     IN  /\ Touch(s)
         /\ sendRequests' = Tail(sendRequests)
         /\ \/ /\ ~sd[s]                     \* already disconnected: continue
               /\ UNCHANGED <<kernelVars, objVars, epollVars>>
            \/ /\ sd[s] /\ method = "Disconnect"
               /\ ClosePoll(s)
               /\ SetDeleting(s, "dispatch")
               /\ UNCHANGED <<peer, asked, writable, obj, posted, registered,
                              pollIn, myWorkerCounter, sendBuf, batch, fresh, scan>>
            \/ /\ sd[s] /\ method = "SwitchToWebSocket"
               \* the duplicated descriptor belongs to a TEpollWebSocket; this
               \* object keeps its own until its destructor
               /\ polling' = [polling EXCEPT ![s] = FALSE]
               /\ ready' = [ready EXCEPT ![s] = FALSE]
               /\ SetDeleting(s, "dispatch")
               /\ UNCHANGED <<peer, asked, inbox, writable, obj, sd, posted, registered,
                              pollIn, myWorkerCounter, sendBuf, batch, fresh, scan>>
  /\ UNCHANGED <<workerVars, mainVars, stopped>>

\* deleteLater() posts the destruction if myWorkerCounter == 0 ...
PostsDestruction_AnyCount(s) == obj[s] = "live"       \* mutant
PostsDestruction(s) == obj[s] = "live" /\ myWorkerCounter[s] = 0

\* ... and, unlike TEpollSocket::deleteLater(), leaves socketManager[] alone.
LeaveRegistered_Cleared(s) ==                         \* mutant
  registered' = [registered EXCEPT ![s] = FALSE]
LeaveRegistered(s) == UNCHANGED registered

\* TEpollHttpSocket::deleteLater(), second half.
EDelete ==
  /\ epc = "delete"
  /\ Touch(cur)
  /\ posted' = IF PostsDestruction(cur) THEN [posted EXCEPT ![cur] = TRUE] ELSE posted
  /\ LeaveRegistered(cur)
  /\ epc' = back /\ cur' = NoSock /\ back' = "dispatch"
  /\ UNCHANGED <<kernelVars, obj, sd, polling, deleting, pollIn, myWorkerCounter,
                 sendBuf, sendRequests, workerVars, mainVars, batch, fresh, scan,
                 stopped>>

\* TEpoll::wait(): takes the events off the ready list; what is reported is
\* the state of the descriptor at this moment.
EWait ==
  /\ epc = "dispatch" /\ sendRequests = <<>>
  /\ batch' = [s \in Sock |-> IF ready[s] THEN Mask(s) ELSE {}]
  /\ ready' = [s \in Sock |-> FALSE]
  /\ fresh' = {}
  /\ epc' = "event"
  /\ UNCHANGED <<peer, asked, inbox, writable, objVars, sendRequests, workerVars,
                 mainVars, cur, scan, back, stopped, dangling>>

\* TEpoll::addPoll(): a new connection is writable, so EPOLLOUT comes at once.
addPoll(s) ==
  /\ polling' = [polling EXCEPT ![s] = TRUE]
  /\ ready' = [ready EXCEPT ![s] = TRUE]

\* The listening socket is level-triggered; TEpollSocket::accept() and addPoll().
EAccept(s) ==
  /\ epc = "event" /\ peer[s] = "backlog"
  /\ peer' = [peer EXCEPT ![s] = "open"]
  /\ obj' = [obj EXCEPT ![s] = "live"]
  /\ sd' = [sd EXCEPT ![s] = TRUE]
  /\ registered' = [registered EXCEPT ![s] = TRUE]
  /\ addPoll(s)
  /\ fresh' = fresh \cup {s}
  /\ UNCHANGED <<asked, inbox, writable, deleting, posted, pollIn,
                 myWorkerCounter, sendBuf, sendRequests, workerVars, mainVars,
                 epc, cur, batch, scan, back, stopped, dangling>>

\* TEpollSocket::send(): all buffers, or until EAGAIN.
send(s) ==
  \/ sendBuf' = [sendBuf EXCEPT ![s] = 0] /\ UNCHANGED writable
  \/ \E n \in 1..sendBuf[s] :
       /\ sendBuf' = [sendBuf EXCEPT ![s] = n]
       /\ writable' = [writable EXCEPT ![s] = FALSE]

\* next() and, if EPOLLOUT is reported, send(); EPIPE and ECONNRESET close.
EEvent(s) ==
  /\ epc = "event" /\ batch[s] # {}
  /\ Touch(s)
  /\ batch' = [batch EXCEPT ![s] = {}]
  /\ \/ /\ "out" \in batch[s] /\ sendBuf[s] > 0 /\ deleting[s] = "no"
        /\ peer[s] = "reset"
        /\ ClosePoll(s)
        /\ SetDeleting(s, "event")
        /\ UNCHANGED <<peer, asked, writable, obj, posted, registered, pollIn,
                       myWorkerCounter, sendBuf, fresh, scan>>
     \/ /\ "out" \in batch[s] => peer[s] # "reset" \/ sendBuf[s] = 0 \/ deleting[s] # "no"
        /\ IF "out" \in batch[s] /\ sendBuf[s] > 0 /\ deleting[s] = "no"
           THEN send(s)
           ELSE UNCHANGED <<sendBuf, writable>>
        /\ fresh' = IF "out" \in batch[s] THEN fresh \cup {s} ELSE fresh
        /\ IF "in" \in batch[s]
           THEN epc' = "recv" /\ cur' = s
           ELSE UNCHANGED <<epc, cur>>
        /\ UNCHANGED <<peer, asked, inbox, ready, obj, sd, polling, deleting, posted,
                       registered, pollIn, myWorkerCounter, scan, back>>
  /\ UNCHANGED <<sendRequests, workerVars, mainVars, stopped>>

\* workerCount() >= maxWorkers: re-arm and leave the request in the kernel.
ERecvLimit ==
  /\ epc = "recv"
  /\ IF AtWorkerLimit
     THEN modifyPoll(cur) /\ epc' = "event" /\ cur' = NoSock
     ELSE epc' = "count" /\ UNCHANGED <<ready, cur>>
  /\ UNCHANGED <<peer, asked, inbox, writable, objVars, sendRequests, workerVars,
                 mainVars, batch, fresh, scan, back, stopped, dangling>>

\* sock->countWorker() > 0
ECountWorker ==
  /\ epc = "count"
  /\ epc' = IF HasWorker(cur) THEN "pollIn" ELSE "read"
  /\ UNCHANGED <<kernelVars, objVars, sendRequests, workerVars, mainVars, cur,
                 batch, fresh, scan, back, stopped, dangling>>

\* sock->pollIn = true; continue
ESetPollIn ==
  /\ epc = "pollIn"
  /\ pollIn' = [pollIn EXCEPT ![cur] = TRUE]
  /\ epc' = "event" /\ cur' = NoSock
  /\ UNCHANGED <<kernelVars, obj, sd, polling, deleting, posted, registered,
                 myWorkerCounter, sendBuf, sendRequests, workerVars, mainVars,
                 batch, fresh, scan, back, stopped, dangling>>

\* TEpollHttpSocket::startWorker(): the whole buffer goes to one worker.

startWorker(s, n) ==
  \E w \in Worker :
    /\ wpc[w] = "none"
    /\ wpc' = [wpc EXCEPT ![w] = "run"]
    /\ wsock' = [wsock EXCEPT ![w] = s]
    /\ wleft' = [wleft EXCEPT ![w] = n]
    /\ myWorkerCounter' = [myWorkerCounter EXCEPT ![s] = @ + 1]

\* TEpollSocket::recv() reads until EAGAIN and fails on end of file or a reset,
\* whatever was read before it.
recvFails(s) == peer[s] \in {"fin", "reset"}

\* seekRecvBuffer() recognises an upgrade, to a websocket or, when there is no
\* such endpoint, to be refused, and clears the buffer.
Upgrade(s) ==
  \E m \in Methods :
    sendRequests' = IF deleting[s] = "no"
                    THEN Append(sendRequests, [method |-> m, socket |-> s])
                    ELSE sendRequests

\* What was read goes to a worker, or is an upgrade, and then no worker starts.
ERecv ==
  /\ epc = "read"
  /\ \/ /\ recvFails(cur)
        /\ ClosePoll(cur)
        /\ SetDeleting(cur, "event")
        /\ UNCHANGED <<myWorkerCounter, sendRequests, workerVars, fresh>>
     \/ /\ ~recvFails(cur)
        /\ inbox' = [inbox EXCEPT ![cur] = 0]
        /\ fresh' = fresh \cup {cur}
        /\ epc' = "event" /\ cur' = NoSock
        /\ \/ /\ inbox[cur] > 0
              /\ startWorker(cur, inbox[cur])
              /\ UNCHANGED sendRequests
           \/ /\ inbox[cur] > 0
              /\ Upgrade(cur)
              /\ UNCHANGED <<myWorkerCounter, workerVars>>
           \/ /\ inbox[cur] = 0
              /\ UNCHANGED <<myWorkerCounter, sendRequests, workerVars>>
        /\ UNCHANGED <<ready, sd, polling, deleting, back>>
  /\ UNCHANGED <<peer, asked, writable, obj, posted, registered, pollIn, sendBuf,
                 mainVars, batch, scan, stopped, dangling>>

\* The sockets of socketManager[].
allSockets == {s \in Sock : registered[s]}

\* The events are used up, and a second has passed since the last keep-alive scan.
EScanBegin ==
  /\ KeepAlive
  /\ epc = "event" /\ \A s \in Sock : batch[s] = {}
  /\ scan' = allSockets
  /\ epc' = "scan"
  /\ UNCHANGED <<kernelVars, objVars, sendRequests, workerVars, mainVars, cur,
                 batch, fresh, back, stopped, dangling>>

\* The end of a round, after the scan if there was one: the stop flag is read.
ERoundEnd ==
  /\ \/ epc = "event" /\ \A s \in Sock : batch[s] = {}
     \/ epc = "scan" /\ scan = {}
  /\ epc' = (IF stopped THEN "release" ELSE "dispatch")
  /\ UNCHANGED <<kernelVars, objVars, sendRequests, workerVars, mainVars, cur,
                 batch, fresh, scan, back, stopped, dangling>>

\* A socket of the list that has not been idle long enough. One used in this
\* round cannot have been: the timeout is at least a second.
EScanSkip(s) ==
  /\ epc = "scan" /\ s \in scan
  /\ Touch(s)
  /\ scan' = scan \ {s}
  /\ UNCHANGED <<kernelVars, objVars, sendRequests, workerVars, mainVars, epc, cur,
                 batch, fresh, back, stopped>>

\* idleTime() >= keepAlivetimeout; nothing else excludes a listed socket, one
\* that is closed already or whose worker still runs included.
ScanCloses_OnlyOpen(s) == s \notin fresh /\ sd[s]      \* mutant
ScanCloses(s) == s \notin fresh

EScanTimeout(s) ==
  /\ epc = "scan" /\ s \in scan /\ ScanCloses(s)
  /\ Touch(s)
  /\ scan' = scan \ {s}
  /\ IF obj[s] = "live" THEN ClosePoll(s) /\ SetDeleting(s, "scan")
     ELSE UNCHANGED <<polling, sd, ready, inbox, deleting, cur, back, epc>>
  /\ UNCHANGED <<peer, asked, writable, obj, posted, registered, pollIn,
                 myWorkerCounter, sendBuf, sendRequests, workerVars, mainVars,
                 batch, fresh, stopped>>

\* releaseAllPollingSockets(): deleteLater() on every polled socket. The ready
\* list is dropped: wait() is not called again.
ERelease ==
  /\ epc = "release"
  /\ \/ \E s \in Sock :
          /\ polling[s]
          /\ polling' = [polling EXCEPT ![s] = FALSE]
          /\ ready' = [ready EXCEPT ![s] = FALSE]
          /\ SetDeleting(s, "release")
     \/ /\ \A s \in Sock : ~polling[s]
        /\ epc' = "drain"
        /\ UNCHANGED <<polling, ready, deleting, cur, back>>
  /\ UNCHANGED <<peer, asked, inbox, writable, obj, sd, posted, registered, pollIn, myWorkerCounter,
                 sendBuf, sendRequests, workerVars, mainVars, batch, fresh, scan,
                 stopped, dangling>>

\* TActionWorker::waitForAllDone(10000): no worker left ...
EDrained ==
  /\ epc = "drain" /\ workerCount = 0
  /\ epc' = "exit"
  /\ UNCHANGED <<kernelVars, objVars, sendRequests, workerVars, mainVars, cur,
                 batch, fresh, scan, back, stopped, dangling>>

\* ... or ten seconds have passed.
EDrainTimeout ==
  /\ epc = "drain" /\ workerCount > 0
  /\ epc' = "exit"
  /\ UNCHANGED <<kernelVars, objVars, sendRequests, workerVars, mainVars, cur,
                 batch, fresh, scan, back, stopped, dangling>>

\* The store buffer of the epoll thread drains.
Flush(s) ==
  /\ deleting[s] = "buffered"
  /\ deleting' = [deleting EXCEPT ![s] = "yes"]
  /\ UNCHANGED <<kernelVars, obj, sd, polling, posted, registered, pollIn,
                 myWorkerCounter, sendBuf, sendRequests, workerVars, mainVars,
                 epollVars, stopped, dangling>>

-----------------------------------------------------------------------------
(* TActionWorker threads *)

\* execute(): answers, fails with a database exception (closeHttpSocket), or
\* ends without an answer. sendData() and disconnect() read `deleting`.
WExecute(w) ==
  /\ wpc[w] = "run" /\ wleft[w] > 0
  /\ wleft' = [wleft EXCEPT ![w] = @ - 1]
  /\ \E next \in {"run", "send", "disconnect"} :
       /\ SeesDeleting(wsock[w]) => next = "run"
       /\ wpc' = [wpc EXCEPT ![w] = next]
  /\ UNCHANGED <<kernelVars, objVars, sendRequests, wsock, mainVars, epollVars,
                 stopped, dangling>>

\* setSendData(): enqueueSendData() ...
WEnqueue(w) ==
  /\ wpc[w] = "send"
  /\ sendBuf' = [sendBuf EXCEPT ![wsock[w]] = @ + 1]
  /\ wpc' = [wpc EXCEPT ![w] = "rearm"]
  /\ UNCHANGED <<kernelVars, obj, sd, polling, deleting, posted, registered, pollIn,
                 myWorkerCounter, sendRequests, wsock, wleft, mainVars, epollVars,
                 stopped, dangling>>

\* ... then modifyPoll() re-arms the edge-triggered descriptor.
WRearm(w) ==
  /\ wpc[w] = "rearm"
  /\ modifyPoll(wsock[w])
  /\ wpc' = [wpc EXCEPT ![w] = "run"]
  /\ UNCHANGED <<peer, asked, inbox, writable, objVars, sendRequests, wsock, wleft,
                 mainVars, epollVars, stopped, dangling>>

\* TEpoll::setDisconnect()
WDisconnect(w) ==
  /\ wpc[w] = "disconnect"
  /\ sendRequests' = Append(sendRequests,
                             [method |-> "Disconnect", socket |-> wsock[w]])
  /\ wpc' = [wpc EXCEPT ![w] = "run"]
  /\ UNCHANGED <<kernelVars, objVars, wsock, wleft, mainVars, epollVars, stopped,
                 dangling>>

\* run() returns: finished() is queued for the thread of the socket.
WFinish(w) ==
  /\ wpc[w] = "run" /\ wleft[w] = 0
  /\ wpc' = [wpc EXCEPT ![w] = "finished"]
  /\ UNCHANGED <<kernelVars, objVars, sendRequests, wsock, wleft, mainVars,
                 epollVars, stopped, dangling>>

-----------------------------------------------------------------------------
(* Main thread *)

\* releaseWorker(): worker->deleteLater(); --myWorkerCounter
MReleaseWorker(w) ==
  /\ mpc = "idle" /\ wpc[w] = "finished"
  /\ wpc' = [wpc EXCEPT ![w] = "zombie"]
  /\ msock' = wsock[w]
  /\ myWorkerCounter' = [myWorkerCounter EXCEPT ![wsock[w]] = @ - 1]
  /\ mpc' = "check"
  /\ UNCHANGED <<kernelVars, obj, sd, polling, deleting, posted, registered, pollIn,
                 sendBuf, sendRequests, wsock, wleft, epollVars, stopped, dangling>>

\* TEpollSocket::deleteLater(): also out of socketManager[].
deleteLater(s) ==
  IF myWorkerCounter[s] = 0
  THEN /\ posted' = [posted EXCEPT ![s] = TRUE]
       /\ registered' = [registered EXCEPT ![s] = FALSE]
  ELSE UNCHANGED <<posted, registered>>

\* deleting.load(): the socket is being deleted.
MCheckDeleting ==
  /\ mpc = "check"
  /\ IF SeesDeleting(msock)
     THEN /\ mpc' = "idle" /\ msock' = NoSock
          /\ deleteLater(msock)
     ELSE /\ mpc' = "exchange"
          /\ UNCHANGED <<posted, registered, msock>>
  /\ UNCHANGED <<kernelVars, obj, sd, polling, deleting, pollIn, myWorkerCounter,
                 sendBuf, sendRequests, workerVars, epollVars, stopped, dangling>>

\* pollIn.exchange(false): re-arms when an event arrived during the request.
MExchangePollIn ==
  /\ mpc = "exchange"
  /\ pollIn' = [pollIn EXCEPT ![msock] = FALSE]
  /\ IF pollIn[msock] THEN modifyPoll(msock) ELSE UNCHANGED ready
  /\ mpc' = "idle" /\ msock' = NoSock
  /\ UNCHANGED <<peer, asked, inbox, writable, obj, sd, polling, deleting, posted,
                 registered, myWorkerCounter, sendBuf, sendRequests, workerVars,
                 epollVars, stopped, dangling>>

\* ~TActionWorker
MDestroyWorker(w) ==
  /\ mpc = "idle" /\ wpc[w] = "zombie"
  /\ wpc' = [wpc EXCEPT ![w] = "none"]
  /\ wsock' = [wsock EXCEPT ![w] = NoSock]
  /\ UNCHANGED <<kernelVars, objVars, sendRequests, wleft, mainVars, epollVars,
                 stopped, dangling>>

\* ~TEpollSocket
MDestroySocket(s) ==
  /\ mpc = "idle" /\ posted[s] /\ obj[s] = "live"
  /\ obj' = [obj EXCEPT ![s] = "dead"]
  /\ sd' = [sd EXCEPT ![s] = FALSE]
  /\ ready' = [ready EXCEPT ![s] = FALSE]
  /\ inbox' = [inbox EXCEPT ![s] = 0]
  /\ registered' = [registered EXCEPT ![s] = FALSE]
  /\ posted' = [posted EXCEPT ![s] = FALSE]
  /\ sendBuf' = [sendBuf EXCEPT ![s] = 0]
  /\ UNCHANGED <<peer, asked, writable, polling, deleting, pollIn,
                 myWorkerCounter, sendRequests, workerVars, mainVars, epollVars,
                 stopped, dangling>>

\* stop(), connected to aboutToQuit: the main thread sets the flag and blocks
\* in QThread::wait(10000); it runs no queued event meanwhile.
MStop ==
  /\ MayStop /\ mpc = "idle" /\ ~stopped
  /\ stopped' = TRUE
  /\ mpc' = "wait"
  /\ UNCHANGED <<kernelVars, objVars, sendRequests, workerVars, msock, epollVars,
                 dangling>>

\* wait() returns when the epoll thread has ended ...
MStopped ==
  /\ mpc = "wait" /\ epc = "exit"
  /\ mpc' = "stopped"
  /\ UNCHANGED <<kernelVars, objVars, sendRequests, workerVars, msock, epollVars,
                 stopped, dangling>>

\* ... or ten seconds have passed.
MStopTimeout ==
  /\ mpc = "wait" /\ epc # "exit"
  /\ mpc' = "stopped"
  /\ UNCHANGED <<kernelVars, objVars, sendRequests, workerVars, msock, epollVars,
                 stopped, dangling>>

-----------------------------------------------------------------------------
Client == \E s \in Sock : Connect(s) \/ SendRequest(s) \/ Hangup(s) \/ Drain(s)

EpollThread ==
  \/ EDispatch \/ EDelete \/ EWait
  \/ \E s \in Sock : EAccept(s) \/ EEvent(s)
  \/ ERecvLimit \/ ECountWorker \/ ESetPollIn \/ ERecv
  \/ EScanBegin \/ ERoundEnd
  \/ \E s \in Sock : EScanSkip(s) \/ EScanTimeout(s)
  \/ ERelease \/ EDrained

WorkerThread(w) ==
  WExecute(w) \/ WEnqueue(w) \/ WRearm(w) \/ WDisconnect(w) \/ WFinish(w)

MainThread ==
  \/ \E w \in Worker : MReleaseWorker(w) \/ MDestroyWorker(w)
  \/ MCheckDeleting \/ MExchangePollIn
  \/ \E s \in Sock : MDestroySocket(s)

Next ==
  \/ Client
  \/ EpollThread
  \/ \E s \in Sock : Flush(s)
  \/ \E w \in Worker : WorkerThread(w)
  \/ MainThread
  \/ EDrainTimeout
  \/ MStop \/ MStopped \/ MStopTimeout

Spec == Init /\ [][Next]_vars

\* Every thread of the process runs. Clients owe nothing, no timeout of the
\* shutdown is assumed, and no keep-alive scan: HttpKeepAliveTimeout may be long.
Fairness ==
  /\ WF_vars(EpollThread)
  /\ \A s \in Sock : WF_vars(Flush(s)) /\ WF_vars(MDestroySocket(s))
  /\ WF_vars(MainThread)
  /\ \A w \in Worker : WF_vars(WorkerThread(w))

FairSpec == Spec /\ Fairness

\* Timers expire: a scan is due again and again, and a socket that stays unused
\* is found idle by one of them.
ScanFairness ==
  SF_vars(EScanBegin) /\ \A s \in Sock : SF_vars(EScanTimeout(s))

-----------------------------------------------------------------------------
(* Safety *)

\* The workers that myWorkerCounter counts: started and not yet released.
Counted(w) == wpc[w] \in {"run", "send", "rearm", "disconnect", "finished"}

\* The limit of MPM.hybrid.MaxWorkersPerAppServer bounds the worker objects
\* that exist, those waiting for their destructor included, although the
\* epoll thread tests it (tmultiplexingserver_linux.cpp:193) several steps
\* before it starts a worker and the main thread changes the count meanwhile.
WorkerLimit == workerCount <= MaxWorkers

\* Two workers never run for one connection, so that answers to pipelined
\* requests leave in order: countWorker() is read before recv() and the
\* worker is started after it.
OneWorkerPerSocket ==
  \A v, w \in Worker : Counted(v) /\ Counted(w) /\ wsock[v] = wsock[w] => v = w

\* A socket object outlives its users: the worker threads that hold its
\* pointer, the slot of the main thread, and the epoll thread from the event
\* to the end of the loop body, whatever order deleteLater() (epoll thread)
\* and releaseWorker() (main thread) take.
SocketOutlivesUsers ==
  /\ \A w \in Worker : Counted(w) => obj[wsock[w]] = "live"
  /\ mpc \in {"check", "exchange"} => obj[msock] = "live"
  /\ epc \in {"recv", "count", "pollIn", "read"} => obj[cur] = "live"
  /\ \A s \in Sock : batch[s] # {} => obj[s] = "live"

\* A socket that was asked to delete itself is never forgotten: it is queued
\* for destruction, a thread is about to decide, a worker still has to be
\* released, or the keep-alive scan can still find it in socketManager[].
NoForgottenSocket ==
  \A s \in Sock :
    obj[s] = "live" /\ deleting[s] # "no" =>
      \/ posted[s]
      \/ registered[s]
      \/ epc = "delete" /\ cur = s
      \/ mpc = "check" /\ msock = s
      \/ \E w \in Worker : Counted(w) /\ wsock[w] = s

\* The epoll thread never uses a destroyed socket, neither through a pointer
\* in sendRequests (tepoll.cpp:205 expects "already disconnected" sockets
\* there), nor in deleteLater(), nor in the list of the keep-alive scan.
\* (It does: README, section 5.)
NoDanglingUse == dangling = {}

(* Liveness *)

\* With a keep-alive timeout, a socket asked to delete itself is destroyed:
\* when deleteLater() and releaseWorker() miss each other, the next scan
\* calls deleteLater() again.
DeletedSocketDestroyed ==
  ScanFairness => \A s \in Sock : deleting[s] # "no" ~> obj[s] = "dead"

\* A request that arrives while all workers are busy, or during an earlier
\* request, is read, or noted in pollIn, or its connection is closed.
RequestReadOrNoted ==
  \A s \in Sock : (obj[s] = "live" /\ inbox[s] > 0)
                    ~> (inbox[s] = 0 \/ pollIn[s] \/ deleting[s] # "no")

\* A response handed to the socket is sent, unless the client does not read
\* or the connection is closed, although the descriptor is edge-triggered and
\* the event that finds room may come before the response is enqueued.
ResponseSent ==
  \A s \in Sock : sendBuf[s] > 0 ~> (sendBuf[s] = 0 \/ ~writable[s] \/ ~sd[s])

\* performance/index.md:20: sockets are monitored by epoll and an HTTP request
\* is processed on a thread. A request on an open connection is read.
RequestRead ==
  \A s \in Sock : (obj[s] = "live" /\ inbox[s] > 0)
                    ~> (inbox[s] = 0 \/ deleting[s] # "no")
=============================================================================
