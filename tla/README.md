# TLA+ models of standard-cxx: the TreeFrog application server

The repository collects C++ examples, libraries and a few complete programs. The
program with the most behaviour that tests hardly reach is the copy of the
**TreeFrog Framework** under `qt/treefrog-framework`: an application server with an
edge-triggered epoll loop, worker threads, a pool of database connections shared by
all threads, publish/subscribe between processes and a supervisor of processes.
This directory models its core. Paths below are relative to
`src/qt/treefrog-framework/src` unless they begin with another directory.

## 1. Inventory

### 1.1 TreeFrog

| Component | State | Operations | Talks to | What is hard | What makes it correct |
|---|---|---|---|---|---|
| Hybrid server: `tmultiplexingserver_linux`, `tepoll`, `tepollsocket`, `tepollhttpsocket`, `tactionworker` | polled sockets, `deleting`, `pollIn`, `myWorkerCounter` and send buffers per socket, queue `sendRequests`, number of workers | accept, event loop, start of a worker, `sendData`/`disconnect` from workers, `releaseWorker` and destructors in the main thread, keep-alive scan, `stop` | kernel (epoll, EPOLLET), clients, action context | three kinds of threads on one object without locks; lost wake-ups; the object's lifetime | one worker per connection; object outlives its users; worker limit; no request or response is left behind; connections are closed |
| SQL pool: `tsqldatabasepool`, with `tdatabasecontext`, `tsqltransaction` | two stacks of names per database, `lastCachedTime`, open connections; per context its handles, its transactions and `enabled` | `database`, `pool`, `timerEvent`, `getSqlDatabase`, `begin`, `commitAll`, `rollbackAll`, `release` | all worker threads, timer of the main thread, DBMS | busy loop over two stacks; failing `open`, `COMMIT`, `ROLLBACK`; connections reused by the next request | a name is at one place; no transaction leaks to the next user; closing timer never closes a lent connection; the session survives |
| KVS pool: `tkvsdatabasepool` | as above, per type of store | `database`, `pool`, `timerEvent` | threads, Redis, MongoDB | as above; servers drop connections | as above |
| Action context: `tactioncontext` | current controller, session, transaction flag | `execute`, `release` | pools, session stores, controllers | exceptions, filters, order of commit, session store and garbage collection | one transaction per request, ended on each way out |
| Redis driver: `tredisdriver`, `tredis` | read buffer, position | `request`, `readReply`, parser | KVS pool, Redis | replies in pieces; a timed-out reply that arrives later | a reply belongs to its request |
| Lock-free containers: `tstack.h`, `tqueue.h`, `thazardptr*`, `tatomicptr.h` | heads, hazard records, list of removed nodes | push, pop, enqueue, dequeue, garbage collection | both pools, `sendRequests`, `removeQueue` | use after free, ABA | linearisable; no freed node is read |
| Threaded server: `tthreadapplicationserver`, `tactionthread` | idle threads, running threads | `incomingConnection`, `run`, keep-alive loop, hand-over to a websocket | action context | slots held by silent clients | thread limit, every accepted connection is served |
| Websockets: `twebsocket`, `tabstractwebsocket`, `tepollwebsocket`, `twebsocketworker`, `twebsocketendpoint` | frames, flags `deleting`, `closing`, `closeSent`, workers, timer | open, receive, ping, close handshake | publisher, action thread, main thread | frames in pieces; closing from both sides; several workers; lifetime | messages whole and in order; closed once; object outlives its workers |
| Publisher and system bus: `tpublisher`, `tsystembus`, `tools/tfmanager/systembusdaemon.cpp` | topics, subscribers; read and send buffers | subscribe, publish, broadcast | websockets, other processes | frames in pieces; unlocked lookup in `receiveSystemBus` | each subscriber gets each message once |
| Server manager: `tools/tfmanager/servermanager.cpp` | table of processes, state | start, stop, `serverFinish`, `errorDetect` | processes | failure to start, death while stopping | the number of servers is restored |
| Sessions: `tsessionmanager`, stores | sessions with their times | find, store, remove, collect | action context, pools | collection against use | a live session is not collected |
| HTTP messages: `thttprequest`, `thttpsocket`, `tmultipartformdata` | buffer, remaining length | read in pieces | sockets | pipelining, bodies in pieces | requests are cut at their ends |
| Loggers, schedulers, background processes | buffers, timers | write, flush | all | order of asynchronous writes | nothing lost at exit |
| Routing; ORM and queries; controllers, views, mail; generators | – | pure or sequential conversions | action context | text | – |

### 1.2 The rest of the repository

Cutelyst (a second web framework), mne_erp, cia_gtk, xe-toolkit, three Qt desktop
applications, CGI programs, and the directories of language examples are listed in
`PROJECT.json` with the reason each is left out. Cutelyst and mne_erp are large, but
one framework modelled in depth says more than two in outline; the others are
sequential, interactive or demonstrations of an API and keep no state that several
actors change.

### 1.3 Hazards

`PROJECT.json` lists under `hazards` what is hard to test in the modelled code and in
some that are not modelled, each at its line, with the properties that watch it or
the reason none does.

## 2. What is modelled

### 2.1 `EpollServer`: the hybrid server

Actions carry the letter of the thread that runs them.

* **Epoll thread** (`E...`, `TMultiplexingServer::run`): `EDispatch`
  (`dispatchSendData`), `EWait`, `EAccept`, `EEvent` (`next`, `send`), `ERecvLimit`
  (the test of `workerCount()`), `ECountWorker`, `ESetPollIn` (`pollIn = true`),
  `ERecv` (`recv` and `startWorker`), `EScanBegin`/`EScanSkip`/`EScanTimeout`
  (keep-alive), `ERoundEnd`, `ERelease`, `EDrained`/`EDrainTimeout` (shutdown). `deleteLater()`
  is two steps, `SetDeleting` in the caller and `EDelete`, because the main thread may
  run between the store of `deleting` and the test of `myWorkerCounter`. The
  socket's own operations are operators under their names: `send`, `recvFails` (when
  `recv` reports an error), `Upgrade` (in `seekRecvBuffer`), `addPoll`, `modifyPoll`,
  `allSockets`, `startWorker`, and `deleteLater` of the base class.
* **Worker threads** (`W...`): `WExecute` takes the next request of the batch and
  answers, throws or does neither; `WEnqueue` and `WRearm` are the two halves of
  `setSendData`, `WDisconnect` is `setDisconnect`, `WFinish` the end of `run`.
* **Main thread** (`M...`): the slot `releaseWorker` in its three steps
  (`MReleaseWorker`, `MCheckDeleting`, `MExchangePollIn`), the deferred deletions
  (`MDestroyWorker`, `MDestroySocket`) and `stop()`, in which it blocks.
* **Memory**: `TAtomic` stores with release order (`tatomic.h:19`), so a store of
  `deleting` may be invisible to other threads when the epoll thread goes on to read
  the counter. `deleting` has a value "buffered" and the action `Flush` for this. The
  counter is changed by read-modify-write operations, and no other store is followed
  by a load the properties depend on.
* **Outside**: clients connect, send requests, hang up and read (`Connect`,
  `SendRequest`, `Hangup`, `Drain`); the ready list of epoll is `ready`, filled by
  arrivals and by `EPOLL_CTL_MOD` and emptied by `EWait`.

Abstracted: a request is one whole message, so `inbox` counts requests; a send buffer
counts buffers and either takes all of them or some; wall-clock time is replaced by
"may be idle long enough", except that a socket used in this round is not; a socket
identity is used once, so descriptors are not recycled; the websocket that takes over
a connection is not followed.

### 2.2 `SqlDatabasePool`: pool, contexts and transactions

A context (one per worker) is in a phase of `TActionContext::execute()` — `idle`,
session lookup, `enable` (the transaction flag is set), `action`, `commit` or
`rollback`, `store`, `gc`, `release` — or inside `database()` (`cache`, `unpool`,
`stack`, `open`, `openError`, `begin`), from where `ret` says which phase follows.
Each `pop` and `push` of a stack, each `open()`, and each end of a transaction is a
step; `open()`, `BEGIN`, `COMMIT` and `ROLLBACK` may fail. Exceptions (`Throw`), a
rejecting filter (`ReturnFromAction` to `gc`), an action that closes its connection
(`ActionCloses`) and a new context on the thread (`NewContext`) are there. The timer of
the pool is `TimerPop`, `TimerClose`, `TimerPush`; that thirty seconds have passed is
`Expire`.

The stacks are multisets: which of several names is popped is left open, so that the
result does not depend on the order of the lock-free stack; `pop` and `push` are
atomic, as `HazardStack` shows they are up to a first ABA (section 5). Which controllers use
sessions or transactions is a constant.

### 2.3 `KvsDatabasePool`: the pool of key-value stores

The same protocol without transactions, with two differences of the code that matter:
a server may drop a connection at any time (`Disconnect`), so a pooled connection may
be closed, and a failed `open()` does not push the name back. Types that are not
configured are left out: `database()` returns at once for them.

### 2.4 `ConnectionLease`: what a pool promises

The abstract specification: a connection is free or has one holder, a context has at
most one connection of each database, and the only steps are `Lend` and `GiveBack`.
Both pools are shown to implement it with `holder` read off the slots of the contexts
(`LeaseSpec` in each module).

### 2.5 `RedisDriver`: commands and replies over one stream

`request()` with `readReply()` and the parser, in the thread that has the connection:
`Request` (write the command, `startpos = pos`, `clearBuffer()`), `ReadClosed`,
`BeginRead` (bytes before `pos` are removed), `Read` or `ReadTimeout`, then one of
`ParseLine`, `ParseInteger`, `ParseBulkString`, `ParseInvalid`, `ParseArray`,
`ParseElement`, `ParseArrayFails`, `EndArray`; `Return` and `Again` are the two ways out
of a round of the loop. `parseArray()` calls itself: `arrays` is the stack of its calls.
`Open`, `Close` and `moveToThread` are what the pool and the context do with the
connection. The server answers commands in their order, at any time (`Answer`), or goes
away (`Disconnect`).

Text is cut into *granules*: the marker of a reply with its number, a CRLF, or a piece of
a value. A read ends after any granule but not inside one. The code accepts a bulk
string when two bytes follow its header; the model does so when one granule follows.
`late` and `cut` are ghosts that say when a request is disturbed: something was
outstanding on the stream when it was written, or a read ended inside a string, or inside
a reply while `startpos` was stale. `OwnReply` is about all other requests, and
`RepliesInOrder` about all.

`OwnReply` compares what `request()` returns with `Value` of the server's reply. `Value`
reads the text of the reply as a whole and not as the parser does: each marker has a ghost
`size`, the granules of its element, so that an element ends at `After`, the elements of
an array are the one sequence of places in `Layouts`, and the value of an element is what
numbers and data lie between its beginning and its end. `WellFormed` says which texts are
replies of the protocol; arrays may be in arrays, be empty or null, and hold errors. The
parser waits for the first element of an empty array, and takes what follows for it, in
another array too; such a reply ends in a timeout, which `OwnReply` allows, and never in a
wrong value.

### 2.6 `ServerManager`: supervision of the application servers

Slots of the manager's main thread: `Start` (with `ajustServers()`),
`updateServerStatus`, `errorDetect`, `serverFinish`, and `stop()` in two steps (`Stop`
sends SIGTERM; `Stopped` is the moment when `waitForFinished()` has returned for each
server), between which servers still fork, execute and die. `process` says where a
process is and which signals its `QProcess` still has to emit; `started()` comes before
`finished()`, so a server that died at once is "diedEarly" first. A `QProcess` that failed
to start stays in the table ("error"). After `Stopped` a new manager may start
(`main.cpp` builds one for a restart). `MaxStarts` bounds the deaths, not the starts of
a start-up.

### 2.7 `SystemBus`: publisher, bus and daemon

* **Workers** of a server: `Subscribe`, `Unsubscribe`, `PublishSend` and `PublishLocal`
  (`TPublisher::publish` sends to the bus before it takes the mutex).
* **Main thread** of a server: `writeBus`, `readBus` (with `recvAll()`), `recvAllForever`,
  and `receiveSystemBus()` in two steps, `get` and `publish`, because it has no mutex: the
  `Pub` may be deleted in between, and `pub` is "freed" then. `pass` goes over what is no
  message, or has no subscriber.
* **Daemon** (`systembusdaemon.cpp`): `acceptConnection`, `readSocket` with its loop
  (`Forward`, `ForwardForever`) and its nested wait (`ReadMore`, `TooShort`), during which
  it does nothing else, `handleDisconnect`.
* **Processes** join and die (`Join`, `Leave`), with what they wrote under way.

A frame is two parts that may arrive apart. After `TooShort` the rest of a frame
stands where a header is expected, and its length can be read as anything
(`FrontFrames`). Daemon and servers add the length of the header to it in 32 bits, so the
total may also wrap. If it wraps to 0, nothing is taken from the buffer and the loop goes
round for ever: `ForwardForever` sets `spins` for the daemon, and nothing is forwarded from
then on; `recvAllForever` puts a server into `hung`, whose main thread does nothing more. If
it wraps to 1..4, pieces shorter than a header are forwarded, each a `Fragment`. What comes
after one may be taken for a frame of any length: the server is in `outOfStep` until a
frame happens to end where the next begins, and what it reads is passed over or not. Both
are over-approximated: which lengths a text can hold is left open. Delivery through queued signals to a websocket's thread is one step with
`publish`, since Qt keeps the order of each receiver's events. There is one topic: topics
share nothing but the bus. Sockets are written whole: the branches for a peer that does
not read for a second are left out.

### 2.8 `HazardStack` and `LifoStack`: the lock-free stack

`HazardStack` has `TStack` node by node: `push`, and `pop` in the steps `PopLoad` and
`PopGuard` (`guard()` loads the head and stores it in the hazard pointer), `PopNext`,
`PopExchange`, `Retire` (`deleteLater()`), `LimitObjects` (the loop in
`THazardPtrManager::push`) and `PopClear`. `NewRecord` and `EndThread` are the
constructor and destructor of a thread's `THazardPtr`. The remover thread is `RBegin`,
`RHeads`, `RRecord`, `RDecide`, `REnd`. `TAtomicPtr::store()` has release order: a guard
waits in `pending` until `Flush` or the thread's next exchange makes it visible, and
freed memory may hold anything when `PopNext` reads it. `guarded` is a ghost: the guard
was visible before the node was retired.

`new` may give out any free address, also one that a `pop()` still has in a variable, and
`guard()` does not prevent that (section 5). The ghost `stale` has the threads before their
exchange whose node was deleted and pushed again since they read its `next`; `aba` says that
one of them has exchanged the head nevertheless. Up to that moment the stack implements
`LifoStack`, the abstract stack whose pushes and pops each take effect at one moment;
`LifoSpec` and the stack's half of `NodeInOnePlace` say so, and thereby that it fails in no
other way. `top()` and `counter` are left out; the
latter is only used as a hint (`tsqldatabasepool.cpp:263`).

### 2.9 `RequestReader`: cutting requests from a stream

How the requests of a keep-alive connection are cut, in both servers (`mpm`). A position
counts units from the start of the connection, so a buffer is the stretch between two
positions and a request three of them (start, end of header, end of body). *Thread*:
`WaitForReadyRead` with the slot `readRequest()` of `THttpSocket`, which also runs while a
response is written (`WaitForBytesWritten`), then `ReadRequest` (`read()`) and `Execute`.
*Hybrid*: `Recv` for each round of `recv()` with `seekRecvBuffer()`, `StartWorker` at
`EAGAIN`, `Execute` in the worker; nothing is received while it runs. `missing`,
`remaining`, `cut`, `generate`, `single` and `clear` are what the code computes with
`lengthToRead` and `indexOf`.

`held` is how far the stream was read out of the `QTcpSocket`, `got` how far it was kept:
the slot reads all there is before it looks at `lengthToRead`, and drops it when that is 0.
What lies between `got` and `held` is lost with the next `clear`, and the stream goes on after
it. With the setting `long` the last request has a Content-Length of 2^31 or more.
The readers take it as the `uint` it is and wait (`bodyEnd`), but `generate()` puts it into an
`int`, where it is negative, and goes back in the buffer. `again` is what it may cut then,
and in the second branch of `CutRequests` it finds the same header again and again, without
end. Only the last request is `long`, one jump back is followed, and whether it lands
before a header already cut, after it, or where it repeats itself is left open. `Close` is the keep-alive timeout or the end of the
connection. The client (`Write`) sends up to `window` requests (one of `Windows`) before it waits. Bodies
beyond `LimitRequestBody` (zero by default) and upgrades are left out.

### 2.10 `WebSocketReader`: from frames to messages

`readRequest()` and `parse()` of a `TWebSocket`, a round of the loop of `parse()` a step:
`ReadyRead`, `parse` (with `progressed`, the last frame after it: `begun` or `continued`;
`isInvalid`: continuations of nothing; `moved`: control frames go forward), `ParseEnd`,
`CollectMessage` (the frames up to the first final one are a message; a round of the loop of
`readRequest()` a step), `StartReceiving` (a worker starts if there are messages),
`releaseReceiving` (`releaseWorker()`), and `ExecuteMessage` in the worker. What a client
may send, `Scripts`, is external: a frame has its place in the stream, two units of header
and `len` units of payload, and `ValidScript` says which sequences of frames a client may
send. `whole` says what messages should be, by the numbers of their frames. Frames that are
not valid by themselves are left out; masks and lengths are data.

### 2.11 `WebSocket`: the life of a websocket

* **Action thread**: `handshakeForWebSocket` (the object is given to the main thread) and
  `startWorkerForOpening` after the lookup of the session. If the object's deletion was
  posted in between, `handover` is "dangling" and no worker starts in the model.
* **Workers**, at most one of each mode: `execute` is the call of a handler, `Task` a task
  of the endpoint's list (a handshake response, a text, a close frame, a subscription,
  the refusal of the connection), `Executed` the next payload or the end. `SendClose` looks
  at the flags and then exchanges `closeSent`, in two steps. Handlers may throw.
* **Main thread**: `readRequest`, `RemoteClosed` (`disconnected()`), `sendRawData` and
  `close` for the signals of workers, `releaseWorker`, `Destroy`.
* **Client**: it sends messages and a close frame, or leaves; once the websocket is handed
  over, it need not wait for the handshake response. `onOpen()` may subscribe, send a text,
  close, refuse or throw. A text of another worker may then be written before the
  handshake response: nothing in the code orders them.

Messages are whole here, as `WebSocketReader` has them. One topic stands for all. Database
transactions of handlers, keep-alive pings and tasks for other websockets are left out.

### 2.12 Composition

`SqlDatabasePool` composes the pool, `TDatabaseContext`, `TSqlTransaction` and the
request cycle of `TActionContext`. In `EpollServer` the action context is the single
step `WExecute`, and in `SqlDatabasePool` the server is "a context may start a
request": the two share no other state (one context belongs to one worker).
`SystemBus` composes three components in several processes. Between modules the
interfaces are abstract specifications: `EpollServer` takes whole requests from
`RequestReader`, and `WebSocket` whole messages from `WebSocketReader`; the pools and the server use stacks as atomic
multisets, which is what a user of `LifoStack` can see; `RedisDriver` is opened, closed
and lent as the KVS pool does with the connections of `ConnectionLease`.

## 3. Runs

All in `PROJECT.json`; each `MC*.tla` holds the constant sets, each `.cfg` the bounds.

| Run | Instance | States | Shows |
|---|---|---|---|
| `EpollOne` | 1 connection, 2 workers, limit 2, 3 requests, keep-alive | 272 432 | `OneWorkerPerSocket`, `NoForgottenSocket`, `DeletedSocketDestroyed`, `RequestReadOrNoted`, `ResponseSent` |
| `EpollTwo` | 2 connections, 2 worker slots, limit 1, 2 requests, keep-alive, stop at any moment | 3.6 million | `WorkerLimit`, `SocketOutlivesUsers` |
| `SqlPool` | 2 contexts, 2 connections of 1 database, every request with a session, transactions on or off | 553 998 | `NameInOnePlace`, `PooledWithoutTransaction`, `TransactionOfHolder`, `SessionStoredDurably`, `LeaseSpec`, `SomeoneServed` |
| `KvsPool` | 2 contexts, 2 Redis names, 1 MongoDB name | 65 494 | `NameInOnePlace`, `LeaseSpec` |
| `Redis` | 3 commands, 5 replies (error, integer, string of two pieces, empty array, array of an array with an empty string and an integer, and of a null) | 1 189 545 | `OwnReply`, `RepliesInOrder`, `RequestEnds` |
| `ServerManager` | 3 servers, 4 process objects, deaths until 5 starts | 151 790 | `OneScheduler`, `NumbersComplete`, `Replaced`, `Settles` |
| `SystemBus` | 2 servers with a websocket each, 2 messages | 254 024 | `InOrder`, `OwnMessage`, `Delivered` |
| `HazardStack` | 2 threads, 2 nodes, 2 records, `gcBufferSize` 0, until the first ABA | 710 217 | `GuardKept`, `NodeInOnePlace`, `RecordsListed`, `LifoSpec`, `RetireEnds` |
| `RequestReader` | 4 requests, two with bodies in a file, the last with a fitting or too long Content-Length, windows 1 and 2, both servers | 6 231 | `AnsweredWhole`, `NothingTwice`, `Answered` |
| `WebSocketReader` | 5 scripts of 3 or 4 frames | 3 682 | `InStep`, `MessagesWhole`, `AllDelivered` |
| `WebSocket` | 2 messages | 477 344 | `WorkersKeepSocket`, `ClosedOnce`, `LostDestroyed`, `CloseAnswered` |
| `EpollLostWakeup` | 1 connection, 2 workers, 2 requests | - | `RequestRead` is violated: finding 1 of section 5 |

**Why the bounds are enough.** The hazards of a socket involve the epoll thread, the
main thread and one or two workers; with two requests on one connection a second
worker can be wanted while the first runs, is finished, or is being released, and with
three a request can arrive in each of these moments. The limit of workers needs two
connections that compete for one. In the SQL pool two contexts and two names give each
race between two threads, and between a thread and the timer, for a full, half empty
and empty stack; in the KVS pool the type with one name and two users shows the empty
stack as well. In `SqlPool` every request looks its session up; since a failed
`open()` lets the lookup return without a connection, the requests that first use the
database in the action, or in the session store, are reached all the same, and
the proofs have requests without a session. Requests on a context
repeat without bound, so no counter cuts the behaviours of the pools.

In `Redis` three commands are a request that times out, one that gets its reply, and one
whose `startpos` is stale from there. Three servers let one die while another starts
and a third runs; one process object more than servers is needed because a server is
replaced before its `QProcess` is deleted. On the bus two messages and two servers give
each order of a message from here and one from there, and a frame lost in front of a whole
one. A third server receives as the second does, and adds messages of two others at a third
and fragments for two: three servers with a websocket each, of which one subscribes and two
publish one message each, without deaths, were checked once, outside the runs (67 543 states);
`Delivered` and `InOrder` hold. `InOrder` alone was also checked with three servers that do
everything (6 221 256 states). In `HazardStack` two threads race
for one head while the remover looks at the other's record. The run stops at the first ABA
(`UntilAba`), since `LifoSpec` and the stack's half of `NodeInOnePlace` say nothing after it;
without that constraint it takes 2 592 505 states and eight minutes, and was done once: `GuardKept`,
`RecordsListed`, the list's half of `NodeInOnePlace` and `RetireEnds` hold after an ABA,
too. `gcBufferSize` is at least
100 in the program; with 0 the limit is twice the number of records, so that the loop at
the limit is reached. Two threads at the limit at once would need four nodes, which is
beyond this instance.

The stream of `RequestReader` has a request without a body between others, and each
header and body can be cut in the middle; the readers keep nothing from a request to the
next but a position, so four requests show each pair of neighbours. A client one request
ahead gives the reader every mixture of an end and a beginning. The scripts of
`WebSocketReader` have an unfragmented message, fragments of which one is empty, empty
payloads, and control frames before, after and between data; two of them are in an order
for which the code moves a control frame wrongly, and `MessagesWhole` is about the others
(`orderly`). Two messages let a websocket's worker be busy while one more comes; everything else in its life
happens once.

Every bound on behaviours has a name: `MaxRequests` (what clients send, what is
commanded), `MaxMessages`, `MaxStarts`, `Count`, `Scripts`, `MaxTexts`, `UntilAba`. Worker slots and identities are
interchangeable, and so are contexts and names of one database; symmetry is used only in
runs that check invariants and step properties.

`CHECK_DEADLOCK FALSE` is set where the system may stop: in `EpollTwo` the process ends,
in the readers' runs the connection is closed, the client has nothing more to send or
`generate()` does not return, in `WebSocket` the object is destroyed, and in `SystemBus` the
daemon may loop for ever when no server is left.

**Other properties.** `TypeOK`, and the parts of an inductive invariant that say little by
themselves (`AvailableClosed` of the pools, `AllServersListed`), are theorems of the
proof modules (section 6). Every property of a
passing run is paired in `PROJECT.json` with a change to the modelled code that
violates it (a dropped guard, an off-by-one comparison, a missing push or close); the
changed forms stand beside the originals with the remark "mutant".

## 4. Fairness

* `EpollServer`: weak fairness of the epoll thread, the main thread, each worker, the
  store buffer and each deferred deletion: the operating system runs every thread, and
  event queues are served. That scans happen is not part of it: `ScanFairness` (strong
  fairness of `EScanBegin` and `EScanTimeout(s)`: `idleTimer` makes a scan due each
  second, and a socket that stays unused is found idle by one of them) is the premise of
  `DeletedSocketDestroyed` alone, so that `RequestReadOrNoted` and `ResponseSent`
  are shown without its help. Clients owe nothing and no timeout of the shutdown is
  assumed.
* Pools: weak fairness of what a thread does by itself (`Proceed`) and of the timer
  once it holds a name. A thread may stay in an action for ever. `SomeoneServed` is
  lock-freedom, not freedom from starvation: `database()` looks at one stack and then
  at the other, and a name can move behind its back each time.
* `RedisDriver`: weak fairness of the thread in `request()`. The server owes nothing: a
  read that gets nothing times out.
* `ServerManager`: weak fairness of the slots, of `fork`/`exec`, and of the death of a
  server that got SIGTERM. Servers need not die otherwise.
* `SystemBus`: weak fairness of the event loops of servers and daemon, and of the second
  half of `publish()`. Nobody has to publish, subscribe, join or die.
* `RequestReader`, `WebSocketReader`, `WebSocket`: weak fairness of the server's threads.
  The client need not send, read or leave, and no timeout need expire.
* `HazardStack`: weak fairness of the remover, of the store buffers and of a `pop()` that
  has begun.

## 5. Findings

The first has a run of its own, since it concerns each connection of the server. The others
are found by TLC when the property named with them is added to the run named with it
(`SPECIFICATION FairSpec` where it is a liveness property, without `SYMMETRY` then).

1. **A lost wake-up** (`EpollLostWakeup`). The epoll thread reads `countWorker() > 0`
   (`tmultiplexingserver_linux.cpp:199`) and then stores `pollIn`. If the main thread
   decrements the counter and exchanges `pollIn` in between
   (`tepollhttpsocket.cpp:147-153`), the note comes too late, the edge-triggered
   descriptor is not armed again, and the request stays unread until the client
   sends more or the keep-alive scan closes the connection. `RequestReadOrNoted`,
   which holds, says that this is the only such way.
2. **Destroyed sockets are dereferenced** (`NoDanglingUse` in `EpollOne`). A send request in the queue,
   the list of the scan and the second half of `deleteLater()` can refer to an object
   the main thread has destroyed. `SocketOutlivesUsers` states, and the proof
   confirms, that every other use is safe.
3. **An action without its transaction** (`ActionInTransaction` in `SqlPool`). `enabled` is set after the
   session lookup (`tactioncontext.cpp:153`). When the request before on this context
   had transactions off, the lookup takes the connection without `BEGIN`, and the
   action that follows runs outside a transaction.
4. **Names lost on a failed `open()`** (`SomeoneServed` in `KvsPool`, with fairness). The KVS pool does not push the name
   back, as the SQL pool does, and the loop of `database()` has no exit: after as many
   failures as connections every caller spins.
5. **Pipelined requests are cut** (`AnsweredWhole` without its premise, in `RequestReader`). `readRequest()` takes the whole buffer when
   the first request in it is complete (`tepollhttpsocket.cpp:47`, `thttpsocket.cpp:73`), and
   `generate()` takes as much of the last body as there is: a second request that has
   arrived in part is executed with a cut body, or the start of its header is lost. In the
   threaded server bytes that arrive while a complete request waits are read out of the socket
   and dropped (`thttpsocket.cpp:185-186`, `232-235`), so that the buffer goes on after a gap
   and `Answered` without its premise `window = 1` is violated, too. `CHANGELOG.md:219`
   says "Support HTTP-pipeline mechanism (HTTP 1.1)." `AnsweredWhole` and `Answered` hold for
   clients that wait for their answers.
   A pipelined request with a Content-Length of 2^31 or more makes `from` go back
   (`thttprequest.cpp:601-607`): a header is cut again, with what follows for its body, or
   again and again, until memory is used up. `NothingTwice` holds for all clients
   without such a length, and is violated without its premise `~long`.
6. **A ping inside a message** (`MessagesWhole` without its premise, in `WebSocketReader`). `parse()` inserts a control frame behind
   the first frame that is not one (`tabstractwebsocket.cpp:333-340`). If fragments of a
   message are in the list, the control frame comes between them; it is final, so the
   message ends with its payload, and the rest is a message of its own.
7. **The farewell comes early** (`CloseLast` in `WebSocketReader`). For the same reason a close frame read
   together with two messages is handled before the second of them.
8. **`onClose()` before `onOpen()`** (`OpenFirst` in `WebSocket`). The main thread serves the websocket
   while the action thread still looks the session up, and a lost connection starts the
   closing worker beside the opening one.
9. **A destroyed subscriber** (`DestroyedUnsubscribed` in `WebSocket`). The closing worker gives all topics up, and a
   `subscribe()` of the opening or receiving worker comes after it. The entry in
   `Pub::subscribers` stays, and a later websocket at the same address is taken for
   subscribed and never connected (`tpublisher.cpp:51`).

Other observations:

* With `HttpKeepAliveTimeout=0` the hybrid server leaves connections open:
  `defaults/application.ini:81` says that zero disables keep-alive, but zero skips the scan
  (`tmultiplexingserver_linux.cpp:222`) and nothing else closes the connection. (The threaded
  server does, `tactionthread.cpp:123`.)
* A Redis reply that comes after the two seconds of its request is read by the next
  request on the connection (`tredisdriver.cpp:107`), and a bulk string that arrives in
  pieces is returned cut (`:231`). `OwnReply` without its premises is violated.
* A server that dies during start-up uses up a number of `startCounter`
  (`servermanager.cpp:178`): the last server then gets a number beyond the maximum and
  starts without `-i`. A server that cannot be executed is never replaced.
* The daemon drops a frame whose rest is late by 100 ms (`systembusdaemon.cpp:115`) and
  takes the rest for a header; what follows is forwarded in wrong pieces until the
  receivers are in step again. `Delivered` excepts messages of that server.
* The length found there may be any number, and `length + HEADER_LEN`
  (`systembusdaemon.cpp:114`, `123`) is computed in 32 bits. From 0xFFFFFFFB on it wraps. A
  total of 0 never leaves the loop of lines 109-153: the daemon lives in the main thread of
  `treefrog`, so the bus stands still for all servers, and the server manager with it. A
  total of 1 to 4 forwards pieces shorter than a header, and now the other servers'
  streams are out of step as well. Their `recvAll()` and `parse()` compute the same sum
  (`tsystembus.cpp:69`, `281`, `291`), so they may loop, too. `Delivered` without its exceptions
  for these (`spins`, `hung`, `inStep`) is violated.
* `guard()` (`thazardptr.h:40-45`) stores the head it has loaded and does not look at the
  head again. `PopNext` may read freed memory, because the guard came after the scan. If the
  address is pushed anew meanwhile, `compareExchange` succeeds with the old `next` (`aba`),
  and the stack may lose nodes, or lead to nodes that were removed: a pool would lend a name
  twice or lose it. `NodeInOnePlace` without `~aba` is violated (without the constraint of the
  run). The test `test/stack/main.cpp` checks a sum over the values to exclude this.
* `startWorkerForOpening()` may be called on a websocket the main thread has destroyed
  (`tactionthread.cpp:217-227`).
* The record of a thread that ended is only removed while nodes wait for deletion, and
  the first node and the first record of a list are never deleted.

## 6. What is proved

`tlapm` checks each proof for every value of the constants.

**`EpollServerProofs`**, from `ConstantsAssumption` (the set of worker slots is finite,
the limit is positive). `IInv` has the parts `Counting` (a counter is 1 exactly if an
unreleased worker exists for the socket), `Lives` (accepted before polled; told to
delete itself before queued; queued or dead only without workers), `EpollAt` and
`MainAt` (what a thread may rely on at its step) and the technical `Arrivals` and
`WorkerSocks`. `OneWorkerPerSocket` alone is not inductive: `ERecv` starts a worker
because the counter was zero some steps ago, and needs `EpollAt` (only the epoll thread
raises the counter) and `Counting`. `NoForgottenSocket` adds to it who was told to
delete a socket and where it is kept. `SocketOutlivesUsers` follows from `Lives`, `EpollAt`
and `MainAt`. `WorkerLimit` has its own strengthening: from the test of the limit to
the start the count can only fall.

**`SqlDatabasePoolProofs`**, from `PoolAssumption`. `IInv` is `Places /\ Transactions`.
`Places` says where a name is: `NameInOnePlace` is strengthened by `NameAt` (which
program counters have a name in their local variable), `TimerAt` and `SlotOf`. Every
step either moves no name (lemma `PlaceSame`), or moves one from a place where lemma
`InStacks`, `InHands` or `AtTimer` says it is alone (lemma `Moved`) and leaves the
others (lemma `Stays`). `Transactions` adds `OpenTransactions`, `ClosedOnTheWay` and
`TransactionHeld`: a transaction that can still be ended is in the hands of a context,
which is why a pooled connection has none. `SpecLease` shows that the pool
implements `ConnectionLease`: `BeginTransaction` is `Lend`, `Pool` is `GiveBack`, every
other step changes no holder.

`SessionStoredDurably` needs, beside `Places`, that a context that has looked its
session up without an error has the session database in its slot until it releases it.

The SQL run has one database; the proofs cover any number of them.

**`KvsDatabasePoolProofs`**, from the assumption of its module. `NameInOnePlace` is about
names that were not lost, so `IInv` is written with `AtOnePlace(n)` for each name; the
argument is that of the SQL pool without transactions, and with the names that a failed
`open()` leaves nowhere. `SpecLease` shows that this pool implements `ConnectionLease` too.

**`RedisDriverProofs`**, from `RedisAssumption`. `RepliesInOrder` is an action property;
`TypeInv` shows that the parser only takes what is in the buffer (`Values`), and `OrderInv`
that the stream and the commands still owed are in order, that everything returned lies
before them, and that during a request the buffer lies between the two.

`SpecOwnReply` has one hypothesis, `RepliesWellFormed`: the server sends replies of the
protocol. `MCRedisDriver` assumes it too, so TLC evaluates it for the replies of the run.
`OwnInv` adds to `OwnReply` what an undisturbed request has on its way (`Underway`): nothing
but its own command is owed; the buffer and then the stream have its reply from the first
granule on, and the buffer does not end in a string (`Intact`), or the whole reply did not
satisfy the parser and nothing more will come (`Spent`). `Unanswered` gives that the command
has no answer before it is written. Within an array `NestedCalls` says that the active calls
of `parseArray()` belong to arrays that lie one in another, and `InCall` that the list of each has
exactly the elements before the position of the parser, or fewer than lie before it. The
second happens once an empty array has taken an element that was not its own: the calls
around it are then behind for good (`NextElement`), so the outermost asks for an element
that the reply does not have. That is why a call that returns at the end of its array
has that array's elements (`CallReturns`), and why what an inner call gives to the outer one
is the value of one element (`AllElements`, for which the least place is taken in place of an
induction over the elements). The depth of arrays needs no induction either: each action
changes the last call, or the last two.

**`ServerManagerProofs`**, from `ManagerAssumption`. `IInv` is `TypeOK`, `Table` (what
exists is listed, and never more than `MinServers`), `NumbersDiffer`, `Counted` (numbers
are below `startCounter`) and `InOrder` (without an early death the listed numbers are
those below `startCounter`). `OneScheduler` follows from `Table` and `NumbersDiffer`.

**`SystemBusProofs`**, from `BusAssumption`, for any number of servers, websockets and
messages. `InOrder` speaks of what a websocket has received, so it needs everything that
is still on the way: `OrderInv` adds `Even` (the daemon sends whole frames),
`Known` (what is on the way, if it is a message and no garbage or fragment, was published, and
by the server it seems to come from),
`Upstream` and `Downstream` (each stretch from a server through the daemon to another
server is in order) and `Local` (a message whose local part is due is younger than what
its websocket sent before). The stretches are tied
together by `Ahead(m)`: what a server still has to send is younger than what the daemon
forwarded from it. Most steps only shorten a sequence, and lemma `OrderShrink` does them
all at once; `PublishSend`, `PublishLocal`, `publish`, `writeBus` and `Forward` have a
lemma each. `OwnMessage` is an action property that follows from the same invariant.

**`ConnectionProofs`** is about what a client speaks on a connection, and extends the three
modules on it.

*Requests*, from `ReaderAssumption`, in any pieces, with bytes the slot drops and a length
that does not fit. `Known` says that `lengthToRead` is known
only of a request whose header is in the buffer, so that
`generate` has a first header (`LeastOf`, from the well-foundedness of the naturals).
`NothingTwice` is the last part of `Behind`, strengthened by what was executed lying before
`start`; the lemmas `Generate` and `Single` say that what is cut lies between `start` and
`got`, if no Content-Length is `long`. `clear` moves `start` beyond what was dropped, to `held`, so
what is lost is behind it, too. `AnsweredWhole` needs `Waits`: of a client that waits, the next request is in the
buffer from its first byte and `lengthToRead` is what is missing of it (`Reading`), or it is
cut whole and nothing else was written (`Executing`).

*Websockets*, from `TextsAssumption`, for any number of messages. `Living` says that a
websocket on its way to deletion has no worker, which `mayDelete` counts (`MayDelete`).
`Closing` says who has called `onClose()`, or has set `closeSent`, when `closing` is set:
a websocket that is told to delete itself was closed or has its closing worker to run.
`Farewell` follows the one close frame from `events` to `written`; it is sent only by who
sets `closeSent` first. `Loaded` says that a receiving worker has what it handles.

*Frames*, from `ScriptsAssumption`, for any frames in any pieces. That frames do not overlap
(`ScriptOrder`) would be an induction over the script; it is the least counterexample again.
`InStep` is inductive with what it leaves out: only the last frame of the list is not
completed, without such a frame the stream stands at a `boundary`, and `parse()` has a frame
to work on while there are bytes (`Sound`, `Parsing`). `MessagesWhole` is about messages that
are delivered, and has to be said of everything on the way: of the messages that wait for the
worker behind these (`messages`), and of the frames in the list. `Ordered` says that all frames that begin
before the position of the parser are in one or the other, that each has exactly those of its
kind that were sent before it in front of it, and that a control frame is only behind data
frames that were sent before it. The last is what `orderly` gives and `moved` keeps
(`OrderedMoved`); it keeps fragments of a message together, so that no continuation is dropped
(`NotInvalid`) and what `CollectMessage` takes is one message (`OrderedCollect`).

**`HazardStackProofs`**, from `HazardAssumption`, for any threads, nodes and records.
What a list contains is recursive along its pointers, and no induction is available; so
`Linked` describes a list without it: a rank for each member, from the members' first,
highest, down to `Nil`, that falls along the links and skips no member. Lemmas `LinkedAdd`,
`LinkedDrop` and `LinkedReached` (what the links lead to from the first is just the
members) carry the rest; where induction would be used, the least rank is taken, from the
well-foundedness of the naturals (`LeastOf`). `IInv` is
`TypeOK`, `GuardKept`, `Guards` (a thread has a record of its own, and its hazard pointer
is what it guards) and `ListsInv` (some ranks make both of the manager's lists `Linked`,
and `Scan` holds). `GuardKept` alone says nothing of the remover's progress; `Scan` does: every
guard of a node the remover has still to look at is in a record that it will still come
to. Of the node it looks at, that is a record from `hpr` on, and of the nodes after it a record from
`hprhead` on. A new record lies before `hprhead` and the thread that pushed it cannot
guard a node of the list that `RBegin` loaded, because a guard only counts if it was
visible before the node was retired. This is why the list of nodes must be loaded before the list of hazard
pointers. `RecordsListed` follows from the same invariant.

`NodeInOnePlace` and `LifoSpec` hold with any allocator; what they say of the stack, they say
up to the first ABA (`aba`), and need `StackInv`: some sequence of nodes is the chain from
`head`; it and the nodes of threads about to retire them are what is live, each once; and a
thread at `compareExchange` whose node is on the stack, and that is not `stale`, has in `nxt`
what the node's `next` is. So each exchange either takes the first node and leaves the rest,
or is that of a stale thread, which sets `aba` for good (`Once`). The sequence is unique (`ItemsOf`), so it is
`items`, and each step leaves it, puts a node before it or takes its first (`StackStep`):
the steps of `LifoStack`.

While this was proved, a `CASE` of an earlier version of `compareFrom` turned out to
have two arms that could hold at once, of which TLC had always taken the first; it is now
an `IF` in the order of the code's tests.

**Model-checked only.** Every invariant and every action property of the runs is a theorem.
Liveness (`DeletedSocketDestroyed`, `RequestReadOrNoted`,
`ResponseSent`, `SomeoneServed`, `RequestEnds`, `Replaced`, `Settles`, `Delivered`,
`RetireEnds`, `Answered`, `AllDelivered`, `LostDestroyed`, `CloseAnswered`) and with it
everything about `ENABLED` and fairness is out of the prover's reach, and so are facts
about recursive definitions that need induction over data; no module here has a `RECURSIVE`
operator.

## 7. Not modelled, and why

* Deadlines as numbers: keep-alive seconds, the ten seconds of a stop, two seconds of a
  Redis read. A timeout may happen whenever its condition holds.
* Memory leaks: the destructor frees one of the queued buffers (`tepollsocket.cpp:115`), and
  a request for a closed socket is not deleted (`tepoll.cpp:206`). Reuse of descriptor numbers
  (`tepoll.cpp:167`), more than a hundred databases (`getDatabaseId()` reads two digits of
  a name, `tsqldatabasepool.cpp:322`).
* `TQueue` (`tqueue.h`), whose `dequeue()` guards the next node while another thread may free
  it (`:79`), `TStack::top()` and the counters of the containers. `EpollServer` takes the
  queue as atomic.
* What the models contain but no property is about, because nothing in the repository
  promises otherwise: the end of file that is seen with the last request drops it
  (`tepollsocket.cpp:149`); a stop with workers takes its whole timeout, since the main
  thread blocks while the epoll thread waits for it (`tmultiplexingserver_linux.cpp:249`);
  `commitAll()` may commit one database and not another (`tsqltransaction.cpp:84`); and
  `collectGarbage()` may be rolled back (`tactioncontext.cpp:261`).
* The limit of threads of the threaded server (`tthreadapplicationserver.cpp`), and
  `TEpollWebSocket`, the websocket of the hybrid server.
* Keep-alive pings, and what a handler of one websocket does to others
  (`twebsocketworker.cpp:207-229`).
* The MongoDB driver, and the stores of sessions.
* Writes to a local socket whose reader stands still for a second (`tsystembus.cpp:125`,
  `systembusdaemon.cpp:141`).
* SQL and KVS commands themselves, views, routing, generators: conversions of data.
* The components marked `not_modelled` in `PROJECT.json`.

## 8. Plan

What is left, in this order; a module is model-checked before anything is proved about it.

1. `HazardQueue`: `TQueue` over the same manager, with the guards of `dequeue()`, as a
   refinement of an atomic queue.
2. `ThreadServer`: the limit of threads and the queue of accepted connections.
3. Keep-alive timers in `WebSocket`, the tasks for other websockets, and `TEpollWebSocket`.
4. Stalled readers in `SystemBus`.
