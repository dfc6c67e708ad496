------------------------------ MODULE WebSocket ------------------------------
(***************************************************************************)
(* The life of a TWebSocket (MPM "thread"): the hand-over from the action  *)
(* thread, the workers that call the endpoint, the closing handshake and   *)
(* the deletion by the main thread. The endpoint subscribes a topic in     *)
(* onOpen() or later; its handlers may throw.                              *)
(***************************************************************************)
EXTENDS Integers, Sequences, FiniteSets

CONSTANT MaxTexts   \* bound: text messages of the client

ASSUME TextsAssumption == MaxTexts \in Nat

Modes == {"Opening", "Receiving", "Closing"}   \* enum RunMode

VARIABLES
  handover,    \* the action thread: "create", "find" (the session), "done" or
               \* "dangling", if there was no websocket any more
  ws,          \* "none", "alive", "deleteLater" or "destroyed"
  connected,   \* ConnectedState
  inbox,       \* frames of the client that were not read
  texts,       \* number of texts the client has sent
  clientClosed,\* the client has sent a close frame
  gone,        \* the client has closed the connection
  deleting, closing, closeSent,
  worker,      \* [Modes -> the worker, with its payloads and its task list]
  events,      \* queued signals to the websocket: sendByWorker, disconnectByWorker
  subscribed,  \* TPublisher has it as a subscriber
  written,     \* frames that were written to the client
  opens, closes,  \* ghosts: calls of onOpen() and onClose()
  thrown       \* ghost: a handler has thrown

clientVars == <<inbox, texts, clientClosed, gone>>
flags == <<deleting, closing, closeSent>>
ghosts == <<opens, closes, thrown>>
vars == <<handover, ws, connected, clientVars, flags, worker, events, subscribed,
          written, ghosts>>

Tasks == {"handshake", "openError", "subscribe", "unsubscribeFromAll", "text",
          "sendClose", "closeFrame", "disconnect"}
Incoming == {"text", "close"}
Signals == {"handshake", "text", "closeFrame", "disconnect"}
Worker == [pc : {"none", "run", "tasks", "finished"},
           payloads : Seq(Incoming), tasks : Seq(Tasks)]
NoWorker == [pc |-> "none", payloads |-> <<>>, tasks |-> <<>>]

TypeOK ==
  /\ handover \in {"create", "find", "done", "dangling"}
  /\ ws \in {"none", "alive", "deleteLater", "destroyed"}
  /\ connected \in BOOLEAN /\ clientClosed \in BOOLEAN /\ gone \in BOOLEAN
  /\ deleting \in BOOLEAN /\ closing \in BOOLEAN /\ closeSent \in BOOLEAN
  /\ subscribed \in BOOLEAN /\ thrown \in BOOLEAN
  /\ inbox \in Seq(Incoming) /\ texts \in 0..MaxTexts
  /\ worker \in [Modes -> Worker]
  /\ events \in Seq(Signals) /\ written \in Seq(Signals \ {"disconnect"})
  /\ opens \in Nat /\ closes \in Nat

Init ==
  /\ handover = "create" /\ ws = "none" /\ connected = FALSE
  /\ inbox = <<>> /\ texts = 0 /\ clientClosed = FALSE /\ gone = FALSE
  /\ deleting = FALSE /\ closing = FALSE /\ closeSent = FALSE
  /\ worker = [m \in Modes |-> NoWorker]
  /\ events = <<>> /\ subscribed = FALSE /\ written = <<>>
  /\ opens = 0 /\ closes = 0 /\ thrown = FALSE

-----------------------------------------------------------------------------
(* The client speaks once it is handed over, against the protocol even before   *)
(* the handshake, and may leave at any time. (What it sends earlier, with its   *)
(* request, is read by the action thread, and lost.)                            *)

ClientText ==
  /\ handover # "create" /\ ~clientClosed /\ ~gone /\ texts < MaxTexts
  /\ inbox' = Append(inbox, "text") /\ texts' = texts + 1
  /\ UNCHANGED <<handover, ws, connected, clientClosed, gone, flags, worker, events,
                 subscribed, written, ghosts>>

ClientClose ==
  /\ handover # "create" /\ ~clientClosed /\ ~gone
  /\ inbox' = Append(inbox, "close") /\ clientClosed' = TRUE
  /\ UNCHANGED <<handover, ws, connected, texts, gone, flags, worker, events,
                 subscribed, written, ghosts>>

ClientGone ==
  /\ ~gone
  /\ gone' = TRUE
  /\ UNCHANGED <<handover, ws, connected, inbox, texts, clientClosed, flags, worker,
                 events, subscribed, written, ghosts>>

-----------------------------------------------------------------------------
(* The action thread *)

\* new TWebSocket, moveToThread(): from now on the main thread serves it.
handshakeForWebSocket ==
  /\ handover = "create"
  /\ handover' = "find" /\ ws' = "alive" /\ connected' = TRUE
  /\ UNCHANGED <<clientVars, flags, worker, events, subscribed, written, ghosts>>

started(payloads) == [NoWorker EXCEPT !.pc = "run", !.payloads = payloads]

\* After findSession(). A websocket whose deletion was posted meanwhile is used
\* after its end: "dangling", and the model has no worker then.
startWorkerForOpening ==
  /\ handover = "find"
  /\ IF ws # "alive" THEN handover' = "dangling" /\ UNCHANGED worker
     ELSE /\ handover' = "done"
          /\ worker' = [worker EXCEPT !["Opening"] = started(<<>>)]
  /\ UNCHANGED <<ws, connected, clientVars, flags, events, subscribed, written, ghosts>>

-----------------------------------------------------------------------------
(* Workers *)

exists(m) == worker[m].pc # "none"
myWorkerCounter(w) == Cardinality({m \in Modes : w[m].pc # "none"})

perform(m, tasks) == worker' = [worker EXCEPT ![m].pc = "tasks", ![m].tasks = tasks]

\* onOpen() and the tasks it leads to.
onOpen ==
  /\ worker["Opening"].pc = "run"
  /\ opens' = opens + 1
  /\ \/ \E own \in {<<>>, <<"subscribe">>, <<"text">>, <<"sendClose">>} :
          perform("Opening", <<"handshake">> \o own) /\ UNCHANGED thrown
     \/ perform("Opening", <<"openError">>) /\ UNCHANGED thrown
     \/ perform("Opening", <<>>) /\ thrown' = TRUE
  /\ UNCHANGED <<flags, closes>>

onTextReceived ==
  /\ worker["Receiving"].pc = "run"
  /\ worker["Receiving"].payloads # <<>> /\ Head(worker["Receiving"].payloads) = "text"
  /\ \/ \E tasks \in {<<>>, <<"text">>, <<"subscribe">>, <<"sendClose">>} :
          perform("Receiving", tasks) /\ UNCHANGED thrown
     \/ perform("Receiving", <<>>) /\ thrown' = TRUE
  /\ UNCHANGED <<flags, opens, closes>>

\* onClose() is called by the first worker to set closing.
firstToClose_Always == TRUE                                       \* mutant
firstToClose == ~closing
onClose(m, after) ==
  /\ closing' = TRUE
  /\ closes' = IF firstToClose THEN closes + 1 ELSE closes
  /\ \/ perform(m, (IF firstToClose THEN <<"unsubscribeFromAll">> ELSE <<>>) \o after)
        /\ UNCHANGED thrown
     \/ firstToClose /\ perform(m, <<>>) /\ thrown' = TRUE
  /\ UNCHANGED <<deleting, closeSent, opens>>

onCloseFrame ==
  /\ worker["Receiving"].pc = "run"
  /\ worker["Receiving"].payloads # <<>> /\ Head(worker["Receiving"].payloads) = "close"
  /\ onClose("Receiving", <<"sendClose">>)

onClosing ==
  /\ worker["Closing"].pc = "run"
  /\ onClose("Closing", <<>>)

\* A handler is called; its transaction is left out.
execute ==
  /\ onOpen \/ onTextReceived \/ onCloseFrame \/ onClosing
  /\ UNCHANGED <<handover, ws, connected, clientVars, events, subscribed, written>>

\* The task list. SendClose reads the flags before sendClose() sets closeSent,
\* so that it takes two steps.
next(m) == worker' = [worker EXCEPT ![m].tasks = Tail(@)]
instead(m, task) == worker' = [worker EXCEPT ![m].tasks = <<task>> \o Tail(@)]
post(event) == events' = Append(events, event)

bothClosed == closing /\ closeSent

sendsClose_Again == TRUE                                          \* mutant
sendsClose_Closing == ~closing /\ ~closeSent                      \* mutant
sendsClose == ~closeSent

Task(m) ==
  /\ worker[m].pc = "tasks" /\ worker[m].tasks # <<>>
  /\ LET task == Head(worker[m].tasks) IN
     \/ /\ task \in {"handshake", "text", "disconnect"}
        /\ post(task) /\ next(m)
        /\ UNCHANGED <<flags, subscribed>>
     \/ /\ task = "subscribe"
        /\ subscribed' = TRUE /\ next(m)
        /\ UNCHANGED <<flags, events>>
     \/ /\ task = "unsubscribeFromAll"
        /\ subscribed' = FALSE /\ next(m)
        /\ UNCHANGED <<flags, events>>
     \/ /\ task = "openError"
        /\ closing' = TRUE /\ closeSent' = TRUE
        /\ post("disconnect")
        /\ worker' = [worker EXCEPT ![m].tasks = <<>>]
        /\ UNCHANGED <<deleting, subscribed>>
     \/ /\ task = "sendClose"
        /\ instead(m, IF bothClosed THEN "disconnect" ELSE "closeFrame")
        /\ UNCHANGED <<flags, events, subscribed>>
     \/ /\ task = "closeFrame"
        /\ IF sendsClose THEN post("closeFrame") ELSE UNCHANGED events
        /\ closeSent' = TRUE /\ next(m)
        /\ UNCHANGED <<deleting, closing, subscribed>>
  /\ UNCHANGED <<handover, ws, connected, clientVars, written, ghosts>>

\* The next payload, or the end of run().
Executed(m) ==
  /\ worker[m].pc = "tasks" /\ worker[m].tasks = <<>>
  /\ LET rest == IF m = "Receiving" THEN Tail(worker[m].payloads) ELSE <<>>
     IN worker' = [worker EXCEPT ![m].payloads = rest,
                                 ![m].pc = IF rest = <<>> THEN "finished" ELSE "run"]
  /\ UNCHANGED <<handover, ws, connected, clientVars, flags, events, subscribed,
                 written, ghosts>>

-----------------------------------------------------------------------------
(* The main thread *)

\* deleteLater(), with the workers w at that time: the first call starts the
\* closing worker, a later one deletes when there is no worker.
mayDelete_Always(w) == TRUE                                       \* mutant
mayDelete_Counted(w) == myWorkerCounter(worker) = 0               \* mutant
mayDelete(w) == myWorkerCounter(w) = 0

deleteAgain(w) ==
  /\ worker' = w
  /\ ws' = IF mayDelete(w) THEN "deleteLater" ELSE ws

deleteLater(w) ==
  IF ~deleting /\ ~closing
  THEN /\ worker' = [w EXCEPT !["Closing"] = started(<<>>)]
       /\ UNCHANGED ws
  ELSE deleteAgain(w)

\* disconnected(): nothing is read any more.
disconnected ==
  /\ connected' = FALSE /\ inbox' = <<>>
  /\ deleting' = TRUE
  /\ deleteLater(worker)

\* The client's end of the connection, after what can still be read.
RemoteClosed ==
  /\ connected /\ gone
  /\ inbox # <<>> => myWorkerCounter(worker) > 0
  /\ disconnected
  /\ UNCHANGED <<handover, texts, clientClosed, gone, closing, closeSent, events,
                 subscribed, written, ghosts>>

\* readRequest(), with the workers w, reads what has arrived.
read(w) ==
  \E n \in 1..Len(inbox) :
    /\ worker' = [w EXCEPT !["Receiving"] = started(SubSeq(inbox, 1, n))]
    /\ inbox' = SubSeq(inbox, n + 1, Len(inbox))

\* Not while a worker runs.
readRequest ==
  /\ connected /\ inbox # <<>> /\ myWorkerCounter(worker) = 0
  /\ read(worker)
  /\ UNCHANGED <<handover, ws, connected, texts, clientClosed, gone, flags, events,
                 subscribed, written, ghosts>>

\* The slots that the constructor connects to the signals of the workers.
slot(event) == IF event = "disconnect" THEN "close" ELSE "sendRawData"

\* sendRawData(), unless the socket is being deleted.
sendRawData ==
  /\ ws \in {"alive", "deleteLater"} /\ events # <<>>
  /\ slot(Head(events)) = "sendRawData"
  /\ written' = IF deleting THEN written ELSE Append(written, Head(events))
  /\ events' = Tail(events)
  /\ UNCHANGED <<handover, ws, connected, clientVars, flags, worker, subscribed, ghosts>>

\* close(), by disconnectByWorker().
close ==
  /\ ws \in {"alive", "deleteLater"} /\ events # <<>> /\ slot(Head(events)) = "close"
  /\ events' = Tail(events)
  /\ IF connected THEN disconnected ELSE UNCHANGED <<connected, inbox, deleting, worker, ws>>
  /\ UNCHANGED <<handover, texts, clientClosed, gone, closing, closeSent, subscribed,
                 written, ghosts>>

releaseWorker(m) ==
  /\ worker[m].pc = "finished"
  /\ LET w == [worker EXCEPT ![m] = NoWorker]
     IN \/ deleting /\ deleteAgain(w) /\ UNCHANGED inbox
        \/ /\ ~deleting /\ UNCHANGED ws
           /\ IF inbox # <<>> /\ myWorkerCounter(w) = 0 THEN read(w)
              ELSE worker' = w /\ UNCHANGED inbox
  /\ UNCHANGED <<handover, connected, texts, clientClosed, gone, flags, events,
                 subscribed, written, ghosts>>

\* The destructor: queued signals to the object are dropped.
Destroy ==
  /\ ws = "deleteLater"
  /\ ws' = "destroyed" /\ events' = <<>>
  /\ UNCHANGED <<handover, connected, clientVars, flags, worker, subscribed, written, ghosts>>

MainThread == RemoteClosed \/ readRequest \/ sendRawData \/ close \/ Destroy
                \/ \E m \in Modes : releaseWorker(m)
ActionThread == handshakeForWebSocket \/ startWorkerForOpening
WorkerThread(m) == Task(m) \/ Executed(m)
Client == ClientText \/ ClientClose \/ ClientGone

Next ==
  \/ Client \/ ActionThread \/ MainThread \/ execute
  \/ \E m \in Modes : WorkerThread(m)

\* The threads of the server run; the client may do nothing.
Fairness ==
  /\ WF_vars(ActionThread) /\ WF_vars(MainThread) /\ WF_vars(execute)
  /\ \A m \in Modes : WF_vars(WorkerThread(m))

Spec == Init /\ [][Next]_vars
FairSpec == Spec /\ Fairness

-----------------------------------------------------------------------------
\* No worker runs on a websocket that was destroyed: deleteLater() and
\* releaseWorker() count the workers of every mode.
WorkersKeepSocket == ws = "destroyed" => \A m \in Modes : ~exists(m)

sentClose == \E i \in DOMAIN written : written[i] = "closeFrame"

\* onClose() is called at most once, by the worker for the client's close frame
\* or by the closing worker; the client gets one close frame at most, whoever
\* closes first (closeSent); and no websocket is destroyed that was not closed
\* ("Logic warning" of ~TAbstractWebSocket) or refused.
ClosedOnce ==
  /\ closes <= 1
  /\ \A i, j \in DOMAIN written :
       written[i] = "closeFrame" /\ written[j] = "closeFrame" => i = j
  /\ ws = "destroyed" => closing /\ (closes = 0 => closeSent)

\* A websocket that has lost its connection is destroyed in the end: the last
\* of its workers to be released deletes it.
LostDestroyed == (ws = "alive" /\ ~connected) ~> ws = "destroyed"

\* A close frame of the client is answered, or the connection is closed, unless
\* a handler of the endpoint throws.
CloseAnswered == clientClosed ~> sentClose \/ ~connected \/ thrown

\* onOpen() is called before onClose(). The closing worker may overtake the
\* opening one, or be started before it, so that this is violated: README,
\* section 5.
OpenFirst == closes > 0 => opens > 0

\* A websocket that was destroyed is no subscriber, if no handler has thrown.
\* The topics are given up by the worker that calls onClose(): another one that
\* still runs then can subscribe, so that this is violated: README, section 5.
DestroyedUnsubscribed == ws = "destroyed" /\ ~thrown => ~subscribed
=============================================================================
