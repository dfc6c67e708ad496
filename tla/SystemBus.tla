------------------------------ MODULE SystemBus ------------------------------
(***************************************************************************)
(* Publish and subscribe between the websockets of several application     *)
(* servers: TPublisher and TSystemBus in each server, and SystemBusDaemon, *)
(* which passes the frames of one server on to the others. There is one    *)
(* topic. A frame has two parts, so that it can arrive in pieces; after a  *)
(* part was dropped, a "tail" stands where a header is expected. All three *)
(* loops over frames add the length of the header to the length in it in   *)
(* 32 bits, and a "tail" may hold a length with which the sum wraps: to    *)
(* less than a header, or to 0, and then the loop goes round for ever.     *)
(***************************************************************************)
EXTENDS Integers, Sequences

CONSTANTS
  Procs,        \* application servers, more than one
  Socks,        \* websockets
  home,         \* [Socks -> Procs]: the server a websocket belongs to
  NoProc,
  Flags,        \* the flags "local" in use: {"local", "others"}
  MaxMessages   \* bound: messages published

ASSUME BusAssumption ==
  /\ home \in [Socks -> Procs]
  /\ NoProc \notin Procs
  /\ Flags \subseteq {"local", "others"}
  /\ MaxMessages \in Nat

Messages == 1..MaxMessages
Garbage  == 0    \* a frame whose header is not one
Fragment == -1   \* bytes too few for a header (here they have two parts, too)
Part == [msg : -1..MaxMessages, part : {"head", "tail"}]

VARIABLES
  joined,       \* servers whose busSocket is connected
  sendBuffer,   \* [Procs -> Seq(Messages)]: whole frames, writeBus() is due
  up,           \* [Procs -> Seq(Part)]: on the way to the daemon
  socketSet,    \* servers the daemon has accepted
  reading, buf, \* the socket and the buffer of readSocket()
  spins,        \* the loop of readSocket() never ends
  down,         \* [Procs -> Seq(Part)]: on the way to a server
  readBuffer,
  pending,      \* [Procs -> Seq(-1..MaxMessages)]: the rest of recvAll()
  outOfStep,    \* servers that may take no header for one
  hung,         \* servers whose recvAll() never ends
  pub,          \* the variable of receiveSystemBus(): "null", "held", "freed"
  subscribers,  \* [Socks -> {"no", "local", "others"}], the flag "local"
  publishing,   \* [Socks -> Messages or 0]: sent, the local part is due
  source,       \* ghost: who published each message
  received,     \* [Socks -> Seq(Messages)]: given to sendTextForPublish()
  expected,     \* ghost: who must still get which message
  torn          \* ghost: servers of which a part of a frame was dropped

daemonVars == <<socketSet, reading, buf, spins>>
stepVars   == <<outOfStep, hung>>
serverVars == <<sendBuffer, readBuffer, pending, pub, stepVars>>
topicVars  == <<subscribers, publishing, received>>
vars == <<joined, daemonVars, up, down, serverVars, topicVars, source, expected, torn>>

TypeOK ==
  /\ joined \subseteq Procs /\ socketSet \subseteq Procs /\ torn \subseteq joined
  /\ sendBuffer \in [Procs -> Seq(Messages)]
  /\ up \in [Procs -> Seq(Part)] /\ down \in [Procs -> Seq(Part)]
  /\ reading \in Procs \cup {NoProc}
  /\ buf \in Seq(Part) /\ spins \in BOOLEAN
  /\ readBuffer \in [Procs -> Seq(Part)]
  /\ pending \in [Procs -> Seq(-1..MaxMessages)]
  /\ outOfStep \subseteq Procs /\ hung \subseteq Procs
  /\ pub \in [Procs -> {"null", "held", "freed"}]
  /\ subscribers \in [Socks -> {"no", "local", "others"}]
  /\ publishing \in [Socks -> Messages \cup {0}]
  /\ source \in Seq(Socks) /\ Len(source) <= MaxMessages
  /\ received \in [Socks -> Seq(Messages)]
  /\ expected \subseteq Messages \X Socks

Init ==
  /\ joined = {} /\ socketSet = {} /\ torn = {}
  /\ sendBuffer = [p \in Procs |-> <<>>]
  /\ up = [p \in Procs |-> <<>>] /\ down = [p \in Procs |-> <<>>]
  /\ reading = NoProc /\ buf = <<>> /\ spins = FALSE
  /\ outOfStep = {} /\ hung = {}
  /\ readBuffer = [p \in Procs |-> <<>>]
  /\ pending = [p \in Procs |-> <<>>]
  /\ pub = [p \in Procs |-> "null"]
  /\ subscribers = [s \in Socks |-> "no"]
  /\ publishing = [s \in Socks |-> 0]
  /\ source = <<>>
  /\ received = [s \in Socks |-> <<>>]
  /\ expected = {}

-----------------------------------------------------------------------------
(* The processes *)

\* TSystemBus::instantiate() in a server that starts.
Join(p) ==
  /\ p \notin joined \cup socketSet /\ up[p] = <<>>
  /\ joined' = joined \cup {p}
  /\ UNCHANGED <<daemonVars, up, down, serverVars, topicVars, source, expected, torn>>

\* The server dies with its websockets; some of what it wrote is under way.
Leave(p) ==
  /\ p \in joined
  /\ joined' = joined \ {p} /\ torn' = torn \ {p}
  /\ \E n \in 0..Len(up[p]) : up' = [up EXCEPT ![p] = SubSeq(up[p], 1, n)]
  /\ down' = [down EXCEPT ![p] = <<>>]
  /\ sendBuffer' = [sendBuffer EXCEPT ![p] = <<>>]
  /\ readBuffer' = [readBuffer EXCEPT ![p] = <<>>]
  /\ pending' = [pending EXCEPT ![p] = <<>>]
  /\ pub' = [pub EXCEPT ![p] = "null"]
  /\ outOfStep' = outOfStep \ {p} /\ hung' = hung \ {p}
  /\ subscribers' = [s \in Socks |-> IF home[s] = p THEN "no" ELSE subscribers[s]]
  /\ publishing' = [s \in Socks |-> IF home[s] = p THEN 0 ELSE publishing[s]]
  /\ received' = [s \in Socks |-> IF home[s] = p THEN <<>> ELSE received[s]]
  /\ expected' = {e \in expected : home[source[e[1]]] # p /\ home[e[2]] # p}
  /\ UNCHANGED <<daemonVars, source>>

-----------------------------------------------------------------------------
(* TPublisher, in the worker threads *)

Subscribed(p) == {s \in Socks : home[s] = p /\ subscribers[s] # "no"}

Subscribe(s, flag) ==
  /\ home[s] \in joined /\ publishing[s] = 0
  /\ subscribers[s] # flag
  /\ subscribers' = [subscribers EXCEPT ![s] = flag]
  /\ UNCHANGED <<joined, daemonVars, up, down, serverVars, publishing, received,
                 source, expected, torn>>

\* unsubscribe(), unsubscribeFromAll(): the Pub of a topic without subscribers
\* is deleted, and receiveSystemBus() may have a pointer to it.
Unsubscribe(s) ==
  /\ subscribers[s] # "no"
  /\ subscribers' = [subscribers EXCEPT ![s] = "no"]
  /\ pub' = IF Subscribed(home[s]) = {s} /\ pub[home[s]] = "held"
              THEN [pub EXCEPT ![home[s]] = "freed"] ELSE pub
  /\ expected' = {e \in expected : e[2] # s}
  /\ UNCHANGED <<joined, daemonVars, up, down, sendBuffer, readBuffer, pending,
                 stepVars, publishing, received, source, torn>>

\* Nothing keeps a server from taking the next frame for what it is.
inStep(p) ==
  /\ p \notin outOfStep \cup hung
  /\ \A i \in DOMAIN pending[p] : pending[p][i] # Fragment
  /\ \A w \in {readBuffer[p], down[p]} : \A i \in DOMAIN w : w[i].msg # Fragment

\* publish(): first send(), and writeBus() is queued.
PublishSend(s) ==
  /\ home[s] \in joined /\ publishing[s] = 0
  /\ Len(source) < MaxMessages
  /\ LET m == Len(source) + 1
         here == Subscribed(home[s])
         there == {t \in Socks : /\ home[t] \in (joined \cap socketSet) \ {home[s]}
                                 /\ subscribers[t] # "no" /\ inStep(home[t])}
         onlyHere == spins \/ home[s] \in torn \cup hung
         self == IF subscribers[s] = "others" THEN {s} ELSE {}
     IN /\ source' = Append(source, s)
        /\ publishing' = [publishing EXCEPT ![s] = m]
        /\ sendBuffer' = [sendBuffer EXCEPT ![home[s]] = Append(@, m)]
        /\ expected' = expected \cup
             ({m} \X ((here \ self) \cup IF onlyHere THEN {} ELSE there))
  /\ UNCHANGED <<joined, daemonVars, up, down, readBuffer, pending, pub,
                 stepVars, subscribers, received, torn>>

\* Pub::publish() for the subscribers in this server.
deliver(m, to) ==
  /\ received' = [s \in Socks |-> IF s \in to THEN Append(received[s], m) ELSE received[s]]
  /\ expected' = expected \ ({m} \X to)

except_Never(s) == {}                                          \* mutant
except(s) == IF subscribers[s] = "others" THEN {s} ELSE {}

PublishLocal(s) ==
  /\ publishing[s] # 0
  /\ deliver(publishing[s], Subscribed(home[s]) \ except(s))
  /\ publishing' = [publishing EXCEPT ![s] = 0]
  /\ UNCHANGED <<joined, daemonVars, up, down, serverVars, subscribers, source, torn>>

-----------------------------------------------------------------------------
(* TSystemBus and TPublisher, in the main thread of a server *)

frame(m) == <<[msg |-> m, part |-> "head"], [msg |-> m, part |-> "tail"]>>
frames(ms) == [i \in 1..(2 * Len(ms)) |-> frame(ms[(i + 1) \div 2])[2 - (i % 2)]]

\* While receiveSystemBus() runs, or recvAll() without end, the main thread does
\* nothing else.
idle(p) == pending[p] = <<>> /\ p \notin hung

unwritten_Kept(p) == sendBuffer                                \* mutant
unwritten(p) == [sendBuffer EXCEPT ![p] = <<>>]

writeBus(p) ==
  /\ idle(p) /\ sendBuffer[p] # <<>>
  /\ up' = [up EXCEPT ![p] = @ \o frames(sendBuffer[p])]
  /\ sendBuffer' = unwritten(p)
  /\ UNCHANGED <<joined, daemonVars, down, readBuffer, pending, pub, stepVars,
                 topicVars, source, expected, torn>>

\* recvAll() takes all whole frames. (Those with an invalid header it drops at
\* once, and those that it does not find after a fragment; here receiveSystemBus()
\* passes them over, which comes to the same.)
taken_OffByOne(bytes) == (Len(bytes) - 1) \div 2               \* mutant
taken(bytes) == Len(bytes) \div 2

isValid(m) == m \in Messages

\* readBus(), which calls receiveSystemBus() when a frame is whole.
readBus(p) ==
  /\ idle(p)
  /\ \E n \in 1..Len(down[p]) :
       LET bytes == readBuffer[p] \o SubSeq(down[p], 1, n)
           whole == taken(bytes)
       IN /\ down' = [down EXCEPT ![p] = SubSeq(@, n + 1, Len(@))]
          /\ pending' = [pending EXCEPT ![p] = [i \in 1..whole |-> bytes[2 * i].msg]]
          /\ readBuffer' = [readBuffer EXCEPT ![p] = SubSeq(bytes, 2 * whole + 1, Len(bytes))]
  /\ UNCHANGED <<joined, daemonVars, up, sendBuffer, pub, stepVars, topicVars, source,
                 expected, torn>>

\* parse() takes a header, and removes nothing, when the sum wraps to 0: what
\* recvAll() has taken it never returns, and writeBus() is never called.
recvAllForever(p) ==
  /\ idle(p)
  /\ \E i \in DOMAIN down[p] : p \in outOfStep \/ down[p][i].msg = Fragment
  /\ hung' = hung \cup {p}
  /\ expected' = {e \in expected : \/ home[e[2]] = p
                                   \/ \A i \in DOMAIN sendBuffer[p] : sendBuffer[p][i] # e[1]}
  /\ UNCHANGED <<joined, daemonVars, up, down, sendBuffer, readBuffer, pending, pub,
                 outOfStep, topicVars, source, torn>>

\* receiveSystemBus() looks the topic up, without the mutex.
get(p) ==
  /\ pending[p] # <<>> /\ pub[p] = "null"
  /\ isValid(Head(pending[p])) /\ Subscribed(p) # {}
  /\ pub' = [pub EXCEPT ![p] = "held"]
  /\ outOfStep' = outOfStep \ {p}
  /\ UNCHANGED <<joined, daemonVars, up, down, sendBuffer, readBuffer, pending, hung,
                 topicVars, source, expected, torn>>

\* There is no such topic, or no such message: after a fragment the length taken
\* for that of a frame may be any, and end where the next frame begins, or not.
pass(p) ==
  /\ pending[p] # <<>> /\ pub[p] = "null"
  /\ ~isValid(Head(pending[p])) \/ Subscribed(p) = {} \/ p \in outOfStep
  /\ pending' = [pending EXCEPT ![p] = Tail(@)]
  /\ outOfStep' \in IF Head(pending[p]) = Fragment THEN {outOfStep \cup {p}}
                    ELSE {outOfStep, outOfStep \ {p}}
  /\ UNCHANGED <<joined, daemonVars, up, down, sendBuffer, readBuffer, pub, hung,
                 topicVars, source, expected, torn>>

\* It publishes there. If the Pub is gone, nobody gets the message, or the
\* server crashes (Leave).
publish(p) ==
  /\ pub[p] # "null"
  /\ deliver(Head(pending[p]), IF pub[p] = "held" THEN Subscribed(p) ELSE {})
  /\ pub' = [pub EXCEPT ![p] = "null"]
  /\ pending' = [pending EXCEPT ![p] = Tail(@)]
  /\ UNCHANGED <<joined, daemonVars, up, down, sendBuffer, readBuffer, stepVars,
                 subscribers, publishing, source, torn>>

-----------------------------------------------------------------------------
(* SystemBusDaemon, in the main thread of the process "treefrog" *)

acceptConnection(p) ==
  /\ reading = NoProc
  /\ p \notin socketSet
  /\ p \in joined \/ up[p] # <<>>
  /\ socketSet' = socketSet \cup {p}
  /\ UNCHANGED <<joined, reading, buf, spins, up, down, serverVars, topicVars, source,
                 expected, torn>>

\* readAll(): some of what has arrived.
takeFrom(p) ==
  \E n \in 1..Len(up[p]) :
    /\ buf' = buf \o SubSeq(up[p], 1, n)
    /\ up' = [up EXCEPT ![p] = SubSeq(@, n + 1, Len(@))]

readSocket(p) ==
  /\ reading = NoProc
  /\ p \in socketSet
  /\ takeFrom(p)
  /\ reading' = p
  /\ UNCHANGED <<joined, socketSet, spins, down, serverVars, topicVars, source, expected, torn>>

\* The frames that may be at the front of buf, with their lengths: what stands
\* where a header should be may have any length in it, and one that wraps to
\* 1..4 makes a fragment of what is there, or several.
FrontFrames ==
  IF buf[1].part = "head" THEN {<<buf[1].msg, 2>>}
  ELSE ({Garbage} \X (1..(Len(buf) + 1))) \cup ({Fragment} \X (1..Len(buf)))

inLoop == reading # NoProc /\ ~spins

others_All == socketSet                                        \* mutant
others == socketSet \ {reading}

\* A fragment may cost the others whatever is on the way to them.
Forward ==
  /\ inLoop
  /\ \E f \in FrontFrames :
       /\ f[2] <= Len(buf)
       /\ down' = [p \in Procs |-> IF p \in others \cap joined
                                     THEN down[p] \o frame(f[1]) ELSE down[p]]
       /\ buf' = SubSeq(buf, f[2] + 1, Len(buf))
       /\ expected' = {e \in expected : \/ f[1] # Fragment \/ home[e[2]] \notin others
                                        \/ home[source[e[1]]] = home[e[2]]}
  /\ reading' = IF buf' = <<>> THEN NoProc ELSE reading
  /\ UNCHANGED <<joined, socketSet, spins, up, serverVars, topicVars, source, torn>>

\* A length that wraps to 0: nothing is written and nothing removed, for ever.
ForwardForever ==
  /\ inLoop
  /\ buf[1].part # "head"
  /\ spins' = TRUE
  /\ expected' = {e \in expected : home[source[e[1]]] = home[e[2]]}
  /\ UNCHANGED <<joined, socketSet, reading, buf, up, down, serverVars, topicVars,
                 source, torn>>

\* waitForReadyRead(100) in time, for the rest of a frame.
incomplete == inLoop /\ \E f \in FrontFrames : f[2] > Len(buf)

ReadMore ==
  /\ incomplete
  /\ takeFrom(reading)
  /\ UNCHANGED <<joined, socketSet, reading, spins, down, serverVars, topicVars, source,
                 expected, torn>>

\* "Manager frame too short"
TooShort ==
  /\ incomplete
  /\ reading' = NoProc /\ buf' = <<>>
  /\ torn' = torn \cup ({reading} \cap joined)
  /\ expected' = {e \in expected : home[source[e[1]]] # reading \/ home[e[2]] = reading}
  /\ UNCHANGED <<joined, socketSet, spins, up, down, serverVars, topicVars, source>>

handleDisconnect(p) ==
  /\ reading = NoProc
  /\ p \in socketSet \ joined /\ up[p] = <<>>
  /\ socketSet' = socketSet \ {p}
  /\ UNCHANGED <<joined, reading, buf, spins, up, down, serverVars, topicVars, source,
                 expected, torn>>

-----------------------------------------------------------------------------
Server(p) ==
  writeBus(p) \/ readBus(p) \/ recvAllForever(p) \/ get(p) \/ pass(p) \/ publish(p)
Worker(s) ==
  \/ \E flag \in Flags : Subscribe(s, flag)
  \/ Unsubscribe(s) \/ PublishSend(s) \/ PublishLocal(s)
Handler(p) == acceptConnection(p) \/ readSocket(p) \/ handleDisconnect(p)
InReadSocket == Forward \/ ForwardForever \/ ReadMore \/ TooShort

Next ==
  \/ \E p \in Procs : Join(p) \/ Leave(p) \/ Server(p) \/ Handler(p)
  \/ \E s \in Socks : Worker(s)
  \/ InReadSocket

Fairness ==
  /\ WF_vars(InReadSocket)
  /\ \A p \in Procs : WF_vars(Server(p)) /\ WF_vars(Handler(p))
  /\ \A s \in Socks : WF_vars(PublishLocal(s))

Spec == Init /\ [][Next]_vars
FairSpec == Spec /\ Fairness

-----------------------------------------------------------------------------
(* Properties *)

\* A websocket gets no message twice, those of one websocket in the order in
\* which they were published, and those of another server in the order in which
\* that server sent them, whatever pieces are lost.
InOrder ==
  \A s \in Socks : \A i, j \in DOMAIN received[s] :
    LET m == received[s][i]
        n == received[s][j]
    IN /\ i # j => m # n
       /\ i < j /\ \/ source[m] = source[n]
                   \/ home[source[m]] = home[source[n]] /\ home[source[m]] # home[s]
          => m < n

\* A websocket gets its own message only from publish() itself, and only if it
\* has subscribed for that: never a second time from the bus, and none that was
\* published before it subscribed anew.
OwnMessage ==
  [][\A s \in Socks : Len(received'[s]) > Len(received[s]) =>
       LET m == received'[s][Len(received'[s])]
       IN source[m] = s => publishing[s] = m /\ subscribers[s] = "local"]_vars

\* Who has subscribed when a message is published, and stays, gets it: unless
\* its server or that of the sender dies or hangs, the daemon dropped a part of a
\* frame of the sender's server, or goes round for ever, or sent its server a
\* fragment after which that server is not in step again. Otherwise what one
\* server loses costs no other server.
Delivered ==
  \A m \in Messages, s \in Socks : <<m, s>> \in expected ~> <<m, s>> \notin expected
=============================================================================
