--------------------------- MODULE SystemBusProofs ---------------------------
(***************************************************************************)
(* Proofs about SystemBus for every set of servers and websockets and      *)
(* every number of messages: type correctness, that the bus never brings a *)
(* websocket its own message, and that messages arrive once and in order.  *)
(***************************************************************************)
EXTENDS SystemBus, SequenceTheorems, TLAPS

(* Sequences *)

\* Half of a number, rounded down.
LEMMA Half ==
  ASSUME NEW n \in Nat
  PROVE  /\ n \div 2 \in Nat
         /\ 2 * (n \div 2) <= n /\ n <= 2 * (n \div 2) + 1
BY Z3

\* An odd position is that of a header, an even one that of a tail.
LEMMA OddOrEven ==
  ASSUME NEW i \in Nat
  PROVE  /\ (i + 1) \div 2 \in Nat
         /\ \/ i = 2 * ((i + 1) \div 2) - 1 /\ i % 2 = 1
            \/ i = 2 * ((i + 1) \div 2) /\ i % 2 = 0
<1>1. i % 2 \in 0..1 /\ i = 2 * (i \div 2) + (i % 2) /\ i \div 2 \in Nat
  BY Z3
<1>2. /\ (i + 1) \div 2 \in Nat
      /\ 2 * ((i + 1) \div 2) <= i + 1 /\ i + 1 <= 2 * ((i + 1) \div 2) + 1
  BY Z3
<1> QED
  BY <1>1, <1>2, Z3

\* A number of elements, from any place.
LEMMA PieceType ==
  ASSUME NEW S, NEW s \in Seq(S), NEW m \in Nat \ {0}, NEW n \in Nat, n <= Len(s)
  PROVE  /\ SubSeq(s, m, n) \in Seq(S)
         /\ Len(SubSeq(s, m, n)) = IF m <= n THEN n - m + 1 ELSE 0
         /\ \A i \in 1..(n - m + 1) : SubSeq(s, m, n)[i] = s[m + i - 1]
<1>1. \A i \in m..n : s[i] \in S
  BY ElementOfSeq
<1> QED
  BY <1>1, SubSeqProperties

\* A frame is two parts.
LEMMA FrameType ==
  ASSUME NEW m \in -1..MaxMessages
  PROVE  /\ frame(m) \in Seq(Part) /\ Len(frame(m)) = 2
         /\ frame(m)[1] = [msg |-> m, part |-> "head"]
         /\ frame(m)[2] = [msg |-> m, part |-> "tail"]
BY DEF frame, Part

\* send(): the parts of the frames of some messages, one frame after the other.
LEMMA FramesType ==
  ASSUME NEW ms \in Seq(Messages)
  PROVE  /\ frames(ms) \in Seq(Part) /\ Len(frames(ms)) = 2 * Len(ms)
         /\ \A i \in DOMAIN frames(ms) :
              \E k \in DOMAIN ms :
                /\ frames(ms)[i].msg = ms[k]
                /\ \/ i = 2 * k - 1 /\ frames(ms)[i].part = "head"
                   \/ i = 2 * k /\ frames(ms)[i].part = "tail"
<1> DEFINE half(i) == (i + 1) \div 2
<1>0. Len(ms) \in Nat
  BY LenProperties
<1>1. \A i \in 1..(2 * Len(ms)) :
        /\ half(i) \in 1..Len(ms)
        /\ \/ i = 2 * half(i) - 1 /\ i % 2 = 1
           \/ i = 2 * half(i) /\ i % 2 = 0
  <2> TAKE i \in 1..(2 * Len(ms))
  <2> QED
    BY <1>0, OddOrEven
<1>2. \A i \in 1..(2 * Len(ms)) : ms[half(i)] \in Messages
  BY <1>1
<1>3. \A i \in 1..(2 * Len(ms)) :
        /\ frame(ms[half(i)])[2 - (i % 2)] \in Part
        /\ frame(ms[half(i)])[2 - (i % 2)].msg = ms[half(i)]
        /\ i % 2 = 1 => frame(ms[half(i)])[2 - (i % 2)].part = "head"
        /\ i % 2 = 0 => frame(ms[half(i)])[2 - (i % 2)].part = "tail"
  <2> TAKE i \in 1..(2 * Len(ms))
  <2> DEFINE m == ms[half(i)]
  <2>1. m \in 1..MaxMessages
    BY <1>2 DEF Messages
  <2>2. i % 2 = 1 \/ i % 2 = 0
    BY <1>1
  <2> HIDE DEF m
  <2>3. frame(m)[2 - 1] = [msg |-> m, part |-> "head"]
        /\ frame(m)[2 - 0] = [msg |-> m, part |-> "tail"]
    BY <2>1 DEF frame
  <2>4. /\ frame(m)[2 - (i % 2)] \in Part
        /\ frame(m)[2 - (i % 2)].msg = m
        /\ i % 2 = 1 => frame(m)[2 - (i % 2)].part = "head"
        /\ i % 2 = 0 => frame(m)[2 - (i % 2)].part = "tail"
    BY <2>1, <2>2, <2>3 DEF Part
  <2> QED
    BY <2>4 DEF m
<1>4. Len(frames(ms)) = 2 * Len(ms) /\ DOMAIN frames(ms) = 1..(2 * Len(ms))
  BY DEF frames
<1>5. \A i \in 1..(2 * Len(ms)) : frames(ms)[i] = frame(ms[half(i)])[2 - (i % 2)]
  BY DEF frames
<1>6. frames(ms) \in Seq(Part)
  BY <1>3 DEF frames
<1>7. ASSUME NEW i \in DOMAIN frames(ms)
      PROVE  \E k \in DOMAIN ms :
               /\ frames(ms)[i].msg = ms[k]
               /\ \/ i = 2 * k - 1 /\ frames(ms)[i].part = "head"
                  \/ i = 2 * k /\ frames(ms)[i].part = "tail"
  <2>1. i \in 1..(2 * Len(ms))
    BY <1>4, <1>7
  <2>2. half(i) \in DOMAIN ms
    BY <1>1, <2>1, LenProperties
  <2>3. /\ frames(ms)[i].msg = ms[half(i)]
        /\ i % 2 = 1 => frames(ms)[i].part = "head"
        /\ i % 2 = 0 => frames(ms)[i].part = "tail"
    BY <1>3, <1>5, <2>1
  <2>4. \/ i = 2 * half(i) - 1 /\ i % 2 = 1
        \/ i = 2 * half(i) /\ i % 2 = 0
    BY <1>1, <2>1
  <2> HIDE DEF half
  <2> QED
    BY <2>2, <2>3, <2>4
<1> QED
  BY <1>4, <1>6, <1>7

-----------------------------------------------------------------------------
(* Type correctness *)

\* readSocket() runs as long as its buffer has something.
Reading == reading = NoProc <=> buf = <<>>

\* receiveSystemBus() has a topic for a message of a whole frame.
Holding ==
  \A p \in Procs : pub[p] # "null" => pending[p] # <<>> /\ Head(pending[p]) \in Messages

TypeInv == TypeOK /\ Reading /\ Holding

\* readAll() leaves the daemon with something in its buffer.
LEMMA TakeType ==
  ASSUME TypeInv, NEW p \in Procs, takeFrom(p)
  PROVE  /\ up' \in [Procs -> Seq(Part)]
         /\ buf' \in Seq(Part) /\ buf' # <<>>
         /\ reading' = p => Reading'
<1>0. up \in [Procs -> Seq(Part)] /\ buf \in Seq(Part) /\ up[p] \in Seq(Part) /\ p # NoProc
  BY BusAssumption DEF TypeInv, TypeOK
<1>1. PICK n \in 1..Len(up[p]) :
        /\ buf' = buf \o SubSeq(up[p], 1, n)
        /\ up' = [up EXCEPT ![p] = SubSeq(@, n + 1, Len(@))]
  BY DEF takeFrom
<1>2. Len(up[p]) \in Nat
  BY <1>0, LenProperties
<1>3. SubSeq(up[p], 1, n) \in Seq(Part) /\ Len(SubSeq(up[p], 1, n)) = n
  BY <1>0, <1>2, PieceType
<1>4. SubSeq(up[p], n + 1, Len(up[p])) \in Seq(Part)
  BY <1>0, <1>2, PieceType
<1>5. buf' \in Seq(Part) /\ Len(buf') = Len(buf) + n /\ Len(buf) \in Nat
  BY <1>0, <1>1, <1>3, ConcatProperties, LenProperties
<1>6. buf' # <<>>
  BY <1>5, <1>2, EmptySeq
<1> QED
  BY <1>0, <1>1, <1>4, <1>5, <1>6 DEF Reading

\* What may stand at the front of the buffer of readSocket().
LEMMA FrontType ==
  ASSUME TypeInv, reading # NoProc
  PROVE  /\ Len(buf) \in Nat \ {0} /\ buf[1] \in Part
         /\ \A f \in FrontFrames : f[1] \in -1..MaxMessages /\ f[2] \in Nat \ {0}
<1>1. buf \in Seq(Part) /\ buf # <<>>
  BY DEF TypeInv, TypeOK, Reading
<1>2. Len(buf) \in Nat \ {0} /\ buf[1] \in Part
  BY <1>1, EmptySeq, ElementOfSeq
<1>3. buf[1].msg \in -1..MaxMessages
  BY <1>2 DEF Part
<1> QED
  BY <1>2, <1>3, BusAssumption DEF FrontFrames, Garbage, Fragment

\* Pub::publish() delivers messages.
LEMMA DeliverType ==
  ASSUME TypeInv, NEW m \in Messages, NEW to, deliver(m, to)
  PROVE  received' \in [Socks -> Seq(Messages)] /\ expected' \subseteq Messages \X Socks
<1>1. \A s \in Socks : Append(received[s], m) \in Seq(Messages)
  BY AppendProperties DEF TypeInv, TypeOK
<1> QED
  BY <1>1 DEF deliver, TypeInv, TypeOK

\* The types hold when nothing has started.
LEMMA TypeInit == Init => TypeInv
<1> SUFFICES ASSUME Init PROVE TypeInv
  OBVIOUS
<1>1. /\ <<>> \in Seq(Messages) /\ <<>> \in Seq(Part) /\ <<>> \in Seq(-1..MaxMessages)
      /\ <<>> \in Seq(Socks) /\ Len(<<>>) = 0 /\ 0 <= MaxMessages
  BY BusAssumption, EmptySeq
<1>2. TypeOK
  <2>1. /\ sendBuffer \in [Procs -> Seq(Messages)]
        /\ up \in [Procs -> Seq(Part)] /\ down \in [Procs -> Seq(Part)]
        /\ readBuffer \in [Procs -> Seq(Part)]
        /\ pending \in [Procs -> Seq(-1..MaxMessages)]
    BY <1>1 DEF Init
  <2>2. received \in [Socks -> Seq(Messages)] /\ source \in Seq(Socks) /\ Len(source) <= MaxMessages
    BY <1>1 DEF Init
  <2>3. spins \in BOOLEAN
    BY Zenon DEF Init
  <2> QED
    BY <1>1, <2>1, <2>2, <2>3 DEF Init, TypeOK
<1> QED
  BY <1>2 DEF TypeInv, Init, Reading, Holding

\* The main thread of a server keeps the types.
LEMMA TypeServer ==
  ASSUME TypeInv, NEW p \in Procs, Server(p)
  PROVE  TypeInv'
<1> USE DEF TypeInv, TypeOK
<1>1. CASE writeBus(p)
  <2>1. frames(sendBuffer[p]) \in Seq(Part)
    BY FramesType
  <2>2. up[p] \o frames(sendBuffer[p]) \in Seq(Part)
    BY <2>1, ConcatProperties
  <2>3. <<>> \in Seq(Messages)
    BY EmptySeq
  <2> QED
    BY <1>1, <2>2, <2>3 DEF writeBus, unwritten, daemonVars, stepVars, topicVars, Reading, Holding
<1>2. CASE readBus(p)
  <2>1. PICK n \in 1..Len(down[p]) :
          LET bytes == readBuffer[p] \o SubSeq(down[p], 1, n)
              whole == taken(bytes)
          IN /\ down' = [down EXCEPT ![p] = SubSeq(@, n + 1, Len(@))]
             /\ pending' = [pending EXCEPT ![p] = [i \in 1..whole |-> bytes[2 * i].msg]]
             /\ readBuffer' = [readBuffer EXCEPT ![p] = SubSeq(bytes, 2 * whole + 1, Len(bytes))]
    BY <1>2 DEF readBus
  <2> DEFINE bytes == readBuffer[p] \o SubSeq(down[p], 1, n)
             whole == taken(bytes)
  <2>2. Len(down[p]) \in Nat /\ down[p] \in Seq(Part) /\ readBuffer[p] \in Seq(Part)
    BY LenProperties
  <2>3. SubSeq(down[p], 1, n) \in Seq(Part)
    BY <2>2, PieceType
  <2>4. bytes \in Seq(Part)
    BY <2>2, <2>3, ConcatProperties
  <2>5. SubSeq(down[p], n + 1, Len(down[p])) \in Seq(Part)
    BY <2>2, PieceType
  <2> HIDE DEF bytes
  <2>6. Len(bytes) \in Nat /\ whole \in Nat /\ 2 * whole <= Len(bytes)
    BY <2>4, LenProperties, Half DEF taken
  <2> HIDE DEF whole
  <2>7. SubSeq(bytes, 2 * whole + 1, Len(bytes)) \in Seq(Part)
    BY <2>4, <2>6, PieceType
  <2>8. \A i \in 1..whole : bytes[2 * i].msg \in -1..MaxMessages
    <3> TAKE i \in 1..whole
    <3>1. bytes[2 * i] \in Part
      BY <2>4, <2>6, ElementOfSeq
    <3> QED
      BY <3>1 DEF Part
  <2>9. [i \in 1..whole |-> bytes[2 * i].msg] \in Seq(-1..MaxMessages)
    BY <2>6, <2>8, SeqDef
  <2>10. /\ down' \in [Procs -> Seq(Part)]
         /\ pending' \in [Procs -> Seq(-1..MaxMessages)]
         /\ readBuffer' \in [Procs -> Seq(Part)]
         /\ \A q \in Procs : q # p => pending'[q] = pending[q]
    BY <2>1, <2>5, <2>7, <2>9 DEF bytes, whole
  <2>11. pub[p] = "null"
    BY <1>2 DEF readBus, idle, Holding
  <2>12. /\ UNCHANGED <<joined, daemonVars, up, sendBuffer, pub, stepVars, topicVars, source,
                    expected, torn>>
    BY <1>2 DEF readBus
  <2>13. TypeOK'
    BY <2>10, <2>12 DEF daemonVars, stepVars, topicVars
  <2>14. Reading'
    BY <2>12 DEF Reading, daemonVars
  <2>15. Holding'
    BY <2>10, <2>11, <2>12 DEF Holding
  <2> QED
    BY <2>13, <2>14, <2>15
<1>3. CASE get(p)
  <2>1. Head(pending[p]) \in Messages /\ pending[p] # <<>>
    BY <1>3 DEF get, isValid
  <2>2. TypeOK' /\ Reading'
    BY <1>3 DEF get, daemonVars, topicVars, Reading
  <2>3. Holding'
    BY <1>3, <2>1 DEF get, Holding
  <2> QED
    BY <2>2, <2>3
<1>5. CASE pass(p)
  <2>1. pending[p] \in Seq(-1..MaxMessages) /\ pending[p] # <<>>
    BY <1>5 DEF pass
  <2>2. Tail(pending[p]) \in Seq(-1..MaxMessages)
    BY <2>1, HeadTailProperties
  <2>4. TypeOK' /\ Reading'
    BY <1>5, <2>2 DEF pass, daemonVars, topicVars, Reading
  <2>5. Holding'
    BY <1>5 DEF pass, Holding
  <2> QED
    BY <2>4, <2>5
<1>6. CASE recvAllForever(p)
  BY <1>6 DEF recvAllForever, daemonVars, topicVars, Reading, Holding
<1>4. CASE publish(p)
  <2>1. pending[p] \in Seq(-1..MaxMessages) /\ pending[p] # <<>> /\ Head(pending[p]) \in Messages
    BY <1>4 DEF publish, Holding
  <2>2. Tail(pending[p]) \in Seq(-1..MaxMessages)
    BY <2>1, HeadTailProperties
  <2>3. received' \in [Socks -> Seq(Messages)] /\ expected' \subseteq Messages \X Socks
    BY <1>4, <2>1, DeliverType DEF publish
  <2>4. TypeOK' /\ Reading'
    BY <1>4, <2>2, <2>3 DEF publish, daemonVars, stepVars, Reading
  <2>5. Holding'
    BY <1>4 DEF publish, Holding
  <2> QED
    BY <2>4, <2>5
<1> QED
  BY <1>1, <1>2, <1>3, <1>4, <1>5, <1>6 DEF Server

\* TPublisher keeps the types.
LEMMA TypeWorker ==
  ASSUME TypeInv, NEW s \in Socks, Worker(s)
  PROVE  TypeInv'
<1> USE DEF TypeInv, TypeOK
<1>0. home[s] \in Procs
  BY BusAssumption
<1>1. CASE \E flag \in Flags : Subscribe(s, flag)
  BY SMTT(60), <1>1, BusAssumption DEF Subscribe, daemonVars, serverVars, stepVars, Reading, Holding
<1>2. CASE Unsubscribe(s)
  BY <1>2 DEF Unsubscribe, daemonVars, stepVars, Reading, Holding
<1>3. CASE PublishSend(s)
  <2> DEFINE m == Len(source) + 1
  <2>1. Len(source) \in Nat /\ Len(source) < MaxMessages
    BY <1>3, LenProperties DEF PublishSend
  <2>2. m \in Messages
    BY <2>1, BusAssumption DEF Messages
  <2>3. /\ Append(source, s) \in Seq(Socks)
        /\ Len(Append(source, s)) = m
    BY AppendProperties
  <2>4. Append(sendBuffer[home[s]], m) \in Seq(Messages)
    BY <1>0, <2>2, AppendProperties
  <2>5. /\ source' = Append(source, s)
        /\ publishing' = [publishing EXCEPT ![s] = m]
        /\ sendBuffer' = [sendBuffer EXCEPT ![home[s]] = Append(@, m)]
        /\ expected' \subseteq Messages \X Socks
    BY <1>3, <2>2 DEF PublishSend, Subscribed
  <2> HIDE DEF m
  <2>6. m <= MaxMessages
    BY <2>1, BusAssumption DEF m
  <2>7. /\ sendBuffer' \in [Procs -> Seq(Messages)]
        /\ publishing' \in [Socks -> Messages \cup {0}]
        /\ source' \in Seq(Socks) /\ Len(source') <= MaxMessages
    BY <1>0, <2>2, <2>3, <2>4, <2>5, <2>6
  <2>8. TypeOK'
    BY <1>3, <2>5, <2>7 DEF PublishSend, daemonVars, stepVars
  <2> QED
    BY <1>3, <2>8 DEF PublishSend, daemonVars, stepVars, Reading, Holding
<1>4. CASE PublishLocal(s)
  <2>1. publishing[s] \in Messages
    BY <1>4 DEF PublishLocal
  <2>2. received' \in [Socks -> Seq(Messages)] /\ expected' \subseteq Messages \X Socks
    BY <1>4, <2>1, DeliverType DEF PublishLocal
  <2> QED
    BY <1>4, <2>2 DEF PublishLocal, daemonVars, serverVars, stepVars, Reading, Holding
<1> QED
  BY <1>1, <1>2, <1>3, <1>4 DEF Worker

\* The daemon keeps the types.
LEMMA TypeDaemon ==
  ASSUME TypeInv, InReadSocket \/ \E p \in Procs : Handler(p)
  PROVE  TypeInv'
<1> USE DEF TypeInv, TypeOK
<1>1. ASSUME NEW p \in Procs, acceptConnection(p) \/ handleDisconnect(p)
      PROVE  TypeInv'
  BY <1>1 DEF acceptConnection, handleDisconnect, serverVars, stepVars, topicVars, Reading, Holding
<1>2. ASSUME NEW p \in Procs, readSocket(p)
      PROVE  TypeInv'
  <2>1. up' \in [Procs -> Seq(Part)] /\ buf' \in Seq(Part) /\ Reading'
    BY <1>2, TakeType DEF readSocket
  <2> QED
    BY <1>2, <2>1 DEF readSocket, serverVars, stepVars, topicVars, Holding
<1>3. CASE Forward
  <2>1. PICK f \in FrontFrames :
          /\ f[2] <= Len(buf)
          /\ down' = [p \in Procs |-> IF p \in others \cap joined
                                        THEN down[p] \o frame(f[1]) ELSE down[p]]
          /\ buf' = SubSeq(buf, f[2] + 1, Len(buf))
    BY <1>3 DEF Forward
  <2>2. f[1] \in -1..MaxMessages /\ f[2] \in Nat \ {0} /\ Len(buf) \in Nat
    BY <1>3, <2>1, FrontType DEF Forward, inLoop
  <2>3. buf' \in Seq(Part)
    BY <2>1, <2>2, PieceType
  <2>4. \A p \in Procs : down[p] \o frame(f[1]) \in Seq(Part)
    BY <2>2, FrameType, ConcatProperties
  <2>5. down' \in [Procs -> Seq(Part)]
    BY <2>1, <2>4
  <2>6. reading' = (IF buf' = <<>> THEN NoProc ELSE reading) /\ reading # NoProc
    BY <1>3 DEF Forward, inLoop
  <2>7. expected' \subseteq expected
    BY <1>3 DEF Forward
  <2> QED
    BY <1>3, <2>3, <2>5, <2>6, <2>7 DEF Forward, serverVars, stepVars, topicVars, Reading, Holding
<1>6. CASE ForwardForever
  <2>1. expected' \subseteq expected
    BY <1>6 DEF ForwardForever
  <2> QED
    BY <1>6, <2>1 DEF ForwardForever, serverVars, stepVars, topicVars, Reading, Holding
<1>4. CASE ReadMore
  <2>1. reading \in Procs /\ reading' = reading
    BY <1>4 DEF ReadMore, incomplete, inLoop
  <2>2. up' \in [Procs -> Seq(Part)] /\ buf' \in Seq(Part) /\ Reading'
    BY <1>4, <2>1, TakeType DEF ReadMore
  <2> QED
    BY <1>4, <2>2 DEF ReadMore, serverVars, stepVars, topicVars, Holding
<1>5. CASE TooShort
  <2>1. <<>> \in Seq(Part)
    BY EmptySeq
  <2> QED
    BY <1>5, <2>1 DEF TooShort, serverVars, stepVars, topicVars, Reading, Holding
<1> QED
  BY <1>1, <1>2, <1>3, <1>4, <1>5, <1>6 DEF InReadSocket, Handler

\* A server that starts or dies keeps the types.
LEMMA TypeProcess ==
  ASSUME TypeInv, NEW p \in Procs, Join(p) \/ Leave(p)
  PROVE  TypeInv'
<1> USE DEF TypeInv, TypeOK
<1>1. CASE Join(p)
  BY <1>1 DEF Join, daemonVars, serverVars, stepVars, topicVars, Reading, Holding
<1>2. CASE Leave(p)
  <2>1. PICK n \in 0..Len(up[p]) : up' = [up EXCEPT ![p] = SubSeq(up[p], 1, n)]
    BY <1>2 DEF Leave
  <2>2. Len(up[p]) \in Nat
    BY LenProperties
  <2>3. SubSeq(up[p], 1, n) \in Seq(Part)
    BY <2>2, PieceType
  <2>4. /\ <<>> \in Seq(Part) /\ <<>> \in Seq(Messages)
        /\ <<>> \in Seq(-1..MaxMessages)
    BY EmptySeq
  <2>5. TypeOK'
    BY <1>2, <2>1, <2>3, <2>4 DEF Leave, daemonVars
  <2>6. Reading'
    BY <1>2 DEF Leave, daemonVars, Reading
  <2>7. Holding'
    BY <1>2 DEF Leave, Holding
  <2> QED
    BY <2>5, <2>6, <2>7
<1> QED
  BY <1>1, <1>2

\* Every step keeps the types.
LEMMA TypeStep ==
  ASSUME TypeInv, [Next]_vars
  PROVE  TypeInv'
<1>1. CASE UNCHANGED vars
  BY <1>1 DEF vars, daemonVars, serverVars, stepVars, topicVars, TypeInv, TypeOK, Reading, Holding
<1>2. CASE Next
  BY <1>2, TypeServer, TypeWorker, TypeDaemon, TypeProcess DEF Next
<1> QED
  BY <1>1, <1>2

\* Every variable keeps its type (TypeOK), in every reachable state.
THEOREM SpecTypeOK == Spec => []TypeOK
<1>1. Spec => []TypeInv
  BY TypeInit, TypeStep, PTL DEF Spec
<1>2. TypeInv => TypeOK
  BY DEF TypeInv
<1> QED
  BY <1>1, <1>2, PTL

-----------------------------------------------------------------------------
(* What is on the way *)

\* The parts of a server's frames that the daemon has not forwarded.
bytes(p) == (IF reading = p THEN buf ELSE <<>>) \o up[p]

\* What the daemon has sent to a server, and the messages in it that the server
\* has not dealt with.
wire(p) == readBuffer[p] \o down[p]
whole(w) == [i \in 1..(Len(w) \div 2) |-> w[2 * i].msg]
due(p) == pending[p] \o whole(wire(p))

\* The daemon sends whole frames, and fragments, which have two parts as well.
Even == \A p \in Procs : \E k \in Nat : Len(wire(p)) = 2 * k

\* Some consecutive elements of b.
Piece(a, b) ==
  \E k \in Nat : \A i \in DOMAIN a : i + k \in DOMAIN b /\ a[i] = b[i + k]

\* A sequence and the empty sequence are pieces of it.
LEMMA PieceSame ==
  ASSUME NEW S, NEW a \in Seq(S)
  PROVE  Piece(a, a) /\ Piece(<<>>, a)
<1>1. \A i \in DOMAIN a : i + 0 \in DOMAIN a /\ a[i] = a[i + 0]
  BY LenProperties
<1>2. DOMAIN <<>> = {}
  OBVIOUS
<1> QED
  BY <1>1, <1>2 DEF Piece

\* The messages of the whole frames of w.
LEMMA WholeType ==
  ASSUME NEW w \in Seq(Part)
  PROVE  /\ whole(w) \in Seq(-1..MaxMessages)
         /\ Len(whole(w)) = Len(w) \div 2
         /\ \A i \in 1..(Len(w) \div 2) : whole(w)[i] = w[2 * i].msg
<1>1. Len(w) \div 2 \in Nat /\ 2 * (Len(w) \div 2) <= Len(w) /\ Len(w) \in Nat
  BY Half, LenProperties
<1>2. \A i \in 1..(Len(w) \div 2) : w[2 * i].msg \in -1..MaxMessages
  <2> TAKE i \in 1..(Len(w) \div 2)
  <2>1. w[2 * i] \in Part
    BY <1>1, ElementOfSeq
  <2> QED
    BY <2>1 DEF Part
<1> QED
  BY <1>1, <1>2, SeqDef DEF whole

\* What is on the way has the types of what it is made of.
LEMMA WayType ==
  ASSUME TypeInv, NEW p \in Procs
  PROVE  bytes(p) \in Seq(Part) /\ wire(p) \in Seq(Part) /\ due(p) \in Seq(-1..MaxMessages)
<1>1. bytes(p) \in Seq(Part)
  BY ConcatProperties, EmptySeq DEF TypeInv, TypeOK, bytes
<1>2. wire(p) \in Seq(Part)
  BY ConcatProperties DEF TypeInv, TypeOK, wire
<1>3. due(p) \in Seq(-1..MaxMessages)
  BY <1>2, WholeType, ConcatProperties DEF TypeInv, TypeOK, due
<1> QED
  BY <1>1, <1>2, <1>3

\* What only shortens: nothing is new.
Shrink ==
  /\ source' = source /\ Even'
  /\ \A p \in Procs :
       /\ Piece(sendBuffer'[p], sendBuffer[p])
       /\ Piece(bytes(p)', bytes(p))
       /\ Piece(due(p)', due(p))
  /\ \A s \in Socks :
       /\ publishing'[s] \in {publishing[s], 0}
       /\ received'[s] \in {received[s], <<>>}

\* What does not change is a piece of itself.
LEMMA ShrinkSame ==
  ASSUME TypeInv, NEW p \in Procs
  PROVE  /\ Piece(sendBuffer[p], sendBuffer[p]) /\ Piece(<<>>, sendBuffer[p])
         /\ Piece(bytes(p), bytes(p)) /\ Piece(due(p), due(p)) /\ Piece(<<>>, due(p))
<1>1. sendBuffer[p] \in Seq(Messages)
  BY DEF TypeInv, TypeOK
<1> QED
  BY <1>1, WayType, PieceSame

\* A step that touches neither the frames nor the messages.
LEMMA ShrinkQuiet ==
  ASSUME TypeInv, Even,
         UNCHANGED <<source, sendBuffer, publishing, received, reading, buf, up,
                     readBuffer, down, pending>>
  PROVE  Shrink
<1>1. \A p \in Procs : UNCHANGED <<bytes(p), due(p), wire(p)>>
  BY DEF bytes, due, wire
<1> QED
  BY <1>1, ShrinkSame DEF Shrink, Even

\* Half of a number to which an even one is added.
LEMMA Halves ==
  ASSUME NEW k \in Nat, NEW n \in Nat
  PROVE  (2 * k + n) \div 2 = k + (n \div 2)
<1>1. n \div 2 \in Nat /\ 2 * (n \div 2) <= n /\ n <= 2 * (n \div 2) + 1
  BY Half
<1>2. 2 * k + n \in Nat
  OBVIOUS
<1>3. /\ (2 * k + n) \div 2 \in Nat
      /\ 2 * ((2 * k + n) \div 2) <= 2 * k + n /\ 2 * k + n <= 2 * ((2 * k + n) \div 2) + 1
  BY <1>2, Half
<1> QED
  BY <1>1, <1>3

\* Concatenation is associative.
LEMMA Rejoin ==
  \A a, x, y \in Seq(Part) : (a \o x) \o y = a \o (x \o y)
BY ConcatAssociative

\* A sequence cut in two, behind another.
LEMMA Cut ==
  \A a, b \in Seq(Part) : \A n \in 1..Len(b) :
    LET x == SubSeq(b, 1, n)
        y == SubSeq(b, n + 1, Len(b))
    IN x \in Seq(Part) /\ y \in Seq(Part) /\ (a \o x) \o y = a \o b
<1> TAKE a, b \in Seq(Part)
<1> TAKE n \in 1..Len(b)
<1> DEFINE x == SubSeq(b, 1, n)
           y == SubSeq(b, n + 1, Len(b))
<1>1. Len(b) \in Nat
  BY LenProperties
<1>2. x \in Seq(Part) /\ y \in Seq(Part)
  BY <1>1, PieceType
<1>3. x \o y = SubSeq(b, 1, Len(b))
  BY <1>1, ConcatAdjacentSubSeq
<1>4. x \o y = b
  BY <1>3, SubSeqFull
<1> HIDE DEF x, y
<1>5. (a \o x) \o y = a \o (x \o y)
  BY <1>2, Rejoin
<1> QED
  BY <1>2, <1>4, <1>5 DEF x, y

\* Taking k frames from the front of what is on the wire.
LEMMA WholeSplit ==
  ASSUME NEW a \in Seq(Part), NEW r \in Seq(Part), NEW k \in Nat, 2 * k <= Len(a)
  PROVE  LET rest == SubSeq(a, 2 * k + 1, Len(a)) \o r
             front == [i \in 1..k |-> a[2 * i].msg]
         IN /\ front \in Seq(-1..MaxMessages)
            /\ Len(rest) = Len(a \o r) - 2 * k
            /\ front \o whole(rest) = whole(a \o r)
<1> DEFINE tail == SubSeq(a, 2 * k + 1, Len(a))
           rest == tail \o r
           front == [i \in 1..k |-> a[2 * i].msg]
           all == a \o r
<1>1. Len(a) \in Nat /\ Len(r) \in Nat
  BY LenProperties
<1>2. /\ tail \in Seq(Part) /\ Len(tail) = Len(a) - 2 * k
      /\ \A i \in 1..Len(tail) : tail[i] = a[2 * k + i]
  <2>1. /\ tail \in Seq(Part)
        /\ Len(tail) = IF 2 * k + 1 <= Len(a) THEN Len(a) - (2 * k + 1) + 1 ELSE 0
        /\ \A i \in 1..(Len(a) - (2 * k + 1) + 1) : tail[i] = a[(2 * k + 1) + i - 1]
    BY <1>1, PieceType
  <2> HIDE DEF tail
  <2>2. Len(tail) = Len(a) - 2 * k
    <3>1. CASE 2 * k + 1 <= Len(a)
      BY <1>1, <2>1, <3>1
    <3>2. CASE 2 * k = Len(a)
      <4>1. ~(2 * k + 1 <= Len(a)) /\ Len(a) - 2 * k = 0
        BY <1>1, <3>2
      <4> QED
        BY <2>1, <4>1
    <3> QED
      BY <1>1, <3>1, <3>2
  <2>3. \A i \in 1..Len(tail) : (2 * k + 1) + i - 1 = 2 * k + i
    BY <1>1, <2>2
  <2>4. Len(a) - (2 * k + 1) + 1 = Len(tail)
    BY <1>1, <2>2
  <2> QED
    BY <2>1, <2>2, <2>3, <2>4
<1>3. \A i \in 1..k : a[2 * i].msg \in -1..MaxMessages
  <2> TAKE i \in 1..k
  <2>1. a[2 * i] \in Part
    BY <1>1, ElementOfSeq
  <2> QED
    BY <2>1 DEF Part
<1>4. front \in Seq(-1..MaxMessages) /\ Len(front) = k /\ \A i \in 1..k : front[i] = a[2 * i].msg
  BY <1>3, SeqDef
<1> HIDE DEF tail, front
<1>5. /\ rest \in Seq(Part) /\ Len(rest) = Len(tail) + Len(r)
      /\ \A i \in 1..(Len(tail) + Len(r)) :
           rest[i] = IF i <= Len(tail) THEN tail[i] ELSE r[i - Len(tail)]
  BY <1>2, ConcatProperties
<1>6. /\ all \in Seq(Part) /\ Len(all) = Len(a) + Len(r)
      /\ \A i \in 1..(Len(a) + Len(r)) : all[i] = IF i <= Len(a) THEN a[i] ELSE r[i - Len(a)]
  BY ConcatProperties
<1> HIDE DEF rest, all
<1> DEFINE h == Len(rest) \div 2
<1>7. Len(rest) = Len(all) - 2 * k /\ Len(rest) \in Nat
  BY <1>1, <1>2, <1>5, <1>6
<1>8. Len(all) \div 2 = k + h
  <2>1. Len(all) = 2 * k + Len(rest)
    BY <1>1, <1>6, <1>7
  <2> QED
    BY <1>7, <2>1, Halves
<1>9. h \in Nat /\ 2 * h <= Len(rest)
  BY <1>7, Half
<1>10. /\ whole(rest) \in Seq(-1..MaxMessages) /\ Len(whole(rest)) = h
       /\ \A i \in 1..h : whole(rest)[i] = rest[2 * i].msg
  BY <1>5, WholeType
<1>11. /\ whole(all) \in Seq(-1..MaxMessages) /\ Len(whole(all)) = k + h
       /\ \A i \in 1..(k + h) : whole(all)[i] = all[2 * i].msg
  BY <1>6, <1>8, WholeType
<1> HIDE DEF h
<1> DEFINE both == front \o whole(rest)
<1>12. /\ both \in Seq(-1..MaxMessages) /\ Len(both) = k + h
       /\ \A i \in 1..(k + h) : both[i] = IF i <= k THEN front[i] ELSE whole(rest)[i - k]
  <2> DEFINE z == whole(rest)
  <2>1. /\ front \in Seq(-1..MaxMessages) /\ z \in Seq(-1..MaxMessages)
        /\ Len(front) = k /\ Len(z) = h
    BY <1>4, <1>10
  <2> HIDE DEF z
  <2>2. /\ front \o z \in Seq(-1..MaxMessages) /\ Len(front \o z) = Len(front) + Len(z)
        /\ \A i \in 1..(Len(front) + Len(z)) :
             (front \o z)[i] = IF i <= Len(front) THEN front[i] ELSE z[i - Len(front)]
    BY <2>1, ConcatProperties
  <2> QED
    BY <2>1, <2>2 DEF z
<1> HIDE DEF both
<1>13. ASSUME NEW i \in 1..(k + h)
       PROVE  both[i] = whole(all)[i]
  <2>1. whole(all)[i] = all[2 * i].msg
    BY <1>11
  <2>2. CASE i <= k
    <3>1. all[2 * i] = a[2 * i]
      BY <1>1, <1>6, <1>9, <2>2
    <3>2. both[i] = a[2 * i].msg
      BY <1>4, <1>12, <2>2
    <3> QED
      BY <2>1, <3>1, <3>2
  <2>3. CASE i > k
    <3>1. i - k \in 1..h /\ 2 * (i - k) \in 1..Len(rest)
      BY <1>7, <1>9, <2>3
    <3>2. both[i] = rest[2 * (i - k)].msg
      BY <1>10, <1>12, <2>3, <3>1
    <3>3. CASE 2 * (i - k) <= Len(tail)
      <4>1. rest[2 * (i - k)] = tail[2 * (i - k)]
        BY <1>5, <3>1, <3>3
      <4>2. tail[2 * (i - k)] = a[2 * k + 2 * (i - k)]
        BY <1>2, <3>1, <3>3
      <4>3. 2 * k + 2 * (i - k) = 2 * i /\ 2 * i <= Len(a) /\ 2 * i \in 1..(Len(a) + Len(r))
        BY <1>1, <1>2, <3>1, <3>3
      <4>4. all[2 * i] = a[2 * i]
        BY <1>6, <4>3
      <4> QED
        BY <2>1, <3>2, <4>1, <4>2, <4>3, <4>4
    <3>4. CASE 2 * (i - k) > Len(tail)
      <4>1. rest[2 * (i - k)] = r[2 * (i - k) - Len(tail)]
        BY <1>1, <1>2, <1>5, <3>1, <3>4
      <4>2. /\ 2 * (i - k) - Len(tail) = 2 * i - Len(a) /\ 2 * i > Len(a)
            /\ 2 * i \in 1..(Len(a) + Len(r))
        BY <1>1, <1>2, <1>5, <3>1, <3>4
      <4>3. all[2 * i] = r[2 * i - Len(a)]
        BY <1>1, <1>6, <4>2
      <4> QED
        BY <2>1, <3>2, <4>1, <4>2, <4>3
    <3>5. Len(tail) \in Nat /\ 2 * (i - k) \in Nat
      BY <1>2, <3>1, LenProperties
    <3> QED
      BY <3>3, <3>4, <3>5
  <2>4. i \in Nat
    BY <1>9
  <2> QED
    BY <2>2, <2>3, <2>4
<1>14. both = whole(all)
  BY <1>11, <1>12, <1>13, SeqEqual
<1> QED
  BY <1>4, <1>7, <1>14 DEF rest, front, all, tail, both

-----------------------------------------------------------------------------
(* The order of the messages on the way *)

Sent(m) == m \in 1..Len(source)
origin(m) == home[source[m]]

\* Every message on the way comes from the server it seems to come from.
Known ==
  /\ \A p \in Procs : \A i \in DOMAIN sendBuffer[p] :
       Sent(sendBuffer[p][i]) /\ origin(sendBuffer[p][i]) = p
  /\ \A p \in Procs : \A i \in DOMAIN bytes(p) :
       Sent(bytes(p)[i].msg) /\ origin(bytes(p)[i].msg) = p
  /\ \A p \in Procs : \A i \in DOMAIN due(p) :
       due(p)[i] > 0 => Sent(due(p)[i]) /\ origin(due(p)[i]) # p
  /\ \A s \in Socks : publishing[s] # 0 => Sent(publishing[s]) /\ source[publishing[s]] = s
  /\ \A s \in Socks : \A i \in DOMAIN received[s] : Sent(received[s][i])

\* From a server to the daemon.
Upstream ==
  \A p \in Procs :
    /\ \A i, j \in DOMAIN sendBuffer[p] : i < j => sendBuffer[p][i] < sendBuffer[p][j]
    /\ \A i, j \in DOMAIN bytes(p) :
         i < j /\ bytes(p)[i].part = "head" /\ bytes(p)[j].part = "head"
           => bytes(p)[i].msg < bytes(p)[j].msg
    /\ \A i \in DOMAIN bytes(p), j \in DOMAIN sendBuffer[p] : bytes(p)[i].msg < sendBuffer[p][j]

\* What its server has still to send of a message that the daemon forwarded is
\* younger.
Ahead(m) ==
  \A p \in Procs : origin(m) = p =>
    /\ \A i \in DOMAIN bytes(p) : bytes(p)[i].part = "head" => m < bytes(p)[i].msg
    /\ \A i \in DOMAIN sendBuffer[p] : m < sendBuffer[p][i]

\* From the daemon to a server, and to its websockets.
Downstream ==
  /\ \A p \in Procs : \A i \in DOMAIN due(p) : due(p)[i] > 0 =>
       /\ Ahead(due(p)[i])
       /\ \A j \in DOMAIN due(p) :
            i < j /\ due(p)[j] > 0 /\ origin(due(p)[i]) = origin(due(p)[j])
              => due(p)[i] < due(p)[j]
  /\ \A p \in Procs, s \in Socks : home[s] = p =>
       \A i \in DOMAIN received[s] : origin(received[s][i]) # p =>
         /\ Ahead(received[s][i])
         /\ \A j \in DOMAIN due(p) :
              due(p)[j] > 0 /\ origin(received[s][i]) = origin(due(p)[j])
                => received[s][i] < due(p)[j]

\* Within a server.
Local ==
  \A s, t \in Socks : publishing[t] # 0 /\ home[s] = home[t] =>
    \A i \in DOMAIN received[s] : source[received[s][i]] = t => received[s][i] < publishing[t]

OrderInv == TypeInv /\ Even /\ Known /\ Upstream /\ Downstream /\ Local /\ InOrder

\* The positions of what is on the way.
LEMMA WayDomains ==
  ASSUME TypeInv, NEW p \in Procs
  PROVE  /\ DOMAIN bytes(p) = 1..Len(bytes(p)) /\ Len(bytes(p)) \in Nat
         /\ DOMAIN due(p) = 1..Len(due(p)) /\ Len(due(p)) \in Nat
         /\ DOMAIN sendBuffer[p] = 1..Len(sendBuffer[p]) /\ Len(sendBuffer[p]) \in Nat
<1>1. sendBuffer[p] \in Seq(Messages)
  BY DEF TypeInv, TypeOK
<1> QED
  BY <1>1, WayType, LenProperties

\* In the next state, too.
LEMMA WayDomainsNext ==
  ASSUME NEW p \in Procs
  PROVE  TypeInv' =>
           (/\ DOMAIN bytes(p) = 1..Len(bytes(p)) /\ Len(bytes(p)) \in Nat
            /\ DOMAIN due(p) = 1..Len(due(p)) /\ Len(due(p)) \in Nat
            /\ DOMAIN sendBuffer[p] = 1..Len(sendBuffer[p]) /\ Len(sendBuffer[p]) \in Nat)'
<1>1. TypeInv => /\ DOMAIN bytes(p) = 1..Len(bytes(p)) /\ Len(bytes(p)) \in Nat
                 /\ DOMAIN due(p) = 1..Len(due(p)) /\ Len(due(p)) \in Nat
                 /\ DOMAIN sendBuffer[p] = 1..Len(sendBuffer[p]) /\ Len(sendBuffer[p]) \in Nat
  BY WayDomains
<1> QED
  BY <1>1, PTL

\* A step that only shortens keeps the order.
LEMMA OrderShrink ==
  ASSUME OrderInv, TypeInv', Shrink
  PROVE  OrderInv'
<1> USE DEF OrderInv
<1>1. \A s \in Socks : home[s] \in Procs
  BY BusAssumption
<1>2. \A s \in Socks : received'[s] = received[s] \/ DOMAIN received'[s] = {}
  BY DEF Shrink
<1>3. \A m : (Sent(m)' <=> Sent(m)) /\ origin(m)' = origin(m)
  BY DEF Shrink, Sent, origin
<1>4. Known'
  <2>1. ASSUME NEW p \in Procs, NEW i \in DOMAIN sendBuffer'[p]
        PROVE  (Sent(sendBuffer[p][i]) /\ origin(sendBuffer[p][i]) = p)'
    BY <2>1 DEF Known, Shrink, Piece, Sent, origin
  <2>2. ASSUME NEW p \in Procs, NEW i \in DOMAIN bytes(p)'
        PROVE  (Sent(bytes(p)[i].msg) /\ origin(bytes(p)[i].msg) = p)'
    BY <2>2 DEF Known, Shrink, Piece, Sent, origin
  <2>3. ASSUME NEW p \in Procs, NEW i \in DOMAIN due(p)', due(p)'[i] > 0
        PROVE  (Sent(due(p)[i]) /\ origin(due(p)[i]) # p)'
    BY <2>3 DEF Known, Shrink, Piece, Sent, origin
  <2>4. /\ \A s \in Socks :
             publishing'[s] # 0 => Sent(publishing[s])' /\ source'[publishing'[s]] = s
        /\ \A s \in Socks : \A i \in DOMAIN received'[s] : Sent(received[s][i])'
    BY <1>2 DEF Known, Shrink, Sent
  <2> QED
    BY <2>1, <2>2, <2>3, <2>4 DEF Known
<1>5. Upstream'
  <2> SUFFICES ASSUME NEW p \in Procs
               PROVE  (/\ \A i, j \in DOMAIN sendBuffer[p] :
                            i < j => sendBuffer[p][i] < sendBuffer[p][j]
                       /\ \A i, j \in DOMAIN bytes(p) :
                            i < j /\ bytes(p)[i].part = "head" /\ bytes(p)[j].part = "head"
                              => bytes(p)[i].msg < bytes(p)[j].msg
                       /\ \A i \in DOMAIN bytes(p), j \in DOMAIN sendBuffer[p] :
                            bytes(p)[i].msg < sendBuffer[p][j])'
    BY DEF Upstream
  <2>1. PICK k \in Nat : \A i \in DOMAIN sendBuffer'[p] :
          i + k \in DOMAIN sendBuffer[p] /\ sendBuffer'[p][i] = sendBuffer[p][i + k]
    BY DEF Shrink, Piece
  <2>2. PICK l \in Nat : \A i \in DOMAIN bytes(p)' :
          i + l \in DOMAIN bytes(p) /\ bytes(p)'[i] = bytes(p)[i + l]
    BY DEF Shrink, Piece
  <2>3. /\ DOMAIN bytes(p)' \subseteq Int
        /\ DOMAIN sendBuffer'[p] \subseteq Int
    BY WayDomainsNext
  <2>4. \A i, j \in DOMAIN sendBuffer'[p] : i < j => sendBuffer'[p][i] < sendBuffer'[p][j]
    BY <2>1, <2>3 DEF Upstream
  <2>5. \A i, j \in DOMAIN bytes(p)' :
          i < j /\ bytes(p)'[i].part = "head" /\ bytes(p)'[j].part = "head"
            => bytes(p)'[i].msg < bytes(p)'[j].msg
    BY <2>2, <2>3 DEF Upstream
  <2>6. \A i \in DOMAIN bytes(p)', j \in DOMAIN sendBuffer'[p] :
          bytes(p)'[i].msg < sendBuffer'[p][j]
    BY <2>1, <2>2 DEF Upstream
  <2> QED
    BY <2>4, <2>5, <2>6
<1>6. ASSUME NEW m, Ahead(m)
      PROVE  Ahead(m)'
  BY <1>3, <1>6 DEF Ahead, Shrink, Piece
<1>7. Downstream'
  <2>1. ASSUME NEW p \in Procs, NEW i \in DOMAIN due(p)', due(p)'[i] > 0
        PROVE  (/\ Ahead(due(p)[i])
                /\ \A j \in DOMAIN due(p) :
                     i < j /\ due(p)[j] > 0 /\ origin(due(p)[i]) = origin(due(p)[j])
                       => due(p)[i] < due(p)[j])'
    <3>1. PICK k \in Nat : \A j \in DOMAIN due(p)' :
            j + k \in DOMAIN due(p) /\ due(p)'[j] = due(p)[j + k]
      BY DEF Shrink, Piece
    <3>2. DOMAIN due(p)' \subseteq Int
      BY WayDomainsNext
    <3>3. Ahead(due(p)'[i])
      BY <2>1, <3>1 DEF Downstream
    <3>4. Ahead(due(p)[i])'
      BY <3>3 DEF Ahead, Shrink, Piece, origin
    <3>5. ASSUME NEW j \in DOMAIN due(p)', i < j, due(p)'[j] > 0,
                 origin(due(p)'[i]) = origin(due(p)'[j])
          PROVE  due(p)'[i] < due(p)'[j]
      BY <2>1, <3>1, <3>2, <3>5 DEF Downstream
    <3>6. source' = source
      BY DEF Shrink
    <3> QED
      BY <3>4, <3>5, <3>6 DEF origin
  <2>2. ASSUME NEW p \in Procs, NEW s \in Socks, home[s] = p, NEW i \in DOMAIN received'[s],
               origin(received[s][i])' # p
        PROVE  (/\ Ahead(received[s][i])
                /\ \A j \in DOMAIN due(p) :
                     due(p)[j] > 0 /\ origin(received[s][i]) = origin(due(p)[j])
                       => received[s][i] < due(p)[j])'
    <3>1. received'[s] = received[s] /\ origin(received[s][i]) # p
      BY <1>2, <2>2 DEF Shrink, origin
    <3>2. Ahead(received[s][i])
      BY <2>2, <3>1 DEF Downstream
    <3>3. Ahead(received[s][i])'
      BY <3>1, <3>2 DEF Ahead, Shrink, Piece, origin
    <3>4. \A j \in DOMAIN due(p)' :
            due(p)'[j] > 0 /\ origin(received[s][i]) = origin(due(p)'[j])
              => received[s][i] < due(p)'[j]
      BY <2>2, <3>1 DEF Downstream, Shrink, Piece
    <3> QED
      BY <3>1, <3>3, <3>4 DEF Shrink, origin
  <2> QED
    BY <2>1, <2>2 DEF Downstream
<1>8. Local' /\ InOrder'
  BY <1>2 DEF Local, InOrder, Shrink
<1> QED
  BY <1>4, <1>5, <1>7, <1>8 DEF Shrink

-----------------------------------------------------------------------------
(* The steps that only shorten *)

\* A sequence without a prefix.
LEMMA PieceSuffix ==
  ASSUME NEW S, NEW a \in Seq(S), NEW b \in Seq(S)
  PROVE  Piece(b, a \o b)
<1>1. Len(a) \in Nat /\ Len(b) \in Nat /\ DOMAIN b = 1..Len(b)
  BY LenProperties
<1>2. /\ a \o b \in Seq(S) /\ Len(a \o b) = Len(a) + Len(b)
      /\ \A i \in 1..(Len(a) + Len(b)) : (a \o b)[i] = IF i <= Len(a) THEN a[i] ELSE b[i - Len(a)]
  BY ConcatProperties
<1>3. DOMAIN (a \o b) = 1..(Len(a) + Len(b))
  BY <1>2, LenProperties
<1>4. \A i \in DOMAIN b : i + Len(a) \in DOMAIN (a \o b) /\ b[i] = (a \o b)[i + Len(a)]
  BY <1>1, <1>2, <1>3
<1> QED
  BY <1>1, <1>4 DEF Piece

\* A sequence without its first element.
LEMMA PieceTail ==
  ASSUME NEW S, NEW a \in Seq(S), a # <<>>
  PROVE  Piece(Tail(a), a)
<1>1. /\ Tail(a) \in Seq(S) /\ Len(Tail(a)) = Len(a) - 1
      /\ \A i \in 1..Len(Tail(a)) : Tail(a)[i] = a[i + 1]
  BY HeadTailProperties
<1>2. Len(a) \in Nat /\ DOMAIN a = 1..Len(a) /\ DOMAIN Tail(a) = 1..Len(Tail(a))
  BY <1>1, LenProperties
<1>3. \A i \in DOMAIN Tail(a) : i + 1 \in DOMAIN a /\ Tail(a)[i] = a[i + 1]
  BY <1>1, <1>2
<1> QED
  BY <1>3 DEF Piece

\* A sequence without some of its end.
LEMMA PiecePrefix ==
  ASSUME NEW S, NEW a \in Seq(S), NEW b \in Seq(S), NEW n \in 0..Len(b)
  PROVE  Piece(a \o SubSeq(b, 1, n), a \o b)
<1> DEFINE c == SubSeq(b, 1, n)
<1>1. Len(a) \in Nat /\ Len(b) \in Nat
  BY LenProperties
<1>2. c \in Seq(S) /\ Len(c) = n /\ \A i \in 1..n : c[i] = b[i]
  BY <1>1, PieceType
<1> HIDE DEF c
<1>3. /\ a \o b \in Seq(S) /\ Len(a \o b) = Len(a) + Len(b)
      /\ \A i \in 1..(Len(a) + Len(b)) : (a \o b)[i] = IF i <= Len(a) THEN a[i] ELSE b[i - Len(a)]
  BY ConcatProperties
<1>4. /\ a \o c \in Seq(S) /\ Len(a \o c) = Len(a) + n
      /\ \A i \in 1..(Len(a) + n) : (a \o c)[i] = IF i <= Len(a) THEN a[i] ELSE c[i - Len(a)]
  BY <1>2, ConcatProperties
<1>5. DOMAIN (a \o b) = 1..(Len(a) + Len(b)) /\ DOMAIN (a \o c) = 1..(Len(a) + n)
  BY <1>3, <1>4, LenProperties
<1>6. ASSUME NEW i \in DOMAIN (a \o c)
      PROVE  i + 0 \in DOMAIN (a \o b) /\ (a \o c)[i] = (a \o b)[i + 0]
  <2>1. i \in 1..(Len(a) + n) /\ i \in 1..(Len(a) + Len(b)) /\ i + 0 = i
    BY <1>1, <1>5
  <2>2. CASE i <= Len(a)
    BY <1>3, <1>4, <1>5, <2>1, <2>2
  <2>3. CASE i > Len(a)
    <3>1. i - Len(a) \in 1..n /\ ~(i <= Len(a))
      BY <1>1, <2>1, <2>3
    <3> QED
      BY <1>2, <1>3, <1>4, <1>5, <2>1, <3>1
  <2> QED
    BY <1>1, <2>1, <2>2, <2>3
<1>7. Piece(a \o c, a \o b)
  BY <1>6 DEF Piece
<1> QED
  BY <1>7 DEF c

\* The first of what is due.
LEMMA DueHead ==
  ASSUME TypeInv, NEW p \in Procs, pending[p] # <<>>
  PROVE  /\ due(p) # <<>> /\ due(p)[1] = Head(pending[p])
         /\ Tail(pending[p]) \o whole(wire(p)) = Tail(due(p))
         /\ 1 \in DOMAIN due(p)
<1> DEFINE a == pending[p]
           b == whole(wire(p))
<1>1. a \in Seq(-1..MaxMessages) /\ b \in Seq(-1..MaxMessages) /\ a # <<>>
  BY WayType, WholeType DEF TypeInv, TypeOK
<1>2. due(p) = a \o b
  BY DEF due
<1> HIDE DEF a, b
<1>3. Len(a) \in Nat \ {0} /\ Len(b) \in Nat
  BY <1>1, EmptySeq, LenProperties
<1>4. /\ a \o b \in Seq(-1..MaxMessages) /\ Len(a \o b) = Len(a) + Len(b)
      /\ \A i \in 1..(Len(a) + Len(b)) : (a \o b)[i] = IF i <= Len(a) THEN a[i] ELSE b[i - Len(a)]
  BY <1>1, ConcatProperties
<1>5. a \o b # <<>> /\ (a \o b)[1] = a[1] /\ 1 \in DOMAIN (a \o b)
  BY <1>3, <1>4, EmptySeq, LenProperties
<1>6. Head(a) = a[1]
  OBVIOUS
<1>7. /\ Tail(a) \in Seq(-1..MaxMessages) /\ Len(Tail(a)) = Len(a) - 1
      /\ \A i \in 1..Len(Tail(a)) : Tail(a)[i] = a[i + 1]
  BY <1>1, HeadTailProperties
<1> DEFINE c == Tail(a) \o b
           d == Tail(a \o b)
<1>8. /\ d \in Seq(-1..MaxMessages) /\ Len(d) = Len(a) + Len(b) - 1
      /\ \A i \in 1..Len(d) : d[i] = (a \o b)[i + 1]
  BY <1>4, <1>5, HeadTailProperties
<1>9. /\ c \in Seq(-1..MaxMessages) /\ Len(c) = Len(Tail(a)) + Len(b)
      /\ \A i \in 1..(Len(Tail(a)) + Len(b)) :
           c[i] = IF i <= Len(Tail(a)) THEN Tail(a)[i] ELSE b[i - Len(Tail(a))]
  BY <1>1, <1>7, ConcatProperties
<1> HIDE DEF c, d
<1>10. Len(c) = Len(d)
  BY <1>3, <1>7, <1>8, <1>9
<1>11. ASSUME NEW i \in 1..Len(c)
       PROVE  c[i] = d[i]
  <2>1. i + 1 \in 1..(Len(a) + Len(b)) /\ i \in 1..Len(d) /\ i \in 1..(Len(Tail(a)) + Len(b))
    BY <1>3, <1>7, <1>8, <1>9, <1>10
  <2>2. CASE i <= Len(Tail(a))
    <3>1. i \in 1..Len(Tail(a)) /\ i + 1 <= Len(a)
      BY <1>3, <1>7, <2>1, <2>2
    <3> QED
      BY <1>4, <1>7, <1>8, <1>9, <2>1, <2>2, <3>1
  <2>3. CASE ~(i <= Len(Tail(a)))
    <3>1. ~(i + 1 <= Len(a)) /\ (i + 1) - Len(a) = i - Len(Tail(a))
      BY <1>3, <1>7, <2>1, <2>3
    <3> QED
      BY <1>4, <1>8, <1>9, <2>1, <2>3, <3>1
  <2> QED
    BY <2>2, <2>3
<1>12. c = d
  BY <1>8, <1>9, <1>10, <1>11, SeqEqual
<1> QED
  BY <1>2, <1>5, <1>6, <1>12 DEF a, b, c, d

\* readAll() moves parts from the socket to the buffer of readSocket().
LEMMA ShrinkTake ==
  ASSUME TypeInv, Even, NEW p \in Procs, readSocket(p) \/ (ReadMore /\ reading = p)
  PROVE  Shrink
<1> USE DEF TypeInv, TypeOK
<1>0. p # NoProc /\ NoProc \notin Procs
  BY BusAssumption
<1>1. /\ takeFrom(p) /\ reading' = p /\ reading \in {p, NoProc}
      /\ UNCHANGED <<source, sendBuffer, publishing, received, readBuffer, down, pending>>
  BY DEF readSocket, ReadMore, serverVars, stepVars, topicVars
<1>2. PICK n \in 1..Len(up[p]) :
        /\ buf' = buf \o SubSeq(up[p], 1, n)
        /\ up' = [up EXCEPT ![p] = SubSeq(@, n + 1, Len(@))]
  BY <1>1 DEF takeFrom
<1>3. buf \in Seq(Part) /\ up[p] \in Seq(Part)
  OBVIOUS
<1>4. bytes(p) = buf \o up[p]
  BY <1>0, <1>1 DEF bytes, Reading
<1>5. bytes(p)' = (buf \o SubSeq(up[p], 1, n)) \o SubSeq(up[p], n + 1, Len(up[p]))
  BY <1>1, <1>2 DEF bytes
<1> HIDE DEF TypeInv, TypeOK
<1>6. (buf \o SubSeq(up[p], 1, n)) \o SubSeq(up[p], n + 1, Len(up[p])) = buf \o up[p]
  <2> DEFINE u == up[p]
  <2> u \in Seq(Part) /\ n \in 1..Len(u)
    BY <1>3
  <2> HIDE DEF u
  <2>1. (buf \o SubSeq(u, 1, n)) \o SubSeq(u, n + 1, Len(u)) = buf \o u
    BY <1>3, Cut
  <2> QED
    BY <2>1 DEF u
<1>7. \A q \in Procs : q # p => bytes(q)' = bytes(q)
  BY <1>0, <1>1, <1>2 DEF bytes, TypeInv, TypeOK
<1>8. \A q \in Procs : bytes(q)' = bytes(q)
  BY <1>4, <1>5, <1>6, <1>7
<1>9. \A q \in Procs : UNCHANGED <<due(q), wire(q)>>
  BY <1>1 DEF due, wire
<1> QED
  BY <1>1, <1>8, <1>9, ShrinkSame DEF Shrink, Even

\* The buffer of readSocket() is dropped.
LEMMA ShrinkTooShort ==
  ASSUME TypeInv, Even, TooShort
  PROVE  Shrink
<1> USE DEF TypeInv, TypeOK
<1>1. /\ reading \in Procs /\ reading' = NoProc /\ buf' = <<>>
      /\ UNCHANGED <<source, sendBuffer, publishing, received, readBuffer, down, pending, up>>
  BY DEF TooShort, incomplete, inLoop, serverVars, stepVars, topicVars
<1>2. \A q \in Procs : UNCHANGED <<due(q), wire(q)>>
  BY <1>1 DEF due, wire
<1>3. ASSUME NEW q \in Procs
      PROVE  Piece(bytes(q)', bytes(q))
  <2>1. up[q] \in Seq(Part) /\ buf \in Seq(Part)
    OBVIOUS
  <2>2. bytes(q)' = up[q]
    BY <1>1, <2>1, ConcatEmptySeq DEF bytes
  <2>3. CASE reading = q
    BY <2>1, <2>2, <2>3, PieceSuffix DEF bytes
  <2>4. CASE reading # q
    BY <2>1, <2>2, <2>4, ConcatEmptySeq, ShrinkSame DEF bytes
  <2> QED
    BY <2>3, <2>4
<1> QED
  BY <1>1, <1>2, <1>3, ShrinkSame DEF Shrink, Even

\* A server that dies leaves some of what it wrote.
LEMMA ShrinkLeave ==
  ASSUME TypeInv, Even, NEW p \in Procs, Leave(p)
  PROVE  Shrink
<1> USE DEF TypeInv, TypeOK
<1>1. PICK n \in 0..Len(up[p]) : up' = [up EXCEPT ![p] = SubSeq(up[p], 1, n)]
  BY DEF Leave
<1>2. /\ UNCHANGED <<source, reading, buf>>
      /\ down' = [down EXCEPT ![p] = <<>>]
      /\ sendBuffer' = [sendBuffer EXCEPT ![p] = <<>>]
      /\ readBuffer' = [readBuffer EXCEPT ![p] = <<>>]
      /\ pending' = [pending EXCEPT ![p] = <<>>]
      /\ publishing' = [s \in Socks |-> IF home[s] = p THEN 0 ELSE publishing[s]]
      /\ received' = [s \in Socks |-> IF home[s] = p THEN <<>> ELSE received[s]]
  BY DEF Leave, daemonVars
<1>3. Piece(bytes(p)', bytes(p))
  <2> DEFINE a == IF reading = p THEN buf ELSE <<>>
  <2>1. a \in Seq(Part) /\ up[p] \in Seq(Part)
    BY EmptySeq
  <2>2. bytes(p) = a \o up[p] /\ bytes(p)' = a \o SubSeq(up[p], 1, n)
    BY <1>1, <1>2 DEF bytes
  <2> HIDE DEF a
  <2> QED
    BY <2>1, <2>2, PiecePrefix
<1>4. wire(p)' = <<>> /\ due(p)' = <<>>
  <2>1. wire(p)' = <<>> \o <<>>
    BY <1>2 DEF wire
  <2>2. <<>> \in Seq(Part) /\ Len(<<>>) = 0
    BY EmptySeq
  <2>3. wire(p)' = <<>>
    BY <2>1, <2>2, ConcatEmptySeq
  <2>4. 0 \div 2 = 0
    BY Half
  <2>5. whole(<<>>) = <<>>
    BY <2>2, <2>4, WholeType, EmptySeq
  <2>6. due(p)' = <<>> \o whole(<<>>)
    BY <1>2, <2>3 DEF due, whole
  <2> QED
    BY <2>2, <2>3, <2>5, <2>6, ConcatEmptySeq
<1>5. \A q \in Procs : q # p => UNCHANGED <<bytes(q), wire(q), due(q), sendBuffer[q]>>
  BY <1>1, <1>2 DEF bytes, wire, due
<1>6. Even'
  <2>1. Len(wire(p)') = 2 * 0
    BY <1>4, EmptySeq
  <2> QED
    BY <1>5, <2>1 DEF Even
<1>7. sendBuffer'[p] = <<>>
  BY <1>2
<1> HIDE DEF TypeInv, TypeOK
<1>8. ASSUME NEW q \in Procs
      PROVE  /\ Piece(sendBuffer'[q], sendBuffer[q]) /\ Piece(bytes(q)', bytes(q))
             /\ Piece(due(q)', due(q))
  <2>1. CASE q = p
    <3>1. Piece(<<>>, sendBuffer[p]) /\ Piece(<<>>, due(p))
      BY ShrinkSame
    <3> QED
      BY <1>3, <1>4, <1>7, <2>1, <3>1
  <2>2. CASE q # p
    <3>1. Piece(sendBuffer[q], sendBuffer[q]) /\ Piece(bytes(q), bytes(q)) /\ Piece(due(q), due(q))
      BY ShrinkSame
    <3> QED
      BY <1>5, <2>2, <3>1
  <2> QED
    BY <2>1, <2>2
<1> QED
  BY <1>2, <1>6, <1>8 DEF Shrink

\* readBus() takes whole frames and keeps the rest: all the same is due.
LEMMA ShrinkReadBus ==
  ASSUME TypeInv, Even, NEW p \in Procs, readBus(p)
  PROVE  Shrink
<1> USE DEF TypeInv, TypeOK
<1>1. PICK n \in 1..Len(down[p]) :
        LET b == readBuffer[p] \o SubSeq(down[p], 1, n)
            h == taken(b)
        IN /\ down' = [down EXCEPT ![p] = SubSeq(@, n + 1, Len(@))]
           /\ pending' = [pending EXCEPT ![p] = [i \in 1..h |-> b[2 * i].msg]]
           /\ readBuffer' = [readBuffer EXCEPT ![p] = SubSeq(b, 2 * h + 1, Len(b))]
  BY DEF readBus
<1> DEFINE b == readBuffer[p] \o SubSeq(down[p], 1, n)
           h == taken(b)
           r == SubSeq(down[p], n + 1, Len(down[p]))
           front == [i \in 1..h |-> b[2 * i].msg]
           rest == SubSeq(b, 2 * h + 1, Len(b)) \o r
<1>2. /\ UNCHANGED <<source, reading, buf, up, sendBuffer, publishing, received>>
      /\ pending[p] = <<>>
  BY DEF readBus, daemonVars, topicVars, idle
<1>3. readBuffer[p] \in Seq(Part) /\ down[p] \in Seq(Part)
  OBVIOUS
<1> HIDE DEF TypeInv, TypeOK
<1>4. /\ SubSeq(down[p], 1, n) \in Seq(Part) /\ r \in Seq(Part)
      /\ b \o r = readBuffer[p] \o down[p]
  <2> DEFINE d == down[p]
             e == readBuffer[p]
  <2> d \in Seq(Part) /\ e \in Seq(Part) /\ n \in 1..Len(d)
    BY <1>3
  <2> HIDE DEF d, e
  <2>1. /\ SubSeq(d, 1, n) \in Seq(Part) /\ SubSeq(d, n + 1, Len(d)) \in Seq(Part)
        /\ (e \o SubSeq(d, 1, n)) \o SubSeq(d, n + 1, Len(d)) = e \o d
    BY Cut
  <2> QED
    BY <2>1 DEF d, e
<1>5. b \in Seq(Part)
  BY <1>3, <1>4, ConcatProperties
<1>6. /\ wire(p)' = rest /\ due(p)' = front \o whole(rest)
      /\ \A q \in Procs : q # p => UNCHANGED <<wire(q), due(q)>>
  <2> HIDE DEF b, r
  <2>1. /\ readBuffer'[p] = SubSeq(b, 2 * h + 1, Len(b)) /\ down'[p] = r /\ pending'[p] = front
        /\ \A q \in Procs : q # p => UNCHANGED <<readBuffer[q], down[q], pending[q]>>
    BY <1>1 DEF TypeInv, TypeOK, b, r
  <2> HIDE DEF front, h
  <2> QED
    BY <2>1 DEF wire, due, whole
<1> HIDE DEF b, r
<1>7. h \in Nat /\ 2 * h <= Len(b)
  BY <1>5, LenProperties, Half DEF taken
<1> HIDE DEF h
<1>8. Len(rest) = Len(b \o r) - 2 * h /\ front \o whole(rest) = whole(b \o r)
  BY <1>4, <1>5, <1>7, WholeSplit DEF front, rest
<1> HIDE DEF front, rest
<1>9. due(p) = whole(wire(p))
  BY <1>2, WayType, WholeType, ConcatEmptySeq DEF due
<1>10. b \o r = wire(p)
  BY <1>4 DEF wire
<1>11. \A q \in Procs : due(q)' = due(q)
  BY <1>6, <1>8, <1>9, <1>10
<1>12. Even'
  <2>1. PICK k \in Nat : Len(wire(p)) = 2 * k
    BY DEF Even
  <2>2. rest \in Seq(Part)
    BY <1>4, <1>5, <1>7, PieceType, ConcatProperties, LenProperties DEF rest
  <2>3. Len(rest) \in Nat /\ Len(rest) = 2 * (k - h)
    BY <1>7, <1>8, <1>10, <2>1, <2>2, LenProperties
  <2>4. k - h \in Nat
    BY <1>7, <2>3
  <2> QED
    BY <1>6, <2>3, <2>4 DEF Even
<1>13. \A q \in Procs : bytes(q)' = bytes(q)
  BY <1>2 DEF bytes
<1> QED
  BY <1>2, <1>11, <1>12, <1>13, ShrinkSame DEF Shrink

\* receiveSystemBus() finds the topic, or skips the message.
LEMMA ShrinkGet ==
  ASSUME TypeInv, Even, NEW p \in Procs, get(p) \/ pass(p)
  PROVE  Shrink
<1> USE DEF TypeInv, TypeOK
<1>1. /\ UNCHANGED <<source, reading, buf, up, sendBuffer, publishing, received, down, readBuffer>>
      /\ pending[p] # <<>>
      /\ pending' = pending \/ pending' = [pending EXCEPT ![p] = Tail(@)]
  BY DEF get, pass, daemonVars, topicVars
<1>2. CASE pending' = pending
  BY <1>1, <1>2, ShrinkQuiet
<1>3. CASE pending' = [pending EXCEPT ![p] = Tail(@)]
  <2>1. due(p)' = Tail(pending[p]) \o whole(wire(p))
    BY <1>1, <1>3 DEF due, wire, whole
  <2> HIDE DEF TypeInv, TypeOK
  <2>2. due(p)' = Tail(due(p)) /\ due(p) # <<>> /\ due(p) \in Seq(-1..MaxMessages)
    BY <1>1, <2>1, DueHead, WayType
  <2>5. Piece(due(p)', due(p))
    BY <2>2, PieceTail
  <2>3. \A q \in Procs : q # p => due(q)' = due(q)
    BY <1>1, <1>3 DEF due, wire, whole, TypeInv, TypeOK
  <2>4. \A q \in Procs : bytes(q)' = bytes(q) /\ wire(q)' = wire(q)
    BY <1>1 DEF bytes, wire
  <2> QED
    BY <1>1, <2>3, <2>4, <2>5, ShrinkSame DEF Shrink, Even
<1> QED
  BY <1>1, <1>2, <1>3

-----------------------------------------------------------------------------
(* The steps that publish, send and deliver *)

\* send(): the new message is younger than all others of its server.
LEMMA PublishSendOrder ==
  ASSUME OrderInv, TypeInv', NEW s \in Socks, PublishSend(s)
  PROVE  OrderInv'
<1> DEFINE p0 == home[s]
           m == Len(source) + 1
<1>1. /\ source' = Append(source, s)
      /\ publishing[s] = 0 /\ publishing' = [publishing EXCEPT ![s] = m]
      /\ sendBuffer' = [sendBuffer EXCEPT ![p0] = Append(@, m)]
      /\ UNCHANGED <<received, reading, buf, up, down, readBuffer, pending>>
      /\ Len(source) < MaxMessages
  BY DEF PublishSend, daemonVars, stepVars
<1>2. /\ TypeInv /\ p0 \in Procs
      /\ source \in Seq(Socks) /\ Len(source) \in Nat /\ m \in Nat \ {0} /\ m \in Messages
      /\ sendBuffer \in [Procs -> Seq(Messages)]
      /\ publishing \in [Socks -> Messages \cup {0}]
  <2>1. /\ TypeInv /\ source \in Seq(Socks) /\ sendBuffer \in [Procs -> Seq(Messages)]
        /\ publishing \in [Socks -> Messages \cup {0}]
    BY DEF OrderInv, TypeInv, TypeOK
  <2>2. Len(source) \in Nat /\ p0 \in Procs /\ MaxMessages \in Nat
    BY <2>1, BusAssumption, LenProperties
  <2>3. m \in Nat \ {0} /\ m \in 1..MaxMessages
    BY <1>1, <2>2
  <2> QED
    BY <2>1, <2>2, <2>3 DEF Messages
<1>3. \A q \in Procs : UNCHANGED <<bytes(q), due(q), wire(q)>>
  BY <1>1 DEF bytes, due, wire
<1>4. \A x : Sent(x) => x \in Int /\ x < m /\ Sent(x)' /\ source'[x] = source[x]
                        /\ origin(x)' = origin(x)
  BY <1>1, <1>2, AppendProperties DEF Sent, origin
<1>5. m \in 1..Len(source') /\ source'[m] = s /\ home[source'[m]] = p0
  <2>1. Len(source') = m /\ source'[m] = s
    BY <1>1, <1>2, AppendProperties
  <2> HIDE DEF m
  <2> QED
    BY <1>2, <2>1
<1> HIDE DEF m, p0
<1>6. ASSUME NEW q \in Procs, NEW i \in DOMAIN sendBuffer'[q]
      PROVE  \/ i \in DOMAIN sendBuffer[q] /\ sendBuffer'[q][i] = sendBuffer[q][i]
             \/ /\ q = p0 /\ i = Len(sendBuffer[q]) + 1 /\ sendBuffer'[q][i] = m
  <2>1. /\ sendBuffer[q] \in Seq(Messages) /\ Len(sendBuffer[q]) \in Nat
        /\ DOMAIN sendBuffer[q] = 1..Len(sendBuffer[q])
    BY <1>2, LenProperties
  <2>2. CASE q = p0
    <3>1. sendBuffer'[q] = Append(sendBuffer[q], m)
      BY <1>1, <1>2, <2>2
    <3>2. DOMAIN sendBuffer'[q] = 1..(Len(sendBuffer[q]) + 1)
      BY <1>2, <2>1, <3>1, AppendProperties, LenProperties
    <3> QED
      BY <1>2, <2>1, <2>2, <3>1, <3>2, <1>6, AppendProperties
  <2>3. CASE q # p0
    BY <1>1, <1>2, <1>6, <2>3
  <2> QED
    BY <2>2, <2>3
<1>7. \A q \in Procs : DOMAIN sendBuffer[q] = 1..Len(sendBuffer[q]) /\ Len(sendBuffer[q]) \in Nat
  BY <1>2, LenProperties
<1> USE DEF OrderInv
<1>8. Known'
  <2>1. ASSUME NEW q \in Procs, NEW i \in DOMAIN sendBuffer'[q]
        PROVE  (Sent(sendBuffer[q][i]) /\ origin(sendBuffer[q][i]) = q)'
    <3>1. CASE i \in DOMAIN sendBuffer[q] /\ sendBuffer'[q][i] = sendBuffer[q][i]
      <4>1. Sent(sendBuffer[q][i]) /\ origin(sendBuffer[q][i]) = q
        BY <3>1 DEF Known
      <4> QED
        BY <1>4, <3>1, <4>1 DEF Sent, origin
    <3>2. CASE q = p0 /\ sendBuffer'[q][i] = m
      BY <1>5, <3>2 DEF Sent, origin
    <3> QED
      BY <1>6, <3>1, <3>2
  <2>2. ASSUME NEW q \in Procs, NEW i \in DOMAIN bytes(q)'
        PROVE  (Sent(bytes(q)[i].msg) /\ origin(bytes(q)[i].msg) = q)'
    BY <1>3, <1>4 DEF Known, Sent, origin
  <2>3. ASSUME NEW q \in Procs, NEW i \in DOMAIN due(q)', due(q)'[i] > 0
        PROVE  (Sent(due(q)[i]) /\ origin(due(q)[i]) # q)'
    BY <1>3, <1>4, <2>3 DEF Known, Sent, origin
  <2>4. ASSUME NEW t \in Socks
        PROVE  (publishing[t] # 0 => Sent(publishing[t]) /\ source[publishing[t]] = t)'
    <3>1. CASE t = s
      <4>1. publishing'[t] = m
        BY <1>1, <1>2, <3>1
      <4> QED
        BY <1>5, <3>1, <4>1 DEF Sent
    <3>2. CASE t # s
      <4>1. publishing'[t] = publishing[t]
        BY <1>1, <1>2, <3>2
      <4> QED
        BY <1>4, <4>1 DEF Known, Sent
    <3> QED
      BY <3>1, <3>2
  <2>5. ASSUME NEW t \in Socks, NEW i \in DOMAIN received'[t]
        PROVE  Sent(received[t][i])'
    BY <1>1, <1>4 DEF Known, Sent
  <2> QED
    BY <2>1, <2>2, <2>3, <2>4, <2>5 DEF Known
<1>9. Upstream'
  <2>1. ASSUME NEW q \in Procs, NEW i \in DOMAIN sendBuffer'[q],
               NEW j \in DOMAIN sendBuffer'[q], i < j
        PROVE  sendBuffer'[q][i] < sendBuffer'[q][j]
    BY <1>4, <1>6, <1>7, <2>1 DEF Known, Upstream
  <2>2. ASSUME NEW q \in Procs, NEW i \in DOMAIN bytes(q)', NEW j \in DOMAIN sendBuffer'[q]
        PROVE  bytes(q)'[i].msg < sendBuffer'[q][j]
    BY <1>3, <1>4, <1>6 DEF Known, Upstream
  <2> QED
    BY <1>3, <2>1, <2>2 DEF Upstream
<1>10. ASSUME NEW x, Sent(x), Ahead(x)
       PROVE  Ahead(x)'
  BY <1>3, <1>4, <1>6, <1>10 DEF Ahead
<1>11. Downstream'
  <2>1. ASSUME NEW q \in Procs, NEW i \in DOMAIN due(q)', due(q)'[i] > 0
        PROVE  (/\ Ahead(due(q)[i])
                /\ \A j \in DOMAIN due(q) :
                     i < j /\ due(q)[j] > 0 /\ origin(due(q)[i]) = origin(due(q)[j])
                       => due(q)[i] < due(q)[j])'
    <3>1. Sent(due(q)[i]) /\ Ahead(due(q)[i]) /\ due(q)' = due(q)
      BY <1>3, <2>1 DEF Known, Downstream
    <3>2. Ahead(due(q)[i])'
      BY <1>3, <1>4, <1>6, <3>1 DEF Ahead, origin
    <3>3. \A j \in DOMAIN due(q) : due(q)[j] > 0 => Sent(due(q)[j])
      BY DEF Known
    <3> QED
      BY <1>4, <2>1, <3>1, <3>2, <3>3 DEF Downstream, origin
  <2>2. ASSUME NEW q \in Procs, NEW t \in Socks, home[t] = q, NEW i \in DOMAIN received'[t],
               origin(received[t][i])' # q
        PROVE  (/\ Ahead(received[t][i])
                /\ \A j \in DOMAIN due(q) :
                     due(q)[j] > 0 /\ origin(received[t][i]) = origin(due(q)[j])
                       => received[t][i] < due(q)[j])'
    <3>1. Sent(received[t][i]) /\ received' = received /\ due(q)' = due(q)
      BY <1>1, <1>3, <2>2 DEF Known
    <3>2. origin(received[t][i]) # q
      BY <1>4, <2>2, <3>1 DEF origin
    <3>3. Ahead(received[t][i])
      BY <2>2, <3>1, <3>2 DEF Downstream
    <3>4. Ahead(received[t][i])'
      BY <1>3, <1>4, <1>6, <3>1, <3>3 DEF Ahead, origin
    <3>5. \A j \in DOMAIN due(q) : due(q)[j] > 0 => Sent(due(q)[j])
      BY DEF Known
    <3> QED
      BY <1>4, <2>2, <3>1, <3>2, <3>4, <3>5 DEF Downstream, origin
  <2> QED
    BY <2>1, <2>2 DEF Downstream
<1>12. Local'
  BY ZenonT(60), <1>1, <1>2, <1>4 DEF Local, Known
<1>13. InOrder'
  <2>1. \A t \in Socks : \A i \in DOMAIN received[t] :
          source'[received[t][i]] = source[received[t][i]]
    BY <1>4 DEF Known
  <2>2. ASSUME NEW t \in Socks, NEW i \in DOMAIN received'[t], NEW j \in DOMAIN received'[t]
        PROVE  (LET x == received[t][i]
                    y == received[t][j]
                IN /\ i # j => x # y
                   /\ i < j /\ \/ source[x] = source[y]
                               \/ home[source[x]] = home[source[y]] /\ home[source[x]] # home[t]
                      => x < y)'
    BY ZenonT(60), <1>1, <2>1 DEF InOrder
  <2> QED
    BY <2>2 DEF InOrder
<1>14. Even'
  BY <1>3 DEF Even
<1> QED
  BY <1>8, <1>9, <1>11, <1>12, <1>13, <1>14

\* What Pub::publish() adds to the messages of a websocket.
LEMMA DeliverEffect ==
  ASSUME TypeInv, NEW m \in Messages, NEW to, deliver(m, to), NEW s \in Socks
  PROVE  /\ DOMAIN received[s] = 1..Len(received[s]) /\ Len(received[s]) \in Nat
         /\ \A i \in DOMAIN received'[s] :
              \/ i \in DOMAIN received[s] /\ received'[s][i] = received[s][i]
              \/ s \in to /\ i = Len(received[s]) + 1 /\ received'[s][i] = m
<1>1. received[s] \in Seq(Messages)
  BY DEF TypeInv, TypeOK
<1>2. DOMAIN received[s] = 1..Len(received[s]) /\ Len(received[s]) \in Nat
  BY <1>1, LenProperties
<1>3. received'[s] = IF s \in to THEN Append(received[s], m) ELSE received[s]
  BY DEF deliver
<1>4. CASE s \in to
  <2>1. received'[s] = Append(received[s], m)
    BY <1>3, <1>4
  <2>2. DOMAIN received'[s] = 1..(Len(received[s]) + 1)
    BY <1>1, <2>1, AppendProperties, LenProperties
  <2> QED
    BY <1>1, <1>2, <1>4, <2>1, <2>2, AppendProperties
<1>5. CASE s \notin to
  BY <1>2, <1>3, <1>5
<1> QED
  BY <1>4, <1>5

\* A message that comes last, after those of its sender and of its sender's
\* server, leaves the messages of a websocket in order.
LEMMA DeliverOrder ==
  ASSUME OrderInv, NEW m \in Messages, NEW to, deliver(m, to), UNCHANGED source,
         \A s \in Socks \cap to : \A i \in DOMAIN received[s] :
           LET n == received[s][i]
           IN /\ n # m
              /\ \/ source[n] = source[m]
                 \/ home[source[n]] = home[source[m]] /\ home[source[m]] # home[s]
                 => n < m
  PROVE  InOrder'
<1> SUFFICES ASSUME NEW s \in Socks, NEW i \in DOMAIN received'[s], NEW j \in DOMAIN received'[s]
             PROVE  (LET x == received[s][i]
                         y == received[s][j]
                     IN /\ i # j => x # y
                        /\ i < j /\ \/ source[x] = source[y]
                                    \/ /\ home[source[x]] = home[source[y]]
                                       /\ home[source[x]] # home[s]
                           => x < y)'
  BY DEF InOrder
<1>1. /\ DOMAIN received[s] = 1..Len(received[s]) /\ Len(received[s]) \in Nat
      /\ \A k \in DOMAIN received'[s] :
           \/ k \in DOMAIN received[s] /\ received'[s][k] = received[s][k]
           \/ s \in to /\ k = Len(received[s]) + 1 /\ received'[s][k] = m
  BY DeliverEffect DEF OrderInv
<1>2. CASE i \in DOMAIN received[s] /\ received'[s][i] = received[s][i]
  <2>1. CASE j \in DOMAIN received[s] /\ received'[s][j] = received[s][j]
    BY <1>2, <2>1 DEF OrderInv, InOrder
  <2>2. CASE s \in to /\ j = Len(received[s]) + 1 /\ received'[s][j] = m
    BY <1>2, <2>2
  <2> QED
    BY <1>1, <2>1, <2>2
<1>3. CASE s \in to /\ i = Len(received[s]) + 1 /\ received'[s][i] = m
  <2>1. CASE j \in DOMAIN received[s] /\ received'[s][j] = received[s][j]
    <3>1. ~(i < j)
      BY <1>1, <1>3, <2>1
    <3> QED
      BY <1>3, <2>1, <3>1
  <2>2. CASE s \in to /\ j = Len(received[s]) + 1 /\ received'[s][j] = m
    <3>1. i = j /\ ~(i < j)
      BY <1>1, <1>3, <2>2
    <3> QED
      BY <3>1
  <2> QED
    BY <1>1, <2>1, <2>2
<1> QED
  BY <1>1, <1>2, <1>3

\* publish() for the subscribers in its own server.
LEMMA PublishLocalOrder ==
  ASSUME OrderInv, TypeInv', NEW s \in Socks, PublishLocal(s)
  PROVE  OrderInv'
<1> DEFINE m == publishing[s]
           to == Subscribed(home[s]) \ except(s)
<1> USE DEF OrderInv
<1>1. /\ UNCHANGED <<source, sendBuffer, reading, buf, up, down, readBuffer, pending>>
      /\ publishing' = [publishing EXCEPT ![s] = 0] /\ deliver(m, to)
  BY DEF PublishLocal, daemonVars, serverVars, stepVars
<1>2. m \in Messages /\ Sent(m) /\ source[m] = s /\ publishing \in [Socks -> Messages \cup {0}]
  BY DEF PublishLocal, TypeInv, TypeOK, Known
<1>3. \A q \in Procs : UNCHANGED <<bytes(q), due(q), wire(q)>>
  BY <1>1 DEF bytes, due, wire
<1>4. \A x : (Sent(x)' <=> Sent(x)) /\ origin(x)' = origin(x) /\ (Ahead(x)' <=> Ahead(x))
  BY <1>1, <1>3 DEF Sent, origin, Ahead
<1>5. \A t \in to : home[t] = home[s]
  BY DEF Subscribed
<1> HIDE DEF m, to
<1>6. \A t \in Socks : \A i \in DOMAIN received'[t] :
        \/ i \in DOMAIN received[t] /\ received'[t][i] = received[t][i]
        \/ t \in to /\ received'[t][i] = m
  BY <1>1, <1>2, DeliverEffect
<1>7. InOrder'
  <2>1. \A t \in Socks \cap to : \A i \in DOMAIN received[t] :
          source[received[t][i]] = s => received[t][i] < m
    BY <1>2, <1>5 DEF Local, m, Messages
  <2>2. m \in Int /\ home[source[m]] = home[s]
    BY <1>2, BusAssumption DEF Messages
  <2>3. \A t \in Socks \cap to : \A i \in DOMAIN received[t] : received[t][i] # m
    BY <1>2, <2>1, <2>2
  <2> QED
    BY <1>1, <1>2, <1>5, <2>1, <2>2, <2>3, DeliverOrder
<1>8. Known'
  <2>1. /\ \A q \in Procs : \A i \in DOMAIN sendBuffer'[q] :
             (Sent(sendBuffer[q][i]) /\ origin(sendBuffer[q][i]) = q)'
        /\ \A q \in Procs : \A i \in DOMAIN bytes(q)' :
             (Sent(bytes(q)[i].msg) /\ origin(bytes(q)[i].msg) = q)'
        /\ \A q \in Procs : \A i \in DOMAIN due(q)' :
             (due(q)[i] > 0 => Sent(due(q)[i]) /\ origin(due(q)[i]) # q)'
    BY <1>1, <1>3 DEF Known, Sent, origin
  <2>2. \A t \in Socks : (publishing[t] # 0 => Sent(publishing[t]) /\ source[publishing[t]] = t)'
    BY <1>1, <1>2 DEF Known, Sent
  <2>3. \A t \in Socks : \A i \in DOMAIN received'[t] : Sent(received[t][i])'
    BY <1>1, <1>2, <1>6 DEF Known, Sent
  <2> QED
    BY <2>1, <2>2, <2>3 DEF Known
<1>9. Upstream' /\ Even'
  BY <1>1, <1>3 DEF Upstream, Even
<1>10. Downstream'
  <2>1. ASSUME NEW q \in Procs, NEW i \in DOMAIN due(q)', due(q)'[i] > 0
        PROVE  (/\ Ahead(due(q)[i])
                /\ \A j \in DOMAIN due(q) :
                     i < j /\ due(q)[j] > 0 /\ origin(due(q)[i]) = origin(due(q)[j])
                       => due(q)[i] < due(q)[j])'
    BY <1>1, <1>3, <2>1 DEF Downstream, Ahead, origin
  <2>2. ASSUME NEW q \in Procs, NEW t \in Socks, home[t] = q, NEW i \in DOMAIN received'[t],
               origin(received[t][i])' # q
        PROVE  (/\ Ahead(received[t][i])
                /\ \A j \in DOMAIN due(q) :
                     due(q)[j] > 0 /\ origin(received[t][i]) = origin(due(q)[j])
                       => received[t][i] < due(q)[j])'
    <3>1. i \in DOMAIN received[t] /\ received'[t][i] = received[t][i]
      BY <1>1, <1>2, <1>5, <1>6, <2>2 DEF origin
    <3> QED
      BY SMTT(60), <1>1, <1>3, <2>2, <3>1 DEF Downstream, Ahead, origin
  <2> QED
    BY <2>1, <2>2 DEF Downstream
<1>11. Local'
  <2>1. ASSUME NEW t \in Socks, NEW u \in Socks, publishing'[u] # 0, home[t] = home[u],
               NEW i \in DOMAIN received'[t], source'[received'[t][i]] = u
        PROVE  received'[t][i] < publishing'[u]
    <3>1. u # s /\ publishing'[u] = publishing[u]
      BY <1>1, <1>2, <2>1
    <3>2. i \in DOMAIN received[t] /\ received'[t][i] = received[t][i]
      BY <1>1, <1>2, <1>6, <2>1, <3>1
    <3> QED
      BY <1>1, <2>1, <3>1, <3>2 DEF Local
  <2> QED
    BY <2>1 DEF Local
<1> QED
  BY <1>7, <1>8, <1>9, <1>10, <1>11

\* receiveSystemBus() publishes the first message that is due.
LEMMA PublishOrder ==
  ASSUME OrderInv, TypeInv', NEW p \in Procs, publish(p)
  PROVE  OrderInv'
<1> DEFINE m == Head(pending[p])
           to == IF pub[p] = "held" THEN Subscribed(p) ELSE {}
<1> USE DEF OrderInv
<1>1. /\ UNCHANGED <<source, sendBuffer, reading, buf, up, down, readBuffer, publishing>>
      /\ pending' = [pending EXCEPT ![p] = Tail(@)] /\ deliver(m, to)
      /\ pending[p] # <<>> /\ m \in Messages
  BY DEF publish, daemonVars, stepVars, TypeInv, Holding
<1>2. due(p) # <<>> /\ due(p)[1] = m /\ 1 \in DOMAIN due(p) /\ due(p) \in Seq(-1..MaxMessages)
  BY SMTT(60), <1>1, DueHead, WayType
<1>3. \A q \in Procs : bytes(q)' = bytes(q) /\ wire(q)' = wire(q) /\ (q # p => due(q)' = due(q))
  BY <1>1 DEF bytes, due, wire, whole, TypeInv, TypeOK
<1>4. due(p)' = Tail(due(p))
  <2>1. due(p)' = Tail(pending[p]) \o whole(wire(p))
    BY <1>1, <1>3 DEF due, whole, TypeInv, TypeOK
  <2> QED
    BY <1>1, <2>1, DueHead
<1>5. \A t \in to : home[t] = p
  BY DEF Subscribed
<1> HIDE DEF m, to
<1>6. \A i \in DOMAIN due(p)' :
        i \in Int /\ i > 0 /\ i + 1 \in DOMAIN due(p) /\ due(p)'[i] = due(p)[i + 1]
  <2>1. /\ Tail(due(p)) \in Seq(-1..MaxMessages) /\ Len(Tail(due(p))) = Len(due(p)) - 1
        /\ \A i \in 1..Len(Tail(due(p))) : Tail(due(p))[i] = due(p)[i + 1]
    BY <1>2, HeadTailProperties
  <2>2. /\ DOMAIN Tail(due(p)) = 1..Len(Tail(due(p))) /\ DOMAIN due(p) = 1..Len(due(p))
        /\ Len(due(p)) \in Nat
    BY <1>2, <2>1, LenProperties
  <2> QED
    BY <1>4, <2>1, <2>2
<1>7. m \in Int /\ m > 0 /\ Sent(m) /\ origin(m) # p /\ Ahead(m)
  BY <1>1, <1>2 DEF Known, Downstream, Messages, Garbage
<1>8. \A t \in Socks : \A i \in DOMAIN received'[t] :
        \/ i \in DOMAIN received[t] /\ received'[t][i] = received[t][i]
        \/ t \in to /\ received'[t][i] = m
  BY <1>1, DeliverEffect
<1>9. InOrder'
  <2>1. \A t \in Socks \cap to : \A i \in DOMAIN received[t] :
          origin(received[t][i]) = origin(m) => received[t][i] < m
    BY <1>2, <1>5, <1>7 DEF Downstream
  <2>2. \A t \in Socks \cap to : \A i \in DOMAIN received[t] : received[t][i] # m
    BY <1>7, <2>1
  <2> QED
    BY <1>1, <2>1, <2>2, DeliverOrder DEF origin
<1>10. Known'
  <2>1. /\ \A q \in Procs : \A i \in DOMAIN sendBuffer'[q] :
             (Sent(sendBuffer[q][i]) /\ origin(sendBuffer[q][i]) = q)'
        /\ \A q \in Procs : \A i \in DOMAIN bytes(q)' :
             (Sent(bytes(q)[i].msg) /\ origin(bytes(q)[i].msg) = q)'
        /\ \A t \in Socks : (publishing[t] # 0 => Sent(publishing[t]) /\ source[publishing[t]] = t)'
    BY <1>1, <1>3 DEF Known, Sent, origin
  <2>2. ASSUME NEW q \in Procs, NEW i \in DOMAIN due(q)'
        PROVE  (due(q)[i] > 0 => Sent(due(q)[i]) /\ origin(due(q)[i]) # q)'
    BY <1>1, <1>3, <1>6 DEF Known, Sent, origin
  <2>3. \A t \in Socks : \A i \in DOMAIN received'[t] : Sent(received[t][i])'
    BY <1>1, <1>7, <1>8 DEF Known, Sent
  <2> QED
    BY <2>1, <2>2, <2>3 DEF Known
<1>11. Upstream' /\ Even'
  BY <1>1, <1>3 DEF Upstream, Even
<1>12. Downstream'
  <2>1. ASSUME NEW q \in Procs, NEW i \in DOMAIN due(q)', due(q)'[i] > 0
        PROVE  (/\ Ahead(due(q)[i])
                /\ \A j \in DOMAIN due(q) :
                     i < j /\ due(q)[j] > 0 /\ origin(due(q)[i]) = origin(due(q)[j])
                       => due(q)[i] < due(q)[j])'
    <3>1. CASE q = p
      <4>1. Ahead(due(p)'[i])
        BY <1>6, <2>1, <3>1 DEF Downstream
      <4>2. Ahead(due(q)[i])'
        BY <1>1, <1>3, <3>1, <4>1 DEF Ahead, origin
      <4>3. \A j \in DOMAIN due(p)' : i < j /\ due(p)'[j] > 0
              /\ origin(due(p)'[i]) = origin(due(p)'[j]) => due(p)'[i] < due(p)'[j]
        BY <1>6, <2>1, <3>1 DEF Downstream
      <4> QED
        BY <1>1, <3>1, <4>2, <4>3 DEF origin
    <3>2. CASE q # p
      <4>1. Ahead(due(q)[i]) /\ due(q)' = due(q)
        BY <1>3, <2>1, <3>2 DEF Downstream
      <4>2. Ahead(due(q)[i])'
        BY <1>1, <1>3, <4>1 DEF Ahead, origin
      <4> QED
        BY <1>1, <2>1, <4>1, <4>2 DEF Downstream, origin
    <3> QED
      BY <3>1, <3>2
  <2>2. ASSUME NEW q \in Procs, NEW t \in Socks, home[t] = q, NEW i \in DOMAIN received'[t],
               origin(received[t][i])' # q
        PROVE  (/\ Ahead(received[t][i])
                /\ \A j \in DOMAIN due(q) :
                     due(q)[j] > 0 /\ origin(received[t][i]) = origin(due(q)[j])
                       => received[t][i] < due(q)[j])'
    <3>1. CASE i \in DOMAIN received[t] /\ received'[t][i] = received[t][i]
      <4>1. Ahead(received[t][i])
        BY <1>1, <2>2, <3>1 DEF Downstream, origin
      <4>2. Ahead(received[t][i])'
        BY <1>1, <1>3, <3>1, <4>1 DEF Ahead, origin
      <4>3. \A j \in DOMAIN due(q)' : due(q)'[j] > 0
              /\ origin(received'[t][i]) = origin(due(q)'[j]) => received'[t][i] < due(q)'[j]
        BY <1>1, <1>3, <1>6, <2>2, <3>1 DEF Downstream, origin
      <4> QED
        BY <1>1, <4>2, <4>3 DEF origin
    <3>2. CASE t \in to /\ received'[t][i] = m
      <4>1. q = p
        BY <1>5, <2>2, <3>2
      <4>2. Ahead(received[t][i])'
        BY <1>1, <1>3, <1>7, <3>2 DEF Ahead, origin
      <4>3. \A j \in DOMAIN due(p)' : due(p)'[j] > 0
              /\ origin(m) = origin(due(p)'[j]) => m < due(p)'[j]
        BY <1>2, <1>6, <1>7 DEF Downstream
      <4> QED
        BY <1>1, <3>2, <4>1, <4>2, <4>3 DEF origin
    <3> QED
      BY <1>8, <3>1, <3>2
  <2> QED
    BY <2>1, <2>2 DEF Downstream
<1>13. Local'
  <2>1. ASSUME NEW t \in Socks, NEW u \in Socks, publishing'[u] # 0, home[t] = home[u],
               NEW i \in DOMAIN received'[t], source'[received'[t][i]] = u
        PROVE  received'[t][i] < publishing'[u]
    <3>1. i \in DOMAIN received[t] /\ received'[t][i] = received[t][i]
      BY <1>1, <1>5, <1>7, <1>8, <2>1 DEF origin
    <3> QED
      BY <1>1, <2>1, <3>1 DEF Local
  <2> QED
    BY <2>1 DEF Local
<1> QED
  BY <1>9, <1>10, <1>11, <1>12, <1>13

\* writeBus(): the parts of the frames follow those written before.
LEMMA WriteBusOrder ==
  ASSUME OrderInv, TypeInv', NEW p \in Procs, writeBus(p)
  PROVE  OrderInv'
<1> DEFINE F == frames(sendBuffer[p])
           L == Len(bytes(p))
<1> USE DEF OrderInv
<1>1. /\ UNCHANGED <<source, reading, buf, down, readBuffer, pending, publishing, received>>
      /\ up' = [up EXCEPT ![p] = @ \o F]
      /\ sendBuffer' = [sendBuffer EXCEPT ![p] = <<>>]
  BY DEF writeBus, unwritten, daemonVars, topicVars
<1>2. /\ sendBuffer \in [Procs -> Seq(Messages)] /\ up \in [Procs -> Seq(Part)]
      /\ buf \in Seq(Part) /\ TypeInv /\ <<>> \in Seq(Part)
  BY EmptySeq DEF TypeInv, TypeOK
<1>3. /\ F \in Seq(Part) /\ Len(F) = 2 * Len(sendBuffer[p])
      /\ \A i \in DOMAIN F :
           \E k \in DOMAIN sendBuffer[p] :
             /\ F[i].msg = sendBuffer[p][k]
             /\ \/ i = 2 * k - 1 /\ F[i].part = "head"
                \/ i = 2 * k /\ F[i].part = "tail"
  BY <1>2, FramesType
<1> HIDE DEF F
<1>4. bytes(p)' = bytes(p) \o F
  <2> DEFINE a == IF reading = p THEN buf ELSE <<>>
             u == up[p]
  <2>1. a \in Seq(Part) /\ u \in Seq(Part) /\ F \in Seq(Part)
    BY <1>2, <1>3
  <2>2. bytes(p) = a \o u /\ bytes(p)' = a \o (u \o F)
    BY <1>1, <1>2 DEF bytes
  <2> HIDE DEF a, u, OrderInv
  <2>3. (a \o u) \o F = a \o (u \o F)
    BY <2>1, Rejoin
  <2> QED
    BY <2>2, <2>3
<1>5. /\ \A q \in Procs : UNCHANGED <<due(q), wire(q)>>
      /\ \A q \in Procs : q # p => bytes(q)' = bytes(q) /\ sendBuffer'[q] = sendBuffer[q]
      /\ sendBuffer'[p] = <<>>
  BY <1>1, <1>2 DEF bytes, due, wire
<1>6. bytes(p) \in Seq(Part) /\ L \in Nat /\ DOMAIN bytes(p) = 1..L
  BY <1>2, WayType, WayDomains
<1>7. DOMAIN sendBuffer[p] \subseteq Int /\ DOMAIN sendBuffer'[p] = {}
  BY <1>2, <1>5, WayDomains
<1>8. \A i \in DOMAIN bytes(p)' :
        \/ i \in DOMAIN bytes(p) /\ bytes(p)'[i] = bytes(p)[i]
        \/ /\ i \in Int /\ i > L
           /\ \E k \in DOMAIN sendBuffer[p] :
                /\ bytes(p)'[i].msg = sendBuffer[p][k]
                /\ bytes(p)'[i].part = "head" => i = L + 2 * k - 1
  <2>1. /\ bytes(p) \o F \in Seq(Part) /\ Len(bytes(p) \o F) = L + Len(F)
        /\ \A i \in 1..(L + Len(F)) : (bytes(p) \o F)[i] = IF i <= L THEN bytes(p)[i] ELSE F[i - L]
    BY <1>3, <1>6, ConcatProperties
  <2>2. DOMAIN bytes(p)' = 1..(L + Len(F)) /\ DOMAIN F = 1..Len(F) /\ Len(F) \in Nat
    BY <1>3, <1>4, <2>1, LenProperties
  <2> TAKE i \in DOMAIN bytes(p)'
  <2> HIDE DEF L
  <2>3. CASE i <= L
    BY <1>4, <1>6, <2>1, <2>2, <2>3
  <2>4. CASE ~(i <= L)
    <3>1. i \in Int /\ i > L /\ i - L \in DOMAIN F /\ bytes(p)'[i] = F[i - L]
      BY <1>4, <1>6, <2>1, <2>2, <2>4
    <3>2. PICK k \in DOMAIN sendBuffer[p] :
            /\ F[i - L].msg = sendBuffer[p][k]
            /\ \/ i - L = 2 * k - 1 /\ F[i - L].part = "head"
               \/ i - L = 2 * k /\ F[i - L].part = "tail"
      BY <1>3, <3>1
    <3>3. bytes(p)'[i].part = "head" => i - L = 2 * k - 1
      BY <3>1, <3>2
    <3>4. bytes(p)'[i].part = "head" => i = L + 2 * k - 1
      BY <1>6, <1>7, <3>1, <3>3
    <3> QED
      BY <3>1, <3>2, <3>4
  <2> QED
    BY <2>3, <2>4
<1> HIDE DEF L
<1>9. Known'
  <2>1. ASSUME NEW q \in Procs, NEW i \in DOMAIN bytes(q)'
        PROVE  (Sent(bytes(q)[i].msg) /\ origin(bytes(q)[i].msg) = q)'
    BY <1>1, <1>5, <1>8 DEF Known, Sent, origin
  <2>2. ASSUME NEW q \in Procs, NEW i \in DOMAIN sendBuffer'[q]
        PROVE  (Sent(sendBuffer[q][i]) /\ origin(sendBuffer[q][i]) = q)'
    BY <1>1, <1>5, <1>7 DEF Known, Sent, origin
  <2> QED
    BY <1>1, <1>5, <2>1, <2>2 DEF Known, Sent, origin
<1>10. Upstream'
  <2>1. ASSUME NEW i \in DOMAIN bytes(p)', NEW j \in DOMAIN bytes(p)', i < j,
               bytes(p)'[i].part = "head", bytes(p)'[j].part = "head"
        PROVE  bytes(p)'[i].msg < bytes(p)'[j].msg
    <3>1. CASE j \in DOMAIN bytes(p) /\ bytes(p)'[j] = bytes(p)[j]
      BY <1>6, <1>8, <2>1, <3>1 DEF Upstream
    <3>2. CASE ~(j \in DOMAIN bytes(p) /\ bytes(p)'[j] = bytes(p)[j])
      <4>1. PICK k \in DOMAIN sendBuffer[p] :
              bytes(p)'[j].msg = sendBuffer[p][k] /\ j = L + 2 * k - 1
        BY <1>8, <2>1, <3>2
      <4>2. CASE i \in DOMAIN bytes(p) /\ bytes(p)'[i] = bytes(p)[i]
        BY <4>1, <4>2 DEF Upstream
      <4>3. CASE ~(i \in DOMAIN bytes(p) /\ bytes(p)'[i] = bytes(p)[i])
        <5>1. PICK l \in DOMAIN sendBuffer[p] :
                bytes(p)'[i].msg = sendBuffer[p][l] /\ i = L + 2 * l - 1
          BY <1>8, <2>1, <4>3
        <5>2. l < k
          BY <1>6, <1>7, <2>1, <4>1, <5>1
        <5> QED
          BY <4>1, <5>1, <5>2 DEF Upstream
      <4> QED
        BY <4>2, <4>3
    <3> QED
      BY <3>1, <3>2
  <2>2. ASSUME NEW q \in Procs, q # p
        PROVE  (/\ \A i, j \in DOMAIN sendBuffer[q] : i < j => sendBuffer[q][i] < sendBuffer[q][j]
                /\ \A i, j \in DOMAIN bytes(q) :
                     i < j /\ bytes(q)[i].part = "head" /\ bytes(q)[j].part = "head"
                       => bytes(q)[i].msg < bytes(q)[j].msg
                /\ \A i \in DOMAIN bytes(q), j \in DOMAIN sendBuffer[q] :
                     bytes(q)[i].msg < sendBuffer[q][j])'
    BY <1>5, <2>2 DEF Upstream
  <2> QED
    BY <1>7, <2>1, <2>2 DEF Upstream
<1>11. ASSUME NEW x, Ahead(x)
       PROVE  \A q \in Procs : home[source[x]] = q =>
                   /\ \A i \in DOMAIN bytes(q)' : bytes(q)'[i].part = "head" => x < bytes(q)'[i].msg
                   /\ \A i \in DOMAIN sendBuffer'[q] : x < sendBuffer'[q][i]
  <2> TAKE q \in Procs
  <2> HAVE home[source[x]] = q
  <2>1. CASE q = p
    BY <1>7, <1>8, <1>11, <2>1 DEF Ahead, origin
  <2>2. CASE q # p
    BY <1>5, <1>11, <2>2 DEF Ahead, origin
  <2> QED
    BY <2>1, <2>2
<1>12. Downstream'
  <2>1. ASSUME NEW q \in Procs, NEW i \in DOMAIN due(q)', due(q)'[i] > 0
        PROVE  (/\ Ahead(due(q)[i])
                /\ \A j \in DOMAIN due(q) :
                     i < j /\ due(q)[j] > 0 /\ origin(due(q)[i]) = origin(due(q)[j])
                       => due(q)[i] < due(q)[j])'
    <3>1. Ahead(due(q)[i]) /\ due(q)' = due(q)
      BY <1>5, <2>1 DEF Downstream
    <3>2. Ahead(due(q)[i])'
      BY <1>1, <1>11, <3>1 DEF Ahead, origin
    <3> QED
      BY <1>1, <2>1, <3>1, <3>2 DEF Downstream, origin
  <2>2. ASSUME NEW q \in Procs, NEW t \in Socks, home[t] = q, NEW i \in DOMAIN received'[t],
               origin(received[t][i])' # q
        PROVE  (/\ Ahead(received[t][i])
                /\ \A j \in DOMAIN due(q) :
                     due(q)[j] > 0 /\ origin(received[t][i]) = origin(due(q)[j])
                       => received[t][i] < due(q)[j])'
    <3>1. Ahead(received[t][i])'
      BY <1>1, <1>11, <2>2 DEF Downstream, Ahead, origin
    <3> QED
      BY <1>1, <1>5, <2>2, <3>1 DEF Downstream, origin
  <2> QED
    BY <2>1, <2>2 DEF Downstream
<1>13. Local' /\ InOrder' /\ Even'
  BY <1>1, <1>5 DEF Local, InOrder, Even
<1> QED
  BY <1>9, <1>10, <1>12, <1>13

-----------------------------------------------------------------------------
(* The daemon *)

\* A sequence whose first k elements are taken away.
LEMMA Drop ==
  ASSUME NEW S, NEW a \in Seq(S), NEW b \in Seq(S), NEW k \in Nat, k <= Len(a)
  PROVE  LET c == SubSeq(a, k + 1, Len(a)) \o b
         IN \A i \in DOMAIN c :
              i \in Int /\ i > 0 /\ i + k \in DOMAIN (a \o b) /\ c[i] = (a \o b)[i + k]
<1> DEFINE t == SubSeq(a, k + 1, Len(a))
           c == t \o b
<1>1. Len(a) \in Nat /\ Len(b) \in Nat
  BY LenProperties
<1>2. /\ t \in Seq(S) /\ Len(t) = Len(a) - k
      /\ \A i \in 1..Len(t) : t[i] = a[i + k]
  <2>1. /\ t \in Seq(S)
        /\ Len(t) = IF k + 1 <= Len(a) THEN Len(a) - (k + 1) + 1 ELSE 0
        /\ \A i \in 1..(Len(a) - (k + 1) + 1) : t[i] = a[(k + 1) + i - 1]
    BY <1>1, PieceType
  <2> HIDE DEF t
  <2>2. Len(t) = Len(a) - k
    <3>1. CASE k + 1 <= Len(a)
      BY <1>1, <2>1, <3>1
    <3>2. CASE k = Len(a)
      <4>1. ~(k + 1 <= Len(a)) /\ Len(a) - k = 0
        BY <1>1, <3>2
      <4> QED
        BY <2>1, <4>1
    <3> QED
      BY <1>1, <3>1, <3>2
  <2>3. \A i \in 1..Len(t) : (k + 1) + i - 1 = i + k
    BY <1>1, <2>2
  <2>4. Len(a) - (k + 1) + 1 = Len(t)
    BY <1>1, <2>2
  <2> QED
    BY <2>1, <2>2, <2>3, <2>4
<1> HIDE DEF t
<1>3. /\ a \o b \in Seq(S) /\ Len(a \o b) = Len(a) + Len(b)
      /\ \A i \in 1..(Len(a) + Len(b)) : (a \o b)[i] = IF i <= Len(a) THEN a[i] ELSE b[i - Len(a)]
  BY ConcatProperties
<1>4. /\ c \in Seq(S) /\ Len(c) = Len(t) + Len(b)
      /\ \A i \in 1..(Len(t) + Len(b)) : c[i] = IF i <= Len(t) THEN t[i] ELSE b[i - Len(t)]
  BY <1>2, ConcatProperties
<1>5. DOMAIN (a \o b) = 1..(Len(a) + Len(b)) /\ DOMAIN c = 1..(Len(t) + Len(b))
  BY <1>3, <1>4, LenProperties
<1> HIDE DEF c
<1>6. ASSUME NEW i \in DOMAIN c
      PROVE  i \in Int /\ i > 0 /\ i + k \in DOMAIN (a \o b) /\ c[i] = (a \o b)[i + k]
  <2>1. i \in 1..(Len(t) + Len(b)) /\ i + k \in 1..(Len(a) + Len(b))
    BY <1>1, <1>2, <1>5
  <2>2. CASE i <= Len(t)
    <3>1. i \in 1..Len(t) /\ i + k <= Len(a)
      BY <1>1, <1>2, <2>1, <2>2
    <3>2. c[i] = t[i] /\ t[i] = a[i + k]
      BY <1>2, <1>4, <2>1, <2>2, <3>1
    <3>3. (a \o b)[i + k] = a[i + k]
      BY <1>3, <2>1, <3>1
    <3> QED
      BY <1>5, <2>1, <3>2, <3>3
  <2>3. CASE ~(i <= Len(t))
    <3>1. ~(i + k <= Len(a)) /\ (i + k) - Len(a) = i - Len(t)
      BY <1>1, <1>2, <2>1, <2>3
    <3> QED
      BY <1>3, <1>4, <1>5, <2>1, <2>3, <3>1
  <2> QED
    BY <2>2, <2>3
<1> QED
  BY <1>6 DEF c, t

\* One frame more.
LEMMA WholeAppend ==
  ASSUME NEW w \in Seq(Part), NEW k \in Nat, Len(w) = 2 * k, NEW x \in -1..MaxMessages
  PROVE  whole(w \o frame(x)) = Append(whole(w), x) /\ Len(w \o frame(x)) = 2 * (k + 1)
<1> DEFINE f == frame(x)
           v == w \o f
<1>1. /\ f \in Seq(Part) /\ Len(f) = 2
      /\ f[2] = [msg |-> x, part |-> "tail"]
  BY FrameType
<1> HIDE DEF f
<1>2. /\ v \in Seq(Part) /\ Len(v) = Len(w) + 2
      /\ \A i \in 1..(Len(w) + 2) : v[i] = IF i <= Len(w) THEN w[i] ELSE f[i - Len(w)]
  <2>1. /\ v \in Seq(Part) /\ Len(v) = Len(w) + Len(f)
        /\ \A i \in 1..(Len(w) + Len(f)) : v[i] = IF i <= Len(w) THEN w[i] ELSE f[i - Len(w)]
    BY <1>1, ConcatProperties
  <2> HIDE DEF v
  <2> QED
    BY <1>1, <2>1
<1> HIDE DEF v
<1>3. Len(v) = 2 * (k + 1)
  BY <1>2
<1>4. Len(v) \div 2 = k + 1 /\ Len(w) \div 2 = k
  <2>1. 0 \div 2 = 0
    BY Half
  <2>2. (2 * (k + 1) + 0) \div 2 = (k + 1) + (0 \div 2) /\ (2 * k + 0) \div 2 = k + (0 \div 2)
    BY Halves
  <2> QED
    BY <1>3, <2>1, <2>2
<1>5. /\ whole(v) \in Seq(-1..MaxMessages) /\ Len(whole(v)) = k + 1
      /\ \A i \in 1..(k + 1) : whole(v)[i] = v[2 * i].msg
  BY <1>2, <1>4, WholeType
<1>6. /\ whole(w) \in Seq(-1..MaxMessages) /\ Len(whole(w)) = k
      /\ \A i \in 1..k : whole(w)[i] = w[2 * i].msg
  BY <1>4, WholeType
<1>7. /\ Append(whole(w), x) \in Seq(-1..MaxMessages) /\ Len(Append(whole(w), x)) = k + 1
      /\ \A i \in 1..k : Append(whole(w), x)[i] = whole(w)[i]
      /\ Append(whole(w), x)[k + 1] = x
  BY <1>6, AppendProperties
<1>8. ASSUME NEW i \in 1..(k + 1)
      PROVE  whole(v)[i] = Append(whole(w), x)[i]
  <2>1. CASE i <= k
    <3>1. 2 * i \in 1..(Len(w) + 2) /\ 2 * i <= Len(w) /\ i \in 1..k
      BY <2>1
    <3>2. v[2 * i] = w[2 * i]
      BY <1>2, <3>1
    <3> QED
      BY <1>5, <1>6, <1>7, <3>1, <3>2
  <2>2. CASE i = k + 1
    <3>1. 2 * i \in 1..(Len(w) + 2) /\ ~(2 * i <= Len(w)) /\ 2 * i - Len(w) = 2
      BY <2>2
    <3>2. v[2 * i] = f[2]
      BY <1>2, <3>1
    <3>3. v[2 * i].msg = x
      BY <1>1, <3>2
    <3> QED
      BY <1>5, <1>7, <2>2, <3>3
  <2>3. i <= k \/ i = k + 1
    OBVIOUS
  <2> QED
    BY <2>1, <2>2, <2>3
<1>9. whole(v) = Append(whole(w), x)
  BY <1>5, <1>7, <1>8, SeqEqual
<1> QED
  BY <1>3, <1>9 DEF v, f

\* What is left of the bytes, and what the others get.
Forwarded(r, x, k) ==
  /\ UNCHANGED <<source, sendBuffer, publishing, received>> /\ Even'
  /\ \A q \in Procs : q # r => bytes(q)' = bytes(q)
  /\ \A q \in Procs : q = r =>
       \A i \in DOMAIN bytes(q)' :
         i \in Int /\ i > 0 /\ i + k \in DOMAIN bytes(q) /\ bytes(q)'[i] = bytes(q)[i + k]
  /\ \A q \in Procs : due(q)' = due(q) \/ (q # r /\ due(q)' = Append(due(q), x))
  /\ x > 0 =>
       1 \in DOMAIN bytes(r) /\ bytes(r)[1].msg = x /\ bytes(r)[1].part = "head"

\* A frame is taken from the buffer of readSocket() and written to the others.
LEMMA ForwardEffect ==
  ASSUME TypeInv, Even, Forward
  PROVE  reading \in Procs /\ \E x \in -1..MaxMessages, k \in Nat \ {0} : Forwarded(reading, x, k)
<1>1. PICK f \in FrontFrames :
        /\ f[2] <= Len(buf)
        /\ down' = [p \in Procs |-> IF p \in others \cap joined
                                      THEN down[p] \o frame(f[1]) ELSE down[p]]
        /\ buf' = SubSeq(buf, f[2] + 1, Len(buf))
  BY DEF Forward
<1> DEFINE x == f[1]
           k == f[2]
<1>2. /\ reading # NoProc /\ reading' = (IF buf' = <<>> THEN NoProc ELSE reading)
      /\ UNCHANGED <<source, sendBuffer, publishing, received, up, readBuffer, pending>>
  BY DEF Forward, inLoop, serverVars, stepVars, topicVars
<1>3. /\ reading \in Procs /\ buf \in Seq(Part) /\ up[reading] \in Seq(Part) /\ NoProc \notin Procs
      /\ readBuffer \in [Procs -> Seq(Part)] /\ down \in [Procs -> Seq(Part)]
      /\ pending \in [Procs -> Seq(-1..MaxMessages)]
  BY <1>2, BusAssumption DEF TypeInv, TypeOK
<1>4. x \in -1..MaxMessages /\ k \in Nat \ {0} /\ Len(buf) \in Nat \ {0}
  BY <1>1, <1>2, FrontType
<1>5. \A q \in Procs : q # reading => bytes(q)' = bytes(q)
  BY <1>2, <1>3 DEF bytes
<1>6. bytes(reading) = buf \o up[reading]
  BY <1>2 DEF bytes
<1>7. ASSUME NEW q \in Procs, q = reading
      PROVE  bytes(q)' = SubSeq(buf, k + 1, Len(buf)) \o up[q]
  <2>1. bytes(q)' = (IF reading' = q THEN buf' ELSE <<>>) \o up[q]
    BY <1>2 DEF bytes
  <2>2. (IF reading' = q THEN buf' ELSE <<>>) = buf'
    BY <1>2, <1>3, <1>7
  <2> QED
    BY <1>1, <2>1, <2>2
<1>8. ASSUME NEW q \in Procs, q = reading, NEW i \in DOMAIN bytes(q)'
      PROVE  i \in Int /\ i > 0 /\ i + k \in DOMAIN bytes(q) /\ bytes(q)'[i] = bytes(q)[i + k]
  <2> DEFINE u == up[q]
             c == SubSeq(buf, k + 1, Len(buf)) \o u
  <2>1. k \in Nat /\ k <= Len(buf) /\ buf \in Seq(Part) /\ u \in Seq(Part)
    BY <1>1, <1>3, <1>4, <1>8
  <2>2. bytes(q) = buf \o u /\ bytes(q)' = c
    BY <1>6, <1>7, <1>8
  <2> HIDE DEF k, u
  <2>3. \A j \in DOMAIN c :
          j \in Int /\ j > 0 /\ j + k \in DOMAIN (buf \o u) /\ c[j] = (buf \o u)[j + k]
    BY SMTT(60), <2>1, Drop
  <2> HIDE DEF c
  <2> QED
    BY <1>8, <2>2, <2>3
<1>9. x > 0 =>
        1 \in DOMAIN bytes(reading) /\ bytes(reading)[1].msg = x /\ bytes(reading)[1].part = "head"
  <2> SUFFICES ASSUME x > 0
               PROVE  /\ 1 \in DOMAIN bytes(reading) /\ bytes(reading)[1].msg = x
                      /\ bytes(reading)[1].part = "head"
    OBVIOUS
  <2>1. buf[1].part = "head" /\ buf[1].msg = x
    BY <1>1, <1>4 DEF FrontFrames, Garbage, Fragment
  <2>2. Len(up[reading]) \in Nat
    BY <1>3, LenProperties
  <2>3. /\ buf \o up[reading] \in Seq(Part)
        /\ Len(buf \o up[reading]) = Len(buf) + Len(up[reading])
        /\ \A i \in 1..(Len(buf) + Len(up[reading])) :
             (buf \o up[reading])[i] = IF i <= Len(buf) THEN buf[i] ELSE up[reading][i - Len(buf)]
    BY <1>3, ConcatProperties
  <2>4. 1 \in DOMAIN (buf \o up[reading]) /\ (buf \o up[reading])[1] = buf[1]
    BY <1>4, <2>2, <2>3, LenProperties
  <2> QED
    BY <1>6, <2>1, <2>4
<1> HIDE DEF x, k
<1>10. ASSUME NEW q \in Procs
       PROVE  /\ due(q)' = due(q) \/ (q # reading /\ due(q)' = Append(due(q), x))
              /\ \E n \in Nat : Len(wire(q)') = 2 * n
  <2>1. PICK n \in Nat : Len(wire(q)) = 2 * n
    BY DEF Even
  <2>2. CASE q \in others \cap joined
    <3>1. down'[q] = down[q] \o frame(x) /\ q # reading
      BY <1>1, <2>2 DEF others, x
    <3> DEFINE f2 == frame(x)
               b == readBuffer[q]
               d == down[q]
               w == wire(q)
               a == pending[q]
    <3>2. /\ f2 \in Seq(Part) /\ b \in Seq(Part) /\ d \in Seq(Part) /\ a \in Seq(-1..MaxMessages)
          /\ w \in Seq(Part)
      BY <1>3, <1>4, FrameType, WayType
    <3>3. w = b \o d /\ wire(q)' = b \o (d \o f2)
      BY <1>2, <3>1 DEF wire
    <3> HIDE DEF f2, b, d, w, a
    <3>4. (b \o d) \o f2 = b \o (d \o f2)
      BY <3>2, Rejoin
    <3>5. wire(q)' = w \o f2
      BY <3>3, <3>4
    <3>6. whole(w \o f2) = Append(whole(w), x) /\ Len(w \o f2) = 2 * (n + 1)
      BY <1>4, <2>1, <3>2, WholeAppend DEF w, f2
    <3>7. whole(w) \in Seq(-1..MaxMessages)
      BY <3>2, WholeType
    <3>8. due(q)' = a \o whole(w \o f2)
      BY <1>2, <3>5 DEF due, a, whole
    <3>9. a \o Append(whole(w), x) = Append(a \o whole(w), x)
      <4> DEFINE v == whole(w)
      <4>1. v \in Seq(-1..MaxMessages) /\ <<x>> \in Seq(-1..MaxMessages)
        BY <1>4, <3>7
      <4> HIDE DEF v
      <4>2. a \o v \in Seq(-1..MaxMessages)
        BY <3>2, <4>1, ConcatProperties
      <4>3. Append(v, x) = v \o <<x>> /\ Append(a \o v, x) = (a \o v) \o <<x>>
        BY <1>4, <4>1, <4>2, AppendIsConcat
      <4>4. (a \o v) \o <<x>> = a \o (v \o <<x>>)
        BY SMTT(60), <3>2, <4>1, ConcatAssociative
      <4> QED
        BY <4>3, <4>4 DEF v
    <3>10. due(q)' = Append(due(q), x)
      BY <3>6, <3>8, <3>9 DEF due, a, w
    <3>11. n + 1 \in Nat /\ Len(wire(q)') = 2 * (n + 1)
      BY <3>5, <3>6
    <3> QED
      BY <3>1, <3>10, <3>11
  <2>3. CASE q \notin others \cap joined
    <3>1. wire(q)' = wire(q)
      BY <1>1, <1>2, <2>3 DEF wire
    <3>2. due(q)' = due(q)
      BY <1>2, <3>1 DEF due, whole
    <3> QED
      BY <2>1, <3>1, <3>2
  <2> QED
    BY <2>2, <2>3
<1>11. Even'
  BY <1>10 DEF Even
<1>12. Forwarded(reading, x, k)
  BY <1>2, <1>5, <1>8, <1>9, <1>10, <1>11 DEF Forwarded
<1> QED
  BY <1>3, <1>4, <1>12

\* The daemon forwards the oldest part that it has from a server.
LEMMA ForwardOrder ==
  ASSUME OrderInv, TypeInv', Forward
  PROVE  OrderInv'
<1> USE DEF OrderInv
<1>1. PICK r \in Procs, x \in -1..MaxMessages, k \in Nat \ {0} : Forwarded(r, x, k)
  BY ForwardEffect
<1>2. /\ UNCHANGED <<source, sendBuffer, publishing, received>> /\ Even'
      /\ \A q \in Procs : q # r => bytes(q)' = bytes(q)
      /\ \A i \in DOMAIN bytes(r)' :
           i \in Int /\ i > 0 /\ i + k \in DOMAIN bytes(r) /\ bytes(r)'[i] = bytes(r)[i + k]
      /\ x > 0 =>
           1 \in DOMAIN bytes(r) /\ bytes(r)[1].msg = x /\ bytes(r)[1].part = "head"
  BY <1>1 DEF Forwarded
<1>3. /\ x \in Int
      /\ \A q \in Procs : \A i \in DOMAIN due(q)' :
           \/ i \in DOMAIN due(q) /\ due(q)'[i] = due(q)[i]
           \/ q # r /\ i = Len(due(q)) + 1 /\ due(q)'[i] = x
  <2>1. ASSUME NEW q \in Procs, NEW i \in DOMAIN due(q)'
        PROVE  \/ i \in DOMAIN due(q) /\ due(q)'[i] = due(q)[i]
               \/ q # r /\ i = Len(due(q)) + 1 /\ due(q)'[i] = x
    <3>1. CASE due(q)' = due(q)
      BY <2>1, <3>1
    <3>2. CASE q # r /\ due(q)' = Append(due(q), x)
      <4> DEFINE d == due(q)
      <4>1. d \in Seq(-1..MaxMessages)
        BY WayType
      <4> HIDE DEF d
      <4>2. /\ Append(d, x) \in Seq(-1..MaxMessages) /\ Len(Append(d, x)) = Len(d) + 1
            /\ \A j \in 1..Len(d) : Append(d, x)[j] = d[j]
            /\ Append(d, x)[Len(d) + 1] = x
        BY <4>1, AppendProperties
      <4>3. DOMAIN d = 1..Len(d) /\ DOMAIN Append(d, x) = 1..(Len(d) + 1) /\ Len(d) \in Nat
        BY <4>1, <4>2, LenProperties
      <4>4. due(q)' = Append(d, x)
        BY <3>2 DEF d
      <4>5. \A j \in DOMAIN Append(d, x) :
              \/ j \in DOMAIN d /\ Append(d, x)[j] = d[j]
              \/ j = Len(d) + 1 /\ Append(d, x)[j] = x
        BY <4>2, <4>3
      <4> QED
        BY <2>1, <3>2, <4>4, <4>5 DEF d
    <3> QED
      BY <1>1, <3>1, <3>2 DEF Forwarded
  <2> QED
    BY <2>1
<1>4. \A q \in Procs : DOMAIN due(q) = 1..Len(due(q)) /\ Len(due(q)) \in Nat
  BY WayDomains
<1>5. x > 0 => Sent(x) /\ origin(x) = r
  BY <1>2 DEF Known
<1>6. \A i \in DOMAIN bytes(r)' : bytes(r)'[i].part = "head" /\ x > 0 => x < bytes(r)'[i].msg
  <2> TAKE i \in DOMAIN bytes(r)'
  <2> HAVE bytes(r)'[i].part = "head" /\ x > 0
  <2>1. i + k \in DOMAIN bytes(r) /\ bytes(r)'[i] = bytes(r)[i + k] /\ 1 < i + k
    BY <1>2
  <2> QED
    BY <1>2, <2>1 DEF Upstream
<1>7. Known'
  <2>1. ASSUME NEW q \in Procs, NEW i \in DOMAIN bytes(q)'
        PROVE  (Sent(bytes(q)[i].msg) /\ origin(bytes(q)[i].msg) = q)'
    BY <1>2 DEF Known, Sent, origin
  <2>2. ASSUME NEW q \in Procs, NEW i \in DOMAIN due(q)', due(q)'[i] > 0
        PROVE  (Sent(due(q)[i]) /\ origin(due(q)[i]) # q)'
    BY <1>2, <1>3, <1>5, <2>2 DEF Known, Sent, origin
  <2> QED
    BY <1>2, <2>1, <2>2 DEF Known, Sent, origin
<1>8. Upstream'
  <2>1. ASSUME NEW q \in Procs, NEW i \in DOMAIN bytes(q)', NEW j \in DOMAIN bytes(q)', i < j,
               bytes(q)'[i].part = "head", bytes(q)'[j].part = "head"
        PROVE  bytes(q)'[i].msg < bytes(q)'[j].msg
    <3>1. CASE q = r
      <4>1. /\ i + k \in DOMAIN bytes(r) /\ bytes(r)'[i] = bytes(r)[i + k]
            /\ j + k \in DOMAIN bytes(r) /\ bytes(r)'[j] = bytes(r)[j + k]
            /\ i + k < j + k
        BY <1>2, <2>1, <3>1
      <4> QED
        BY <2>1, <3>1, <4>1 DEF Upstream
    <3>2. CASE q # r
      BY <1>2, <2>1, <3>2 DEF Upstream
    <3> QED
      BY <3>1, <3>2
  <2>2. ASSUME NEW q \in Procs, NEW i \in DOMAIN bytes(q)', NEW j \in DOMAIN sendBuffer'[q]
        PROVE  bytes(q)'[i].msg < sendBuffer'[q][j]
    BY <1>2 DEF Upstream
  <2> QED
    BY <1>2, <2>1, <2>2 DEF Upstream
<1>9. ASSUME NEW y, Ahead(y)
      PROVE  Ahead(y)'
  BY <1>2, <1>9 DEF Ahead, origin
<1>10. x > 0 => \A q \in Procs : origin(x) = q =>
         /\ \A i \in DOMAIN bytes(q)' : bytes(q)'[i].part = "head" => x < bytes(q)'[i].msg
         /\ \A i \in DOMAIN sendBuffer[q] : x < sendBuffer[q][i]
  BY <1>2, <1>5, <1>6 DEF Upstream
<1>11. Downstream'
  <2>1. ASSUME NEW q \in Procs, NEW i \in DOMAIN due(q)', due(q)'[i] > 0
        PROVE  (/\ Ahead(due(q)[i])
                /\ \A j \in DOMAIN due(q) :
                     i < j /\ due(q)[j] > 0 /\ origin(due(q)[i]) = origin(due(q)[j])
                       => due(q)[i] < due(q)[j])'
    <3>1. CASE i \in DOMAIN due(q) /\ due(q)'[i] = due(q)[i]
      <4>1. Ahead(due(q)[i])
        BY <2>1, <3>1 DEF Downstream
      <4>2. Ahead(due(q)[i])'
        BY <1>2, <3>1, <4>1 DEF Ahead, origin
      <4>3. ASSUME NEW j \in DOMAIN due(q)', i < j, due(q)'[j] > 0,
                   origin(due(q)'[i]) = origin(due(q)'[j])
            PROVE  due(q)'[i] < due(q)'[j]
        <5>1. CASE j \in DOMAIN due(q) /\ due(q)'[j] = due(q)[j]
          BY <2>1, <3>1, <4>3, <5>1 DEF Downstream
        <5>2. CASE due(q)'[j] = x
          <6>1. x > 0 /\ origin(due(q)[i]) = r
            BY <1>5, <3>1, <4>3, <5>2
          <6> QED
            BY <1>2, <3>1, <4>1, <5>2, <6>1 DEF Ahead
        <5> QED
          BY <1>3, <5>1, <5>2
      <4> QED
        BY <1>2, <4>2, <4>3 DEF origin
    <3>2. CASE i = Len(due(q)) + 1 /\ due(q)'[i] = x
      <4>1. Ahead(due(q)[i])'
        BY <1>2, <1>10, <2>1, <3>2 DEF Ahead, origin
      <4>2. \A j \in DOMAIN due(q)' : ~(i < j)
        BY <1>3, <1>4, <3>2
      <4> QED
        BY <4>1, <4>2
    <3> QED
      BY <1>3, <3>1, <3>2
  <2>2. ASSUME NEW q \in Procs, NEW t \in Socks, home[t] = q, NEW i \in DOMAIN received'[t],
               origin(received[t][i])' # q
        PROVE  (/\ Ahead(received[t][i])
                /\ \A j \in DOMAIN due(q) :
                     due(q)[j] > 0 /\ origin(received[t][i]) = origin(due(q)[j])
                       => received[t][i] < due(q)[j])'
    <3>1. received' = received /\ Ahead(received[t][i]) /\ origin(received[t][i]) # q
      BY <1>2, <2>2 DEF Downstream, origin
    <3>2. Ahead(received[t][i])'
      BY <1>2, <3>1 DEF Ahead, origin
    <3>3. ASSUME NEW j \in DOMAIN due(q)', due(q)'[j] > 0,
                 origin(received[t][i]) = origin(due(q)'[j])
          PROVE  received[t][i] < due(q)'[j]
      <4>1. CASE j \in DOMAIN due(q) /\ due(q)'[j] = due(q)[j]
        BY <2>2, <3>1, <3>3, <4>1 DEF Downstream
      <4>2. CASE due(q)'[j] = x
        <5>1. x > 0 /\ origin(received[t][i]) = r
          BY <1>5, <3>3, <4>2
        <5> QED
          BY <1>2, <3>1, <4>2, <5>1 DEF Ahead
      <4> QED
        BY <1>3, <4>1, <4>2
    <3> QED
      BY <1>2, <3>1, <3>2, <3>3 DEF origin
  <2> QED
    BY <2>1, <2>2 DEF Downstream
<1>12. Local' /\ InOrder'
  BY <1>2 DEF Local, InOrder
<1> QED
  BY <1>2, <1>7, <1>8, <1>11, <1>12

-----------------------------------------------------------------------------
(* The theorems *)

\* Nothing is on the way at first.
LEMMA OrderInit == Init => OrderInv
<1> SUFFICES ASSUME Init PROVE OrderInv
  OBVIOUS
<1>1. TypeInv
  BY TypeInit
<1>2. <<>> \in Seq(Part) /\ <<>> \in Seq(-1..MaxMessages) /\ Len(<<>>) = 0 /\ DOMAIN <<>> = {}
  BY EmptySeq
<1>3. \A p \in Procs : bytes(p) = <<>> /\ wire(p) = <<>>
  <2>1. \A p \in Procs : bytes(p) = <<>> \o <<>> /\ wire(p) = <<>> \o <<>>
    BY BusAssumption DEF Init, bytes, wire
  <2> QED
    BY <1>2, <2>1, ConcatEmptySeq
<1>4. \A p \in Procs : due(p) = <<>>
  <2>1. 0 \div 2 = 0
    BY Half
  <2>2. whole(<<>>) = <<>>
    BY <1>2, <2>1, WholeType, EmptySeq
  <2>3. \A p \in Procs : due(p) = <<>> \o <<>>
    BY <1>3, <2>2 DEF Init, due
  <2> QED
    BY <1>2, <2>3, ConcatEmptySeq
<1>5. Even
  <2>1. Len(<<>>) = 2 * 0
    BY <1>2
  <2> QED
    BY <1>3, <2>1 DEF Even
<1>6. Known /\ Upstream /\ Downstream /\ Local /\ InOrder
  BY <1>2, <1>3, <1>4 DEF Init, Known, Upstream, Downstream, Local, InOrder
<1> QED
  BY <1>1, <1>5, <1>6 DEF OrderInv

\* Every step keeps the order.
LEMMA OrderStep ==
  ASSUME OrderInv, [Next]_vars
  PROVE  OrderInv'
<1>1. TypeInv /\ Even /\ TypeInv'
  BY TypeStep DEF OrderInv
<1>2. CASE UNCHANGED vars
  BY <1>1, <1>2, ShrinkQuiet, OrderShrink DEF vars, daemonVars, serverVars, stepVars, topicVars
<1>3. ASSUME NEW p \in Procs, Join(p) \/ acceptConnection(p) \/ handleDisconnect(p)
      PROVE  OrderInv'
  BY <1>1, <1>3, ShrinkQuiet, OrderShrink
     DEF Join, acceptConnection, handleDisconnect, daemonVars, serverVars, stepVars, topicVars
<1>4. ASSUME NEW p \in Procs, Leave(p) \/ readSocket(p)
      PROVE  OrderInv'
  BY <1>1, <1>4, ShrinkLeave, ShrinkTake, OrderShrink
<1>5. ASSUME NEW p \in Procs, Server(p)
      PROVE  OrderInv'
  <2>1. CASE recvAllForever(p)
    BY <1>1, <2>1, ShrinkQuiet, OrderShrink DEF recvAllForever, daemonVars, topicVars
  <2> QED
    BY <1>1, <1>5, <2>1, WriteBusOrder, ShrinkReadBus, ShrinkGet, PublishOrder, OrderShrink DEF Server
<1>6. ASSUME NEW s \in Socks, Worker(s)
      PROVE  OrderInv'
  <2>1. CASE (\E flag \in Flags : Subscribe(s, flag)) \/ Unsubscribe(s)
    BY <1>1, <2>1, ShrinkQuiet, OrderShrink DEF Subscribe, Unsubscribe, daemonVars, serverVars, stepVars
  <2>2. CASE PublishSend(s) \/ PublishLocal(s)
    BY <1>1, <2>2, PublishSendOrder, PublishLocalOrder
  <2> QED
    BY <1>6, <2>1, <2>2 DEF Worker
<1>7. CASE InReadSocket
  <2>1. CASE ReadMore
    <3>1. reading \in Procs
      BY <1>1, <2>1 DEF ReadMore, incomplete, inLoop, TypeInv, TypeOK
    <3> QED
      BY <1>1, <2>1, <3>1, ShrinkTake, OrderShrink
  <2>2. CASE TooShort
    BY <1>1, <2>2, ShrinkTooShort, OrderShrink
  <2>3. CASE ForwardForever
    BY <1>1, <2>3, ShrinkQuiet, OrderShrink DEF ForwardForever, serverVars, topicVars
  <2> QED
    BY <1>1, <1>7, <2>1, <2>2, <2>3, ForwardOrder DEF InReadSocket
<1> QED
  BY <1>2, <1>3, <1>4, <1>5, <1>6, <1>7 DEF Next, Handler

\* The order of what is on the way, with which InOrder is inductive.
THEOREM SpecOrderInv == Spec => []OrderInv
BY OrderInit, OrderStep, PTL DEF Spec

\* Every websocket gets each message at most once and those of a server in the
\* order in which it sent them (InOrder), however the frames are cut in pieces
\* and whatever pieces are lost.
THEOREM SpecInOrder == Spec => []InOrder
<1>1. OrderInv => InOrder
  BY DEF OrderInv
<1> QED
  BY <1>1, SpecOrderInv, PTL

\* The bus never brings a websocket its own message: it gets it in publish()
\* itself, and only with the flag "local" (OwnMessage).
THEOREM SpecOwnMessage == Spec => OwnMessage
<1> DEFINE Own == \A s \in Socks : Len(received'[s]) > Len(received[s]) =>
                    LET m == received'[s][Len(received'[s])]
                    IN source[m] = s => publishing[s] = m /\ subscribers[s] = "local"
<1>1. OrderInv /\ [Next]_vars => [Own]_vars
  <2> SUFFICES ASSUME OrderInv, [Next]_vars, NEW s \in Socks,
                      Len(received'[s]) > Len(received[s]),
                      source[received'[s][Len(received'[s])]] = s
               PROVE  /\ publishing[s] = received'[s][Len(received'[s])]
                      /\ subscribers[s] = "local"
    OBVIOUS
  <2> DEFINE last == received'[s][Len(received'[s])]
  <2>0. /\ TypeInv /\ Known /\ received \in [Socks -> Seq(Messages)]
        /\ subscribers \in [Socks -> {"no", "local", "others"}]
        /\ Len(received[s]) \in Nat
    BY LenProperties DEF OrderInv, TypeInv, TypeOK
  <2>1. received'[s] # received[s] /\ received'[s] # <<>>
    BY <2>0, EmptySeq
  <2>2. ASSUME NEW m \in Messages, NEW to, deliver(m, to)
        PROVE  s \in to /\ last = m
    <3>1. received'[s] = IF s \in to THEN Append(received[s], m) ELSE received[s]
      BY <2>2 DEF deliver
    <3>2. s \in to /\ received'[s] = Append(received[s], m)
      BY <2>1, <3>1
    <3>3. received[s] \in Seq(Messages)
      BY <2>0
    <3> QED
      BY <3>2, <3>3, AppendProperties
  <2>3. ASSUME NEW t \in Socks, PublishLocal(t)
        PROVE  publishing[s] = last /\ subscribers[s] = "local"
    <3>1. publishing[t] \in Messages /\ source[publishing[t]] = t
      BY <2>0, <2>3 DEF PublishLocal, TypeInv, TypeOK, Known
    <3>2. s \in Subscribed(home[t]) \ except(t) /\ last = publishing[t]
      BY <2>2, <2>3, <3>1 DEF PublishLocal
    <3>3. t = s
      BY <3>1, <3>2
    <3>4. subscribers[s] # "no" /\ s \notin except(s)
      BY <3>2, <3>3 DEF Subscribed
    <3> QED
      BY <2>0, <3>2, <3>3, <3>4 DEF except
  <2>4. ASSUME NEW p \in Procs, publish(p)
        PROVE  FALSE
    <3>1. pending[p] # <<>> /\ Head(pending[p]) \in Messages
      BY <2>0, <2>4 DEF publish, TypeInv, Holding
    <3>2. s \in (IF pub[p] = "held" THEN Subscribed(p) ELSE {}) /\ last = Head(pending[p])
      BY <2>2, <2>4, <3>1 DEF publish
    <3>3. home[s] = p
      BY <3>2 DEF Subscribed
    <3>4. origin(Head(pending[p])) # p
      BY <2>0, <3>1, DueHead DEF Known, Messages, Garbage
    <3> QED
      BY <3>2, <3>3, <3>4 DEF origin
  <2>5. ASSUME NEW p \in Procs, Leave(p)
        PROVE  FALSE
    BY <2>1, <2>5 DEF Leave
  <2>6. ASSUME NEW p \in Procs,
               \/ Join(p) \/ writeBus(p) \/ readBus(p) \/ recvAllForever(p)
               \/ get(p) \/ pass(p) \/ Handler(p)
        PROVE  FALSE
    BY <2>1, <2>6 DEF Join, writeBus, readBus, recvAllForever, get, pass, Handler,
                      acceptConnection, readSocket, handleDisconnect, topicVars
  <2>7. ASSUME NEW t \in Socks, (\E flag \in Flags : Subscribe(t, flag)) \/ Unsubscribe(t)
                                \/ PublishSend(t)
        PROVE  FALSE
    BY <2>1, <2>7 DEF Subscribe, Unsubscribe, PublishSend
  <2>8. CASE InReadSocket \/ UNCHANGED vars
    BY <2>1, <2>8 DEF InReadSocket, Forward, ForwardForever, ReadMore, TooShort, topicVars, vars
  <2> HIDE DEF last
  <2>9. CASE \E p \in Procs : Join(p) \/ Leave(p) \/ Server(p) \/ Handler(p)
    BY <2>4, <2>5, <2>6, <2>9 DEF Server
  <2>10. CASE \E t \in Socks : Worker(t)
    BY <2>3, <2>7, <2>10 DEF Worker, last
  <2> QED
    BY <2>8, <2>9, <2>10 DEF Next
<1> QED
  BY <1>1, SpecOrderInv, PTL DEF Spec, OwnMessage
=============================================================================
