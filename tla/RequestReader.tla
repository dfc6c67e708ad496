---------------------------- MODULE RequestReader ----------------------------
(***************************************************************************)
(* How requests are cut from the stream of a keep-alive connection, by     *)
(* THttpSocket and TActionThread (MPM "thread") or by TEpollHttpSocket and *)
(* TActionWorker ("hybrid").                                               *)
(*                                                                         *)
(* The stream has units: for each request the start of its header, the     *)
(* end of its header with Content-Length and the empty line, and its body. *)
(* A position counts units from the start of the connection, so that a     *)
(* buffer is the stretch between two positions.                            *)
(***************************************************************************)
EXTENDS Integers, Sequences

CONSTANTS
  Count,        \* requests the client sends
  end,          \* [0..Count -> Nat]: the position after each; 0 before the first
  InFile,       \* requests whose body is written to a file (multipart, large)
  Windows       \* numbers of requests a client may send before it waits for an answer

ASSUME ReaderAssumption ==
  /\ Count \in Nat
  /\ end \in [0..Count -> Nat] /\ end[0] = 0
  /\ \A q, r \in 0..Count : q < r => end[q] + 2 <= end[r]
  /\ InFile \subseteq 1..Count
  /\ Windows \subseteq Nat \ {0}

Requests == 1..Count
HeaderEnd(r) == end[r - 1] + 2
Size == end[Count]

\* A request as the program has cut it: its header starts after the first
\* position and ends at the second, its body ends at the third.
Cut == [start : 0..Size, head : 0..Size, stop : 0..Size]
Whole(r) == [start |-> end[r - 1], head |-> HeaderEnd(r), stop |-> end[r]]

VARIABLES
  mpm,          \* "thread" or "hybrid", a setting
  window,       \* the client's number
  long,         \* the last request has a Content-Length of 2^31 or more
  wrote,        \* the client has sent the stream up to here
  held,         \* it was read out of the QTcpSocket up to here
  got,          \* readBuffer, httpBuffer: from the position start to here
  start,
  lengthToRead,
  pc,
  reqs,         \* requests that are still to be executed
  answered      \* ghost: those that were executed

buffer == <<held, got, start, lengthToRead>>
settings == <<mpm, window, long>>
HttpVars == <<settings, wrote, buffer, pc, reqs, answered>>

HttpTypeOK ==
  /\ mpm \in {"thread", "hybrid"} /\ window \in Windows /\ long \in BOOLEAN
  /\ wrote \in 0..Size /\ held \in 0..wrote /\ got \in 0..held /\ start \in 0..got
  /\ lengthToRead \in -1..Size + 1
  /\ pc \in {"read", "recv", "generate", "execute", "next", "closed"}
  /\ reqs \in Seq(Cut) /\ answered \in Seq(Cut)

HttpInit ==
  /\ mpm \in {"thread", "hybrid"} /\ window \in Windows /\ long \in BOOLEAN
  /\ wrote = 0 /\ held = 0 /\ got = 0 /\ start = 0 /\ lengthToRead = -1
  /\ pc = "read" /\ reqs = <<>> /\ answered = <<>>

-----------------------------------------------------------------------------
(* The client sends the next request when it has the answers to all but    *)
(* the last few, in pieces.                                                *)

mayWrite == end[IF Len(answered) + window > Count THEN Count ELSE Len(answered) + window]

Write ==
  /\ pc # "closed"
  /\ wrote' \in wrote + 1..mayWrite
  /\ UNCHANGED <<settings, buffer, pc, reqs, answered>>

-----------------------------------------------------------------------------
(* Cutting *)

\* indexOf("\r\n\r\n"): the headers that end in the buffer, if it reaches to.
headers(to) == {r \in Requests : start < HeaderEnd(r) /\ HeaderEnd(r) <= to}
firstHeader(to) == CHOOSE r \in headers(to) : \A q \in headers(to) : r <= q
lastHeader(to)  == CHOOSE r \in headers(to) : \A q \in headers(to) : q <= r

Least(m, n) == IF m <= n THEN m ELSE n
Most(m, n)  == IF m >= n THEN m ELSE n

\* Where a body ends by its Content-Length; a long one does not end in the stream.
bodyEnd(r) == IF long /\ r = Count THEN Size + 1 ELSE end[r]

\* parse(): what is missing of the first request, -1 if unknown.
missing(to) == IF headers(to) = {} THEN -1 ELSE Most(bodyEnd(firstHeader(to)) - to, 0)

\* New bytes: what is still missing then.
remaining_Header(to) ==                                           \* mutant
  IF lengthToRead < 0 /\ missing(to) > 0
  THEN bodyEnd(firstHeader(to)) - HeaderEnd(firstHeader(to))
  ELSE IF lengthToRead < 0 THEN missing(to) ELSE Most(lengthToRead - (to - got), 0)
remaining(to) == IF lengthToRead < 0 THEN missing(to) ELSE Most(lengthToRead - (to - got), 0)

\* THttpRequest::generate(): each header starts where the body before it ends,
\* and a body ends with the buffer if that comes first. A long one, a negative
\* number in contlen, is empty.
cut(r, to) == [start |-> IF r = firstHeader(to) THEN start ELSE end[r - 1],
               head |-> HeaderEnd(r),
               stop |-> IF long /\ r = Count THEN HeaderEnd(r) ELSE Least(end[r], to)]
generate(to) ==
  [i \in 1..lastHeader(to) - firstHeader(to) + 1 |-> cut(firstHeader(to) + i - 1, to)]

\* From a long one, generate() goes back (a long one that comes first is never
\* complete). It ends, or cuts the end of the same header as a request, or, from
\* before the buffer, the first header with what follows here for its body.
overflows(to) == long /\ Count \in headers(to) /\ Count # firstHeader(to)
lastAgain == [start |-> HeaderEnd(Count) - 1, head |-> HeaderEnd(Count),
              stop |-> HeaderEnd(Count)]
firstAgain(to) ==
  [start |-> start, head |-> HeaderEnd(firstHeader(to)),
   stop |-> Least(HeaderEnd(Count) + end[firstHeader(to)] - HeaderEnd(firstHeader(to)), to)]
again(to) == IF overflows(to) THEN {<<>>, <<lastAgain>>, <<firstAgain(to)>>} ELSE {<<>>}

\* THttpSocket::read() with the body in a file: all the bytes belong to it.
single(to) == <<[start |-> start, head |-> HeaderEnd(firstHeader(to)), stop |-> to]>>

inFile(to) == firstHeader(to) \in InFile

\* What was read out but not kept is lost with the buffer.
clear_Kept == UNCHANGED <<start, got>> /\ lengthToRead' = -1       \* mutant
clear == start' = held /\ got' = held /\ lengthToRead' = -1

\* The requests of the buffer. Where the same header is found again and again,
\* generate() never returns.
CutRequests ==
  /\ clear
  /\ UNCHANGED <<settings, wrote, held, answered>>
  /\ \/ \E s \in again(got) : reqs' = generate(got) \o s /\ pc' = "execute"
     \/ overflows(got) /\ UNCHANGED reqs /\ pc' = "generate"

-----------------------------------------------------------------------------
(* MPM "thread" *)

\* The slot readRequest() reads all bytes out of the socket. When a request is
\* complete already, it does not keep them.
readSlot ==
  /\ mpm = "thread" /\ held < wrote
  /\ held' \in held + 1..wrote
  /\ IF lengthToRead = 0 THEN UNCHANGED <<got, lengthToRead>>
     ELSE got' = held' /\ lengthToRead' = remaining(held')
  /\ UNCHANGED <<settings, wrote, start, reqs, answered>>

\* waitForReadyRead(), in readRequest() and before the next request.
WaitForReadyRead ==
  /\ pc = "next" \/ (pc = "read" /\ lengthToRead # 0)
  /\ readSlot
  /\ pc' = "read"

\* waitForBytesWritten() reads, too, while a long response is written.
WaitForBytesWritten ==
  /\ pc = "execute"
  /\ readSlot
  /\ UNCHANGED pc

\* readRequest() of TActionThread, when canReadRequest() is true.
ReadRequest ==
  /\ mpm = "thread" /\ pc = "read" /\ lengthToRead = 0
  /\ \/ ~inFile(got) /\ CutRequests
     \/ /\ inFile(got) /\ reqs' = single(got) /\ clear
        /\ pc' = "execute"
        /\ UNCHANGED <<settings, wrote, held, answered>>

-----------------------------------------------------------------------------
(* MPM "hybrid" *)

\* recv() and seekRecvBuffer(), again until there is nothing left.
Recv ==
  /\ mpm = "hybrid" /\ pc \in {"read", "recv"} /\ got < wrote
  /\ got' \in got + 1..wrote
  /\ held' = got' /\ lengthToRead' = remaining(got')
  /\ pc' = "recv"
  /\ UNCHANGED <<settings, wrote, start, reqs, answered>>

\* EAGAIN; startWorker(), with readRequest() and generate().
StartWorker ==
  /\ pc = "recv" /\ got = wrote
  /\ \/ lengthToRead = 0 /\ CutRequests
     \/ /\ lengthToRead # 0 /\ pc' = "read"
        /\ UNCHANGED <<settings, wrote, buffer, reqs, answered>>

-----------------------------------------------------------------------------
(* Both *)

Execute ==
  /\ pc = "execute" /\ reqs # <<>>
  /\ answered' = Append(answered, Head(reqs))
  /\ reqs' = Tail(reqs)
  /\ pc' = IF Tail(reqs) # <<>> THEN "execute"
           ELSE IF mpm = "thread" THEN "next" ELSE "read"
  /\ UNCHANGED <<settings, wrote, buffer>>

\* The keep-alive timeout, or the client has gone.
Close ==
  /\ pc \in {"read", "next"}
  /\ mpm = "thread" /\ pc = "read" => lengthToRead # 0
  /\ pc' = "closed"
  /\ UNCHANGED <<settings, wrote, buffer, reqs, answered>>

Server == WaitForReadyRead \/ ReadRequest \/ Recv \/ StartWorker \/ Execute
HttpNext == Write \/ Server \/ WaitForBytesWritten \/ Close

\* The server's threads run; the client and the timer may do nothing.
HttpSpec == HttpInit /\ [][HttpNext]_HttpVars /\ WF_HttpVars(Server)

-----------------------------------------------------------------------------
\* The requests executed are those of the client, whole and in order, whatever
\* the pieces in which the stream arrives (canReadRequest, generate), if the
\* client waits for each answer. (Of one that does not, the last request in the
\* buffer is executed as far as it is there, and what the slot read while a request
\* was complete is lost: README, section 5.)
AnsweredWhole ==
  window = 1 => \A i \in DOMAIN answered : i \in Requests /\ answered[i] = Whole(i)

\* No byte is executed twice or out of order, even of a client that does not wait
\* for its answers (read, readRequest and generate, while new bytes arrive), if each
\* Content-Length fits into the int contlen; else a header may be cut again.
NothingTwice ==
  ~long =>
    /\ \A i \in DOMAIN answered, j \in DOMAIN answered :
         i < j => answered[i].stop <= answered[j].start
    /\ \A i \in DOMAIN answered, j \in DOMAIN reqs : answered[i].stop <= reqs[j].start
    /\ \A j \in DOMAIN reqs : reqs[j].stop <= start

\* A request of a client that waits is executed, unless the connection is closed
\* before: no request stays in a buffer that nobody looks at again.
Answered ==
  \A r \in Requests :
    window = 1 /\ wrote >= bodyEnd(r) ~> Len(answered) >= r \/ pc = "closed"
=============================================================================
