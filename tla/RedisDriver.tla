----------------------------- MODULE RedisDriver -----------------------------
(***************************************************************************)
(* TRedisDriver: commands and replies over one TCP stream to the Redis     *)
(* server. The connection is lent by TKvsDatabasePool to one request after *)
(* the other, so a command here may be of another user than the last one.  *)
(*                                                                         *)
(* Text is cut into granules: the marker of a reply with its number        *)
(* ("$6", "*2", "+OK"), a CRLF, or a piece of a value. A read ends after   *)
(* any granule, never inside one. A piece of a value is none of the        *)
(* markers. pos and the lengths count granules.                            *)
(***************************************************************************)
EXTENDS Integers, Sequences

CONSTANTS
  Replies,      \* texts of replies: sequences of Line, CrLf and Data
  MaxRequests   \* bound: commands written

Markers == {"simple", "error", "integer", "bulk", "array"}   \* enum DataType
Line(marker, number, size) == [type |-> marker, num |-> number, size |-> size]
CrLf == [type |-> "crlf", num |-> 0, size |-> 1]
Data == [type |-> "data", num |-> 0, size |-> 1]

\* size is a ghost: how many granules the element has that begins here.
Texts == [type : Markers \cup {"crlf", "data"}, num : Int, size : Nat \ {0}]

ASSUME RedisAssumption ==
  /\ MaxRequests \in Nat
  /\ Replies \subseteq Seq(Texts) \ {<<>>}

VARIABLES
  connected,  \* client->state() == ConnectedState
  sent,       \* number of commands written since the start
  owed,       \* commands the server has not answered yet
  answer,     \* ghost: the reply of the server to each command
  stream,     \* granules under way from the server or in the QTcpSocket
  buffer, pos,
  pc, startpos, ret, response,  \* request()
  arrays,     \* the calls of parseArray() that are active, with lst and count
  given,      \* ghost: granules returned to callers
  late,       \* ghost: something was outstanding when the command was written
  cut         \* ghost: a read ended in a string, or in a reply with startpos # 0

serverVars  == <<owed, answer, stream>>
bufferVars  == <<buffer, pos>>
requestVars == <<startpos, ret, response>>
vars == <<connected, sent, serverVars, bufferVars, pc, requestVars, arrays,
          given, late, cut>>

\* A granule on the wire: its text, the command it answers and its place in
\* the reply.
Granule == [type : Markers \cup {"crlf", "data"}, num : Int,
            cmd : 1..MaxRequests, at : Nat \ {0}, last : BOOLEAN]

TypeOK ==
  /\ connected \in BOOLEAN
  /\ sent \in 0..MaxRequests
  /\ owed \in Seq(1..MaxRequests)
  /\ answer \in [1..MaxRequests -> Replies \cup {<<>>}]
  /\ stream \in Seq(Granule)
  /\ buffer \in Seq(Granule)
  /\ pos \in Nat /\ startpos \in Nat
  /\ pc \in {"idle", "readReply", "wait", "parse", "parseArray"}
  /\ ret \in BOOLEAN
  /\ response \in Seq(SUBSET Granule)
  /\ arrays \in Seq([count : Int, list : Seq(SUBSET Granule)])
  /\ given \subseteq Granule
  /\ late \in BOOLEAN /\ cut \in BOOLEAN

Init ==
  /\ connected = FALSE
  /\ sent = 0 /\ owed = <<>> /\ stream = <<>>
  /\ answer = [k \in 1..MaxRequests |-> <<>>]
  /\ buffer = <<>> /\ pos = 0
  /\ pc = "idle" /\ startpos = 0 /\ ret = TRUE /\ response = <<>>
  /\ arrays = <<>>
  /\ given = {} /\ late = FALSE /\ cut = FALSE

-----------------------------------------------------------------------------
(* The server and the connection *)

OnWire(k, text) ==
  [i \in 1..Len(text) |->
     [type |-> text[i].type, num |-> text[i].num,
      cmd |-> k, at |-> i, last |-> i = Len(text)]]

Answer ==
  /\ connected /\ owed # <<>>
  /\ \E text \in Replies :
       /\ answer' = [answer EXCEPT ![Head(owed)] = text]
       /\ stream' = stream \o OnWire(Head(owed), text)
  /\ owed' = Tail(owed)
  /\ UNCHANGED <<connected, sent, bufferVars, pc, requestVars, arrays, given, late, cut>>

\* open(): a stream of its own, with the old buffer and pos.
Open ==
  /\ pc = "idle" /\ ~connected
  /\ connected' = TRUE
  /\ owed' = <<>> /\ stream' = <<>>
  /\ UNCHANGED <<sent, answer, bufferVars, pc, requestVars, arrays, given, late, cut>>

\* close(), which the timer of the pool calls.
Close ==
  /\ pc = "idle"
  /\ connected' = FALSE
  /\ owed' = <<>> /\ stream' = <<>>
  /\ UNCHANGED <<sent, answer, bufferVars, pc, requestVars, arrays, given, late, cut>>

\* The server goes away. What had arrived can still be read.
Disconnect ==
  /\ connected
  /\ connected' = FALSE
  /\ owed' = <<>>
  /\ \E n \in 0..Len(stream) : stream' = SubSeq(stream, 1, n)
  /\ UNCHANGED <<sent, answer, bufferVars, pc, requestVars, arrays, given, late, cut>>

\* moveToThread(): the descriptor goes to a QTcpSocket of its own, and what
\* the old object had read from it is lost.
moveToThread ==
  /\ pc = "idle" /\ connected
  /\ \E n \in 1..Len(stream) : stream' = SubSeq(stream, n + 1, Len(stream))
  /\ UNCHANGED <<connected, sent, owed, answer, bufferVars, pc, requestVars,
                 arrays, given, late, cut>>

-----------------------------------------------------------------------------
(* request() up to the parsing of the reply *)

clearBuffer_OnlyPos == buffer' = buffer /\ pos' = 0            \* mutant
clearBuffer == buffer' = <<>> /\ pos' = 0

Request ==
  /\ pc = "idle" /\ connected
  /\ sent < MaxRequests
  /\ sent' = sent + 1
  /\ owed' = Append(owed, sent + 1)
  /\ startpos' = pos
  /\ clearBuffer
  /\ ret' = TRUE /\ response' = <<>>
  /\ late' = (owed # <<>> \/ stream # <<>>) /\ cut' = FALSE
  /\ pc' = "readReply"
  /\ UNCHANGED <<connected, answer, stream, arrays, given>>

\* readReply() at line 86: "Not open Redis session".
ReadClosed ==
  /\ pc = "readReply" /\ ~connected
  /\ clearBuffer
  /\ pc' = "idle"
  /\ UNCHANGED <<connected, sent, serverVars, requestVars, arrays, given, late, cut>>

\* readReply() removes what lies before pos.
BeginRead ==
  /\ pc = "readReply" /\ connected
  /\ buffer' = SubSeq(buffer, pos + 1, Len(buffer))
  /\ pos' = 0
  /\ pc' = "wait"
  /\ UNCHANGED <<connected, sent, serverVars, requestVars, arrays, given, late, cut>>

\* readAll() gets what has arrived, some of the stream; the loop goes on until
\* that is something.
ReadSizes_Any == 0..Len(stream)                                \* mutant
ReadSizes == 1..Len(stream)

Read ==
  /\ pc = "wait"
  /\ \E n \in ReadSizes :
       /\ buffer' = buffer \o SubSeq(stream, 1, n)
       /\ stream' = SubSeq(stream, n + 1, Len(stream))
       /\ cut' = (cut \/ /\ n > 0 /\ ~stream[n].last
                         /\ stream[n].type = "data" \/ startpos > 0)
  /\ pc' = "parse"
  /\ UNCHANGED <<connected, sent, owed, answer, pos, requestVars, arrays, given, late>>

\* "Read timeout": request() returns true, without a reply.
ReadTimeout ==
  /\ pc = "wait"
  /\ clearBuffer
  /\ pc' = "idle"
  /\ UNCHANGED <<connected, sent, serverVars, requestVars, arrays, given, late, cut>>

-----------------------------------------------------------------------------
(* Parsing *)

\* The type at pos; beyond the end operator[] yields a zero.
TypeAt(p) == IF p < Len(buffer) THEN buffer[p + 1].type ELSE "none"

\* indexOf(CRLF, p), and the position behind it.
HasLine(p) == \E i \in (p + 1)..Len(buffer) : buffer[i].type = "crlf"
LineEnd(p) ==
  CHOOSE i \in (p + 1)..Len(buffer) :
    /\ buffer[i].type = "crlf"
    /\ \A j \in (p + 1)..(i - 1) : buffer[j].type # "crlf"

\* getNumber(), when the marker is at p.
Number(p) == buffer[p + 1].num

\* parseBulkString() wants two more bytes than the header, whatever the length.
BulkComplete(p) ==
  /\ HasLine(p)
  /\ Number(p) = -1 \/ (Number(p) >= 0 /\ LineEnd(p) < Len(buffer))
BulkString(p) ==
  {buffer[i] : i \in (LineEnd(p) + 1)..(LineEnd(p) + Number(p)) \cap DOMAIN buffer}
BulkEnd(p) ==
  IF Number(p) = -1 THEN LineEnd(p) ELSE LineEnd(p) + Number(p) + 1

\* request() returns, with pos behind the reply.
Return(p) ==
  /\ pos' = p /\ pc' = "idle"
  /\ given' = given \cup UNION {response'[i] : i \in DOMAIN response'}

\* The reply is not complete: pos = startpos, and readReply() again.
Again == pos' = startpos /\ pc' = "readReply" /\ UNCHANGED given

ParseLine ==
  /\ pc = "parse" /\ TypeAt(pos) \in {"simple", "error"}
  /\ ret' = (ret /\ TypeAt(pos) # "error")
  /\ UNCHANGED response
  /\ IF HasLine(pos) THEN Return(LineEnd(pos)) ELSE Again
  /\ UNCHANGED <<connected, sent, serverVars, buffer, startpos, arrays, late, cut>>

ParseInteger ==
  /\ pc = "parse" /\ TypeAt(pos) = "integer"
  /\ IF HasLine(pos)
       THEN /\ response' = Append(response, {buffer[pos + 1]})
            /\ Return(LineEnd(pos))
       ELSE Again /\ UNCHANGED response
  /\ UNCHANGED <<connected, sent, serverVars, buffer, startpos, ret, arrays, late, cut>>

ParseBulkString ==
  /\ pc = "parse" /\ TypeAt(pos) = "bulk"
  /\ IF BulkComplete(pos)
       THEN /\ response' = Append(response, BulkString(pos))
            /\ Return(BulkEnd(pos))
       ELSE Again /\ UNCHANGED response
  /\ UNCHANGED <<connected, sent, serverVars, buffer, startpos, ret, arrays, late, cut>>

\* "Invalid protocol"
ParseInvalid ==
  /\ pc = "parse" /\ TypeAt(pos) \notin Markers
  /\ ret' = FALSE
  /\ clearBuffer
  /\ pc' = "idle"
  /\ UNCHANGED <<connected, sent, serverVars, startpos, response, arrays, given, late, cut>>

top == arrays[Len(arrays)]
Complete_Early == top.list # <<>> /\ Len(top.list) + 1 >= top.count   \* mutant
Complete == top.list # <<>> /\ Len(top.list) >= top.count

\* parseArray() is called, by request() or by parseArray().
ParseArray ==
  /\ pc = "parse" \/ (pc = "parseArray" /\ ~Complete)
  /\ TypeAt(pos) = "array" /\ HasLine(pos)
  /\ arrays' = Append(arrays, [count |-> Number(pos), list |-> <<>>])
  /\ pos' = LineEnd(pos)
  /\ pc' = "parseArray"
  /\ UNCHANGED <<connected, sent, serverVars, buffer, requestVars, given, late, cut>>

ParseElement ==
  /\ pc = "parseArray" /\ ~Complete
  /\ \/ /\ TypeAt(pos) = "bulk" /\ BulkComplete(pos)
        /\ arrays' = [arrays EXCEPT ![Len(arrays)].list = Append(@, BulkString(pos))]
        /\ pos' = BulkEnd(pos)
     \/ /\ TypeAt(pos) = "integer" /\ HasLine(pos)
        /\ arrays' = [arrays EXCEPT ![Len(arrays)].list = Append(@, {buffer[pos + 1]})]
        /\ pos' = LineEnd(pos)
  /\ UNCHANGED <<connected, sent, serverVars, buffer, pc, requestVars, given, late, cut>>

\* An element is not there yet, or "Bad logic": all the calls fail.
ParseArrayFails ==
  /\ \/ pc = "parse" /\ TypeAt(pos) = "array" /\ ~HasLine(pos)
     \/ /\ pc = "parseArray" /\ ~Complete
        /\ \/ TypeAt(pos) \notin {"bulk", "integer", "array"}
           \/ TypeAt(pos) = "bulk" /\ ~BulkComplete(pos)
           \/ TypeAt(pos) \in {"integer", "array"} /\ ~HasLine(pos)
  /\ arrays' = <<>>
  /\ response' = <<>>
  /\ Again
  /\ UNCHANGED <<connected, sent, serverVars, buffer, startpos, ret, late, cut>>

\* parseArray() returns to request(), or to the parseArray() that called it.
EndArray ==
  /\ pc = "parseArray" /\ Complete
  /\ IF Len(arrays) = 1
       THEN /\ arrays' = <<>>
            /\ response' = top.list
            /\ Return(pos)
       ELSE /\ arrays' =
                 [SubSeq(arrays, 1, Len(arrays) - 1) EXCEPT ![Len(arrays) - 1].list =
                    Append(@, UNION {top.list[i] : i \in DOMAIN top.list})]
            /\ UNCHANGED <<response, pos, pc, given>>
  /\ UNCHANGED <<connected, sent, serverVars, buffer, startpos, ret, late, cut>>

Parse == \/ ParseLine \/ ParseInteger \/ ParseBulkString \/ ParseInvalid
         \/ ParseArray \/ ParseElement \/ ParseArrayFails \/ EndArray

-----------------------------------------------------------------------------
Driver == ReadClosed \/ BeginRead \/ Read \/ ReadTimeout \/ Parse

Next == Answer \/ Open \/ Close \/ Disconnect \/ moveToThread \/ Request \/ Driver

\* The thread that called request() runs on; the server owes it nothing.
Fairness == WF_vars(Driver)

Spec == Init /\ [][Next]_vars
FairSpec == Spec /\ Fairness

-----------------------------------------------------------------------------
(* Properties *)

Before(g, h) == g.cmd < h.cmd \/ (g.cmd = h.cmd /\ g.at < h.at)

\* Behind the element that begins at i.
After(text, i) == i + text[i].size

\* Where the elements of the array at i begin, and at last where it ends.
Count(text, i) == IF text[i].num > 0 THEN text[i].num ELSE 0
Layouts(text, i) ==
  {s \in [1..(Count(text, i) + 1) -> (i + 2)..After(text, i)] :
     /\ s[1] = i + 2
     /\ s[Count(text, i) + 1] = After(text, i)
     /\ \A j \in 1..Count(text, i) :
          /\ s[j] \in DOMAIN text /\ text[s[j]].type \in Markers
          /\ s[j + 1] = After(text, s[j])}
Elements(text, i) == CHOOSE s \in Layouts(text, i) : TRUE

\* A reply as the protocol has it. An array may be empty, and its elements may be
\* arrays, statuses or errors.
WellFormed(text) ==
  /\ text # <<>> /\ text[1].type \in Markers /\ After(text, 1) = Len(text) + 1
  /\ \A i \in DOMAIN text : text[i].type \in Markers =>
       /\ text[i].size >= 2 /\ After(text, i) <= Len(text) + 1
       /\ text[i + 1].type = "crlf"
       /\ text[i].type \in {"simple", "error", "integer"} => text[i].size = 2
       /\ text[i].type = "bulk" =>
            /\ text[i].num >= -1
            /\ text[i].size = IF text[i].num = -1 THEN 2 ELSE text[i].num + 3
            /\ \A j \in (i + 2)..(i + 1 + text[i].num) : text[j].type = "data"
            /\ text[i].num >= 0 => text[i + 2 + text[i].num].type = "crlf"
       /\ text[i].type = "array" => Layouts(text, i) # {}

RepliesWellFormed == \A text \in Replies : WellFormed(text)

\* The server's reply to command k as request() should return it: one value for
\* an integer or a string, one for each element of an array, none for a status
\* or an error. The value of an array in an array is all that it holds.
ValueAt(k, text, i) ==
  {OnWire(k, text)[j] : j \in {m \in i..(After(text, i) - 1) :
                                 text[m].type \in {"integer", "data"}}}
Value(k, text) ==
  CASE text[1].type \in {"integer", "bulk"} -> <<ValueAt(k, text, 1)>>
    [] text[1].type = "array" ->
         [j \in 1..Count(text, 1) |-> ValueAt(k, text, Elements(text, 1)[j])]
    [] OTHER -> <<>>

\* Whatever is late, lost or cut, what request() returns lies behind all that
\* earlier requests on the connection returned: no part of a reply is given
\* out twice, and none goes to a command before one that was served already.
\* (clearBuffer() at line 137 and the removal at line 92 of tredisdriver.cpp.)
RepliesInOrder ==
  [][pc # "idle" /\ pc' = "idle" =>
       \A i \in DOMAIN response' : \A g \in response'[i] :
         \A h \in given : Before(h, g)]_vars

\* The answer to the command just finished, when nothing was outstanding when
\* it was written and no read ended inside a string, or inside a reply while
\* startpos was stale: the whole reply to this very command with the right
\* return value, or none after a timeout or on a closed connection. However
\* many requests timed out before, and wherever else the reply was cut, the
\* parser starts over without losing or repeating a part. An empty array, also
\* within another, is no reply to it: it waits for an element and times out. So
\* does an array with an error or a status in it ("Bad logic").
OwnReply ==
  pc = "idle" /\ sent > 0 /\ ~late /\ ~cut =>
    \/ response = <<>> /\ ret
    \/ /\ answer[sent] # <<>>
       /\ response = Value(sent, answer[sent])
       /\ ret = (answer[sent][1].type # "error")

\* Each request() returns: the loop of readReply() and request() ends whatever
\* the server sends or does not send.
RequestEnds == pc # "idle" ~> pc = "idle"
=============================================================================
