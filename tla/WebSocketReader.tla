--------------------------- MODULE WebSocketReader ---------------------------
(***************************************************************************)
(* How TWebSocket puts messages together from the frames of a client, and  *)
(* hands them to a worker: readRequest(), TAbstractWebSocket::parse() and  *)
(* TWebSocketWorker. The frames of the client are valid ones.              *)
(*                                                                         *)
(* On the wire a frame has two units for its header and len units for its  *)
(* payload; a position counts units from the start of the connection.      *)
(***************************************************************************)
EXTENDS Integers, Sequences, SequencesExt

CONSTANT Scripts   \* what the client may send: sequences of frames, each with
                   \* the position after it

Frame == [op : {"text", "cont", "ping", "close"}, fin : BOOLEAN, len : Nat, end : Nat]
ControlOps == {"ping", "close"}

\* Frames follow each other, control frames are not fragmented, and a frame
\* continues a message if and only if one is open.
ValidScript(s) ==
  \A f \in DOMAIN s :
    /\ s[f].end = (IF f = 1 THEN 0 ELSE s[f - 1].end) + 2 + s[f].len
    /\ s[f].op \in ControlOps => s[f].fin
    /\ s[f].op = "cont" => \E e \in 1..f - 1 :
         ~s[e].fin /\ \A d \in e + 1..f - 1 : s[d].op \in ControlOps
    /\ s[f].op = "text" => \A e \in 1..f - 1 :
         ~s[e].fin => \E d \in e + 1..f - 1 : s[d].op \notin ControlOps

ASSUME ScriptsAssumption == \A s \in Scripts : s \in Seq(Frame) /\ ValidScript(s)

VARIABLES
  script,        \* what the client sends
  sent,          \* positions: what is sent,
  arrived,       \* what the QTcpSocket has,
  taken,         \* what was read into recvBuffer
  parsed,        \* and what parse() is through with
  frames,        \* each with its number and the size of its payload so far
  step,          \* of the main thread: "idle", "parse", "collect"
  payloads,      \* of the worker: messages, as sequences of frame numbers
  working,       \* myWorkerCounter > 0
  delivered      \* ghost: messages given to the endpoint

ReaderVars ==
  <<script, sent, arrived, taken, parsed, frames, step, payloads, working, delivered>>

begin(f)   == IF f = 1 THEN 0 ELSE script[f - 1].end
control(f) == script[f].op \in ControlOps
Length     == IF script = <<>> THEN 0 ELSE script[Len(script)].end

States == {"Empty", "HeaderParsed", "MoreData", "Completed"}
Part(f, size, state) == [frame |-> f, size |-> size, state |-> state]
Empty == Part(0, 0, "Empty")

ReaderTypeOK ==
  LET numbers == DOMAIN script IN
  /\ script \in Scripts
  /\ parsed \in 0..taken /\ taken \in 0..arrived /\ arrived \in 0..sent /\ sent \in 0..Length
  /\ frames \in Seq([frame : numbers \cup {0}, size : Nat, state : States])
  /\ step \in {"idle", "parse", "collect"}
  /\ payloads \in Seq(Seq(numbers)) /\ delivered \in Seq(Seq(numbers))
  /\ working \in BOOLEAN

ReaderInit ==
  /\ script \in Scripts
  /\ sent = 0 /\ arrived = 0 /\ taken = 0 /\ parsed = 0
  /\ frames = <<>> /\ step = "idle"
  /\ payloads = <<>> /\ working = FALSE /\ delivered = <<>>

-----------------------------------------------------------------------------
SendPiece ==
  /\ sent' \in sent + 1..Length
  /\ UNCHANGED <<script, arrived, taken, parsed, frames, step, payloads, working, delivered>>

-----------------------------------------------------------------------------
(* Main thread *)

isFinal(p)   == p.state = "Completed" /\ script[p.frame].fin
isControl(p) == control(p.frame)

\* The head of parse(): a frame to work on.
prepared ==
  IF frames = <<>> \/ Last(frames).state = "Completed" THEN Append(frames, Empty) ELSE frames

\* readRequest() without a worker: all bytes there are.
readAll(to) ==
  /\ taken' = to /\ frames' = prepared
  /\ step' = "parse"

\* Bytes arrive: readyRead().
ReadyRead ==
  /\ step = "idle" /\ arrived < sent
  /\ arrived' \in arrived + 1..sent
  /\ IF working THEN UNCHANGED <<taken, frames, step>> ELSE readAll(arrived')
  /\ UNCHANGED <<script, sent, parsed, payloads, working, delivered>>

\* One round of the loop of parse(): the current frame gets its header, or as much
\* of its payload as is there.
begun ==
  LET f == CHOOSE f \in DOMAIN script : begin(f) <= parsed /\ parsed < script[f].end
  IN Part(f, 0, IF script[f].len = 0 THEN "Completed" ELSE "HeaderParsed")

continued ==
  LET p == Last(frames)
      len == script[p.frame].len
      size == IF p.size + taken - parsed <= len THEN p.size + taken - parsed ELSE len
  IN Part(p.frame, size, IF size = len THEN "Completed" ELSE "MoreData")

progressed == IF Last(frames).state = "Empty" THEN begun ELSE continued

\* A continuation of nothing.
isInvalid(list) ==
  /\ script[Last(list).frame].op = "cont" /\ Len(list) >= 2
  /\ LET before == list[Len(list) - 1] IN isFinal(before) \/ isControl(before)

\* A control frame goes behind the first frame that is not one.
dataFrames(list) == {i \in 1..Len(list) - 1 : ~isControl(list[i])}
moved(list) ==
  IF isControl(Last(list)) /\ dataFrames(list) # {}
  THEN InsertAt(Front(list), Min(dataFrames(list)) + 1, Last(list))
  ELSE list

\* What parse() does with a completed frame, and prepares for the next one.
completed(list, atEnd) ==
  IF isInvalid(list) THEN [list EXCEPT ![Len(list)] = Empty]
  ELSE IF atEnd THEN moved(list) ELSE Append(moved(list), Empty)

\* There are bytes, and those of a header all at once.
canParse_NoHeader == parsed < taken                               \* mutant
canParse == parsed < taken /\ (Last(frames).state = "Empty" => parsed + 2 <= taken)

parse ==
  /\ step = "parse" /\ canParse
  /\ parsed' = IF Last(frames).state = "Empty" THEN parsed + 2
               ELSE parsed + progressed.size - Last(frames).size
  /\ LET list == [frames EXCEPT ![Len(frames)] = progressed]
     IN frames' = IF progressed.state = "Completed" THEN completed(list, parsed' = taken)
                  ELSE list
  /\ UNCHANGED <<script, sent, arrived, taken, step, payloads, working, delivered>>

ParseEnd ==
  /\ step = "parse" /\ ~canParse
  /\ step' = "collect"
  /\ UNCHANGED <<script, sent, arrived, taken, parsed, frames, payloads, working, delivered>>

\* The frames that end a message, the last of one that canReadRequest() finds.
endsMessage_Fin(p) == p.frame # 0 /\ script[p.frame].fin          \* mutant
endsMessage(p) == isFinal(p)
ends == {i \in DOMAIN frames : endsMessage(frames[i])}

\* The frames up to the first of these are a message ...
CollectMessage ==
  /\ step = "collect" /\ ends # {}
  /\ payloads' = Append(payloads, [i \in 1..Min(ends) |-> frames[i].frame])
  /\ frames' = SubSeq(frames, Min(ends) + 1, Len(frames))
  /\ UNCHANGED <<script, sent, arrived, taken, parsed, step, working, delivered>>

\* ... and a worker is started if there are messages.
StartReceiving ==
  /\ step = "collect" /\ ends = {}
  /\ working' = (payloads # <<>>)
  /\ step' = "idle"
  /\ UNCHANGED <<script, sent, arrived, taken, parsed, frames, payloads, delivered>>

\* releaseWorker(), on finished(): what arrived meanwhile is read now.
bytesAvailable_No == FALSE                                        \* mutant
bytesAvailable == arrived > taken
releaseReceiving ==
  /\ step = "idle" /\ working /\ payloads = <<>>
  /\ working' = FALSE
  /\ IF bytesAvailable THEN readAll(arrived) ELSE UNCHANGED <<taken, frames, step>>
  /\ UNCHANGED <<script, sent, arrived, parsed, payloads, delivered>>

-----------------------------------------------------------------------------
(* Worker *)

\* execute() with the opcode of the first frame.
ExecuteMessage ==
  /\ working /\ payloads # <<>>
  /\ delivered' = Append(delivered, Head(payloads))
  /\ payloads' = Tail(payloads)
  /\ UNCHANGED <<script, sent, arrived, taken, parsed, frames, step, working>>

Reader == ReadyRead \/ parse \/ ParseEnd \/ CollectMessage \/ StartReceiving \/ releaseReceiving
ReaderNext == SendPiece \/ Reader \/ ExecuteMessage

\* Both threads run.
ReaderSpec ==
  ReaderInit /\ [][ReaderNext]_ReaderVars /\ WF_ReaderVars(Reader) /\ WF_ReaderVars(ExecuteMessage)

-----------------------------------------------------------------------------
(* Properties *)

\* However the stream is cut in pieces, the parser stays in step with it: what it has
\* of a frame is what was sent of it up to here, and a header is never sought inside a
\* payload (canParse, the sizes and states of parse()).
InStep ==
  /\ parsed <= taken
  /\ \A i \in DOMAIN frames :
       LET p == frames[i]
       IN /\ p.state = "Completed" => p.size = script[p.frame].len /\ script[p.frame].end <= parsed
          /\ p.state \in {"HeaderParsed", "MoreData"} =>
               p.size < script[p.frame].len /\ parsed = begin(p.frame) + 2 + p.size
          /\ p.state = "Empty" => parsed = Length \/ \E f \in DOMAIN script : parsed = begin(f)

\* No control frame after a fragment, nor two after a data frame.
orderly ==
  \A f \in DOMAIN script : control(f) =>
    \A e \in 1..f - 1 :
      script[e].fin /\ (control(e) => \A d \in 1..e - 1 : control(d))

\* What comes before the frame at a of message i.
earlier(messages, i, a) ==
  UNION {{messages[j][b] : b \in {c \in DOMAIN messages[j] : j < i \/ c < a}} : j \in 1..i}

\* Messages of the client, complete and in order.
whole(messages) ==
  \A i \in DOMAIN messages : \A a \in DOMAIN messages[i] :
    LET f == messages[i][a]
        kind == {e \in DOMAIN script : control(e) <=> control(f)}
    IN /\ script[f].fin <=> a = Len(messages[i])
       /\ control(messages[i][1]) <=> control(f)
       /\ earlier(messages, i, a) \cap kind = {e \in kind : e < f}

\* The endpoint gets the messages the client has sent, complete and in order,
\* and its control frames in order (parse, readRequest), however they are cut
\* in pieces and while a worker is busy, if control frames come in an order in
\* which parse() does not move them wrongly (README, section 5).
MessagesWhole == orderly => whole(delivered)

\* The handler of a close frame is the last one called. A close frame read with
\* two messages before it overtakes one: this is violated, README, section 5.
CloseLast ==
  \A i \in DOMAIN delivered : script[delivered[i][1]].op = "close" => i = Len(delivered)

\* No frame the client has sent stays in a buffer, whatever the order of control
\* frames: each becomes part of a message that the endpoint gets (readRequest,
\* releaseWorker).
AllDelivered ==
  sent = Length ~>
    \A f \in DOMAIN script : \E i \in DOMAIN delivered : Contains(delivered[i], f)
=============================================================================
