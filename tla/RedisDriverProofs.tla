-------------------------- MODULE RedisDriverProofs --------------------------
(***************************************************************************)
(* Proofs about RedisDriver for every set of replies and every number of   *)
(* requests: type correctness, that requests return parts of replies in    *)
(* the order of the stream, none of them twice, and that a request that is *)
(* not disturbed returns the reply to its own command.                     *)
(***************************************************************************)
EXTENDS RedisDriver, SequenceTheorems, WellFoundedInduction, TLAPS

(* Positions in the buffer *)

\* A non-empty set of numbers has a least one.
LEMMA Least ==
  ASSUME NEW S, S \subseteq Nat, S # {}
  PROVE  \E i \in S : \A j \in S : ~(j < i)
<1> DEFINE R == OpToRel(<, Nat)
<1>1. \E i \in S : \A j \in S : ~(<<j, i>> \in R)
  <2> HIDE DEF R
  <2>1. IsWellFoundedOn(R, Nat)
    BY NatLessThanWellFounded DEF R
  <2> QED
    BY <2>1, WFMin
<1>2. \A i, j \in Nat : j < i => <<j, i>> \in R
  BY DEF OpToRel
<1> HIDE DEF R
<1> QED
  BY <1>1, <1>2

LEMMA LineEndType ==
  ASSUME buffer \in Seq(Granule), NEW p \in Nat, HasLine(p)
  PROVE  LineEnd(p) \in (p + 1)..Len(buffer)
<1> DEFINE S == {i \in (p + 1)..Len(buffer) : buffer[i].type = "crlf"}
<1>1. S # {} /\ S \subseteq Nat
  BY DEF HasLine
<1>2. PICK i \in S : \A j \in S : ~(j < i)
  BY <1>1, Least
<1>3. \A j \in (p + 1)..(i - 1) : buffer[j].type # "crlf"
  BY <1>2
<1> QED
  BY <1>2, <1>3 DEF LineEnd

\* What is in the buffer.
Got == {buffer[i] : i \in DOMAIN buffer}

LEMMA GotType ==
  ASSUME buffer \in Seq(Granule)
  PROVE  Got \subseteq Granule
BY DEF Got

\* A marker at a position: the granule is there and its number is one.
LEMMA MarkerAt ==
  ASSUME buffer \in Seq(Granule), NEW p \in Nat, TypeAt(p) \in Markers
  PROVE  /\ p + 1 \in DOMAIN buffer
         /\ buffer[p + 1] \in Got
         /\ Number(p) \in Int
<1>1. p < Len(buffer)
  BY DEF TypeAt, Markers
<1>2. p + 1 \in DOMAIN buffer /\ buffer[p + 1] \in Granule
  BY <1>1
<1> QED
  BY <1>2 DEF Got, Number, Granule

LEMMA BulkAt ==
  ASSUME buffer \in Seq(Granule), NEW p \in Nat, TypeAt(p) \in Markers,
         BulkComplete(p)
  PROVE  BulkEnd(p) \in Nat /\ BulkString(p) \subseteq Got
<1>1. LineEnd(p) \in Nat
  BY LineEndType DEF BulkComplete
<1>2. Number(p) \in Int /\ Number(p) >= -1
  BY MarkerAt DEF BulkComplete
<1> QED
  BY <1>1, <1>2 DEF BulkEnd, BulkString, Got

-----------------------------------------------------------------------------
(* Type correctness *)

LEMMA EmptyType == \A S : <<>> \in Seq(S)
BY EmptySeq

LEMMA InitTypeOK == Init => TypeOK
<1> SUFFICES ASSUME Init PROVE TypeOK
  OBVIOUS
<1>1. /\ owed \in Seq(1..MaxRequests)
      /\ stream \in Seq(Granule) /\ buffer \in Seq(Granule)
      /\ response \in Seq(SUBSET Granule)
      /\ arrays \in Seq([count : Int, list : Seq(SUBSET Granule)])
  BY EmptyType DEF Init
<1>2. answer \in [1..MaxRequests -> Replies \cup {<<>>}]
  BY DEF Init
<1>3. sent \in 0..MaxRequests /\ given \subseteq Granule
  BY RedisAssumption DEF Init
<1>4. /\ connected \in BOOLEAN /\ ret \in BOOLEAN
      /\ late \in BOOLEAN /\ cut \in BOOLEAN
      /\ pos \in Nat /\ startpos \in Nat /\ pc = "idle"
  BY DEF Init
<1> QED
  BY <1>1, <1>2, <1>3, <1>4 DEF TypeOK

\* The part of a stream from one place to another.
LEMMA Part ==
  ASSUME NEW S, NEW s \in Seq(S), NEW m \in Nat \ {0}, NEW n \in 0..Len(s)
  PROVE  /\ SubSeq(s, m, n) \in Seq(S)
         /\ Len(SubSeq(s, m, n)) = IF m <= n THEN n - m + 1 ELSE 0
         /\ \A i \in 1..(n - m + 1) : SubSeq(s, m, n)[i] = s[m + i - 1]
<1>1. \A i \in m..n : s[i] \in S
  BY ElementOfSeq
<1> QED
  BY <1>1, SubSeqProperties

LEMMA OnWireType ==
  ASSUME NEW k \in 1..MaxRequests, NEW text \in Replies
  PROVE  /\ OnWire(k, text) \in Seq(Granule)
         /\ \A i \in DOMAIN OnWire(k, text) :
              OnWire(k, text)[i].cmd = k /\ OnWire(k, text)[i].at = i
<1>1. text \in Seq(Texts)
  BY RedisAssumption
<1>2. Len(text) \in Nat /\ \A i \in 1..Len(text) : text[i] \in Texts
  BY <1>1, ElementOfSeq, LenProperties
<1>3. \A i \in 1..Len(text) :
        [type |-> text[i].type, num |-> text[i].num,
         cmd |-> k, at |-> i, last |-> i = Len(text)] \in Granule
  BY <1>2 DEF Granule, Texts
<1> QED
  BY <1>2, <1>3 DEF OnWire

\* The actions of the connection and of request() keep the types.
LEMMA TypeConnection ==
  ASSUME TypeOK, Answer \/ Open \/ Close \/ Disconnect \/ moveToThread \/ Request
  PROVE  TypeOK'
<1> USE RedisAssumption DEF TypeOK, requestVars, bufferVars
<1>1. CASE Answer
  <2>1. PICK text \in Replies :
          /\ answer' = [answer EXCEPT ![Head(owed)] = text]
          /\ stream' = stream \o OnWire(Head(owed), text)
    BY <1>1 DEF Answer
  <2>2. Head(owed) \in 1..MaxRequests /\ Tail(owed) \in Seq(1..MaxRequests)
    BY <1>1, HeadTailProperties DEF Answer
  <2>3. OnWire(Head(owed), text) \in Seq(Granule)
    BY <2>2, OnWireType
  <2>4. stream' \in Seq(Granule)
    BY <2>1, <2>3, ConcatProperties
  <2> QED
    BY <1>1, <2>1, <2>2, <2>4 DEF Answer
<1>2. CASE Open \/ Close
  BY <1>2, EmptyType DEF Open, Close
<1>3. CASE Disconnect
  <2>1. stream' \in Seq(Granule)
    BY <1>3, Part DEF Disconnect
  <2> QED
    BY <1>3, <2>1, EmptyType DEF Disconnect
<1>4. CASE moveToThread
  <2>1. stream' \in Seq(Granule)
    BY <1>4, Part, LenProperties DEF moveToThread
  <2> QED
    BY <1>4, <2>1 DEF moveToThread
<1>5. CASE Request
  <2>1. /\ buffer' \in Seq(Granule) /\ pos' = 0
        /\ response' \in Seq(SUBSET Granule)
    BY <1>5, EmptyType DEF Request, clearBuffer
  <2>2. sent' \in 1..MaxRequests
    BY <1>5 DEF Request
  <2>3. owed' \in Seq(1..MaxRequests)
    BY <1>5, <2>2, AppendProperties DEF Request
  <2>4. late' \in BOOLEAN /\ cut' \in BOOLEAN
    BY <1>5 DEF Request
  <2> QED
    BY <1>5, <2>1, <2>2, <2>3, <2>4 DEF Request
<1> QED
  BY <1>1, <1>2, <1>3, <1>4, <1>5

\* So do the actions that read.
LEMMA TypeReading ==
  ASSUME TypeOK, ReadClosed \/ BeginRead \/ Read \/ ReadTimeout
  PROVE  TypeOK'
<1> USE DEF TypeOK, requestVars, bufferVars, serverVars
<1>1. CASE ReadClosed \/ ReadTimeout
  <2>1. buffer' \in Seq(Granule) /\ pos' = 0
    BY <1>1, EmptyType DEF ReadClosed, ReadTimeout, clearBuffer
  <2> QED
    BY <1>1, <2>1 DEF ReadClosed, ReadTimeout
<1>2. CASE BeginRead
  <2>1. buffer' \in Seq(Granule)
    BY <1>2, Part, LenProperties DEF BeginRead
  <2> QED
    BY <1>2, <2>1 DEF BeginRead
<1>3. CASE Read
  <2>1. PICK n \in 1..Len(stream) :
          /\ buffer' = buffer \o SubSeq(stream, 1, n)
          /\ stream' = SubSeq(stream, n + 1, Len(stream))
          /\ cut' \in BOOLEAN
    BY <1>3 DEF Read, ReadSizes
  <2>2. SubSeq(stream, 1, n) \in Seq(Granule) /\ stream' \in Seq(Granule)
    BY SMTT(60), <2>1, Part, LenProperties
  <2>3. buffer' \in Seq(Granule)
    BY <2>1, <2>2, ConcatProperties
  <2> QED
    BY <1>3, <2>1, <2>2, <2>3 DEF Read
<1> QED
  BY <1>1, <1>2, <1>3

-----------------------------------------------------------------------------
(* The parser *)

LEMMA SequenceOf ==
  ASSUME NEW S, NEW n \in Nat, NEW s \in [1..n -> S]
  PROVE  s \in Seq(S) /\ Len(s) = n
<1>1. s \in Seq(S)
  BY SeqDef
<1> DEFINE m == Len(s)
<1>2. 1..m = 1..n /\ m \in Nat
  BY <1>1, LenProperties
<1> HIDE DEF m
<1>3. m = n
  BY <1>2
<1> QED
  BY <1>1, <1>3 DEF m

\* One member of a sequence is replaced.
LEMMA Replaced ==
  ASSUME NEW S, NEW s \in Seq(S), NEW i \in 1..Len(s), NEW e \in S,
         NEW t, t = [s EXCEPT ![i] = e]
  PROVE  t \in Seq(S)
<1> DEFINE n == Len(s)
<1>1. s \in [1..n -> S] /\ n \in Nat /\ i \in 1..n
  BY LenProperties
<1> HIDE DEF n
<1>2. t \in [1..n -> S]
  BY <1>1
<1> QED
  BY <1>1, <1>2, SequenceOf

\* A call of parseArray() whose values are sets of members of G.
Calls(G) == [count : Int, list : Seq(SUBSET G)]

\* An element at the end of the list of a call.
LEMMA AppendToList ==
  ASSUME NEW G, NEW as \in Seq(Calls(G)),
         NEW n \in 1..Len(as), NEW v \in SUBSET G
  PROVE  [as EXCEPT ![n].list = Append(@, v)] \in Seq(Calls(G))
<1>1. as[n] \in Calls(G)
  BY ElementOfSeq
<1> DEFINE l == Append(as[n].list, v)
           e == [as[n] EXCEPT !.list = l]
           bs == [as EXCEPT ![n] = e]
<1>2. l \in Seq(SUBSET G)
  BY <1>1, AppendProperties DEF Calls
<1>3. e \in Calls(G)
  <2> HIDE DEF l
  <2> QED
    BY <1>1, <1>2 DEF Calls
<1>4. bs = [as EXCEPT ![n].list = Append(@, v)]
  OBVIOUS
<1> HIDE DEF e, bs
<1>5. bs \in Seq(Calls(G))
  BY <1>3, Replaced DEF bs
<1> QED
  BY <1>4, <1>5

LEMMA CallsMonotonic ==
  ASSUME NEW G, NEW H, G \subseteq H
  PROVE  /\ Seq(SUBSET G) \subseteq Seq(SUBSET H)
         /\ Seq(Calls(G)) \subseteq Seq(Calls(H))
<1>1. Seq(SUBSET G) \subseteq Seq(SUBSET H)
  BY SeqMonotonic
<1>2. Calls(G) \subseteq Calls(H)
  BY <1>1 DEF Calls
<1> QED
  BY <1>1, <1>2, SeqMonotonic

\* The values of the calls are taken from the buffer, and there are calls while
\* pc says so.
Values ==
  /\ arrays # <<>> <=> pc = "parseArray"
  /\ pc # "idle" => response = <<>>
  /\ arrays \in Seq(Calls(Got))

\* A step of the parser: it takes values from the buffer or clears it.
Parsed ==
  /\ buffer' \in {buffer, <<>>}
  /\ pos' \in Nat /\ pc' \in {"idle", "readReply", "parseArray"}
  /\ ret' \in BOOLEAN
  /\ response' \in Seq(SUBSET Got)
  /\ arrays' \in Seq(Calls(Got))
  /\ arrays' # <<>> <=> pc' = "parseArray"
  /\ pc' # "idle" => response' = <<>>
  /\ given' = given \/ given' = given \cup UNION {response'[i] : i \in DOMAIN response'}
  /\ UNCHANGED <<connected, sent, serverVars, startpos, late, cut>>

LEMMA ParseSimple ==
  ASSUME TypeOK, Values,
         ParseLine \/ ParseInteger \/ ParseBulkString \/ ParseInvalid
  PROVE  Parsed
<1> USE DEF TypeOK, requestVars, bufferVars
<1>1. pc = "parse" /\ arrays = <<>> /\ response = <<>>
  BY DEF ParseLine, ParseInteger, ParseBulkString, ParseInvalid, Values
<1>2. <<>> \in Seq(SUBSET Got) /\ <<>> \in Seq(Calls(Got))
  BY EmptySeq
<1>3. HasLine(pos) => LineEnd(pos) \in Nat
  BY LineEndType
<1>4. CASE ParseLine
  <2>1. response' = <<>> /\ arrays' = <<>> /\ buffer' = buffer /\ ret' \in BOOLEAN
    BY <1>1, <1>4 DEF ParseLine
  <2> QED
    BY <1>1, <1>2, <1>3, <1>4, <2>1 DEF ParseLine, Return, Again, Parsed
<1>5. ASSUME NEW v \in SUBSET Got PROVE Append(response, v) \in Seq(SUBSET Got)
  BY <1>1, <1>2, AppendProperties
<1>6. CASE ParseInteger
  <2>1. {buffer[pos + 1]} \in SUBSET Got
    BY <1>6, MarkerAt DEF ParseInteger, Markers
  <2>2. arrays' = <<>> /\ buffer' = buffer /\ ret' \in BOOLEAN
    BY <1>1, <1>6 DEF ParseInteger
  <2>3. CASE HasLine(pos)
    <3>1. response' \in Seq(SUBSET Got)
      BY <1>5, <1>6, <2>1, <2>3 DEF ParseInteger
    <3> QED
      BY <1>1, <1>2, <1>3, <1>6, <2>2, <2>3, <3>1 DEF ParseInteger, Return, Parsed
  <2>4. CASE ~HasLine(pos)
    BY <1>1, <1>2, <1>6, <2>2, <2>4 DEF ParseInteger, Again, Parsed
  <2> QED
    BY <2>3, <2>4
<1>7. CASE ParseBulkString
  <2>1. arrays' = <<>> /\ buffer' = buffer /\ ret' \in BOOLEAN
    BY <1>1, <1>7 DEF ParseBulkString
  <2>2. CASE BulkComplete(pos)
    <3>1. BulkEnd(pos) \in Nat /\ BulkString(pos) \in SUBSET Got
      BY <1>7, <2>2, BulkAt DEF ParseBulkString, Markers
    <3>2. response' \in Seq(SUBSET Got)
      BY <1>5, <1>7, <2>2, <3>1 DEF ParseBulkString
    <3> QED
      BY <1>1, <1>2, <1>7, <2>1, <2>2, <3>1, <3>2 DEF ParseBulkString, Return, Parsed
  <2>3. CASE ~BulkComplete(pos)
    BY <1>1, <1>2, <1>7, <2>1, <2>3 DEF ParseBulkString, Again, Parsed
  <2> QED
    BY <2>2, <2>3
<1>8. CASE ParseInvalid
  BY <1>1, <1>2, <1>8 DEF ParseInvalid, clearBuffer, Parsed
<1> QED
  BY <1>4, <1>6, <1>7, <1>8

\* Among the calls the last is that of the array being read.
LEMMA TopCall ==
  ASSUME Values, pc = "parseArray"
  PROVE  /\ Len(arrays) \in 1..Len(arrays)
         /\ top \in Calls(Got)
<1>1. arrays \in Seq(Calls(Got)) /\ arrays # <<>>
  BY DEF Values
<1>2. Len(arrays) \in 1..Len(arrays)
  BY <1>1, EmptySeq
<1> QED
  BY <1>1, <1>2, ElementOfSeq DEF top

LEMMA ParseArrays ==
  ASSUME TypeOK, Values,
         ParseArray \/ ParseElement \/ ParseArrayFails \/ EndArray
  PROVE  Parsed
<1> USE DEF TypeOK, requestVars, bufferVars
<1>1. pc \in {"parse", "parseArray"} /\ response = <<>> /\ arrays \in Seq(Calls(Got))
  BY DEF ParseArray, ParseElement, ParseArrayFails, EndArray, Values
<1>2. <<>> \in Seq(SUBSET Got) /\ <<>> \in Seq(Calls(Got))
  BY EmptySeq
<1>3. HasLine(pos) => LineEnd(pos) \in Nat
  BY LineEndType
<1>4. CASE ParseArray
  <2>1. Number(pos) \in Int
    BY <1>4, MarkerAt DEF ParseArray, Markers
  <2> DEFINE call == [count |-> Number(pos), list |-> <<>>]
  <2>2. call \in Calls(Got) /\ arrays' = Append(arrays, call)
    BY <1>2, <1>4, <2>1 DEF Calls, ParseArray
  <2> HIDE DEF call
  <2>3. /\ arrays' \in Seq(Calls(Got)) /\ Len(arrays) \in Nat
        /\ Len(arrays') = Len(arrays) + 1
    BY <1>1, <2>2, AppendProperties, LenProperties
  <2>4. arrays' # <<>>
    BY <2>3, EmptySeq
  <2> QED
    BY <1>1, <1>2, <1>3, <1>4, <2>3, <2>4 DEF ParseArray, Parsed
<1>5. CASE ParseElement
  <2>0. pc = "parseArray" /\ Len(arrays) \in 1..Len(arrays)
    BY SMTT(60), <1>5, TopCall DEF ParseElement
  <2>1. PICK v \in SUBSET Got :
          /\ arrays' = [arrays EXCEPT ![Len(arrays)].list = Append(@, v)]
          /\ pos' \in Nat
    <3>1. CASE TypeAt(pos) = "bulk" /\ BulkComplete(pos) /\ pos' = BulkEnd(pos)
               /\ arrays' = [arrays EXCEPT ![Len(arrays)].list = Append(@, BulkString(pos))]
      BY <3>1, BulkAt DEF Markers
    <3>2. CASE TypeAt(pos) = "integer" /\ HasLine(pos) /\ pos' = LineEnd(pos)
               /\ arrays' = [arrays EXCEPT ![Len(arrays)].list = Append(@, {buffer[pos + 1]})]
      <4>1. {buffer[pos + 1]} \in SUBSET Got
        BY <3>2, MarkerAt DEF Markers
      <4> QED
        BY <1>3, <3>2, <4>1
    <3> QED
      BY <1>5, <3>1, <3>2 DEF ParseElement
  <2>2. arrays' \in Seq(Calls(Got))
    BY <1>1, <2>0, <2>1, AppendToList
  <2>3. Len(arrays') \in Nat /\ DOMAIN arrays' = 1..Len(arrays')
        /\ DOMAIN arrays' = DOMAIN arrays /\ DOMAIN arrays = 1..Len(arrays)
    BY <1>1, <2>1, <2>2, LenProperties
  <2>4. arrays' # <<>>
    BY <2>0, <2>3
  <2> QED
    BY <1>1, <1>2, <1>5, <2>0, <2>1, <2>2, <2>4 DEF ParseElement, Parsed
<1>6. CASE ParseArrayFails
  BY <1>1, <1>2, <1>6 DEF ParseArrayFails, Again, Parsed
<1>7. CASE EndArray
  <2>0. /\ pc = "parseArray" /\ Len(arrays) \in 1..Len(arrays)
        /\ top.list \in Seq(SUBSET Got)
    BY <1>7, TopCall DEF EndArray, Calls
  <2>1. CASE Len(arrays) = 1
    BY <1>1, <1>2, <1>7, <2>0, <2>1 DEF EndArray, Return, Parsed
  <2>2. CASE Len(arrays) # 1
    <3> DEFINE m == Len(arrays) - 1
               as == SubSeq(arrays, 1, m)
               v == UNION {top.list[i] : i \in DOMAIN top.list}
    <3>0. Len(arrays) \in Nat
      BY <1>1, LenProperties
    <3>1. m \in Nat /\ m >= 1 /\ m \in 0..Len(arrays)
      <4>1. \A n \in Nat : n \in 1..n /\ n # 1 =>
              n - 1 \in Nat /\ n - 1 >= 1 /\ n - 1 \in 0..n
        OBVIOUS
      <4> QED
        BY <2>0, <2>2, <3>0, <4>1
    <3>2. as \in Seq(Calls(Got)) /\ Len(as) = m
      BY SMTT(60), <1>1, <3>1, Part
    <3>3. v \in SUBSET Got
      BY <2>0, ElementOfSeq
    <3> HIDE DEF as, v, m
    <3>4. [as EXCEPT ![m].list = Append(@, v)] \in Seq(Calls(Got))
      <4>1. m \in 1..Len(as)
        BY <3>1, <3>2
      <4> QED
        BY <3>2, <3>3, <4>1, AppendToList
    <3>5. /\ arrays' = [as EXCEPT ![m].list = Append(@, v)]
          /\ UNCHANGED <<response, pos, pc, given, connected, sent, serverVars,
                         buffer, startpos, ret, late, cut>>
      BY <1>7, <2>2 DEF EndArray, as, v, m
    <3>6. DOMAIN arrays' = DOMAIN as /\ DOMAIN as = 1..Len(as)
      BY <3>2, <3>5, LenProperties
    <3>7. arrays' # <<>>
      BY <3>1, <3>2, <3>6
    <3> QED
      BY <1>1, <1>2, <2>0, <3>4, <3>5, <3>7 DEF Parsed
  <2> QED
    BY <2>1, <2>2
<1> QED
  BY <1>4, <1>5, <1>6, <1>7

\* The steps of the parser keep the types.
LEMMA ParsedType ==
  ASSUME TypeOK, Values, Parse
  PROVE  Parsed /\ TypeOK' /\ Values'
<1>1. Parsed
  BY ParseSimple, ParseArrays DEF Parse
<1>2. Got \subseteq Granule
  BY GotType DEF TypeOK
<1>3. /\ response' \in Seq(SUBSET Granule)
      /\ arrays' \in Seq(Calls(Granule))
  BY <1>1, <1>2, CallsMonotonic DEF Parsed
<1>4. given' \subseteq Granule
  <2>1. \A i \in DOMAIN response' : response'[i] \subseteq Granule
    BY <1>3, ElementOfSeq, LenProperties
  <2> QED
    BY <1>1, <2>1 DEF Parsed, TypeOK
<1>5. buffer' \in Seq(Granule)
  BY <1>1, EmptySeq DEF Parsed, TypeOK
<1>6. TypeOK'
  BY <1>1, <1>3, <1>4, <1>5 DEF Parsed, TypeOK, Calls, serverVars
<1>7. Values'
  <2>1. CASE buffer' = buffer
    BY <1>1, <2>1 DEF Parsed, Values, Got
  <2>2. CASE buffer' # buffer
    <3>1. pc' = "idle" /\ arrays' = <<>>
      BY <2>2 DEF Parse, ParseLine, ParseInteger, ParseBulkString, ParseInvalid,
                  ParseArray, ParseElement, ParseArrayFails, EndArray, Values,
                  requestVars, bufferVars
    <3> QED
      BY <3>1, EmptySeq DEF Values
  <2> QED
    BY <2>1, <2>2
<1> QED
  BY <1>1, <1>6, <1>7

\* The other steps find no call and leave none.
LEMMA OtherValues ==
  ASSUME TypeOK, Values,
         \/ Answer \/ Open \/ Close \/ Disconnect \/ moveToThread \/ Request
         \/ ReadClosed \/ BeginRead \/ Read \/ ReadTimeout
  PROVE  Values'
<1>1. CASE Answer \/ Open \/ Close \/ Disconnect \/ moveToThread
  BY <1>1 DEF Answer, Open, Close, Disconnect, moveToThread, Values, Got,
              bufferVars, requestVars
<1>2. CASE Request \/ ReadClosed \/ BeginRead \/ Read \/ ReadTimeout
  <2>1. arrays = <<>> /\ arrays' = <<>> /\ pc' # "parseArray"
        /\ (pc' # "idle" => response' = <<>>)
    BY <1>2 DEF Request, ReadClosed, BeginRead, Read, ReadTimeout, Values, requestVars
  <2> QED
    BY <2>1, EmptySeq DEF Values
<1> QED
  BY <1>1, <1>2

TypeInv == TypeOK /\ Values

LEMMA TypeNext ==
  ASSUME TypeInv, [Next]_vars
  PROVE  TypeInv'
<1>1. CASE Answer \/ Open \/ Close \/ Disconnect \/ moveToThread \/ Request
  BY <1>1, TypeConnection, OtherValues DEF TypeInv
<1>2. CASE ReadClosed \/ BeginRead \/ Read \/ ReadTimeout
  BY <1>2, TypeReading, OtherValues DEF TypeInv
<1>3. CASE Parse
  BY <1>3, ParsedType DEF TypeInv
<1>4. CASE UNCHANGED vars
  BY <1>4 DEF TypeInv, TypeOK, Values, Got, vars, serverVars, bufferVars, requestVars
<1> QED
  BY <1>1, <1>2, <1>3, <1>4 DEF Next, Driver

\* The variables keep their types: in particular the parser, whatever the texts
\* and wherever they are cut, only takes what is in the buffer.
THEOREM SpecTypeOK == Spec => []TypeOK
<1>1. Init => TypeInv
  BY InitTypeOK, EmptySeq DEF Init, TypeInv, Values
<1>2. TypeInv /\ [Next]_vars => TypeInv'
  BY TypeNext
<1>3. TypeInv => TypeOK
  BY DEF TypeInv
<1> QED
  BY <1>1, <1>2, <1>3, PTL DEF Spec

-----------------------------------------------------------------------------
(* The order of replies *)

\* Granules that lie before all that is in the stream or still to come.
Behind(G, str, due, n) ==
  \A g \in G :
    /\ g.cmd <= n
    /\ \A i \in DOMAIN str : Before(g, str[i])
    /\ \A j \in DOMAIN due : g.cmd < due[j]

\* The stream and the commands to be answered are in order.
InOrder(str, due, n) ==
  /\ \A i \in DOMAIN str :
       /\ str[i].cmd <= n
       /\ \A k \in DOMAIN str : i < k => Before(str[i], str[k])
       /\ \A j \in DOMAIN due : str[i].cmd < due[j]
  /\ \A j \in DOMAIN due :
       /\ due[j] <= n
       /\ \A k \in DOMAIN due : j < k => due[j] < due[k]

OrderInv ==
  /\ InOrder(stream, owed, sent)
  /\ Behind(given, stream, owed, sent)
  /\ pc # "idle" => /\ Behind(Got, stream, owed, sent)
                    /\ \A g \in Got, h \in given : Before(h, g)

\* A stream from which a part at its beginning or its end was taken.
LEMMA Fewer ==
  ASSUME NEW str \in Seq(Granule), NEW due \in Seq(1..MaxRequests), NEW n \in Nat,
         InOrder(str, due, n), NEW k \in Nat,
         NEW less \in Seq(Granule), Len(less) + k <= Len(str),
         \A i \in 1..Len(less) : less[i] = str[i + k],
         NEW fewer, fewer = due \/ fewer = <<>>
  PROVE  /\ InOrder(less, fewer, n)
         /\ \A G : Behind(G, str, due, n) => Behind(G, less, fewer, n)
<1>1. \A i \in DOMAIN less : i \in Nat /\ i + k \in DOMAIN str /\ less[i] = str[i + k]
  BY LenProperties
<1>2. \A j \in DOMAIN fewer : j \in DOMAIN due /\ fewer[j] = due[j]
  OBVIOUS
<1>3. InOrder(less, fewer, n)
  BY <1>1, <1>2 DEF InOrder
<1>4. ASSUME NEW G, Behind(G, str, due, n) PROVE Behind(G, less, fewer, n)
  BY <1>1, <1>2, <1>4 DEF Behind
<1> QED
  BY <1>3, <1>4

LEMMA SubStream ==
  ASSUME NEW str \in Seq(Granule), NEW due \in Seq(1..MaxRequests), NEW num \in Nat,
         InOrder(str, due, num),
         NEW m \in Nat \ {0}, NEW n \in 0..Len(str),
         NEW fewer, fewer = due \/ fewer = <<>>
  PROVE  /\ SubSeq(str, m, n) \in Seq(Granule)
         /\ InOrder(SubSeq(str, m, n), fewer, num)
         /\ \A G : Behind(G, str, due, num) => Behind(G, SubSeq(str, m, n), fewer, num)
<1> DEFINE less == SubSeq(str, m, n)
<1>1. /\ less \in Seq(Granule) /\ Len(str) \in Nat
      /\ Len(less) = IF m <= n THEN n - m + 1 ELSE 0
      /\ \A i \in 1..(n - m + 1) : less[i] = str[m + i - 1]
  BY Part, LenProperties
<1> HIDE DEF less
<1>2. CASE m <= n
  <2>1. /\ m - 1 \in Nat /\ Len(less) + (m - 1) <= Len(str)
        /\ \A i \in 1..Len(less) : less[i] = str[i + (m - 1)]
    BY <1>1, <1>2
  <2> DEFINE k == m - 1
  <2> HIDE DEF k
  <2>2. /\ k \in Nat /\ Len(less) + k <= Len(str)
        /\ \A i \in 1..Len(less) : less[i] = str[i + k]
    BY <2>1 DEF k
  <2>3. InOrder(less, fewer, num) /\ \A G : Behind(G, str, due, num) => Behind(G, less, fewer, num)
    BY <1>1, <2>2, Fewer
  <2> QED
    BY <1>1, <2>3 DEF less
<1>3. CASE ~(m <= n)
  <2>1. Len(less) + 0 <= Len(str) /\ \A i \in 1..Len(less) : less[i] = str[i + 0]
    BY <1>1, <1>3
  <2>2. InOrder(less, fewer, num) /\ \A G : Behind(G, str, due, num) => Behind(G, less, fewer, num)
    BY <1>1, <2>1, Fewer
  <2> QED
    BY <1>1, <2>2 DEF less
<1> QED
  BY <1>2, <1>3

\* The answer to the first command that is owed goes to the end of the stream.
LEMMA Answered ==
  ASSUME NEW str \in Seq(Granule), NEW due \in Seq(1..MaxRequests), NEW n \in Nat,
         InOrder(str, due, n), due # <<>>, NEW text \in Replies,
         NEW more, more = str \o OnWire(Head(due), text)
  PROVE  /\ InOrder(more, Tail(due), n)
         /\ \A G \in SUBSET Granule :
              Behind(G, str, due, n) => Behind(G, more, Tail(due), n)
<1> DEFINE k == Head(due)
           w == OnWire(k, text)
<1>1. /\ k \in 1..MaxRequests /\ k = due[1] /\ 1 \in DOMAIN due
      /\ Tail(due) \in Seq(1..MaxRequests)
      /\ \A j \in DOMAIN Tail(due) : j \in Nat /\ j + 1 \in DOMAIN due
                                     /\ Tail(due)[j] = due[j + 1]
  <2>1. Len(due) \in Nat \ {0} /\ DOMAIN due = 1..Len(due)
    BY EmptySeq, LenProperties
  <2>2. /\ Head(due) \in 1..MaxRequests /\ Tail(due) \in Seq(1..MaxRequests)
        /\ Len(Tail(due)) = Len(due) - 1
        /\ \A j \in 1..Len(Tail(due)) : Tail(due)[j] = due[j + 1]
    BY HeadTailProperties
  <2>3. DOMAIN Tail(due) = 1..Len(Tail(due))
    BY <2>2, LenProperties
  <2>4. Head(due) = due[1]
    BY <2>1
  <2> QED
    BY <2>1, <2>2, <2>3, <2>4
<1>2. w \in Seq(Granule) /\ \A i \in DOMAIN w : w[i].cmd = k /\ w[i].at = i
  BY <1>1, OnWireType
<1> HIDE DEF k, w
<1>3. /\ more \in Seq(Granule) /\ Len(str) \in Nat
      /\ DOMAIN more = 1..(Len(str) + Len(w))
      /\ DOMAIN str = 1..Len(str) /\ DOMAIN w = 1..Len(w) /\ Len(w) \in Nat
      /\ \A i \in DOMAIN more : more[i] = IF i <= Len(str) THEN str[i] ELSE w[i - Len(str)]
  BY <1>2, ConcatProperties, LenProperties DEF w, k
<1>4. \A i \in DOMAIN more :
        \/ i \in DOMAIN str /\ more[i] = str[i]
        \/ /\ i \notin DOMAIN str
           /\ more[i].cmd = k /\ more[i].at = i - Len(str)
  BY SMTT(60), <1>2, <1>3
<1>5. \A j \in DOMAIN Tail(due) : k < Tail(due)[j]
  <2> SUFFICES ASSUME NEW j \in DOMAIN Tail(due) PROVE k < Tail(due)[j]
    OBVIOUS
  <2>1. 1 < j + 1
    BY <1>1, LenProperties
  <2> QED
    BY <1>1, <2>1 DEF InOrder
<1>6. k <= n
  BY <1>1 DEF InOrder
<1>7. \A i \in DOMAIN str : str[i].cmd < k /\ str[i].cmd \in Int
  <2> SUFFICES ASSUME NEW i \in DOMAIN str
               PROVE  str[i].cmd < k /\ str[i].cmd \in Int
    OBVIOUS
  <2>1. str[i] \in Granule
    BY <1>3, ElementOfSeq
  <2> QED
    BY <1>1, <2>1 DEF InOrder, Granule
<1>8. \A i, m \in DOMAIN more : i < m => Before(more[i], more[m])
  <2> SUFFICES ASSUME NEW i \in DOMAIN more, NEW m \in DOMAIN more, i < m
               PROVE  Before(more[i], more[m])
    OBVIOUS
  <2>1. CASE m \in DOMAIN str
    BY <1>3, <1>4, <2>1 DEF InOrder
  <2>2. CASE m \notin DOMAIN str /\ i \in DOMAIN str
    BY <1>3, <1>4, <1>7, <2>2 DEF Before
  <2>3. CASE m \notin DOMAIN str /\ i \notin DOMAIN str
    BY <1>3, <1>4, <2>3 DEF Before
  <2> QED
    BY <2>1, <2>2, <2>3
<1>9. \A i \in DOMAIN more :
        more[i].cmd <= n /\ \A j \in DOMAIN Tail(due) : more[i].cmd < Tail(due)[j]
  BY ZenonT(60), <1>1, <1>4, <1>5, <1>6 DEF InOrder
<1>10. InOrder(more, Tail(due), n)
  BY SMTT(60), <1>1, <1>8, <1>9 DEF InOrder
<1>11. ASSUME NEW G \in SUBSET Granule, Behind(G, str, due, n)
       PROVE  Behind(G, more, Tail(due), n)
  <2> SUFFICES ASSUME NEW g \in G
               PROVE  /\ g.cmd <= n
                      /\ \A i \in DOMAIN more : Before(g, more[i])
                      /\ \A j \in DOMAIN Tail(due) : g.cmd < Tail(due)[j]
    BY DEF Behind
  <2>1. g.cmd < k /\ g.cmd <= n
    BY <1>1, <1>11 DEF Behind
  <2>2. \A i \in DOMAIN more : Before(g, more[i])
    <3> SUFFICES ASSUME NEW i \in DOMAIN more PROVE Before(g, more[i])
      OBVIOUS
    <3>1. CASE i \in DOMAIN str /\ more[i] = str[i]
      BY <1>11, <3>1 DEF Behind
    <3>2. CASE more[i].cmd = k
      BY <2>1, <3>2 DEF Before
    <3> QED
      BY <1>4, <3>1, <3>2
  <2> QED
    BY <1>1, <1>11, <2>1, <2>2 DEF Behind
<1> QED
  BY <1>10, <1>11

LEMMA OrderConnection ==
  ASSUME TypeOK, OrderInv,
         Answer \/ Open \/ Close \/ Disconnect \/ moveToThread
  PROVE  OrderInv'
<1> USE DEF TypeOK, bufferVars
<1>0. /\ sent' = sent /\ given' = given /\ pc' = pc /\ buffer' = buffer
      /\ InOrder(stream, owed, sent) /\ sent \in Nat
      /\ Got \in SUBSET Granule /\ Got' = Got
  BY SMTT(60), RedisAssumption, GotType DEF Answer, Open, Close, Disconnect, moveToThread, OrderInv, Got
<1>1. /\ InOrder(stream', owed', sent)
      /\ \A G \in SUBSET Granule :
           Behind(G, stream, owed, sent) => Behind(G, stream', owed', sent)
  <2>1. CASE Answer
    <3>1. PICK text \in Replies : stream' = stream \o OnWire(Head(owed), text)
      BY <2>1 DEF Answer
    <3> QED
      BY <1>0, <2>1, <3>1, Answered DEF Answer
  <2>2. CASE Open \/ Close
    <3>1. stream' = <<>> /\ owed' = <<>>
      BY <2>2 DEF Open, Close
    <3>2. DOMAIN stream' = {} /\ DOMAIN owed' = {}
      BY <3>1
    <3> QED
      BY <3>2 DEF InOrder, Behind
  <2>4. CASE Disconnect
    <3>1. PICK n \in 0..Len(stream) : stream' = SubSeq(stream, 1, n)
      BY <2>4 DEF Disconnect
    <3>2. owed' = <<>> /\ 1 \in Nat \ {0}
      BY <2>4 DEF Disconnect
    <3> QED
      BY <1>0, <3>1, <3>2, SubStream
  <2>5. CASE moveToThread
    <3>1. PICK n \in 1..Len(stream) : stream' = SubSeq(stream, n + 1, Len(stream))
      BY <2>5 DEF moveToThread
    <3>2. owed' = owed /\ n + 1 \in Nat \ {0} /\ Len(stream) \in 0..Len(stream)
      BY <2>5, LenProperties DEF moveToThread
    <3> QED
      BY <1>0, <3>1, <3>2, SubStream
  <2> QED
    BY <2>1, <2>2, <2>4, <2>5
<1> QED
  BY <1>0, <1>1 DEF OrderInv

\* A command is written: it is owed after all the others.
LEMMA OrderRequest ==
  ASSUME TypeOK, OrderInv, Request
  PROVE  OrderInv'
<1>1. /\ owed' = Append(owed, sent + 1) /\ sent' = sent + 1
      /\ stream' = stream /\ given' = given /\ buffer' = <<>>
      /\ sent \in Nat /\ owed \in Seq(1..MaxRequests) /\ sent + 1 \in 1..MaxRequests
      /\ stream \in Seq(Granule) /\ given \subseteq Granule
  BY RedisAssumption DEF Request, clearBuffer, TypeOK
<1>2. /\ Len(owed) \in Nat /\ DOMAIN owed = 1..Len(owed)
      /\ DOMAIN owed' = 1..(Len(owed) + 1)
      /\ \A j \in DOMAIN owed' : owed'[j] = IF j <= Len(owed) THEN owed[j] ELSE sent + 1
  BY <1>1, AppendProperties, LenProperties
<1>3. \A j \in DOMAIN owed' :
        \/ j \in DOMAIN owed /\ owed'[j] = owed[j]
        \/ j \notin DOMAIN owed /\ owed'[j] = sent + 1
  <2> DEFINE n == Len(owed)
  <2> HIDE DEF n
  <2>1. /\ n \in Nat /\ DOMAIN owed = 1..n /\ DOMAIN owed' = 1..(n + 1)
        /\ \A j \in DOMAIN owed' : owed'[j] = IF j <= n THEN owed[j] ELSE sent + 1
    BY <1>2 DEF n
  <2> TAKE j \in DOMAIN owed'
  <2>2. j \in Int /\ j >= 1 /\ j <= n + 1
    BY <2>1
  <2>3. CASE j <= n
    <3>1. j \in DOMAIN owed
      BY <2>1, <2>2, <2>3
    <3>2. owed'[j] = owed[j]
      BY <2>1, <2>3
    <3> QED
      BY <3>1, <3>2
  <2>4. CASE ~(j <= n)
    <3>1. j \notin DOMAIN owed
      BY <2>1, <2>2, <2>4
    <3> QED
      BY <2>1, <2>4, <3>1
  <2> QED
    BY <2>3, <2>4
<1>4. \A i \in DOMAIN stream : stream[i].cmd \in Int
  <2>1. \A i \in DOMAIN stream : stream[i] \in Granule
    BY <1>1, ElementOfSeq, LenProperties
  <2> QED
    BY <2>1 DEF Granule
<1>5. \A j \in DOMAIN owed : owed[j] \in Int
  <2>1. \A j \in DOMAIN owed : owed[j] \in 1..MaxRequests
    BY <1>1, <1>2, ElementOfSeq
  <2> QED
    BY <2>1
<1>6. \A g \in given : g.cmd \in Int
  BY <1>1 DEF Granule
<1>7. InOrder(stream, owed', sent + 1)
  <2>1. \A i \in DOMAIN stream :
          /\ stream[i].cmd <= sent + 1
          /\ \A k \in DOMAIN stream : i < k => Before(stream[i], stream[k])
          /\ \A j \in DOMAIN owed' : stream[i].cmd < owed'[j]
    BY <1>1, <1>3, <1>4 DEF OrderInv, InOrder
  <2>2. \A j \in DOMAIN owed' :
          owed'[j] <= sent + 1 /\ \A k \in DOMAIN owed' : j < k => owed'[j] < owed'[k]
    BY <1>1, <1>2, <1>3, <1>5 DEF OrderInv, InOrder
  <2> QED
    BY <2>1, <2>2 DEF InOrder
<1>8. Behind(given, stream, owed', sent + 1)
  BY <1>1, <1>3, <1>6 DEF OrderInv, Behind
<1>9. Got' = {}
  BY <1>1 DEF Got
<1> QED
  BY <1>1, <1>7, <1>8, <1>9 DEF OrderInv, Behind

\* What is read lies behind all that was given out, and before the rest.
LEMMA OrderReading ==
  ASSUME TypeOK, OrderInv, Values, ReadClosed \/ BeginRead \/ Read \/ ReadTimeout
  PROVE  OrderInv'
<1> USE DEF TypeOK, bufferVars, serverVars
<1>1. CASE ReadClosed \/ ReadTimeout
  BY <1>1 DEF ReadClosed, ReadTimeout, OrderInv
<1>2. CASE BeginRead
  <2>1. /\ \A i \in 1..Len(buffer') : buffer'[i] = buffer[pos + i]
        /\ DOMAIN buffer' = 1..Len(buffer') /\ DOMAIN buffer = 1..Len(buffer)
        /\ Len(buffer') \in Nat /\ Len(buffer) \in Nat
        /\ Len(buffer') = IF pos + 1 <= Len(buffer) THEN Len(buffer) - pos ELSE 0
    BY <1>2, Part, LenProperties DEF BeginRead
  <2>2. \A i \in DOMAIN buffer' : pos + i \in DOMAIN buffer
    BY SMTT(60), <2>1
  <2>3. Got' \subseteq Got
    BY ZenonT(60), <2>1, <2>2 DEF Got
  <2>4. UNCHANGED <<stream, owed, sent, given>> /\ pc # "idle"
    BY <1>2 DEF BeginRead
  <2> QED
    BY <2>3, <2>4 DEF OrderInv, Behind
<1>3. CASE Read
  <2>1. PICK n \in 1..Len(stream) :
          /\ buffer' = buffer \o SubSeq(stream, 1, n)
          /\ stream' = SubSeq(stream, n + 1, Len(stream))
    BY <1>3 DEF Read, ReadSizes
  <2>2. UNCHANGED <<owed, sent, given>> /\ pc # "idle" /\ sent \in Nat
    BY <1>3, RedisAssumption DEF Read
  <2>3. n \in 0..Len(stream) /\ n + 1 \in Nat \ {0} /\ Len(stream) \in 0..Len(stream)
    BY LenProperties
  <2>4. /\ InOrder(stream', owed', sent')
        /\ \A G : Behind(G, stream, owed, sent) => Behind(G, stream', owed', sent')
    BY <2>1, <2>2, <2>3, SubStream DEF OrderInv
  <2> DEFINE head == SubSeq(stream, 1, n)
             First == {stream[i] : i \in 1..n}
  <2>5. head \in Seq(Granule) /\ Len(head) = n /\ \A i \in 1..n : head[i] = stream[i]
    BY <2>3, Part
  <2>6. Got' \subseteq Got \cup First
    <3> HIDE DEF head
    <3>1. /\ \A i \in 1..(Len(buffer) + Len(head)) :
               buffer'[i] = IF i <= Len(buffer) THEN buffer[i] ELSE head[i - Len(buffer)]
          /\ DOMAIN buffer' = 1..(Len(buffer) + Len(head))
          /\ Len(buffer) \in Nat /\ DOMAIN buffer = 1..Len(buffer) /\ n \in Nat
      BY <2>1, <2>3, <2>5, ConcatProperties, LenProperties DEF head
    <3>2. \A i \in DOMAIN buffer' :
            \/ i \in DOMAIN buffer /\ buffer'[i] = buffer[i]
            \/ i - Len(buffer) \in 1..n /\ buffer'[i] = stream[i - Len(buffer)]
      <4> DEFINE l == Len(buffer)
      <4> HIDE DEF l, First
      <4>1. /\ \A i \in 1..(l + n) :
                 buffer'[i] = IF i <= l THEN buffer[i] ELSE head[i - l]
            /\ DOMAIN buffer' = 1..(l + n) /\ l \in Nat /\ n \in Nat
            /\ DOMAIN buffer = 1..l /\ \A i \in 1..n : head[i] = stream[i]
        BY <2>5, <3>1 DEF l
      <4> TAKE i \in DOMAIN buffer'
      <4>2. i \in Int /\ i >= 1 /\ i <= l + n
        BY <4>1
      <4>3. CASE i <= l
        <5>1. i \in DOMAIN buffer
          BY <4>1, <4>2, <4>3
        <5>2. buffer'[i] = buffer[i]
          BY <4>1, <4>3
        <5> QED
          BY <5>1, <5>2
      <4>4. CASE ~(i <= l)
        <5>1. i - l \in 1..n
          BY <4>1, <4>2, <4>4
        <5>2. buffer'[i] = head[i - l]
          BY SMTT(60), <4>1, <4>4
        <5> QED
          BY <4>1, <5>1, <5>2 DEF l
      <4> QED
        BY <4>3, <4>4
    <3> QED
      BY <3>2 DEF Got
  <2>7. Behind(First, stream', owed', sent')
    <3>1. /\ \A i \in 1..Len(stream') : stream'[i] = stream[n + i]
          /\ DOMAIN stream' = 1..Len(stream') /\ DOMAIN stream = 1..Len(stream)
          /\ Len(stream) \in Nat /\ Len(stream') \in Nat
          /\ Len(stream') = IF n + 1 <= Len(stream) THEN Len(stream) - n ELSE 0
      BY <2>1, <2>3, Part, LenProperties
    <3> DEFINE l == Len(stream)
               l2 == Len(stream')
    <3> HIDE DEF l, l2, First, head
    <3>0. /\ DOMAIN stream = 1..l /\ DOMAIN stream' = 1..l2 /\ l \in Nat /\ l2 \in Nat
          /\ l2 = (IF n + 1 <= l THEN l - n ELSE 0) /\ n \in 1..l
      BY <3>1 DEF l, l2
    <3>2. \A i \in DOMAIN stream' : n + i \in DOMAIN stream /\ i > 0
      BY <3>0
    <3>3. \A i \in 1..n : i \in DOMAIN stream /\ \A j \in DOMAIN stream' : i < n + j
      BY <3>0
    <3> USE DEF First
    <3> QED
      BY ZenonT(60), <2>2, <3>1, <3>2, <3>3 DEF OrderInv, InOrder, Behind
  <2>8. \A g \in First, h \in given : Before(h, g)
    BY LenProperties DEF OrderInv, Behind
  <2> HIDE DEF First
  <2>9. Behind(Got', stream', owed', sent')
    BY <2>2, <2>4, <2>6, <2>7 DEF OrderInv, Behind
  <2> QED
    BY <2>2, <2>4, <2>6, <2>8, <2>9 DEF OrderInv
<1> QED
  BY <1>1, <1>2, <1>3

\* The parser gives out what was in the buffer.
LEMMA OrderParsing ==
  ASSUME TypeOK, OrderInv, Parsed, pc # "idle"
  PROVE  /\ OrderInv'
         /\ \A i \in DOMAIN response' : response'[i] \subseteq Got
<1>1. \A i \in DOMAIN response' : response'[i] \subseteq Got
  BY ElementOfSeq, LenProperties DEF Parsed
<1>2. given' \subseteq given \cup Got
  BY <1>1 DEF Parsed
<1>3. Behind(given', stream, owed, sent)
  BY <1>2 DEF OrderInv, Behind
<1>4. pc' # "idle" => given' = given
  <2> SUFFICES ASSUME pc' # "idle" PROVE given' = given
    OBVIOUS
  <2>1. DOMAIN response' = {}
    BY DEF Parsed
  <2> QED
    BY <2>1 DEF Parsed
<1>5. Got' \subseteq Got
  BY DEF Parsed, Got
<1> QED
  BY <1>1, <1>3, <1>4, <1>5 DEF Parsed, OrderInv, Behind, serverVars

LEMMA OrderNext ==
  ASSUME TypeInv, OrderInv, [Next]_vars
  PROVE  OrderInv'
<1>1. CASE Answer \/ Open \/ Close \/ Disconnect \/ moveToThread
  BY <1>1, OrderConnection DEF TypeInv
<1>2. CASE Request
  BY <1>2, OrderRequest DEF TypeInv
<1>3. CASE ReadClosed \/ BeginRead \/ Read \/ ReadTimeout
  BY <1>3, OrderReading DEF TypeInv
<1>4. CASE Parse
  <2>1. pc # "idle"
    BY <1>4 DEF Parse, ParseLine, ParseInteger, ParseBulkString, ParseInvalid,
                ParseArray, ParseElement, ParseArrayFails, EndArray
  <2> QED
    BY <1>4, <2>1, ParsedType, OrderParsing DEF TypeInv
<1>5. CASE UNCHANGED vars
  BY <1>5 DEF OrderInv, Got, vars, serverVars, bufferVars
<1> QED
  BY <1>1, <1>2, <1>3, <1>4, <1>5 DEF Next, Driver

\* A step at which request() returns.
LEMMA ReturnInOrder ==
  ASSUME TypeInv, OrderInv, [Next]_vars, pc # "idle", pc' = "idle"
  PROVE  \A i \in DOMAIN response' : \A g \in response'[i] :
           \A h \in given : Before(h, g)
<1>1. CASE ReadClosed \/ ReadTimeout
  <2>1. response' = <<>>
    BY <1>1 DEF ReadClosed, ReadTimeout, TypeInv, Values, requestVars
  <2> QED
    BY <2>1
<1>2. CASE Parse
  BY <1>2, ParsedType, OrderParsing DEF TypeInv, OrderInv
<1> QED
  BY <1>1, <1>2 DEF Next, Driver, Answer, Open, Close, Disconnect, moveToThread,
                    Request, BeginRead, Read, vars

\* The parts of replies that requests return are in the order of the stream:
\* none is returned twice or after a later one, for all replies, all cuts, all
\* timeouts and any number of requests.
THEOREM SpecRepliesInOrder == Spec => RepliesInOrder
<1>1. Init => TypeInv /\ OrderInv
  <2> SUFFICES ASSUME Init PROVE TypeInv /\ OrderInv
    OBVIOUS
  <2>1. TypeInv
    BY InitTypeOK, EmptySeq DEF Init, TypeInv, Values
  <2>2. stream = <<>> /\ owed = <<>> /\ given = {} /\ pc = "idle"
    BY DEF Init
  <2>3. InOrder(stream, owed, sent) /\ Behind(given, stream, owed, sent)
    BY <2>2 DEF InOrder, Behind
  <2> QED
    BY <2>1, <2>2, <2>3 DEF OrderInv
<1>2. TypeInv /\ OrderInv /\ [Next]_vars => TypeInv' /\ OrderInv'
  BY TypeNext, OrderNext
<1>3. TypeInv /\ OrderInv /\ [Next]_vars =>
        [pc # "idle" /\ pc' = "idle" =>
           \A i \in DOMAIN response' : \A g \in response'[i] :
             \A h \in given : Before(h, g)]_vars
  BY ReturnInOrder
<1> QED
  BY <1>1, <1>2, <1>3, PTL DEF Spec, RepliesInOrder

-----------------------------------------------------------------------------
(* The reply of the command itself *)

\* How far the first l elements of the array at h reach, never beyond its end.
Done(text, h, l) ==
  IF l <= Count(text, h) THEN Elements(text, h)[l + 1] ELSE After(text, h)

\* No array that begins between h and q reaches beyond q.
NoneOpen(text, h, q) ==
  \A a \in DOMAIN text :
    text[a].type = "array" /\ h < a /\ a < q => After(text, a) <= q

ValuesOf(k, text, h, l) ==
  [j \in 1..l |-> ValueAt(k, text, Elements(text, h)[j])]

\* A call of parseArray() for the array at h, when its next element is to begin
\* at q: its list has the elements before q, or fewer than those. The second
\* happens when an empty array took an element that was not its own.
InCall(k, text, call, h, q) ==
  LET l == Len(call.list)
  IN /\ text[h].type = "array" /\ call.count = text[h].num
     /\ h < q /\ NoneOpen(text, h, q)
     /\ \/ Done(text, h, l) < q
        \/ /\ Done(text, h, l) = q
           /\ l <= Count(text, h) /\ call.list = ValuesOf(k, text, h, l)

\* The calls are for arrays within one another, from the outermost on.
NestedCalls(k, text, cs, p) ==
  \E hs \in [1..Len(cs) -> DOMAIN text] :
    /\ hs[1] = 1
    /\ \A d \in 1..Len(cs) :
         InCall(k, text, cs[d], hs[d], IF d = Len(cs) THEN p + 1 ELSE hs[d + 1])

\* A command has no answer before it was written, nor while it is owed one.
Unanswered ==
  /\ \A m \in 1..MaxRequests : m > sent => answer[m] = <<>>
  /\ \A j \in DOMAIN owed : answer[owed[j]] = <<>>

\* The buffer has the first granules of the reply to k.
Prefix(k, text) ==
  /\ Len(buffer) <= Len(text)
  /\ \A i \in 1..Len(buffer) : buffer[i] = OnWire(k, text)[i]

\* What is in the buffer does not end within a string, and is the whole reply if
\* startpos is stale.
CutWell(text) ==
  Len(buffer) > 0 =>
    \/ Len(buffer) = Len(text)
    \/ startpos = 0 /\ text[Len(buffer)].type # "data"

\* The buffer and then the stream have the reply from its beginning, and the
\* parser is at a place in it.
Intact ==
  LET text == answer[sent]
  IN /\ Prefix(sent, text) /\ CutWell(text)
     /\ Len(buffer) + Len(stream) <= Len(text)
     /\ \A i \in 1..Len(stream) : stream[i] = OnWire(sent, text)[Len(buffer) + i]
     /\ pc # "parseArray" => pos = 0
     /\ pc \in {"parse", "parseArray"} => Len(buffer) > 0
     /\ pc = "parseArray" => pos <= Len(buffer) /\ NestedCalls(sent, text, arrays, pos)

\* Nothing more comes: the whole reply did not satisfy the parser, and startpos
\* was stale.
Spent == Len(owed) = 0 /\ Len(stream) = 0 /\ pc \in {"readReply", "wait"}

\* An undisturbed request on its way.
Underway ==
  pc # "idle" /\ ~late /\ ~cut =>
    /\ sent > 0
    /\ Len(owed) <= 1 /\ \A j \in DOMAIN owed : owed[j] = sent
    /\ ~ret => Len(answer[sent]) > 0 /\ answer[sent][1].type = "error"
    /\ Intact \/ Spent

OwnInv == Unanswered /\ Underway /\ OwnReply

(* Texts of the protocol *)

LEMMA Places ==
  ASSUME NEW text \in Seq(Texts), WellFormed(text)
  PROVE  /\ Len(text) \in Nat \ {0} /\ DOMAIN text = 1..Len(text)
         /\ \A i \in DOMAIN text :
              /\ i \in Nat /\ i >= 1 /\ text[i].num \in Int
              /\ text[i].size \in Nat /\ After(text, i) = i + text[i].size
              /\ After(text, i) \in Nat /\ i < After(text, i)
<1>1. Len(text) \in Nat \ {0} /\ DOMAIN text = 1..Len(text)
  BY EmptySeq, LenProperties DEF WellFormed
<1>2. \A i \in DOMAIN text : text[i] \in Texts
  BY <1>1, ElementOfSeq
<1>3. \A i \in DOMAIN text : text[i].num \in Int /\ text[i].size \in Nat \ {0}
  BY <1>2 DEF Texts
<1> QED
  BY <1>1, <1>3 DEF After

\* The elements of an array lie between its header and its end.
LEMMA DoneFacts ==
  ASSUME NEW text \in Seq(Texts), WellFormed(text),
         NEW h \in DOMAIN text, text[h].type = "array"
  PROVE  /\ Count(text, h) \in Nat /\ text[h].num <= Count(text, h)
         /\ Done(text, h, 0) = h + 2
         /\ \A l \in Nat :
              /\ Done(text, h, l) \in Nat
              /\ h + 2 <= Done(text, h, l) /\ Done(text, h, l) <= After(text, h)
              /\ l >= Count(text, h) => Done(text, h, l) = After(text, h)
              /\ l < Count(text, h) =>
                   /\ Done(text, h, l) \in DOMAIN text
                   /\ text[Done(text, h, l)].type \in Markers
                   /\ Done(text, h, l) = Elements(text, h)[l + 1]
                   /\ Done(text, h, l + 1) = After(text, Done(text, h, l))
<1> DEFINE s == Elements(text, h)
           n == Count(text, h)
           e == After(text, h)
<1>1. s \in Layouts(text, h)
  BY DEF WellFormed, Elements, Markers
<1>2. n \in Nat /\ text[h].num <= n
  BY Places DEF Count
<1>3. /\ s \in [1..(n + 1) -> (h + 2)..e]
      /\ s[1] = h + 2 /\ s[n + 1] = e
      /\ \A j \in 1..n : /\ s[j] \in DOMAIN text
                         /\ text[s[j]].type \in Markers
                         /\ s[j + 1] = After(text, s[j])
  BY <1>1 DEF Layouts
<1>4. h \in Nat /\ e \in Nat /\ h + 2 <= e
  <2>1. text[h].size >= 2 /\ h \in Nat /\ e \in Nat
    BY Places DEF WellFormed, Markers
  <2>2. e = h + text[h].size /\ text[h].size \in Nat
    BY Places
  <2> QED
    BY <2>1, <2>2
<1>5. \A l : Done(text, h, l) = IF l <= n THEN s[l + 1] ELSE e
  BY DEF Done
<1> HIDE DEF s, n, e
<1>6. \A l \in Nat : l <= n => l + 1 \in 1..(n + 1) /\ (l < n => l + 1 \in 1..n)
  BY <1>2
<1>7. \A l \in Nat :
        /\ Done(text, h, l) \in Nat
        /\ h + 2 <= Done(text, h, l) /\ Done(text, h, l) <= e
        /\ l >= n => Done(text, h, l) = e
  <2> TAKE l \in Nat
  <2>1. CASE l <= n
    <3>1. s[l + 1] \in (h + 2)..e
      BY <1>3, <1>6, <2>1
    <3>2. l >= n => l = n
      BY <1>2, <2>1
    <3> QED
      BY <1>3, <1>4, <1>5, <2>1, <3>1, <3>2
  <2>2. CASE ~(l <= n)
    BY <1>4, <1>5, <2>2
  <2> QED
    BY <2>1, <2>2
<1>8. \A l \in Nat : l < n =>
        /\ Done(text, h, l) \in DOMAIN text
        /\ text[Done(text, h, l)].type \in Markers
        /\ Done(text, h, l) = s[l + 1]
        /\ Done(text, h, l + 1) = After(text, Done(text, h, l))
  <2> SUFFICES ASSUME NEW l \in Nat, l < n
               PROVE  /\ Done(text, h, l) \in DOMAIN text
                      /\ text[Done(text, h, l)].type \in Markers
                      /\ Done(text, h, l) = s[l + 1]
                      /\ Done(text, h, l + 1) = After(text, Done(text, h, l))
    OBVIOUS
  <2>1. l <= n /\ l + 1 <= n /\ l + 1 \in 1..n
    BY <1>2
  <2>2. Done(text, h, l) = s[l + 1] /\ Done(text, h, l + 1) = s[(l + 1) + 1]
    BY <1>5, <2>1
  <2> QED
    BY <1>3, <2>1, <2>2
<1>9. Done(text, h, 0) = h + 2
  BY <1>2, <1>3, <1>5
<1> QED
  BY <1>2, <1>7, <1>8, <1>9 DEF s, n, e

\* An element q was read, up to e. If everything before the first l elements of the
\* array at h lay before q, the first l + 1 lie before e.
LEMMA NextElement ==
  ASSUME NEW text \in Seq(Texts), WellFormed(text),
         NEW h \in DOMAIN text, text[h].type = "array",
         NEW q \in DOMAIN text, text[q].type \in Markers, h < q, NoneOpen(text, h, q),
         NEW l \in Nat, Done(text, h, l) <= q,
         NEW e \in Nat, After(text, q) <= e
  PROVE  /\ Done(text, h, l + 1) <= e
         /\ \/ Done(text, h, l) < q
            \/ l >= Count(text, h)
            \/ After(text, q) < e
            => Done(text, h, l + 1) < e
<1> DEFINE n == Count(text, h)
           a == Done(text, h, l)
<1>1. /\ n \in Nat /\ a \in Nat /\ Done(text, h, l + 1) \in Nat
      /\ h + 2 <= a
      /\ l >= n => a = After(text, h) /\ Done(text, h, l + 1) = After(text, h)
      /\ l < n => /\ a \in DOMAIN text
                  /\ text[a].type \in Markers
                  /\ Done(text, h, l + 1) = After(text, a)
  <2>1. n \in Nat /\ a \in Nat /\ h + 2 <= a
    BY DoneFacts
  <2>2. l + 1 \in Nat /\ (l >= n => l + 1 >= n)
    BY <2>1
  <2>3. Done(text, h, l + 1) \in Nat
    BY <2>2, DoneFacts
  <2>4. l >= n => a = After(text, h)
    BY DoneFacts
  <2>5. l + 1 >= n => Done(text, h, l + 1) = After(text, h)
    BY <2>2, DoneFacts
  <2>6. l < n => /\ a \in DOMAIN text
                 /\ text[a].type \in Markers
                 /\ Done(text, h, l + 1) = After(text, a)
    BY DoneFacts
  <2> HIDE DEF n, a
  <2> QED
    BY <2>1, <2>2, <2>3, <2>4, <2>5, <2>6
<1>2. /\ q \in Nat /\ After(text, q) \in Nat /\ q < After(text, q) /\ h \in Nat
  BY Places
<1> HIDE DEF n, a
<1>3. CASE l >= n
  BY <1>1, <1>2, <1>3 DEF n, a
<1>4. CASE l < n /\ a = q
  <2>1. ~(a < q) /\ ~(l >= n) /\ Done(text, h, l + 1) = After(text, q)
    BY <1>1, <1>2, <1>4
  <2> QED
    BY <1>2, <2>1 DEF n, a
<1>5. CASE l < n /\ a < q
  <2>1. a \in DOMAIN text /\ text[a].type \in Markers /\ h < a
    BY <1>1, <1>2, <1>5
  <2>2. After(text, a) <= q
    <3>1. CASE text[a].type = "array"
      BY <1>5, <2>1, <3>1 DEF NoneOpen
    <3>2. CASE text[a].type \in {"simple", "error", "integer"}
      <4>1. text[a].size = 2 /\ text[a + 1].type = "crlf"
        BY <2>1, <3>2 DEF WellFormed, Markers
      <4>2. q # a + 1
        BY <4>1 DEF Markers
      <4> QED
        BY <1>1, <1>2, <1>5, <4>1, <4>2 DEF After
    <3>3. CASE text[a].type = "bulk"
      <4> DEFINE m == text[a].num
      <4>1. /\ m \in Int /\ m >= -1
            /\ text[a].size = IF m = -1 THEN 2 ELSE m + 3
            /\ text[a + 1].type = "crlf"
            /\ \A j \in (a + 2)..(a + 1 + m) : text[j].type = "data"
            /\ m >= 0 => text[a + 2 + m].type = "crlf"
        BY <2>1, <3>3, Places DEF WellFormed, Markers
      <4>2. text[q].type \notin {"crlf", "data"}
        BY DEF Markers
      <4> HIDE DEF m
      <4>3. q # a + 1 /\ q \notin (a + 2)..(a + 1 + m) /\ (m >= 0 => q # a + 2 + m)
        BY <4>1, <4>2
      <4>4. a \in Nat /\ q \in Nat /\ a < q /\ After(text, a) = a + text[a].size
        BY <1>1, <1>2, <1>5 DEF After
      <4>5. CASE m = -1
        BY <4>1, <4>3, <4>4, <4>5
      <4>6. CASE m >= 0
        BY <4>1, <4>3, <4>4, <4>6
      <4> QED
        BY <4>1, <4>5, <4>6
    <3> QED
      BY <2>1, <3>1, <3>2, <3>3 DEF Markers
  <2> QED
    BY <1>1, <1>2, <1>5, <2>1, <2>2, Places DEF n, a
<1>6. a <= q
  BY DEF a
<1> QED
  BY <1>1, <1>2, <1>3, <1>4, <1>5, <1>6

LEMMA NoneOpenNext ==
  ASSUME NEW text \in Seq(Texts), WellFormed(text),
         NEW h \in DOMAIN text, NEW q \in DOMAIN text, NEW e \in Nat,
         After(text, q) <= e, NoneOpen(text, h, q), NoneOpen(text, q, e)
  PROVE  NoneOpen(text, h, e)
<1> SUFFICES ASSUME NEW a \in DOMAIN text, text[a].type = "array", h < a, a < e
             PROVE  After(text, a) <= e
  BY DEF NoneOpen
<1>1. /\ q \in Nat /\ a \in Nat /\ After(text, q) \in Nat /\ q < After(text, q)
      /\ After(text, a) \in Nat
  BY Places
<1>2. CASE a < q
  BY <1>1, <1>2 DEF NoneOpen
<1>3. CASE a = q
  BY <1>3
<1>4. CASE q < a
  BY <1>4 DEF NoneOpen
<1> QED
  BY <1>1, <1>2, <1>3, <1>4

\* There is no array within a number or a string.
LEMMA NoneOpenSimple ==
  ASSUME NEW text \in Seq(Texts), WellFormed(text),
         NEW q \in DOMAIN text, text[q].type \in {"integer", "bulk"}
  PROVE  NoneOpen(text, q, After(text, q))
<1> SUFFICES ASSUME NEW a \in DOMAIN text, text[a].type = "array",
                    q < a, a < After(text, q)
             PROVE  FALSE
  BY DEF NoneOpen
<1>1. q \in Nat /\ a \in Nat
  BY Places
<1>2. text[q + 1].type = "crlf" /\ a # q + 1
  BY DEF WellFormed, Markers
<1>3. CASE text[q].type = "integer"
  <2>1. text[q].size = 2
    BY <1>3 DEF WellFormed, Markers
  <2> QED
    BY <1>1, <1>2, <2>1 DEF After
<1>4. CASE text[q].type = "bulk"
  <2> DEFINE m == text[q].num
  <2>1. /\ m \in Int /\ m >= -1
        /\ text[q].size = IF m = -1 THEN 2 ELSE m + 3
        /\ \A j \in (q + 2)..(q + 1 + m) : text[j].type = "data"
        /\ m >= 0 => text[q + 2 + m].type = "crlf"
    BY <1>4, Places DEF WellFormed, Markers
  <2> HIDE DEF m
  <2>2. a \notin (q + 2)..(q + 1 + m) /\ (m >= 0 => a # q + 2 + m)
    BY <2>1
  <2> QED
    BY <1>1, <1>2, <2>1, <2>2 DEF After
<1> QED
  BY <1>3, <1>4

\* The value of an array is that of all its elements.
LEMMA AllElements ==
  ASSUME NEW text \in Seq(Texts), WellFormed(text), NEW k,
         NEW h \in DOMAIN text, text[h].type = "array"
  PROVE  UNION {ValueAt(k, text, Elements(text, h)[j]) : j \in 1..Count(text, h)}
         = ValueAt(k, text, h)
<1> DEFINE s == Elements(text, h)
           n == Count(text, h)
           e == After(text, h)
           D(l) == Done(text, h, l)
           V(m) == text[m].type \in {"integer", "data"}
<1>1. /\ n \in Nat /\ h \in Nat /\ e \in Nat
      /\ D(0) = h + 2
      /\ \A l \in Nat : D(l) \in Nat /\ h + 2 <= D(l) /\ D(l) <= e
      /\ \A l \in Nat : l < n => D(l) = s[l + 1]
      /\ \A l \in Nat : l < n => D(l + 1) = After(text, D(l))
      /\ \A l \in Nat : l >= n => D(l) = e
  <2>1. h \in Nat /\ e \in Nat
    BY Places
  <2>2. n \in Nat /\ D(0) = h + 2
    BY DoneFacts
  <2>3. \A l \in Nat : D(l) \in Nat /\ h + 2 <= D(l) /\ D(l) <= e
    BY DoneFacts
  <2>4. \A l \in Nat : l < n => D(l) = s[l + 1] /\ D(l + 1) = After(text, D(l))
    BY DoneFacts
  <2>5. \A l \in Nat : l >= n => D(l) = e
    BY DoneFacts
  <2> HIDE DEF s, n, e, D
  <2> QED
    BY <2>1, <2>2, <2>3, <2>4, <2>5
<1>2. ~V(h) /\ ~V(h + 1)
  BY DEF WellFormed, Markers
<1> HIDE DEF s, n, e, D, V
<1>3. \A j \in 1..n : /\ j - 1 \in Nat /\ j \in Nat
                      /\ s[j] = D(j - 1) /\ After(text, s[j]) = D(j)
  <2> TAKE j \in 1..n
  <2>1. j - 1 \in Nat /\ j - 1 < n /\ (j - 1) + 1 = j /\ j \in Nat
    BY <1>1
  <2>2. D(j - 1) = s[(j - 1) + 1] /\ D((j - 1) + 1) = After(text, D(j - 1))
    BY <1>1, <2>1
  <2> QED
    BY <2>1, <2>2
<1>4. ASSUME NEW j \in 1..n, NEW m \in s[j]..(After(text, s[j]) - 1)
      PROVE  m \in h..(e - 1)
  <2> DEFINE a == D(j - 1)
             b == D(j)
  <2>1. a \in Nat /\ h + 2 <= a /\ b \in Nat /\ b <= e
    BY <1>1, <1>3
  <2>2. m \in a..(b - 1)
    BY <1>3, <1>4
  <2> HIDE DEF a, b
  <2> QED
    BY <1>1, <2>1, <2>2
<1>5. ASSUME NEW m \in h..(e - 1), V(m)
      PROVE  \E j \in 1..n : m \in s[j]..(After(text, s[j]) - 1)
  <2> DEFINE S == {l \in Nat : l <= n /\ m < D(l)}
  <2>1. m < e /\ m \in Int /\ h + 2 <= m
    <3>1. m \in Int /\ h <= m /\ m < e
      BY <1>1
    <3>2. m # h /\ m # h + 1
      BY <1>2, <1>5
    <3>3. h \in Nat
      BY <1>1
    <3> QED
      BY <3>1, <3>2, <3>3
  <2>2. S \subseteq Nat /\ n \in S
    <3>1. D(n) = e
      BY <1>1
    <3> QED
      BY <1>1, <2>1, <3>1
  <2>3. PICK j \in S : \A i \in S : ~(i < j)
    BY <2>2, Least
  <2>4. j \in Nat /\ j <= n /\ m < D(j)
    BY <2>3
  <2>5. j # 0
    BY <1>1, <2>1, <2>4
  <2>6. j \in 1..n /\ j - 1 \in Nat /\ j - 1 < j /\ j - 1 <= n
    BY <1>1, <2>4, <2>5
  <2>7. ~(m < D(j - 1))
    BY <2>3, <2>6
  <2> HIDE DEF S
  <2> DEFINE a == D(j - 1)
             b == D(j)
  <2>8. a \in Nat /\ b \in Nat
    BY <1>1, <2>4, <2>6
  <2>9. m < b /\ ~(m < a)
    BY <2>4, <2>7
  <2> HIDE DEF a, b
  <2>10. m \in a..(b - 1)
    BY <2>1, <2>8, <2>9
  <2>11. s[j] = a /\ After(text, s[j]) = b
    BY <1>3, <2>6 DEF a, b
  <2> QED
    BY <2>6, <2>10, <2>11
<1>6. ValueAt(k, text, h) = {OnWire(k, text)[m] : m \in {m \in h..(e - 1) : V(m)}}
  BY DEF ValueAt, V, e
<1>7. \A j \in 1..n :
        ValueAt(k, text, s[j]) =
          {OnWire(k, text)[m] : m \in {m \in s[j]..(After(text, s[j]) - 1) : V(m)}}
  BY DEF ValueAt, V
<1>8. ASSUME NEW g \in ValueAt(k, text, h)
      PROVE  \E j \in 1..n : g \in ValueAt(k, text, s[j])
  <2>1. PICK m \in h..(e - 1) : V(m) /\ g = OnWire(k, text)[m]
    BY <1>6, <1>8
  <2>2. PICK j \in 1..n : m \in s[j]..(After(text, s[j]) - 1)
    BY <1>5, <2>1
  <2> QED
    BY <1>7, <2>1, <2>2
<1>9. ASSUME NEW j \in 1..n, NEW g \in ValueAt(k, text, s[j])
      PROVE  g \in ValueAt(k, text, h)
  <2>1. PICK m \in s[j]..(After(text, s[j]) - 1) : V(m) /\ g = OnWire(k, text)[m]
    BY <1>7, <1>9
  <2>2. m \in h..(e - 1)
    BY <1>4, <2>1
  <2> QED
    BY <1>6, <2>1, <2>2
<1>10. UNION {ValueAt(k, text, s[j]) : j \in 1..n} = ValueAt(k, text, h)
  BY <1>8, <1>9
<1> QED
  BY <1>10 DEF s, n

(* The parser in an undisturbed reply *)

LEMMA OnWireAt ==
  ASSUME NEW text \in Seq(Texts), NEW k
  PROVE  /\ Len(OnWire(k, text)) = Len(text)
         /\ \A i \in 1..Len(text) :
              /\ OnWire(k, text)[i].type = text[i].type
              /\ OnWire(k, text)[i].num = text[i].num
              /\ OnWire(k, text)[i].last = (i = Len(text))
<1>1. Len(text) \in Nat /\ DOMAIN OnWire(k, text) = 1..Len(text)
  BY LenProperties DEF OnWire
<1>2. OnWire(k, text) \in [1..Len(text) -> {OnWire(k, text)[i] : i \in 1..Len(text)}]
  BY DEF OnWire
<1>3. Len(OnWire(k, text)) = Len(text)
  BY <1>1, <1>2, SequenceOf
<1> QED
  BY <1>3 DEF OnWire

LEMMA MarkerHere ==
  ASSUME buffer \in Seq(Granule), NEW text \in Seq(Texts), WellFormed(text), NEW k,
         Prefix(k, text), NEW p \in Nat, TypeAt(p) \in Markers
  PROVE  /\ p + 1 \in DOMAIN text /\ p + 1 \in 1..Len(buffer)
         /\ text[p + 1].type = TypeAt(p) /\ text[p + 1].num = Number(p)
         /\ HasLine(p) => LineEnd(p) = p + 2 /\ p + 2 \in 1..Len(buffer)
<1>1. p < Len(buffer) /\ TypeAt(p) = buffer[p + 1].type /\ Len(buffer) \in Nat
  BY LenProperties DEF TypeAt, Markers
<1>2. Len(text) \in Nat /\ DOMAIN text = 1..Len(text) /\ Len(buffer) <= Len(text)
  BY Places DEF Prefix
<1>3. p + 1 \in DOMAIN text /\ p + 1 \in 1..Len(buffer)
  BY <1>1, <1>2
<1>4. \A i \in 1..Len(buffer) : buffer[i].type = text[i].type /\ buffer[i].num = text[i].num
  BY <1>1, <1>2, OnWireAt DEF Prefix
<1>5. ASSUME HasLine(p) PROVE LineEnd(p) = p + 2 /\ p + 2 \in 1..Len(buffer)
  <2>1. PICK i \in (p + 1)..Len(buffer) : buffer[i].type = "crlf"
    BY <1>5 DEF HasLine
  <2>2. buffer[p + 1].type # "crlf"
    BY <1>1 DEF Markers
  <2>3. p + 2 \in 1..Len(buffer) /\ p + 2 \in (p + 1)..Len(buffer)
    BY <1>1, <2>1, <2>2
  <2>4. text[(p + 1) + 1].type = "crlf" /\ (p + 1) + 1 = p + 2
    BY <1>1, <1>3, <1>4 DEF WellFormed
  <2>5. buffer[p + 2].type = "crlf"
    BY <1>4, <2>3, <2>4
  <2>6. \A j \in (p + 1)..(p + 2 - 1) : buffer[j].type # "crlf"
    BY <2>2
  <2>7. ASSUME NEW j \in (p + 1)..Len(buffer), buffer[j].type = "crlf",
               \A m \in (p + 1)..(j - 1) : buffer[m].type # "crlf"
        PROVE  j = p + 2
    <3>1. j # p + 1
      BY <2>2, <2>7
    <3>2. ~(p + 2 \in (p + 1)..(j - 1))
      BY <2>5, <2>7
    <3> QED
      BY <3>1, <3>2
  <2> QED
    BY <2>3, <2>5, <2>6, <2>7 DEF LineEnd
<1> QED
  BY <1>1, <1>3, <1>4, <1>5 DEF Number

LEMMA IntegerHere ==
  ASSUME buffer \in Seq(Granule), NEW text \in Seq(Texts), WellFormed(text), NEW k,
         Prefix(k, text), NEW p \in Nat, TypeAt(p) = "integer", HasLine(p)
  PROVE  /\ {buffer[p + 1]} = ValueAt(k, text, p + 1)
         /\ LineEnd(p) + 1 = After(text, p + 1) /\ LineEnd(p) \in 1..Len(buffer)
<1>1. /\ p + 1 \in DOMAIN text /\ p + 1 \in 1..Len(buffer)
      /\ text[p + 1].type = "integer"
      /\ LineEnd(p) = p + 2 /\ p + 2 \in 1..Len(buffer)
  BY MarkerHere DEF Markers
<1>2. text[p + 1].size = 2 /\ text[(p + 1) + 1].type = "crlf"
  BY <1>1 DEF WellFormed, Markers
<1>3. After(text, p + 1) = p + 3
  BY <1>2 DEF After
<1>4. (p + 1)..(After(text, p + 1) - 1) = {p + 1, (p + 1) + 1}
  BY <1>3
<1>5. {m \in (p + 1)..(After(text, p + 1) - 1) : text[m].type \in {"integer", "data"}}
      = {p + 1}
  BY <1>1, <1>2, <1>4
<1>6. ValueAt(k, text, p + 1) = {OnWire(k, text)[p + 1]}
  BY <1>5 DEF ValueAt
<1>7. buffer[p + 1] = OnWire(k, text)[p + 1]
  BY <1>1 DEF Prefix
<1> QED
  BY <1>1, <1>3, <1>6, <1>7

\* A string is whole when its header is not the last in the buffer, since the
\* buffer does not end within it.
LEMMA BulkHere ==
  ASSUME buffer \in Seq(Granule), NEW text \in Seq(Texts), WellFormed(text), NEW k,
         Prefix(k, text), NEW p \in Nat, TypeAt(p) = "bulk", BulkComplete(p),
         Len(buffer) = Len(text) \/ text[Len(buffer)].type # "data"
  PROVE  /\ BulkString(p) = ValueAt(k, text, p + 1)
         /\ BulkEnd(p) + 1 = After(text, p + 1) /\ BulkEnd(p) \in 1..Len(buffer)
<1> DEFINE n == text[p + 1].num
           L == Len(buffer)
<1>1. /\ p + 1 \in DOMAIN text /\ p + 1 \in 1..L /\ L \in Nat
      /\ text[p + 1].type = "bulk" /\ Number(p) = n
      /\ LineEnd(p) = p + 2 /\ p + 2 \in 1..L
  BY MarkerHere, LenProperties DEF Markers, BulkComplete
<1>2. /\ n \in Int /\ n >= -1
      /\ text[p + 1].size = IF n = -1 THEN 2 ELSE n + 3
      /\ text[(p + 1) + 1].type = "crlf"
      /\ \A j \in ((p + 1) + 2)..((p + 1) + 1 + n) : text[j].type = "data"
      /\ n >= 0 => text[(p + 1) + 2 + n].type = "crlf"
      /\ After(text, p + 1) <= Len(text) + 1
  BY <1>1, Places DEF WellFormed, Markers
<1>3. Len(text) \in Nat /\ L <= Len(text)
  BY Places DEF Prefix
<1>4. BulkComplete(p) => n = -1 \/ (n >= 0 /\ p + 2 < L)
  BY <1>1 DEF BulkComplete
<1>5. /\ BulkEnd(p) = IF n = -1 THEN p + 2 ELSE p + 2 + n + 1
      /\ BulkString(p) = {buffer[i] : i \in ((p + 2) + 1)..((p + 2) + n) \cap DOMAIN buffer}
  BY <1>1 DEF BulkEnd, BulkString
<1>6. After(text, p + 1) = p + 1 + text[p + 1].size
  BY DEF After
<1>7. L = Len(text) \/ text[L].type # "data"
  OBVIOUS
<1>8. DOMAIN buffer = 1..L
  BY LenProperties
<1>9. \A i \in 1..L : buffer[i] = OnWire(k, text)[i]
  BY DEF Prefix
<1> HIDE DEF n, L
<1>10. /\ n >= 0 => p + 3 + n <= L
       /\ BulkEnd(p) + 1 = After(text, p + 1) /\ BulkEnd(p) \in 1..L
  <2>1. CASE n = -1
    BY <1>1, <1>2, <1>5, <1>6, <2>1
  <2>2. CASE n # -1
    <3>1. n >= 0 /\ p + 2 < L /\ After(text, p + 1) = p + 4 + n
      BY <1>2, <1>4, <1>6, <2>2
    <3>2. L >= p + 3 + n
      <4>1. CASE L = Len(text)
        BY <1>1, <1>2, <1>3, <3>1, <4>1
      <4>2. CASE text[L].type # "data"
        <5>1. ~(L \in ((p + 1) + 2)..((p + 1) + 1 + n))
          BY <1>2, <4>2
        <5> QED
          BY <1>1, <1>2, <3>1, <5>1
      <4> QED
        BY <1>7, <4>1, <4>2
    <3> QED
      BY <1>1, <1>2, <1>5, <3>1, <3>2
  <2> QED
    BY <2>1, <2>2
<1>11. {m \in (p + 1)..(After(text, p + 1) - 1) : text[m].type \in {"integer", "data"}}
       = ((p + 2) + 1)..((p + 2) + n) \cap 1..L
  <2> DEFINE S == {m \in (p + 1)..(After(text, p + 1) - 1) : text[m].type \in {"integer", "data"}}
  <2>1. ASSUME NEW m \in ((p + 2) + 1)..((p + 2) + n) \cap 1..L PROVE m \in S
    <3>1. m \in ((p + 1) + 2)..((p + 1) + 1 + n) /\ n # -1
      BY <1>2, <2>1
    <3>2. text[m].type = "data"
      BY <1>2, <3>1
    <3>3. m \in (p + 1)..(After(text, p + 1) - 1)
      BY <1>2, <1>6, <3>1
    <3> QED
      BY <3>2, <3>3
  <2>2. ASSUME NEW m \in S PROVE m \in ((p + 2) + 1)..((p + 2) + n) \cap 1..L
    <3>1. m \in Int /\ p + 1 <= m /\ m < After(text, p + 1)
      BY <1>2, <1>6
    <3>2. m # p + 1 /\ m # (p + 1) + 1
      BY <1>1, <1>2
    <3>3. n >= 0 => m # (p + 1) + 2 + n
      BY <1>2
    <3> HIDE DEF S
    <3>4. n # -1
      BY <1>2, <1>6, <3>1, <3>2
    <3>5. After(text, p + 1) = p + 4 + n /\ n >= 0 /\ p + 3 + n <= L
      BY <1>2, <1>6, <1>10, <3>4
    <3> QED
      BY <1>1, <1>2, <3>1, <3>2, <3>3, <3>5
  <2> QED
    BY <2>1, <2>2
<1>12. BulkString(p) = ValueAt(k, text, p + 1)
  <2> DEFINE S == ((p + 2) + 1)..((p + 2) + n) \cap 1..L
  <2>1. BulkString(p) = {buffer[i] : i \in S}
    BY <1>5, <1>8
  <2>2. ValueAt(k, text, p + 1) = {OnWire(k, text)[i] : i \in S}
    BY <1>11 DEF ValueAt
  <2>3. \A i \in S : buffer[i] = OnWire(k, text)[i]
    BY <1>9
  <2> HIDE DEF S
  <2> QED
    BY <2>1, <2>2, <2>3
<1> QED
  BY <1>10, <1>12 DEF L

\* An element is added to the list of a call.
LEMMA CallGrows ==
  ASSUME NEW text \in Seq(Texts), WellFormed(text), NEW k,
         NEW G, NEW call \in Calls(G), NEW h \in DOMAIN text,
         NEW q \in DOMAIN text, text[q].type \in Markers,
         InCall(k, text, call, h, q),
         NEW e \in Nat, After(text, q) <= e, NoneOpen(text, q, e),
         NEW v \in SUBSET G, After(text, q) = e => v = ValueAt(k, text, q),
         NEW c, c.count = call.count, c.list = Append(call.list, v)
  PROVE  InCall(k, text, c, h, e)
<1> DEFINE l == Len(call.list)
           n == Count(text, h)
<1>1. /\ call.list \in Seq(SUBSET G) /\ l \in Nat
      /\ Len(c.list) = l + 1 /\ DOMAIN c.list = 1..(l + 1)
      /\ c.list[l + 1] = v /\ \A j \in 1..l : c.list[j] = call.list[j]
  <2>1. call.list \in Seq(SUBSET G)
    BY DEF Calls
  <2>2. /\ Len(Append(call.list, v)) = Len(call.list) + 1
        /\ Append(call.list, v) \in Seq(SUBSET G)
        /\ \A j \in 1..Len(call.list) : Append(call.list, v)[j] = call.list[j]
        /\ Append(call.list, v)[Len(call.list) + 1] = v
    BY <2>1, AppendProperties
  <2> QED
    BY <2>1, <2>2, LenProperties
<1>2. /\ text[h].type = "array" /\ c.count = text[h].num /\ h < q
      /\ NoneOpen(text, h, q)
      /\ \/ Done(text, h, l) < q
         \/ Done(text, h, l) = q /\ l <= n /\ call.list = ValuesOf(k, text, h, l)
  BY DEF InCall
<1>3. /\ h \in Nat /\ q \in Nat /\ After(text, q) \in Nat /\ q < After(text, q)
  BY Places
<1>4. n \in Nat /\ Done(text, h, l) \in Nat /\ Done(text, h, l + 1) \in Nat
      /\ (l < n => /\ Done(text, h, l) = Elements(text, h)[l + 1]
                   /\ Done(text, h, l + 1) = After(text, Done(text, h, l)))
  <2>1. l \in Nat /\ l + 1 \in Nat /\ text[h].type = "array"
    BY <1>1, <1>2
  <2> HIDE DEF l
  <2> QED
    BY <2>1, DoneFacts
<1>5. h < e /\ NoneOpen(text, h, e)
  BY <1>2, <1>3, NoneOpenNext
<1>6. /\ Done(text, h, l + 1) <= e
      /\ \/ Done(text, h, l) < q
         \/ l >= n
         \/ After(text, q) < e
         => Done(text, h, l + 1) < e
  <2>1. Done(text, h, l) <= q
    BY <1>2, <1>3, <1>4
  <2> HIDE DEF l
  <2> QED
    BY <1>1, <1>2, <2>1, NextElement
<1> HIDE DEF l, n
<1>7. CASE Done(text, h, l + 1) < e
  BY <1>1, <1>2, <1>5, <1>7 DEF InCall
<1>8. CASE ~(Done(text, h, l + 1) < e)
  <2>1. /\ Done(text, h, l) = q /\ l < n /\ After(text, q) = e
        /\ l <= n /\ call.list = ValuesOf(k, text, h, l)
    BY <1>1, <1>2, <1>3, <1>4, <1>6, <1>8
  <2>2. Done(text, h, l + 1) = e /\ Elements(text, h)[l + 1] = q /\ v = ValueAt(k, text, q)
    BY <1>4, <2>1
  <2>3. \A j \in 1..(l + 1) : c.list[j] = ValueAt(k, text, Elements(text, h)[j])
    <3> TAKE j \in 1..(l + 1)
    <3>1. CASE j = l + 1
      BY <1>1, <2>2, <3>1
    <3>2. CASE j # l + 1
      <4>1. j \in 1..l
        BY <1>1, <3>2
      <4> QED
        BY <1>1, <2>1, <4>1 DEF ValuesOf
    <3> QED
      BY <3>1, <3>2
  <2>4. c.list = ValuesOf(k, text, h, l + 1)
    <3>1. c.list = [j \in 1..(l + 1) |-> c.list[j]]
      <4>1. Append(call.list, v) \in Seq(SUBSET G)
        BY <1>1, AppendProperties
      <4> QED
        BY <1>1, <4>1, LenProperties
    <3> QED
      BY <2>3, <3>1 DEF ValuesOf
  <2>5. l + 1 <= n
    BY <1>1, <1>4, <2>1
  <2> QED
    BY <1>1, <1>2, <1>5, <2>2, <2>4, <2>5 DEF InCall, n
<1> QED
  BY <1>7, <1>8

LEMMA SeqFacts ==
  ASSUME NEW S, NEW s \in Seq(S)
  PROVE  /\ Len(s) \in Nat /\ DOMAIN s = 1..Len(s) /\ \A i \in 1..Len(s) : s[i] \in S
         /\ s # <<>> => Len(s) >= 1
         /\ \A e \in S : /\ Append(s, e) \in Seq(S) /\ Len(Append(s, e)) = Len(s) + 1
                         /\ \A i \in 1..Len(s) : Append(s, e)[i] = s[i]
                         /\ Append(s, e)[Len(s) + 1] = e
<1>1. Len(s) \in Nat /\ DOMAIN s = 1..Len(s) /\ \A i \in 1..Len(s) : s[i] \in S
  BY LenProperties, ElementOfSeq
<1>2. s # <<>> => Len(s) >= 1
  BY EmptySeq, LenProperties
<1>3. \A e \in S : /\ Append(s, e) \in Seq(S) /\ Len(Append(s, e)) = Len(s) + 1
                  /\ \A i \in 1..Len(s) : Append(s, e)[i] = s[i]
                  /\ Append(s, e)[Len(s) + 1] = e
  BY AppendProperties
<1> QED
  BY <1>1, <1>2, <1>3

\* The calls for the array that begins at the first granule.
NestedAt(k, text, cs, p, hs) ==
  /\ hs \in [1..Len(cs) -> DOMAIN text] /\ hs[1] = 1
  /\ \A d \in 1..Len(cs) :
       InCall(k, text, cs[d], hs[d], IF d = Len(cs) THEN p + 1 ELSE hs[d + 1])

\* parseArray() begins: for the reply, or for an array in the last one.
LEMMA NestedBegins ==
  ASSUME NEW text \in Seq(Texts), WellFormed(text), NEW k, NEW G,
         NEW cs \in Seq(Calls(G)), NEW p \in Nat,
         p + 1 \in DOMAIN text, text[p + 1].type = "array",
         (Len(cs) = 0 /\ p = 0) \/ (Len(cs) >= 1 /\ NestedCalls(k, text, cs, p))
  PROVE  NestedCalls(k, text,
           Append(cs, [count |-> text[p + 1].num, list |-> <<>>]), p + 2)
<1> DEFINE c == [count |-> text[p + 1].num, list |-> <<>>]
           bs == Append(cs, c)
           D == Len(cs)
<1>1. /\ D \in Nat /\ Len(bs) = D + 1 /\ bs[D + 1] = c
      /\ \A d \in 1..D : bs[d] = cs[d]
  <2>1. c \in Calls(G)
    BY EmptySeq, Places DEF Calls
  <2> HIDE DEF c
  <2> QED
    BY SMTT(60), <2>1, SeqFacts
<1>2. InCall(k, text, c, p + 1, (p + 2) + 1)
  <2>1. Len(c.list) = 0 /\ c.list = <<>> /\ c.count = text[p + 1].num
    OBVIOUS
  <2>2. Done(text, p + 1, 0) = (p + 1) + 2 /\ 0 <= Count(text, p + 1)
    BY DoneFacts
  <2>3. NoneOpen(text, p + 1, (p + 2) + 1)
    <3>1. text[(p + 1) + 1].type = "crlf"
      BY DEF WellFormed, Markers
    <3> QED
      BY <3>1, Places DEF NoneOpen
  <2>4. c.list = ValuesOf(k, text, p + 1, 0)
    BY <2>1 DEF ValuesOf
  <2> HIDE DEF c
  <2> QED
    BY <2>1, <2>2, <2>3, <2>4 DEF InCall
<1> HIDE DEF c, bs, D
<1>3. CASE Len(cs) = 0 /\ p = 0
  <2>1. D = 0
    BY <1>3 DEF D
  <2> DEFINE hs == [d \in 1..1 |-> 1]
  <2>2. hs \in [1..1 -> DOMAIN text] /\ hs[1] = 1 /\ Len(bs) = 1 /\ bs[1] = c
    BY <1>1, <1>3, <2>1
  <2>3. NestedAt(k, text, bs, p + 2, hs)
    <3> HIDE DEF hs
    <3> QED
      BY <1>2, <1>3, <2>2 DEF NestedAt
  <2> QED
    BY <2>3 DEF NestedAt, NestedCalls, bs, c
<1>4. CASE Len(cs) >= 1 /\ NestedCalls(k, text, cs, p)
  <2>1. PICK hs : NestedAt(k, text, cs, p, hs)
    BY <1>4 DEF NestedCalls, NestedAt
  <2>2. D >= 1
    BY <1>4 DEF D
  <2> DEFINE gs == [d \in 1..(D + 1) |-> IF d = D + 1 THEN p + 1 ELSE hs[d]]
  <2>3. /\ gs \in [1..(D + 1) -> DOMAIN text] /\ gs[1] = 1 /\ gs[D + 1] = p + 1
        /\ \A d \in 1..D : gs[d] = hs[d]
    <3>1. hs \in [1..D -> DOMAIN text] /\ hs[1] = 1
      BY <2>1 DEF NestedAt, D
    <3>2. D \in Nat /\ 1 \in 1..D
      BY <1>1, <2>2
    <3>3. \A d \in 1..(D + 1) : d # D + 1 => d \in 1..D
      BY <3>2
    <3>4. \A d \in 1..D : d \in 1..(D + 1) /\ d # D + 1
      BY <3>2
    <3>5. D + 1 \in 1..(D + 1)
      BY <3>2
    <3> QED
      BY ZenonT(60), <3>1, <3>2, <3>3, <3>4, <3>5
  <2> HIDE DEF gs
  <2>4. ASSUME NEW d \in 1..(D + 1)
        PROVE  InCall(k, text, bs[d], gs[d], IF d = D + 1 THEN (p + 2) + 1 ELSE gs[d + 1])
    <3>1. CASE d = D + 1
      BY <1>1, <1>2, <2>3, <3>1
    <3>2. CASE d # D + 1
      <4>1. d \in 1..D
        BY <1>1, <3>2
      <4>2. InCall(k, text, cs[d], hs[d], IF d = D THEN p + 1 ELSE hs[d + 1])
        BY <2>1, <4>1 DEF NestedAt, D
      <4>3. gs[d + 1] = IF d = D THEN p + 1 ELSE hs[d + 1]
        BY <1>1, <2>3, <4>1
      <4> QED
        BY <1>1, <2>3, <3>2, <4>1, <4>2, <4>3
    <3> QED
      BY <3>1, <3>2
  <2>5. NestedAt(k, text, bs, p + 2, gs)
    BY <1>1, <2>3, <2>4 DEF NestedAt
  <2> QED
    BY <2>5 DEF NestedAt, NestedCalls, bs, c
<1> QED
  BY <1>3, <1>4

\* The last call gets an element that is no array.
LEMMA NestedGrows ==
  ASSUME NEW text \in Seq(Texts), WellFormed(text), NEW k, NEW G,
         NEW cs \in Seq(Calls(G)), Len(cs) >= 1, NEW p \in Nat,
         NestedCalls(k, text, cs, p),
         p + 1 \in DOMAIN text, text[p + 1].type \in {"integer", "bulk"},
         NEW r \in Nat, r + 1 = After(text, p + 1),
         NEW v \in SUBSET G, v = ValueAt(k, text, p + 1)
  PROVE  NestedCalls(k, text, [cs EXCEPT ![Len(cs)].list = Append(@, v)], r)
<1> DEFINE D == Len(cs)
           bs == [cs EXCEPT ![D].list = Append(@, v)]
<1>1. /\ D \in Nat /\ D >= 1 /\ DOMAIN cs = 1..D /\ D \in 1..D
      /\ \A d \in 1..D : cs[d] \in Calls(G)
  <2>1. D \in Nat /\ D >= 1 /\ DOMAIN cs = 1..D /\ \A d \in 1..D : cs[d] \in Calls(G)
    BY SeqFacts
  <2> HIDE DEF D
  <2> QED
    BY <2>1
<1>2. bs \in Seq(Calls(G))
  BY <1>1, AppendToList
<1>3. Len(bs) = D
  <2>1. DOMAIN bs = 1..D /\ DOMAIN bs = 1..Len(bs) /\ Len(bs) \in Nat
    BY <1>2, LenProperties
  <2> HIDE DEF bs, D
  <2> QED
    BY <1>1, <2>1
<1>4. /\ bs[D].count = cs[D].count /\ bs[D].list = Append(cs[D].list, v)
      /\ \A d \in 1..D : d # D => bs[d] = cs[d]
  <2>1. D \in DOMAIN cs
    BY <1>1
  <2>2. bs = [cs EXCEPT ![D] = [cs[D] EXCEPT !.list = Append(cs[D].list, v)]]
    OBVIOUS
  <2>3. DOMAIN cs[D] = {"count", "list"}
    <3> HIDE DEF D
    <3>1. cs[D] \in Calls(G)
      BY <1>1
    <3> QED
      BY <3>1 DEF Calls
  <2> HIDE DEF D
  <2> QED
    BY <2>1, <2>2, <2>3
<1> HIDE DEF D, bs
<1>5. PICK hs : NestedAt(k, text, cs, p, hs)
  BY DEF NestedCalls, NestedAt
<1>6. InCall(k, text, bs[D], hs[D], r + 1)
  <2>1. InCall(k, text, cs[D], hs[D], p + 1) /\ hs[D] \in DOMAIN text
    <3>1. D \in 1..D
      BY <1>1
    <3>2. hs \in [1..D -> DOMAIN text]
      BY <1>5 DEF NestedAt, D
    <3> QED
      BY <1>5, <3>1, <3>2 DEF NestedAt, D
  <2>2. NoneOpen(text, p + 1, r + 1) /\ text[p + 1].type \in Markers
    BY NoneOpenSimple DEF Markers
  <2>3. cs[D] \in Calls(G) /\ r + 1 \in Nat
    BY <1>1
  <2>4. After(text, p + 1) <= r + 1
    OBVIOUS
  <2> QED
    BY <1>4, <2>1, <2>2, <2>3, <2>4, CallGrows
<1>7. NestedAt(k, text, bs, r, hs)
  <2>1. \A d \in 1..D :
          InCall(k, text, bs[d], hs[d], IF d = D THEN r + 1 ELSE hs[d + 1])
    BY <1>4, <1>5, <1>6 DEF NestedAt, D
  <2>2. hs \in [1..D -> DOMAIN text] /\ hs[1] = 1
    BY <1>5 DEF NestedAt, D
  <2> QED
    BY <1>3, <2>1, <2>2 DEF NestedAt
<1> QED
  BY <1>7 DEF NestedAt, NestedCalls, bs, D

\* What the last call has when it returns: at least the array, and if it did not
\* go beyond it, the elements of the array.
LEMMA CallReturns ==
  ASSUME NEW text \in Seq(Texts), WellFormed(text), NEW k, NEW G,
         NEW call \in Calls(G), NEW h \in DOMAIN text, NEW q \in Nat,
         InCall(k, text, call, h, q),
         Len(call.list) >= 1, Len(call.list) >= call.count
  PROVE  /\ After(text, h) <= q /\ NoneOpen(text, h, q) /\ text[h].type = "array"
         /\ After(text, h) = q =>
              /\ Len(call.list) = Count(text, h)
              /\ call.list = ValuesOf(k, text, h, Count(text, h))
<1> DEFINE l == Len(call.list)
           n == Count(text, h)
<1>1. /\ text[h].type = "array" /\ call.count = text[h].num /\ NoneOpen(text, h, q)
      /\ \/ Done(text, h, l) < q
         \/ Done(text, h, l) = q /\ l <= n /\ call.list = ValuesOf(k, text, h, l)
  BY DEF InCall
<1>2. l \in Nat /\ l >= 1
  BY LenProperties DEF Calls
<1>3. text[h].num \in Int /\ n \in Nat /\ After(text, h) \in Nat
  BY Places DEF Count
<1>4. l >= n
  BY <1>1, <1>2, <1>3 DEF Count
<1>5. Done(text, h, l) = After(text, h)
  <2> HIDE DEF l
  <2> QED
    BY <1>1, <1>2, <1>4, DoneFacts
<1> HIDE DEF l, n
<1>6. Done(text, h, l) <= q
  BY <1>1, <1>3, <1>5
<1>7. After(text, h) = q => l = n /\ call.list = ValuesOf(k, text, h, l)
  BY <1>1, <1>2, <1>3, <1>4, <1>5
<1> QED
  BY <1>1, <1>5, <1>6, <1>7 DEF l, n

\* The last call returns to the one before it, whose list gets one value more.
Returned(cs, m, bs) ==
  LET t == cs[m + 1]
  IN /\ m >= 1 /\ Len(cs) = m + 1 /\ Len(bs) = m
     /\ Len(t.list) >= 1 /\ Len(t.list) >= t.count
     /\ \A d \in 1..m : d # m => bs[d] = cs[d]
     /\ bs[m].count = cs[m].count
     /\ bs[m].list = Append(cs[m].list, UNION {t.list[i] : i \in DOMAIN t.list})

LEMMA NestedReturns ==
  ASSUME NEW text \in Seq(Texts), WellFormed(text), NEW k, NEW G,
         NEW cs \in Seq(Calls(G)), NEW bs \in Seq(Calls(G)),
         NEW m \in Nat, Returned(cs, m, bs),
         NEW p \in Nat, NestedCalls(k, text, cs, p)
  PROVE  NestedCalls(k, text, bs, p)
<1> DEFINE t == cs[m + 1]
           v == UNION {t.list[i] : i \in DOMAIN t.list}
<1>0. /\ t = cs[m + 1] /\ m >= 1 /\ Len(cs) = m + 1 /\ Len(bs) = m
      /\ Len(t.list) >= 1 /\ Len(t.list) >= t.count
      /\ \A d \in 1..m : d # m => bs[d] = cs[d]
      /\ bs[m].count = cs[m].count
      /\ bs[m].list = Append(cs[m].list, UNION {t.list[i] : i \in DOMAIN t.list})
  BY DEF Returned
<1> HIDE DEF t
<1> USE <1>0
<1>1. PICK hs : NestedAt(k, text, cs, p, hs)
  BY DEF NestedCalls, NestedAt
<1>2. m \in 1..Len(cs) /\ m + 1 \in 1..Len(cs) /\ m # m + 1
  OBVIOUS
<1>3. /\ hs \in [1..(m + 1) -> DOMAIN text] /\ hs[1] = 1
      /\ InCall(k, text, t, hs[m + 1], p + 1)
      /\ InCall(k, text, cs[m], hs[m], hs[m + 1])
      /\ \A d \in 1..m : InCall(k, text, cs[d], hs[d], hs[d + 1])
  <2>1. /\ hs \in [1..(m + 1) -> DOMAIN text] /\ hs[1] = 1
        /\ \A d \in 1..(m + 1) :
             InCall(k, text, cs[d], hs[d], IF d = m + 1 THEN p + 1 ELSE hs[d + 1])
    BY <1>1 DEF NestedAt
  <2>2. InCall(k, text, t, hs[m + 1], p + 1)
    BY <2>1
  <2>3. \A d \in 1..m : InCall(k, text, cs[d], hs[d], hs[d + 1])
    <3> TAKE d \in 1..m
    <3>1. d \in 1..(m + 1) /\ d # m + 1
      OBVIOUS
    <3> QED
      BY <2>1, <3>1
  <2>4. InCall(k, text, cs[m], hs[m], hs[m + 1])
    BY <2>3
  <2> QED
    BY <2>1, <2>2, <2>3, <2>4
<1>4. t \in Calls(G) /\ cs[m] \in Calls(G) /\ hs[m] \in DOMAIN text /\ hs[m + 1] \in DOMAIN text
  BY <1>2, <1>3, ElementOfSeq
<1>5. /\ After(text, hs[m + 1]) <= p + 1 /\ NoneOpen(text, hs[m + 1], p + 1)
      /\ text[hs[m + 1]].type = "array"
      /\ After(text, hs[m + 1]) = p + 1 =>
           /\ Len(t.list) = Count(text, hs[m + 1])
           /\ t.list = ValuesOf(k, text, hs[m + 1], Count(text, hs[m + 1]))
  <2>1. p + 1 \in Nat
    OBVIOUS
  <2> QED
    BY SMTT(60), <1>3, <1>4, <2>1, CallReturns
<1>6. v \in SUBSET G
  <2>1. t.list \in Seq(SUBSET G)
    BY <1>4 DEF Calls
  <2>2. \A i \in DOMAIN t.list : t.list[i] \in SUBSET G
    BY <2>1, SeqFacts
  <2> QED
    BY <2>2
<1>7. After(text, hs[m + 1]) = p + 1 => v = ValueAt(k, text, hs[m + 1])
  <2> SUFFICES ASSUME After(text, hs[m + 1]) = p + 1
               PROVE  v = ValueAt(k, text, hs[m + 1])
    OBVIOUS
  <2> DEFINE h == hs[m + 1]
             n == Count(text, h)
  <2>1. t.list = [j \in 1..n |-> ValueAt(k, text, Elements(text, h)[j])]
    BY <1>5 DEF ValuesOf
  <2>2. v = UNION {ValueAt(k, text, Elements(text, h)[j]) : j \in 1..n}
    BY <2>1
  <2>3. h \in DOMAIN text /\ text[h].type = "array"
    BY <1>4, <1>5
  <2> HIDE DEF h
  <2>4. UNION {ValueAt(k, text, Elements(text, h)[j]) : j \in 1..n} = ValueAt(k, text, h)
    BY <2>3, AllElements
  <2> QED
    BY <2>2, <2>4 DEF h
<1> HIDE DEF v
<1>8. InCall(k, text, bs[m], hs[m], p + 1)
  <2>1. text[hs[m + 1]].type \in Markers /\ p + 1 \in Nat
    BY <1>5 DEF Markers
  <2>2. bs[m].list = Append(cs[m].list, v)
    BY DEF v
  <2> DEFINE h == hs[m]
             q == hs[m + 1]
             e == p + 1
             a == cs[m]
             c == bs[m]
  <2>3. /\ h \in DOMAIN text /\ q \in DOMAIN text /\ e \in Nat /\ a \in Calls(G)
        /\ text[q].type \in Markers /\ InCall(k, text, a, h, q)
        /\ After(text, q) <= e /\ NoneOpen(text, q, e)
        /\ After(text, q) = e => v = ValueAt(k, text, q)
        /\ c.count = a.count /\ c.list = Append(a.list, v)
    BY <1>3, <1>4, <1>5, <1>7, <2>1, <2>2
  <2> HIDE DEF h, q, e, a, c
  <2>4. InCall(k, text, c, h, e)
    BY <1>6, <2>3, CallGrows
  <2> QED
    BY <2>4 DEF h, e, c
<1> DEFINE gs == [d \in 1..m |-> hs[d]]
<1>9. gs \in [1..m -> DOMAIN text] /\ gs[1] = 1 /\ \A d \in 1..m : gs[d] = hs[d]
  BY <1>3
<1> HIDE DEF gs
<1>10. \A d \in 1..m : InCall(k, text, bs[d], gs[d], IF d = m THEN p + 1 ELSE gs[d + 1])
  <2> TAKE d \in 1..m
  <2>1. CASE d = m
    BY <1>8, <1>9, <2>1
  <2>2. CASE d # m
    <3>1. d + 1 \in 1..m
      BY <2>2
    <3> QED
      BY <1>3, <1>9, <2>2, <3>1
  <2> QED
    BY <2>1, <2>2
<1>11. NestedAt(k, text, bs, p, gs)
  BY <1>9, <1>10 DEF NestedAt
<1> QED
  BY <1>11 DEF NestedAt, NestedCalls

(* OwnInv is inductive *)

LEMMA Lengths ==
  ASSUME TypeOK
  PROVE  /\ Len(owed) \in Nat /\ DOMAIN owed = 1..Len(owed) /\ (owed = <<>> <=> Len(owed) = 0)
         /\ Len(stream) \in Nat /\ (stream = <<>> <=> Len(stream) = 0)
         /\ Len(buffer) \in Nat /\ (buffer = <<>> <=> Len(buffer) = 0)
         /\ sent \in Nat
         /\ sent > 0 => sent \in 1..MaxRequests
         /\ \A k \in 1..MaxRequests : /\ answer[k] \in Seq(Texts) /\ Len(answer[k]) \in Nat
                                      /\ answer[k] = <<>> <=> Len(answer[k]) = 0
<1>1. \A S : \A s \in Seq(S) : Len(s) \in Nat /\ (s = <<>> <=> Len(s) = 0)
  BY EmptySeq, LenProperties
<1>2. owed \in Seq(1..MaxRequests) /\ stream \in Seq(Granule) /\ buffer \in Seq(Granule)
  BY DEF TypeOK
<1>3. DOMAIN owed = 1..Len(owed)
  BY <1>2, LenProperties
<1>4. \A k \in 1..MaxRequests : answer[k] \in Seq(Texts)
  BY RedisAssumption, EmptySeq DEF TypeOK
<1>5. sent \in Nat /\ (sent > 0 => sent \in 1..MaxRequests)
  BY RedisAssumption DEF TypeOK
<1> QED
  BY <1>1, <1>2, <1>3, <1>4, <1>5

\* A request that is parsing.
LEMMA InTheReply ==
  ASSUME RepliesWellFormed, TypeInv, OwnInv, pc \in {"parse", "parseArray"}, ~late, ~cut
  PROVE  /\ sent \in 1..MaxRequests
         /\ answer[sent] \in Seq(Texts) /\ WellFormed(answer[sent])
         /\ Len(answer[sent]) > 0
         /\ Prefix(sent, answer[sent]) /\ Intact /\ Len(buffer) > 0
         /\ Len(buffer) = Len(answer[sent]) \/ answer[sent][Len(buffer)].type # "data"
         /\ ~ret => answer[sent][1].type = "error"
         /\ Len(owed) = 0
         /\ startpos # 0 => Len(stream) = 0
         /\ buffer \in Seq(Granule) /\ pos \in Nat
         /\ pc = "parse" => /\ pos = 0
                            /\ TypeAt(0) = answer[sent][1].type
                            /\ TypeAt(0) \in Markers
<1> DEFINE text == answer[sent]
<1>0. TypeOK
  BY DEF TypeInv
<1>1. /\ Intact /\ sent \in 1..MaxRequests /\ (~ret => text[1].type = "error")
      /\ Len(owed) <= 1 /\ \A j \in DOMAIN owed : owed[j] = sent
  BY <1>0, Lengths DEF OwnInv, Underway, Spent
<1>2. /\ Len(buffer) \in Nat /\ Len(stream) \in Nat /\ Len(owed) \in Nat
      /\ text \in Seq(Texts) /\ Len(text) \in Nat
  BY <1>0, <1>1, Lengths
<1>3. /\ Len(buffer) > 0 /\ Len(buffer) + Len(stream) <= Len(text)
      /\ Prefix(sent, text) /\ CutWell(text) /\ (pc = "parse" => pos = 0)
  BY <1>1 DEF Intact
<1>4. Len(text) > 0
  BY <1>2, <1>3
<1>5. WellFormed(text)
  <2>1. text \in Replies \cup {<<>>}
    BY <1>0, <1>1 DEF TypeOK
  <2>2. text # <<>>
    BY <1>0, <1>1, <1>4, Lengths
  <2> QED
    BY <2>1, <2>2 DEF RepliesWellFormed
<1>6. Len(owed) = 0
  <2> SUFFICES ASSUME Len(owed) # 0 PROVE FALSE
    OBVIOUS
  <2>1. 1 \in DOMAIN owed
    BY <1>0, <1>1, <1>2, Lengths
  <2>2. answer[sent] = <<>>
    BY <1>1, <2>1 DEF OwnInv, Unanswered
  <2> QED
    BY <1>0, <1>1, <1>4, <2>2, Lengths
<1>7. startpos # 0 => Len(stream) = 0
  BY <1>2, <1>3 DEF CutWell
<1>8. Len(buffer) = Len(text) \/ text[Len(buffer)].type # "data"
  BY <1>3 DEF CutWell
<1>9. TypeAt(0) = text[1].type /\ TypeAt(0) \in Markers
  <2>1. 1 \in 1..Len(buffer) /\ 1 \in 1..Len(text)
    BY <1>2, <1>3
  <2>2. buffer[1].type = text[1].type
    BY <1>2, <1>3, <2>1, OnWireAt DEF Prefix
  <2> QED
    BY <1>3, <1>5, <2>2 DEF TypeAt, WellFormed
<1>10. buffer \in Seq(Granule) /\ pos \in Nat
  BY <1>0 DEF TypeOK
<1>11. pc = "parse" => pos = 0 /\ TypeAt(0) = text[1].type /\ TypeAt(0) \in Markers
  BY <1>3, <1>9
<1> QED
  BY <1>1, <1>2, <1>3, <1>4, <1>5, <1>6, <1>7, <1>8, <1>10, <1>11

\* What the steps of the parser leave.
Untouched == UNCHANGED <<buffer, sent, owed, answer, stream, startpos, late, cut>>

\* The reply is not complete.
LEMMA OwnAgain ==
  ASSUME RepliesWellFormed, TypeInv, OwnInv, pc \in {"parse", "parseArray"}, ~late, ~cut,
         pos' = startpos, pc' = "readReply", Untouched,
         ret' = ret \/ answer[sent][1].type = "error"
  PROVE  OwnInv'
<1>1. /\ Intact /\ Len(owed) = 0 /\ (startpos # 0 => Len(stream) = 0)
      /\ sent \in 1..MaxRequests /\ Len(answer[sent]) > 0
      /\ ~ret => answer[sent][1].type = "error"
  BY InTheReply
<1>2. Intact' \/ Spent'
  <2>1. CASE startpos = 0
    BY <1>1, <2>1 DEF Intact, Untouched, Prefix, CutWell
  <2>2. CASE startpos # 0
    BY <1>1, <2>2 DEF Spent, Untouched
  <2> QED
    BY <2>1, <2>2
<1>3. Underway'
  <2>1. /\ (sent > 0)' /\ (Len(owed) <= 1 /\ \A j \in DOMAIN owed : owed[j] = sent)'
        /\ (~ret => Len(answer[sent]) > 0 /\ answer[sent][1].type = "error")'
    BY <1>1 DEF Untouched, OwnInv, Underway
  <2> QED
    BY <1>2, <2>1 DEF Underway
<1> QED
  BY <1>3 DEF OwnInv, Unanswered, OwnReply, Untouched

\* request() returns.
LEMMA OwnReturn ==
  ASSUME OwnInv, pc' = "idle", Untouched, sent \in 1..MaxRequests, answer[sent] # <<>>,
         response' = Value(sent, answer[sent]),
         ret' = (answer[sent][1].type # "error")
  PROVE  OwnInv'
BY DEF OwnInv, Unanswered, Underway, OwnReply, Untouched

LEMMA OwnSimple ==
  ASSUME RepliesWellFormed, TypeInv, OwnInv, ~late, ~cut,
         ParseLine \/ ParseInteger \/ ParseBulkString \/ ParseInvalid
  PROVE  OwnInv'
<1> DEFINE text == answer[sent]
<1>0. pc = "parse" /\ pos = 0 /\ response = <<>>
  BY InTheReply DEF ParseLine, ParseInteger, ParseBulkString, ParseInvalid, TypeInv, Values
<1>1. /\ sent \in 1..MaxRequests /\ text \in Seq(Texts) /\ WellFormed(text) /\ Len(text) > 0
      /\ Prefix(sent, text) /\ buffer \in Seq(Granule)
      /\ Len(buffer) = Len(text) \/ text[Len(buffer)].type # "data"
      /\ ~ret => text[1].type = "error"
      /\ TypeAt(0) = text[1].type /\ TypeAt(0) \in Markers
      /\ ret \in BOOLEAN
  BY <1>0, InTheReply DEF TypeInv, TypeOK
<1>2. text # <<>>
  BY <1>1, Lengths DEF TypeInv
<1> HIDE DEF text
<1>3. CASE ParseLine
  <2>1. /\ text[1].type \in {"simple", "error"} /\ Untouched /\ response' = <<>>
        /\ ret' = (ret /\ text[1].type # "error")
    BY <1>0, <1>1, <1>3 DEF ParseLine, Untouched, serverVars
  <2>2. CASE HasLine(pos)
    <3>1. Value(sent, text) = <<>>
      BY <2>1 DEF Value
    <3>2. ret' = (text[1].type # "error")
      BY <1>1, <2>1
    <3> QED
      BY <1>1, <1>2, <1>3, <2>1, <2>2, <3>1, <3>2, OwnReturn DEF ParseLine, Return, text
  <2>3. CASE ~HasLine(pos)
    <3>1. ret' = ret \/ text[1].type = "error"
      BY <1>1, <2>1
    <3> QED
      BY <1>0, <1>3, <2>1, <2>3, <3>1, OwnAgain DEF ParseLine, Again, text
  <2> QED
    BY <2>2, <2>3
<1>4. ASSUME NEW v, v = ValueAt(sent, text, 1), text[1].type \in {"integer", "bulk"},
             Untouched, pc' = "idle", response' = Append(response, v), ret' = ret
      PROVE  OwnInv'
  <2>1. response' = <<v>>
    BY <1>0, <1>4
  <2>2. Value(sent, text) = <<v>>
    BY <1>4 DEF Value
  <2>3. ret' = (text[1].type # "error")
    BY <1>1, <1>4
  <2> QED
    BY <1>1, <1>2, <1>4, <2>1, <2>2, <2>3, OwnReturn DEF text
<1>5. CASE ParseInteger
  <2>1. /\ TypeAt(0) = "integer" /\ Untouched /\ ret' = ret
        /\ HasLine(0) => response' = Append(response, {buffer[0 + 1]}) /\ pc' = "idle"
        /\ ~HasLine(0) => pos' = startpos /\ pc' = "readReply"
    BY <1>0, <1>5 DEF ParseInteger, Untouched, serverVars, Return, Again
  <2>2. CASE HasLine(0)
    <3>1. {buffer[0 + 1]} = ValueAt(sent, text, 1)
      BY <1>1, <2>1, <2>2, IntegerHere
    <3> QED
      BY <1>1, <1>4, <2>1, <2>2, <3>1
  <2>3. CASE ~HasLine(0)
    BY <1>0, <2>1, <2>3, OwnAgain
  <2> QED
    BY <2>2, <2>3
<1>6. CASE ParseBulkString
  <2>1. /\ TypeAt(0) = "bulk" /\ Untouched /\ ret' = ret
        /\ BulkComplete(0) => response' = Append(response, BulkString(0)) /\ pc' = "idle"
        /\ ~BulkComplete(0) => pos' = startpos /\ pc' = "readReply"
    BY <1>0, <1>6 DEF ParseBulkString, Untouched, serverVars, Return, Again
  <2>2. CASE BulkComplete(0)
    <3>1. BulkString(0) = ValueAt(sent, text, 0 + 1)
      BY <1>1, <2>1, <2>2, BulkHere
    <3> QED
      BY <1>1, <1>4, <2>1, <2>2, <3>1
  <2>3. CASE ~BulkComplete(0)
    BY <1>0, <2>1, <2>3, OwnAgain
  <2> QED
    BY <2>2, <2>3
<1>7. CASE ParseInvalid
  BY <1>0, <1>1, <1>7 DEF ParseInvalid
<1> QED
  BY <1>3, <1>5, <1>6, <1>7

\* parseArray() goes on.
LEMMA OwnGoesOn ==
  ASSUME RepliesWellFormed, TypeInv, OwnInv, pc \in {"parse", "parseArray"}, ~late, ~cut,
         pc' = "parseArray", Untouched, ret' = ret, pos' <= Len(buffer),
         NestedCalls(sent, answer[sent], arrays', pos')
  PROVE  OwnInv'
<1>1. /\ Intact /\ Len(owed) = 0 /\ sent > 0 /\ Len(buffer) > 0 /\ Len(answer[sent]) > 0
      /\ ~ret => answer[sent][1].type = "error"
      /\ \A j \in DOMAIN owed : owed[j] = sent
  BY InTheReply DEF OwnInv, Underway
<1>2. Intact'
  BY <1>1 DEF Intact, Untouched, Prefix, CutWell
<1>3. Underway'
  BY <1>1, <1>2 DEF Underway, Untouched
<1> QED
  BY <1>3 DEF OwnInv, Unanswered, OwnReply, Untouched

\* parseArray() begins, for the reply or for an element.
LEMMA OwnArrayBegins ==
  ASSUME RepliesWellFormed, TypeInv, OwnInv, ~late, ~cut, ParseArray
  PROVE  OwnInv'
<1> DEFINE text == answer[sent]
<1>0. pc \in {"parse", "parseArray"} /\ Untouched /\ ret' = ret /\ pc' = "parseArray"
  BY DEF ParseArray, Untouched, serverVars, requestVars
<1>1. /\ text \in Seq(Texts) /\ WellFormed(text) /\ Prefix(sent, text)
      /\ buffer \in Seq(Granule) /\ pos \in Nat /\ Intact
      /\ pc = "parse" => pos = 0
  BY <1>0, InTheReply
<1>2. TypeAt(pos) = "array" /\ HasLine(pos) /\ pos' = LineEnd(pos)
      /\ arrays' = Append(arrays, [count |-> Number(pos), list |-> <<>>])
  BY DEF ParseArray
<1>3. /\ pos + 1 \in DOMAIN text /\ text[pos + 1].type = "array"
      /\ text[pos + 1].num = Number(pos)
      /\ pos' = pos + 2 /\ pos + 2 \in 1..Len(buffer)
  BY <1>1, <1>2, MarkerHere DEF Markers
<1>4. arrays \in Seq(Calls(Got)) /\ (arrays # <<>> <=> pc = "parseArray")
  BY DEF TypeInv, Values
<1>5. (Len(arrays) = 0 /\ pos = 0) \/ (Len(arrays) >= 1 /\ NestedCalls(sent, text, arrays, pos))
  <2>1. CASE pc = "parse"
    <3>1. arrays = <<>> /\ pos = 0
      BY <1>1, <1>4, <2>1
    <3>2. Len(arrays) = 0
      BY <3>1
    <3> QED
      BY <3>1, <3>2
  <2>2. CASE pc = "parseArray"
    <3>1. NestedCalls(sent, text, arrays, pos)
      BY <1>1, <2>2 DEF Intact
    <3>2. Len(arrays) >= 1
      BY <1>4, <2>2, SeqFacts
    <3> QED
      BY <3>1, <3>2
  <2> QED
    BY <1>0, <2>1, <2>2
<1> HIDE DEF text
<1>6. NestedCalls(sent, text, arrays', pos + 2)
  BY <1>1, <1>2, <1>3, <1>4, <1>5, NestedBegins
<1>7. pos' <= Len(buffer)
  <2>1. Len(buffer) \in Nat
    BY <1>1, LenProperties
  <2> QED
    BY <1>3, <2>1
<1> QED
  BY <1>0, <1>3, <1>6, <1>7, OwnGoesOn DEF text

\* An element that is no array is put into the list of the last call.
LEMMA OwnElement ==
  ASSUME RepliesWellFormed, TypeInv, OwnInv, ~late, ~cut, ParseElement
  PROVE  OwnInv'
<1> DEFINE text == answer[sent]
<1>0. pc = "parseArray" /\ Untouched /\ ret' = ret /\ pc' = "parseArray"
  BY DEF ParseElement, Untouched, serverVars, requestVars
<1>1. /\ text \in Seq(Texts) /\ WellFormed(text) /\ Prefix(sent, text)
      /\ Len(buffer) = Len(text) \/ text[Len(buffer)].type # "data"
      /\ buffer \in Seq(Granule) /\ pos \in Nat /\ Intact
  BY <1>0, InTheReply
<1>2. /\ arrays \in Seq(Calls(Got)) /\ Len(arrays) >= 1
      /\ NestedCalls(sent, text, arrays, pos)
  <2>1. arrays \in Seq(Calls(Got)) /\ arrays # <<>>
    BY <1>0 DEF TypeInv, Values
  <2>2. Len(arrays) >= 1
    BY <2>1, SeqFacts
  <2>3. NestedCalls(sent, text, arrays, pos)
    BY <1>0, <1>1 DEF Intact
  <2> QED
    BY <2>1, <2>2, <2>3
<1>3. PICK v \in SUBSET Got :
        /\ v = ValueAt(sent, text, pos + 1)
        /\ arrays' = [arrays EXCEPT ![Len(arrays)].list = Append(@, v)]
        /\ pos' \in 1..Len(buffer) /\ pos' + 1 = After(text, pos + 1)
        /\ pos + 1 \in DOMAIN text /\ text[pos + 1].type \in {"integer", "bulk"}
  <2>1. CASE TypeAt(pos) = "bulk" /\ BulkComplete(pos) /\ pos' = BulkEnd(pos)
             /\ arrays' = [arrays EXCEPT ![Len(arrays)].list = Append(@, BulkString(pos))]
    <3>1. BulkString(pos) \in SUBSET Got
      BY <1>1, <2>1, BulkAt DEF Markers
    <3>2. /\ BulkString(pos) = ValueAt(sent, text, pos + 1)
          /\ pos' + 1 = After(text, pos + 1) /\ pos' \in 1..Len(buffer)
      BY <1>1, <2>1, BulkHere
    <3>3. pos + 1 \in DOMAIN text /\ text[pos + 1].type = "bulk"
      BY <1>1, <2>1, MarkerHere DEF Markers
    <3> QED
      BY <2>1, <3>1, <3>2, <3>3
  <2>2. CASE TypeAt(pos) = "integer" /\ HasLine(pos) /\ pos' = LineEnd(pos)
             /\ arrays' = [arrays EXCEPT ![Len(arrays)].list = Append(@, {buffer[pos + 1]})]
    <3>1. {buffer[pos + 1]} \in SUBSET Got
      BY <1>1, <2>2, MarkerAt DEF Markers
    <3>2. /\ {buffer[pos + 1]} = ValueAt(sent, text, pos + 1)
          /\ pos' + 1 = After(text, pos + 1) /\ pos' \in 1..Len(buffer)
      BY <1>1, <2>2, IntegerHere
    <3>3. pos + 1 \in DOMAIN text /\ text[pos + 1].type = "integer"
      BY <1>1, <2>2, MarkerHere DEF Markers
    <3> QED
      BY <2>2, <3>1, <3>2, <3>3
  <2> QED
    BY <2>1, <2>2 DEF ParseElement
<1>4. pos' \in Nat /\ pos' <= Len(buffer)
  <2>1. Len(buffer) \in Nat
    BY <1>1, LenProperties
  <2> QED
    BY <1>3, <2>1
<1> HIDE DEF text
<1>5. NestedCalls(sent, text, arrays', pos')
  <2> DEFINE r == pos'
             bs == arrays'
             l == Len(arrays)
  <2>1. bs = [arrays EXCEPT ![Len(arrays)].list = Append(@, v)]
    BY <1>3
  <2>2. r \in Nat /\ r + 1 = After(text, pos + 1)
    BY <1>3, <1>4
  <2> HIDE DEF r, bs
  <2>3. NestedCalls(sent, text, bs, r)
    BY <1>1, <1>2, <1>3, <2>1, <2>2, NestedGrows
  <2> QED
    BY <2>3 DEF r, bs
<1> QED
  BY <1>0, <1>4, <1>5, OwnGoesOn DEF text

\* A call of parseArray() returns: to the one before it, or to request() with the
\* elements of the reply.
LEMMA OwnArrayEnds ==
  ASSUME RepliesWellFormed, TypeInv, OwnInv, ~late, ~cut, EndArray
  PROVE  OwnInv'
<1> DEFINE text == answer[sent]
<1>0. pc = "parseArray" /\ Untouched /\ ret' = ret
  BY DEF EndArray, Untouched, serverVars
<1>1. /\ sent \in 1..MaxRequests /\ text \in Seq(Texts) /\ WellFormed(text)
      /\ Prefix(sent, text) /\ Len(text) > 0 /\ Intact
      /\ buffer \in Seq(Granule) /\ pos \in Nat
      /\ ~ret => text[1].type = "error"
      /\ ret \in BOOLEAN
  BY <1>0, InTheReply DEF TypeInv, TypeOK
<1>2. arrays \in Seq(Calls(Got)) /\ Len(arrays) \in Nat /\ Len(arrays) >= 1
  <2>1. arrays \in Seq(Calls(Got)) /\ arrays # <<>>
    BY <1>0 DEF TypeInv, Values
  <2> QED
    BY <2>1, SeqFacts
<1>3. NestedCalls(sent, text, arrays, pos) /\ pos <= Len(buffer)
  BY <1>0, <1>1 DEF Intact
<1>4. /\ top = arrays[Len(arrays)] /\ top \in Calls(Got)
      /\ Len(top.list) >= 1 /\ Len(top.list) >= top.count
  <2>1. top = arrays[Len(arrays)] /\ top \in Calls(Got)
    BY <1>0, TopCall DEF TypeInv, top
  <2>2. top.list \in Seq(SUBSET Got) /\ top.list # <<>> /\ Len(top.list) >= top.count
    BY <2>1 DEF EndArray, Complete, Calls
  <2> QED
    BY <2>1, <2>2, SeqFacts
<1> HIDE DEF text
<1>5. CASE Len(arrays) = 1
  <2>1. PICK hs : NestedAt(sent, text, arrays, pos, hs)
    BY <1>3 DEF NestedCalls, NestedAt
  <2>2. InCall(sent, text, top, 1, pos + 1)
    BY <1>4, <1>5, <2>1 DEF NestedAt
  <2>3. 1 \in DOMAIN text /\ After(text, 1) = Len(text) + 1 /\ Len(text) \in Nat
    BY <1>1, Places DEF WellFormed
  <2>4. pos + 1 \in Nat /\ pos + 1 <= Len(text) + 1
    BY <1>1, <1>3, <2>3, LenProperties DEF Prefix
  <2>5. /\ After(text, 1) <= pos + 1 /\ text[1].type = "array"
        /\ After(text, 1) = pos + 1 => top.list = ValuesOf(sent, text, 1, Count(text, 1))
    BY <1>1, <1>4, <2>2, <2>3, <2>4, CallReturns
  <2>6. After(text, 1) = pos + 1
    BY <2>3, <2>4, <2>5
  <2>7. response' = Value(sent, text)
    <3>1. response' = top.list
      BY <1>5 DEF EndArray
    <3> QED
      BY <2>5, <2>6, <3>1 DEF ValuesOf, Value
  <2>8. ret' = (text[1].type # "error") /\ pc' = "idle"
    BY <1>0, <1>1, <1>5, <2>5 DEF EndArray, Return
  <2>9. text # <<>>
    BY <1>1, EmptySeq
  <2> QED
    BY <1>0, <1>1, <2>7, <2>8, <2>9, OwnReturn DEF text
<1>6. CASE Len(arrays) # 1
  <2> DEFINE m == Len(arrays) - 1
             cs == SubSeq(arrays, 1, m)
             v == UNION {top.list[i] : i \in DOMAIN top.list}
             bs == [cs EXCEPT ![m].list = Append(@, v)]
  <2>1. m \in Nat /\ m >= 1 /\ Len(arrays) = m + 1 /\ m \in 0..Len(arrays)
    <3>1. \A l \in Nat : l >= 1 /\ l # 1 =>
            l - 1 \in Nat /\ l - 1 >= 1 /\ l = (l - 1) + 1 /\ l - 1 \in 0..l
      OBVIOUS
    <3> QED
      BY <1>2, <1>6, <3>1
  <2>2. arrays' = bs /\ pos' = pos /\ pc' = "parseArray"
    BY <1>0, <1>6 DEF EndArray
  <2> HIDE DEF m
  <2>3. cs \in Seq(Calls(Got)) /\ Len(cs) = m /\ \A d \in 1..m : cs[d] = arrays[d]
    <3>1. /\ cs \in Seq(Calls(Got))
          /\ Len(cs) = IF 1 <= m THEN m - 1 + 1 ELSE 0
          /\ \A i \in 1..(m - 1 + 1) : cs[i] = arrays[1 + i - 1]
      <4>1. 1 \in Nat \ {0}
        OBVIOUS
      <4> HIDE DEF cs
      <4> QED
        BY <1>2, <2>1, <4>1, Part DEF cs
    <3> HIDE DEF cs
    <3>2. \A d \in 1..m : d \in 1..(m - 1 + 1) /\ 1 + d - 1 = d
      BY <2>1
    <3> QED
      BY <2>1, <3>1, <3>2
  <2>4. v \in SUBSET Got
    <3>1. top.list \in Seq(SUBSET Got)
      BY <1>4 DEF Calls
    <3>2. \A i \in DOMAIN top.list : top.list[i] \in SUBSET Got
      BY <3>1, SeqFacts
    <3> QED
      BY <3>2
  <2> HIDE DEF cs, v
  <2>5. bs \in Seq(Calls(Got)) /\ m \in 1..m
    <3>1. m \in 1..Len(cs) /\ m \in 1..m
      BY <2>1, <2>3
    <3> QED
      BY <2>3, <2>4, <3>1, AppendToList
  <2>6. /\ bs[m].count = arrays[m].count /\ bs[m].list = Append(arrays[m].list, v)
        /\ \A d \in 1..m : d # m => bs[d] = arrays[d]
        /\ DOMAIN bs = DOMAIN cs
    <3>1. DOMAIN cs = 1..m /\ cs[m] = arrays[m] /\ cs[m] \in Calls(Got)
      BY <2>3, <2>5, SeqFacts
    <3>2. DOMAIN cs[m] = {"count", "list"}
      BY <3>1 DEF Calls
    <3>3. bs = [cs EXCEPT ![m] = [cs[m] EXCEPT !.list = Append(cs[m].list, v)]]
      OBVIOUS
    <3> HIDE DEF bs
    <3>4. DOMAIN bs = DOMAIN cs /\ \A d \in 1..m : d # m => bs[d] = cs[d]
      BY <3>1, <3>3
    <3>5. bs[m] = [cs[m] EXCEPT !.list = Append(cs[m].list, v)]
      BY <2>5, <3>1, <3>3
    <3> QED
      BY <2>3, <2>5, <3>1, <3>2, <3>4, <3>5
  <2> HIDE DEF bs
  <2>7. Len(bs) = m
    <3> DEFINE l == Len(bs)
    <3>1. DOMAIN bs = 1..l /\ l \in Nat
      BY <2>5, LenProperties
    <3>2. DOMAIN cs = 1..m
      BY <2>3, LenProperties
    <3> HIDE DEF l
    <3>3. 1..l = 1..m
      BY <2>6, <3>1, <3>2
    <3>4. l = m
      BY <2>1, <3>1, <3>3
    <3> QED
      BY <3>4 DEF l
  <2>8. top = arrays[m + 1]
    BY <1>4, <2>1
  <2>9. Returned(arrays, m, bs)
    BY <1>4, <2>1, <2>6, <2>7, <2>8 DEF v, Returned
  <2>10. NestedCalls(sent, text, bs, pos)
    BY <1>1, <1>2, <1>3, <2>1, <2>5, <2>9, NestedReturns
  <2> QED
    BY <1>0, <1>3, <2>2, <2>10, OwnGoesOn DEF text, bs
<1> QED
  BY <1>5, <1>6

LEMMA OwnArrays ==
  ASSUME RepliesWellFormed, TypeInv, OwnInv, ~late, ~cut,
         ParseArray \/ ParseElement \/ ParseArrayFails \/ EndArray
  PROVE  OwnInv'
<1>1. CASE ParseArrayFails
  <2>1. /\ pc \in {"parse", "parseArray"} /\ Untouched /\ ret' = ret
        /\ pos' = startpos /\ pc' = "readReply"
    BY <1>1 DEF ParseArrayFails, Again, Untouched, serverVars
  <2> QED
    BY <2>1, OwnAgain
<1> QED
  BY <1>1, OwnArrayBegins, OwnElement, OwnArrayEnds

\* Every step of the parser.
LEMMA OwnParse ==
  ASSUME RepliesWellFormed, TypeInv, OwnInv, Parse
  PROVE  OwnInv'
<1>1. CASE ~late /\ ~cut
  BY <1>1, OwnSimple, OwnArrays DEF Parse
<1>2. CASE late \/ cut
  <2>1. UNCHANGED <<sent, owed, answer, late, cut>>
    BY ParsedType DEF TypeInv, Parsed, serverVars
  <2> QED
    BY <1>2, <2>1 DEF OwnInv, Unanswered, Underway, OwnReply
<1> QED
  BY <1>1, <1>2

\* readReply() ends without a reply.
LEMMA OwnNoReply ==
  ASSUME TypeInv, OwnInv, ReadClosed \/ ReadTimeout
  PROVE  OwnInv'
<1>1. /\ UNCHANGED <<sent, owed, answer, ret, response, late, cut>>
      /\ pc' = "idle" /\ response = <<>> /\ pc # "idle"
  BY DEF ReadClosed, ReadTimeout, serverVars, requestVars, TypeInv, Values
<1>2. OwnReply'
  <2> SUFFICES ASSUME sent > 0, ~late, ~cut, ~ret
               PROVE  /\ answer[sent] # <<>>
                      /\ response = Value(sent, answer[sent])
                      /\ ret = (answer[sent][1].type # "error")
    BY <1>1 DEF OwnReply, TypeInv, TypeOK
  <2>1. Len(answer[sent]) > 0 /\ answer[sent][1].type = "error"
    BY <1>1 DEF OwnInv, Underway
  <2>2. answer[sent] # <<>>
    BY <2>1, Lengths DEF TypeInv
  <2>3. Value(sent, answer[sent]) = <<>>
    BY <2>1 DEF Value
  <2>4. ret = FALSE
    BY DEF TypeInv, TypeOK
  <2> QED
    BY <1>1, <2>1, <2>2, <2>3, <2>4
<1> QED
  BY <1>1, <1>2 DEF OwnInv, Unanswered, Underway

\* Nothing lies before pos when an undisturbed request reads on.
LEMMA OwnBeginRead ==
  ASSUME TypeInv, OwnInv, BeginRead
  PROVE  OwnInv'
<1>1. /\ UNCHANGED <<sent, owed, answer, stream, ret, response, late, cut, startpos>>
      /\ pc = "readReply" /\ pc' = "wait" /\ pos' = 0
      /\ buffer' = SubSeq(buffer, pos + 1, Len(buffer))
  BY DEF BeginRead, serverVars, requestVars
<1>2. ASSUME ~late, ~cut PROVE Intact' \/ Spent'
  <2>1. CASE Intact
    <3>1. pos = 0
      BY <1>1, <2>1 DEF Intact
    <3>2. buffer \in Seq(Granule) /\ Len(buffer) \in 0..Len(buffer) /\ Len(buffer) \in Nat
      BY LenProperties DEF TypeInv, TypeOK
    <3> DEFINE n == Len(buffer)
               b == SubSeq(buffer, 1, n)
    <3>3. buffer' = b /\ n \in Nat /\ n \in 0..n /\ 1 \in Nat \ {0}
      BY <1>1, <3>1, <3>2
    <3>4. /\ b \in Seq(Granule) /\ Len(b) = (IF 1 <= n THEN n - 1 + 1 ELSE 0)
          /\ \A i \in 1..(n - 1 + 1) : b[i] = buffer[1 + i - 1]
      BY <3>2, <3>3, Part
    <3> HIDE DEF b, n
    <3>5. Len(b) = n /\ \A i \in 1..n : b[i] = buffer[i]
      <4>1. \A i \in 1..n : i \in 1..(n - 1 + 1) /\ 1 + i - 1 = i
        BY <3>3
      <4>2. (IF 1 <= n THEN n - 1 + 1 ELSE 0) = n
        BY <3>3
      <4> QED
        BY <3>4, <4>1, <4>2
    <3>6. Len(buffer') = Len(buffer) /\ \A i \in 1..Len(buffer) : buffer'[i] = buffer[i]
      BY <3>3, <3>5 DEF n
    <3> QED
      BY <1>1, <2>1, <3>6 DEF Intact, Prefix, CutWell
  <2>2. CASE Spent
    BY <1>1, <2>2 DEF Spent
  <2> QED
    BY <1>1, <1>2, <2>1, <2>2 DEF OwnInv, Underway
<1>3. Underway'
  BY <1>1, <1>2 DEF OwnInv, Underway
<1> QED
  BY <1>1, <1>3 DEF OwnInv, Unanswered, OwnReply

\* What is read follows the buffer in the reply; a cut in a string, or with a stale
\* startpos, is a disturbance.
LEMMA OwnRead ==
  ASSUME TypeInv, OwnInv, Read
  PROVE  OwnInv'
<1>1. PICK n \in 1..Len(stream) :
        /\ buffer' = buffer \o SubSeq(stream, 1, n)
        /\ stream' = SubSeq(stream, n + 1, Len(stream))
        /\ cut' = (cut \/ /\ n > 0 /\ ~stream[n].last
                          /\ stream[n].type = "data" \/ startpos > 0)
  BY DEF Read, ReadSizes
<1>2. /\ UNCHANGED <<sent, owed, answer, ret, response, late, startpos, pos>>
      /\ pc = "wait" /\ pc' = "parse"
  BY DEF Read, requestVars
<1>3. ASSUME ~late, ~cut' PROVE ~cut /\ Intact'
  <2> DEFINE text == answer[sent]
             L == Len(buffer)
             S == Len(stream)
             head == SubSeq(stream, 1, n)
             tail == SubSeq(stream, n + 1, S)
  <2>1. stream \in Seq(Granule) /\ buffer \in Seq(Granule) /\ L \in Nat /\ S \in Nat
        /\ sent \in Nat /\ (sent > 0 => sent \in 1..MaxRequests) /\ startpos \in Nat
    BY LenProperties, RedisAssumption DEF TypeInv, TypeOK
  <2>2. ~cut /\ sent > 0 /\ Intact
    <3>1. ~cut
      BY <1>1, <1>3
    <3>2. sent > 0 /\ (Intact \/ Spent)
      BY <1>2, <1>3, <3>1 DEF OwnInv, Underway
    <3>3. Len(stream) # 0
      BY <2>1
    <3> QED
      BY <3>1, <3>2, <3>3 DEF Spent
  <2>3. text \in Seq(Texts) /\ Len(text) \in Nat
    BY <2>1, <2>2, Lengths DEF TypeInv
  <2>4. /\ L + S <= Len(text) /\ pos = 0
        /\ \A i \in 1..L : buffer[i] = OnWire(sent, text)[i]
        /\ \A i \in 1..S : stream[i] = OnWire(sent, text)[L + i]
    BY <1>2, <2>2 DEF Intact, Prefix
  <2> HIDE DEF text, S
  <2>5. n \in Nat /\ n >= 1 /\ n <= S /\ n \in 0..S /\ n + 1 \in Nat \ {0} /\ S \in 0..S
        /\ n \in 1..S
    BY <2>1 DEF S
  <2>6. /\ head \in Seq(Granule) /\ Len(head) = n /\ \A i \in 1..n : head[i] = stream[i]
    <3>1. /\ head \in Seq(Granule) /\ Len(head) = (IF 1 <= n THEN n - 1 + 1 ELSE 0)
          /\ \A i \in 1..(n - 1 + 1) : head[i] = stream[1 + i - 1]
      <4>1. n \in 0..Len(stream) /\ 1 \in Nat \ {0}
        BY <2>5 DEF S
      <4> QED
        BY <2>1, <4>1, Part
    <3> HIDE DEF head
    <3>2. \A i \in 1..n : i \in 1..(n - 1 + 1) /\ 1 + i - 1 = i
      BY <2>5
    <3>3. (IF 1 <= n THEN n - 1 + 1 ELSE 0) = n
      BY <2>5
    <3> QED
      BY <3>1, <3>2, <3>3
  <2>7. /\ tail \in Seq(Granule) /\ Len(tail) = S - n
        /\ \A i \in 1..(S - n) : tail[i] = stream[n + i]
    <3>1. /\ tail \in Seq(Granule)
          /\ Len(tail) = (IF n + 1 <= S THEN S - (n + 1) + 1 ELSE 0)
          /\ \A i \in 1..(S - (n + 1) + 1) : tail[i] = stream[(n + 1) + i - 1]
      <4>1. S \in 0..Len(stream)
        BY <2>5 DEF S
      <4> QED
        BY <2>1, <2>5, <4>1, Part
    <3> HIDE DEF tail
    <3>2. \A i \in 1..(S - n) : i \in 1..(S - (n + 1) + 1) /\ (n + 1) + i - 1 = n + i
      BY <2>1, <2>5
    <3>3. (IF n + 1 <= S THEN S - (n + 1) + 1 ELSE 0) = S - n
      BY <2>1, <2>5
    <3> QED
      BY <3>1, <3>2, <3>3
  <2>8. stream' = tail /\ buffer' = buffer \o head
    BY <1>1 DEF S
  <2> HIDE DEF head, tail
  <2>9. /\ Len(buffer') = L + n
        /\ \A i \in 1..(L + n) : buffer'[i] = IF i <= L THEN buffer[i] ELSE head[i - L]
    <3>1. /\ Len(buffer \o head) = Len(buffer) + Len(head)
          /\ \A i \in 1..(Len(buffer) + Len(head)) :
               (buffer \o head)[i] = IF i <= Len(buffer) THEN buffer[i] ELSE head[i - Len(buffer)]
      BY <2>1, <2>6, ConcatProperties
    <3> QED
      BY <2>6, <2>8, <3>1
  <2> HIDE DEF L
  <2>10. \A i \in 1..(L + n) : buffer'[i] = OnWire(sent, text)[i]
    <3> TAKE i \in 1..(L + n)
    <3>1. CASE i <= L
      <4>1. i \in 1..L
        BY <3>1
      <4> QED
        BY <2>4, <2>9, <3>1, <4>1
    <3>2. CASE ~(i <= L)
      <4>1. i - L \in 1..n /\ i - L \in 1..S /\ L + (i - L) = i
        BY <2>1, <2>5, <3>2
      <4> QED
        BY <2>4, <2>6, <2>9, <3>2, <4>1
    <3> QED
      BY <3>1, <3>2
  <2>11. \A i \in 1..Len(stream') : stream'[i] = OnWire(sent, text)[(L + n) + i]
    <3> SUFFICES ASSUME NEW i \in 1..(S - n)
                 PROVE  tail[i] = OnWire(sent, text)[(L + n) + i]
      BY <2>7, <2>8
    <3>1. n + i \in 1..S /\ L + (n + i) = (L + n) + i
      BY <2>1, <2>5
    <3> QED
      BY <2>4, <2>7, <3>1
  <2>12. L + n = Len(text) \/ (startpos = 0 /\ text[L + n].type # "data")
    <3>1. stream[n] = OnWire(sent, text)[L + n] /\ L + n \in 1..Len(text)
      BY <2>1, <2>3, <2>4, <2>5
    <3>2. stream[n].type = text[L + n].type /\ stream[n].last = (L + n = Len(text))
      BY <2>3, <3>1, OnWireAt
    <3>3. stream[n].last \/ (stream[n].type # "data" /\ ~(startpos > 0))
      <4> SUFFICES ASSUME ~stream[n].last, stream[n].type = "data" \/ startpos > 0
                   PROVE  FALSE
        OBVIOUS
      <4>1. n > 0
        BY <2>5
      <4>2. cut' = TRUE
        BY <1>1, <4>1
      <4> QED
        BY <1>3, <4>2
    <3>4. ~(startpos > 0) => startpos = 0
      BY <2>1
    <3> QED
      BY <3>2, <3>3, <3>4
  <2>13. /\ L + n > 0 /\ L + n <= Len(text)
         /\ Len(buffer') + Len(stream') <= Len(text) /\ text' = text
    <3>1. (L + n) + (S - n) = L + S /\ L + n > 0 /\ L + n <= L + S
      BY <2>1, <2>5
    <3> QED
      BY <1>2, <2>3, <2>4, <2>7, <2>8, <2>9, <3>1, <2>1, <2>5 DEF text
  <2>14. Prefix(sent, text)' /\ CutWell(text)'
    BY <1>2, <2>9, <2>10, <2>12, <2>13 DEF Prefix, CutWell
  <2> QED
    BY <1>2, <2>2, <2>4, <2>9, <2>11, <2>13, <2>14 DEF Intact, text
<1>4. Underway'
  BY <1>2, <1>3 DEF OwnInv, Underway
<1> QED
  BY <1>2, <1>4 DEF OwnInv, Unanswered, OwnReply

\* A command is written: what follows is its reply, if nothing was outstanding.
LEMMA OwnRequest ==
  ASSUME TypeInv, OrderInv, OwnInv, Request
  PROVE  OwnInv'
<1>1. /\ sent' = sent + 1 /\ owed' = Append(owed, sent + 1)
      /\ UNCHANGED <<answer, stream, arrays>>
      /\ buffer' = <<>> /\ pos' = 0 /\ ret' = TRUE
      /\ late' = (owed # <<>> \/ stream # <<>>)
      /\ pc' = "readReply" /\ sent < MaxRequests
  BY DEF Request, clearBuffer
<1>2. sent \in Nat /\ sent + 1 \in 1..MaxRequests /\ owed \in Seq(1..MaxRequests)
  BY <1>1, RedisAssumption DEF TypeInv, TypeOK
<1>3. answer[sent + 1] = <<>>
  <2>1. sent + 1 > sent
    BY <1>2
  <2> QED
    BY <1>2, <2>1 DEF OwnInv, Unanswered
<1>4. /\ Len(owed) \in Nat /\ DOMAIN owed = 1..Len(owed)
      /\ Len(owed') = Len(owed) + 1 /\ DOMAIN owed' = 1..(Len(owed) + 1)
      /\ \A j \in 1..Len(owed) : owed'[j] = owed[j]
      /\ owed'[Len(owed) + 1] = sent + 1
  <2>1. owed' \in Seq(1..MaxRequests)
    BY <1>1, <1>2, AppendProperties
  <2> QED
    BY <1>1, <1>2, <2>1, SeqFacts, LenProperties
<1>5. Unanswered'
  <2>1. \A j \in DOMAIN owed' : j \in DOMAIN owed \/ j = Len(owed) + 1
    BY <1>4
  <2>2. \A j \in DOMAIN owed' : answer[owed'[j]] = <<>>
    BY <1>3, <1>4, <2>1 DEF OwnInv, Unanswered
  <2>3. \A m \in 1..MaxRequests : m > sent + 1 => m > sent
    BY <1>2
  <2> QED
    BY <1>1, <2>2, <2>3 DEF OwnInv, Unanswered
<1>6. Underway'
  <2> SUFFICES ASSUME ~late' PROVE (sent > 0 /\ Len(owed) <= 1)'
                                   /\ (\A j \in DOMAIN owed : owed[j] = sent)' /\ Intact'
    BY <1>1 DEF Underway
  <2>1. Len(owed) = 0 /\ Len(stream) = 0
    BY <1>1, Lengths DEF TypeInv
  <2>2. Len(owed') = 1 /\ DOMAIN owed' = 1..1 /\ owed'[1] = sent + 1
    BY <1>4, <2>1
  <2>3. Len(buffer') = 0 /\ Len(stream') = 0 /\ Len(answer'[sent']) = 0
    BY <1>1, <1>3, <2>1
  <2>4. Intact'
    BY <1>1, <2>3 DEF Intact, Prefix, CutWell
  <2> QED
    BY <1>1, <1>2, <2>2, <2>4
<1> QED
  BY <1>1, <1>5, <1>6 DEF OwnInv, OwnReply

\* The server answers.
LEMMA OwnAnswer ==
  ASSUME TypeInv, OrderInv, OwnInv, Answer
  PROVE  OwnInv'
<1> DEFINE k == Head(owed)
<1>1. PICK text \in Replies :
        /\ answer' = [answer EXCEPT ![k] = text]
        /\ stream' = stream \o OnWire(k, text)
  BY DEF Answer
<1>2. /\ owed # <<>> /\ owed' = Tail(owed)
      /\ UNCHANGED <<sent, buffer, pos, pc, startpos, ret, response, arrays, late, cut>>
  BY DEF Answer, bufferVars, requestVars
<1>3. /\ k \in 1..MaxRequests /\ k = owed[1] /\ 1 \in DOMAIN owed
      /\ Tail(owed) \in Seq(1..MaxRequests) /\ Len(Tail(owed)) = Len(owed) - 1
      /\ DOMAIN owed = 1..Len(owed) /\ Len(owed) \in Nat
      /\ \A j \in DOMAIN Tail(owed) : j \in Nat /\ j >= 1 /\ j + 1 \in DOMAIN owed
                                     /\ Tail(owed)[j] = owed[j + 1]
  <2>0. owed \in Seq(1..MaxRequests)
    BY DEF TypeInv, TypeOK
  <2>1. Len(owed) \in Nat \ {0} /\ DOMAIN owed = 1..Len(owed)
    BY <1>2, <2>0, EmptySeq, LenProperties
  <2>2. /\ Head(owed) \in 1..MaxRequests /\ Tail(owed) \in Seq(1..MaxRequests)
        /\ Len(Tail(owed)) = Len(owed) - 1
        /\ \A j \in 1..Len(Tail(owed)) : Tail(owed)[j] = owed[j + 1]
    BY <1>2, <2>0, HeadTailProperties
  <2>3. DOMAIN Tail(owed) = 1..Len(Tail(owed))
    BY <2>2, LenProperties
  <2>4. Head(owed) = owed[1]
    BY <2>1
  <2> QED
    BY <2>1, <2>2, <2>3, <2>4
<1> HIDE DEF k
<1>4. k <= sent /\ \A j \in DOMAIN owed' : k < owed'[j] /\ owed'[j] \in 1..MaxRequests
  <2>1. InOrder(stream, owed, sent)
    BY DEF OrderInv
  <2>2. \A j \in DOMAIN owed' : owed'[j] \in 1..MaxRequests
    BY <1>2, <1>3, ElementOfSeq, LenProperties
  <2>3. \A j \in DOMAIN owed' : 1 < j + 1
    BY <1>2, <1>3
  <2> QED
    BY <1>2, <1>3, <2>1, <2>2, <2>3 DEF InOrder
<1>5. answer[k] = <<>> /\ answer \in [1..MaxRequests -> Replies \cup {<<>>}]
  BY <1>3 DEF OwnInv, Unanswered, TypeInv, TypeOK
<1>6. \A m \in 1..MaxRequests : m # k => answer'[m] = answer[m]
  BY <1>1, <1>5
<1>7. Unanswered'
  <2>1. \A m \in 1..MaxRequests : m > sent' => answer'[m] = <<>>
    <3> SUFFICES ASSUME NEW m \in 1..MaxRequests, m > sent PROVE answer'[m] = <<>>
      BY <1>2
    <3>1. m # k
      BY <1>3, <1>4, Lengths DEF TypeInv
    <3> QED
      BY <1>6, <3>1 DEF OwnInv, Unanswered
  <2>2. \A j \in DOMAIN owed' : answer'[owed'[j]] = <<>>
    <3> TAKE j \in DOMAIN owed'
    <3>1. owed'[j] # k /\ owed'[j] \in 1..MaxRequests
      BY <1>3, <1>4
    <3>2. answer[owed'[j]] = <<>>
      BY <1>2, <1>3 DEF OwnInv, Unanswered
    <3> QED
      BY <1>6, <3>1, <3>2
  <2> QED
    BY <2>1, <2>2 DEF Unanswered
<1>8. OwnReply'
  <2> SUFFICES ASSUME pc = "idle", sent > 0, ~late, ~cut,
                      ~(response = <<>> /\ ret)
               PROVE  answer'[sent] = answer[sent]
    BY <1>2 DEF OwnReply, OwnInv
  <2>1. answer[sent] # <<>> /\ sent \in 1..MaxRequests
    BY Lengths DEF OwnInv, OwnReply, TypeInv
  <2> QED
    BY <1>5, <1>6, <2>1
<1>9. Underway'
  <2> SUFFICES ASSUME pc # "idle", ~late, ~cut PROVE Underway'
    BY <1>2 DEF Underway
  <2>1. /\ sent > 0 /\ Len(owed) <= 1 /\ owed[1] = sent /\ (Intact \/ Spent)
        /\ ~ret => Len(answer[sent]) > 0
    BY <1>3 DEF OwnInv, Underway
  <2>2. Len(owed) = 1 /\ k = sent /\ Len(owed') = 0
    <3>1. Len(owed) >= 1
      BY <1>3
    <3> QED
      BY <1>2, <1>3, <2>1, <3>1
  <2>3. Len(answer[sent]) = 0
    BY <1>5, <2>2
  <2>4. Intact /\ ret
    BY <1>3, <2>1, <2>2, <2>3 DEF Spent, TypeInv, TypeOK
  <2>5. Len(buffer) = 0 /\ Len(stream) = 0
    <3>1. Len(buffer) + Len(stream) <= 0
      BY <2>3, <2>4 DEF Intact
    <3> QED
      BY <3>1, Lengths DEF TypeInv
  <2>6. pc \in {"readReply", "wait"} /\ pos = 0
    <3>1. ~(Len(buffer) > 0)
      BY <2>5
    <3> QED
      BY <2>4, <3>1 DEF Intact, TypeInv, TypeOK
  <2> DEFINE w == OnWire(k, text)
  <2>7. text \in Seq(Texts) /\ Len(text) \in Nat
    BY RedisAssumption, LenProperties
  <2>8. w \in Seq(Granule) /\ Len(w) = Len(text)
    BY <1>3, <2>7, OnWireType, OnWireAt
  <2> HIDE DEF w
  <2>9. Len(stream') = Len(text) /\ \A i \in 1..Len(stream') : stream'[i] = w[0 + i]
    <3>1. stream \in Seq(Granule) /\ stream' = stream \o w
      BY <1>1 DEF w, TypeInv, TypeOK
    <3>2. /\ Len(stream') = 0 + Len(w)
          /\ \A i \in 1..(0 + Len(w)) :
               stream'[i] = IF i <= 0 THEN stream[i] ELSE w[i - 0]
      BY <2>5, <2>8, <3>1, ConcatProperties
    <3>3. \A i \in 1..Len(w) : ~(i <= 0) /\ i - 0 = i /\ 0 + i = i
      BY <2>7, <2>8
    <3> QED
      BY <2>7, <2>8, <3>2, <3>3
  <2>10. answer'[sent'] = text
    BY <1>1, <1>2, <1>3, <1>5, <2>2
  <2>11. Intact'
    <3>1. Len(buffer') = 0 /\ pc' \in {"readReply", "wait"} /\ pos' = 0 /\ sent' = k
      BY <1>2, <2>2, <2>5, <2>6
    <3> QED
      BY <2>7, <2>9, <2>10, <3>1 DEF Intact, Prefix, CutWell, w
  <2>12. DOMAIN owed' = {}
    BY <1>2, <1>3, <2>2, LenProperties
  <2> QED
    BY <1>2, <2>1, <2>2, <2>4, <2>11, <2>12 DEF Underway
<1> QED
  BY <1>7, <1>8, <1>9 DEF OwnInv

\* The connection is opened, closed, lost or moved.
LEMMA OwnConnection ==
  ASSUME TypeInv, OwnInv, Open \/ Close \/ Disconnect \/ moveToThread
  PROVE  OwnInv'
<1>1. /\ UNCHANGED <<sent, answer, buffer, pos, pc, startpos, ret, response, arrays,
                     late, cut>>
      /\ owed' = owed \/ owed' = <<>>
  BY DEF Open, Close, Disconnect, moveToThread, bufferVars, requestVars
<1>2. \A j \in DOMAIN owed' : j \in DOMAIN owed /\ owed'[j] = owed[j]
  BY <1>1
<1>3. Unanswered'
  BY <1>1, <1>2 DEF OwnInv, Unanswered
<1>4. OwnReply'
  BY <1>1 DEF OwnInv, OwnReply
<1>5. Underway'
  <2> SUFFICES ASSUME pc # "idle", ~late, ~cut PROVE Underway'
    BY <1>1 DEF Underway
  <2>0. Disconnect
    BY DEF Open, Close, moveToThread
  <2>1. PICK n \in 0..Len(stream) : stream' = SubSeq(stream, 1, n)
    BY <2>0 DEF Disconnect
  <2>2. /\ Len(stream') = n /\ n <= Len(stream) /\ n \in Nat /\ Len(stream) \in Nat
        /\ \A i \in 1..n : stream'[i] = stream[i] /\ i \in 1..Len(stream)
    <3>1. stream \in Seq(Granule) /\ Len(stream) \in Nat /\ n \in Nat /\ n <= Len(stream)
          /\ 1 \in Nat \ {0}
      BY LenProperties DEF TypeInv, TypeOK
    <3>2. /\ Len(stream') = (IF 1 <= n THEN n - 1 + 1 ELSE 0)
          /\ \A i \in 1..(n - 1 + 1) : stream'[i] = stream[1 + i - 1]
      BY <2>1, <3>1, Part
    <3>3. (IF 1 <= n THEN n - 1 + 1 ELSE 0) = n
      BY <3>1
    <3>4. \A i \in 1..n : i \in 1..(n - 1 + 1) /\ 1 + i - 1 = i /\ i \in 1..Len(stream)
      BY <3>1
    <3> QED
      BY <3>1, <3>2, <3>3, <3>4
  <2>3. Len(owed') = 0
    BY <2>0 DEF Disconnect
  <2>4. CASE Intact
    <3>1. Len(buffer) + Len(stream') <= Len(answer[sent])
      <4>1. Len(buffer) + Len(stream) <= Len(answer[sent]) /\ sent > 0
        BY <2>4 DEF Intact, OwnInv, Underway
      <4> QED
        BY <2>2, <4>1, Lengths DEF TypeInv
    <3>2. Intact'
      BY <1>1, <2>2, <2>4, <3>1 DEF Intact, Prefix, CutWell
    <3> QED
      BY <1>1, <1>2, <2>3, <3>2 DEF OwnInv, Underway
  <2>5. CASE Spent
    <3>1. Len(stream') = 0
      BY <2>2, <2>5 DEF Spent
    <3>2. Spent'
      BY <1>1, <2>3, <2>5, <3>1 DEF Spent
    <3> QED
      BY <1>1, <1>2, <2>3, <3>2 DEF OwnInv, Underway
  <2> QED
    BY <2>4, <2>5 DEF OwnInv, Underway
<1> QED
  BY <1>3, <1>4, <1>5 DEF OwnInv

LEMMA OwnNext ==
  ASSUME RepliesWellFormed, TypeInv, OrderInv, OwnInv, [Next]_vars
  PROVE  OwnInv'
<1>1. CASE Parse
  BY <1>1, OwnParse
<1>2. CASE ReadClosed \/ ReadTimeout
  BY <1>2, OwnNoReply
<1>3. CASE BeginRead
  BY <1>3, OwnBeginRead
<1>4. CASE Read
  BY <1>4, OwnRead
<1>5. CASE Request
  BY <1>5, OwnRequest
<1>6. CASE Answer
  BY <1>6, OwnAnswer
<1>7. CASE Open \/ Close \/ Disconnect \/ moveToThread
  BY <1>7, OwnConnection
<1>8. CASE UNCHANGED vars
  BY <1>8 DEF OwnInv, Unanswered, Underway, Intact, Spent, Prefix, CutWell, OwnReply,
              vars, serverVars, bufferVars, requestVars
<1> QED
  BY <1>1, <1>2, <1>3, <1>4, <1>5, <1>6, <1>7, <1>8 DEF Next, Driver

\* When nothing was outstanding as a command was written and no read ended inside a
\* string, nor inside the reply with a stale startpos, request() returns the whole
\* reply to that command, element by element, with the right return value, or
\* nothing after a timeout or on a closed connection. Any replies of the protocol,
\* cut anywhere else, with arrays in arrays to any depth, after any past.
THEOREM SpecOwnReply ==
  ASSUME RepliesWellFormed
  PROVE  Spec => []OwnReply
<1>1. Init => TypeInv /\ OrderInv /\ OwnInv
  <2> SUFFICES ASSUME Init PROVE TypeInv /\ OrderInv /\ OwnInv
    OBVIOUS
  <2>1. TypeInv
    BY InitTypeOK, EmptySeq DEF Init, TypeInv, Values
  <2>2. /\ stream = <<>> /\ owed = <<>> /\ given = {} /\ pc = "idle" /\ sent = 0
        /\ \A m \in 1..MaxRequests : answer[m] = <<>>
    BY DEF Init
  <2>3. InOrder(stream, owed, sent) /\ Behind(given, stream, owed, sent)
    BY <2>2 DEF InOrder, Behind
  <2>4. OwnInv
    BY <2>2 DEF OwnInv, Unanswered, Underway, OwnReply
  <2> QED
    BY <2>1, <2>2, <2>3, <2>4 DEF OrderInv
<1>2. TypeInv /\ OrderInv /\ OwnInv /\ [Next]_vars => TypeInv' /\ OrderInv' /\ OwnInv'
  BY TypeNext, OrderNext, OwnNext
<1>3. OwnInv => OwnReply
  BY DEF OwnInv
<1> QED
  BY <1>1, <1>2, <1>3, PTL DEF Spec
=============================================================================
