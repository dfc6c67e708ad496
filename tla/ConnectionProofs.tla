--------------------------- MODULE ConnectionProofs --------------------------
(***************************************************************************)
(* Proofs about what a client speaks on a connection. RequestReader, for   *)
(* any requests in any pieces: no byte is executed twice, and a client     *)
(* that waits for its answers gets each of its requests executed whole.    *)
(* WebSocket, which the connection becomes after an upgrade, for any       *)
(* number of messages: its workers keep the websocket alive, and it is     *)
(* closed once, whoever begins. WebSocketReader, for any frames in any     *)
(* pieces: the parser is in step with the stream, and the endpoint gets    *)
(* the messages of an orderly client whole and in order.                   *)
(***************************************************************************)
EXTENDS RequestReader, WebSocket, WebSocketReader, FiniteSetTheorems, SequenceTheorems,
        WellFoundedInduction, TLAPS

(* HTTP: the inductive invariant, in named parts *)

\* Requests are only there to be executed, and lengthToRead is known only of a
\* request whose header is in the buffer.
Known ==
  /\ pc = "execute" <=> reqs # <<>>
  /\ pc = "generate" => long /\ window # 1
  /\ lengthToRead # -1 => headers(got) # {}

\* Bytes were read but not kept only behind a complete request.
Kept == held # got => lengthToRead = 0

\* Stretches of the stream between two positions, one behind the other.
Slices(s, from, to) ==
  /\ \A i \in DOMAIN s : from <= s[i].start /\ s[i].stop <= to
  /\ \A i, j \in DOMAIN s : i < j => s[i].stop <= s[j].start

Behind ==
  ~long =>
    /\ Slices(answered, 0, start) /\ Slices(reqs, 0, start)
    /\ \A i \in DOMAIN answered, j \in DOMAIN reqs : answered[i].stop <= reqs[j].start

\* If the client waits: the request after the n answered ones is in the buffer as
\* far as it was written, or it is cut, and then nothing else was written.
Reading(n) ==
  /\ start = end[n]
  /\ lengthToRead # -1 =>
       n < Count /\ HeaderEnd(n + 1) <= got /\ lengthToRead = bodyEnd(n + 1) - got
Executing(n) ==
  /\ n < Count /\ Len(reqs) = 1 /\ reqs[1] = Whole(n + 1)
  /\ start = end[n + 1] /\ got = start /\ wrote = start /\ lengthToRead = -1

Waits ==
  window = 1 =>
    /\ Len(answered) <= Count /\ wrote <= mayWrite
    /\ \A i \in DOMAIN answered : answered[i] = Whole(i)
    /\ IF reqs = <<>> THEN Reading(Len(answered)) ELSE Executing(Len(answered))

HttpInv == HttpTypeOK /\ Known /\ Kept /\ Behind /\ Waits

-----------------------------------------------------------------------------
(* Positions *)

LEMMA Ends ==
  /\ Count \in Nat /\ Size \in Nat
  /\ \A q \in 0..Count : end[q] \in 0..Size
  /\ \A q, r \in 0..Count : q <= r => end[q] <= end[r]
  /\ \A r \in Requests : /\ r - 1 \in 0..Count /\ r \in 0..Count
                         /\ HeaderEnd(r) = end[r - 1] + 2 /\ HeaderEnd(r) <= end[r]
                         /\ HeaderEnd(r) \in 0..Size
<1>1. Count \in Nat /\ \A q \in 0..Count : end[q] \in Nat
  BY ReaderAssumption
<1>2. \A q, r \in 0..Count : q <= r => end[q] <= end[r]
  <2> SUFFICES ASSUME NEW q \in 0..Count, NEW r \in 0..Count, q <= r
               PROVE  end[q] <= end[r]
    OBVIOUS
  <2>1. CASE q < r
    <3>1. end[q] + 2 <= end[r]
      BY <2>1, ReaderAssumption
    <3> QED
      BY <1>1, <3>1
  <2>2. CASE q = r
    BY <1>1, <2>2
  <2> QED
    BY <2>1, <2>2
<1>3. \A q \in 0..Count : end[q] \in 0..Size
  BY <1>1, <1>2 DEF Size
<1>4. \A r \in Requests : /\ r - 1 \in 0..Count /\ r \in 0..Count
                          /\ HeaderEnd(r) = end[r - 1] + 2 /\ HeaderEnd(r) <= end[r]
  BY <1>1, ReaderAssumption DEF Requests, HeaderEnd
<1> QED
  BY <1>1, <1>2, <1>3, <1>4 DEF Size

LEMMA BodyEnd ==
  ASSUME HttpTypeOK, NEW r \in Requests
  PROVE  /\ bodyEnd(r) \in 0..Size + 1 /\ bodyEnd(r) >= end[r]
         /\ bodyEnd(r) # end[r] => bodyEnd(r) = Size + 1
BY Ends DEF bodyEnd, HttpTypeOK

LEMMA HeaderOrder ==
  ASSUME NEW q \in Requests, NEW r \in Requests, q <= r
  PROVE  HeaderEnd(q) <= HeaderEnd(r)
<1>1. q - 1 \in 0..Count /\ r - 1 \in 0..Count /\ q - 1 <= r - 1
  BY Ends DEF Requests
<1>2. end[q - 1] <= end[r - 1] /\ end[q - 1] \in 0..Size /\ end[r - 1] \in 0..Size /\ Size \in Nat
  BY <1>1, Ends
<1> QED
  BY <1>2 DEF HeaderEnd

LEMMA LeastOf ==
  ASSUME NEW T \in SUBSET Nat, T # {}
  PROVE  \E x \in T : \A y \in T : x <= y
<1> DEFINE R == OpToRel(<, Nat)
<1>1. IsWellFoundedOn(R, Nat)
  BY NatLessThanWellFounded DEF R
<1>2. PICK x \in T : \A y \in T : ~(<<y, x>> \in R)
  <2> HIDE DEF R
  <2> QED
    BY <1>1, WFMin
<1>3. \A y \in T : ~(y < x)
  BY <1>2 DEF OpToRel
<1> QED
  BY <1>3

LEMMA Headers ==
  ASSUME NEW to \in Nat, headers(to) # {}
  PROVE  /\ firstHeader(to) \in headers(to)
         /\ lastHeader(to) \in headers(to)
         /\ \A r \in headers(to) : firstHeader(to) <= r /\ r <= lastHeader(to)
<1>1. headers(to) \subseteq Requests /\ Requests \subseteq Nat /\ Count \in Nat
  BY Ends DEF headers, Requests
<1>2. \E r \in headers(to) : \A q \in headers(to) : r <= q
  BY <1>1, LeastOf
<1>3. \E r \in headers(to) : \A q \in headers(to) : q <= r
  <2> DEFINE T == {Count - r : r \in headers(to)}
  <2>1. T \in SUBSET Nat /\ T # {}
    BY <1>1 DEF Requests
  <2>2. PICK x \in T : \A y \in T : x <= y
    BY <2>1, LeastOf
  <2>3. PICK r \in headers(to) : x = Count - r
    BY <2>2
  <2>4. \A q \in headers(to) : Count - r <= Count - q
    BY <2>2, <2>3
  <2> QED
    BY <1>1, <2>4 DEF Requests
<1> QED
  BY <1>2, <1>3 DEF firstHeader, lastHeader

LEMMA Missing ==
  ASSUME HttpTypeOK, NEW to \in 0..Size
  PROVE  /\ missing(to) \in -1..Size + 1
         /\ missing(to) # -1 => headers(to) # {}
<1>1. CASE headers(to) = {}
  BY <1>1, Ends DEF missing
<1>2. CASE headers(to) # {}
  <2>1. firstHeader(to) \in Requests
    BY <1>2, Headers, Ends DEF headers
  <2>2. bodyEnd(firstHeader(to)) \in 0..Size + 1 /\ Size \in Nat
    BY <2>1, BodyEnd, Ends
  <2> QED
    BY <1>2, <2>2 DEF missing, Most
<1> QED
  BY <1>1, <1>2

\* More bytes: no header goes, and what is missing is known if it was.
LEMMA Remaining ==
  ASSUME HttpTypeOK, Known, NEW to \in got..wrote
  PROVE  /\ remaining(to) \in -1..Size + 1
         /\ remaining(to) # -1 => headers(to) # {}
<1>1. /\ got \in Nat /\ to \in 0..Size /\ got <= to /\ lengthToRead \in -1..Size + 1
      /\ Size \in Nat
  BY Ends DEF HttpTypeOK
<1>2. headers(got) \subseteq headers(to)
  BY <1>1, Ends DEF headers
<1>3. CASE lengthToRead < 0
  BY <1>1, <1>3, Missing DEF remaining
<1>4. CASE lengthToRead >= 0
  BY <1>1, <1>2, <1>4 DEF remaining, Known, Most
<1> QED
  BY <1>1, <1>3, <1>4

-----------------------------------------------------------------------------
(* What is cut *)

LEMMA CutOne ==
  ASSUME HttpTypeOK, headers(got) # {}, NEW r \in firstHeader(got)..lastHeader(got)
  PROVE  /\ r \in Requests /\ cut(r, got) \in Cut
         /\ start <= cut(r, got).start /\ cut(r, got).stop <= got
<1> DEFINE first == firstHeader(got)
<1>1. got \in 0..Size /\ start \in 0..Size /\ Size \in Nat
  BY Ends DEF HttpTypeOK
<1>2. /\ first \in Requests /\ lastHeader(got) \in Requests
      /\ start < HeaderEnd(first)
  BY <1>1, Headers DEF headers
<1>3. first \in Nat /\ r \in Requests
  BY <1>2, Ends DEF Requests
<1>4. /\ r - 1 \in 0..Count /\ end[r - 1] \in 0..Size /\ end[r] \in 0..Size
      /\ HeaderEnd(r) \in 0..Size
  BY <1>3, Ends
<1> HIDE DEF first
<1>5. r = first \/ start <= end[r - 1]
  <2> SUFFICES ASSUME r # first PROVE start <= end[r - 1]
    OBVIOUS
  <2>1. first <= r - 1 /\ first \in 0..Count
    BY <1>2, <1>3, Ends DEF first
  <2>2. end[first] <= end[r - 1]
    BY <1>4, <2>1, Ends
  <2>3. HeaderEnd(first) <= end[first] /\ HeaderEnd(first) \in 0..Size /\ end[first] \in 0..Size
    BY <1>2, <2>1, Ends
  <2> QED
    BY <1>1, <1>2, <1>4, <2>2, <2>3
<1>6. HeaderEnd(r) <= got
  <2>1. r <= lastHeader(got) /\ lastHeader(got) \in 0..Count
    BY <1>2, <1>3, Ends DEF first, Requests
  <2>2. HeaderEnd(r) <= HeaderEnd(lastHeader(got))
    BY <1>2, <1>3, <2>1, HeaderOrder
  <2>3. HeaderEnd(lastHeader(got)) <= got /\ HeaderEnd(lastHeader(got)) \in 0..Size
    BY <1>1, <1>2, Headers, Ends DEF headers
  <2> QED
    BY <1>1, <1>4, <2>2, <2>3
<1>7. /\ cut(r, got).start = IF r = first THEN start ELSE end[r - 1]
      /\ cut(r, got).stop \in {HeaderEnd(r), Least(end[r], got)}
      /\ cut(r, got) = [start |-> cut(r, got).start, head |-> HeaderEnd(r),
                        stop |-> cut(r, got).stop]
  BY DEF cut, first
<1>8. /\ Least(end[r], got) \in 0..Size /\ Least(end[r], got) <= got
  BY <1>1, <1>4 DEF Least
<1>9. cut(r, got).stop \in 0..Size /\ cut(r, got).stop <= got
  BY <1>4, <1>6, <1>7, <1>8
<1>10. cut(r, got).start \in 0..Size /\ start <= cut(r, got).start
  BY <1>1, <1>4, <1>5, <1>7
<1>11. cut(r, got) \in Cut
  BY <1>4, <1>7, <1>9, <1>10 DEF Cut
<1> QED
  BY <1>3, <1>9, <1>10, <1>11

LEMMA CutTwo ==
  ASSUME HttpTypeOK, headers(got) # {},
         NEW q \in firstHeader(got)..lastHeader(got),
         NEW r \in firstHeader(got)..lastHeader(got), q < r
  PROVE  cut(q, got).stop <= cut(r, got).start
<1>1. firstHeader(got) \in Int /\ q \in Requests /\ r \in Requests /\ got \in 0..Size
  BY SMTT(60), CutOne, Headers, Ends DEF HttpTypeOK, headers, Requests
<1>2. q \in 0..Count /\ r - 1 \in 0..Count /\ q <= r - 1 /\ r # firstHeader(got)
  BY <1>1, Ends DEF Requests
<1>3. end[q] <= end[r - 1] /\ end[q] \in 0..Size /\ end[r - 1] \in 0..Size /\ Size \in Nat
  BY <1>2, Ends
<1>4. cut(q, got).stop = Least(end[q], got) /\ cut(r, got).start = end[r - 1]
  BY <1>1, <1>2, Ends DEF cut, Requests
<1> QED
  BY <1>1, <1>3, <1>4 DEF Least

LEMMA Generate ==
  ASSUME HttpTypeOK, headers(got) # {}
  PROVE  /\ generate(got) \in Seq(Cut) /\ generate(got) # <<>>
         /\ Slices(generate(got), start, got)
<1> DEFINE first == firstHeader(got)
           n == lastHeader(got) - firstHeader(got) + 1
           g == generate(got)
<1>1. first \in Int /\ lastHeader(got) \in Int /\ n \in Nat \ {0}
  <2>1. got \in Nat
    BY Ends DEF HttpTypeOK
  <2>2. /\ first \in headers(got) /\ lastHeader(got) \in headers(got)
        /\ first <= lastHeader(got)
    BY <2>1, Headers
  <2>3. headers(got) \subseteq Int
    BY Ends DEF headers, Requests
  <2> HIDE DEF first
  <2> QED
    BY <2>2, <2>3 DEF first
<1>2. \A i \in 1..n : first + i - 1 \in first..lastHeader(got)
  BY <1>1
<1>3. g = [i \in 1..n |-> cut(first + i - 1, got)]
  BY DEF generate
<1>4. DOMAIN g = 1..n /\ \A i \in 1..n : g[i] = cut(first + i - 1, got)
  BY <1>3
<1>5. \A i \in 1..n : g[i] \in Cut /\ start <= g[i].start /\ g[i].stop <= got
  BY <1>2, <1>4, CutOne
<1> HIDE DEF first, n, g
<1>6. g \in Seq(Cut) /\ g # <<>>
  <2>1. g \in [1..n -> Cut]
    BY <1>3, <1>4, <1>5
  <2> QED
    BY <1>1, <1>4, <2>1
<1>7. \A i, j \in DOMAIN g : i < j => g[i].stop <= g[j].start
  <2> SUFFICES ASSUME NEW i \in DOMAIN g, NEW j \in DOMAIN g, i < j
               PROVE  g[i].stop <= g[j].start
    OBVIOUS
  <2>1. first + i - 1 < first + j - 1
    BY <1>1, <1>4
  <2> QED
    BY <1>2, <1>4, <2>1, CutTwo DEF first
<1> QED
  BY <1>4, <1>5, <1>6, <1>7 DEF Slices, g

\* What generate() may cut once more.
LEMMA Again ==
  ASSUME HttpTypeOK, headers(got) # {}, NEW s \in again(got)
  PROVE  s \in Seq(Cut) /\ (~long => s = <<>>)
<1>1. /\ got \in 0..Size /\ start \in 0..Size /\ Size \in Nat /\ Count \in Nat
  BY Ends DEF HttpTypeOK
<1>2. firstHeader(got) \in Requests
  BY <1>1, Headers DEF headers
<1>3. HeaderEnd(firstHeader(got)) \in 0..Size
  BY <1>2, Ends
<1>4. CASE ~overflows(got)
  BY <1>4 DEF again
<1>5. CASE overflows(got)
  <2>1. Count \in Requests /\ long
    BY <1>5 DEF overflows, headers
  <2>2. HeaderEnd(Count) \in 0..Size /\ HeaderEnd(Count) - 1 \in 0..Size
    BY <1>1, <2>1, Ends
  <2>3. lastAgain \in Cut
    BY <2>2 DEF lastAgain, Cut
  <2>4. end[firstHeader(got)] \in 0..Size /\ HeaderEnd(firstHeader(got)) <= end[firstHeader(got)]
    BY <1>2, Ends
  <2>5. Least(HeaderEnd(Count) + end[firstHeader(got)] - HeaderEnd(firstHeader(got)), got)
          \in 0..Size
    BY <1>1, <1>3, <2>2, <2>4 DEF Least
  <2>6. firstAgain(got) \in Cut
    BY <1>1, <1>3, <2>5 DEF firstAgain, Cut
  <2>7. s = <<>> \/ s = <<lastAgain>> \/ s = <<firstAgain(got)>>
    BY <1>5 DEF again
  <2>8. <<lastAgain>> \in Seq(Cut)
    BY <2>3
  <2>9. <<firstAgain(got)>> \in Seq(Cut)
    BY <2>6
  <2>10. <<>> \in Seq(Cut)
    OBVIOUS
  <2>11. s \in Seq(Cut)
    BY ZenonT(60), <2>7, <2>8, <2>9, <2>10
  <2> QED
    BY <2>1, <2>11
<1> QED
  BY <1>4, <1>5

LEMMA Single ==
  ASSUME HttpTypeOK, headers(got) # {}
  PROVE  /\ single(got) \in Seq(Cut) /\ single(got) # <<>>
         /\ Slices(single(got), start, got)
<1>1. /\ got \in 0..Size /\ start \in 0..Size /\ Size \in Nat
  BY Ends DEF HttpTypeOK
<1>2. firstHeader(got) \in Requests
  BY <1>1, Headers DEF headers
<1>3. HeaderEnd(firstHeader(got)) \in 0..Size
  BY <1>2, Ends
<1> DEFINE c == [start |-> start, head |-> HeaderEnd(firstHeader(got)), stop |-> got]
<1>4. c \in Cut /\ c.start = start /\ c.stop = got
  BY <1>1, <1>3 DEF Cut
<1>5. single(got) = <<c>>
  BY DEF single
<1> HIDE DEF c
<1> QED
  BY <1>1, <1>4, <1>5 DEF Slices
-----------------------------------------------------------------------------
(* A client that waits *)

LEMMA MayWrite ==
  ASSUME Len(answered) \in Nat, Len(answered) <= Count, window = 1
  PROVE  mayWrite = IF Len(answered) = Count THEN end[Count] ELSE end[Len(answered) + 1]
BY Ends DEF mayWrite

\* Only the header of the next request can be in the buffer.
LEMMA OnlyNext ==
  ASSUME HttpTypeOK, window = 1, NEW n \in 0..Count, n = Len(answered), start = end[n],
         NEW to \in Nat, to <= mayWrite
  PROVE  /\ headers(to) # {} => n < Count /\ headers(to) = {n + 1}
         /\ headers(to) # {} => firstHeader(to) = n + 1 /\ lastHeader(to) = n + 1
<1>1. mayWrite = IF n = Count THEN end[Count] ELSE end[n + 1]
  BY MayWrite, Ends
<1>2. ASSUME NEW r \in headers(to) PROVE n < Count /\ r = n + 1
  <2>1. /\ r \in Requests /\ r - 1 \in 0..Count /\ r \in 0..Count
        /\ start < end[r - 1] + 2 /\ end[r - 1] + 2 <= to /\ end[r - 1] + 2 <= end[r]
        /\ end[r - 1] \in Nat /\ end[r] \in Nat
    BY SMTT(60), <1>2, Ends DEF headers
  <2>2. ~(r <= n)
    <3> SUFFICES ASSUME r <= n PROVE FALSE
      OBVIOUS
    <3>1. end[r] <= end[n] /\ end[n] \in Nat
      BY <2>1, Ends
    <3> QED
      BY <2>1, <3>1
  <2>3. n < Count /\ n + 1 \in 0..Count /\ Count \in Nat
    BY <2>1, <2>2, Ends
  <2>4. ~(n + 1 < r)
    <3> SUFFICES ASSUME n + 1 < r PROVE FALSE
      OBVIOUS
    <3>1. end[n + 1] <= end[r - 1] /\ end[n + 1] \in Nat
      BY SMTT(60), <2>1, <2>3, Ends
    <3> QED
      BY <1>1, <2>1, <2>3, <3>1
  <2> QED
    BY <2>1, <2>2, <2>3, <2>4
<1>3. headers(to) # {} => n < Count /\ headers(to) = {n + 1}
  BY <1>2
<1> QED
  BY <1>3, Headers

\* New bytes of the request that is read.
LEMMA ReadingOn ==
  ASSUME HttpTypeOK, window = 1, NEW n \in 0..Count, n = Len(answered), Reading(n),
         wrote <= mayWrite, NEW to \in got..wrote, remaining(to) # -1
  PROVE  n < Count /\ HeaderEnd(n + 1) <= to /\ remaining(to) = bodyEnd(n + 1) - to
<1>1. /\ to \in Nat /\ got \in Nat /\ got <= to /\ wrote \in Nat /\ to <= mayWrite
      /\ start = end[n] /\ mayWrite \in Nat /\ Count \in Nat /\ lengthToRead \in Int
      /\ lengthToRead >= -1
  <2>1. mayWrite = IF n = Count THEN end[Count] ELSE end[n + 1]
    BY MayWrite, Ends
  <2>2. n \in 0..Count /\ Count \in Nat /\ (n # Count => n + 1 \in 0..Count)
    BY Ends
  <2>3. mayWrite \in Nat
    BY <2>1, <2>2, Ends
  <2>4. wrote \in Nat /\ got \in Nat /\ lengthToRead \in Int /\ lengthToRead >= -1
    BY Ends DEF HttpTypeOK
  <2> QED
    BY <2>2, <2>3, <2>4 DEF Reading
<1>2. n < Count => /\ n + 1 \in Requests /\ bodyEnd(n + 1) \in Nat /\ to <= bodyEnd(n + 1)
                   /\ HeaderEnd(n + 1) \in Nat
  <2> SUFFICES ASSUME n < Count
               PROVE  /\ n + 1 \in Requests /\ bodyEnd(n + 1) \in Nat /\ to <= bodyEnd(n + 1)
                      /\ HeaderEnd(n + 1) \in Nat
    OBVIOUS
  <2>1. n + 1 \in Requests /\ end[n + 1] \in Nat /\ to <= end[n + 1] /\ HeaderEnd(n + 1) \in Nat
    BY SMTT(60), <1>1, MayWrite, Ends DEF Requests
  <2>2. bodyEnd(n + 1) \in 0..Size + 1 /\ bodyEnd(n + 1) >= end[n + 1] /\ Size \in Nat
    BY <2>1, BodyEnd, Ends
  <2> QED
    BY <1>1, <2>1, <2>2
<1>3. CASE lengthToRead = -1
  <2>1. remaining(to) = missing(to) /\ headers(to) # {}
    BY <1>3 DEF remaining, missing
  <2>2. n < Count /\ firstHeader(to) = n + 1 /\ n + 1 \in headers(to)
    BY <1>1, <2>1, OnlyNext
  <2>3. missing(to) = Most(bodyEnd(n + 1) - to, 0)
    BY <2>1, <2>2 DEF missing
  <2> QED
    BY <1>1, <1>2, <2>1, <2>2, <2>3 DEF Most, headers
<1>4. CASE lengthToRead # -1
  <2>1. n < Count /\ HeaderEnd(n + 1) <= got /\ lengthToRead = bodyEnd(n + 1) - got
    BY <1>4 DEF Reading
  <2>2. remaining(to) = Most(lengthToRead - (to - got), 0)
    BY <1>1, <1>4 DEF remaining
  <2> QED
    BY SMTT(60), <1>1, <1>2, <2>1, <2>2 DEF Most
<1> QED
  BY <1>3, <1>4

\* The request that is cut is the next one, whole.
LEMMA CutWhole ==
  ASSUME HttpTypeOK, window = 1, NEW n \in 0..Count, n = Len(answered), Reading(n),
         wrote <= mayWrite, lengthToRead = 0, headers(got) # {}
  PROVE  /\ n < Count /\ got = end[n + 1] /\ wrote = got
         /\ Len(generate(got)) = 1 /\ generate(got)[1] = Whole(n + 1)
         /\ Len(single(got)) = 1 /\ single(got)[1] = Whole(n + 1)
         /\ ~overflows(got)
<1>1. /\ n < Count /\ got = end[n + 1] /\ start = end[n] /\ wrote \in Nat /\ got \in Nat
      /\ ~(long /\ n + 1 = Count)
  <2>1. /\ n < Count /\ n + 1 \in Requests /\ lengthToRead = bodyEnd(n + 1) - got
        /\ start = end[n]
    BY Ends DEF Reading, Requests
  <2>2. wrote \in Nat /\ got \in Nat /\ got <= Size /\ Size \in Nat
    BY <2>1, Ends DEF HttpTypeOK
  <2>3. bodyEnd(n + 1) = got
    BY <2>1, <2>2, BodyEnd
  <2>4. bodyEnd(n + 1) # Size + 1
    BY <2>2, <2>3
  <2> QED
    BY <2>1, <2>2, <2>3, <2>4 DEF bodyEnd
<1>2. mayWrite = end[n + 1] /\ n \in Nat /\ n + 1 - 1 = n
  BY <1>1, MayWrite, Ends
<1>3. wrote = got
  BY <1>1, <1>2 DEF HttpTypeOK
<1>4. firstHeader(got) = n + 1 /\ lastHeader(got) = n + 1
  BY <1>1, <1>2, OnlyNext
<1>5. /\ cut(n + 1, got) = Whole(n + 1)
      /\ single(got) = <<Whole(n + 1)>> /\ ~overflows(got)
  BY <1>1, <1>2, <1>4, OnlyNext DEF cut, Whole, single, Least, overflows
<1>6. generate(got) = [i \in 1..1 |-> cut(n + 1 + i - 1, got)]
  BY <1>2, <1>4 DEF generate
<1>7. Len(generate(got)) = 1 /\ generate(got)[1] = Whole(n + 1)
  <2>1. DOMAIN generate(got) = 1..1 /\ generate(got)[1] = cut(n + 1, got)
    BY <1>2, <1>6
  <2>2. generate(got) \in Seq(Cut)
    BY Generate
  <2> QED
    BY <1>5, <2>1, <2>2
<1> QED
  BY <1>1, <1>3, <1>5, <1>7
-----------------------------------------------------------------------------
LEMMA HttpInitIInv == HttpInit => HttpInv
<1> SUFFICES ASSUME HttpInit PROVE HttpInv
  OBVIOUS
<1> USE DEF HttpInit
<1>1. HttpTypeOK
  BY Ends DEF HttpTypeOK
<1>2. Known /\ Kept /\ Behind
  BY DEF Known, Kept, Behind, Slices
<1>3. Waits
  <2>1. Len(answered) = 0 /\ 0 \in 0..Count /\ end[0] = 0 /\ Count \in Nat
    BY Ends, ReaderAssumption
  <2>2. window = 1 => mayWrite \in Nat
    BY <2>1, MayWrite, Ends
  <2> QED
    BY <2>1, <2>2 DEF Waits, Reading
<1> QED
  BY <1>1, <1>2, <1>3 DEF HttpInv

LEMMA HttpWriteIInv == ASSUME HttpInv, Write PROVE HttpInv'
<1> USE DEF HttpInv, Write, settings, buffer
<1>1. wrote \in Nat /\ wrote' \in Nat /\ wrote < wrote' /\ wrote' <= mayWrite
  <2>1. wrote \in Nat
    BY Ends DEF HttpTypeOK
  <2>2. Len(answered) \in Nat /\ window \in Nat \ {0} /\ Count \in Nat
    BY ReaderAssumption DEF HttpTypeOK
  <2>3. mayWrite \in 0..Size
    BY <2>2, Ends DEF mayWrite
  <2> QED
    BY <2>1, <2>3
<1>2. mayWrite \in 0..Size
  <2>1. Len(answered) \in Nat /\ window \in Nat \ {0} /\ Count \in Nat
    BY ReaderAssumption DEF HttpTypeOK
  <2> QED
    BY <2>1, Ends DEF mayWrite
<1>3. HttpTypeOK'
  BY <1>1, <1>2, Ends DEF HttpTypeOK
<1>4. Known' /\ Kept' /\ Behind'
  BY DEF Known, Kept, Behind, headers
<1>5. Waits'
  <2> SUFFICES ASSUME window = 1 PROVE Waits'
    BY DEF Waits
  <2> DEFINE n == Len(answered)
  <2>1. mayWrite' = mayWrite
    BY DEF mayWrite
  <2>2. CASE reqs = <<>>
    BY <1>1, <2>1, <2>2 DEF Waits, Reading, bodyEnd
  <2>3. CASE reqs # <<>>
    <3>1. n < Count /\ wrote = end[n + 1] /\ n \in Nat
      BY <2>3 DEF Waits, Executing, HttpTypeOK
    <3>2. mayWrite = end[n + 1]
      BY <3>1, MayWrite, Ends
    <3> QED
      BY <1>1, <3>1, <3>2
  <2> QED
    BY <2>2, <2>3
<1> QED
  BY <1>3, <1>4, <1>5

\* More bytes come to the buffer.
LEMMA HttpBytesIInv ==
  ASSUME HttpInv, NEW to \in got..wrote, got < wrote, got' = to,
         held' = to, lengthToRead' = remaining(to),
         pc' \in {"read", "recv", "execute"}, pc' = "execute" <=> pc = "execute",
         UNCHANGED <<settings, wrote, start, reqs, answered>>
  PROVE  HttpInv'
<1> USE DEF HttpInv, settings
<1>1. /\ wrote \in 0..Size /\ got \in Nat /\ start \in 0..got /\ to \in Nat /\ got <= to
      /\ Size \in Nat /\ to <= wrote
  BY Ends DEF HttpTypeOK
<1>2. remaining(to) \in -1..Size + 1 /\ (remaining(to) # -1 => headers(to) # {})
  BY Remaining
<1>3. HttpTypeOK'
  BY <1>1, <1>2 DEF HttpTypeOK
<1>4. Known' /\ Kept'
  BY <1>2 DEF Known, Kept, headers
<1>5. Behind'
  BY DEF Behind
<1>6. Waits'
  <2> SUFFICES ASSUME window = 1 PROVE Waits'
    BY DEF Waits
  <2>1. mayWrite' = mayWrite
    BY DEF mayWrite
  <2>2. reqs = <<>> /\ Reading(Len(answered)) /\ wrote <= mayWrite /\ Len(answered) <= Count
    BY <1>1 DEF Waits, Executing
  <2>3. Len(answered) \in 0..Count
    BY <2>2, Ends DEF HttpTypeOK
  <2>4. remaining(to) # -1 =>
          /\ Len(answered) < Count /\ HeaderEnd(Len(answered) + 1) <= to
          /\ remaining(to) = bodyEnd(Len(answered) + 1) - to
    BY <2>2, <2>3, ReadingOn
  <2>5. Reading(Len(answered))'
    BY <2>2, <2>4 DEF Reading, HeaderEnd, bodyEnd
  <2> QED
    BY <2>1, <2>2, <2>5 DEF Waits
<1> QED
  BY <1>3, <1>4, <1>5, <1>6

\* Other steps that only move the program counter or lose bytes.
LEMMA HttpIdleIInv ==
  ASSUME HttpInv, held' \in got..wrote, held' # got => lengthToRead = 0,
         pc' = pc \/ pc' \in {"read", "recv", "next", "closed"},
         pc' = "execute" <=> pc = "execute",
         UNCHANGED <<settings, wrote, got, start, lengthToRead, reqs, answered>>
  PROVE  HttpInv'
<1> USE DEF HttpInv, settings
<1>1. HttpTypeOK'
  BY Ends DEF HttpTypeOK
<1>2. Known' /\ Kept' /\ Behind'
  BY DEF Known, Kept, Behind, headers
<1>3. Waits'
  BY DEF Waits, Reading, Executing, mayWrite, bodyEnd
<1> QED
  BY <1>1, <1>2, <1>3

LEMMA HttpReadSlotIInv ==
  ASSUME HttpInv, readSlot, pc' = IF pc = "execute" THEN pc ELSE "read"
  PROVE  HttpInv'
<1> USE DEF readSlot
<1>1. /\ held \in Nat /\ got \in Nat /\ wrote \in Nat /\ got <= held /\ held < wrote
      /\ held' \in got..wrote /\ got < wrote
  BY Ends DEF HttpInv, HttpTypeOK, Kept
<1>2. pc' \in {"read", "execute"} /\ (pc' = "execute" <=> pc = "execute")
  OBVIOUS
<1>3. CASE lengthToRead = 0
  BY <1>1, <1>2, <1>3, HttpIdleIInv
<1>4. CASE lengthToRead # 0
  BY <1>1, <1>2, <1>4, HttpBytesIInv
<1> QED
  BY <1>3, <1>4

\* Requests are cut from the buffer, when one is complete.
LEMMA HttpCutIInv ==
  ASSUME HttpInv, pc # "execute", lengthToRead = 0, clear, pc' = "execute",
         \/ reqs' = single(got)
         \/ \E s \in again(got) : reqs' = generate(got) \o s,
         UNCHANGED <<settings, wrote, held, answered>>
  PROVE  HttpInv'
<1> USE DEF HttpInv, settings, clear
<1>1. reqs = <<>> /\ headers(got) # {} /\ HttpTypeOK
  BY DEF Known
<1>2. /\ reqs' \in Seq(Cut) /\ reqs' # <<>>
      /\ ~overflows(got) => reqs' \in {generate(got), single(got)}
      /\ ~long => Slices(reqs', start, got)
  <2>1. CASE reqs' = single(got)
    BY <1>1, <2>1, Single
  <2>2. CASE \E s \in again(got) : reqs' = generate(got) \o s
    <3>1. PICK s \in again(got) : reqs' = generate(got) \o s
      BY <2>2
    <3>2. s \in Seq(Cut) /\ (~long => s = <<>>) /\ (~overflows(got) => s = <<>>)
      BY <1>1, Again DEF again
    <3>3. generate(got) \in Seq(Cut) /\ generate(got) # <<>> /\ Slices(generate(got), start, got)
      BY <1>1, Generate
    <3>4. generate(got) \o s \in Seq(Cut) /\ generate(got) \o s # <<>>
      BY <3>2, <3>3
    <3>5. s = <<>> => generate(got) \o s = generate(got)
      BY <3>3
    <3> QED
      BY <3>1, <3>2, <3>3, <3>4, <3>5
  <2> QED
    BY <2>1, <2>2
<1>3. HttpTypeOK'
  BY <1>2, Ends DEF HttpTypeOK
<1>4. Known' /\ Kept'
  BY <1>2 DEF Known, Kept
<1>5. Behind'
  <2> SUFFICES ASSUME ~long PROVE Behind'
    BY DEF Behind
  <2>1. start \in Nat /\ got \in Nat /\ start <= got /\ held \in Nat /\ got <= held
    BY Ends DEF HttpTypeOK
  <2>2. \A i \in DOMAIN answered : answered[i] \in Cut
    BY DEF HttpTypeOK
  <2>3. \A i \in DOMAIN answered :
          /\ 0 <= answered[i].start /\ answered[i].stop <= start
          /\ answered[i].stop \in Nat
    BY <2>2, Ends DEF Behind, Slices, Cut
  <2>4. \A j \in DOMAIN reqs' :
          /\ reqs'[j].start \in Nat /\ start <= reqs'[j].start
          /\ reqs'[j].stop \in Nat /\ reqs'[j].stop <= got
    <3>1. \A j \in DOMAIN reqs' : reqs'[j] \in Cut
      BY <1>2
    <3>2. \A j \in DOMAIN reqs' : reqs'[j].start \in Nat /\ reqs'[j].stop \in Nat
      BY <3>1, Ends DEF Cut
    <3>3. \A j \in DOMAIN reqs' : start <= reqs'[j].start /\ reqs'[j].stop <= got
      BY <1>2 DEF Slices
    <3> QED
      BY <3>2, <3>3
  <2>5. Slices(answered, 0, held)
    BY <2>1, <2>3 DEF Behind, Slices
  <2>6. Slices(reqs', 0, held)
    BY <1>2, <2>1, <2>4 DEF Slices
  <2>7. \A i \in DOMAIN answered, j \in DOMAIN reqs' : answered[i].stop <= reqs'[j].start
    BY <2>1, <2>3, <2>4
  <2> QED
    BY <2>5, <2>6, <2>7 DEF Behind, Slices
<1>6. Waits'
  <2> SUFFICES ASSUME window = 1 PROVE Waits'
    BY DEF Waits
  <2>1. /\ Reading(Len(answered)) /\ wrote <= mayWrite /\ Len(answered) \in 0..Count
        /\ mayWrite' = mayWrite
    BY <1>1, Ends DEF Waits, HttpTypeOK, mayWrite
  <2>2. /\ Len(answered) < Count /\ got = end[Len(answered) + 1] /\ wrote = got
        /\ Len(reqs') = 1 /\ reqs'[1] = Whole(Len(answered) + 1)
    BY <1>1, <1>2, <2>1, CutWhole
  <2>3. held = got
    BY <2>2, Ends DEF HttpTypeOK
  <2>4. Executing(Len(answered))'
    BY <2>2, <2>3 DEF Executing, Whole, HeaderEnd
  <2> QED
    BY <1>1, <1>2, <2>1, <2>4 DEF Waits
<1> QED
  BY <1>3, <1>4, <1>5, <1>6

\* generate() never returns: not with a client that waits.
LEMMA HttpForeverIInv ==
  ASSUME HttpInv, pc # "execute", lengthToRead = 0, clear, pc' = "generate", overflows(got),
         UNCHANGED <<settings, wrote, held, reqs, answered>>
  PROVE  HttpInv'
<1> USE DEF HttpInv, settings, clear
<1>1. reqs = <<>> /\ headers(got) # {} /\ HttpTypeOK /\ long
  BY DEF Known, overflows
<1>2. window # 1
  <2> SUFFICES ASSUME window = 1 PROVE FALSE
    OBVIOUS
  <2>1. /\ Reading(Len(answered)) /\ wrote <= mayWrite /\ Len(answered) \in 0..Count
    BY <1>1, Ends DEF Waits, HttpTypeOK
  <2> QED
    BY <1>1, <2>1, CutWhole
<1>3. HttpTypeOK'
  BY Ends DEF HttpTypeOK
<1>4. Known' /\ Kept'
  BY <1>1, <1>2 DEF Known, Kept
<1>5. Behind' /\ Waits'
  BY <1>1, <1>2 DEF Behind, Waits
<1> QED
  BY <1>3, <1>4, <1>5

LEMMA HttpCutRequestsIInv ==
  ASSUME HttpInv, pc # "execute", lengthToRead = 0, CutRequests PROVE HttpInv'
<1>1. CASE pc' = "generate"
  BY <1>1, HttpForeverIInv DEF CutRequests
<1>2. CASE pc' = "execute"
  BY <1>2, HttpCutIInv DEF CutRequests
<1> QED
  BY <1>1, <1>2 DEF CutRequests

LEMMA HttpReadRequestIInv == ASSUME HttpInv, ReadRequest PROVE HttpInv'
<1>1. CASE CutRequests
  BY <1>1, HttpCutRequestsIInv DEF ReadRequest
<1>2. CASE ~CutRequests
  BY <1>2, HttpCutIInv DEF ReadRequest
<1> QED
  BY <1>1, <1>2

LEMMA HttpRecvIInv == ASSUME HttpInv, Recv PROVE HttpInv'
<1> USE DEF Recv
<1>1. got \in Nat /\ wrote \in Nat /\ got' \in got..wrote
  BY Ends DEF HttpInv, HttpTypeOK
<1> QED
  BY <1>1, HttpBytesIInv

LEMMA HttpStartWorkerIInv == ASSUME HttpInv, StartWorker PROVE HttpInv'
<1>1. CASE lengthToRead = 0
  BY <1>1, HttpCutRequestsIInv DEF StartWorker
<1>2. CASE lengthToRead # 0
  <2>1. held' \in got..wrote /\ held' = got
    BY <1>2, Ends DEF StartWorker, buffer, HttpInv, HttpTypeOK, Kept
  <2> QED
    BY <1>2, <2>1, HttpIdleIInv DEF StartWorker, buffer
<1> QED
  BY <1>1, <1>2

LEMMA HttpCloseIInv == ASSUME HttpInv, Close PROVE HttpInv'
<1>1. held' \in got..wrote /\ (held' # got => lengthToRead = 0)
  BY Ends DEF Close, buffer, HttpInv, HttpTypeOK, Kept
<1> QED
  BY <1>1, HttpIdleIInv DEF Close, buffer

\* The next request is executed: it goes from the front of one sequence to the
\* end of the other.
LEMMA HttpExecuteIInv == ASSUME HttpInv, Execute PROVE HttpInv'
<1> USE DEF HttpInv, Execute, settings, buffer
<1>1. /\ reqs \in Seq(Cut) /\ reqs # <<>> /\ answered \in Seq(Cut)
      /\ Len(reqs) \in Nat \ {0} /\ Len(answered) \in Nat
      /\ DOMAIN reqs = 1..Len(reqs) /\ DOMAIN answered = 1..Len(answered)
  BY DEF HttpTypeOK
<1>2. /\ reqs' \in Seq(Cut) /\ Len(reqs') = Len(reqs) - 1
      /\ DOMAIN reqs' = 1..(Len(reqs) - 1)
      /\ \A j \in DOMAIN reqs' : j + 1 \in DOMAIN reqs /\ reqs'[j] = reqs[j + 1]
      /\ Head(reqs) = reqs[1] /\ 1 \in DOMAIN reqs /\ reqs[1] \in Cut
  BY <1>1
<1>3. /\ answered' \in Seq(Cut) /\ Len(answered') = Len(answered) + 1
      /\ DOMAIN answered' = 1..(Len(answered) + 1)
      /\ \A i \in DOMAIN answered' :
           \/ i \in DOMAIN answered /\ answered'[i] = answered[i]
           \/ i = Len(answered) + 1 /\ answered'[i] = reqs[1]
  BY <1>1, <1>2
<1>4. HttpTypeOK'
  BY <1>2, <1>3 DEF HttpTypeOK
<1>5. Known' /\ Kept'
  BY <1>1, <1>2 DEF Known, Kept, headers
<1>6. Behind'
  <2> SUFFICES ASSUME ~long PROVE Behind'
    BY DEF Behind
  <2>1. Slices(answered', 0, start)
    <3>1. \A i \in DOMAIN answered' : 0 <= answered'[i].start /\ answered'[i].stop <= start
      BY <1>2, <1>3 DEF Behind, Slices
    <3>2. \A i, j \in DOMAIN answered' : i < j => answered'[i].stop <= answered'[j].start
      BY <1>1, <1>2, <1>3 DEF Behind, Slices
    <3> QED
      BY <3>1, <3>2 DEF Slices
  <2>2. Slices(reqs', 0, start)
    <3>1. \A j \in DOMAIN reqs' : 0 <= reqs'[j].start /\ reqs'[j].stop <= start
      BY <1>2 DEF Behind, Slices
    <3>2. \A i, j \in DOMAIN reqs' : i < j => reqs'[i].stop <= reqs'[j].start
      <4> SUFFICES ASSUME NEW i \in DOMAIN reqs', NEW j \in DOMAIN reqs', i < j
                   PROVE  reqs'[i].stop <= reqs'[j].start
        OBVIOUS
      <4>1. i + 1 < j + 1
        BY <1>1, <1>2
      <4> QED
        BY <1>2, <4>1 DEF Behind, Slices
    <3> QED
      BY <3>1, <3>2 DEF Slices
  <2>3. \A i \in DOMAIN answered', j \in DOMAIN reqs' : answered'[i].stop <= reqs'[j].start
    <3> SUFFICES ASSUME NEW i \in DOMAIN answered', NEW j \in DOMAIN reqs'
                 PROVE  answered'[i].stop <= reqs[j + 1].start
      BY <1>2
    <3>1. 1 < j + 1 /\ j + 1 \in DOMAIN reqs
      BY <1>1, <1>2
    <3> QED
      BY <1>2, <1>3, <3>1 DEF Behind, Slices
  <2> QED
    BY <2>1, <2>2, <2>3 DEF Behind, Slices
<1>7. Waits'
  <2> SUFFICES ASSUME window = 1 PROVE Waits'
    BY DEF Waits
  <2> DEFINE n == Len(answered)
  <2>1. /\ Executing(n) /\ \A i \in DOMAIN answered : answered[i] = Whole(i)
        /\ Count \in Nat
    BY <1>1, Ends DEF Waits
  <2>2. Len(answered') = n + 1 /\ n + 1 \in 0..Count /\ n \in Nat
    BY <1>1, <1>3, <2>1 DEF Executing
  <2>3. \A i \in DOMAIN answered' : answered'[i] = Whole(i)
    BY <1>3, <2>1 DEF Executing
  <2>4. reqs' = <<>>
    BY <1>2, <2>1 DEF Executing
  <2>5. wrote <= mayWrite'
    <3>1. mayWrite' = IF n + 1 = Count THEN end[Count] ELSE end[n + 2]
      BY <2>2, Ends DEF mayWrite
    <3>2. /\ wrote = end[n + 1] /\ wrote <= end[Count]
          /\ n + 1 # Count => wrote <= end[n + 2]
      BY <2>1, <2>2, Ends DEF Executing
    <3> QED
      BY <3>1, <3>2
  <2>6. start' = end[n + 1] /\ lengthToRead' = -1
    BY <2>1 DEF Executing
  <2>7. Reading(Len(answered))'
    BY <2>2, <2>6 DEF Reading
  <2>8. (\A i \in DOMAIN answered : answered[i] = Whole(i))'
    BY <2>3 DEF Whole, HeaderEnd
  <2>9. (Len(answered) <= Count)' /\ (wrote <= mayWrite)'
    BY <2>2, <2>5
  <2> QED
    BY <2>4, <2>7, <2>8, <2>9 DEF Waits
<1> QED
  BY <1>4, <1>5, <1>6, <1>7

-----------------------------------------------------------------------------
\* The inductive invariant: bytes are lost only behind a complete request, the requests
\* follow each other in the stream, and a client that waits loses nothing.
THEOREM HttpSpecIInv == HttpSpec => []HttpInv
<1>1. HttpInv /\ [HttpNext]_HttpVars => HttpInv'
  <2> SUFFICES ASSUME HttpInv, [HttpNext]_HttpVars PROVE HttpInv'
    OBVIOUS
  <2>1. CASE WaitForReadyRead \/ WaitForBytesWritten
    <3>1. readSlot /\ pc' = IF pc = "execute" THEN pc ELSE "read"
      BY <2>1 DEF WaitForReadyRead, WaitForBytesWritten
    <3> QED
      BY <3>1, HttpReadSlotIInv
  <2>2. CASE Write \/ ReadRequest \/ Recv \/ StartWorker \/ Execute \/ Close
    BY <2>2, HttpWriteIInv, HttpReadRequestIInv, HttpRecvIInv, HttpStartWorkerIInv, HttpExecuteIInv, HttpCloseIInv
  <2>3. CASE UNCHANGED HttpVars
    <3>1. held' \in got..wrote /\ (held' # got => lengthToRead = 0)
      BY <2>3, Ends DEF HttpVars, settings, buffer, HttpInv, HttpTypeOK, Kept
    <3> QED
      BY <2>3, <3>1, HttpIdleIInv DEF HttpVars, settings, buffer
  <2> QED
    BY <2>1, <2>2, <2>3 DEF HttpNext, Server
<1> QED
  BY <1>1, HttpInitIInv, PTL DEF HttpSpec

\* Every variable keeps its type, and the positions their order: what was read out of
\* the socket is at or behind what the buffer keeps, the difference being lost.
THEOREM HttpSpecTypeOK == HttpSpec => []HttpTypeOK
<1>1. HttpInv => HttpTypeOK
  BY DEF HttpInv
<1> QED
  BY <1>1, HttpSpecIInv, PTL

\* Whatever a client sends before its answers, and whatever the slot then loses, no
\* byte belongs to two requests that read(), readRequest() and generate() cut, and
\* they are executed in order, if each Content-Length fits into an int.
THEOREM SpecNothingTwice == HttpSpec => []NothingTwice
<1>1. HttpInv => NothingTwice
  BY DEF HttpInv, Behind, Slices, NothingTwice
<1> QED
  BY <1>1, HttpSpecIInv, PTL

\* The requests of a client that waits are executed whole and in order, in whatever
\* pieces they come.
THEOREM SpecAnsweredWhole == HttpSpec => []AnsweredWhole
<1>1. HttpInv => AnsweredWhole
  <2> SUFFICES ASSUME HttpInv, window = 1, NEW i \in DOMAIN answered
               PROVE  i \in Requests /\ answered[i] = Whole(i)
    BY DEF AnsweredWhole
  <2>1. Len(answered) <= Count /\ answered[i] = Whole(i)
    BY DEF HttpInv, Waits
  <2>2. i \in 1..Len(answered) /\ Len(answered) \in Nat /\ Count \in Nat
    BY Ends DEF HttpInv, HttpTypeOK
  <2> QED
    BY <2>1, <2>2 DEF Requests
<1> QED
  BY <1>1, HttpSpecIInv, PTL

-----------------------------------------------------------------------------
(* The websocket: the inductive invariant, in named parts *)

\* Only a live websocket is connected, and one that goes has no workers.
Living ==
  /\ handover = "create" => ~connected /\ ~deleting
  /\ connected => ws = "alive" /\ ~deleting
  /\ ws \in {"deleteLater", "destroyed"} => \A m \in Modes : ~exists(m)

\* Who is told to delete the websocket has closed it or has started the worker
\* that will.
Closing ==
  /\ closes <= 1 /\ (~closing => closes = 0)
  /\ closing => closes = 1 \/ closeSent
  /\ deleting => closing \/ worker["Closing"].pc = "run"
  /\ worker["Closing"].pc \in {"tasks", "finished"} => closing
  /\ ws \in {"deleteLater", "destroyed"} => closing

NoFarewell(s)  == \A i \in DOMAIN s : s[i] # "closeFrame"
OneFarewell(s) == \A i, j \in DOMAIN s : s[i] = "closeFrame" /\ s[j] = "closeFrame" => i = j

\* One close frame at most is written or on its way to the main thread, and none
\* before closeSent is set.
Farewell ==
  /\ OneFarewell(written) /\ OneFarewell(events)
  /\ NoFarewell(written) \/ NoFarewell(events)
  /\ ~closeSent => NoFarewell(written) /\ NoFarewell(events)

\* A receiving worker that has not finished has a message to handle.
Loaded ==
  worker["Receiving"].pc \in {"run", "tasks"} => worker["Receiving"].payloads # <<>>

IInv == TypeOK /\ Living /\ Closing /\ Farewell /\ Loaded

-----------------------------------------------------------------------------
LEMMA MayDelete ==
  ASSUME NEW w
  PROVE  mayDelete(w) <=> \A m \in Modes : w[m].pc = "none"
<1>1. IsFiniteSet({m \in Modes : w[m].pc # "none"})
  <2>1. IsFiniteSet({"Opening"})
    BY FS_Singleton
  <2>2. IsFiniteSet({"Opening"} \cup {"Receiving"})
    BY <2>1, FS_AddElement
  <2>3. IsFiniteSet(({"Opening"} \cup {"Receiving"}) \cup {"Closing"})
    BY <2>2, FS_AddElement
  <2>4. Modes = ({"Opening"} \cup {"Receiving"}) \cup {"Closing"}
    BY DEF Modes
  <2> QED
    BY <2>3, <2>4, FS_Subset
<1> QED
  BY <1>1, FS_EmptySet DEF mayDelete, myWorkerCounter

\* What sequences are, kept apart from what they hold.
LEMMA SeqTypes ==
  ASSUME NEW X, NEW s \in Seq(X)
  PROVE  /\ <<>> \in Seq(X)
         /\ \A e \in X : Append(s, e) \in Seq(X)
         /\ \A e \in X, t \in Seq(X) : <<e>> \in Seq(X) /\ <<e>> \o t \in Seq(X)
         /\ s # <<>> => Head(s) \in X /\ Tail(s) \in Seq(X)
         /\ \A n \in 1..Len(s) :
              SubSeq(s, 1, n) \in Seq(X) /\ SubSeq(s, n + 1, Len(s)) \in Seq(X)
OBVIOUS

LEMMA AppendFarewell ==
  ASSUME NEW X, NEW s \in Seq(X), NEW e \in X
  PROVE  /\ NoFarewell(s) /\ e # "closeFrame" => NoFarewell(Append(s, e))
         /\ OneFarewell(s) /\ e # "closeFrame" => OneFarewell(Append(s, e))
         /\ NoFarewell(s) => OneFarewell(Append(s, e))
<1>1. /\ DOMAIN s = 1..Len(s) /\ Len(s) \in Nat
      /\ DOMAIN Append(s, e) = 1..(Len(s) + 1)
      /\ \A i \in DOMAIN Append(s, e) :
           Append(s, e)[i] = IF i = Len(s) + 1 THEN e ELSE s[i]
  OBVIOUS
<1> QED
  BY <1>1 DEF NoFarewell, OneFarewell

LEMMA TailFarewell ==
  ASSUME NEW X, NEW s \in Seq(X), s # <<>>
  PROVE  /\ NoFarewell(s) => NoFarewell(Tail(s)) /\ Head(s) # "closeFrame"
         /\ OneFarewell(s) => OneFarewell(Tail(s))
         /\ OneFarewell(s) /\ Head(s) = "closeFrame" => NoFarewell(Tail(s))
<1>1. /\ DOMAIN s = 1..Len(s) /\ Len(s) \in Nat \ {0}
      /\ DOMAIN Tail(s) = 1..(Len(s) - 1)
      /\ \A i \in DOMAIN Tail(s) : Tail(s)[i] = s[i + 1]
      /\ Head(s) = s[1]
  OBVIOUS
<1>2. 1 \in DOMAIN s /\ \A i \in DOMAIN Tail(s) : i + 1 \in DOMAIN s /\ i + 1 # 1
  BY <1>1
<1> QED
  BY <1>1, <1>2 DEF NoFarewell, OneFarewell

LEMMA StartedType ==
  ASSUME NEW p \in Seq(Incoming)
  PROVE  started(p) \in Worker /\ started(p).pc = "run"
BY EmptySeq DEF started, NoWorker, Worker

LEMMA NoWorkerType == NoWorker \in Worker /\ NoWorker.pc = "none"
BY EmptySeq DEF NoWorker, Worker

-----------------------------------------------------------------------------
LEMMA InitIInv == Init => IInv
<1> SUFFICES ASSUME Init PROVE IInv
  OBVIOUS
<1> USE DEF Init
<1>1. TypeOK
  <2>1. worker \in [Modes -> Worker]
    BY NoWorkerType
  <2>2. inbox \in Seq(Incoming) /\ events \in Seq(Signals)
          /\ written \in Seq(Signals \ {"disconnect"})
    BY EmptySeq
  <2>3. texts \in 0..MaxTexts /\ opens \in Nat /\ closes \in Nat
    BY TextsAssumption
  <2> QED
    BY <2>1, <2>2, <2>3 DEF TypeOK
<1>2. Living /\ Closing /\ Farewell /\ Loaded
  BY NoWorkerType DEF Living, Closing, Farewell, NoFarewell, OneFarewell, exists, Modes,
     Loaded
<1> QED
  BY <1>1, <1>2 DEF IInv

\* The client only fills the inbox.
LEMMA ClientIInv == ASSUME IInv, Client PROVE IInv'
<1> USE DEF IInv, Client, ClientText, ClientClose, ClientGone, flags, ghosts
<1>1. TypeOK'
  <2>1. "text" \in Incoming /\ "close" \in Incoming
    BY DEF Incoming
  <2>2. inbox \in Seq(Incoming) /\ texts \in 0..MaxTexts
    BY DEF TypeOK
  <2>3. inbox' \in Seq(Incoming)
    BY <2>1, <2>2, SeqTypes
  <2>4. texts' \in 0..MaxTexts
    BY <2>2, TextsAssumption
  <2>5. /\ clientClosed' \in BOOLEAN /\ gone' \in BOOLEAN
        /\ UNCHANGED <<handover, ws, connected, deleting, closing, closeSent, subscribed,
                       thrown, worker, events, written, opens, closes>>
    BY DEF TypeOK
  <2> QED
    BY <2>3, <2>4, <2>5 DEF TypeOK
<1>2. Living' /\ Closing' /\ Farewell' /\ Loaded'
  BY DEF Living, Closing, Farewell, exists, Loaded
<1> QED
  BY <1>1, <1>2

LEMMA ActionThreadIInv == ASSUME IInv, ActionThread PROVE IInv'
<1> USE DEF IInv, ActionThread, clientVars, flags, ghosts
<1>1. CASE handshakeForWebSocket
  <2> USE <1>1 DEF handshakeForWebSocket
  <2>1. TypeOK'
    BY DEF TypeOK
  <2>2. Living' /\ Closing' /\ Farewell' /\ Loaded'
    BY DEF Living, Closing, Farewell, exists, Loaded
  <2> QED
    BY <2>1, <2>2
<1>2. CASE startWorkerForOpening
  <2> USE <1>2 DEF startWorkerForOpening
  <2>1. worker' \in [Modes -> Worker]
    BY ZenonT(60), StartedType, EmptySeq DEF TypeOK, Modes
  <2>2. TypeOK'
    BY <2>1 DEF TypeOK
  <2>3. Living' /\ Closing' /\ Farewell' /\ Loaded'
    BY DEF Living, Closing, Farewell, exists, TypeOK, Modes, Loaded
  <2> QED
    BY <2>2, <2>3
<1> QED
  BY <1>1, <1>2
-----------------------------------------------------------------------------
(* Workers *)

LEMMA FreshWorkers ==
  ASSUME TypeOK, NEW m \in Modes, NEW w \in Worker
  PROVE  /\ [worker EXCEPT ![m] = w] \in [Modes -> Worker]
         /\ [worker EXCEPT ![m] = w][m] = w
         /\ \A o \in Modes \ {m} : [worker EXCEPT ![m] = w][o] = worker[o]
BY DEF TypeOK

LEMMA PerformType ==
  ASSUME TypeOK, NEW m \in Modes, NEW t \in Seq(Tasks), perform(m, t)
  PROVE  /\ worker' \in [Modes -> Worker]
         /\ worker'[m].pc = "tasks" /\ worker'[m].payloads = worker[m].payloads
         /\ \A o \in Modes \ {m} : worker'[o] = worker[o]
<1>1. worker \in [Modes -> Worker] /\ worker[m] \in Worker
  BY DEF TypeOK
<1>2. /\ [worker[m] EXCEPT !.pc = "tasks", !.tasks = t] \in Worker
      /\ [worker[m] EXCEPT !.pc = "tasks", !.tasks = t].payloads = worker[m].payloads
      /\ [worker[m] EXCEPT !.pc = "tasks", !.tasks = t].pc = "tasks"
  BY <1>1 DEF Worker
<1>3. worker' = [worker EXCEPT ![m] = [worker[m] EXCEPT !.pc = "tasks", !.tasks = t]]
  BY <1>1 DEF perform, Worker
<1> QED
  BY <1>1, <1>2, <1>3

LEMMA TaskLists ==
  /\ <<>> \in Seq(Tasks)
  /\ \A t \in Tasks : <<t>> \in Seq(Tasks)
  /\ \A t, u \in Tasks : <<t>> \o <<u>> \in Seq(Tasks)
  /\ \A t \in Tasks : <<t>> \o <<>> \in Seq(Tasks) /\ <<>> \o <<t>> \in Seq(Tasks)
  /\ <<>> \o <<>> \in Seq(Tasks)
BY SeqTypes, EmptySeq

LEMMA TaskNames ==
  {"handshake", "openError", "subscribe", "unsubscribeFromAll", "text", "sendClose"}
    \subseteq Tasks
BY DEF Tasks

\* A worker begins its tasks: the handlers other than onClose().
LEMMA HandlerIInv ==
  ASSUME IInv, NEW m \in {"Opening", "Receiving"}, NEW t \in Seq(Tasks), perform(m, t),
         worker[m].pc = "run", thrown' \in BOOLEAN, opens' \in Nat,
         UNCHANGED <<handover, ws, connected, clientVars, flags, events, subscribed,
                     written, closes>>
  PROVE  IInv'
<1> USE DEF IInv, clientVars, flags
<1>1. /\ worker' \in [Modes -> Worker] /\ m \in Modes
      /\ worker'[m].pc = "tasks" /\ worker'["Closing"] = worker["Closing"]
      /\ worker'[m].payloads = worker[m].payloads
      /\ \A o \in Modes \ {m} : worker'[o] = worker[o]
  BY PerformType DEF Modes
<1>2. TypeOK'
  BY <1>1 DEF TypeOK
<1>3. Living'
  BY <1>1 DEF Living, exists
<1>4. Closing' /\ Farewell' /\ Loaded'
  BY <1>1 DEF Closing, Farewell, Loaded, Modes
<1> QED
  BY <1>2, <1>3, <1>4

LEMMA OnCloseIInv ==
  ASSUME IInv, NEW m \in {"Receiving", "Closing"}, worker[m].pc = "run",
         NEW after \in Seq(Tasks), after = <<>> \/ after = <<"sendClose">>,
         onClose(m, after),
         UNCHANGED <<handover, ws, connected, clientVars, events, subscribed, written>>
  PROVE  IInv'
<1> USE DEF IInv, clientVars, onClose, firstToClose
<1>1. PICK t \in Seq(Tasks) : perform(m, t)
  BY TaskLists, TaskNames
<1>2. /\ worker' \in [Modes -> Worker] /\ m \in Modes
      /\ worker'[m].pc = "tasks" /\ worker'[m].payloads = worker[m].payloads
      /\ \A o \in Modes \ {m} : worker'[o] = worker[o]
  BY <1>1, PerformType DEF Modes
<1>3. closes \in Nat /\ closes' \in Nat /\ thrown' \in BOOLEAN
  <2>1. closes \in Nat /\ thrown \in BOOLEAN
    BY DEF TypeOK
  <2>2. closes' = closes \/ closes' = closes + 1
    OBVIOUS
  <2>3. thrown' = thrown \/ thrown' = TRUE
    OBVIOUS
  <2>4. closes' \in Nat
    BY <2>1, <2>2
  <2>5. thrown' \in BOOLEAN
    BY <2>1, <2>3
  <2> QED
    BY <2>1, <2>4, <2>5
<1>4. TypeOK'
  BY <1>2, <1>3 DEF TypeOK
<1>5. Living'
  BY <1>2 DEF Living, exists
<1>6. Closing'
  BY <1>2, <1>3 DEF Closing, Living, exists
<1>7. Farewell' /\ Loaded'
  BY <1>2 DEF Farewell, Loaded, Modes
<1> QED
  BY <1>4, <1>5, <1>6, <1>7

LEMMA ExecuteIInv == ASSUME IInv, execute PROVE IInv'
<1> USE DEF execute
<1>0. TypeOK
  BY DEF IInv
<1>1. CASE onOpen
  <2>1. PICK t \in Seq(Tasks) : perform("Opening", t)
    BY <1>1, TaskLists, TaskNames DEF onOpen
  <2>2. opens' \in Nat
    BY <1>0, <1>1 DEF onOpen, TypeOK
  <2>3. thrown' = thrown \/ thrown' = TRUE
    BY <1>1 DEF onOpen
  <2>4. thrown' \in BOOLEAN
    BY <1>0, <2>3 DEF TypeOK
  <2> QED
    BY <1>1, <2>1, <2>2, <2>4, HandlerIInv DEF onOpen, flags
<1>2. CASE onTextReceived
  <2>1. PICK t \in Seq(Tasks) : perform("Receiving", t)
    BY <1>2, TaskLists, TaskNames DEF onTextReceived
  <2>2. opens' \in Nat /\ thrown' \in BOOLEAN
    BY <1>0, <1>2 DEF onTextReceived, TypeOK
  <2> QED
    BY <1>2, <2>1, <2>2, HandlerIInv DEF onTextReceived, flags
<1>3. CASE onCloseFrame
  BY <1>3, OnCloseIInv, TaskLists, TaskNames DEF onCloseFrame
<1>4. CASE onClosing
  BY <1>4, OnCloseIInv, TaskLists, TaskNames DEF onClosing
<1> QED
  BY <1>1, <1>2, <1>3, <1>4
\* A step of a worker that leaves each worker where it is.
LEMMA SamePlaces ==
  ASSUME TypeOK, NEW m \in Modes, NEW t \in Seq(Tasks),
         worker' = [worker EXCEPT ![m].tasks = t]
  PROVE  /\ worker' \in [Modes -> Worker]
         /\ \A o \in Modes :
              worker'[o].pc = worker[o].pc /\ worker'[o].payloads = worker[o].payloads
<1>1. worker \in [Modes -> Worker] /\ worker[m] \in Worker
  BY DEF TypeOK
<1>2. [worker[m] EXCEPT !.tasks = t] \in Worker
  BY <1>1 DEF Worker
<1>3. worker' = [worker EXCEPT ![m] = [worker[m] EXCEPT !.tasks = t]]
  BY <1>1
<1> QED
  BY <1>1, <1>2, <1>3 DEF Worker

LEMMA TaskWorker ==
  ASSUME TypeOK, NEW m \in Modes, Task(m)
  PROVE  /\ worker' \in [Modes -> Worker]
         /\ \A o \in Modes :
              worker'[o].pc = worker[o].pc /\ worker'[o].payloads = worker[o].payloads
<1>1. worker[m].tasks \in Seq(Tasks) /\ worker[m].tasks # <<>>
  BY DEF TypeOK, Worker, Task
<1>2. Tail(worker[m].tasks) \in Seq(Tasks)
  BY <1>1
<1>3. \A t \in Tasks : <<t>> \o Tail(worker[m].tasks) \in Seq(Tasks)
  BY <1>2, SeqTypes
<1>4. "disconnect" \in Tasks /\ "closeFrame" \in Tasks /\ <<>> \in Seq(Tasks)
  BY EmptySeq DEF Tasks
<1>5. \E t \in Seq(Tasks) : worker' = [worker EXCEPT ![m].tasks = t]
  BY <1>2, <1>3, <1>4 DEF Task, next, instead
<1> QED
  BY <1>5, SamePlaces

LEMMA TaskIInv == ASSUME IInv, NEW m \in Modes, Task(m) PROVE IInv'
<1> USE DEF IInv
<1>1. /\ worker' \in [Modes -> Worker]
      /\ \A o \in Modes :
           worker'[o].pc = worker[o].pc /\ worker'[o].payloads = worker[o].payloads
      /\ "Closing" \in Modes
  BY TaskWorker DEF Modes
<1>2. /\ UNCHANGED <<handover, ws, connected, clientVars, written, ghosts, deleting>>
      /\ closing' = closing \/ closing' = TRUE
      /\ closeSent' = closeSent \/ closeSent' = TRUE
      /\ subscribed' = subscribed \/ subscribed' = TRUE \/ subscribed' = FALSE
      /\ closing' # closing => closeSent' = TRUE
  BY DEF Task, flags
<1>3. \/ events' = events
      \/ \E e \in Signals \ {"closeFrame"} : events' = Append(events, e)
      \/ ~closeSent /\ closeSent' = TRUE /\ events' = Append(events, "closeFrame")
  BY DEF Task, post, flags, sendsClose, Signals
<1>4. events' \in Seq(Signals)
  <2>1. events \in Seq(Signals) /\ "closeFrame" \in Signals
    BY DEF TypeOK, Signals
  <2> QED
    BY <1>3, <2>1, SeqTypes
<1>5. TypeOK'
  <2>1. closing' \in BOOLEAN /\ closeSent' \in BOOLEAN /\ subscribed' \in BOOLEAN
    BY <1>2 DEF TypeOK
  <2> QED
    BY <1>1, <1>2, <1>4, <2>1 DEF TypeOK, clientVars, ghosts
<1>6. Living'
  BY <1>1, <1>2 DEF Living, exists
<1>7. Closing' /\ Loaded'
  BY <1>1, <1>2 DEF Closing, ghosts, TypeOK, Loaded, Modes
<1>8. Farewell'
  <2>1. events \in Seq(Signals) /\ "closeFrame" \in Signals
    BY DEF TypeOK, Signals
  <2>2. CASE events' = events
    BY <1>2, <2>2 DEF Farewell
  <2>3. ASSUME NEW e \in Signals \ {"closeFrame"}, events' = Append(events, e)
        PROVE  Farewell'
    BY <1>2, <2>1, <2>3, AppendFarewell DEF Farewell
  <2>4. CASE ~closeSent /\ closeSent' = TRUE /\ events' = Append(events, "closeFrame")
    BY <1>2, <2>1, <2>4, AppendFarewell DEF Farewell
  <2> QED
    BY <1>3, <2>2, <2>3, <2>4
<1> QED
  BY <1>5, <1>6, <1>7, <1>8

LEMMA ExecutedIInv == ASSUME IInv, NEW m \in Modes, Executed(m) PROVE IInv'
<1> USE DEF IInv, Executed, clientVars, flags, ghosts
<1>1. worker \in [Modes -> Worker] /\ worker[m] \in Worker /\ worker[m].pc = "tasks"
  BY DEF TypeOK
<1>2. PICK rest \in Seq(Incoming) :
        /\ rest = <<>> \/ m = "Receiving"
        /\ worker' = [worker EXCEPT ![m] =
             [worker[m] EXCEPT !.payloads = rest,
                               !.pc = IF rest = <<>> THEN "finished" ELSE "run"]]
  <2> DEFINE rest == IF m = "Receiving" THEN Tail(worker[m].payloads) ELSE <<>>
  <2>1. rest \in Seq(Incoming)
    <3>1. worker[m].payloads \in Seq(Incoming)
      BY <1>1 DEF Worker
    <3>2. m = "Receiving" => worker[m].payloads # <<>>
      BY <1>1 DEF Loaded
    <3> QED
      BY <3>1, <3>2, EmptySeq, SeqTypes
  <2>2. worker' = [worker EXCEPT ![m] =
             [worker[m] EXCEPT !.payloads = rest,
                               !.pc = IF rest = <<>> THEN "finished" ELSE "run"]]
    BY <1>1 DEF Worker
  <2> QED
    BY <2>1, <2>2
<1>3. /\ worker' \in [Modes -> Worker]
      /\ worker'[m].pc \in {"finished", "run"}
      /\ worker'[m].pc = "run" => worker'[m].payloads # <<>>
      /\ m = "Closing" => worker'[m].pc = "finished"
      /\ \A o \in Modes \ {m} : worker'[o] = worker[o]
      /\ "Closing" \in Modes
  <2> DEFINE w == [worker[m] EXCEPT !.payloads = rest,
                                    !.pc = IF rest = <<>> THEN "finished" ELSE "run"]
  <2>1. /\ w \in Worker /\ w.payloads = rest
        /\ w.pc = IF rest = <<>> THEN "finished" ELSE "run"
    BY <1>1, <1>2 DEF Worker
  <2>2. worker' = [worker EXCEPT ![m] = w]
    BY <1>2
  <2> HIDE DEF w
  <2>3. /\ worker' \in [Modes -> Worker] /\ worker'[m] = w
        /\ \A o \in Modes \ {m} : worker'[o] = worker[o]
    BY ZenonT(60), Zenon, <1>1, <2>1, <2>2
  <2>4. rest # <<>> => m # "Closing"
    BY <1>2
  <2> QED
    BY <2>1, <2>3, <2>4 DEF Modes
<1>4. TypeOK'
  BY <1>3 DEF TypeOK
<1>5. Living'
  BY <1>1, <1>3 DEF Living, exists
<1>6. Closing'
  BY <1>1, <1>3 DEF Closing
<1>7. Farewell' /\ Loaded'
  BY <1>1, <1>3 DEF Farewell, Loaded, Modes
<1> QED
  BY <1>4, <1>5, <1>6, <1>7
-----------------------------------------------------------------------------
(* The main thread *)

\* The websocket has lost its connection, or is to close it.
LEMMA DisconnectedIInv ==
  ASSUME IInv, connected, disconnected, events' \in Seq(Signals),
         UNCHANGED <<handover, texts, clientClosed, gone, closing, closeSent, subscribed,
                     written, ghosts>>,
         Farewell'
  PROVE  IInv'
<1> USE DEF IInv, disconnected, ghosts
<1>1. ws = "alive" /\ ~deleting /\ "Closing" \in Modes /\ handover # "create"
  BY DEF Living, Modes
<1>2. /\ worker' \in [Modes -> Worker]
      /\ closing \/ worker'["Closing"].pc = "run"
      /\ worker'["Closing"].pc \in {"tasks", "finished"} => closing
      /\ worker'["Receiving"] = worker["Receiving"]
      /\ ws' = "alive" \/ (ws' = "deleteLater" /\ closing /\ mayDelete(worker'))
  <2>1. CASE closing
    <3>1. worker' = worker /\ ws' = IF mayDelete(worker) THEN "deleteLater" ELSE ws
      BY <2>1 DEF deleteLater, deleteAgain
    <3>2. mayDelete(worker') <=> mayDelete(worker)
      BY <3>1
    <3> QED
      BY <1>1, <2>1, <3>1, <3>2 DEF TypeOK
  <2>2. CASE ~closing
    <3>1. started(<<>>) \in Worker /\ started(<<>>).pc = "run"
      BY StartedType, EmptySeq
    <3>2. worker' = [worker EXCEPT !["Closing"] = started(<<>>)] /\ ws' = ws
      BY <1>1, <2>2 DEF deleteLater
    <3>3. "Receiving" \in Modes \ {"Closing"}
      BY DEF Modes
    <3> QED
      BY <1>1, <3>1, <3>2, <3>3, FreshWorkers
  <2> QED
    BY <2>1, <2>2
<1>3. TypeOK'
  <2>1. inbox' \in Seq(Incoming)
    BY EmptySeq
  <2>2. ws' \in {"none", "alive", "deleteLater", "destroyed"}
    BY <1>2
  <2>3. connected' \in BOOLEAN /\ deleting' \in BOOLEAN
    OBVIOUS
  <2> QED
    BY <1>2, <2>1, <2>2, <2>3 DEF TypeOK
<1>4. Living'
  BY <1>1, <1>2, MayDelete DEF Living, exists
<1>5. Closing' /\ Loaded'
  BY <1>2 DEF Closing, Loaded
<1> QED
  BY <1>3, <1>4, <1>5

LEMMA RemoteClosedIInv == ASSUME IInv, RemoteClosed PROVE IInv'
<1>1. events' \in Seq(Signals) /\ Farewell'
  BY DEF RemoteClosed, IInv, TypeOK, Farewell
<1> QED
  BY <1>1, DisconnectedIInv DEF RemoteClosed

LEMMA CloseIInv == ASSUME IInv, close PROVE IInv'
<1> USE DEF IInv, close
<1>1. events \in Seq(Signals) /\ events # <<>>
  BY DEF TypeOK
<1>2. events' \in Seq(Signals) /\ Farewell'
  BY <1>1, SeqTypes, TailFarewell DEF Farewell
<1>3. CASE connected
  BY <1>2, <1>3, DisconnectedIInv
<1>4. CASE ~connected
  <2>1. TypeOK'
    BY <1>2, <1>4 DEF TypeOK, ghosts
  <2>2. Living' /\ Closing' /\ Loaded'
    BY <1>4 DEF Living, Closing, Loaded, exists, ghosts
  <2> QED
    BY <1>2, <2>1, <2>2
<1> QED
  BY <1>3, <1>4

LEMMA SendRawDataIInv == ASSUME IInv, sendRawData PROVE IInv'
<1> USE DEF IInv, sendRawData, clientVars, flags, ghosts
<1>1. /\ events \in Seq(Signals) /\ events # <<>>
      /\ written \in Seq(Signals \ {"disconnect"})
  BY DEF TypeOK
<1>2. Head(events) \in Signals \ {"disconnect"}
  BY <1>1, SeqTypes DEF slot
<1>3. events' \in Seq(Signals) /\ written' \in Seq(Signals \ {"disconnect"})
  BY <1>1, <1>2, SeqTypes
<1>4. TypeOK'
  BY <1>3 DEF TypeOK
<1>5. Living' /\ Closing' /\ Loaded'
  BY DEF Living, Closing, Loaded, exists
<1>6. Farewell'
  <2>1. CASE deleting
    BY <1>1, <2>1, TailFarewell DEF Farewell
  <2>2. CASE ~deleting /\ Head(events) = "closeFrame"
    BY <1>1, <1>2, <2>2, TailFarewell, AppendFarewell DEF Farewell
  <2>3. CASE ~deleting /\ Head(events) # "closeFrame"
    BY <1>1, <1>2, <2>3, TailFarewell, AppendFarewell DEF Farewell
  <2> QED
    BY <2>1, <2>2, <2>3
<1> QED
  BY <1>4, <1>5, <1>6

LEMMA DestroyIInv == ASSUME IInv, Destroy PROVE IInv'
<1> USE DEF IInv, Destroy, clientVars, flags, ghosts
<1>1. TypeOK'
  BY EmptySeq DEF TypeOK
<1>2. Living' /\ Closing' /\ Loaded'
  BY DEF Living, Closing, Loaded, exists
<1>3. Farewell'
  BY DEF Farewell, NoFarewell, OneFarewell
<1> QED
  BY <1>1, <1>2, <1>3

\* What arrived goes to a receiving worker, when no worker is left.
LEMMA ReadIInv ==
  ASSUME IInv, NEW w \in [Modes -> Worker], read(w),
         mayDelete(w), ws \notin {"deleteLater", "destroyed"}, ~deleting,
         UNCHANGED <<handover, ws, connected, texts, clientClosed, gone, flags, events,
                     subscribed, written, ghosts>>
  PROVE  IInv'
<1> USE DEF IInv, flags, ghosts
<1>1. PICK n \in 1..Len(inbox) :
        /\ worker' = [w EXCEPT !["Receiving"] = started(SubSeq(inbox, 1, n))]
        /\ inbox' = SubSeq(inbox, n + 1, Len(inbox))
  BY DEF read
<1>2. /\ SubSeq(inbox, 1, n) \in Seq(Incoming) /\ inbox' \in Seq(Incoming)
      /\ SubSeq(inbox, 1, n) # <<>>
  <2>1. inbox \in Seq(Incoming)
    BY DEF TypeOK
  <2>2. Len(SubSeq(inbox, 1, n)) = n
    BY <1>1, <2>1
  <2> QED
    BY <1>1, <2>1, <2>2, SeqTypes
<1>3. /\ started(SubSeq(inbox, 1, n)) \in Worker
      /\ started(SubSeq(inbox, 1, n)).payloads # <<>>
  BY <1>2, StartedType DEF started, NoWorker
<1>4. /\ worker' \in [Modes -> Worker]
      /\ worker'["Receiving"].payloads # <<>>
      /\ worker'["Closing"].pc = "none"
  BY <1>1, <1>3, MayDelete DEF Modes
<1>5. TypeOK'
  BY <1>2, <1>4 DEF TypeOK
<1>6. Living' /\ Closing' /\ Loaded' /\ Farewell'
  BY <1>4 DEF Living, Closing, Loaded, Farewell
<1> QED
  BY <1>5, <1>6

LEMMA ReadRequestIInv == ASSUME IInv, readRequest PROVE IInv'
<1>1. ws = "alive" /\ ~deleting /\ worker \in [Modes -> Worker] /\ mayDelete(worker)
  BY DEF IInv, readRequest, Living, TypeOK, mayDelete
<1> QED
  BY <1>1, ReadIInv DEF readRequest

LEMMA ReleaseWorkerIInv == ASSUME IInv, NEW m \in Modes, releaseWorker(m) PROVE IInv'
<1> USE DEF IInv, flags, ghosts
<1> DEFINE w == [worker EXCEPT ![m] = NoWorker]
<1>1. /\ w \in [Modes -> Worker] /\ w[m].pc = "none"
      /\ \A o \in Modes \ {m} : w[o] = worker[o]
  BY NoWorkerType, FreshWorkers
<1>2. worker[m].pc = "finished" /\ ws \notin {"deleteLater", "destroyed"}
  BY DEF releaseWorker, Living, exists
<1>3. w["Closing"].pc \in {"run", "tasks", "finished"} => w["Closing"] = worker["Closing"]
  BY <1>1 DEF Modes
<1>4. deleting /\ mayDelete(w) => closing
  <2> SUFFICES ASSUME deleting, mayDelete(w) PROVE closing
    OBVIOUS
  <2>1. "Closing" \in Modes /\ w["Closing"].pc = "none"
    BY MayDelete DEF Modes
  <2>2. m = "Closing" \/ worker["Closing"].pc = "none"
    BY <1>1, <2>1
  <2> QED
    BY <1>2, <2>2 DEF Closing
<1> HIDE DEF w
<1>5. CASE deleting /\ deleteAgain(w) /\ UNCHANGED inbox
  <2>1. /\ worker' = w
        /\ ws' = ws \/ (ws' = "deleteLater" /\ mayDelete(w))
    BY <1>5 DEF deleteAgain
  <2>2. UNCHANGED <<handover, inbox, connected, texts, clientClosed, gone, flags, events,
                    subscribed, written, ghosts>>
    BY <1>5 DEF releaseWorker
  <2>3. TypeOK'
    BY <1>1, <2>1, <2>2 DEF TypeOK
  <2>4. Living'
    BY <1>2, <1>5, <2>1, <2>2, MayDelete DEF Living, exists
  <2>5. Closing'
    <3>1. deleting => closing \/ w["Closing"].pc = "run"
      BY <1>1, <1>2 DEF Closing, Modes
    <3> QED
      BY <1>2, <1>3, <1>4, <1>5, <2>1, <2>2, <3>1 DEF Closing
  <2>6. Loaded' /\ Farewell'
    BY <1>1, <2>1, <2>2 DEF Loaded, Farewell, Modes
  <2> QED
    BY <2>3, <2>4, <2>5, <2>6
<1>6. CASE ~deleting /\ UNCHANGED ws /\ read(w) /\ mayDelete(w)
  BY <1>1, <1>2, <1>6, ReadIInv DEF releaseWorker
<1>7. CASE ~deleting /\ UNCHANGED <<ws, inbox>> /\ worker' = w
  <2>1. UNCHANGED <<handover, connected, texts, clientClosed, gone, flags, events,
                    subscribed, written, ghosts>>
    BY DEF releaseWorker
  <2>2. TypeOK'
    BY <1>1, <1>7, <2>1 DEF TypeOK
  <2>3. Living' /\ Closing'
    BY <1>2, <1>3, <1>7, <2>1 DEF Living, Closing, exists
  <2>4. Loaded' /\ Farewell'
    BY <1>1, <1>7, <2>1 DEF Loaded, Farewell, Modes
  <2> QED
    BY <2>2, <2>3, <2>4
<1> QED
  BY <1>5, <1>6, <1>7 DEF releaseWorker, w, mayDelete
-----------------------------------------------------------------------------
\* What holds in every state of a websocket, for any number of messages.
THEOREM SpecIInv == Spec => []IInv
<1>1. IInv /\ [Next]_vars => IInv'
  <2> SUFFICES ASSUME IInv, [Next]_vars PROVE IInv'
    OBVIOUS
  <2>1. CASE Client \/ ActionThread \/ execute
    BY <2>1, ClientIInv, ActionThreadIInv, ExecuteIInv
  <2>2. CASE MainThread
    BY <2>2, RemoteClosedIInv, ReadRequestIInv, SendRawDataIInv, CloseIInv, DestroyIInv,
       ReleaseWorkerIInv DEF MainThread
  <2>3. ASSUME NEW m \in Modes, WorkerThread(m) PROVE IInv'
    BY <2>3, TaskIInv, ExecutedIInv DEF WorkerThread
  <2>4. CASE UNCHANGED vars
    <3> USE <2>4 DEF IInv, vars, clientVars, flags, ghosts
    <3>1. TypeOK' /\ Farewell'
      BY DEF TypeOK, Farewell
    <3>2. Living' /\ Closing' /\ Loaded'
      BY DEF Living, Closing, Loaded, exists
    <3> QED
      BY <3>1, <3>2
  <2> QED
    BY <2>1, <2>2, <2>3, <2>4 DEF Next
<1> QED
  BY <1>1, InitIInv, PTL DEF Spec

\* Every variable keeps its type.
THEOREM SpecTypeOK == Spec => []TypeOK
<1>1. IInv => TypeOK
  BY DEF IInv
<1> QED
  BY <1>1, SpecIInv, PTL

\* A websocket is destroyed after its workers: deleteLater() and releaseWorker()
\* delete when none is left, and none is started after that.
THEOREM SpecWorkersKeepSocket == Spec => []WorkersKeepSocket
<1>1. IInv => WorkersKeepSocket
  BY DEF IInv, Living, WorkersKeepSocket
<1> QED
  BY <1>1, SpecIInv, PTL

\* The websocket is closed once: onClose() by who sets closing, the close frame by
\* who sets closeSent, and no deletion before.
THEOREM SpecClosedOnce == Spec => []ClosedOnce
<1>1. IInv => ClosedOnce
  BY DEF IInv, Closing, Farewell, OneFarewell, ClosedOnce
<1> QED
  BY <1>1, SpecIInv, PTL

-----------------------------------------------------------------------------
(* Frames: the inductive invariant, in named parts *)

Numbers == DOMAIN script
Parts   == [frame : Numbers \cup {0}, size : Nat, state : States]

\* A position where a frame begins, or the last one ends.
boundary(p) == p = Length \/ \E f \in Numbers : p = begin(f)

\* What a list of frames says of the stream up to p. Only its last frame may have
\* to be completed.
Sound(list, p) ==
  /\ \A i \in 1..Len(list) :
       /\ list[i].frame = 0 <=> list[i].state = "Empty"
       /\ list[i].state # "Completed" => i = Len(list)
       /\ list[i].state = "Completed" =>
            list[i].size = script[list[i].frame].len /\ script[list[i].frame].end <= p
       /\ list[i].state \in {"HeaderParsed", "MoreData"} =>
            /\ list[i].size < script[list[i].frame].len
            /\ p = begin(list[i].frame) + 2 + list[i].size
  /\ (list = <<>> \/ list[Len(list)].state \in {"Empty", "Completed"}) => boundary(p)

\* parse() has a frame to work on as long as there are bytes.
Parsing ==
  step = "parse" =>
    frames # <<>> /\ (parsed < taken => frames[Len(frames)].state # "Completed")

StreamInv == ReaderTypeOK /\ Sound(frames, parsed) /\ Parsing

-----------------------------------------------------------------------------
(* Scripts *)

LEMMA ScriptFrames ==
  ASSUME ReaderTypeOK
  PROVE  /\ script \in Seq(Frame) /\ Len(script) \in Nat /\ Numbers = 1..Len(script)
         /\ ValidScript(script)
         /\ \A f \in Numbers : /\ script[f] \in Frame
                               /\ script[f].end \in Nat /\ script[f].len \in Nat
                               /\ begin(f) \in Nat /\ script[f].end = begin(f) + 2 + script[f].len
                               /\ begin(f) + 2 <= script[f].end /\ begin(f) < script[f].end
                               /\ f + 1 \in Numbers => begin(f + 1) = script[f].end
         /\ Length \in Nat
<1>1. script \in Seq(Frame) /\ ValidScript(script)
  BY ScriptsAssumption DEF ReaderTypeOK
<1>2. Len(script) \in Nat /\ Numbers = 1..Len(script)
  BY <1>1, LenProperties DEF Numbers
<1>3. \A f \in Numbers : script[f] \in Frame
  BY <1>1, <1>2, ElementOfSeq
<1>4. \A f \in Numbers : script[f].end \in Nat /\ script[f].len \in Nat
  BY <1>3 DEF Frame
<1>5. \A f \in Numbers : begin(f) \in Nat
  BY <1>2, <1>4 DEF begin
<1>6. \A f \in Numbers : script[f].end = begin(f) + 2 + script[f].len
  BY <1>1 DEF ValidScript, begin, Numbers
<1>7. \A f \in Numbers : f + 1 \in Numbers => begin(f + 1) = script[f].end
  BY <1>2 DEF begin
<1>8. Length \in Nat
  <2>1. CASE script = <<>>
    BY <2>1 DEF Length
  <2>2. CASE script # <<>>
    <3>1. Len(script) \in Numbers
      BY <2>2, <1>1, <1>2, EmptySeq
    <3> QED
      BY <2>2, <3>1, <1>4 DEF Length
  <2> QED
    BY <2>1, <2>2
<1>9. \A f \in Numbers : begin(f) + 2 <= script[f].end /\ begin(f) < script[f].end
  <2> TAKE f \in Numbers
  <2>1. begin(f) \in Nat /\ script[f].len \in Nat /\ script[f].end = begin(f) + 2 + script[f].len
    BY <1>4, <1>5, <1>6
  <2> QED
    BY <2>1
<1> QED
  BY <1>1, <1>2, <1>3, <1>4, <1>5, <1>6, <1>7, <1>8, <1>9

\* Frames do not overlap.
LEMMA ScriptOrder ==
  ASSUME ReaderTypeOK, NEW e \in Numbers, NEW f \in Numbers, e < f
  PROVE  script[e].end <= begin(f)
<1> DEFINE Bad == {g \in Numbers : e < g /\ ~(script[e].end <= begin(g))}
<1>1. SUFFICES ASSUME Bad # {} PROVE FALSE
  OBVIOUS
<1>2. Bad \in SUBSET Nat
  BY ScriptFrames
<1>3. PICK g \in Bad : \A h \in Bad : g <= h
  BY <1>1, <1>2, LeastOf
<1>4. g - 1 \in Numbers /\ g - 1 \in Nat /\ g \in Nat /\ e \in Nat /\ e <= g - 1
  BY SMTT(60), <1>3, ScriptFrames
<1>5. /\ begin(g) = script[g - 1].end
      /\ begin(g - 1) \in Nat /\ script[g - 1].end \in Nat /\ script[e].end \in Nat
      /\ begin(g - 1) <= script[g - 1].end
  <2>1. g # 1
    BY <1>4, ScriptFrames
  <2>2. begin(g) = script[g - 1].end
    BY <2>1 DEF begin
  <2>3. \A h \in Numbers : begin(h) \in Nat /\ script[h].end \in Nat /\ begin(h) < script[h].end
    BY ScriptFrames
  <2> QED
    BY <1>4, <2>2, <2>3
<1>6. e < g - 1 => script[e].end <= begin(g - 1)
  BY <1>3, <1>4
<1>7. e < g /\ ~(script[e].end <= begin(g))
  BY <1>3
<1> HIDE DEF Bad
<1> QED
  BY <1>4, <1>5, <1>6, <1>7

LEMMA ScriptLength ==
  ASSUME ReaderTypeOK, NEW f \in Numbers
  PROVE  script[f].end <= Length
<1> DEFINE n == Len(script)
<1>1. n \in Numbers /\ n \in Nat /\ f \in Nat /\ f <= n /\ script # <<>>
  BY ScriptFrames, EmptySeq
<1>2. Length = script[n].end
  BY <1>1 DEF Length
<1>3. f < n => script[f].end <= begin(n)
  BY <1>1, ScriptOrder
<1> HIDE DEF n
<1> QED
  BY SMTT(60), <1>1, <1>2, <1>3, ScriptFrames

\* A frame ends where the next begins.
LEMMA EndBoundary ==
  ASSUME ReaderTypeOK, NEW f \in Numbers
  PROVE  boundary(script[f].end)
<1>1. CASE f = Len(script)
  <2>1. script # <<>>
    BY ScriptFrames, EmptySeq
  <2> QED
    BY <1>1, <2>1 DEF boundary, Length
<1>2. CASE f # Len(script)
  <2>1. f + 1 \in Numbers
    BY <1>2, ScriptFrames
  <2> QED
    BY <2>1, ScriptFrames DEF boundary
<1> QED
  BY <1>1, <1>2

\* The header that is sought at a boundary before the end of the stream.
LEMMA Begun ==
  ASSUME ReaderTypeOK, boundary(parsed), parsed < Length
  PROVE  /\ begun.frame \in Numbers /\ begin(begun.frame) = parsed /\ begun.size = 0
         /\ begun.state = IF script[begun.frame].len = 0 THEN "Completed" ELSE "HeaderParsed"
<1> DEFINE at(f) == begin(f) <= parsed /\ parsed < script[f].end
<1>1. PICK f \in Numbers : parsed = begin(f)
  BY ScriptFrames DEF boundary, ReaderTypeOK
<1>2. at(f)
  BY <1>1, ScriptFrames
<1>3. ASSUME NEW g \in Numbers, at(g) PROVE g = f
  <2>1. g < f => script[g].end <= begin(f)
    BY ScriptOrder
  <2>2. f < g => script[f].end <= begin(g)
    BY ScriptOrder
  <2> QED
    BY SMTT(60), <1>1, <1>2, <1>3, <2>1, <2>2, ScriptFrames
<1>4. (CHOOSE g \in Numbers : at(g)) = f
  BY <1>2, <1>3
<1>5. begun = Part(f, 0, IF script[f].len = 0 THEN "Completed" ELSE "HeaderParsed")
  BY <1>4 DEF begun, Numbers
<1> QED
  BY <1>1, <1>5 DEF Part

-----------------------------------------------------------------------------
(* Lists of frames *)

LEMMA MinIs ==
  ASSUME NEW T \in SUBSET Nat, T # {}
  PROVE  Min(T) \in T /\ \A y \in T : Min(T) <= y
BY LeastOf DEF Min

\* Where a list goes to when a control frame has moved to place m + 1.
origin(k, m, n) == IF k <= m THEN k ELSE IF k = m + 1 THEN n ELSE k - 1

LEMMA Moved ==
  ASSUME NEW list \in Seq(Parts), list # <<>>
  PROVE  /\ moved(list) \in Seq(Parts) /\ Len(moved(list)) = Len(list)
         /\ \/ moved(list) = list
            \/ /\ isControl(list[Len(list)])
               /\ \E m \in 1..Len(list) - 1 :
                    /\ ~isControl(list[m]) /\ \A i \in 1..m - 1 : isControl(list[i])
                    /\ \A k \in 1..Len(list) : moved(list)[k] = list[origin(k, m, Len(list))]
<1>1. CASE ~(isControl(list[Len(list)]) /\ dataFrames(list) # {})
  BY <1>1 DEF moved, Last
<1>2. CASE isControl(list[Len(list)]) /\ dataFrames(list) # {}
  <2>1. PICK n \in Nat \ {0} : n = Len(list)
    BY EmptySeq
  <2>2. dataFrames(list) \in SUBSET Nat
    BY <2>1 DEF dataFrames
  <2>3. PICK m : m = Min(dataFrames(list))
    OBVIOUS
  <2>4. m \in dataFrames(list) /\ \A y \in dataFrames(list) : m <= y
    BY <1>2, <2>2, <2>3, MinIs
  <2>5. m \in 1..n - 1 /\ ~isControl(list[m]) /\ \A i \in 1..m - 1 : isControl(list[i])
    BY <2>1, <2>4 DEF dataFrames
  <2>6. \A i \in 1..n : list[i] \in Parts
    BY <2>1, ElementOfSeq
  <2> DEFINE front == SubSeq(list, 1, n - 1)
  <2>7. front \in Seq(Parts) /\ Len(front) = n - 1 /\ \A i \in 1..n - 1 : front[i] = list[i]
    <3>1. \A i \in 1..n - 1 : list[i] \in Parts
      BY <2>6
    <3>2. 1 \in Int /\ n - 1 \in Int
      OBVIOUS
    <3> QED
      BY <3>1, <3>2, SubSeqProperties
  <2> DEFINE l1 == SubSeq(front, 1, m)
             l2 == SubSeq(front, m + 1, n - 1)
  <2>8. l1 \in Seq(Parts) /\ Len(l1) = m /\ \A i \in 1..m : l1[i] = list[i]
    <3>1. (\A i \in 1..m : front[i] \in Parts) /\ 1 \in Int /\ m \in Int /\ 1 <= m
      BY <2>5, <2>6, <2>7
    <3> HIDE DEF front
    <3> QED
      BY <2>5, <2>7, <3>1, SubSeqProperties
  <2>9. l2 \in Seq(Parts) /\ Len(l2) = n - 1 - m /\ \A i \in 1..n - 1 - m : l2[i] = list[m + i]
    <3>1. (\A i \in m + 1..n - 1 : front[i] \in Parts) /\ m + 1 \in Int /\ n - 1 \in Int
      BY <2>5, <2>6, <2>7
    <3> HIDE DEF front
    <3>2. /\ l2 \in Seq(Parts) /\ Len(l2) = IF m + 1 <= n - 1 THEN (n - 1) - (m + 1) + 1 ELSE 0
          /\ \A i \in 1..(n - 1) - (m + 1) + 1 : l2[i] = front[(m + 1) + i - 1]
      BY <3>1, SubSeqProperties
    <3>3. \A i \in 1..n - 1 - m : i \in 1..(n - 1) - (m + 1) + 1 /\ m + i \in 1..n - 1
                                  /\ (m + 1) + i - 1 = m + i
      BY <2>5
    <3> HIDE DEF l2
    <3> QED
      BY <2>5, <2>7, <3>2, <3>3
  <2> DEFINE x == list[n]
             l3 == l1 \o <<x>>
  <2>10. l3 \in Seq(Parts) /\ Len(l3) = m + 1
         /\ (\A i \in 1..m : l3[i] = list[i]) /\ l3[m + 1] = x
    <3>1. <<x>> \in Seq(Parts) /\ Len(<<x>>) = 1 /\ <<x>>[1] = x
      BY <2>6
    <3> DEFINE sx == <<x>>
    <3> HIDE DEF l1, x, sx
    <3>2. /\ l1 \o sx \in Seq(Parts) /\ Len(l1 \o sx) = Len(l1) + Len(sx)
          /\ \A i \in 1..Len(l1) + Len(sx) :
               (l1 \o sx)[i] = IF i <= Len(l1) THEN l1[i] ELSE sx[i - Len(l1)]
      BY <2>8, <3>1, ConcatProperties DEF sx
    <3>3. m \in Nat /\ Len(sx) = 1 /\ sx[1] = x
      BY <2>5, <3>1 DEF sx
    <3>4. (m + 1) - m = 1
      BY <3>3
    <3>5. (l1 \o sx)[m + 1] = x /\ \A i \in 1..m : (l1 \o sx)[i] = list[i]
      BY <2>8, <3>2, <3>3, <3>4
    <3> QED
      BY <2>8, <3>2, <3>3, <3>5 DEF sx
  <2>11. moved(list) = l3 \o l2
    <3>1. moved(list) = InsertAt(front, m + 1, x)
      BY <1>2, <2>1, <2>3 DEF moved, Last, Front
    <3>2. (m + 1) - 1 = m
      BY <2>5
    <3> HIDE DEF front, x
    <3>3. InsertAt(front, m + 1, x)
            = SubSeq(front, 1, (m + 1) - 1) \o <<x>> \o SubSeq(front, m + 1, Len(front))
      BY DEF InsertAt
    <3> QED
      BY <2>7, <3>1, <3>2, <3>3, Zenon
  <2> HIDE DEF l3, l2, x
  <2>12. /\ l3 \o l2 \in Seq(Parts) /\ Len(l3 \o l2) = n
         /\ \A k \in 1..n : (l3 \o l2)[k] = IF k <= m + 1 THEN l3[k] ELSE l2[k - (m + 1)]
    <3>1. m + 1 + (n - 1 - m) = n
      BY <2>5
    <3>2. /\ l3 \o l2 \in Seq(Parts) /\ Len(l3 \o l2) = Len(l3) + Len(l2)
          /\ \A k \in 1..Len(l3) + Len(l2) :
               (l3 \o l2)[k] = IF k <= Len(l3) THEN l3[k] ELSE l2[k - Len(l3)]
      BY ZenonT(60), <2>9, <2>10, ConcatProperties
    <3> QED
      BY <2>9, <2>10, <3>1, <3>2
  <2>13. \A k \in 1..n : moved(list)[k] = list[origin(k, m, n)]
    <3> TAKE k \in 1..n
    <3>1. CASE k <= m
      BY <2>5, <2>10, <2>11, <2>12, <3>1 DEF origin
    <3>2. CASE k = m + 1
      BY <2>5, <2>10, <2>11, <2>12, <3>2 DEF origin, x
    <3>3. CASE k > m + 1
      <4>1. k - (m + 1) \in 1..n - 1 - m /\ m + (k - (m + 1)) = k - 1
        BY <2>5, <3>3
      <4> QED
        BY SMTT(60), <2>5, <2>9, <2>11, <2>12, <3>3, <4>1 DEF origin
    <3> QED
      BY <2>5, <3>1, <3>2, <3>3
  <2> QED
    BY <1>2, <2>1, <2>5, <2>11, <2>12, <2>13
<1> QED
  BY <1>1, <1>2

\* Its last element changed.
LEMMA LastChanged ==
  ASSUME NEW S, NEW list \in Seq(S), list # <<>>, NEW x \in S
  PROVE  LET new == [list EXCEPT ![Len(list)] = x]
         IN /\ new \in Seq(S) /\ Len(new) = Len(list) /\ new # <<>>
            /\ new[Len(list)] = x /\ \A i \in 1..Len(list) - 1 : new[i] = list[i]
<1>1. PICK n \in Nat \ {0} : n = Len(list)
  BY EmptySeq
<1> DEFINE new == [list EXCEPT ![n] = x]
<1>2. new \in Seq(S) /\ Len(new) = n /\ \A i \in 1..n : new[i] = IF i = n THEN x ELSE list[i]
  BY <1>1, ExceptSeq
<1>3. new # <<>>
  BY <1>1, <1>2, EmptySeq
<1> HIDE DEF new
<1>4. new[n] = x /\ \A i \in 1..n - 1 : new[i] = list[i]
  BY <1>2
<1> QED
  BY <1>1, <1>2, <1>3, <1>4 DEF new

LEMMA EmptyPart == Empty \in Parts /\ Empty.frame = 0 /\ Empty.state = "Empty"
BY DEF Empty, Part, Parts, States

-----------------------------------------------------------------------------
(* The parser is in step with the stream *)

LEMMA SoundEmpty ==
  ASSUME ReaderTypeOK, NEW list \in Seq(Parts), NEW p, Sound(list, p),
         list = <<>> \/ list[Len(list)].state = "Completed"
  PROVE  Append(list, Empty) \in Seq(Parts) /\ Sound(Append(list, Empty), p)
<1>1. PICK n \in Nat : n = Len(list)
  BY LenProperties
<1> DEFINE new == Append(list, Empty)
<1>2. /\ new \in Seq(Parts) /\ Len(new) = n + 1 /\ new # <<>>
      /\ new[n + 1] = Empty /\ \A i \in 1..n : new[i] = list[i]
  BY <1>1, EmptyPart, AppendProperties
<1> HIDE DEF new
<1>3. \A i \in 1..n : list[i].state = "Completed"
  BY <1>1, EmptySeq DEF Sound
<1>4. boundary(p)
  BY DEF Sound
<1>5. \A i \in 1..n + 1 : i = n + 1 \/ i \in 1..n
  BY <1>1
<1> QED
  BY <1>1, <1>2, <1>3, <1>4, <1>5, EmptyPart DEF Sound, new

LEMMA Prepared ==
  ASSUME ReaderTypeOK, Sound(frames, parsed)
  PROVE  /\ prepared \in Seq(Parts) /\ Sound(prepared, parsed)
         /\ prepared # <<>> /\ prepared[Len(prepared)].state # "Completed"
         /\ \/ prepared = frames
            \/ /\ prepared = Append(frames, Empty)
               /\ frames = <<>> \/ frames[Len(frames)].state = "Completed"
<1> USE DEF Last
<1>1. frames \in Seq(Parts)
  BY DEF ReaderTypeOK, Parts, Numbers
<1>2. CASE frames = <<>> \/ frames[Len(frames)].state = "Completed"
  <2>1. prepared = Append(frames, Empty)
    BY <1>2 DEF prepared
  <2>2. prepared \in Seq(Parts) /\ Sound(prepared, parsed)
    BY <1>1, <1>2, <2>1, SoundEmpty
  <2>3. prepared # <<>> /\ prepared[Len(prepared)] = Empty
    BY <1>1, <2>1, EmptyPart, AppendProperties
  <2> QED
    BY <1>2, <2>1, <2>2, <2>3, EmptyPart
<1>3. CASE ~(frames = <<>> \/ frames[Len(frames)].state = "Completed")
  BY <1>1, <1>3 DEF prepared
<1> QED
  BY <1>2, <1>3

\* What one round of parse() adds to the current frame, and where it ends.
Progress(q) ==
  /\ q \in Nat /\ parsed < q /\ q <= taken
  /\ progressed \in Parts /\ progressed.frame \in Numbers
  /\ progressed.state \in {"Completed", "HeaderParsed", "MoreData"}
  /\ progressed.state = "Completed" =>
       progressed.size = script[progressed.frame].len /\ q = script[progressed.frame].end
  /\ progressed.state # "Completed" =>
       /\ progressed.size < script[progressed.frame].len
       /\ q = begin(progressed.frame) + 2 + progressed.size
  /\ IF frames[Len(frames)].state = "Empty" THEN begin(progressed.frame) = parsed
     ELSE progressed.frame = frames[Len(frames)].frame /\ begin(progressed.frame) < parsed

LEMMA Progresses ==
  ASSUME StreamInv, step = "parse", canParse,
         NEW q, q = IF Last(frames).state = "Empty" THEN parsed + 2
                    ELSE parsed + progressed.size - Last(frames).size
  PROVE  Progress(q) /\ frames # <<>> /\ frames[Len(frames)].state # "Completed"
<1> USE DEF Last
<1>1. frames # <<>> /\ frames[Len(frames)].state # "Completed" /\ parsed < taken
  BY DEF StreamInv, Parsing, canParse
<1>2. frames \in Seq(Parts) /\ ReaderTypeOK
  BY DEF StreamInv, ReaderTypeOK, Parts, Numbers
<1>3. Len(frames) \in Nat \ {0} /\ frames[Len(frames)] \in Parts
  BY <1>1, <1>2, EmptySeq, ElementOfSeq
<1>4. parsed \in Nat /\ taken \in Nat /\ taken <= Length /\ Length \in Nat
  BY <1>2, ScriptFrames DEF ReaderTypeOK
<1>5. CASE frames[Len(frames)].state = "Empty"
  <2>1. q = parsed + 2 /\ q <= taken /\ progressed = begun
    BY <1>5 DEF canParse, progressed
  <2>2. boundary(parsed) /\ parsed < Length
    BY <1>1, <1>4, <1>5 DEF StreamInv, Sound
  <2>3. /\ begun.frame \in Numbers /\ begin(begun.frame) = parsed /\ begun.size = 0
        /\ begun.state = IF script[begun.frame].len = 0 THEN "Completed" ELSE "HeaderParsed"
    BY <1>2, <2>2, Begun
  <2>4. PICK f \in Numbers : f = begun.frame
    BY <2>3
  <2>5. begun \in Parts
    <3>1. begun = [frame |-> begun.frame, size |-> begun.size, state |-> begun.state]
      BY DEF begun, Part
    <3> QED
      BY <2>3, <3>1 DEF Parts, States
  <2>6. script[f].len \in Nat /\ script[f].end = begin(f) + 2 + script[f].len
    BY <1>2, ScriptFrames
  <2>7. q \in Nat /\ parsed < q /\ q <= taken
    BY <1>4, <2>1
  <2>8. /\ begun.state = "Completed" => begun.size = script[f].len /\ q = script[f].end
        /\ begun.state # "Completed" =>
             begun.size < script[f].len /\ q = begin(f) + 2 + begun.size
        /\ begun.state \in {"Completed", "HeaderParsed", "MoreData"}
    BY <1>4, <2>1, <2>3, <2>4, <2>6
  <2> QED
    BY <1>1, <1>5, <2>1, <2>3, <2>4, <2>5, <2>7, <2>8 DEF Progress
<1>6. CASE frames[Len(frames)].state # "Empty"
  <2>1. PICK f, size : f = frames[Len(frames)].frame /\ size = frames[Len(frames)].size
    OBVIOUS
  <2>2. f \in Numbers /\ size \in Nat
    BY <1>2, <1>3, <1>6, <2>1 DEF StreamInv, Sound, Parts
  <2>3. PICK len \in Nat : len = script[f].len
    BY <1>2, <2>2, ScriptFrames
  <2>4. size < len /\ parsed = begin(f) + 2 + size
    BY <1>1, <1>3, <1>6, <2>1, <2>3 DEF StreamInv, Sound, Parts, States
  <2>5. script[f].end = begin(f) + 2 + len /\ begin(f) \in Nat
    BY <1>2, <2>2, <2>3, ScriptFrames
  <2>6. PICK k \in Nat : k = taken - parsed /\ k > 0 /\ parsed + k = taken
    BY <1>1, <1>4
  <2>60. PICK s \in Nat : s = IF size + k <= len THEN size + k ELSE len
    BY <2>2, <2>3, <2>6
  <2>61. size < s /\ s <= len /\ s <= size + k
    BY <2>2, <2>3, <2>4, <2>6, <2>60
  <2>62. PICK j \in Nat : j = s - size /\ j > 0 /\ j <= k
    BY <2>2, <2>6, <2>61
  <2>63. parsed + j = begin(f) + 2 + s /\ parsed + j <= taken /\ parsed < parsed + j
    <3>1. s = size + j
      BY <2>2, <2>62
    <3>2. PICK b \in Nat : b = begin(f)
      BY <2>5
    <3>3. parsed = b + 2 + size
      BY <2>4, <3>2
    <3>4. parsed + j = b + 2 + s
      BY <1>4, <2>2, <3>1, <3>3
    <3>5. parsed + j <= taken /\ parsed < parsed + j
      BY <1>4, <2>6, <2>62
    <3> QED
      BY <3>2, <3>4, <3>5
  <2>7. begin(f) < parsed
    BY SMTT(60), <1>4, <2>2, <2>4, <2>5
  <2>8. progressed = Part(f, s, IF s = len THEN "Completed" ELSE "MoreData")
    BY <1>6, <2>1, <2>3, <2>6, <2>60 DEF progressed, continued
  <2>9. /\ progressed.frame = f /\ progressed.size = s
        /\ progressed.state = IF s = len THEN "Completed" ELSE "MoreData"
        /\ progressed \in Parts
    BY <2>2, <2>8 DEF Part, Parts, States
  <2>10. q = parsed + j
    BY <1>6, <2>1, <2>9, <2>62
  <2>11. q \in Nat /\ parsed < q /\ q <= taken
    BY <1>4, <2>10, <2>63
  <2>12. s = len => q = script[f].end
    BY <2>5, <2>10, <2>63
  <2> QED
    BY <1>1, <1>6, <2>1, <2>2, <2>3, <2>61, <2>63, <2>7, <2>9, <2>10, <2>11, <2>12 DEF Progress
<1> QED
  BY <1>5, <1>6

\* The list with the current frame as parse() has it then.
progress == [frames EXCEPT ![Len(frames)] = progressed]

LEMMA SoundProgress ==
  ASSUME StreamInv, NEW q, Progress(q), frames # <<>>,
         frames[Len(frames)].state # "Completed"
  PROVE  /\ progress \in Seq(Parts) /\ Len(progress) = Len(frames) /\ progress # <<>>
         /\ progress[Len(frames)] = progressed
         /\ \A i \in 1..Len(frames) - 1 : progress[i] = frames[i]
         /\ Sound(progress, q)
<1>1. frames \in Seq(Parts) /\ ReaderTypeOK
  BY DEF StreamInv, ReaderTypeOK, Parts, Numbers
<1>2. PICK n \in Nat \ {0} : n = Len(frames)
  BY <1>1, EmptySeq
<1>3. /\ progress \in Seq(Parts) /\ Len(progress) = n /\ progress # <<>>
      /\ progress[n] = progressed /\ \A i \in 1..n - 1 : progress[i] = frames[i]
  BY <1>1, <1>2, LastChanged DEF progress, Progress
<1>4. \A i \in 1..n - 1 : /\ frames[i].state = "Completed"
                          /\ frames[i] \in Parts
                          /\ frames[i].frame = 0 <=> frames[i].state = "Empty"
                          /\ frames[i].size = script[frames[i].frame].len
                          /\ script[frames[i].frame].end <= parsed
  BY <1>1, <1>2, ElementOfSeq DEF StreamInv, Sound
<1>5. parsed \in Nat /\ q \in Nat /\ parsed < q
  BY DEF StreamInv, ReaderTypeOK, Progress
<1>6. \A i \in 1..n - 1 : script[frames[i].frame].end <= q
  <2> TAKE i \in 1..n - 1
  <2>1. frames[i].frame \in Numbers
    BY <1>4 DEF Parts
  <2>2. script[frames[i].frame].end \in Nat
    BY <1>1, <2>1, ScriptFrames
  <2> QED
    BY <1>4, <1>5, <2>2
<1>7. progressed.state = "Completed" => boundary(q)
  BY <1>1, EndBoundary DEF Progress
<1>8. /\ progressed.frame # 0 /\ progressed.state # "Empty"
      /\ progressed.state = "Completed" =>
           progressed.size = script[progressed.frame].len /\ script[progressed.frame].end <= q
      /\ progressed.state \in {"HeaderParsed", "MoreData"} =>
           /\ progressed.size < script[progressed.frame].len
           /\ q = begin(progressed.frame) + 2 + progressed.size
  <2>1. progressed.frame \in Numbers /\ 0 \notin Numbers
    BY <1>1, ScriptFrames DEF Progress
  <2> QED
    BY <1>5, <2>1 DEF Progress
<1>9. \A i \in 1..n : i = n \/ i \in 1..n - 1
  BY <1>2
<1> QED
  BY <1>2, <1>3, <1>4, <1>6, <1>7, <1>8, <1>9 DEF Sound

\* What parse() makes of a list whose last frame it has completed.
LEMMA SoundCompleted ==
  ASSUME ReaderTypeOK, NEW list \in Seq(Parts), list # <<>>, NEW p, Sound(list, p),
         list[Len(list)].state = "Completed", NEW atEnd \in BOOLEAN
  PROVE  /\ completed(list, atEnd) \in Seq(Parts) /\ Sound(completed(list, atEnd), p)
         /\ completed(list, atEnd) # <<>>
         /\ ~atEnd => completed(list, atEnd)[Len(completed(list, atEnd))].state # "Completed"
<1>1. PICK n \in Nat \ {0} : n = Len(list)
  BY EmptySeq
<1>2. \A i \in 1..n : list[i].state = "Completed" /\ list[i] \in Parts
  BY <1>1, ElementOfSeq DEF Sound
<1>3. boundary(p)
  BY DEF Sound
<1>4. CASE isInvalid(list)
  <2> DEFINE new == [list EXCEPT ![Len(list)] = Empty]
  <2>1. /\ new \in Seq(Parts) /\ Len(new) = n /\ new # <<>>
        /\ new[n] = Empty /\ \A i \in 1..n - 1 : new[i] = list[i]
    BY <1>1, EmptyPart, LastChanged
  <2>2. completed(list, atEnd) = new
    BY <1>4 DEF completed
  <2> HIDE DEF new
  <2>3. \A i \in 1..n : i = n \/ i \in 1..n - 1
    BY <1>1
  <2>4. Sound(new, p)
    BY <1>1, <1>2, <1>3, <2>1, <2>3, EmptyPart DEF Sound
  <2> QED
    BY <2>1, <2>2, <2>4, EmptyPart
<1>5. CASE ~isInvalid(list)
  <2> DEFINE new == moved(list)
  <2>1. /\ new \in Seq(Parts) /\ Len(new) = n
        /\ \A k \in 1..n : \E i \in 1..n : new[k] = list[i]
    <3>1. /\ new \in Seq(Parts) /\ Len(new) = n
          /\ \/ new = list
             \/ \E m \in 1..n - 1 : \A k \in 1..n : new[k] = list[origin(k, m, n)]
      BY <1>1, Moved
    <3>2. CASE new = list
      BY <3>1, <3>2
    <3>3. ASSUME NEW m \in 1..n - 1, \A k \in 1..n : new[k] = list[origin(k, m, n)]
          PROVE  \A k \in 1..n : \E i \in 1..n : new[k] = list[i]
      <4>1. \A k \in 1..n : origin(k, m, n) \in 1..n
        BY <1>1 DEF origin
      <4> QED
        BY <3>3, <4>1
    <3> QED
      BY <3>1, <3>2, <3>3
  <2> HIDE DEF new
  <2>2. new # <<>> /\ \A k \in 1..n : new[k].state = "Completed"
    BY <1>1, <1>2, <2>1, EmptySeq
  <2>3. Sound(new, p)
    <3>1. \A k \in 1..n :
            /\ new[k].frame = 0 <=> new[k].state = "Empty"
            /\ new[k].size = script[new[k].frame].len /\ script[new[k].frame].end <= p
      <4> TAKE k \in 1..n
      <4>1. PICK i \in 1..n : new[k] = list[i]
        BY <2>1
      <4> QED
        BY <1>1, <1>2, <4>1 DEF Sound
    <3> QED
      BY <1>1, <1>3, <2>1, <2>2, <3>1 DEF Sound
  <2>4. CASE atEnd
    BY <1>5, <2>1, <2>2, <2>3, <2>4 DEF completed, new
  <2>5. CASE ~atEnd
    <3>1. completed(list, atEnd) = Append(new, Empty)
      BY <1>5, <2>5 DEF completed, new
    <3>2. Append(new, Empty) \in Seq(Parts) /\ Sound(Append(new, Empty), p)
      BY <1>1, <2>1, <2>2, <2>3, SoundEmpty
    <3>3. /\ Append(new, Empty) # <<>> /\ Len(Append(new, Empty)) = Len(new) + 1
          /\ Append(new, Empty)[Len(new) + 1] = Empty
      <4>1. new \in Seq(Parts) /\ Empty \in Parts
        BY <2>1, EmptyPart
      <4> QED
        BY <4>1, AppendProperties
    <3> DEFINE last == completed(list, atEnd)
    <3>4. last \in Seq(Parts) /\ Sound(last, p) /\ last # <<>> /\ last[Len(last)] = Empty
      BY <3>1, <3>2, <3>3
    <3> HIDE DEF last
    <3>5. last[Len(last)].state # "Completed"
      BY <3>4, EmptyPart
    <3> QED
      BY <3>4, <3>5 DEF last
  <2> QED
    BY <2>4, <2>5
<1> QED
  BY <1>4, <1>5

-----------------------------------------------------------------------------
(* Every step keeps the parser in step *)

LEMMA SoundKept ==
  ASSUME script' = script, NEW list, NEW p, Sound(list, p), frames' = list, parsed' = p
  PROVE  Sound(frames, parsed)'
<1>1. Numbers' = Numbers /\ Length' = Length
  BY DEF Numbers, Length
<1>2. \A f : begin(f)' = begin(f)
  BY DEF begin
<1>3. boundary(parsed)' <=> boundary(p)
  BY <1>1, <1>2 DEF boundary
<1> QED
  BY <1>2, <1>3 DEF Sound

\* The frames behind a place in a list.
LEMMA Rest ==
  ASSUME NEW S, NEW list \in Seq(S), NEW n \in Nat, n = Len(list), NEW m \in 1..n
  PROVE  LET rest == SubSeq(list, m + 1, n)
         IN rest \in Seq(S) /\ Len(rest) = n - m /\ \A i \in 1..n - m : rest[i] = list[m + i]
<1> DEFINE rest == SubSeq(list, m + 1, n)
<1>1. \A i \in m + 1..n : list[i] \in S
  BY ElementOfSeq
<1>2. m + 1 \in Int /\ n \in Int
  OBVIOUS
<1>3. /\ rest \in Seq(S) /\ Len(rest) = IF m + 1 <= n THEN n - (m + 1) + 1 ELSE 0
      /\ \A i \in 1..n - (m + 1) + 1 : rest[i] = list[(m + 1) + i - 1]
  BY <1>1, <1>2, SubSeqProperties
<1>4. \A i \in 1..n - m : i \in 1..n - (m + 1) + 1 /\ (m + 1) + i - 1 = m + i
  OBVIOUS
<1> HIDE DEF rest
<1>5. Len(rest) = n - m
  BY <1>3
<1> QED
  BY <1>3, <1>4, <1>5 DEF rest

LEMMA SoundRest ==
  ASSUME ReaderTypeOK, NEW list \in Seq(Parts), NEW p, Sound(list, p), NEW m \in 1..Len(list),
         list[m].state = "Completed"
  PROVE  Sound(SubSeq(list, m + 1, Len(list)), p)
<1>1. PICK n \in Nat : n = Len(list)
  BY LenProperties
<1> DEFINE rest == SubSeq(list, m + 1, n)
<1>2. /\ rest \in Seq(Parts) /\ Len(rest) = n - m
      /\ \A i \in 1..n - m : rest[i] = list[m + i]
  BY <1>1, Rest
<1> HIDE DEF rest
<1>3. \A i \in 1..n - m : m + i \in 1..n /\ (m + i = n <=> i = n - m)
  BY <1>1
<1>4. rest = <<>> => m = n
  BY <1>1, <1>2, EmptySeq
<1>5. m = n => boundary(p)
  <2> HAVE m = n
  <2>1. list[Len(list)].state \in {"Empty", "Completed"}
    BY <1>1
  <2> QED
    BY <2>1 DEF Sound
<1>6. rest # <<>> => Len(rest) \in 1..n - m /\ rest[Len(rest)] = list[n]
  BY <1>1, <1>2, EmptySeq
<1>7. \A i \in 1..n - m :
        /\ rest[i].frame = 0 <=> rest[i].state = "Empty"
        /\ rest[i].state # "Completed" => i = Len(rest)
        /\ rest[i].state = "Completed" =>
             rest[i].size = script[rest[i].frame].len /\ script[rest[i].frame].end <= p
        /\ rest[i].state \in {"HeaderParsed", "MoreData"} =>
             /\ rest[i].size < script[rest[i].frame].len
             /\ p = begin(rest[i].frame) + 2 + rest[i].size
  <2> TAKE i \in 1..n - m
  <2>1. PICK k \in 1..n : k = m + i /\ rest[i] = list[k] /\ (k = n <=> i = n - m)
    BY <1>2, <1>3
  <2>2. /\ list[k].frame = 0 <=> list[k].state = "Empty"
        /\ list[k].state # "Completed" => k = n
        /\ list[k].state = "Completed" =>
             list[k].size = script[list[k].frame].len /\ script[list[k].frame].end <= p
        /\ list[k].state \in {"HeaderParsed", "MoreData"} =>
             /\ list[k].size < script[list[k].frame].len
             /\ p = begin(list[k].frame) + 2 + list[k].size
    BY <1>1 DEF Sound
  <2> QED
    BY <1>2, <2>1, <2>2
<1>8. (rest = <<>> \/ rest[Len(rest)].state \in {"Empty", "Completed"}) => boundary(p)
  <2>1. list[n].state \in {"Empty", "Completed"} => boundary(p)
    BY <1>1 DEF Sound
  <2> QED
    BY <1>4, <1>5, <1>6, <2>1
<1>9. Sound(rest, p)
  BY <1>2, <1>7, <1>8 DEF Sound
<1> QED
  BY <1>1, <1>9 DEF rest

LEMMA StreamInit == ReaderInit => StreamInv
<1> SUFFICES ASSUME ReaderInit PROVE StreamInv
  OBVIOUS
<1> USE DEF ReaderInit
<1>1. script \in Seq(Frame) /\ ValidScript(script)
  BY ScriptsAssumption
<1>4. frames \in Seq(Parts) /\ payloads \in Seq(Seq(Numbers)) /\ delivered \in Seq(Seq(Numbers))
  <2>1. \A S : <<>> \in Seq(S)
    BY EmptySeq
  <2> QED
    BY <2>1
<1>2. CASE script = <<>>
  <2>1. Length = 0
    BY <1>2 DEF Length
  <2>2. ReaderTypeOK
    <3>1. /\ parsed \in 0..taken /\ taken \in 0..arrived /\ arrived \in 0..sent
          /\ sent \in 0..Length /\ step \in {"idle", "parse", "collect"} /\ working \in BOOLEAN
      <4>1. Length \in Nat /\ 0 \in 0..Length /\ 0 \in 0..0
        BY <2>1
      <4> QED
        BY <4>1
    <3>2. script \in Scripts
      OBVIOUS
    <3> HIDE DEF ReaderInit
    <3> QED
      BY <1>4, <3>1, <3>2 DEF ReaderTypeOK, Parts, Numbers
  <2>3. Sound(frames, parsed)
    BY <2>1 DEF Sound, boundary
  <2> QED
    BY <2>2, <2>3 DEF StreamInv, Parsing
<1>3. CASE script # <<>>
  <2>1. Len(script) \in Nat \ {0} /\ DOMAIN script = 1..Len(script)
    BY <1>1, <1>3, EmptySeq, LenProperties
  <2>2. \A f \in 1..Len(script) : script[f] \in Frame
    BY <1>1, ElementOfSeq
  <2>3. Length \in Nat
    BY <1>3, <2>1, <2>2 DEF Length, Frame
  <2>4. ReaderTypeOK
    <3>1. /\ parsed \in 0..taken /\ taken \in 0..arrived /\ arrived \in 0..sent
          /\ sent \in 0..Length /\ step \in {"idle", "parse", "collect"} /\ working \in BOOLEAN
      <4>1. Length \in Nat /\ 0 \in 0..Length /\ 0 \in 0..0
        BY <2>3
      <4> QED
        BY <4>1
    <3>2. script \in Scripts
      OBVIOUS
    <3> HIDE DEF ReaderInit
    <3> QED
      BY <1>4, <3>1, <3>2 DEF ReaderTypeOK, Parts, Numbers
  <2>5. 1 \in Numbers /\ begin(1) = 0
    BY <2>1 DEF begin, Numbers
  <2>6. Sound(frames, parsed)
    BY <2>5 DEF Sound, boundary
  <2> QED
    BY <2>4, <2>6 DEF StreamInv, Parsing
<1> QED
  BY <1>2, <1>3

LEMMA StreamSendPiece == StreamInv /\ SendPiece => StreamInv'
<1> SUFFICES ASSUME StreamInv, SendPiece PROVE StreamInv'
  OBVIOUS
<1> USE DEF SendPiece
<1>1. sent' \in 0..Length /\ arrived' \in 0..sent'
  BY ScriptFrames DEF StreamInv, ReaderTypeOK
<1>2. Length' = Length
  BY DEF Length
<1>3. ReaderTypeOK'
  BY <1>1, <1>2 DEF StreamInv, ReaderTypeOK
<1>4. Sound(frames, parsed)'
  BY SoundKept DEF StreamInv
<1> QED
  BY <1>3, <1>4 DEF StreamInv, Parsing

\* What readAll() does, by whoever calls it.
LEMMA StreamReadAll ==
  ASSUME StreamInv, arrived' \in arrived..sent, readAll(arrived'),
         UNCHANGED <<script, sent, parsed, payloads, delivered>>, working' \in BOOLEAN
  PROVE  StreamInv'
<1> USE DEF readAll
<1>1. /\ prepared \in Seq(Parts) /\ Sound(prepared, parsed)
      /\ prepared # <<>> /\ prepared[Len(prepared)].state # "Completed"
  BY Prepared DEF StreamInv
<1>2. Length' = Length
  BY DEF Length
<1>3. arrived' \in 0..sent /\ parsed \in 0..arrived'
  BY ScriptFrames DEF StreamInv, ReaderTypeOK
<1>4. ReaderTypeOK'
  BY <1>1, <1>2, <1>3 DEF StreamInv, ReaderTypeOK, Parts, Numbers
<1>5. Sound(frames, parsed)'
  BY <1>1, SoundKept
<1> QED
  BY <1>1, <1>4, <1>5 DEF StreamInv, Parsing

LEMMA StreamReadyRead == StreamInv /\ ReadyRead => StreamInv'
<1> SUFFICES ASSUME StreamInv, ReadyRead PROVE StreamInv'
  OBVIOUS
<1> USE DEF ReadyRead
<1>1. arrived' \in arrived..sent /\ working \in BOOLEAN /\ arrived' \in 0..sent /\ taken \in 0..arrived'
  BY ScriptFrames DEF StreamInv, ReaderTypeOK
<1>2. CASE working
  <2>1. Length' = Length
    BY DEF Length
  <2>2. ReaderTypeOK'
    BY <1>1, <1>2, <2>1 DEF StreamInv, ReaderTypeOK
  <2>3. Sound(frames, parsed)'
    BY <1>2, SoundKept DEF StreamInv
  <2> QED
    BY <1>2, <2>2, <2>3 DEF StreamInv, Parsing
<1>3. CASE ~working
  BY <1>1, <1>3, StreamReadAll
<1> QED
  BY <1>2, <1>3

LEMMA StreamParse == StreamInv /\ parse => StreamInv'
<1> SUFFICES ASSUME StreamInv, parse PROVE StreamInv'
  OBVIOUS
<1> USE DEF parse
<1>1. Progress(parsed') /\ frames # <<>> /\ frames[Len(frames)].state # "Completed"
  BY Progresses
<1>2. /\ progress \in Seq(Parts) /\ Len(progress) = Len(frames) /\ progress # <<>>
      /\ progress[Len(frames)] = progressed /\ Sound(progress, parsed')
  BY <1>1, SoundProgress
<1>3. Length' = Length
  BY DEF Length
<1>4. parsed' \in 0..taken
  BY <1>1 DEF Progress, StreamInv, ReaderTypeOK
<1>5. ReaderTypeOK
  BY DEF StreamInv
<1>6. /\ frames' \in Seq(Parts) /\ Sound(frames', parsed') /\ frames' # <<>>
      /\ parsed' < taken => frames'[Len(frames')].state # "Completed"
  <2>1. CASE progressed.state = "Completed"
    <3>1. PICK atEnd \in BOOLEAN : atEnd = (parsed' = taken)
      OBVIOUS
    <3>2. frames' = completed(progress, atEnd)
      BY <2>1, <3>1 DEF progress
    <3>3. parsed' < taken => ~atEnd
      <4>1. taken \in Nat /\ parsed' \in Nat
        BY <1>4, <1>5, ScriptFrames DEF ReaderTypeOK
      <4>2. parsed' < taken => ~(parsed' = taken)
        BY <4>1
      <4> QED
        BY <3>1, <4>2, Zenon
    <3> QED
      BY <1>2, <1>5, <2>1, <3>2, <3>3, SoundCompleted
  <2>2. CASE progressed.state # "Completed"
    BY <1>2, <2>2 DEF progress
  <2> QED
    BY <2>1, <2>2
<1>7. ReaderTypeOK'
  BY <1>3, <1>4, <1>5, <1>6 DEF ReaderTypeOK, Parts, Numbers
<1>8. Sound(frames, parsed)'
  BY <1>6, SoundKept
<1> QED
  BY <1>6, <1>7, <1>8 DEF StreamInv, Parsing

LEMMA StreamParseEnd == StreamInv /\ ParseEnd => StreamInv'
<1> SUFFICES ASSUME StreamInv, ParseEnd PROVE StreamInv'
  OBVIOUS
<1> USE DEF ParseEnd
<1>1. Length' = Length
  BY DEF Length
<1>2. ReaderTypeOK'
  BY <1>1 DEF StreamInv, ReaderTypeOK
<1>3. Sound(frames, parsed)'
  BY SoundKept DEF StreamInv
<1> QED
  BY <1>2, <1>3 DEF StreamInv, Parsing

\* The least of the frames that end a message, and the frames up to it.
LEMMA Collected ==
  ASSUME StreamInv, ends # {}
  PROVE  LET m == Min(ends)
         IN /\ m \in 1..Len(frames) /\ isFinal(frames[m])
            /\ \A i \in 1..m - 1 : ~isFinal(frames[i])
            /\ \A i \in 1..m : frames[i].state = "Completed" /\ frames[i].frame \in Numbers
<1>1. frames \in Seq(Parts)
  BY DEF StreamInv, ReaderTypeOK, Parts, Numbers
<1>2. Len(frames) \in Nat /\ DOMAIN frames = 1..Len(frames)
  BY <1>1, LenProperties
<1>3. ends \in SUBSET Nat
  BY <1>2 DEF ends
<1>4. PICK m : m = Min(ends)
  OBVIOUS
<1>5. m \in ends /\ \A y \in ends : m <= y
  BY <1>3, <1>4, MinIs
<1>6. m \in 1..Len(frames) /\ isFinal(frames[m])
  BY <1>2, <1>5 DEF ends, endsMessage
<1>7. \A i \in 1..m - 1 : ~isFinal(frames[i])
  BY <1>2, <1>5, <1>6 DEF ends, endsMessage
<1>8. \A i \in 1..m : i \in 1..Len(frames) /\ (i = m \/ i # Len(frames))
  <2>1. PICK n \in Nat : n = Len(frames)
    BY <1>2
  <2>2. m \in 1..n
    BY <1>6, <2>1
  <2>3. \A i \in 1..m : i \in 1..n /\ (i = m \/ i # n)
    BY <2>2
  <2> QED
    BY SMTT(60), <2>1, <2>3
<1>9. \A i \in 1..m : frames[i].state = "Completed"
  BY <1>6, <1>8 DEF StreamInv, Sound, isFinal
<1>10. \A i \in 1..m : frames[i].frame \in Numbers
  <2> TAKE i \in 1..m
  <2>1. frames[i] \in Parts /\ frames[i].frame # 0
    BY <1>1, <1>8, <1>9, ElementOfSeq DEF StreamInv, Sound
  <2> QED
    BY <2>1 DEF Parts
<1> QED
  BY <1>4, <1>6, <1>7, <1>9, <1>10

LEMMA StreamCollect == StreamInv /\ CollectMessage => StreamInv'
<1> SUFFICES ASSUME StreamInv, CollectMessage PROVE StreamInv'
  OBVIOUS
<1> USE DEF CollectMessage
<1>1. PICK m : m = Min(ends)
  OBVIOUS
<1>2. /\ m \in 1..Len(frames) /\ isFinal(frames[m])
      /\ \A i \in 1..m : frames[i].frame \in Numbers
  BY <1>1, Collected
<1>3. frames \in Seq(Parts) /\ ReaderTypeOK
  BY DEF StreamInv, ReaderTypeOK, Parts, Numbers
<1>4. PICK n \in Nat : n = Len(frames)
  BY <1>3, LenProperties
<1>5. frames' = SubSeq(frames, m + 1, n) /\ frames' \in Seq(Parts)
  BY <1>1, <1>2, <1>3, <1>4, Rest
<1>6. Sound(frames', parsed)
  BY <1>1, <1>2, <1>3, SoundRest DEF StreamInv, isFinal
<1>7. payloads' \in Seq(Seq(Numbers))
  <2> DEFINE message == [i \in 1..m |-> frames[i].frame]
  <2>1. m \in Nat
    BY <1>2, <1>4
  <2>2. message \in Seq(Numbers)
    BY <1>2, <2>1, IsASeq
  <2>3. payloads \in Seq(Seq(Numbers)) /\ payloads' = Append(payloads, message)
    BY <1>1, <1>3 DEF ReaderTypeOK, Numbers
  <2> HIDE DEF message
  <2> QED
    BY <2>2, <2>3, AppendProperties
<1>8. Length' = Length
  BY DEF Length
<1>9. ReaderTypeOK'
  BY <1>3, <1>5, <1>7, <1>8 DEF ReaderTypeOK, Parts, Numbers
<1>10. Sound(frames, parsed)'
  BY <1>6, SoundKept
<1> QED
  BY <1>9, <1>10 DEF StreamInv, Parsing

LEMMA StreamStart == StreamInv /\ StartReceiving => StreamInv'
<1> SUFFICES ASSUME StreamInv, StartReceiving PROVE StreamInv'
  OBVIOUS
<1> USE DEF StartReceiving
<1>1. Length' = Length
  BY DEF Length
<1>2. ReaderTypeOK'
  BY <1>1 DEF StreamInv, ReaderTypeOK
<1>3. Sound(frames, parsed)'
  BY SoundKept DEF StreamInv
<1> QED
  BY <1>2, <1>3 DEF StreamInv, Parsing

LEMMA StreamRelease == StreamInv /\ releaseReceiving => StreamInv'
<1> SUFFICES ASSUME StreamInv, releaseReceiving PROVE StreamInv'
  OBVIOUS
<1> USE DEF releaseReceiving
<1>1. CASE bytesAvailable
  <2>1. arrived' \in arrived..sent /\ arrived' = arrived
    BY ScriptFrames DEF StreamInv, ReaderTypeOK
  <2> QED
    BY <1>1, <2>1, StreamReadAll
<1>2. CASE ~bytesAvailable
  <2>1. Length' = Length
    BY DEF Length
  <2>2. ReaderTypeOK'
    BY <1>2, <2>1 DEF StreamInv, ReaderTypeOK
  <2>3. Sound(frames, parsed)'
    BY <1>2, SoundKept DEF StreamInv
  <2> QED
    BY <1>2, <2>2, <2>3 DEF StreamInv, Parsing
<1> QED
  BY <1>1, <1>2

LEMMA StreamExecute == StreamInv /\ ExecuteMessage => StreamInv'
<1> SUFFICES ASSUME StreamInv, ExecuteMessage PROVE StreamInv'
  OBVIOUS
<1> USE DEF ExecuteMessage
<1>1. payloads \in Seq(Seq(Numbers)) /\ delivered \in Seq(Seq(Numbers)) /\ payloads # <<>>
  BY DEF StreamInv, ReaderTypeOK, Numbers
<1>2. Head(payloads) \in Seq(Numbers) /\ payloads' \in Seq(Seq(Numbers))
  BY <1>1, HeadTailProperties
<1>3. delivered' \in Seq(Seq(Numbers))
  BY <1>1, <1>2, AppendProperties
<1>4. Length' = Length
  BY DEF Length
<1>5. ReaderTypeOK'
  BY <1>2, <1>3, <1>4 DEF StreamInv, ReaderTypeOK, Numbers
<1>6. Sound(frames, parsed)'
  BY SoundKept DEF StreamInv
<1> QED
  BY <1>5, <1>6 DEF StreamInv, Parsing

LEMMA StreamStep == StreamInv /\ [ReaderNext]_ReaderVars => StreamInv'
<1> SUFFICES ASSUME StreamInv, [ReaderNext]_ReaderVars PROVE StreamInv'
  OBVIOUS
<1>1. CASE UNCHANGED ReaderVars
  <2>1. Length' = Length
    BY <1>1 DEF Length, ReaderVars
  <2>2. ReaderTypeOK'
    BY <1>1, <2>1 DEF StreamInv, ReaderTypeOK, ReaderVars
  <2>3. Sound(frames, parsed)'
    BY <1>1, SoundKept DEF StreamInv, ReaderVars
  <2> QED
    BY <1>1, <2>2, <2>3 DEF StreamInv, Parsing, ReaderVars
<1>2. CASE ReaderNext
  BY <1>2, StreamSendPiece, StreamReadyRead, StreamParse, StreamParseEnd, StreamCollect,
     StreamStart, StreamRelease, StreamExecute DEF ReaderNext, Reader
<1> QED
  BY <1>1, <1>2

\* What holds in every state of the parser.
LEMMA StreamCorrect == ReaderSpec => []StreamInv
BY StreamInit, StreamStep, PTL DEF ReaderSpec

\* Every variable of the reader keeps its type, and the positions their order.
THEOREM SpecReaderTypeOK == ReaderSpec => []ReaderTypeOK
<1>1. StreamInv => ReaderTypeOK
  BY SMTT(60) DEF StreamInv
<1> QED
  BY <1>1, StreamCorrect, PTL

\* For any frames in any pieces, parse() knows where in the stream it is: it has of each
\* frame what was sent of it, and seeks headers where frames begin.
THEOREM SpecInStep == ReaderSpec => []InStep
<1>1. StreamInv => InStep
  <2> SUFFICES ASSUME StreamInv PROVE InStep
    OBVIOUS
  <2>1. parsed <= taken
    BY ScriptFrames DEF StreamInv, ReaderTypeOK
  <2>2. DOMAIN frames = 1..Len(frames)
    BY LenProperties DEF StreamInv, ReaderTypeOK
  <2>3. \A i \in 1..Len(frames) : frames[i].state = "Empty" => boundary(parsed)
    <3> TAKE i \in 1..Len(frames)
    <3> HAVE frames[i].state = "Empty"
    <3>1. i = Len(frames)
      BY DEF StreamInv, Sound
    <3> QED
      BY <3>1 DEF StreamInv, Sound
  <2> QED
    BY <2>1, <2>2, <2>3 DEF StreamInv, Sound, InStep, boundary, Numbers
<1> QED
  BY <1>1, StreamCorrect, PTL

-----------------------------------------------------------------------------
(* The order of the frames *)

\* The messages there are, those that wait for the worker behind the delivered ones.
messages == delivered \o payloads

Among(list, e, k)   == \E j \in 1..k : list[j].frame = e
Given(out, e)       == \E j \in DOMAIN out : \E b \in DOMAIN out[j] : out[j][b] = e
SameKind(e, f)      == control(e) <=> control(f)

\* A list of frames behind messages, of the stream up to p: all frames that begin before p
\* are there, each behind those of its kind that were sent before it, and a control frame
\* is only behind data frames that were.
Ordered(list, out, p) ==
  /\ \A e \in Numbers : begin(e) < p <=> Given(out, e) \/ Among(list, e, Len(list))
  /\ \A i \in 1..Len(list) : list[i].frame # 0 =>
       \A e \in Numbers : SameKind(e, list[i].frame) =>
         (e < list[i].frame <=> Given(out, e) \/ Among(list, e, i - 1))
  /\ \A i, j \in 1..Len(list) :
       i < j /\ list[i].frame # 0 /\ ~control(list[i].frame)
             /\ list[j].frame # 0 /\ control(list[j].frame) => list[i].frame < list[j].frame

OrderInv == orderly => whole(messages) /\ Ordered(frames, messages, parsed)

LEMMA Orderly ==
  ASSUME ReaderTypeOK
  PROVE  /\ \A f \in Numbers : control(f) => script[f].fin
         /\ orderly => \A e, f \in Numbers : e < f /\ control(f) =>
              script[e].fin /\ (control(e) => \A d \in Numbers : d < e => control(d))
<1>1. \A f \in Numbers : control(f) => script[f].fin
  BY ScriptFrames DEF ValidScript, control, Numbers
<1>2. ASSUME orderly, NEW e \in Numbers, NEW f \in Numbers, e < f, control(f)
      PROVE  script[e].fin /\ (control(e) => \A d \in Numbers : d < e => control(d))
  <2>1. e \in 1..f - 1 /\ \A d \in Numbers : d < e => d \in 1..e - 1
    BY <1>2, ScriptFrames
  <2> QED
    BY <1>2, <2>1 DEF orderly, Numbers
<1> QED
  BY <1>1, <1>2

\* What a continuation continues.
LEMMA Continues ==
  ASSUME ReaderTypeOK, orderly, NEW f \in Numbers, script[f].op = "cont"
  PROVE  f - 1 \in Numbers /\ ~script[f - 1].fin /\ ~control(f - 1) /\ ~control(f)
<1>1. PICK e \in 1..f - 1 : ~script[e].fin /\ \A d \in e + 1..f - 1 : script[d].op \in ControlOps
  BY ScriptFrames DEF ValidScript, Numbers
<1>2. f \in Nat /\ e \in Nat /\ e \in Numbers /\ f - 1 \in Numbers
  BY <1>1, ScriptFrames
<1>3. e = f - 1
  <2> SUFFICES ASSUME e # f - 1 PROVE FALSE
    OBVIOUS
  <2>1. f - 1 \in e + 1..f - 1 /\ e < f - 1
    BY <1>1, <1>2
  <2>2. control(f - 1)
    BY <1>1, <2>1 DEF control
  <2> QED
    BY <1>1, <1>2, <2>1, <2>2, Orderly
<1>4. ~control(f - 1)
  BY <1>1, <1>2, <1>3, Orderly
<1>5. ~control(f)
  BY DEF control, ControlOps
<1> QED
  BY <1>1, <1>2, <1>3, <1>4, <1>5

\* Frames begin in their order.
LEMMA BeginOrder ==
  ASSUME ReaderTypeOK, NEW e \in Numbers, NEW f \in Numbers
  PROVE  /\ begin(e) < begin(f) <=> e < f
         /\ e < f => begin(e) < script[e].end /\ script[e].end <= begin(f)
<1>1. /\ begin(e) \in Nat /\ begin(f) \in Nat /\ script[e].end \in Nat /\ script[f].end \in Nat
      /\ begin(e) < script[e].end /\ begin(f) < script[f].end /\ e \in Nat /\ f \in Nat
  BY ScriptFrames
<1>2. e < f => script[e].end <= begin(f)
  BY ScriptOrder
<1>3. f < e => script[f].end <= begin(e)
  BY ScriptOrder
<1> QED
  BY <1>1, <1>2, <1>3

\* The round of parse() takes the stream into the current frame and no other.
LEMMA ProgressBegins ==
  ASSUME StreamInv, NEW q, Progress(q), NEW e \in Numbers
  PROVE  begin(e) < q <=> begin(e) < parsed \/ e = progressed.frame
<1>1. PICK f \in Numbers : f = progressed.frame
  BY DEF Progress
<1>2. ReaderTypeOK
  BY DEF StreamInv
<1>3. /\ begin(e) \in Nat /\ begin(f) \in Nat /\ script[f].end \in Nat /\ script[f].len \in Nat
      /\ script[f].end = begin(f) + 2 + script[f].len /\ e \in Nat /\ f \in Nat
  BY <1>2, ScriptFrames
<1>4. parsed \in Nat /\ q \in Nat /\ parsed < q /\ begin(f) <= parsed
  BY <1>1, <1>2, <1>3 DEF Progress, ReaderTypeOK
<1>5. q <= script[f].end
  <2>1. progressed.state = "Completed" => q = script[f].end
    BY <1>1 DEF Progress
  <2>2. progressed.state # "Completed" =>
          /\ progressed.size < script[f].len
          /\ q = begin(f) + 2 + progressed.size
    BY <1>1 DEF Progress
  <2>3. progressed.size \in Nat
    BY DEF Progress, Parts
  <2> QED
    BY <1>3, <2>1, <2>2, <2>3
<1>6. e < f => begin(e) < parsed
  <2>1. e < f => begin(e) < begin(f)
    BY <1>2, BeginOrder
  <2> QED
    BY <1>3, <1>4, <2>1
<1>7. f < e => ~(begin(e) < q)
  <2>1. f < e => script[f].end <= begin(e)
    BY <1>2, BeginOrder
  <2> QED
    BY <1>3, <1>4, <1>5, <2>1
<1>8. e = f => begin(e) < q
  BY <1>3, <1>4
<1>9. begin(e) < parsed => begin(e) < q
  BY <1>3, <1>4
<1> QED
  BY <1>1, <1>3, <1>6, <1>7, <1>8, <1>9

LEMMA OrderedEmpty ==
  ASSUME ReaderTypeOK, NEW list \in Seq(Parts), NEW out, NEW p, Ordered(list, out, p)
  PROVE  Ordered(Append(list, Empty), out, p)
<1>1. PICK n \in Nat : n = Len(list)
  BY LenProperties
<1> DEFINE new == Append(list, Empty)
<1>2. Len(new) = n + 1 /\ new[n + 1] = Empty /\ \A i \in 1..n : new[i] = list[i]
  BY <1>1, EmptyPart, AppendProperties
<1> HIDE DEF new
<1>3. \A i \in 1..n + 1 : i \in 1..n \/ (i = n + 1 /\ new[i].frame = 0)
  BY <1>1, <1>2, EmptyPart
<1>4. 0 \notin Numbers
  BY ScriptFrames
<1>5. \A e \in Numbers : Among(new, e, n + 1) <=> Among(list, e, n)
  <2>1. \A i \in 1..n : i \in 1..n + 1
    OBVIOUS
  <2> QED
    BY <1>2, <1>3, <1>4, <2>1 DEF Among
<1>6. \A i \in 1..n : \A e \in Numbers : Among(new, e, i - 1) <=> Among(list, e, i - 1)
  <2>1. \A i \in 1..n : \A j \in 1..i - 1 : j \in 1..n
    OBVIOUS
  <2> QED
    BY <1>2, <2>1 DEF Among
<1>7. \A e \in Numbers : begin(e) < p <=> Given(out, e) \/ Among(new, e, n + 1)
  BY <1>1, <1>5 DEF Ordered
<1>8. \A i \in 1..n + 1 : new[i].frame # 0 =>
        \A e \in Numbers : SameKind(e, new[i].frame) =>
          (e < new[i].frame <=> Given(out, e) \/ Among(new, e, i - 1))
  BY <1>1, <1>2, <1>3, <1>6 DEF Ordered
<1>9. \A i, j \in 1..n + 1 :
        i < j /\ new[i].frame # 0 /\ ~control(new[i].frame)
              /\ new[j].frame # 0 /\ control(new[j].frame) => new[i].frame < new[j].frame
  BY <1>1, <1>2, <1>3 DEF Ordered
<1>10. Ordered(new, out, p)
  BY <1>2, <1>7, <1>8, <1>9 DEF Ordered
<1> QED
  BY <1>10 DEF new

LEMMA OrderedProgress ==
  ASSUME StreamInv, NEW q, Progress(q), frames # <<>>,
         frames[Len(frames)].state # "Completed", NEW out, Ordered(frames, out, parsed)
  PROVE  Ordered(progress, out, q)
<1>1. frames \in Seq(Parts) /\ ReaderTypeOK
  BY DEF StreamInv, ReaderTypeOK, Parts, Numbers
<1>2. PICK n \in Nat \ {0} : n = Len(frames)
  BY <1>1, EmptySeq
<1>3. /\ progress \in Seq(Parts) /\ Len(progress) = n /\ progress[n] = progressed
      /\ \A i \in 1..n - 1 : progress[i] = frames[i]
  BY <1>2, SoundProgress
<1>4. PICK f \in Numbers : f = progressed.frame
  BY DEF Progress
<1>5. 0 \notin Numbers /\ \A e \in Numbers : e \in Nat
  BY <1>1, ScriptFrames
<1>6. \A e \in Numbers : begin(e) < q <=> begin(e) < parsed \/ e = f
  BY <1>4, ProgressBegins
<1>7. \A i \in 1..n : i = n \/ i \in 1..n - 1
  BY <1>2
<1>8. \A i \in 1..n : \A j \in 1..i - 1 : j \in 1..n - 1
  BY <1>2
<1>9. \A i \in 1..n : \A e \in Numbers : Among(progress, e, i - 1) <=> Among(frames, e, i - 1)
  BY <1>3, <1>8 DEF Among
<1>10. \A e \in Numbers : Among(progress, e, n) <=> Among(frames, e, n - 1) \/ e = f
  <2>1. n \in 1..n /\ \A i \in 1..n - 1 : i \in 1..n
    BY <1>2
  <2> QED
    BY <1>3, <1>4, <1>7, <2>1 DEF Among
<1>11. frames[n].frame = 0 <=> frames[n].state = "Empty"
  BY <1>2 DEF StreamInv, Sound
<1>12. \A e \in Numbers : Among(frames, e, n) <=> Among(frames, e, n - 1) \/ e = frames[n].frame
  <2>1. n \in 1..n /\ \A i \in 1..n - 1 : i \in 1..n
    BY <1>2
  <2> QED
    BY <1>7, <2>1 DEF Among
<1>13. \A e \in Numbers : begin(e) < parsed <=> Given(out, e) \/ Among(frames, e, n)
  BY <1>2 DEF Ordered
\* The frame is the one there was, or the next of the stream.
<1>14. \/ frames[n].frame = f
       \/ frames[n].frame = 0 /\ \A e \in Numbers : begin(e) < parsed <=> e < f
  <2>1. CASE frames[n].state = "Empty"
    <3>1. begin(f) = parsed
      BY <1>2, <1>4, <2>1 DEF Progress
    <3> QED
      BY <1>1, <1>11, <2>1, <3>1, BeginOrder
  <2>2. CASE frames[n].state # "Empty"
    BY <1>2, <1>4, <2>2 DEF Progress
  <2> QED
    BY <2>1, <2>2
<1>15. \A e \in Numbers : begin(e) < q <=> Given(out, e) \/ Among(progress, e, n)
  BY <1>5, <1>6, <1>10, <1>12, <1>13, <1>14
<1>16. \A e \in Numbers : SameKind(e, f) => (e < f <=> Given(out, e) \/ Among(progress, e, n - 1))
  <2>1. n \in 1..n
    BY <1>2
  <2>2. CASE frames[n].frame = f
    BY <1>2, <1>5, <1>9, <2>1, <2>2 DEF Ordered
  <2>3. CASE frames[n].frame = 0 /\ \A e \in Numbers : begin(e) < parsed <=> e < f
    BY <1>5, <1>9, <1>12, <1>13, <2>1, <2>3
  <2> QED
    BY <1>14, <2>2, <2>3
<1>17. \A i \in 1..n : progress[i].frame # 0 =>
         \A e \in Numbers : SameKind(e, progress[i].frame) =>
           (e < progress[i].frame <=> Given(out, e) \/ Among(progress, e, i - 1))
  <2> TAKE i \in 1..n
  <2>1. CASE i = n
    BY <1>3, <1>4, <1>16, <2>1
  <2>2. CASE i # n
    <3>1. i \in 1..n - 1
      BY <1>7, <2>2
    <3>2. frames[i].frame # 0 => \A e \in Numbers : SameKind(e, frames[i].frame) =>
            (e < frames[i].frame <=> Given(out, e) \/ Among(frames, e, i - 1))
      BY <1>2 DEF Ordered
    <3> QED
      BY <1>3, <1>9, <3>1, <3>2
  <2> QED
    BY <2>1, <2>2
<1>18. \A i, j \in 1..n :
         i < j /\ progress[i].frame # 0 /\ ~control(progress[i].frame)
               /\ progress[j].frame # 0 /\ control(progress[j].frame) =>
           progress[i].frame < progress[j].frame
  <2> SUFFICES ASSUME NEW i \in 1..n, NEW j \in 1..n, i < j,
                      progress[i].frame # 0, ~control(progress[i].frame),
                      progress[j].frame # 0, control(progress[j].frame)
               PROVE  progress[i].frame < progress[j].frame
    OBVIOUS
  <2>1. i \in 1..n - 1
    BY <1>2
  <2>2. progress[i] = frames[i] /\ progress[i].frame \in Numbers
    <3>1. frames[i] \in Parts
      BY <1>1, <1>2, ElementOfSeq
    <3> QED
      BY <1>3, <2>1, <3>1 DEF Parts
  <2>3. CASE j \in 1..n - 1
    <3>1. progress[j] = frames[j]
      BY <1>3, <2>3
    <3> QED
      BY <1>2, <2>2, <3>1 DEF Ordered
  <2>4. CASE j = n
    <3>1. progress[j].frame = f
      BY <1>3, <1>4, <2>4
    <3>2. CASE frames[n].frame = f
      BY <1>2, <2>2, <2>4, <3>1, <3>2 DEF Ordered
    <3>3. CASE frames[n].frame = 0 /\ \A e \in Numbers : begin(e) < parsed <=> e < f
      <4>1. Among(frames, progress[i].frame, n)
        BY <2>2 DEF Among
      <4> QED
        BY <1>13, <2>2, <3>1, <3>3, <4>1
    <3> QED
      BY <1>14, <3>2, <3>3
  <2> QED
    BY <1>7, <2>3, <2>4
<1> QED
  BY <1>3, <1>15, <1>17, <1>18 DEF Ordered

\* A control frame moves past data frames only.
LEMMA OrderedMoved ==
  ASSUME ReaderTypeOK, orderly, NEW list \in Seq(Parts), list # <<>>,
         \A i \in 1..Len(list) : list[i].frame \in Numbers,
         NEW out, NEW p, Ordered(list, out, p)
  PROVE  Ordered(moved(list), out, p)
<1>1. PICK n \in Nat \ {0} : n = Len(list)
  BY EmptySeq
<1> DEFINE new == moved(list)
<1>2. Len(new) = n
  BY <1>1, Moved
<1>3. CASE new = list
  BY <1>3
<1>4. ASSUME isControl(list[n]), NEW m \in 1..n - 1, ~isControl(list[m]),
             \A i \in 1..m - 1 : isControl(list[i]),
             \A k \in 1..n : new[k] = list[origin(k, m, n)]
      PROVE  Ordered(new, out, p)
  <2> DEFINE g(i) == list[i].frame
  <2>0. \A i \in 1..n : g(i) \in Numbers /\ g(i) # 0 /\ g(i) \in Nat
    BY <1>1, ScriptFrames
  <2>1. /\ control(g(n)) /\ ~control(g(m)) /\ \A i \in 1..m - 1 : control(g(i))
    BY <1>4 DEF isControl
  <2>2. n \in 1..n /\ m \in 1..n /\ m < n /\ m \in Nat
    BY <1>1
  <2>3. \A i \in 1..n : \A e \in Numbers : SameKind(e, g(i)) =>
          (e < g(i) <=> Given(out, e) \/ Among(list, e, i - 1))
    BY <1>1, <2>0 DEF Ordered
  <2>4. \A i, j \in 1..n : i < j /\ ~control(g(i)) /\ control(g(j)) => g(i) < g(j)
    BY <1>1, <2>0 DEF Ordered
  <2>5. \A k \in m + 1..n - 1 : ~control(g(k))
    <3> SUFFICES ASSUME NEW k \in m + 1..n - 1, control(g(k)) PROVE FALSE
      OBVIOUS
    <3>1. k \in 1..n /\ m < k /\ k \in 1..n - 1
      BY <2>2
    <3>2. g(m) < g(k)
      BY <2>1, <2>2, <2>4, <3>1
    <3>3. g(k) < g(n)
      <4>1. Among(list, g(k), n - 1)
        BY <3>1 DEF Among
      <4> QED
        BY <2>0, <2>1, <2>2, <2>3, <3>1, <4>1 DEF SameKind
    <3> QED
      BY <2>0, <2>1, <2>2, <3>1, <3>2, <3>3, Orderly
  <2>6. \A k \in 1..n : new[k].frame = g(origin(k, m, n)) /\ origin(k, m, n) \in 1..n
    <3>1. \A k \in 1..n : origin(k, m, n) \in 1..n
      BY <2>2 DEF origin
    <3> QED
      BY <1>4, <3>1
  <2>7. /\ \A k \in 1..m : new[k].frame = g(k)
        /\ new[m + 1].frame = g(n)
        /\ \A k \in m + 2..n : new[k].frame = g(k - 1) /\ k - 1 \in m + 1..n - 1
    <3>1. /\ \A k \in 1..m : k \in 1..n /\ origin(k, m, n) = k
          /\ m + 1 \in 1..n /\ origin(m + 1, m, n) = n
          /\ \A k \in m + 2..n : k \in 1..n /\ origin(k, m, n) = k - 1 /\ k - 1 \in m + 1..n - 1
      BY <2>2 DEF origin
    <3> QED
      BY <2>6, <3>1
  <2>8. \A k \in 1..n : k \in 1..m \/ k = m + 1 \/ k \in m + 2..n
    BY <2>2
  <2> HIDE DEF g, new
  <2>9. \A e \in Numbers : Among(new, e, n) <=> Among(list, e, n)
    <3> TAKE e \in Numbers
    <3>1. Among(new, e, n) => Among(list, e, n)
      BY <2>6 DEF Among, g
    <3>2. ASSUME NEW j \in 1..n, e = g(j) PROVE Among(new, e, n)
      <4>1. PICK k \in 1..n : origin(k, m, n) = j
        <5>1. CASE j \in 1..m
          BY <2>2, <5>1 DEF origin
        <5>2. CASE j = n
          <6>1. m + 1 \in 1..n /\ origin(m + 1, m, n) = n
            BY <2>2 DEF origin
          <6> QED
            BY <5>2, <6>1
        <5>3. CASE j \in m + 1..n - 1
          <6>1. j + 1 \in 1..n /\ origin(j + 1, m, n) = j
            BY <2>2, <5>3 DEF origin
          <6> QED
            BY <6>1
        <5> QED
          BY <2>2, <5>1, <5>2, <5>3
      <4> QED
        BY <2>6, <3>2, <4>1 DEF Among
    <3> QED
      BY <3>1, <3>2 DEF Among, g
  <2>10. \A e \in Numbers : begin(e) < p <=> Given(out, e) \/ Among(new, e, n)
    BY <1>1, <2>9 DEF Ordered
  \* The frames of its kind before each are the same.
  <2>11. \A k \in 1..n : \A e \in Numbers : SameKind(e, new[k].frame) =>
           (e < new[k].frame <=> Given(out, e) \/ Among(new, e, k - 1))
    <3> TAKE k \in 1..n
    <3> TAKE e \in Numbers
    <3> HAVE SameKind(e, new[k].frame)
    <3>1. CASE k \in 1..m
      <4>1. \A j \in 1..k - 1 : j \in 1..m
        BY <3>1
      <4>2. Among(new, e, k - 1) <=> Among(list, e, k - 1)
        BY <2>7, <4>1 DEF Among, g
      <4> QED
        BY <2>3, <2>7, <3>1, <4>2
    <3>2. CASE k = m + 1
      <4>1. control(e) /\ new[k].frame = g(n) /\ SameKind(e, g(n))
        BY <2>1, <2>7, <3>2 DEF SameKind
      <4>2. k - 1 = m
        BY <2>2, <3>2
      <4>3. \A j \in 1..n - 1 : j \in 1..m - 1 \/ ~control(g(j))
        <5>1. \A j \in 1..n - 1 : j \in 1..m - 1 \/ j = m \/ j \in m + 1..n - 1
          BY <2>2
        <5> QED
          BY <2>1, <2>5, <5>1
      <4>4. \A j \in 1..m - 1 : j \in 1..n - 1 /\ j \in 1..m
        BY <2>2
      <4>5. \A j \in 1..m : j \in 1..m - 1 \/ ~control(g(j))
        <5>1. \A j \in 1..m : j \in 1..m - 1 \/ j = m
          BY <2>2
        <5> QED
          BY <2>1, <5>1
      <4>6. Among(new, e, m) <=> Among(list, e, m - 1)
        BY <2>7, <4>1, <4>4, <4>5 DEF Among, g
      <4>7. Among(list, e, n - 1) <=> Among(list, e, m - 1)
        BY <4>1, <4>3, <4>4 DEF Among, g
      <4> QED
        BY <2>2, <2>3, <4>1, <4>2, <4>6, <4>7
    <3>3. CASE k \in m + 2..n
      <4>1. PICK l \in 1..n : l = k - 1 /\ l \in m + 1..n - 1
        BY <2>2, <3>3
      <4>2. new[k].frame = g(l) /\ ~control(e) /\ SameKind(e, g(l))
        BY <2>5, <2>7, <3>3, <4>1 DEF SameKind
      <4>3. Among(new, e, l) => Among(list, e, l - 1)
        <5>1. ASSUME NEW j \in 1..l, new[j].frame = e PROVE Among(list, e, l - 1)
          <6>1. CASE j \in 1..m
            <7>1. j \in 1..l - 1
              BY <4>1, <6>1
            <7> QED
              BY <2>7, <5>1, <6>1, <7>1 DEF Among, g
          <6>2. CASE j = m + 1
            BY <2>1, <2>7, <4>2, <5>1, <6>2
          <6>3. CASE j \in m + 2..n
            <7>1. j - 1 \in 1..l - 1
              BY <2>2, <4>1, <6>3
            <7> QED
              BY <2>7, <5>1, <6>3, <7>1 DEF Among, g
          <6> QED
            BY <2>2, <4>1, <6>1, <6>2, <6>3
        <5> QED
          BY <5>1 DEF Among
      <4>4. Among(list, e, l - 1) => Among(new, e, l)
        <5>1. ASSUME NEW j \in 1..l - 1, g(j) = e PROVE Among(new, e, l)
          <6>1. CASE j \in 1..m
            <7>1. j \in 1..l
              BY <4>1
            <7> QED
              BY <2>7, <5>1, <6>1, <7>1 DEF Among
          <6>2. CASE j \notin 1..m
            <7>1. PICK i \in 1..l : i = j + 1
              BY <4>1
            <7>2. i \in m + 2..n /\ i - 1 = j
              BY <2>2, <4>1, <6>2, <7>1
            <7> QED
              BY <2>7, <5>1, <7>1, <7>2 DEF Among
          <6> QED
            BY <6>1, <6>2
        <5> QED
          BY <5>1 DEF Among, g
      <4> QED
        BY <2>3, <4>1, <4>2, <4>3, <4>4
    <3> QED
      BY <2>8, <3>1, <3>2, <3>3
  <2>12. \A i, j \in 1..n :
           i < j /\ ~control(new[i].frame) /\ control(new[j].frame) => new[i].frame < new[j].frame
    <3> SUFFICES ASSUME NEW i \in 1..n, NEW j \in 1..n, i < j, ~control(new[i].frame),
                        control(new[j].frame)
                 PROVE  new[i].frame < new[j].frame
      OBVIOUS
    <3>1. ~(j \in m + 2..n)
      BY <2>5, <2>7
    <3>2. ~(i \in 1..m - 1)
      <4>1. \A k \in 1..m - 1 : k \in 1..m
        BY <2>2
      <4> QED
        BY <2>1, <2>7, <4>1
    <3>3. i = m /\ j = m + 1
      BY <2>2, <3>1, <3>2
    <3>4. new[i].frame = g(m) /\ new[j].frame = g(n)
      BY <2>2, <2>7, <3>3
    <3> QED
      BY <2>1, <2>2, <2>4, <3>4
  <2> QED
    BY <1>2, <2>10, <2>11, <2>12 DEF Ordered
<1> QED
  BY <1>1, <1>3, <1>4, Moved

\* Sequences: what moves from the front of one to the end of the other.
LEMMA ConcatAppend ==
  ASSUME NEW S, NEW s \in Seq(S), NEW t \in Seq(S), NEW x \in S
  PROVE  s \o Append(t, x) = Append(s \o t, x)
<1>1. <<x>> \in Seq(S) /\ s \o t \in Seq(S)
  BY ConcatProperties
<1>2. Append(t, x) = t \o <<x>> /\ Append(s \o t, x) = (s \o t) \o <<x>>
  BY <1>1, AppendIsConcat
<1> QED
  BY <1>1, <1>2, ConcatAssociative

LEMMA ConcatHead ==
  ASSUME NEW S, NEW s \in Seq(S), NEW t \in Seq(S), t # <<>>
  PROVE  Append(s, Head(t)) \o Tail(t) = s \o t
<1> DEFINE x == <<Head(t)>>
           r == Tail(t)
<1>1. PICK n \in Nat \ {0} : n = Len(t)
  BY EmptySeq
<1>2. Head(t) \in S /\ Head(t) = t[1] /\ r \in Seq(S) /\ Len(r) = n - 1
      /\ \A i \in 1..n - 1 : r[i] = t[i + 1]
  BY <1>1, HeadTailProperties
<1>3. x \in Seq(S) /\ Len(x) = 1 /\ x[1] = t[1]
  BY <1>2
<1>4. Append(s, Head(t)) = s \o x
  BY <1>2, AppendIsConcat
<1> HIDE DEF x, r
<1>5. /\ x \o r \in Seq(S) /\ Len(x \o r) = Len(x) + Len(r)
      /\ \A i \in 1..Len(x) + Len(r) : (x \o r)[i] = IF i <= Len(x) THEN x[i] ELSE r[i - Len(x)]
  BY ZenonT(60), <1>2, <1>3, ConcatProperties
<1>6. Len(x \o r) = n /\ \A i \in 1..n : (x \o r)[i] = IF i <= 1 THEN x[i] ELSE r[i - 1]
  <2>1. 1 + (n - 1) = n
    OBVIOUS
  <2> QED
    BY <1>2, <1>3, <1>5, <2>1
<1>7. \A i \in 1..n : (x \o r)[i] = t[i]
  <2> TAKE i \in 1..n
  <2>1. CASE i = 1
    BY <1>3, <1>6, <2>1
  <2>2. CASE i # 1
    <3>1. i - 1 \in 1..n - 1 /\ (i - 1) + 1 = i
      BY <2>2
    <3> QED
      BY SMTT(60), <1>2, <1>6, <2>2, <3>1
  <2> QED
    BY <2>1, <2>2
<1>8. x \o r = t
  BY <1>1, <1>5, <1>6, <1>7, SeqEqual
<1>9. (s \o x) \o r = s \o (x \o r)
  BY SMTT(60), <1>2, <1>3, ConcatAssociative
<1> QED
  BY <1>4, <1>8, <1>9 DEF r

LEMMA EarlierIs ==
  ASSUME NEW out, NEW i, NEW a, NEW e
  PROVE  e \in earlier(out, i, a) <=>
           \E j \in 1..i : \E b \in DOMAIN out[j] : (j < i \/ b < a) /\ out[j][b] = e
BY DEF earlier

\* No frame of an orderly stream continues nothing: the fragment before is in the list.
LEMMA NotInvalid ==
  ASSUME ReaderTypeOK, orderly, NEW list \in Seq(Parts), list # <<>>,
         \A i \in 1..Len(list) : list[i].frame \in Numbers,
         NEW out \in Seq(Seq(Numbers)), whole(out), NEW p, Ordered(list, out, p)
  PROVE  ~isInvalid(list)
<1> SUFFICES ASSUME isInvalid(list) PROVE FALSE
  OBVIOUS
<1>1. PICK n \in Nat \ {0} : n = Len(list)
  BY EmptySeq
<1> DEFINE g(i) == list[i].frame
<1>2. PICK f \in Numbers : f = g(n)
  BY <1>1
<1>3. script[f].op = "cont" /\ n >= 2 /\ (isFinal(list[n - 1]) \/ isControl(list[n - 1]))
  BY <1>1, <1>2 DEF isInvalid, Last
<1>4. PICK e \in Numbers : e = f - 1 /\ ~script[e].fin /\ ~control(e) /\ ~control(f)
  BY <1>3, Continues
<1>5. n \in 1..n /\ n - 1 \in 1..n /\ f \in Nat /\ e \in Nat /\ e < f
      /\ \A i \in 1..n : g(i) \in Numbers /\ g(i) # 0 /\ g(i) \in Nat
  <2>1. 0 \notin Numbers /\ \A i \in Numbers : i \in Nat
    BY ScriptFrames
  <2>2. \A i \in 1..n : g(i) \in Numbers
    BY <1>1
  <2>3. e < f
    BY <1>4, <2>1
  <2> QED
    BY <1>1, <1>3, <2>1, <2>2, <2>3
<1>6. \A i \in 1..n : \A x \in Numbers : SameKind(x, g(i)) =>
        (x < g(i) <=> Given(out, x) \/ Among(list, x, i - 1))
  BY <1>1, <1>5 DEF Ordered
<1>7. \A i, j \in 1..n : i < j /\ ~control(g(i)) /\ control(g(j)) => g(i) < g(j)
  BY <1>1, <1>5 DEF Ordered
<1> HIDE DEF g
<1>8. ~Given(out, f)
  BY SMTT(60), <1>2, <1>5, <1>6 DEF SameKind
<1>9. ~Given(out, e)
  <2> SUFFICES ASSUME NEW j \in DOMAIN out, NEW b \in DOMAIN out[j], out[j][b] = e PROVE FALSE
    BY DEF Given
  <2>1. DOMAIN out = 1..Len(out) /\ Len(out) \in Nat
    BY LenProperties
  <2>2. out[j] \in Seq(Numbers)
    BY <2>1, ElementOfSeq
  <2>3. PICK k \in Nat : k = Len(out[j]) /\ DOMAIN out[j] = 1..k
    BY <2>2, LenProperties
  <2>4. b # k
    BY <1>4, <2>3 DEF whole
  <2>5. b + 1 \in DOMAIN out[j] /\ 1 \in DOMAIN out[j] /\ j \in 1..j /\ b < b + 1
    BY <2>1, <2>3, <2>4
  <2>6. PICK h \in Numbers : h = out[j][b + 1]
    BY <2>2, <2>3, <2>5, ElementOfSeq
  <2>7. ~control(h)
    BY <1>4, <2>5, <2>6 DEF whole
  <2>8. \A x \in Numbers : ~control(x) => (x \in earlier(out, j, b + 1) <=> x < h)
    <3>1. earlier(out, j, b + 1) \cap {x \in DOMAIN script : control(x) <=> control(h)}
            = {x \in {y \in DOMAIN script : control(y) <=> control(h)} : x < h}
      BY <2>5, <2>6 DEF whole
    <3> QED
      BY <2>7, <3>1 DEF Numbers
  <2>9. e < h
    BY <1>4, <2>5, <2>8, EarlierIs
  <2>10. ~(f < h)
    <3> SUFFICES ASSUME f < h PROVE FALSE
      OBVIOUS
    <3>1. f \in earlier(out, j, b + 1)
      BY <1>4, <2>8
    <3>2. \A i \in 1..j : i \in DOMAIN out
      BY <2>1
    <3> QED
      BY SMTT(60), <1>8, <3>1, <3>2, EarlierIs DEF Given
  <2>11. h # f
    BY <1>8, <2>5, <2>6 DEF Given
  <2>12. h \in Nat
    BY ScriptFrames
  <2> QED
    BY <1>4, <1>5, <2>9, <2>10, <2>11, <2>12
<1>10. PICK j \in 1..n - 1 : g(j) = e
  BY <1>2, <1>4, <1>5, <1>6, <1>9 DEF SameKind, Among, g
<1>11. j = n - 1
  <2> SUFFICES ASSUME j # n - 1 PROVE FALSE
    OBVIOUS
  <2>1. PICK m \in 1..n : m = n - 1 /\ m \in 1..n - 1 /\ j \in 1..m - 1 /\ j \in 1..n /\ j < m
    BY <1>3, <1>10
  <2>2. CASE control(g(m))
    <3>1. e < g(m)
      BY <1>4, <1>7, <1>10, <2>1, <2>2
    <3> QED
      BY <1>4, <1>5, <2>2, <3>1, Orderly
  <2>3. CASE ~control(g(m))
    <3>1. e < g(m)
      <4>1. Among(list, e, m - 1)
        BY <1>10, <2>1 DEF Among, g
      <4> QED
        BY <1>4, <1>6, <2>3, <4>1 DEF SameKind
    <3>2. g(m) < f
      <4>1. Among(list, g(m), n - 1)
        BY <2>1 DEF Among, g
      <4> QED
        BY <1>2, <1>4, <1>5, <1>6, <2>3, <4>1 DEF SameKind
    <3> QED
      BY <1>4, <1>5, <2>1, <3>1, <3>2
  <2> QED
    BY <2>2, <2>3
<1> QED
  BY <1>3, <1>4, <1>10, <1>11 DEF isFinal, isControl, g

LEMMA OrderedCompleted ==
  ASSUME ReaderTypeOK, orderly, NEW list \in Seq(Parts), list # <<>>,
         \A i \in 1..Len(list) : list[i].frame \in Numbers,
         NEW out \in Seq(Seq(Numbers)), whole(out), NEW p, Ordered(list, out, p),
         NEW atEnd \in BOOLEAN
  PROVE  Ordered(completed(list, atEnd), out, p)
<1>1. ~isInvalid(list)
  BY NotInvalid
<1>2. moved(list) \in Seq(Parts)
  BY Moved
<1>3. Ordered(moved(list), out, p)
  BY OrderedMoved
<1>4. Ordered(Append(moved(list), Empty), out, p)
  BY <1>2, <1>3, OrderedEmpty
<1> QED
  BY <1>1, <1>3, <1>4 DEF completed

\* A message is made of the frames at the head of the list.
LEMMA OrderedCollect ==
  ASSUME StreamInv, orderly, ends # {}, NEW out \in Seq(Seq(Numbers)), whole(out),
         Ordered(frames, out, parsed), NEW m, m = Min(ends),
         NEW message, message = [i \in 1..m |-> frames[i].frame]
  PROVE  /\ message \in Seq(Numbers) /\ whole(Append(out, message))
         /\ Ordered(SubSeq(frames, m + 1, Len(frames)), Append(out, message), parsed)
<1>1. frames \in Seq(Parts) /\ ReaderTypeOK
  BY DEF StreamInv, ReaderTypeOK, Parts, Numbers
<1>2. PICK n \in Nat : n = Len(frames)
  BY <1>1, LenProperties
<1> DEFINE g(i) == frames[i].frame
<1>3. /\ m \in 1..n /\ m \in Nat /\ script[g(m)].fin /\ \A i \in 1..m - 1 : ~script[g(i)].fin
      /\ \A i \in 1..m : g(i) \in Numbers /\ i \in 1..n
  <2>1. /\ m \in 1..n /\ isFinal(frames[m]) /\ \A i \in 1..m - 1 : ~isFinal(frames[i])
        /\ \A i \in 1..m : frames[i].state = "Completed" /\ g(i) \in Numbers
    BY <1>2, Collected
  <2>2. m \in Nat /\ \A i \in 1..m : i \in 1..n
    BY <1>2, <2>1
  <2>3. \A i \in 1..m - 1 : i \in 1..m
    BY <2>2
  <2> QED
    BY <2>1, <2>2, <2>3 DEF isFinal
<1>4. 0 \notin Numbers /\ \A e \in Numbers : e \in Nat
  BY <1>1, ScriptFrames
<1>5. \A i \in 1..n : g(i) # 0 => \A e \in Numbers : SameKind(e, g(i)) =>
        (e < g(i) <=> Given(out, e) \/ Among(frames, e, i - 1))
  BY <1>2 DEF Ordered
<1>6. \A i, j \in 1..n : i < j /\ g(i) # 0 /\ ~control(g(i)) /\ g(j) # 0 /\ control(g(j))
                           => g(i) < g(j)
  BY <1>2 DEF Ordered
<1>7. /\ message \in Seq(Numbers) /\ Len(message) = m /\ DOMAIN message = 1..m
      /\ \A i \in 1..m : message[i] = g(i)
  <2>1. message \in Seq(Numbers)
    BY SMTT(60), <1>3, IsASeq
  <2>2. DOMAIN message = 1..m /\ \A i \in 1..m : message[i] = g(i)
    OBVIOUS
  <2>3. Len(message) = m
    BY <1>3, <2>1, <2>2, LenProperties
  <2> QED
    BY <2>1, <2>2, <2>3
<1>8. PICK k \in Nat : k = Len(out) /\ DOMAIN out = 1..k
  BY LenProperties
<1> DEFINE new == Append(out, message)
<1>9. /\ new \in Seq(Seq(Numbers)) /\ DOMAIN new = 1..k + 1 /\ new[k + 1] = message
      /\ \A i \in 1..k : new[i] = out[i]
  <2>1. /\ new \in Seq(Seq(Numbers)) /\ Len(new) = k + 1 /\ new[k + 1] = message
        /\ \A i \in 1..k : new[i] = out[i]
    BY <1>7, <1>8, AppendProperties
  <2> QED
    BY <2>1, LenProperties
<1> HIDE DEF new, g
<1>10. \A i \in 1..k + 1 : i \in 1..k \/ i = k + 1
  BY <1>8
<1>11. k + 1 \in 1..k + 1 /\ \A i \in 1..k : i \in 1..k + 1 /\ i < k + 1
  BY <1>8
<1>12. \A e : Given(new, e) <=> Given(out, e) \/ Among(frames, e, m)
  <2> TAKE e
  <2>1. Given(new, e) => Given(out, e) \/ Among(frames, e, m)
    <3> SUFFICES ASSUME NEW j \in 1..k + 1, NEW b \in DOMAIN new[j], new[j][b] = e
                 PROVE  Given(out, e) \/ Among(frames, e, m)
      BY <1>9 DEF Given
    <3>1. CASE j \in 1..k
      BY <1>8, <1>9, <3>1 DEF Given
    <3>2. CASE j = k + 1
      BY <1>7, <1>9, <3>2 DEF Among, g
    <3> QED
      BY <1>10, <3>1, <3>2
  <2>2. Given(out, e) => Given(new, e)
    BY <1>8, <1>9, <1>11 DEF Given
  <2>3. Among(frames, e, m) => Given(new, e)
    <3> SUFFICES ASSUME NEW b \in 1..m, g(b) = e PROVE Given(new, e)
      BY DEF Among, g
    <3>1. k + 1 \in DOMAIN new /\ b \in DOMAIN new[k + 1] /\ new[k + 1][b] = e
      BY <1>7, <1>9, <1>11
    <3> QED
      BY <3>1 DEF Given
  <2> QED
    BY <2>1, <2>2, <2>3
\* The message begins with a data frame unless it is one control frame.
<1>13. \A a \in 1..m : control(g(1)) <=> control(g(a))
  <2> TAKE a \in 1..m
  <2>1. CASE m = 1
    BY <2>1
  <2>2. CASE m # 1
    <3>1. 1 \in 1..m - 1 /\ 1 \in 1..m /\ m \in 1..m /\ 1 < m
      BY <1>3, <2>2
    <3>2. \A i \in 1..m - 1 : i \in 1..m
      BY <1>3
    <3>3. \A i \in 1..m - 1 : ~control(g(i))
      BY <1>1, <1>3, <3>2, Orderly
    <3>4. ~control(g(m))
      <4> SUFFICES ASSUME control(g(m)) PROVE FALSE
        OBVIOUS
      <4>1. g(1) < g(m)
        BY <1>3, <1>4, <1>6, <3>1, <3>3
      <4> QED
        BY <1>1, <1>3, <3>1, <4>1, Orderly
    <3>5. a = m \/ a \in 1..m - 1
      BY <1>3
    <3> QED
      BY <3>1, <3>3, <3>4, <3>5
  <2> QED
    BY <2>1, <2>2
<1>14. whole(new)
  <2> SUFFICES ASSUME NEW i \in 1..k + 1, NEW a \in DOMAIN new[i]
               PROVE  LET f == new[i][a]
                          kind == {e \in DOMAIN script : control(e) <=> control(f)}
                      IN /\ script[f].fin <=> a = Len(new[i])
                         /\ control(new[i][1]) <=> control(f)
                         /\ earlier(new, i, a) \cap kind = {e \in kind : e < f}
    BY <1>9 DEF whole
  <2>1. CASE i \in 1..k
    <3>1. new[i] = out[i] /\ \A j \in 1..i : new[j] = out[j]
      <4>1. \A j \in 1..i : j \in 1..k
        BY <1>8, <2>1
      <4> QED
        BY <1>9, <2>1, <4>1
    <3>2. earlier(new, i, a) = earlier(out, i, a)
      <4>1. \A e : e \in earlier(new, i, a) <=>
              \E j \in 1..i : \E b \in DOMAIN new[j] : (j < i \/ b < a) /\ new[j][b] = e
        BY EarlierIs
      <4>2. \A e : e \in earlier(out, i, a) <=>
              \E j \in 1..i : \E b \in DOMAIN out[j] : (j < i \/ b < a) /\ out[j][b] = e
        BY EarlierIs
      <4>3. \A e : e \in earlier(new, i, a) <=> e \in earlier(out, i, a)
        BY ZenonT(60), <3>1, <4>1, <4>2
      <4> QED
        BY <4>3
    <3>3. LET f == out[i][a]
              kind == {e \in DOMAIN script : control(e) <=> control(f)}
          IN /\ script[f].fin <=> a = Len(out[i])
             /\ control(out[i][1]) <=> control(f)
             /\ earlier(out, i, a) \cap kind = {e \in kind : e < f}
      BY ZenonT(60), <1>8, <2>1, <3>1 DEF whole
    <3> QED
      BY <3>1, <3>2, <3>3
  <2>2. CASE i = k + 1
    <3>1. a \in 1..m /\ new[i] = message /\ new[i][a] = g(a) /\ new[i][1] = g(1) /\ 1 \in 1..m
      <4>1. new[i] = message
        BY <1>9, <2>2
      <4>2. a \in 1..m
        BY <1>7, <4>1
      <4>3. 1 \in 1..m
        BY <1>3, <4>2
      <4> QED
        BY <1>7, <4>1, <4>2, <4>3
    <3>2. script[g(a)].fin <=> a = m
      <4>1. a = m \/ a \in 1..m - 1
        BY <1>3, <3>1
      <4>2. m \notin 1..m - 1
        BY <1>3
      <4> QED
        BY <1>3, <4>1, <4>2
    <3>3. \A e : e \in earlier(new, i, a) <=> Given(out, e) \/ Among(frames, e, a - 1)
      <4> TAKE e
      <4>1. ASSUME NEW j \in 1..i, NEW b \in DOMAIN new[j], j < i \/ b < a, new[j][b] = e
            PROVE  Given(out, e) \/ Among(frames, e, a - 1)
        <5>1. CASE j \in 1..k
          BY <1>8, <1>9, <4>1, <5>1 DEF Given
        <5>2. CASE j = k + 1
          <6>1. b \in 1..m /\ b \in 1..a - 1 /\ e = g(b)
            <7>1. new[j] = message /\ ~(j < i)
              BY <1>8, <1>9, <2>2, <5>2
            <7>2. b \in 1..m /\ b < a /\ e = g(b)
              BY <1>7, <4>1, <7>1
            <7> QED
              BY <1>3, <3>1, <7>2
          <6> QED
            BY <6>1 DEF Among, g
        <5> QED
          BY <1>10, <2>2, <5>1, <5>2
      <4>2. Given(out, e) => e \in earlier(new, i, a)
        BY <1>8, <1>9, <1>11, <2>2, EarlierIs DEF Given
      <4>3. Among(frames, e, a - 1) => e \in earlier(new, i, a)
        <5> SUFFICES ASSUME NEW b \in 1..a - 1, g(b) = e PROVE e \in earlier(new, i, a)
          BY DEF Among, g
        <5>1. b \in 1..m /\ b < a /\ i \in 1..i
          BY <1>3, <1>8, <2>2, <3>1
        <5>2. b \in DOMAIN new[i] /\ new[i][b] = e
          BY <1>7, <3>1, <5>1
        <5> QED
          BY <5>1, <5>2, EarlierIs
      <4>4. e \in earlier(new, i, a) <=>
              \E j \in 1..i : \E b \in DOMAIN new[j] : (j < i \/ b < a) /\ new[j][b] = e
        BY EarlierIs
      <4> QED
        BY <4>1, <4>2, <4>3, <4>4
    <3> DEFINE kind == {e \in DOMAIN script : control(e) <=> control(g(a))}
    <3>4. earlier(new, i, a) \cap kind = {e \in kind : e < g(a)}
      <4>1. \A e \in kind : e \in earlier(new, i, a) <=> e < g(a)
        <5>1. g(a) # 0 /\ a \in 1..n
          BY <1>3, <1>4, <3>1
        <5>2. \A e \in kind : e \in Numbers /\ SameKind(e, g(a))
          BY DEF Numbers, SameKind
        <5> HIDE DEF kind
        <5> QED
          BY <1>5, <3>3, <5>1, <5>2
      <4> HIDE DEF kind
      <4> QED
        BY <4>1
    <3> QED
      BY ZenonT(60), <1>7, <1>13, <3>1, <3>2, <3>4
  <2> QED
    BY <1>10, <2>1, <2>2
<1> DEFINE rest == SubSeq(frames, m + 1, n)
<1>15. rest \in Seq(Parts) /\ Len(rest) = n - m /\ \A i \in 1..n - m : rest[i] = frames[m + i]
  BY SMTT(60), <1>1, <1>2, <1>3, Rest
<1> HIDE DEF rest
<1>16. \A i \in 1..n - m : m + i \in 1..n
  BY <1>2, <1>3
\* What is in the message or in the rest, was in the list.
<1>17. \A e : \A j \in 0..n - m : Among(frames, e, m + j) <=> Among(frames, e, m) \/ Among(rest, e, j)
  <2> TAKE e
  <2> TAKE j \in 0..n - m
  <2>1. ASSUME NEW i \in 1..m + j, g(i) = e PROVE Among(frames, e, m) \/ Among(rest, e, j)
    <3>1. CASE i \in 1..m
      BY <2>1, <3>1 DEF Among, g
    <3>2. CASE i \notin 1..m
      <4>1. PICK l \in 1..j : i = m + l /\ l \in 1..n - m
        <5>1. i - m \in 1..j /\ i = m + (i - m) /\ i - m \in 1..n - m
          BY <1>2, <1>3, <3>2
        <5> QED
          BY <5>1
      <4> QED
        BY <1>15, <2>1, <4>1 DEF Among, g
    <3> QED
      BY <3>1, <3>2
  <2>2. Among(frames, e, m) => Among(frames, e, m + j)
    <3>1. \A i \in 1..m : i \in 1..m + j
      BY <1>3
    <3> QED
      BY <3>1 DEF Among
  <2>3. Among(rest, e, j) => Among(frames, e, m + j)
    <3>1. \A i \in 1..j : i \in 1..n - m /\ m + i \in 1..m + j
      BY <1>2, <1>3
    <3> QED
      BY <1>15, <3>1 DEF Among
  <2> QED
    BY <2>1, <2>2, <2>3 DEF Among, g
<1>18. \A e \in Numbers : begin(e) < parsed <=> Given(new, e) \/ Among(rest, e, n - m)
  <2>1. n - m \in 0..n - m /\ m + (n - m) = n
    BY <1>2, <1>3
  <2>2. \A e : Among(frames, e, n) <=> Among(frames, e, m) \/ Among(rest, e, n - m)
    BY <1>17, <2>1
  <2>3. \A e \in Numbers : begin(e) < parsed <=> Given(out, e) \/ Among(frames, e, n)
    BY <1>2 DEF Ordered
  <2> QED
    BY <1>12, <2>2, <2>3
<1>19. \A i \in 1..n - m : rest[i].frame # 0 =>
         \A e \in Numbers : SameKind(e, rest[i].frame) =>
           (e < rest[i].frame <=> Given(new, e) \/ Among(rest, e, i - 1))
  <2> TAKE i \in 1..n - m
  <2>1. i - 1 \in 0..n - m /\ (m + i) - 1 = m + (i - 1)
    BY <1>2, <1>3
  <2>2. PICK l \in 1..n : l = m + i /\ l - 1 = m + (i - 1) /\ rest[i] = frames[l]
    BY <1>15, <1>16, <2>1
  <2>3. \A e : Among(frames, e, l - 1) <=> Among(frames, e, m) \/ Among(rest, e, i - 1)
    BY <1>17, <2>1, <2>2
  <2> QED
    BY <1>5, <1>12, <2>2, <2>3 DEF g
<1>20. \A i, j \in 1..n - m :
         i < j /\ rest[i].frame # 0 /\ ~control(rest[i].frame)
               /\ rest[j].frame # 0 /\ control(rest[j].frame) => rest[i].frame < rest[j].frame
  <2> TAKE i, j \in 1..n - m
  <2>1. PICK a \in 1..n : a = m + i /\ rest[i] = frames[a]
    BY <1>15, <1>16
  <2>2. PICK b \in 1..n : b = m + j /\ rest[j] = frames[b]
    BY <1>15, <1>16
  <2>3. i < j => a < b
    BY <1>3, <2>1, <2>2
  <2> QED
    BY <1>6, <2>1, <2>2, <2>3 DEF g
<1>21. Ordered(rest, new, parsed)
  BY <1>15, <1>18, <1>19, <1>20 DEF Ordered
<1> QED
  BY <1>2, <1>7, <1>14, <1>21 DEF new, rest

-----------------------------------------------------------------------------
(* Every step keeps the order *)

LEMMA OrderKept ==
  ASSUME script' = script, orderly', NEW list, NEW out, NEW p,
         orderly => whole(out) /\ Ordered(list, out, p),
         frames' = list, messages' = out, parsed' = p
  PROVE  whole(messages)' /\ Ordered(frames, messages, parsed)'
<1>1. Numbers' = Numbers
  BY DEF Numbers
<1>2. \A f : begin(f)' = begin(f) /\ (control(f)' <=> control(f))
  BY DEF begin, control
<1>3. orderly
  BY <1>2 DEF orderly
<1>4. whole(out) <=> whole(messages)'
  BY <1>2 DEF whole, earlier
<1>5. Ordered(list, out, p) <=> Ordered(frames, messages, parsed)'
  BY <1>1, <1>2 DEF Ordered, Given, Among, SameKind
<1> QED
  BY <1>3, <1>4, <1>5

LEMMA OrderSame ==
  ASSUME OrderInv, UNCHANGED <<script, frames, payloads, delivered, parsed>>
  PROVE  OrderInv'
<1>1. messages' = messages
  BY DEF messages
<1> QED
  BY <1>1, OrderKept DEF OrderInv

LEMMA MessagesType ==
  ASSUME ReaderTypeOK
  PROVE  /\ delivered \in Seq(Seq(Numbers)) /\ payloads \in Seq(Seq(Numbers))
         /\ messages \in Seq(Seq(Numbers))
<1>1. delivered \in Seq(Seq(Numbers)) /\ payloads \in Seq(Seq(Numbers))
  BY DEF ReaderTypeOK, Numbers
<1> QED
  BY <1>1, ConcatProperties DEF messages

LEMMA OrderInit == ReaderInit => OrderInv
<1> SUFFICES ASSUME ReaderInit PROVE OrderInv
  OBVIOUS
<1>1. ReaderTypeOK
  BY StreamInit DEF StreamInv
<1>2. messages = <<>>
  <2>1. <<>> \in Seq(Numbers)
    BY EmptySeq
  <2> QED
    BY <2>1, ConcatEmptySeq DEF messages, ReaderInit
<1>3. DOMAIN messages = {} /\ frames = <<>> /\ Len(frames) = 0 /\ parsed = 0
  BY <1>2 DEF ReaderInit
<1>4. \A e \in Numbers : ~(begin(e) < 0)
  BY <1>1, ScriptFrames
<1>5. whole(messages)
  BY <1>3 DEF whole
<1>6. \A e : ~Given(messages, e) /\ ~Among(frames, e, 0)
  BY <1>3 DEF Given, Among
<1>7. Ordered(frames, messages, parsed)
  BY <1>3, <1>4, <1>6 DEF Ordered
<1> QED
  BY <1>5, <1>7 DEF OrderInv

LEMMA OrderReadAll ==
  ASSUME StreamInv, OrderInv, readAll(arrived'), UNCHANGED <<script, parsed, payloads, delivered>>
  PROVE  OrderInv'
<1>1. frames \in Seq(Parts) /\ ReaderTypeOK
  BY DEF StreamInv, ReaderTypeOK, Parts, Numbers
<1>2. frames' = frames \/ frames' = Append(frames, Empty)
  BY <1>1, Prepared DEF readAll, StreamInv
<1>3. messages' = messages
  BY DEF messages
<1>4. ASSUME orderly PROVE whole(messages) /\ Ordered(frames', messages, parsed)
  BY <1>1, <1>2, <1>4, OrderedEmpty DEF OrderInv
<1> QED
  BY <1>3, <1>4, OrderKept DEF OrderInv

LEMMA OrderReadyRead == StreamInv /\ OrderInv /\ ReadyRead => OrderInv'
<1> SUFFICES ASSUME StreamInv, OrderInv, ReadyRead PROVE OrderInv'
  OBVIOUS
<1>1. CASE working
  BY <1>1, OrderSame DEF ReadyRead
<1>2. CASE ~working
  BY <1>2, OrderReadAll DEF ReadyRead
<1> QED
  BY <1>1, <1>2

LEMMA OrderRelease == StreamInv /\ OrderInv /\ releaseReceiving => OrderInv'
<1> SUFFICES ASSUME StreamInv, OrderInv, releaseReceiving PROVE OrderInv'
  OBVIOUS
<1>1. CASE bytesAvailable
  BY <1>1, OrderReadAll DEF releaseReceiving, readAll
<1>2. CASE ~bytesAvailable
  BY <1>2, OrderSame DEF releaseReceiving
<1> QED
  BY <1>1, <1>2

LEMMA OrderParse == StreamInv /\ OrderInv /\ parse => OrderInv'
<1> SUFFICES ASSUME StreamInv, OrderInv, parse PROVE OrderInv'
  OBVIOUS
<1>1. Progress(parsed') /\ frames # <<>> /\ frames[Len(frames)].state # "Completed"
  BY Progresses DEF parse
<1>2. ReaderTypeOK /\ frames \in Seq(Parts) /\ messages \in Seq(Seq(Numbers))
  BY MessagesType DEF StreamInv, ReaderTypeOK, Parts, Numbers
<1>3. PICK n \in Nat \ {0} : n = Len(frames)
  BY <1>1, <1>2, EmptySeq
<1>4. /\ progress \in Seq(Parts) /\ Len(progress) = n /\ progress # <<>>
      /\ progress[n] = progressed /\ Sound(progress, parsed')
  BY <1>1, <1>3, SoundProgress
<1>5. ASSUME orderly PROVE whole(messages) /\ Ordered(frames', messages, parsed')
  <2>1. whole(messages) /\ Ordered(progress, messages, parsed')
    BY <1>1, <1>5, OrderedProgress DEF OrderInv
  <2>2. CASE progressed.state = "Completed"
    <3>1. PICK atEnd \in BOOLEAN : atEnd = (parsed' = taken)
      OBVIOUS
    <3>2. frames' = completed(progress, atEnd)
      BY <2>2, <3>1 DEF progress, parse
    <3>3. \A i \in 1..n : progress[i].frame \in Numbers
      <4> TAKE i \in 1..n
      <4>1. progress[i] \in Parts
        BY <1>4, ElementOfSeq
      <4>2. progress[i].state # "Empty"
        BY <1>3, <1>4, <2>2 DEF Sound
      <4>3. progress[i].frame # 0
        BY <1>4, <4>2 DEF Sound
      <4> QED
        BY <4>1, <4>3 DEF Parts
    <3> QED
      BY <1>2, <1>4, <1>5, <2>1, <3>2, <3>3, OrderedCompleted
  <2>3. CASE progressed.state # "Completed"
    <3>1. frames' = progress
      BY <2>3 DEF progress, parse
    <3> QED
      BY <2>1, <3>1
  <2> QED
    BY <2>2, <2>3
<1>6. messages' = messages /\ script' = script
  BY DEF messages, parse
<1> QED
  BY <1>5, <1>6, OrderKept DEF OrderInv

LEMMA OrderCollect == StreamInv /\ OrderInv /\ CollectMessage => OrderInv'
<1> SUFFICES ASSUME StreamInv, OrderInv, CollectMessage PROVE OrderInv'
  OBVIOUS
<1>1. /\ delivered \in Seq(Seq(Numbers)) /\ payloads \in Seq(Seq(Numbers))
      /\ messages \in Seq(Seq(Numbers))
  BY MessagesType DEF StreamInv
<1>2. PICK m : m = Min(ends)
  OBVIOUS
<1> DEFINE message == [i \in 1..m |-> frames[i].frame]
<1>3. /\ ends # {} /\ payloads' = Append(payloads, message) /\ delivered' = delivered
      /\ frames' = SubSeq(frames, m + 1, Len(frames)) /\ parsed' = parsed /\ script' = script
  BY <1>2 DEF CollectMessage
<1>4. message \in Seq(Numbers)
  <2>1. m \in 1..Len(frames) /\ \A i \in 1..m : frames[i].frame \in Numbers
    BY <1>2, <1>3, Collected
  <2>2. m \in Nat
    BY <2>1, LenProperties DEF StreamInv, ReaderTypeOK
  <2> QED
    BY <2>1, <2>2, IsASeq
<1>5. ASSUME orderly
      PROVE  /\ whole(Append(messages, message))
             /\ Ordered(frames', Append(messages, message), parsed')
  BY <1>1, <1>2, <1>3, <1>5, OrderedCollect DEF OrderInv
<1> HIDE DEF message
<1>6. messages' = Append(messages, message)
  BY SMTT(60), <1>1, <1>3, <1>4, ConcatAppend DEF messages
<1> QED
  BY <1>3, <1>5, <1>6, OrderKept DEF OrderInv

LEMMA OrderExecute == StreamInv /\ OrderInv /\ ExecuteMessage => OrderInv'
<1> SUFFICES ASSUME StreamInv, OrderInv, ExecuteMessage PROVE OrderInv'
  OBVIOUS
<1>1. delivered \in Seq(Seq(Numbers)) /\ payloads \in Seq(Seq(Numbers))
  BY MessagesType DEF StreamInv
<1>2. messages' = messages
  BY <1>1, ConcatHead DEF messages, ExecuteMessage
<1> QED
  BY <1>2, OrderKept DEF OrderInv, ExecuteMessage

\* The inductive invariant for MessagesWhole.
MessagesInv == StreamInv /\ OrderInv

LEMMA MessagesStep == MessagesInv /\ [ReaderNext]_ReaderVars => MessagesInv'
<1> SUFFICES ASSUME StreamInv, OrderInv, [ReaderNext]_ReaderVars PROVE OrderInv'
  BY StreamStep DEF MessagesInv
<1>1. CASE UNCHANGED ReaderVars
  BY <1>1, OrderSame DEF ReaderVars
<1>2. CASE SendPiece \/ ParseEnd \/ StartReceiving
  BY <1>2, OrderSame DEF SendPiece, ParseEnd, StartReceiving
<1>3. CASE ReadyRead \/ parse \/ CollectMessage \/ releaseReceiving \/ ExecuteMessage
  BY <1>3, OrderReadyRead, OrderParse, OrderCollect, OrderRelease, OrderExecute
<1> QED
  BY <1>1, <1>2, <1>3 DEF ReaderNext, Reader

\* What is true of all messages is true of those that are delivered.
LEMMA WholeFront ==
  ASSUME ReaderTypeOK, whole(messages)
  PROVE  whole(delivered)
<1>1. PICK k \in Nat : k = Len(delivered) /\ DOMAIN delivered = 1..k
  BY MessagesType, LenProperties
<1>2. PICK l \in Nat : l = Len(payloads)
  BY MessagesType, LenProperties
<1>3. /\ messages \in Seq(Seq(Numbers)) /\ Len(messages) = k + l
      /\ \A i \in 1..k + l : messages[i] = IF i <= k THEN delivered[i] ELSE payloads[i - k]
  BY <1>1, <1>2, MessagesType, ConcatProperties DEF messages
<1>4. \A i \in 1..k : i \in DOMAIN messages /\ messages[i] = delivered[i]
  <2>1. DOMAIN messages = 1..k + l
    BY <1>3, LenProperties
  <2>2. \A i \in 1..k : i \in 1..k + l /\ i <= k
    BY <1>1, <1>2
  <2> QED
    BY <1>3, <2>1, <2>2
<1> SUFFICES ASSUME NEW i \in 1..k, NEW a \in DOMAIN delivered[i]
             PROVE  LET f == delivered[i][a]
                        kind == {e \in DOMAIN script : control(e) <=> control(f)}
                    IN /\ script[f].fin <=> a = Len(delivered[i])
                       /\ control(delivered[i][1]) <=> control(f)
                       /\ earlier(delivered, i, a) \cap kind = {e \in kind : e < f}
  BY <1>1 DEF whole
<1>5. LET f == messages[i][a]
          kind == {e \in DOMAIN script : control(e) <=> control(f)}
      IN /\ script[f].fin <=> a = Len(messages[i])
         /\ control(messages[i][1]) <=> control(f)
         /\ earlier(messages, i, a) \cap kind = {e \in kind : e < f}
  <2>1. i \in DOMAIN messages /\ a \in DOMAIN messages[i]
    BY <1>4
  <2> QED
    BY <2>1 DEF whole
<1>6. earlier(messages, i, a) = earlier(delivered, i, a)
  <2>1. \A j \in 1..i : messages[j] = delivered[j]
    <3>1. \A j \in 1..i : j \in 1..k
      BY <1>1
    <3> QED
      BY <1>4, <3>1
  <2>2. \A e : e \in earlier(messages, i, a) <=>
          \E j \in 1..i : \E b \in DOMAIN messages[j] : (j < i \/ b < a) /\ messages[j][b] = e
    BY EarlierIs
  <2>3. \A e : e \in earlier(delivered, i, a) <=>
          \E j \in 1..i : \E b \in DOMAIN delivered[j] : (j < i \/ b < a) /\ delivered[j][b] = e
    BY EarlierIs
  <2>4. \A e : e \in earlier(messages, i, a) <=> e \in earlier(delivered, i, a)
    BY <2>1, <2>2, <2>3
  <2> QED
    BY <2>4
<1>7. messages[i] = delivered[i]
  BY <1>4
<1> QED
  BY <1>5, <1>6, <1>7

\* The messages and the control frames of an orderly client are handled complete and in
\* order, however its frames are cut in pieces and however long the worker is busy.
THEOREM SpecMessagesWhole == ReaderSpec => []MessagesWhole
<1>1. ReaderInit => MessagesInv
  BY StreamInit, OrderInit DEF MessagesInv
<1>2. MessagesInv => MessagesWhole
  BY WholeFront DEF MessagesInv, StreamInv, OrderInv, MessagesWhole
<1> QED
  BY <1>1, <1>2, MessagesStep, PTL DEF ReaderSpec
=============================================================================
