-------------------------- MODULE HazardStackProofs --------------------------
(***************************************************************************)
(* Proofs about HazardStack for any threads, nodes and records: what a     *)
(* hazard pointer guards is not deleted, and, until an address that is     *)
(* used again lets a stale exchange succeed, every node is at one place    *)
(* and the stack implements LifoStack.                                     *)
(***************************************************************************)
EXTENDS HazardStack, FiniteSetTheorems, SequenceTheorems, WellFoundedInduction, TLAPS

(* The inductive invariant, in named parts. *)

Retired   == {n \in Node : memory[n] = "retired"}
Live      == {n \in Node : memory[n] = "live"}
Allocated == {r \in Rec : hazptr[r] # NoStore}

\* The members of S form a list from first to Nil, along which rank falls.
Linked(first, link, S, rank) ==
  /\ IF S = {} THEN first = Nil ELSE first \in S
  /\ \A x \in S :
       /\ rank[x] <= rank[first]
       /\ link[x] \in S => rank[link[x]] < rank[x]
       /\ link[x] \in S \cup {Nil}
       /\ \A y \in S : rank[y] < rank[x] => link[x] \in S /\ rank[y] <= rank[link[x]]
       /\ \A y \in S : rank[y] = rank[x] => y = x

\* A thread has a record of its own. Its hazard pointer is what it guards.
Guards ==
  \A t \in Thread :
    /\ pc[t] # "idle" => rec[t] # Nil
    /\ pending[t] # NoStore => rec[t] # Nil /\ ~guarded[t]
    /\ rec[t] # Nil => /\ hazptr[rec[t]] \in NodeOrNil
                       /\ \A u \in Thread : rec[u] = rec[t] => u = t
    /\ pc[t] \in {"next", "cas", "retire", "limit"} => ptr[t] # Nil
    /\ pc[t] \in {"idle", "load", "guard"} => pending[t] \in {NoStore, Nil}
    /\ guarded[t] => /\ pc[t] \notin {"idle", "load", "guard"}
                     /\ ptr[t] # Nil /\ hazptr[rec[t]] = ptr[t]

guards(t, n) == guarded[t] /\ ptr[t] = n

\* Where the remover is. The guards of the nodes it still has to look at are in
\* records it will come to: a node of its list is guarded by nobody new.
Scan(orank, hrank) ==
  /\ rpc = "heads" => crtObj \in Retired \cup {Nil} /\ prevObj = Nil
  /\ rpc \in {"record", "decide"} =>
       /\ crtObj \in Retired /\ hprhead \in Allocated \cup {Nil}
       /\ prevObj # Nil => prevObj \in Retired /\ objNext[prevObj] = crtObj
       /\ \A t \in Thread, n \in Retired :
            guards(t, n) /\ orank[n] <= orank[crtObj] =>
              hprhead # Nil /\ hrank[rec[t]] <= hrank[hprhead]
  /\ rpc = "record" =>
       /\ hpr \in Allocated /\ hprhead # Nil /\ hrank[hpr] <= hrank[hprhead]
       /\ prevHpr # Nil => /\ prevHpr \in Allocated /\ hprNext[prevHpr] = hpr
                           /\ hrank[prevHpr] <= hrank[hprhead]
       /\ \A t \in Thread : guards(t, crtObj) => hrank[rec[t]] <= hrank[hpr]
  /\ rpc = "decide" /\ guardp # crtObj => \A t \in Thread : ~guards(t, crtObj)

Lists(orank, hrank) ==
  /\ Linked(objHead, objNext, Retired, orank)
  /\ Linked(hprHead, hprNext, Allocated, hrank)
  /\ Scan(orank, hrank)

ListsInv == \E orank \in [Node -> Nat], hrank \in [Rec -> Nat] : Lists(orank, hrank)

IInv == TypeOK /\ Guards /\ GuardKept /\ ListsInv

\* The stack, until a stale exchange. What a pop() has as the next node of the head is
\* still that, or its exchange will fail, or it is stale.
elements(s) == {s[i] : i \in DOMAIN s}

Stacked(s) ==
  /\ isChain(s, head, next)
  /\ \A i, j \in DOMAIN s : s[i] = s[j] => i = j
  /\ Live = elements(s) \cup {ptr[t] : t \in retiring}
  /\ \A t \in retiring :
       /\ ptr[t] \notin elements(s)
       /\ \A u \in retiring : ptr[u] = ptr[t] => u = t
  /\ \A t \in Thread \ stale :
       pc[t] = "cas" /\ ptr[t] \in elements(s) => nxt[t] = next[ptr[t]]

StackInv == ~aba => \E s \in Seq(Node) : Stacked(s)

-----------------------------------------------------------------------------
(* Lists *)

LEMMA LinkedEmpty ==
  ASSUME NEW first, NEW link, NEW rank
  PROVE  Linked(first, link, {}, rank) <=> first = Nil
BY DEF Linked

\* n becomes the first of the list, above those that are in it.
above(rank, first, n) == [rank EXCEPT ![n] = IF first = Nil THEN 0 ELSE rank[first] + 1]

LEMMA LinkedAdd ==
  \A X, S, n, first, link, link2, rank :
    /\ Nil \notin X /\ S \in SUBSET X /\ n \in X \ S /\ rank \in [X -> Nat]
    /\ Linked(first, link, S, rank)
    /\ link2[n] = first /\ \A x \in S : link2[x] = link[x]
    => Linked(n, link2, S \cup {n}, above(rank, first, n))
<1> TAKE X, S, n, first, link, link2, rank
<1> HAVE /\ Nil \notin X /\ S \in SUBSET X /\ n \in X \ S /\ rank \in [X -> Nat]
         /\ Linked(first, link, S, rank)
         /\ link2[n] = first /\ \A x \in S : link2[x] = link[x]
<1> DEFINE top == IF first = Nil THEN 0 ELSE rank[first] + 1
           rank2 == above(rank, first, n)
<1>1. first \in S \cup {Nil} /\ (first = Nil <=> S = {})
  BY DEF Linked
<1>2. top \in Nat
  BY <1>1
<1>3. \A x \in S : rank[x] \in Nat /\ rank[x] < top
  BY <1>1 DEF Linked
<1>4. /\ rank2 \in [X -> Nat] /\ rank2[n] = top
      /\ \A x \in S : rank2[x] = rank[x]
  BY <1>2 DEF above
<1>5. Linked(n, link2, S \cup {n}, rank2)
  <2> HIDE DEF top, rank2
  <2>1. \A x \in S : first \in S /\ rank[x] <= rank[first]
    BY <1>1 DEF Linked
  <2>2. ASSUME NEW x \in S
        PROVE  /\ link2[x] = link[x] /\ x # n /\ link[x] # n
               /\ rank[x] < top /\ rank2[x] = rank[x]
    BY <1>3, <1>4 DEF Linked
  <2>3. ASSUME NEW x \in S \cup {n}
        PROVE  /\ rank2[x] <= rank2[n]
               /\ link2[x] \in S \cup {n} => rank2[link2[x]] < rank2[x]
               /\ link2[x] \in S \cup {n} \cup {Nil}
    <3>1. CASE x = n
      BY <3>1, <1>1, <1>2, <1>3, <1>4
    <3>2. CASE x \in S
      BY <3>2, <2>2, <1>2, <1>3, <1>4 DEF Linked
    <3> QED
      BY <3>1, <3>2
  <2>4. ASSUME NEW x \in S \cup {n}, NEW y \in S \cup {n}
        PROVE  /\ rank2[y] < rank2[x] => link2[x] \in S \cup {n} /\ rank2[y] <= rank2[link2[x]]
               /\ rank2[y] = rank2[x] => y = x
    <3>1. CASE x = n /\ y = n
      BY <3>1, <1>2, <1>4
    <3>2. CASE x = n /\ y \in S
      BY <3>2, <2>1, <2>2, <1>2, <1>4
    <3>3. CASE x \in S /\ y = n
      BY <3>3, <2>2, <1>2, <1>3, <1>4
    <3>4. CASE x \in S /\ y \in S
      BY <3>4, <2>2, <1>4 DEF Linked
    <3> QED
      BY <3>1, <3>2, <3>3, <3>4
  <2> QED
    BY <2>3, <2>4 DEF Linked
<1> QED
  BY <1>5

\* c is taken out of the list, behind p.
LEMMA LinkedDrop ==
  \A X, S, p, c, first, link, rank :
    /\ Nil \notin X /\ S \in SUBSET X /\ p \in S /\ c \in S
    /\ link \in [X -> X \cup {Nil}] /\ rank \in [X -> Nat]
    /\ Linked(first, link, S, rank) /\ link[p] = c
    => /\ Linked(first, [link EXCEPT ![p] = link[c], ![c] = Nil], S \ {c}, rank)
       /\ p # c /\ c # first
<1> TAKE X, S, p, c, first, link, rank
<1> HAVE /\ Nil \notin X /\ S \in SUBSET X /\ p \in S /\ c \in S
         /\ link \in [X -> X \cup {Nil}] /\ rank \in [X -> Nat]
         /\ Linked(first, link, S, rank) /\ link[p] = c
<1> DEFINE link2 == [link EXCEPT ![p] = link[c], ![c] = Nil]
<1>1. \A x \in S : rank[x] \in Nat
  OBVIOUS
<1>2. rank[c] < rank[p] /\ rank[p] <= rank[first] /\ first \in S
  BY DEF Linked
<1>3. p # c /\ c # first
  BY <1>1, <1>2
<1>4. /\ link2[p] = link[c]
      /\ \A x \in S \ {c, p} : link2[x] = link[x]
  BY <1>3
<1>5. ASSUME NEW x \in S \ {c}, x # p
      PROVE  link[x] # c
  <2>1. rank[x] # rank[p]
    BY <1>5 DEF Linked
  <2>2. CASE rank[x] < rank[p]
    BY <2>2, <1>1, <1>2, <1>5 DEF Linked
  <2>3. CASE rank[p] < rank[x]
    BY <2>3, <1>1, <1>2, <1>5 DEF Linked
  <2> QED
    BY <1>1, <2>1, <2>2, <2>3
<1>6. ASSUME NEW x \in S \ {c}
      PROVE  /\ rank[x] <= rank[first]
             /\ link2[x] \in S \ {c} => rank[link2[x]] < rank[x]
             /\ link2[x] \in (S \ {c}) \cup {Nil}
  <2> HIDE DEF link2
  <2>1. CASE x = p
    BY <2>1, <1>1, <1>2, <1>4 DEF Linked
  <2>2. CASE x # p
    BY <2>2, <1>1, <1>4, <1>5 DEF Linked
  <2> QED
    BY <2>1, <2>2
<1>7. ASSUME NEW x \in S \ {c}, NEW y \in S \ {c}
      PROVE  /\ rank[y] < rank[x] => link2[x] \in S \ {c} /\ rank[y] <= rank[link2[x]]
             /\ rank[y] = rank[x] => y = x
  <2> HIDE DEF link2
  <2>1. CASE x = p
    <3>1. rank[y] < rank[p] => rank[y] <= rank[c]
      BY DEF Linked
    <3>2. rank[y] # rank[c]
      BY DEF Linked
    <3>3. rank[y] < rank[c] => link[c] \in S /\ rank[y] <= rank[link[c]] /\ link[c] # c
      BY <1>1 DEF Linked
    <3> QED
      BY <2>1, <3>1, <3>2, <3>3, <1>1, <1>4 DEF Linked
  <2>2. CASE x # p
    BY <2>2, <1>1, <1>4, <1>5 DEF Linked
  <2> QED
    BY <2>1, <2>2
<1>8. S \ {c} # {} /\ first \in S \ {c}
  BY <1>2, <1>3
<1> HIDE DEF link2
<1>9. Linked(first, link2, S \ {c}, rank)
  BY <1>6, <1>7, <1>8 DEF Linked
<1> QED
  BY <1>3, <1>9 DEF link2

\* Every set of numbers has a least one.
LEMMA LeastOf ==
  ASSUME NEW T \in SUBSET Nat, T # {}
  PROVE  \E x \in T : \A y \in T : x <= y
<1> DEFINE R == OpToRel(<, Nat)
<1>1. IsWellFoundedOn(R, Nat)
  BY NatLessThanWellFounded DEF R
<1>2. PICK x \in T : \A y \in T : ~(<<y, x>> \in R)
  <2> HIDE DEF R
  <2> QED
    BY <1>1, WFMin
<1>3. \A y \in T : ~(y < x)
  BY <1>2 DEF OpToRel
<1> QED
  BY <1>3

\* What the first pointer of a list leads to is the list, and it ends.
LEMMA LinkedReached ==
  \A X, S, first, link, rank :
    /\ Nil \notin X /\ S \in SUBSET X
    /\ link \in [X -> X \cup {Nil}] /\ rank \in [X -> Nat]
    /\ Linked(first, link, S, rank)
    => reached(first, link) = S \cup {Nil}
<1> SUFFICES ASSUME NEW X, NEW S, NEW first, NEW link, NEW rank,
                    Nil \notin X, S \in SUBSET X,
                    link \in [X -> X \cup {Nil}], rank \in [X -> Nat],
                    Linked(first, link, S, rank)
             PROVE  reached(first, link) = S \cup {Nil}
  OBVIOUS
<1>1. DOMAIN link = X /\ S \cup {Nil} \in SUBSET (X \cup {Nil})
  OBVIOUS
<1>2. reached(first, link) \subseteq S \cup {Nil}
  <2>1. first \in S \cup {Nil} /\ \A y \in (S \cup {Nil}) \ {Nil} : link[y] \in S \cup {Nil}
    BY DEF Linked
  <2> QED
    BY <1>1, <2>1 DEF reached
<1>3. ASSUME NEW C \in SUBSET (X \cup {Nil}), first \in C,
             \A y \in C \ {Nil} : link[y] \in C
      PROVE  S \cup {Nil} \subseteq C
  <2>1. S \subseteq C
    <3> SUFFICES ASSUME S \ C # {} PROVE FALSE
      OBVIOUS
    <3> DEFINE T == {rank[first] - rank[x] : x \in S \ C}
    <3>1. first \in S /\ \A x \in S : rank[x] \in Nat /\ rank[x] <= rank[first]
      BY DEF Linked
    <3>2. T \in SUBSET Nat /\ T # {}
      BY <3>1
    <3>3. PICK d \in T : \A e \in T : d <= e
      BY <3>2, LeastOf
    <3>4. PICK n \in S \ C : d = rank[first] - rank[n]
      BY <3>3
    <3>5. \A x \in S : rank[x] > rank[n] => x \in C
      <4> SUFFICES ASSUME NEW x \in S \ C PROVE rank[x] <= rank[n]
        BY <3>1
      <4>1. rank[first] - rank[n] <= rank[first] - rank[x]
        BY <3>3, <3>4
      <4> QED
        BY <3>1, <4>1
    <3> DEFINE U == {rank[x] : x \in {y \in S : rank[y] > rank[n]}}
    <3>6. rank[first] # rank[n] /\ rank[first] > rank[n]
      BY <1>3, <3>1 DEF Linked
    <3>7. U \in SUBSET Nat /\ U # {}
      BY <3>1, <3>6
    <3>8. PICK u \in U : \A e \in U : u <= e
      BY <3>7, LeastOf
    <3>9. PICK p \in S : rank[p] > rank[n] /\ u = rank[p]
      BY <3>8
    <3>10. \A x \in S : rank[x] > rank[n] => rank[p] <= rank[x]
      BY <3>8, <3>9
    <3>11. link[p] \in S /\ rank[n] <= rank[link[p]] /\ rank[link[p]] < rank[p]
      BY <3>9, <3>1 DEF Linked
    <3>12. rank[link[p]] = rank[n]
      BY <3>1, <3>10, <3>11
    <3>13. link[p] = n
      BY <3>11, <3>12 DEF Linked
    <3>14. p \in C \ {Nil}
      BY <3>5, <3>9
    <3> QED
      BY <1>3, <3>13, <3>14
  <2>2. Nil \in C
    <3>1. CASE S = {}
      BY <3>1, <1>3 DEF Linked
    <3>2. CASE S # {}
      <4> DEFINE U == {rank[x] : x \in S}
      <4>1. U \in SUBSET Nat /\ U # {}
        BY <3>2
      <4>2. PICK u \in U : \A e \in U : u <= e
        BY <4>1, LeastOf
      <4>3. PICK n \in S : \A x \in S : rank[n] <= rank[x]
        BY <4>2
      <4>4. link[n] \in S => rank[link[n]] < rank[n] /\ rank[n] <= rank[link[n]]
        BY <4>3 DEF Linked
      <4>5. link[n] \notin S
        BY <4>4
      <4>6. link[n] = Nil
        BY <4>5 DEF Linked
      <4> QED
        BY <1>3, <2>1, <4>6
    <3> QED
      BY <3>1, <3>2
  <2> QED
    BY <2>1, <2>2
<1>4. S \cup {Nil} \subseteq reached(first, link)
  BY <1>1, <1>3 DEF reached
<1> QED
  BY <1>2, <1>4

-----------------------------------------------------------------------------
(* Types *)

LEMMA Counts ==
  objCount \in 0..Cardinality(Node) /\ hprCount \in 0..Cardinality(Rec)
<1>1. /\ {n \in Node : memory[n] = "retired"} \in SUBSET Node
      /\ {r \in Rec : hazptr[r] # NoStore} \in SUBSET Rec
  OBVIOUS
<1>2. /\ objCount \in Nat /\ objCount <= Cardinality(Node)
      /\ hprCount \in Nat /\ hprCount <= Cardinality(Rec)
  BY <1>1, HazardAssumption, FS_Subset, FS_CardinalityType DEF objCount, hprCount
<1> QED
  BY <1>2, HazardAssumption, FS_CardinalityType

LEMMA InitIInv == Init => IInv
<1> SUFFICES ASSUME Init PROVE IInv
  OBVIOUS
<1> USE DEF Init
<1>1. TypeOK
  <2>1. 0 \in 0..Cardinality(Node) /\ 0 \in 0..Cardinality(Rec)
    BY HazardAssumption, FS_CardinalityType
  <2> QED
    BY <2>1 DEF TypeOK, NodeOrNil, RecOrNil
<1>2. Guards
  BY DEF Guards
<1>3. GuardKept
  BY DEF GuardKept
<1>4. ListsInv
  <2> DEFINE orank == [n \in Node |-> 0]
             hrank == [r \in Rec |-> 0]
  <2>1. Retired = {} /\ Allocated = {}
    BY DEF Retired, Allocated
  <2>2. Lists(orank, hrank)
    BY <2>1, LinkedEmpty DEF Lists, Scan
  <2> QED
    BY <2>2 DEF ListsInv
<1> QED
  BY <1>1, <1>2, <1>3, <1>4 DEF IInv

LEMMA WrittenType ==
  ASSUME TypeOK, Guards, NEW t \in Thread
  PROVE  /\ written(t) \in [Rec -> NodeOrNil \cup {Marked, NoStore}]
         /\ \A r \in Rec : written(t)[r] =
              IF pending[t] # NoStore /\ r = rec[t] THEN pending[t] ELSE hazptr[r]
         /\ guardedInTime(t) \in BOOLEAN
<1>1. pending[t] # NoStore => rec[t] \in Rec /\ pending[t] \in NodeOrNil
  BY DEF Guards, TypeOK, RecOrNil
<1>2. guardedInTime(t) \in BOOLEAN
  BY DEF guardedInTime, TypeOK
<1> QED
  BY <1>1, <1>2 DEF written, TypeOK

LEMMA TypeThread ==
  ASSUME TypeOK, Guards, NEW t \in Thread,
         Flush(t) \/ NewRecord(t) \/ EndThread(t) \/ push(t) \/ pop(t)
  PROVE  TypeOK'
<1> USE DEF TypeOK, stackVars, listVars, popVars, threadVars, removerVars, scanVars,
            NodeOrNil, RecOrNil, Goto, gc
<1>1. CASE Flush(t)
  BY <1>1, WrittenType DEF Flush
<1>2. CASE NewRecord(t)
  BY <1>2 DEF NewRecord
<1>3. CASE EndThread(t)
  BY <1>3 DEF EndThread
<1>4. CASE push(t)
  BY <1>4 DEF push
<1>5. CASE PopLoad(t)
  BY <1>5 DEF PopLoad
<1>6. CASE PopGuard(t)
  BY <1>6 DEF PopGuard, store
<1>7. CASE PopNext(t)
  <2>1. ptr[t] \in Node
    BY <1>7 DEF PopNext, Guards
  <2>2. nxt' \in [Thread -> NodeOrNil]
    BY <1>7, <2>1 DEF PopNext
  <2> QED
    BY <1>7, <2>2 DEF PopNext
<1>8. CASE PopExchange(t)
  <2>1. /\ hazptr' \in [Rec -> NodeOrNil \cup {Marked, NoStore}]
        /\ guardedInTime(t) \in BOOLEAN
    BY <1>8, WrittenType DEF PopExchange
  <2>2. /\ head' \in NodeOrNil /\ ptr' \in [Thread -> NodeOrNil]
        /\ guarded' \in [Thread -> BOOLEAN]
        /\ pc' \in [Thread -> {"idle", "load", "guard", "next", "cas", "retire", "limit", "clear"}]
    BY ZenonT(60), <1>8, <2>1 DEF PopExchange
  <2>3. aba' \in BOOLEAN
    BY ZenonT(60), <1>8 DEF PopExchange
  <2>4. stale' \in SUBSET Thread
    BY <1>8 DEF PopExchange
  <2> QED
    BY <1>8, <2>1, <2>2, <2>3, <2>4 DEF PopExchange
<1>9. CASE Retire(t)
  <2>1. ptr[t] \in Node
    BY <1>9 DEF Retire, Guards
  <2> QED
    BY <1>9, <2>1 DEF Retire
<1>10. CASE LimitObjects(t)
  BY <1>10 DEF LimitObjects
<1>11. CASE PopClear(t)
  BY <1>11 DEF PopClear, store
<1> QED
  BY <1>1, <1>2, <1>3, <1>4, <1>5, <1>6, <1>7, <1>8, <1>9, <1>10, <1>11 DEF pop

LEMMA TypeRemover ==
  ASSUME TypeOK, ListsInv, Remover
  PROVE  TypeOK'
<1> USE DEF TypeOK, stackVars, listVars, popVars, threadVars, removerVars, scanVars,
            NodeOrNil, RecOrNil, compareFrom
<1>1. /\ rpc \in {"record", "decide"} => crtObj \in Node
      /\ rpc = "record" => hpr \in Rec /\ hazptr[hpr] # NoStore
  BY DEF ListsInv, Lists, Scan, Retired, Allocated
<1>2. CASE RBegin
  BY <1>2, Counts DEF RBegin
<1>3. CASE RHeads
  BY <1>3 DEF RHeads
<1>4. CASE RRecord
  <2>1. /\ hprNext' \in [Rec -> RecOrNil]
        /\ hazptr' \in [Rec -> NodeOrNil \cup {Marked, NoStore}]
        /\ prevHpr' \in RecOrNil /\ hpr' \in RecOrNil
    BY <1>1, <1>4 DEF RRecord
  <2>2. guardp' \in NodeOrNil
    <3>1. CASE unused(hpr) /\ prevHpr # Nil
      BY <1>4, <3>1 DEF RRecord
    <3>2. CASE ~(unused(hpr) /\ prevHpr # Nil)
      <4>1. guardp' = address(hazptr[hpr]) /\ hpr \in Rec /\ hazptr[hpr] # NoStore
        BY <1>1, <1>4, <3>2 DEF RRecord
      <4> QED
        BY <4>1 DEF address
    <3> QED
      BY <3>1, <3>2
  <2> QED
    BY <1>4, <2>1, <2>2 DEF RRecord
<1>5. CASE RDecide
  BY <1>1, <1>5 DEF RDecide
<1>6. CASE REnd
  <2>1. 0 \in 0..Cardinality(Node) /\ 0 \in 0..Cardinality(Rec)
    BY HazardAssumption, FS_CardinalityType
  <2> QED
    BY <1>6, <2>1 DEF REnd
<1> QED
  BY <1>2, <1>3, <1>4, <1>5, <1>6 DEF Remover

-----------------------------------------------------------------------------
(* Guards *)

LEMMA GuardsThread ==
  ASSUME TypeOK, Guards, NEW t \in Thread,
         Flush(t) \/ NewRecord(t) \/ EndThread(t) \/ push(t) \/ pop(t)
  PROVE  Guards'
<1> USE HazardAssumption
    DEF TypeOK, stackVars, listVars, popVars, threadVars, removerVars, scanVars,
        NodeOrNil, RecOrNil, Goto
<1>1. CASE Flush(t)
  <2>1. /\ rec[t] \in Rec /\ pending[t] \in NodeOrNil /\ ~guarded[t]
        /\ hazptr' = [hazptr EXCEPT ![rec[t]] = pending[t]]
        /\ guarded' = [guarded EXCEPT ![t] = guardedInTime(t)]
        /\ pending' = [pending EXCEPT ![t] = NoStore]
        /\ UNCHANGED <<pc, ptr, rec>>
    BY <1>1 DEF Flush, Guards, written
  <2>2. guardedInTime(t) => ptr[t] # Nil /\ pending[t] = ptr[t]
    BY <1>1 DEF guardedInTime, Flush
  <2>3. guardedInTime(t) => pc[t] \notin {"idle", "load", "guard"}
    BY <1>1, <2>2 DEF Flush, Guards
  <2>4. \A u \in Thread \ {t} : rec[u] # rec[t]
    BY <2>1 DEF Guards
  <2> QED
    BY <2>1, <2>2, <2>3, <2>4 DEF Guards
<1>2. CASE NewRecord(t)
  <2>1. PICK r \in Rec :
          /\ hazptr[r] = NoStore
          /\ hazptr' = [hazptr EXCEPT ![r] = Nil]
          /\ rec' = [rec EXCEPT ![t] = r]
    BY <1>2 DEF NewRecord
  <2>2. \A u \in Thread : rec[u] # r
    BY <2>1 DEF Guards
  <2>3. UNCHANGED <<pc, ptr, pending, guarded>> /\ pc[t] = "idle" /\ rec[t] = Nil
    BY <1>2 DEF NewRecord
  <2> QED
    BY <2>1, <2>2, <2>3 DEF Guards
<1>3. CASE EndThread(t)
  <2>1. /\ hazptr' = [hazptr EXCEPT ![rec[t]] = Marked]
        /\ rec' = [rec EXCEPT ![t] = Nil]
        /\ UNCHANGED <<pc, ptr, pending, guarded>>
        /\ pc[t] = "idle" /\ rec[t] \in Rec /\ pending[t] = NoStore
    BY <1>3 DEF EndThread
  <2>2. \A u \in Thread \ {t} : rec[u] # rec[t]
    BY <2>1 DEF Guards
  <2> QED
    BY <2>1, <2>2 DEF Guards
<1>4. CASE push(t)
  BY <1>4 DEF push, Guards
<1>5. CASE PopLoad(t)
  BY <1>5 DEF PopLoad, Guards
<1>6. CASE PopGuard(t)
  BY <1>6 DEF PopGuard, store, Guards
<1>7. CASE PopNext(t)
  BY <1>7 DEF PopNext, Guards
<1>8. CASE PopExchange(t)
  <2>1. /\ rec[t] \in Rec /\ ptr[t] # Nil /\ pc[t] = "cas"
        /\ hazptr' = written(t)
        /\ pending' = [pending EXCEPT ![t] = NoStore]
        /\ UNCHANGED rec
    BY <1>8 DEF PopExchange, Guards
  <2>2. \A u \in Thread \ {t} : rec[u] # rec[t]
    BY <2>1 DEF Guards
  <2>3. /\ \A r \in Rec : r # rec[t] => hazptr'[r] = hazptr[r]
        /\ hazptr'[rec[t]] \in NodeOrNil
        /\ pending[t] # NoStore => hazptr'[rec[t]] = pending[t]
        /\ pending[t] = NoStore => hazptr'[rec[t]] = hazptr[rec[t]]
    BY <2>1, WrittenType DEF Guards
  <2>4. CASE Goto(t, "retire") /\ guarded' = [guarded EXCEPT ![t] = guardedInTime(t)]
             /\ UNCHANGED ptr
    <3>1. guardedInTime(t) => hazptr'[rec[t]] = ptr[t]
      BY <2>3 DEF guardedInTime, Guards
    <3> QED
      BY <2>1, <2>2, <2>3, <2>4, <3>1 DEF Guards
  <2>5. CASE Goto(t, "load") /\ guarded' = [guarded EXCEPT ![t] = FALSE]
             /\ ptr' = [ptr EXCEPT ![t] = Nil]
    BY <2>1, <2>2, <2>3, <2>5 DEF Guards
  <2> QED
    BY <1>8, <2>4, <2>5 DEF PopExchange
<1>9. CASE Retire(t)
  BY <1>9 DEF Retire, Guards
<1>10. CASE LimitObjects(t)
  BY <1>10 DEF LimitObjects, Guards
<1>11. CASE PopClear(t)
  BY <1>11 DEF PopClear, store, Guards
<1> QED
  BY <1>1, <1>2, <1>3, <1>4, <1>5, <1>6, <1>7, <1>8, <1>9, <1>10, <1>11 DEF pop

LEMMA GuardsRemover ==
  ASSUME TypeOK, Guards, Remover
  PROVE  Guards'
<1> USE HazardAssumption
    DEF TypeOK, stackVars, listVars, popVars, threadVars, removerVars, scanVars,
        NodeOrNil, RecOrNil
<1>1. UNCHANGED <<pc, ptr, rec, pending, guarded>>
  BY DEF Remover, RBegin, RHeads, RRecord, RDecide, REnd
<1>2. \A r \in Rec : hazptr[r] # Marked => hazptr'[r] = hazptr[r]
  <2>1. CASE RRecord
    <3>1. \/ hazptr[hpr] = Marked /\ hazptr' = [hazptr EXCEPT ![hpr] = NoStore]
          \/ UNCHANGED hazptr
      BY <2>1 DEF RRecord, unused
    <3> QED
      BY <3>1
  <2>2. CASE RBegin \/ RHeads \/ RDecide \/ REnd
    BY <2>2 DEF RBegin, RHeads, RDecide, REnd
  <2> QED
    BY <2>1, <2>2 DEF Remover
<1>3. \A t \in Thread : rec[t] # Nil => hazptr'[rec[t]] = hazptr[rec[t]]
  BY <1>2 DEF Guards
<1> QED
  BY <1>1, <1>3 DEF Guards

\* Whom a step of a thread gives a new guard, its node is live then.
LEMMA NewGuards ==
  ASSUME TypeOK, Guards, NEW t \in Thread,
         Flush(t) \/ NewRecord(t) \/ EndThread(t) \/ push(t) \/ pop(t)
  PROVE  \A u \in Thread : guarded'[u] =>
           /\ ptr'[u] = ptr[u] /\ rec'[u] = rec[u]
           /\ guarded[u] \/ memory[ptr[u]] = "live"
<1> USE DEF TypeOK, stackVars, listVars, popVars, threadVars, removerVars, scanVars,
            NodeOrNil, RecOrNil, Goto
<1>1. CASE Flush(t)
  BY <1>1 DEF Flush, guardedInTime
<1>2. CASE NewRecord(t)
  BY <1>2 DEF NewRecord, Guards
<1>3. CASE EndThread(t)
  BY <1>3 DEF EndThread, Guards
<1>4. CASE push(t) \/ PopNext(t) \/ Retire(t) \/ LimitObjects(t)
  BY <1>4 DEF push, PopNext, Retire, LimitObjects
<1>5. CASE PopLoad(t)
  BY <1>5 DEF PopLoad, Guards
<1>6. CASE PopGuard(t)
  BY <1>6 DEF PopGuard
<1>7. CASE PopExchange(t)
  BY <1>7 DEF PopExchange, guardedInTime
<1>8. CASE PopClear(t)
  BY <1>8 DEF PopClear
<1> QED
  BY <1>1, <1>2, <1>3, <1>4, <1>5, <1>6, <1>7, <1>8 DEF pop

LEMMA GuardKeptThread ==
  ASSUME TypeOK, Guards, GuardKept, NEW t \in Thread,
         Flush(t) \/ NewRecord(t) \/ EndThread(t) \/ push(t) \/ pop(t)
  PROVE  GuardKept'
<1>1. \A n \in Node : memory[n] # "free" => memory'[n] # "free"
  BY DEF TypeOK, Flush, NewRecord, EndThread, push, pop, PopLoad, PopGuard, PopNext,
         PopExchange, Retire, LimitObjects, PopClear
<1>2. ASSUME NEW u \in Thread, guarded'[u]
      PROVE  memory'[ptr'[u]] # "free"
  <2>1. /\ ptr'[u] = ptr[u] /\ ptr[u] \in NodeOrNil
        /\ guarded[u] \/ memory[ptr[u]] = "live"
    BY <1>2, NewGuards DEF TypeOK
  <2>2. memory[ptr[u]] # "free"
    BY <2>1 DEF GuardKept
  <2>3. ptr[u] \in Node
    <3>1. Guards'
      BY GuardsThread
    <3> QED
      BY <1>2, <2>1, <3>1 DEF Guards, NodeOrNil
  <2> QED
    BY <1>1, <2>1, <2>2, <2>3
<1> QED
  BY <1>2 DEF GuardKept

LEMMA GuardKeptRemover ==
  ASSUME IInv, Remover
  PROVE  GuardKept'
<1> USE DEF IInv
<1>1. UNCHANGED <<ptr, guarded>>
  BY DEF Remover, RBegin, RHeads, RRecord, RDecide, REnd, threadVars, popVars
<1>2. CASE RDecide /\ mayDelete
  <2>1. rpc = "decide" /\ guardp # crtObj /\ memory' = [memory EXCEPT ![crtObj] = "free"]
    BY <1>2 DEF RDecide, mayDelete
  <2>2. \A t \in Thread : ~guards(t, crtObj)
    BY <2>1 DEF ListsInv, Lists, Scan
  <2> QED
    BY <1>1, <2>1, <2>2 DEF GuardKept, guards, TypeOK
<1>3. CASE ~(RDecide /\ mayDelete)
  <2>1. UNCHANGED memory
    BY <1>3 DEF Remover, RBegin, RHeads, RRecord, RDecide, REnd
  <2> QED
    BY <1>1, <2>1 DEF GuardKept
<1> QED
  BY <1>2, <1>3

-----------------------------------------------------------------------------
(* The lists, and the remover *)

\* What a step says of the guards there were.
NoNewGuards ==
  \A u \in Thread : guarded'[u] =>
    /\ ptr'[u] = ptr[u] /\ rec'[u] = rec[u]
    /\ guarded[u] \/ memory[ptr[u]] = "live"

GoesOn == UNCHANGED scanVars /\ rpc' \in {rpc, "begin"}

LEMMA ListsSame ==
  ASSUME TypeOK, NEW orank, NEW hrank, Lists(orank, hrank),
         UNCHANGED listVars, Retired' = Retired, Allocated' = Allocated,
         NoNewGuards, GoesOn
  PROVE  Lists(orank, hrank)'
<1> USE DEF listVars, scanVars, GoesOn
<1>1. /\ Linked(objHead, objNext, Retired, orank)'
      /\ Linked(hprHead, hprNext, Allocated, hrank)'
  BY DEF Lists
<1>2. \A t \in Thread, n \in Retired :
        guards(t, n)' => guards(t, n) /\ rec'[t] = rec[t]
  BY DEF guards, NoNewGuards, Retired
<1>3. Scan(orank, hrank)'
  BY <1>2 DEF Lists, Scan
<1> QED
  BY <1>1, <1>3 DEF Lists

LEMMA ListsNewRecord ==
  ASSUME TypeOK, Guards, ListsInv, NEW t \in Thread, NewRecord(t)
  PROVE  ListsInv'
<1> USE HazardAssumption
<1>1. PICK orank \in [Node -> Nat], hrank \in [Rec -> Nat] : Lists(orank, hrank)
  BY DEF ListsInv
<1>2. PICK r \in Rec :
        /\ hazptr[r] = NoStore
        /\ hazptr' = [hazptr EXCEPT ![r] = Nil]
        /\ hprNext' = [hprNext EXCEPT ![r] = hprHead]
        /\ hprHead' = r
        /\ rec' = [rec EXCEPT ![t] = r]
  BY DEF NewRecord
<1>3. /\ UNCHANGED <<memory, objHead, objNext, pc, ptr, guarded>> /\ GoesOn
      /\ ~guarded[t]
  BY DEF NewRecord, popVars, GoesOn, gc, scanVars, Guards
<1>4. Allocated' = Allocated \cup {r} /\ r \notin Allocated
  BY <1>2 DEF Allocated, TypeOK
<1>5. PICK hrank2 \in [Rec -> Nat] :
        /\ Linked(r, hprNext', Allocated', hrank2)
        /\ \A q \in Allocated : hrank2[q] = hrank[q]
  <2>1. Nil \notin Rec /\ Allocated \in SUBSET Rec /\ r \in Rec \ Allocated
    BY <1>4 DEF Allocated
  <2>2. hprNext'[r] = hprHead /\ \A q \in Allocated : hprNext'[q] = hprNext[q]
    BY <1>2, <1>4 DEF TypeOK
  <2>3. Linked(hprHead, hprNext, Allocated, hrank)
    BY <1>1 DEF Lists
  <2>4. Linked(r, hprNext', Allocated \cup {r}, above(hrank, hprHead, r))
    BY <1>1, <2>1, <2>2, <2>3, LinkedAdd
  <2>5. /\ above(hrank, hprHead, r) \in [Rec -> Nat]
        /\ \A q \in Allocated : above(hrank, hprHead, r)[q] = hrank[q]
    BY <1>1, <2>1 DEF above, TypeOK, RecOrNil
  <2> QED
    BY <1>4, <2>4, <2>5
<1>6. Retired' = Retired
  BY <1>3 DEF Retired
<1>7. \A u \in Thread, n \in Node :
        guards(u, n)' => guards(u, n) /\ rec'[u] = rec[u] /\ rec[u] \in Allocated
  <2> SUFFICES ASSUME NEW u \in Thread, NEW n \in Node, guards(u, n)'
               PROVE  guards(u, n) /\ rec'[u] = rec[u] /\ rec[u] \in Allocated
    OBVIOUS
  <2>1. guards(u, n) /\ u # t
    BY <1>3 DEF guards
  <2>2. rec'[u] = rec[u]
    BY <1>2, <2>1 DEF TypeOK
  <2>3. rec[u] \in Allocated
    BY <2>1 DEF guards, Guards, Allocated, TypeOK, RecOrNil, NodeOrNil
  <2> QED
    BY <2>1, <2>2, <2>3
<1>8. Scan(orank, hrank2)'
  <2>1. \A q \in Allocated : hprNext'[q] = hprNext[q]
    BY <1>2, <1>4 DEF TypeOK
  <2>2. \A u \in Thread, n \in Retired : guards(u, n)' => guards(u, n) /\ rec'[u] = rec[u] /\ rec[u] \in Allocated
    BY <1>7 DEF Retired
  <2> QED
    BY <1>1, <1>3, <1>4, <1>5, <1>6, <2>1, <2>2 DEF Lists, Scan, GoesOn, scanVars
<1>9. Lists(orank, hrank2)'
  BY <1>1, <1>2, <1>3, <1>5, <1>6, <1>8 DEF Lists
<1> QED
  BY <1>9 DEF ListsInv

LEMMA ListsRetire ==
  ASSUME TypeOK, Guards, ListsInv, NEW t \in Thread, Retire(t)
  PROVE  ListsInv'
<1> USE HazardAssumption
<1>1. PICK orank \in [Node -> Nat], hrank \in [Rec -> Nat] : Lists(orank, hrank)
  BY DEF ListsInv
<1>2. /\ UNCHANGED <<hprHead, hprNext, hazptr, ptr, rec, guarded>> /\ GoesOn
      /\ ptr[t] \in Node
  BY DEF Retire, scanVars, GoesOn, gc, Guards, TypeOK, NodeOrNil
<1> PICK n \in Node : n = ptr[t]
  BY <1>2
<1>3. NoNewGuards /\ Allocated' = Allocated
  BY <1>2 DEF NoNewGuards, Allocated
<1>4. CASE memory[n] = "retired"
  <2>1. UNCHANGED listVars /\ Retired' = Retired
    BY <1>2, <1>4 DEF Retire, listVars, Retired
  <2>2. Lists(orank, hrank)'
    BY <1>1, <1>2, <1>3, <2>1, ListsSame
  <2> QED
    BY <2>2 DEF ListsInv
<1>5. CASE memory[n] # "retired"
  <2>1. /\ memory' = [memory EXCEPT ![n] = "retired"]
        /\ objNext' = [objNext EXCEPT ![n] = objHead]
        /\ objHead' = n
    BY <1>5 DEF Retire
  <2>2. Retired' = Retired \cup {n} /\ n \in Node \ Retired
    BY <1>2, <1>5, <2>1 DEF Retired, TypeOK
  <2>3. objNext'[n] = objHead /\ \A m \in Retired : objNext'[m] = objNext[m]
    BY <1>2, <2>1, <2>2 DEF TypeOK
  <2>4. PICK orank2 \in [Node -> Nat] :
          /\ Linked(n, objNext', Retired', orank2)
          /\ \A m \in Retired : orank2[m] = orank[m]
    <3>1. Nil \notin Node /\ Retired \in SUBSET Node
      BY DEF Retired
    <3>2. Linked(objHead, objNext, Retired, orank)
      BY <1>1 DEF Lists
    <3>3. Linked(n, objNext', Retired \cup {n}, above(orank, objHead, n))
      BY <1>1, <2>2, <2>3, <3>1, <3>2, LinkedAdd
    <3>4. /\ above(orank, objHead, n) \in [Node -> Nat]
          /\ \A m \in Retired : above(orank, objHead, n)[m] = orank[m]
      BY <1>1, <2>2, <3>1 DEF above, TypeOK, NodeOrNil
    <3> QED
      BY <2>2, <3>3, <3>4
  <2>5. \A u \in Thread, m \in Node : guards(u, m)' <=> guards(u, m)
    BY <1>2 DEF guards
  <2>6. rpc \in {"record", "decide"} => ~(orank2[n] <= orank2[crtObj])
    <3>1. rpc \in {"record", "decide"} => crtObj \in Retired
      BY <1>1 DEF Lists, Scan
    <3>2. \A m \in Retired : orank2[m] \in Nat /\ orank2[n] \in Nat
      BY <2>2 DEF Retired
    <3>3. \A m \in Retired : orank2[m] <= orank2[n] /\ orank2[m] # orank2[n]
      BY <2>2, <2>4 DEF Linked
    <3> QED
      BY <3>1, <3>2, <3>3
  <2>7. Scan(orank2, hrank)'
    <3>1. crtObj \in Retired => crtObj \in Node
      BY DEF Retired
    <3>2. \A u \in Thread : crtObj \in Retired => (guards(u, crtObj)' <=> guards(u, crtObj))
      BY <1>2, <2>5, <3>1 DEF guards, GoesOn, scanVars
    <3>3. \A u \in Thread, m \in Retired' : guards(u, m)' => guards(u, m)
      BY <2>2, <2>5 DEF Retired
    <3>4. \A m \in Retired' : m = n \/ (m \in Retired /\ orank2[m] = orank[m])
      BY <2>2, <2>4
    <3> QED
      BY <1>1, <1>2, <1>3, <2>2, <2>3, <2>4, <2>6, <3>2, <3>3, <3>4
         DEF Lists, Scan, GoesOn, scanVars, guards
  <2>8. Lists(orank2, hrank)'
    BY <1>1, <1>2, <1>3, <2>1, <2>4, <2>7 DEF Lists
  <2> QED
    BY <2>8 DEF ListsInv
<1> QED
  BY <1>4, <1>5

LEMMA ListsThread ==
  ASSUME TypeOK, Guards, ListsInv, NEW t \in Thread,
         Flush(t) \/ NewRecord(t) \/ EndThread(t) \/ push(t) \/ pop(t)
  PROVE  ListsInv'
<1> USE HazardAssumption
<1>1. CASE NewRecord(t)
  BY <1>1, ListsNewRecord
<1>2. CASE Retire(t)
  BY <1>2, ListsRetire
<1>3. CASE Flush(t) \/ EndThread(t) \/ push(t) \/ PopLoad(t) \/ PopGuard(t) \/ PopNext(t)
           \/ PopExchange(t) \/ LimitObjects(t) \/ PopClear(t)
  <2>1. PICK orank \in [Node -> Nat], hrank \in [Rec -> Nat] : Lists(orank, hrank)
    BY DEF ListsInv
  <2>2. NoNewGuards
    BY NewGuards DEF NoNewGuards
  <2>3. UNCHANGED listVars /\ GoesOn
    BY <1>3 DEF Flush, EndThread, push, PopLoad, PopGuard, PopNext, PopExchange, LimitObjects,
                PopClear, removerVars, listVars, GoesOn, gc, scanVars
  <2>4. Retired' = Retired
    <3>1. CASE push(t)
      BY <3>1 DEF push, Retired, TypeOK
    <3>2. CASE ~push(t)
      BY <1>3, <3>2 DEF Flush, EndThread, PopLoad, PopGuard, PopNext, PopExchange, LimitObjects,
                        PopClear, Retired
    <3> QED
      BY <3>1, <3>2
  <2>5. Allocated' = Allocated
    <3>1. pending[t] # NoStore => hazptr[rec[t]] # NoStore /\ rec[t] \in Rec
      BY DEF Guards, TypeOK, RecOrNil, NodeOrNil
    <3>2. \A r \in Rec : written(t)[r] # NoStore <=> hazptr[r] # NoStore
      BY <3>1, WrittenType DEF written, TypeOK, NodeOrNil
    <3>3. CASE EndThread(t)
      BY <3>3 DEF EndThread, Guards, Allocated, TypeOK, RecOrNil, NodeOrNil
    <3>4. CASE Flush(t) \/ PopExchange(t)
      BY <3>2, <3>4 DEF Flush, PopExchange, Allocated
    <3>5. CASE ~(EndThread(t) \/ Flush(t) \/ PopExchange(t))
      BY <1>3, <3>5 DEF push, PopLoad, PopGuard, PopNext, LimitObjects, PopClear, Allocated
    <3> QED
      BY <3>3, <3>4, <3>5
  <2>6. Lists(orank, hrank)'
    BY <2>1, <2>2, <2>3, <2>4, <2>5, ListsSame
  <2> QED
    BY <2>6 DEF ListsInv
<1> QED
  BY <1>1, <1>2, <1>3 DEF pop

\* A guard is in a record that is in the list, and not marked.
LEMMA GuardRecords ==
  ASSUME TypeOK, Guards, NEW t \in Thread, NEW n, guards(t, n)
  PROVE  rec[t] \in Allocated /\ hazptr[rec[t]] = n /\ n \in Node
BY HazardAssumption DEF guards, Guards, Allocated, TypeOK, RecOrNil, NodeOrNil

LEMMA ListsRecord ==
  ASSUME TypeOK, Guards, ListsInv, RRecord
  PROVE  ListsInv'
<1> USE HazardAssumption
<1>1. PICK orank \in [Node -> Nat], hrank \in [Rec -> Nat] : Lists(orank, hrank)
  BY DEF ListsInv
<1>2. /\ UNCHANGED <<memory, objHead, objNext, hprHead, crtObj, prevObj, hprhead>>
      /\ UNCHANGED <<ptr, rec, guarded>>
      /\ rpc = "record" /\ hpr' = hprNext[hpr]
      /\ rpc' = IF found \/ hpr' = Nil THEN "decide" ELSE "record"
  BY DEF RRecord, threadVars, popVars
<1>3. /\ Linked(hprHead, hprNext, Allocated, hrank)
      /\ Linked(objHead, objNext, Retired, orank)
  BY <1>1 DEF Lists
<1>4. /\ crtObj \in Retired /\ hprhead \in Allocated
      /\ prevObj # Nil => prevObj \in Retired /\ objNext[prevObj] = crtObj
      /\ hpr \in Allocated /\ hrank[hpr] <= hrank[hprhead]
      /\ prevHpr # Nil => /\ prevHpr \in Allocated /\ hprNext[prevHpr] = hpr
                          /\ hrank[prevHpr] <= hrank[hprhead]
      /\ \A t \in Thread : guards(t, crtObj) => hrank[rec[t]] <= hrank[hpr]
      /\ \A t \in Thread, n \in Retired :
           guards(t, n) /\ orank[n] <= orank[crtObj] => hrank[rec[t]] <= hrank[hprhead]
  BY <1>1, <1>2 DEF Lists, Scan
<1>5. /\ \A r \in Allocated : hrank[r] \in Nat
      /\ Allocated \in SUBSET Rec /\ Retired \in SUBSET Node
  BY <1>1 DEF Allocated, Retired
<1>6. Retired' = Retired /\ Linked(objHead, objNext, Retired, orank)'
  BY <1>2, <1>3 DEF Retired
<1>7. \A t \in Thread : \A n : guards(t, n)' <=> guards(t, n)
  BY <1>2 DEF guards
<1>8. /\ hprNext[hpr] # Nil => hprNext[hpr] \in Allocated /\ hrank[hprNext[hpr]] < hrank[hpr]
      /\ hprNext[hpr] # hpr
  <2>1. hpr # Nil
    BY <1>4, <1>5
  <2> QED
    BY <1>3, <1>4, <1>5, <2>1 DEF Linked
<1>9. \A t \in Thread : guards(t, crtObj) /\ rec[t] # hpr =>
        hprNext[hpr] \in Allocated /\ hrank[rec[t]] <= hrank[hprNext[hpr]]
  <2> SUFFICES ASSUME NEW t \in Thread, guards(t, crtObj), rec[t] # hpr
               PROVE  hprNext[hpr] \in Allocated /\ hrank[rec[t]] <= hrank[hprNext[hpr]]
    OBVIOUS
  <2>1. rec[t] \in Allocated /\ hrank[rec[t]] <= hrank[hpr]
    BY <1>4, GuardRecords
  <2>2. hrank[rec[t]] # hrank[hpr]
    BY <1>3, <1>4, <2>1 DEF Linked
  <2>3. hrank[rec[t]] < hrank[hpr]
    BY <1>4, <1>5, <2>1, <2>2
  <2> QED
    BY <1>3, <1>4, <2>1, <2>3 DEF Linked
<1>10. CASE unused(hpr) /\ prevHpr # Nil
  <2>1. /\ hprNext' = [hprNext EXCEPT ![prevHpr] = hprNext[hpr], ![hpr] = Nil]
        /\ hazptr' = [hazptr EXCEPT ![hpr] = NoStore]
        /\ guardp' = Nil /\ prevHpr' = prevHpr /\ hazptr[hpr] = Marked
    BY <1>10 DEF RRecord, unused
  <2>2. prevHpr # hpr /\ hpr # hprHead /\ hpr # hprhead
    BY <1>3, <1>4, <1>5, <1>10 DEF Linked
  <2>3. Allocated' = Allocated \ {hpr}
    BY <2>1, <1>4 DEF Allocated, TypeOK
  <2>4. Linked(hprHead, hprNext, Allocated, hrank)'
    <3>1. hprNext \in [Rec -> Rec \cup {Nil}] /\ Nil \notin Rec
      BY DEF TypeOK, RecOrNil
    <3>2. Linked(hprHead, [hprNext EXCEPT ![prevHpr] = hprNext[hpr], ![hpr] = Nil],
                 Allocated \ {hpr}, hrank)
      BY <1>1, <1>3, <1>4, <1>5, <1>10, <3>1, LinkedDrop
    <3> QED
      BY <1>2, <2>1, <2>3, <3>2
  <2>5. \A t \in Thread : guards(t, crtObj) => rec[t] # hpr
    BY <2>1, <1>4, GuardRecords
  <2>6. prevHpr \in Allocated' /\ hprNext'[prevHpr] = hpr'
    BY <1>2, <1>4, <1>10, <2>1, <2>2, <2>3 DEF Allocated, TypeOK
  <2>7. hpr' # Nil => hpr' \in Allocated' /\ hrank[hpr'] <= hrank[hprhead]
    BY <1>2, <1>4, <1>5, <1>8, <2>3
  <2>8. Nil # crtObj /\ ~found
    BY <1>2, <1>4, <1>5, <2>1 DEF found
  <2>9. \A t \in Thread : guards(t, crtObj) => hpr' # Nil /\ hrank[rec[t]] <= hrank[hpr']
    BY <1>2, <1>5, <1>9, <2>5
  <2>10. hprhead \in Allocated' /\ hprhead # Nil
    BY <1>4, <1>5, <2>2, <2>3
  <2>11. Scan(orank, hrank)'
    BY <1>2, <1>4, <1>6, <1>7, <2>1, <2>6, <2>7, <2>8, <2>9, <2>10 DEF Scan
  <2> QED
    BY <1>6, <2>4, <2>11 DEF Lists, ListsInv
<1>11. CASE ~(unused(hpr) /\ prevHpr # Nil)
  <2>1. /\ UNCHANGED <<hprNext, hazptr>> /\ prevHpr' = hpr
        /\ guardp' = address(hazptr[hpr])
    BY <1>11 DEF RRecord
  <2>2. Allocated' = Allocated /\ Linked(hprHead, hprNext, Allocated, hrank)'
    BY <1>2, <1>3, <2>1 DEF Allocated
  <2>3. \A t \in Thread : guards(t, crtObj) /\ rec[t] = hpr => found
    BY <1>2, <2>1, GuardRecords DEF found, address
  <2>4. \A t \in Thread : guards(t, crtObj) /\ ~found =>
          hpr' # Nil /\ hrank[rec[t]] <= hrank[hpr']
    BY <1>2, <1>5, <1>9, <2>3
  <2>5. hpr' # Nil => hpr' \in Allocated' /\ hrank[hpr'] <= hrank[hprhead]
    BY <1>2, <1>4, <1>5, <1>8, <2>2
  <2>6. hprNext'[prevHpr'] = hpr' /\ hprhead # Nil
    BY <1>2, <1>4, <1>5, <2>1
  <2>7. found <=> guardp' = crtObj'
    BY <1>2 DEF found
  <2>8. Scan(orank, hrank)'
    BY <1>2, <1>4, <1>6, <1>7, <2>1, <2>2, <2>4, <2>5, <2>6, <2>7 DEF Scan
  <2> QED
    BY <1>6, <2>2, <2>8 DEF Lists, ListsInv
<1> QED
  BY <1>10, <1>11

LEMMA ListsDecide ==
  ASSUME TypeOK, Guards, ListsInv, RDecide
  PROVE  ListsInv'
<1> USE HazardAssumption
<1>1. PICK orank \in [Node -> Nat], hrank \in [Rec -> Nat] : Lists(orank, hrank)
  BY DEF ListsInv
<1>2. /\ UNCHANGED <<objHead, hprHead, hprNext, hazptr, hprhead, ptr, rec, guarded>>
      /\ rpc = "decide" /\ crtObj' = objNext[crtObj] /\ compareFrom(hprhead)
  BY DEF RDecide, threadVars, popVars
<1>3. /\ Linked(hprHead, hprNext, Allocated, hrank)
      /\ Linked(objHead, objNext, Retired, orank)
  BY <1>1 DEF Lists
<1>4. /\ crtObj \in Retired /\ hprhead \in Allocated \cup {Nil}
      /\ prevObj # Nil => prevObj \in Retired /\ objNext[prevObj] = crtObj
      /\ \A t \in Thread, n \in Retired :
           guards(t, n) /\ orank[n] <= orank[crtObj] =>
             hprhead # Nil /\ hrank[rec[t]] <= hrank[hprhead]
  BY <1>1, <1>2 DEF Lists, Scan
<1>5. /\ \A n \in Retired : orank[n] \in Nat
      /\ Retired \in SUBSET Node /\ crtObj # Nil
  BY <1>1, <1>4 DEF Retired
<1>6. Allocated' = Allocated /\ Linked(hprHead, hprNext, Allocated, hrank)'
  BY <1>2, <1>3 DEF Allocated
<1>7. \A t \in Thread : \A n : guards(t, n)' <=> guards(t, n)
  BY <1>2 DEF guards
<1>8. crtObj' # Nil =>
        crtObj' \in Retired /\ orank[crtObj'] < orank[crtObj] /\ crtObj' # crtObj
  BY <1>2, <1>3, <1>4, <1>5 DEF Linked
<1>9. ASSUME Retired' \in SUBSET Retired, Linked(objHead, objNext, Retired, orank)',
             crtObj' # Nil => crtObj' \in Retired',
             crtObj' # Nil /\ prevObj' # Nil => prevObj' \in Retired' /\ objNext'[prevObj'] = crtObj'
      PROVE  ListsInv'
  <2>1. ASSUME crtObj' # Nil, NEW t \in Thread, NEW n \in Retired', guards(t, n),
               orank[n] <= orank[crtObj']
        PROVE  hprhead # Nil /\ hrank[rec[t]] <= hrank[hprhead]
    <3>1. n \in Retired /\ orank[n] <= orank[crtObj]
      <4>1. n \in Retired /\ crtObj' \in Retired /\ orank[crtObj'] < orank[crtObj]
        BY <1>8, <1>9, <2>1
      <4>2. orank[n] \in Nat /\ orank[crtObj'] \in Nat /\ orank[crtObj] \in Nat
        BY <1>4, <1>5, <4>1
      <4> QED
        BY <2>1, <4>1, <4>2
    <3> QED
      BY <1>4, <2>1, <3>1
  <2>2. crtObj' # Nil => orank[crtObj'] <= orank[crtObj']
    BY <1>5, <1>8
  <2>3. Scan(orank, hrank)'
    <3>1. CASE crtObj' = Nil
      BY <1>2, <3>1 DEF Scan, compareFrom
    <3>2. CASE crtObj' # Nil /\ hprhead = Nil
      <4>1. rpc' = "decide"
        BY <1>2, <3>2 DEF compareFrom
      <4>2. \A t \in Thread : ~guards(t, crtObj')
        BY <1>9, <2>1, <2>2, <3>2
      <4> QED
        BY <1>2, <1>7, <1>9, <2>1, <3>2, <4>1, <4>2 DEF Scan
    <3>3. CASE crtObj' # Nil /\ hprhead # Nil
      <4>1. rpc' = "record" /\ hpr' = hprhead /\ prevHpr' = Nil
        BY <1>2, <3>3 DEF compareFrom
      <4>2. hprhead \in Allocated' /\ hrank[hprhead] <= hrank[hprhead]
        BY <1>1, <1>4, <1>6, <3>3 DEF Allocated
      <4>3. \A t \in Thread : guards(t, crtObj') => hrank[rec[t]] <= hrank[hprhead]
        BY <1>9, <2>1, <2>2, <3>3
      <4> QED
        BY <1>2, <1>7, <1>9, <2>1, <3>3, <4>1, <4>2, <4>3 DEF Scan
    <3> QED
      BY <3>1, <3>2, <3>3
  <2> QED
    BY <1>6, <1>9, <2>3 DEF Lists, ListsInv
<1>10. CASE mayDelete
  <2>1. /\ objNext' = [objNext EXCEPT ![prevObj] = objNext[crtObj], ![crtObj] = Nil]
        /\ memory' = [memory EXCEPT ![crtObj] = "free"]
        /\ prevObj' = prevObj /\ prevObj # Nil
    BY <1>10 DEF RDecide, mayDelete
  <2>2. /\ Linked(objHead, [objNext EXCEPT ![prevObj] = objNext[crtObj], ![crtObj] = Nil],
                  Retired \ {crtObj}, orank)
        /\ prevObj # crtObj
    <3>1. objNext \in [Node -> Node \cup {Nil}] /\ orank \in [Node -> Nat]
      BY DEF TypeOK, NodeOrNil
    <3>2. /\ Nil \notin Node /\ Retired \in SUBSET Node
          /\ prevObj \in Retired /\ crtObj \in Retired
      BY <1>4, <1>5, <2>1
    <3>3. Linked(objHead, objNext, Retired, orank) /\ objNext[prevObj] = crtObj
      BY <1>3, <1>4, <2>1
    <3> QED
      BY ZenonT(60), <3>1, <3>2, <3>3, LinkedDrop
  <2>3. Retired' = Retired \ {crtObj}
    BY <1>4, <2>1 DEF Retired, TypeOK
  <2>4. Linked(objHead, objNext, Retired, orank)'
    BY <1>2, <2>1, <2>2, <2>3
  <2>5. objNext'[prevObj] = crtObj' /\ prevObj \in Retired'
    BY <1>2, <1>4, <2>1, <2>2, <2>3 DEF Retired, TypeOK
  <2> QED
    BY <1>8, <1>9, <2>1, <2>3, <2>4, <2>5
<1>11. CASE ~mayDelete
  <2>1. prevObj' = crtObj /\ UNCHANGED <<memory, objNext>>
    BY <1>11 DEF RDecide
  <2>2. Retired' = Retired /\ Linked(objHead, objNext, Retired, orank)'
    BY <1>2, <1>3, <2>1 DEF Retired
  <2> QED
    BY <1>2, <1>4, <1>8, <1>9, <2>1, <2>2
<1> QED
  BY <1>10, <1>11

LEMMA ListsRemover ==
  ASSUME TypeOK, Guards, ListsInv, Remover
  PROVE  ListsInv'
<1> USE HazardAssumption
<1>1. CASE RRecord
  BY <1>1, ListsRecord
<1>2. CASE RDecide
  BY <1>2, ListsDecide
<1>3. CASE RBegin \/ RHeads \/ REnd
  <2>1. PICK orank \in [Node -> Nat], hrank \in [Rec -> Nat] : Lists(orank, hrank)
    BY DEF ListsInv
  <2>2. UNCHANGED <<memory, listVars, hazptr, threadVars>>
    BY <1>3 DEF RBegin, RHeads, REnd
  <2>3. Retired' = Retired /\ Allocated' = Allocated
    BY <2>2 DEF Retired, Allocated
  <2>4. /\ Linked(objHead, objNext, Retired, orank)'
        /\ Linked(hprHead, hprNext, Allocated, hrank)'
    BY <2>1, <2>2, <2>3 DEF Lists, listVars
  <2>5. \A t \in Thread : \A n : guards(t, n)' <=> guards(t, n)
    BY <2>2 DEF guards, threadVars, popVars
  <2>6. Scan(orank, hrank)'
    <3>1. CASE RBegin
      <4>1. rpc' = "heads" /\ crtObj' = objHead /\ prevObj' = Nil
        BY <3>1 DEF RBegin
      <4>2. objHead \in Retired \cup {Nil}
        BY <2>1 DEF Lists, Linked
      <4> QED
        BY <2>3, <4>1, <4>2 DEF Scan
    <3>2. CASE RHeads
      <4>1. /\ rpc = "heads" /\ hprhead' = hprHead /\ UNCHANGED <<crtObj, prevObj>>
            /\ compareFrom(hprHead)
        BY <3>2 DEF RHeads
      <4>2. crtObj \in Retired \cup {Nil} /\ prevObj = Nil
        BY <2>1, <4>1 DEF Lists, Scan
      <4>3. /\ hprHead \in Allocated \cup {Nil}
            /\ \A r \in Allocated : hprHead # Nil /\ hrank[r] <= hrank[hprHead]
        <5>1. Nil \notin Allocated /\ Linked(hprHead, hprNext, Allocated, hrank)
          BY <2>1 DEF Lists, Allocated
        <5> QED
          BY <5>1 DEF Linked
      <4>4. \A t \in Thread : \A n : guards(t, n) =>
              hprHead # Nil /\ hrank[rec[t]] <= hrank[hprHead] /\ rec'[t] = rec[t]
        BY <2>2, <4>3, GuardRecords DEF threadVars
      <4>5. CASE crtObj = Nil
        BY <4>1, <4>5 DEF compareFrom, Scan
      <4>6. CASE crtObj # Nil /\ hprHead = Nil
        BY <2>3, <2>5, <4>1, <4>2, <4>4, <4>6 DEF compareFrom, Scan
      <4>7. CASE crtObj # Nil /\ hprHead # Nil
        BY <2>3, <2>5, <4>1, <4>2, <4>3, <4>4, <4>7 DEF compareFrom, Scan
      <4> QED
        BY <4>5, <4>6, <4>7
    <3>3. CASE REnd
      BY <3>3 DEF REnd, Scan
    <3> QED
      BY <1>3, <3>1, <3>2, <3>3
  <2> QED
    BY <2>4, <2>6 DEF Lists, ListsInv
<1> QED
  BY <1>1, <1>2, <1>3 DEF Remover

-----------------------------------------------------------------------------
(* The inductive invariant *)

LEMMA StepIInv == IInv /\ [Next]_vars => IInv'
<1> SUFFICES ASSUME IInv, [Next]_vars PROVE IInv'
  OBVIOUS
<1>1. CASE \E t \in Thread : Flush(t) \/ NewRecord(t) \/ EndThread(t) \/ push(t) \/ pop(t)
  BY <1>1, TypeThread, GuardsThread, GuardKeptThread, ListsThread DEF IInv
<1>2. CASE Remover
  BY <1>2, TypeRemover, GuardsRemover, GuardKeptRemover, ListsRemover DEF IInv
<1>3. CASE UNCHANGED vars
  <2> USE <1>3 DEF vars, stackVars, listVars, threadVars, popVars, removerVars, scanVars
  <2>1. TypeOK' /\ Guards' /\ GuardKept'
    BY DEF IInv, TypeOK, Guards, GuardKept
  <2>2. ListsInv'
    BY DEF IInv, ListsInv, Lists, Linked, Scan, Retired, Allocated, guards
  <2> QED
    BY <2>1, <2>2 DEF IInv
<1> QED
  BY <1>1, <1>2, <1>3 DEF Next

\* What holds in every state, whatever the allocator does with deleted addresses.
THEOREM SpecIInv == Spec => []IInv
BY InitIInv, StepIInv, PTL DEF Spec

\* The variables keep their types.
THEOREM SpecTypeOK == Spec => []TypeOK
<1>1. IInv => TypeOK
  BY DEF IInv
<1> QED
  BY <1>1, SpecIInv, PTL

\* The remover never deletes a node under a guard that was visible before the node
\* was retired: for any number of threads that come and go during its scan.
THEOREM SpecGuardKept == Spec => []GuardKept
<1>1. IInv => GuardKept
  BY DEF IInv
<1> QED
  BY <1>1, SpecIInv, PTL

\* What the remover scans is every record that a thread uses, and no thread uses the
\* record of another: for any number of threads that come and go.
THEOREM SpecRecordsListed == Spec => []RecordsListed
<1>1. IInv => RecordsListed
  <2> SUFFICES ASSUME IInv PROVE RecordsListed
    OBVIOUS
  <2> USE HazardAssumption DEF IInv
  <2>1. PICK hrank \in [Rec -> Nat] : Linked(hprHead, hprNext, Allocated, hrank)
    BY DEF ListsInv, Lists
  <2>2. /\ hprNext \in [Rec -> Rec \cup {Nil}] /\ Nil \notin Rec
        /\ Allocated \in SUBSET Rec
    BY DEF TypeOK, RecOrNil, Allocated
  <2>3. reached(hprHead, hprNext) = Allocated \cup {Nil}
    BY <2>1, <2>2, LinkedReached
  <2>4. \A t \in Thread : rec[t] # Nil =>
          /\ hazptr[rec[t]] \notin {Marked, NoStore}
          /\ \A u \in Thread : rec[u] = rec[t] => u = t
    BY DEF Guards, TypeOK, NodeOrNil, RecOrNil, Allocated
  <2> QED
    BY <2>3, <2>4 DEF RecordsListed, Allocated
<1> QED
  BY <1>1, SpecIInv, PTL
-----------------------------------------------------------------------------
(* The stack, until an exchange with a next node of old *)

\* A step that leaves the stack, what is live and who retires what as they are.
LEMMA StackSame ==
  ASSUME NEW s \in Seq(Node), Stacked(s), UNCHANGED <<head, next>>, Live' = Live,
         retiring' = retiring, \A u \in retiring : ptr'[u] = ptr[u],
         \A u \in Thread \ stale' : pc'[u] = "cas" /\ ptr'[u] \in elements(s) =>
                                      nxt'[u] = next[ptr'[u]]
  PROVE  Stacked(s)'
<1>1. {ptr[t] : t \in retiring}' = {ptr[t] : t \in retiring}
  OBVIOUS
<1>2. isChain(s, head, next)'
  BY DEF Stacked, isChain
<1> QED
  BY <1>1, <1>2 DEF Stacked, elements

\* The type of the stack's nodes, and where they are.
LEMMA StackNodes ==
  ASSUME NEW s \in Seq(Node), Stacked(s)
  PROVE  /\ Len(s) \in Nat /\ DOMAIN s = 1..Len(s)
         /\ \A i \in 1..Len(s) : s[i] \in Node /\ s[i] \in elements(s)
         /\ elements(s) \in SUBSET Node /\ elements(s) \subseteq Live
         /\ s = <<>> <=> Len(s) = 0
<1>1. Len(s) \in Nat /\ DOMAIN s = 1..Len(s) /\ \A i \in 1..Len(s) : s[i] \in Node
  BY LenProperties, ElementOfSeq
<1>2. s = <<>> <=> Len(s) = 0
  BY EmptySeq
<1> QED
  BY <1>1, <1>2 DEF Stacked, elements

LEMMA StackPush ==
  ASSUME TypeOK, NEW s \in Seq(Node), Stacked(s),
         NEW t \in Thread, push(t)
  PROVE  \E n \in Node : <<n>> \o s \in Seq(Node) /\ Stacked(<<n>> \o s)'
<1> USE HazardAssumption
<1>1. PICK n \in Node :
        /\ memory[n] = "free"
        /\ memory' = [memory EXCEPT ![n] = "live"]
        /\ next' = [next EXCEPT ![n] = head] /\ head' = n
        /\ stale' = stale \cup {u \in Thread : pc[u] = "cas" /\ ptr[u] = n}
  BY DEF push
<1>2. UNCHANGED <<pc, ptr, nxt>>
  BY DEF push, threadVars, popVars
<1>3. PICK q \in Seq(Node) : q = <<n>> \o s
  <2>1. <<n>> \in Seq(Node)
    OBVIOUS
  <2> QED
    BY <2>1, ConcatProperties
<1>4. /\ Len(q) = Len(s) + 1 /\ q[1] = n /\ q # <<>>
      /\ \A i \in 1..Len(s) : q[i + 1] = s[i]
      /\ DOMAIN q = 1..Len(s) + 1
  <2>1. <<n>> \in Seq(Node) /\ Len(<<n>>) = 1 /\ <<n>>[1] = n
    OBVIOUS
  <2>2. /\ Len(q) = Len(s) + 1
        /\ \A i \in 1..Len(s) + 1 : q[i] = IF i <= 1 THEN <<n>>[i] ELSE s[i - 1]
    BY <1>3, <2>1, ConcatProperties
  <2>3. Len(s) \in Nat /\ DOMAIN q = 1..Len(q)
    BY <1>3, LenProperties
  <2> QED
    BY <2>1, <2>2, <2>3, EmptySeq
<1>5. /\ elements(q) = elements(s) \cup {n} /\ n \notin elements(s)
      /\ Live' = Live \cup {n}
  <2>1. Live' = Live \cup {n} /\ n \notin Live
    BY <1>1 DEF Live, TypeOK
  <2>2. elements(q) = elements(s) \cup {n}
    <3>1. /\ Len(s) \in Nat /\ DOMAIN s = 1..Len(s)
          /\ \A i \in 1..Len(s) + 1 : i = 1 \/ i - 1 \in 1..Len(s)
          /\ \A i \in 1..Len(s) : i + 1 \in 1..Len(s) + 1
      BY StackNodes
    <3>2. \A i \in 1..Len(s) + 1 : q[i] = n \/ q[i] = s[i - 1]
      <4> SUFFICES ASSUME NEW i \in 1..Len(s) + 1, i # 1 PROVE q[i] = s[i - 1]
        BY <1>4
      <4>1. i - 1 \in 1..Len(s) /\ (i - 1) + 1 = i
        BY <3>1
      <4> QED
        BY <1>4, <4>1
    <3>3. \A i \in 1..Len(s) + 1 : q[i] \in elements(s) \cup {n}
      BY ZenonT(60), <1>4, <3>1, <3>2 DEF elements
    <3>4. \A i \in 1..Len(s) : s[i] \in elements(q)
      BY <1>4, <3>1 DEF elements
    <3>5. n \in elements(q)
      BY <1>4, <3>1 DEF elements
    <3>6. elements(q) \subseteq elements(s) \cup {n} /\ elements(s) \subseteq elements(q)
      BY <1>4, <3>1, <3>3, <3>4 DEF elements
    <3> QED
      BY <3>5, <3>6
  <2> QED
    BY <2>1, <2>2, StackNodes
<1>6. isChain(q, head, next)'
  <2>1. \A i \in 1..Len(s) + 1 : next'[q[i]] = IF i = Len(q) THEN Nil ELSE q[i + 1]
    <3> SUFFICES ASSUME NEW i \in 1..Len(s) + 1
                 PROVE  next'[q[i]] = IF i = Len(q) THEN Nil ELSE q[i + 1]
      OBVIOUS
    <3>1. CASE i = 1
      <4>1. next'[q[i]] = head /\ head = IF s = <<>> THEN Nil ELSE s[1]
        BY <1>1, <1>4, <3>1 DEF TypeOK, Stacked, isChain
      <4> QED
        BY <1>4, <3>1, <4>1, StackNodes
    <3>2. CASE i # 1
      <4>1. i - 1 \in 1..Len(s) /\ q[i] = s[i - 1] /\ s[i - 1] # n
        BY <1>4, <1>5, <3>2, StackNodes
      <4>2. next'[q[i]] = next[s[i - 1]]
        BY <1>1, <4>1, StackNodes DEF TypeOK
      <4>3. next[s[i - 1]] = IF i - 1 = Len(s) THEN Nil ELSE s[i - 1 + 1]
        BY <4>1, StackNodes DEF Stacked, isChain
      <4> QED
        BY <1>4, <4>1, <4>2, <4>3, StackNodes
    <3> QED
      BY <3>1, <3>2
  <2> QED
    BY <1>1, <1>4, <2>1 DEF isChain
<1>7. \A i, j \in DOMAIN q : q[i] = q[j] => i = j
  <2> SUFFICES ASSUME NEW i \in 1..Len(s) + 1, NEW j \in 1..Len(s) + 1, q[i] = q[j]
               PROVE  i = j
    BY <1>4
  <2>1. \A k \in 1..Len(s) + 1 : k # 1 =>
          k - 1 \in 1..Len(s) /\ q[k] = s[k - 1] /\ s[k - 1] # n
    BY <1>4, <1>5, StackNodes
  <2>2. \A k, l \in 1..Len(s) : s[k] = s[l] => k = l
    BY StackNodes DEF Stacked
  <2>3. CASE i = 1 \/ j = 1
    BY <1>4, <2>1, <2>3
  <2>4. CASE i # 1 /\ j # 1
    <3>1. i - 1 = j - 1
      BY <2>1, <2>2, <2>4
    <3> QED
      BY <3>1
  <2> QED
    BY <2>3, <2>4
<1>8. retiring' = retiring /\ \A u \in retiring : ptr[u] # n
  <2>1. \A u \in retiring : ptr[u] \in Live
    BY DEF Stacked
  <2> QED
    BY <1>1, <1>2, <2>1 DEF retiring, Live
<1>9. \A u \in Thread \ stale' : pc'[u] = "cas" /\ ptr'[u] \in elements(q) =>
        nxt'[u] = next'[ptr'[u]]
  <2> SUFFICES ASSUME NEW u \in Thread \ stale', pc[u] = "cas", ptr[u] \in elements(q)
               PROVE  nxt[u] = next'[ptr[u]]
    BY <1>2
  <2>1. u \notin stale /\ ptr[u] # n
    BY <1>1
  <2>2. nxt[u] = next[ptr[u]] /\ ptr[u] \in Node
    BY <1>5, <2>1, StackNodes DEF Stacked
  <2> QED
    BY <1>1, <2>1, <2>2 DEF TypeOK
<1>10. Stacked(q)'
  <2>1. {ptr[u] : u \in retiring}' = {ptr[u] : u \in retiring}
    BY <1>2, <1>8
  <2>2. elements(q)' = elements(q)
    BY DEF elements
  <2>3. Live' = elements(q) \cup {ptr[u] : u \in retiring}
    BY <1>5 DEF Stacked
  <2>4. \A u \in retiring : ptr[u] \notin elements(q)
    BY <1>5, <1>8 DEF Stacked, retiring
  <2>5. \A u, v \in retiring : ptr[u] = ptr[v] => u = v
    BY DEF Stacked
  <2> QED
    BY <1>2, <1>6, <1>7, <1>8, <1>9, <2>1, <2>2, <2>3, <2>4, <2>5 DEF Stacked
<1> QED
  BY <1>3, <1>10
LEMMA StackTake ==
  ASSUME TypeOK, Guards, NEW s \in Seq(Node), Stacked(s),
         NEW t \in Thread, PopExchange(t), exchanges(t), pc'[t] = "retire", ~aba'
  PROVE  s # <<>> /\ Tail(s) \in Seq(Node) /\ Stacked(Tail(s))'
<1> USE HazardAssumption
<1>1. /\ pc[t] = "cas" /\ head = ptr[t] /\ head # Nil
      /\ head' = nxt[t] /\ nxt' = [nxt EXCEPT ![t] = Nil]
      /\ pc' = [pc EXCEPT ![t] = "retire"]
      /\ UNCHANGED <<next, memory, ptr>>
      /\ t \notin stale /\ stale' = stale \ {t}
  BY DEF PopExchange, exchanges, Goto, Guards, TypeOK
<1>2. s # <<>> /\ head = s[1]
  BY <1>1 DEF Stacked, isChain
<1>3. PICK q \in Seq(Node) : q = Tail(s)
  BY <1>2, HeadTailProperties
<1>4. PICK m \in Nat :
        /\ Len(s) = m + 1 /\ DOMAIN s = 1..m + 1
        /\ Len(q) = m /\ DOMAIN q = 1..m
        /\ \A i \in 1..m : q[i] = s[i + 1]
        /\ q = <<>> <=> m = 0
  <2>1. Len(s) \in Nat /\ DOMAIN s = 1..Len(s) /\ Len(s) # 0
    BY <1>2, StackNodes
  <2>2. Len(q) = Len(s) - 1 /\ \A i \in 1..Len(q) : q[i] = s[i + 1]
    BY <1>2, <1>3, HeadTailProperties
  <2>3. DOMAIN q = 1..Len(q) /\ (q = <<>> <=> Len(q) = 0)
    BY LenProperties, EmptySeq
  <2>4. PICK m \in Nat : Len(s) = m + 1
    <3>1. Len(s) - 1 \in Nat /\ Len(s) = (Len(s) - 1) + 1
      BY <2>1
    <3> QED
      BY <3>1
  <2>5. Len(q) = m
    BY <2>2, <2>4
  <2> QED
    BY <2>1, <2>2, <2>3, <2>4, <2>5
<1>5. /\ \A i, j \in 1..m + 1 : s[i] = s[j] => i = j
      /\ \A i \in 1..m + 1 : next[s[i]] = IF i = m + 1 THEN Nil ELSE s[i + 1]
      /\ \A i \in 1..m + 1 : s[i] \in elements(s)
  BY ZenonT(60), <1>4 DEF Stacked, isChain, elements
<1>6. elements(q) = elements(s) \ {head}
  <2>1. \A i \in 1..m : q[i] \in elements(s) /\ q[i] # head
    <3> SUFFICES ASSUME NEW i \in 1..m PROVE q[i] \in elements(s) /\ q[i] # head
      OBVIOUS
    <3>1. i + 1 \in 1..m + 1 /\ q[i] = s[i + 1] /\ 1 \in 1..m + 1 /\ i + 1 # 1
      BY <1>4
    <3> QED
      BY <1>2, <1>5, <3>1
  <2>2. \A i \in 1..m + 1 : i # 1 => i - 1 \in 1..m /\ q[i - 1] = s[i]
    <3> SUFFICES ASSUME NEW i \in 1..m + 1, i # 1 PROVE i - 1 \in 1..m /\ q[i - 1] = s[i]
      OBVIOUS
    <3>1. i - 1 \in 1..m /\ (i - 1) + 1 = i
      OBVIOUS
    <3> QED
      BY <1>4, <3>1
  <2>3. \A i \in 1..m + 1 : s[i] = head \/ s[i] \in elements(q)
    <3>1. \A i \in 1..m : q[i] \in elements(q)
      BY <1>4 DEF elements
    <3> QED
      BY <1>2, <2>2, <3>1
  <2>4. elements(q) \subseteq elements(s) \ {head}
    BY <1>4, <2>1 DEF elements
  <2>5. elements(s) \ {head} \subseteq elements(q)
    BY <1>4, <2>3 DEF elements
  <2> QED
    BY <2>4, <2>5
<1>7. head \in elements(s) /\ nxt[t] = next[head]
  <2>1. 1 \in 1..m + 1
    OBVIOUS
  <2>2. head \in elements(s)
    BY <1>2, <1>5, <2>1
  <2> QED
    BY <1>1, <2>2 DEF Stacked
<1>8. isChain(q, head, next)'
  <2>1. nxt[t] = IF q = <<>> THEN Nil ELSE q[1]
    <3>1. nxt[t] = IF m = 0 THEN Nil ELSE s[1 + 1]
      BY <1>2, <1>5, <1>7
    <3>2. m # 0 => q[1] = s[1 + 1]
      BY <1>4
    <3> QED
      BY <1>4, <3>1, <3>2
  <2>2. \A i \in 1..m : next[q[i]] = IF i = m THEN Nil ELSE q[i + 1]
    <3> SUFFICES ASSUME NEW i \in 1..m
                 PROVE  next[q[i]] = IF i = m THEN Nil ELSE q[i + 1]
      OBVIOUS
    <3>1. i + 1 \in 1..m + 1 /\ (i + 1 = m + 1 <=> i = m)
      OBVIOUS
    <3>2. next[s[i + 1]] = IF i = m THEN Nil ELSE s[(i + 1) + 1]
      BY <1>5, <3>1
    <3>3. i # m => i + 1 \in 1..m
      OBVIOUS
    <3> QED
      BY <1>4, <3>2, <3>3
  <2> QED
    BY <1>1, <1>4, <2>1, <2>2 DEF isChain
<1>9. \A i, j \in DOMAIN q : q[i] = q[j] => i = j
  <2> SUFFICES ASSUME NEW i \in 1..m, NEW j \in 1..m, q[i] = q[j] PROVE i = j
    BY <1>4
  <2>1. i + 1 \in 1..m + 1 /\ j + 1 \in 1..m + 1 /\ s[i + 1] = s[j + 1]
    BY <1>4
  <2>2. i + 1 = j + 1
    BY <1>5, <2>1
  <2> QED
    BY <2>2
<1>10. retiring' = retiring \cup {t} /\ t \notin retiring
  BY <1>1 DEF retiring, TypeOK
<1>11. Live' = elements(q) \cup {ptr[u] : u \in retiring}'
  <2>1. {ptr[u] : u \in retiring}' = {ptr[u] : u \in retiring} \cup {head}
    BY <1>1, <1>10
  <2>2. Live' = elements(s) \cup {ptr[u] : u \in retiring}
    BY <1>1 DEF Stacked, Live
  <2> QED
    BY <1>6, <1>7, <2>1, <2>2
<1>12. \A u \in retiring' :
         /\ ptr'[u] \notin elements(q)
         /\ \A v \in retiring' : ptr'[v] = ptr'[u] => v = u
  <2>1. \A u \in retiring : ptr[u] \notin elements(s) /\ ptr[u] # head
    BY <1>7 DEF Stacked
  <2>2. \A u, v \in retiring : ptr[v] = ptr[u] => v = u
    BY DEF Stacked
  <2> QED
    BY <1>1, <1>6, <1>10, <2>1, <2>2
<1>13. \A u \in Thread \ stale' : pc'[u] = "cas" /\ ptr'[u] \in elements(q) =>
         nxt'[u] = next'[ptr'[u]]
  BY <1>1, <1>6 DEF Stacked, TypeOK
<1>14. elements(q)' = elements(q)
  BY DEF elements
<1>15. Stacked(q)'
  BY <1>8, <1>9, <1>11, <1>12, <1>13, <1>14 DEF Stacked
<1> QED
  BY <1>2, <1>3, <1>15

LEMMA StackRetire ==
  ASSUME TypeOK, Guards, NEW s \in Seq(Node), Stacked(s), NEW t \in Thread, Retire(t)
  PROVE  Stacked(s)'
<1> USE HazardAssumption
<1>1. PICK n \in Node : n = ptr[t]
  BY DEF Retire, Guards, TypeOK, NodeOrNil
<1>2. t \in retiring /\ n \in Live /\ memory[n] = "live"
  BY <1>1 DEF Retire, retiring, Stacked, Live
<1>3. /\ memory' = [memory EXCEPT ![n] = "retired"]
      /\ next' = [next EXCEPT ![n] = Nil]
      /\ pc' = [pc EXCEPT ![t] = "limit"]
      /\ UNCHANGED <<head, ptr, nxt, stale>>
  BY <1>1, <1>2 DEF Retire, Goto
<1>4. n \notin elements(s) /\ \A u \in retiring : ptr[u] = n => u = t
  BY <1>1, <1>2 DEF Stacked
<1>5. retiring' = retiring \ {t}
  BY <1>3 DEF retiring, TypeOK
<1>6. \A x \in elements(s) : next'[x] = next[x]
  BY <1>3, <1>4, StackNodes DEF TypeOK
<1>7. isChain(s, head, next)'
  <2>1. \A i \in DOMAIN s : s[i] \in elements(s)
    BY DEF elements
  <2> QED
    BY <1>3, <1>6, <2>1 DEF Stacked, isChain
<1>8. Live' = elements(s) \cup {ptr[u] : u \in retiring}'
  <2>1. Live' = Live \ {n}
    BY <1>3 DEF Live, TypeOK
  <2>2. {ptr[u] : u \in retiring}' = {ptr[u] : u \in retiring} \ {n}
    BY <1>1, <1>3, <1>4, <1>5
  <2> QED
    BY <1>4, <2>1, <2>2 DEF Stacked
<1>9. \A u \in Thread \ stale' : pc'[u] = "cas" /\ ptr'[u] \in elements(s) =>
        nxt'[u] = next'[ptr'[u]]
  BY <1>3, <1>6 DEF Stacked, TypeOK
<1>10. elements(s)' = elements(s)
  BY DEF elements
<1>11. \A u \in retiring' :
         /\ ptr'[u] \notin elements(s)
         /\ \A v \in retiring' : ptr'[v] = ptr'[u] => v = u
  BY <1>3, <1>5 DEF Stacked
<1> QED
  BY <1>7, <1>8, <1>9, <1>10, <1>11 DEF Stacked

\* A stale exchange is not forgotten.
LEMMA Once == ASSUME [Next]_vars, ~aba', TypeOK PROVE ~aba
BY DEF Next, vars, stackVars, Flush, NewRecord, EndThread, push, pop, PopLoad, PopGuard,
       PopNext, PopExchange, Retire, LimitObjects, PopClear, Remover, RBegin, RHeads, RRecord,
       RDecide, REnd, TypeOK

\* A push() takes effect when its node becomes the head, a pop() when its exchange
\* succeeds; every other step leaves the stack.
LEMMA StackStep ==
  ASSUME IInv, NEW s \in Seq(Node), Stacked(s), [Next]_vars, ~aba'
  PROVE  \E q \in Seq(Node) :
           /\ Stacked(q)'
           /\ \/ q = s
              \/ \E n \in Node : q = <<n>> \o s
              \/ s # <<>> /\ q = Tail(s)
<1> USE HazardAssumption DEF IInv
<1>1. CASE \E t \in Thread : push(t)
  BY <1>1, StackPush
<1>2. CASE \E t \in Thread : Retire(t)
  BY <1>2, StackRetire
<1>3. CASE \E t \in Thread : PopExchange(t) /\ exchanges(t) /\ pc'[t] = "retire"
  BY <1>3, StackTake
<1>4. CASE \E t \in Thread :
             \/ Flush(t) \/ NewRecord(t) \/ EndThread(t) \/ PopLoad(t) \/ PopGuard(t)
             \/ PopNext(t) \/ LimitObjects(t) \/ PopClear(t)
             \/ PopExchange(t) /\ ~(exchanges(t) /\ pc'[t] = "retire")
  <2> PICK t \in Thread :
             \/ Flush(t) \/ NewRecord(t) \/ EndThread(t) \/ PopLoad(t) \/ PopGuard(t)
             \/ PopNext(t) \/ LimitObjects(t) \/ PopClear(t)
             \/ PopExchange(t) /\ ~(exchanges(t) /\ pc'[t] = "retire")
    BY <1>4
  <2> USE DEF Flush, NewRecord, EndThread, PopLoad, PopGuard, LimitObjects, PopClear, Goto,
              stackVars, popVars, threadVars
  <2>1. /\ UNCHANGED <<head, next, memory>>
        /\ stale' = stale \/ (stale' = stale \ {t} /\ pc'[t] = "load")
    BY DEF PopNext, PopExchange, TypeOK
  <2>2. Live' = Live
    BY <2>1 DEF Live
  <2>3. \A u \in Thread : /\ u # t => pc'[u] = pc[u] /\ ptr'[u] = ptr[u] /\ nxt'[u] = nxt[u]
                          /\ pc[u] = "retire" <=> pc'[u] = "retire"
                          /\ pc[u] = "retire" => ptr'[u] = ptr[u]
    BY DEF PopNext, PopExchange, TypeOK
  <2>4. retiring' = retiring /\ \A u \in retiring : ptr'[u] = ptr[u]
    BY <2>3 DEF retiring
  <2>5. pc'[t] = "cas" /\ ptr'[t] \in elements(s) /\ t \notin stale' =>
          nxt'[t] = next[ptr'[t]]
    <3>1. CASE PopNext(t)
      <4>1. ptr[t] \in elements(s) => memory[ptr[t]] # "free"
        BY StackNodes DEF Live
      <4> QED
        BY <3>1, <4>1 DEF PopNext, TypeOK
    <3>2. CASE ~PopNext(t)
      <4>1. pc'[t] = "cas" => pc[t] = "cas" /\ ptr'[t] = ptr[t] /\ nxt'[t] = nxt[t]
        BY <3>2 DEF PopExchange, TypeOK
      <4> QED
        BY <2>1, <4>1 DEF Stacked
    <3> QED
      BY <3>1, <3>2
  <2>6. \A u \in Thread \ stale' : pc'[u] = "cas" /\ ptr'[u] \in elements(s) =>
          nxt'[u] = next[ptr'[u]]
    BY <2>1, <2>3, <2>5 DEF Stacked
  <2>7. Stacked(s)'
    BY <2>1, <2>2, <2>4, <2>6, StackSame
  <2> QED
    BY <2>7
<1>5. CASE Remover \/ UNCHANGED vars
  <2>1. UNCHANGED <<head, next, stale, pc, ptr, nxt>>
    BY <1>5 DEF Remover, RBegin, RHeads, RRecord, RDecide, REnd, vars, stackVars, threadVars,
                popVars
  <2>2. Live' = Live
    <3>1. CASE RDecide /\ mayDelete
      <4>1. crtObj \in Retired /\ memory' = [memory EXCEPT ![crtObj] = "free"]
        BY <3>1 DEF RDecide, ListsInv, Lists, Scan
      <4> QED
        BY <4>1 DEF Retired, Live, TypeOK
    <3>2. CASE ~(RDecide /\ mayDelete)
      BY <1>5, <3>2 DEF Remover, RBegin, RHeads, RRecord, RDecide, REnd, vars, Live
    <3> QED
      BY <3>1, <3>2
  <2>3. retiring' = retiring
    BY <2>1 DEF retiring
  <2>4. \A u \in Thread \ stale' : pc'[u] = "cas" /\ ptr'[u] \in elements(s) =>
          nxt'[u] = next[ptr'[u]]
    BY <2>1 DEF Stacked
  <2>5. Stacked(s)'
    BY <2>1, <2>2, <2>3, <2>4, StackSame
  <2> QED
    BY <2>5
<1> QED
  BY <1>1, <1>2, <1>3, <1>4, <1>5 DEF Next, pop
\* Two numbers with the same positive numbers below them are equal.
LEMMA SameBound ==
  \A a, b \in Nat : (\A i \in Nat : i >= 1 => (i <= a <=> i <= b)) => a = b
<1> TAKE a \in Nat, b \in Nat
<1> HAVE \A i \in Nat : i >= 1 => (i <= a <=> i <= b)
<1>1. a >= 1 => a <= b
  OBVIOUS
<1>2. b >= 1 => b <= a
  OBVIOUS
<1> QED
  BY <1>1, <1>2

\* A stack has one order only, and it has no more nodes than there are.
LEMMA ItemsOf ==
  ASSUME ~aba, TypeOK, NEW s \in Seq(Node), Stacked(s)
  PROVE  items = s
<1> USE HazardAssumption
<1> DEFINE C == UNION {[1..k -> Node] : k \in 0..Cardinality(Node)}
<1>1. Len(s) \in Nat /\ s \in [1..Len(s) -> Node]
  BY LenProperties
<1>2. Len(s) <= Cardinality(Node)
  <2>1. s \in Injection(1..Len(s), Node)
    BY <1>1 DEF Stacked, Injection, IsInjective
  <2>2. Cardinality(1..Len(s)) <= Cardinality(Node)
    BY <2>1, FS_Injection
  <2>3. Cardinality(1..Len(s)) = Len(s)
    BY <1>1, FS_Interval
  <2> QED
    BY <2>2, <2>3
<1>3. s \in C /\ isChain(s, head, next)
  <2>1. Cardinality(Node) \in Nat
    BY FS_CardinalityType
  <2>2. Len(s) \in 0..Cardinality(Node)
    BY <1>1, <1>2, <2>1
  <2> QED
    BY <1>1, <2>2 DEF Stacked
<1>4. ASSUME NEW q \in C, isChain(q, head, next)
      PROVE  q = s
  <2>1. PICK k \in Nat : q \in [1..k -> Node]
    <3>1. Cardinality(Node) \in Nat
      BY FS_CardinalityType
    <3> QED
      BY <1>4, <3>1
  <2>2. q \in Seq(Node)
    BY <2>1, SeqDef
  <2>3. /\ Len(q) \in Nat /\ DOMAIN q = 1..Len(q) /\ \A i \in 1..Len(q) : q[i] \in Node
        /\ Len(s) \in Nat /\ DOMAIN s = 1..Len(s) /\ \A i \in 1..Len(s) : s[i] \in Node
        /\ q = <<>> <=> Len(q) = 0
        /\ s = <<>> <=> Len(s) = 0
    BY <2>2, LenProperties, ElementOfSeq, EmptySeq
  <2> DEFINE at(p, i) == IF i <= Len(p) THEN p[i] ELSE Nil
             D == {i \in Nat : i >= 1 /\ at(q, i) # at(s, i)}
  <2>4. /\ at(q, 1) = at(s, 1)
        /\ \A i \in Nat : i >= 1 /\ at(q, i) = at(s, i) => at(q, i + 1) = at(s, i + 1)
    <3>1. at(q, 1) = head /\ at(s, 1) = head
      BY <1>3, <1>4, <2>3 DEF isChain
    <3>2. ASSUME NEW i \in Nat, i >= 1, at(q, i) = at(s, i)
          PROVE  at(q, i + 1) = at(s, i + 1)
      <4>1. i <= Len(q) <=> i <= Len(s)
        BY <2>3, <3>2
      <4>2. CASE i <= Len(q)
        <5>1. i \in 1..Len(q) /\ i \in 1..Len(s) /\ q[i] = s[i]
          BY SMTT(60), <2>3, <3>2, <4>1, <4>2
        <5>2. /\ next[q[i]] = IF i = Len(q) THEN Nil ELSE q[i + 1]
              /\ next[s[i]] = IF i = Len(s) THEN Nil ELSE s[i + 1]
          BY <1>3, <1>4, <2>3, <5>1 DEF isChain
        <5>3. at(q, i + 1) = next[q[i]] /\ at(s, i + 1) = next[s[i]]
          BY <2>3, <5>1, <5>2
        <5> QED
          BY <5>1, <5>3
      <4>3. CASE ~(i <= Len(q))
        BY <2>3, <4>1, <4>3
      <4> QED
        BY <4>2, <4>3
    <3> QED
      BY <3>1, <3>2
  <2>5. D = {}
    <3> SUFFICES ASSUME D # {} PROVE FALSE
      OBVIOUS
    <3>1. D \in SUBSET Nat
      OBVIOUS
    <3> HIDE DEF at
    <3>2. PICK i \in D : \A j \in D : i <= j
      BY <3>1, LeastOf
    <3>3. i # 1 /\ i - 1 \in Nat /\ i - 1 >= 1 /\ (i - 1) + 1 = i
      BY <2>4, <3>2
    <3>4. i - 1 \notin D
      BY <3>2, <3>3
    <3> QED
      BY <2>4, <3>2, <3>3, <3>4
  <2>6. \A i \in Nat : i >= 1 => (i <= Len(q) <=> i <= Len(s))
    BY SMTT(60), <2>3, <2>5
  <2>7. Len(q) = Len(s)
    <3>1. Len(q) \in Nat /\ Len(s) \in Nat
      BY <2>3
    <3> HIDE DEF at, D
    <3> QED
      BY ZenonT(60), <2>6, <3>1, SameBound
  <2>8. \A i \in 1..Len(s) : q[i] = s[i]
    BY <2>3, <2>5, <2>7
  <2> QED
    BY <2>2, <2>7, <2>8, SeqEqual
<1>5. items = CHOOSE q \in C : isChain(q, head, next)
  BY DEF items
<1> HIDE DEF C
<1> QED
  BY <1>3, <1>4, <1>5

\* The head leads to the nodes of the stack.
LEMMA StackReached ==
  ASSUME TypeOK, NEW s \in Seq(Node), Stacked(s)
  PROVE  reached(head, next) = elements(s) \cup {Nil}
<1> USE HazardAssumption
<1>1. PICK m \in Nat :
      /\ m = Len(s) /\ DOMAIN s = 1..m
      /\ elements(s) \in SUBSET Node
      /\ \A i \in 1..m : s[i] \in Node /\ s[i] \in elements(s)
      /\ s = <<>> <=> m = 0
  BY StackNodes
<1> DEFINE place(x) == CHOOSE i \in 1..m : s[i] = x
           rank == [x \in Node |-> IF x \in elements(s) THEN m - place(x) ELSE 0]
<1>2. \A i \in 1..m : place(s[i]) = i
  <2>1. \A i, j \in 1..m : s[i] = s[j] => i = j
    BY <1>1 DEF Stacked
  <2> QED
    BY <2>1
<1>3. \A i \in 1..m : rank[s[i]] = m - i
  BY <1>1, <1>2
<1>4. \A x \in elements(s) : \E i \in 1..m : x = s[i]
  BY <1>1 DEF elements
<1>5. rank \in [Node -> Nat]
  <2>1. \A x \in elements(s) : m - place(x) \in Nat
    BY <1>1, <1>2, <1>4
  <2> QED
    BY <2>1
<1> HIDE DEF rank, place
<1>6. /\ head = IF s = <<>> THEN Nil ELSE s[1]
      /\ \A i \in 1..m : next[s[i]] = IF i = m THEN Nil ELSE s[i + 1]
  BY <1>1 DEF Stacked, isChain
<1>7. elements(s) = {} <=> s = <<>>
  <2>1. s # <<>> => 1 \in 1..m
    BY <1>1
  <2>2. s = <<>> => 1..m = {}
    BY <1>1
  <2> QED
    BY <1>1, <1>4, <2>1, <2>2
<1>8. Linked(head, next, elements(s), rank)
  <2>1. IF elements(s) = {} THEN head = Nil ELSE head \in elements(s)
    BY <1>1, <1>6, <1>7
  <2>2. ASSUME NEW x \in elements(s)
        PROVE  /\ rank[x] <= rank[head]
               /\ next[x] \in elements(s) => rank[next[x]] < rank[x]
               /\ next[x] \in elements(s) \cup {Nil}
    <3>1. PICK i \in 1..m : x = s[i]
      BY <1>4
    <3>2. rank[x] = m - i /\ rank[head] = m - 1
      BY <1>1, <1>3, <1>6, <3>1
    <3>3. CASE i = m
      BY <1>1, <1>6, <3>1, <3>2, <3>3
    <3>4. CASE i # m
      <4>1. i + 1 \in 1..m /\ next[x] = s[i + 1]
        BY <1>1, <1>6, <3>1, <3>4
      <4>2. rank[next[x]] = m - (i + 1)
        BY <1>3, <4>1
      <4> QED
        BY <1>1, <3>2, <4>1, <4>2
    <3> QED
      BY <3>3, <3>4
  <2>3. ASSUME NEW x \in elements(s), NEW y \in elements(s)
        PROVE  /\ rank[y] < rank[x] => next[x] \in elements(s) /\ rank[y] <= rank[next[x]]
               /\ rank[y] = rank[x] => y = x
    <3>1. PICK i \in 1..m : x = s[i]
      BY <1>4
    <3>2. PICK j \in 1..m : y = s[j]
      BY <1>4
    <3>3. rank[x] = m - i /\ rank[y] = m - j
      BY <1>3, <3>1, <3>2
    <3>4. rank[y] = rank[x] => y = x
      <4>1. rank[y] = rank[x] => i = j
        BY <1>1, <3>3
      <4> QED
        BY <3>1, <3>2, <4>1
    <3>5. ASSUME rank[y] < rank[x]
          PROVE  next[x] \in elements(s) /\ rank[y] <= rank[next[x]]
      <4>1. i < j /\ i + 1 \in 1..m /\ i # m
        BY <1>1, <3>3, <3>5
      <4>2. next[x] = s[i + 1] /\ rank[next[x]] = m - (i + 1)
        BY <1>3, <1>6, <3>1, <4>1
      <4> QED
        BY <1>1, <3>3, <4>1, <4>2
    <3> QED
      BY <3>4, <3>5
  <2> QED
    BY <2>1, <2>2, <2>3 DEF Linked
<1>9. next \in [Node -> Node \cup {Nil}] /\ Nil \notin Node
  BY DEF TypeOK, NodeOrNil
<1> QED
  BY <1>1, <1>5, <1>8, <1>9, LinkedReached
ItemsAre == \A s \in Seq(Node) : ~aba /\ TypeOK /\ Stacked(s) => items = s

LEMMA ItemsNow == ItemsAre
BY ItemsOf DEF ItemsAre

LEMMA ItemsNext == ItemsAre'
BY ItemsNow, PTL

LEMMA InitStacked == Init => Stacked(<<>>) /\ <<>> \in Seq(Node)
<1> SUFFICES ASSUME Init PROVE Stacked(<<>>)
  BY EmptySeq
<1>1. retiring = {} /\ Live = {} /\ elements(<<>>) = {} /\ head = Nil
  BY DEF Init, retiring, Live, elements
<1>2. {ptr[t] : t \in retiring} = {}
  BY <1>1
<1> QED
  BY <1>1, <1>2 DEF Init, Stacked, isChain

LEMMA InvOnePlace ==
  ASSUME IInv, StackInv
  PROVE  NodeInOnePlace
<1> USE HazardAssumption DEF IInv
<1>1. reached(objHead, objNext) = {n \in Node : memory[n] = "retired"} \cup {Nil}
  <2>1. PICK orank \in [Node -> Nat] : Linked(objHead, objNext, Retired, orank)
    BY DEF ListsInv, Lists
  <2>2. /\ objNext \in [Node -> Node \cup {Nil}] /\ Nil \notin Node
        /\ Retired \in SUBSET Node
    BY DEF TypeOK, NodeOrNil, Retired
  <2>3. reached(objHead, objNext) = Retired \cup {Nil}
    BY <2>1, <2>2, LinkedReached
  <2> QED
    BY <2>3 DEF Retired
<1>2. ASSUME ~aba
      PROVE  /\ reached(head, next) \cup {ptr[t] : t \in retiring}
                  = {n \in Node : memory[n] = "live"} \cup {Nil}
             /\ \A t \in retiring :
                  /\ ptr[t] \notin reached(head, next)
                  /\ \A u \in retiring : ptr[u] = ptr[t] => u = t
  <2>1. PICK s \in Seq(Node) : Stacked(s)
    BY <1>2 DEF StackInv
  <2>2. reached(head, next) = elements(s) \cup {Nil}
    BY <2>1, StackReached
  <2>3. \A t \in retiring : ptr[t] # Nil
    BY DEF Guards, retiring
  <2> QED
    BY <2>1, <2>2, <2>3 DEF Stacked, Live
<1> QED
  BY <1>1, <1>2 DEF NodeInOnePlace

LEMMA StepStackInv == IInv /\ StackInv /\ [Next]_vars => StackInv'
<1> SUFFICES ASSUME IInv, StackInv, [Next]_vars, ~aba'
             PROVE  (\E s \in Seq(Node) : Stacked(s))'
  BY DEF StackInv
<1>1. PICK s \in Seq(Node) : Stacked(s)
  BY Once DEF StackInv, IInv
<1>2. PICK q \in Seq(Node) : Stacked(q)'
  BY <1>1, StackStep
<1> QED
  BY <1>2

LEMMA InitStackInv == Init => StackInv
BY InitStacked DEF StackInv

\* The list of removed nodes ends and has every retired node once, always. Until an
\* exchange succeeds on a node that was deleted and pushed again since the thread read
\* its next, each other node in memory is in the chain from the head or in the hands of
\* one pop(): for any threads, any nodes, and an allocator that uses addresses again.
THEOREM SpecNodeInOnePlace == Spec => []NodeInOnePlace
<1>1. IInv /\ StackInv => NodeInOnePlace
  BY InvOnePlace
<1> QED
  BY <1>1, InitStackInv, StepStackInv, SpecIInv, PTL DEF Spec

\* With any allocator, the stack, its pops and their exchanges implement a stack whose
\* operations are atomic, until such an exchange: only the ABA of guard() can break it.
THEOREM SpecLifo == Spec => LifoSpec
<1>1. Init => Lifo!Init
  <2> SUFFICES ASSUME Init PROVE Lifo!Init
    OBVIOUS
  <2>1. Stacked(<<>>) /\ <<>> \in Seq(Node) /\ TypeOK /\ ~aba
    BY InitStacked, InitIInv DEF IInv, Init
  <2>2. items = <<>>
    BY <2>1, ItemsOf
  <2> QED
    BY <2>2 DEF Lifo!Init
<1>2. IInv /\ IInv' /\ StackInv /\ [Next]_vars => [aba' \/ Lifo!Push \/ Lifo!Pop]_items
  <2> SUFFICES ASSUME IInv, IInv', StackInv, [Next]_vars, ~aba'
               PROVE  [Lifo!Push \/ Lifo!Pop]_items
    OBVIOUS
  <2>1. PICK s \in Seq(Node) : Stacked(s)
    BY Once DEF StackInv, IInv
  <2>2. PICK q \in Seq(Node) :
          /\ Stacked(q)'
          /\ \/ q = s
             \/ \E n \in Node : q = <<n>> \o s
             \/ s # <<>> /\ q = Tail(s)
    BY <2>1, StackStep
  <2>3. items = s
    BY <2>1, Once, ItemsOf DEF IInv
  <2>4. items' = q
    BY <2>2, ItemsNext DEF IInv, ItemsAre
  <2> QED
    BY <2>2, <2>3, <2>4 DEF Lifo!Push, Lifo!Pop
<1> QED
  BY <1>1, <1>2, InitStackInv, StepStackInv, SpecIInv, PTL DEF Spec, LifoSpec
=============================================================================
