----------------------------- MODULE HazardStack -----------------------------
(***************************************************************************)
(* TStack with the hazard pointers that protect its nodes: push() and      *)
(* pop() of the threads, deleteLater(), THazardPtrManager with its lists   *)
(* of removed nodes and of hazard pointers, and THazardRemoverThread.      *)
(*                                                                         *)
(* A loop of load and compareExchange that only touches memory of its own  *)
(* before it succeeds is one step. The counts of the two lists change with *)
(* the lists. TAtomicPtr::store() has release order: the store to a hazard *)
(* pointer may stay invisible until the thread's next exchange.            *)
(***************************************************************************)
EXTENDS Integers, Sequences, FiniteSets

CONSTANTS
  Thread,
  Node,          \* addresses of stack nodes
  Rec,           \* addresses of THazardPtrRecord objects
  Nil, Marked,   \* the null pointer, and the pointer 0x01
  NoStore,
  GcBufferSize   \* THazardPtrManager::gcBufferSize, 100 or more in the program

ASSUME HazardAssumption ==
  /\ Nil \notin Node \cup Rec
  /\ Marked \notin Node \cup {Nil}
  /\ NoStore \notin Node \cup {Nil, Marked}
  /\ IsFiniteSet(Node) /\ IsFiniteSet(Rec)
  /\ GcBufferSize \in Nat

VARIABLES
  head,     \* stkHead
  next,     \* [Node -> Node or Nil]
  stale,    \* ghost: threads whose node was deleted and pushed again before their exchange
  aba,      \* ghost: one of them has exchanged the head for a next node of old
  memory,   \* [Node -> {"free", "live", "retired"}]: retired is "deleted"
  objHead, objNext,   \* the list of retired nodes
  hprHead, hprNext,   \* the list of hazard pointers
  hazptr,   \* [Rec -> ...]: as other threads see it; NoStore: not allocated
  pc, ptr, nxt,       \* of a thread in pop()
  rec,      \* the record of the thread's THazardPtr
  pending,  \* its store to hazptr that is not yet visible
  guarded,  \* ghost: the guard was visible before the node was retired
  rpc,      \* THazardRemoverThread::run()
  startObjCnt, startHprCnt, crtObj, prevObj, hprhead, hpr, prevHpr, guardp

stackVars   == <<head, next, stale, aba>>
listVars    == <<objHead, objNext, hprHead, hprNext>>
popVars     == <<pc, ptr, nxt>>
threadVars  == <<popVars, rec, pending, guarded>>
scanVars    == <<startObjCnt, startHprCnt, crtObj, prevObj, hprhead, hpr, prevHpr, guardp>>
removerVars == <<rpc, scanVars>>
vars == <<stackVars, memory, listVars, hazptr, threadVars, removerVars>>

NodeOrNil == Node \cup {Nil}
RecOrNil  == Rec \cup {Nil}

TypeOK ==
  /\ head \in NodeOrNil /\ next \in [Node -> NodeOrNil]
  /\ stale \in SUBSET Thread /\ aba \in BOOLEAN
  /\ memory \in [Node -> {"free", "live", "retired"}]
  /\ objHead \in NodeOrNil /\ objNext \in [Node -> NodeOrNil]
  /\ hprHead \in RecOrNil /\ hprNext \in [Rec -> RecOrNil]
  /\ hazptr \in [Rec -> NodeOrNil \cup {Marked, NoStore}]
  /\ pc \in [Thread -> {"idle", "load", "guard", "next", "cas", "retire", "limit", "clear"}]
  /\ ptr \in [Thread -> NodeOrNil] /\ nxt \in [Thread -> NodeOrNil]
  /\ rec \in [Thread -> RecOrNil]
  /\ pending \in [Thread -> NodeOrNil \cup {NoStore}]
  /\ guarded \in [Thread -> BOOLEAN]
  /\ rpc \in {"off", "begin", "heads", "record", "decide", "end"}
  /\ startObjCnt \in 0..Cardinality(Node) /\ startHprCnt \in 0..Cardinality(Rec)
  /\ crtObj \in NodeOrNil /\ prevObj \in NodeOrNil
  /\ hprhead \in RecOrNil /\ hpr \in RecOrNil /\ prevHpr \in RecOrNil
  /\ guardp \in NodeOrNil

Init ==
  /\ head = Nil /\ next = [n \in Node |-> Nil] /\ stale = {} /\ aba = FALSE
  /\ memory = [n \in Node |-> "free"]
  /\ objHead = Nil /\ objNext = [n \in Node |-> Nil]
  /\ hprHead = Nil /\ hprNext = [r \in Rec |-> Nil]
  /\ hazptr = [r \in Rec |-> NoStore]
  /\ pc = [t \in Thread |-> "idle"]
  /\ ptr = [t \in Thread |-> Nil] /\ nxt = [t \in Thread |-> Nil]
  /\ rec = [t \in Thread |-> Nil]
  /\ pending = [t \in Thread |-> NoStore]
  /\ guarded = [t \in Thread |-> FALSE]
  /\ rpc = "off"
  /\ startObjCnt = 0 /\ startHprCnt = 0
  /\ crtObj = Nil /\ prevObj = Nil
  /\ hprhead = Nil /\ hpr = Nil /\ prevHpr = Nil /\ guardp = Nil

-----------------------------------------------------------------------------
objCount == Cardinality({n \in Node : memory[n] = "retired"})
hprCount == Cardinality({r \in Rec : hazptr[r] # NoStore})

Goto(t, p) == pc' = [pc EXCEPT ![t] = p]

\* gc(): the remover thread is started unless it runs.
gc == rpc' = IF rpc = "off" THEN "begin" ELSE rpc

\* hazptr when the stores of t have become visible.
written(t) ==
  IF pending[t] = NoStore THEN hazptr ELSE [hazptr EXCEPT ![rec[t]] = pending[t]]

\* Whether the guard of t was visible before its node was retired.
guardedInTime(t) ==
  IF pending[t] = NoStore THEN guarded[t]
  ELSE pending[t] = ptr[t] /\ ptr[t] # Nil /\ memory[ptr[t]] = "live"

Flush(t) ==
  /\ pending[t] # NoStore
  /\ hazptr' = written(t)
  /\ guarded' = [guarded EXCEPT ![t] = guardedInTime(t)]
  /\ pending' = [pending EXCEPT ![t] = NoStore]
  /\ UNCHANGED <<stackVars, memory, listVars, popVars, rec, removerVars>>

\* Older stores become visible before the thread stores again. (In between, the
\* older guard only protects for longer.)
store(t, value) ==
  /\ pending[t] = NoStore
  /\ pending' = [pending EXCEPT ![t] = value]

-----------------------------------------------------------------------------
(* The threads *)

\* THazardPtr::THazardPtr(), at the first pop() of a thread
NewRecord(t) ==
  /\ pc[t] = "idle" /\ rec[t] = Nil
  /\ \E r \in Rec :
       /\ hazptr[r] = NoStore
       /\ hazptr' = [hazptr EXCEPT ![r] = Nil]
       /\ hprNext' = [hprNext EXCEPT ![r] = hprHead]
       /\ hprHead' = r
       /\ rec' = [rec EXCEPT ![t] = r]
  /\ gc
  /\ UNCHANGED <<stackVars, memory, objHead, objNext, popVars, pending, guarded, scanVars>>

\* THazardPtr::~THazardPtr(), when the thread ends. (Bound: an address is left for
\* the record of another thread.)
EndThread(t) ==
  /\ pc[t] = "idle" /\ rec[t] # Nil /\ pending[t] = NoStore
  /\ \E r \in Rec : hazptr[r] = NoStore
  /\ hazptr' = [hazptr EXCEPT ![rec[t]] = Marked]
  /\ rec' = [rec EXCEPT ![t] = Nil]
  /\ gc
  /\ UNCHANGED <<stackVars, memory, listVars, popVars, pending, guarded, scanVars>>

\* The allocator may give out any free address, one that a pop() still has, too.
push(t) ==
  /\ pc[t] = "idle"
  /\ \E n \in Node :
       /\ memory[n] = "free"
       /\ memory' = [memory EXCEPT ![n] = "live"]
       /\ next' = [next EXCEPT ![n] = head]
       /\ head' = n
       /\ stale' = stale \cup {u \in Thread : pc[u] = "cas" /\ ptr[u] = n}
  /\ gc
  /\ UNCHANGED <<aba, listVars, hazptr, threadVars, scanVars>>

\* guard(): the head is loaded ...
PopLoad(t) ==
  /\ rec[t] # Nil
  /\ pc[t] \in {"idle", "load"}
  /\ ptr' = [ptr EXCEPT ![t] = head]
  /\ Goto(t, "guard")
  /\ UNCHANGED <<stackVars, memory, listVars, hazptr, nxt, rec, pending, guarded, removerVars>>

\* ... and stored in the hazard pointer. Nobody looks at the head again.
PopGuard(t) ==
  /\ pc[t] = "guard"
  /\ store(t, ptr[t])
  /\ Goto(t, IF ptr[t] = Nil THEN "clear" ELSE "next")
  /\ UNCHANGED <<stackVars, memory, listVars, hazptr, ptr, nxt, rec, guarded, removerVars>>

\* pnode->next: freed memory may hold anything.
PopNext(t) ==
  /\ pc[t] = "next"
  /\ \E n \in IF memory[ptr[t]] = "free" THEN NodeOrNil ELSE {next[ptr[t]]} :
       nxt' = [nxt EXCEPT ![t] = n]
  /\ Goto(t, "cas")
  /\ UNCHANGED <<stackVars, memory, listVars, hazptr, ptr, rec, pending, guarded, removerVars>>

\* compareExchange() makes the stores of the thread visible.
exchanges_Blindly(t) == TRUE                                   \* mutant
exchanges(t) == head = ptr[t]

PopExchange(t) ==
  /\ pc[t] = "cas"
  /\ hazptr' = written(t)
  /\ pending' = [pending EXCEPT ![t] = NoStore]
  /\ nxt' = [nxt EXCEPT ![t] = Nil]
  /\ stale' = stale \ {t}
  /\ \/ /\ exchanges(t)
        /\ head' = nxt[t]
        /\ aba' = (aba \/ t \in stale)
        /\ Goto(t, "retire")
        /\ guarded' = [guarded EXCEPT ![t] = guardedInTime(t)]
        /\ UNCHANGED ptr
     \/ /\ ~exchanges(t)
        /\ Goto(t, "load")
        /\ guarded' = [guarded EXCEPT ![t] = FALSE]
        /\ ptr' = [ptr EXCEPT ![t] = Nil]
        /\ UNCHANGED <<head, aba>>
  /\ UNCHANGED <<next, memory, listVars, rec, removerVars>>

\* The value is read, pnode->next reset; deleteLater() puts the node on the list
\* of the manager, once.
Retire(t) ==
  /\ pc[t] = "retire"
  /\ next' = [next EXCEPT ![ptr[t]] = Nil]
  /\ IF memory[ptr[t]] # "retired"
     THEN /\ memory' = [memory EXCEPT ![ptr[t]] = "retired"]
          /\ objNext' = [objNext EXCEPT ![ptr[t]] = objHead]
          /\ objHead' = ptr[t]
          /\ Goto(t, "limit")
          /\ UNCHANGED rpc
     ELSE Goto(t, "clear") /\ gc /\ UNCHANGED <<memory, objHead, objNext>>
  /\ UNCHANGED <<head, stale, aba, hprHead, hprNext, hazptr, ptr, nxt, rec, pending, guarded, scanVars>>

\* "Limits objects": the thread goes round until the remover has deleted enough.
limit_Single == IF hprCount > GcBufferSize THEN hprCount ELSE GcBufferSize   \* mutant
limit == IF 2 * hprCount > GcBufferSize THEN 2 * hprCount ELSE GcBufferSize

LimitObjects(t) ==
  /\ pc[t] = "limit"
  /\ IF objCount < limit THEN Goto(t, "clear") ELSE UNCHANGED pc
  /\ gc
  /\ UNCHANGED <<stackVars, memory, listVars, hazptr, ptr, nxt, rec, pending, guarded, scanVars>>

PopClear(t) ==
  /\ pc[t] = "clear"
  /\ store(t, Nil)
  /\ ptr' = [ptr EXCEPT ![t] = Nil]
  /\ guarded' = [guarded EXCEPT ![t] = FALSE]
  /\ Goto(t, "idle")
  /\ UNCHANGED <<stackVars, memory, listVars, hazptr, nxt, rec, removerVars>>

-----------------------------------------------------------------------------
(* THazardRemoverThread::run() *)

RBegin ==
  /\ rpc = "begin"
  /\ startObjCnt' = objCount /\ startHprCnt' = hprCount
  /\ crtObj' = objHead /\ prevObj' = Nil
  /\ rpc' = "heads"
  /\ UNCHANGED <<stackVars, memory, listVars, hazptr, threadVars, hprhead, hpr, prevHpr, guardp>>

\* The next node is compared with the hazard pointers from r on.
compareFrom(r) ==
  /\ rpc' = IF crtObj' = Nil THEN "end" ELSE IF r = Nil THEN "decide" ELSE "record"
  /\ hpr' = IF crtObj' = Nil THEN Nil ELSE r
  /\ prevHpr' = Nil /\ guardp' = Nil

\* The hazard pointers are listed after the removed nodes: a thread that comes
\* later cannot find one of these nodes on the stack.
RHeads ==
  /\ rpc = "heads"
  /\ hprhead' = hprHead
  /\ UNCHANGED <<crtObj, prevObj>>
  /\ compareFrom(hprHead)
  /\ UNCHANGED <<stackVars, memory, listVars, hazptr, threadVars, startObjCnt, startHprCnt>>

\* A record whose thread has ended is taken out and deleted, unless it is the first.
unused_Cleared(r) == hazptr[r] \in {Nil, Marked}               \* mutant
unused(r) == hazptr[r] = Marked

\* TAtomicPtr::load() without the mark
address(p) == IF p = Marked THEN Nil ELSE p

found_Never == FALSE                                           \* mutant: no break
found == guardp' = crtObj

RRecord ==
  /\ rpc = "record"
  /\ \/ /\ unused(hpr) /\ prevHpr # Nil
        /\ hprNext' = [hprNext EXCEPT ![prevHpr] = hprNext[hpr], ![hpr] = Nil]
        /\ hazptr' = [hazptr EXCEPT ![hpr] = NoStore]
        /\ guardp' = Nil
        /\ UNCHANGED prevHpr
     \/ /\ ~(unused(hpr) /\ prevHpr # Nil)
        /\ guardp' = address(hazptr[hpr])
        /\ prevHpr' = hpr
        /\ UNCHANGED <<hprNext, hazptr>>
  /\ hpr' = hprNext[hpr]
  /\ rpc' = IF found \/ hpr' = Nil THEN "decide" ELSE "record"
  /\ UNCHANGED <<stackVars, memory, objHead, objNext, hprHead, threadVars, startObjCnt,
                 startHprCnt, crtObj, prevObj, hprhead>>

\* The node is taken out of the list and deleted, unless it is guarded or the first.
mayDelete_First == crtObj # guardp                             \* mutant
mayDelete == crtObj # guardp /\ prevObj # Nil

RDecide ==
  /\ rpc = "decide"
  /\ IF mayDelete
     THEN /\ objNext' = [objNext EXCEPT ![prevObj] = objNext[crtObj], ![crtObj] = Nil]
          /\ memory' = [memory EXCEPT ![crtObj] = "free"]
          /\ crtObj' = objNext[crtObj]
          /\ UNCHANGED prevObj
     ELSE /\ prevObj' = crtObj
          /\ crtObj' = objNext[crtObj]
          /\ UNCHANGED <<memory, objNext>>
  /\ compareFrom(hprhead)
  /\ UNCHANGED <<stackVars, objHead, hprHead, hprNext, hazptr, threadVars, startObjCnt,
                 startHprCnt, hprhead>>

\* Another round only if both lists have grown.
REnd ==
  /\ rpc = "end"
  /\ rpc' = IF objCount <= startObjCnt \/ hprCount <= startHprCnt THEN "off" ELSE "begin"
  /\ startObjCnt' = 0 /\ startHprCnt' = 0
  /\ crtObj' = Nil /\ prevObj' = Nil /\ hprhead' = Nil
  /\ UNCHANGED <<stackVars, memory, listVars, hazptr, threadVars, hpr, prevHpr, guardp>>

-----------------------------------------------------------------------------
pop(t) ==
  \/ PopLoad(t) \/ PopGuard(t) \/ PopNext(t) \/ PopExchange(t) \/ Retire(t)
  \/ LimitObjects(t) \/ PopClear(t)

Remover == RBegin \/ RHeads \/ RRecord \/ RDecide \/ REnd

Next ==
  \/ \E t \in Thread : Flush(t) \/ NewRecord(t) \/ EndThread(t) \/ push(t) \/ pop(t)
  \/ Remover

\* What was begun goes on; no thread has to begin anything.
Fairness ==
  /\ WF_vars(Remover)
  /\ \A t \in Thread : WF_vars(Flush(t)) /\ WF_vars(pc[t] # "idle" /\ pop(t))

Spec == Init /\ [][Next]_vars
FairSpec == Spec /\ Fairness

-----------------------------------------------------------------------------
(* Properties *)

\* A list has what its first pointer leads to. Nil is among it if the list ends.
reached(first, link) ==
  {x \in DOMAIN link \cup {Nil} :
     \A S \in SUBSET (DOMAIN link \cup {Nil}) :
       first \in S /\ (\A y \in S \ {Nil} : link[y] \in S) => x \in S}

\* The nodes on the stack, in their order. After an ABA it may be no chain.
isChain(s, first, link) ==
  /\ first = IF s = <<>> THEN Nil ELSE s[1]
  /\ \A i \in DOMAIN s : link[s[i]] = IF i = Len(s) THEN Nil ELSE s[i + 1]
items == IF aba THEN <<>>
         ELSE CHOOSE s \in UNION {[1..k -> Node] : k \in 0..Cardinality(Node)} :
                isChain(s, head, next)

\* A node is not deleted under a guard that was visible before it was retired,
\* until the guard is cleared: whatever threads come and go during the scan. (A
\* guard that comes too late protects nothing: PopNext reads freed memory then.)
GuardKept == \A t \in Thread : guarded[t] => memory[ptr[t]] # "free"

\* The list of removed nodes ends, and has every retired node once. Until a pop()
\* exchanges the head although its node was deleted and pushed again since it read
\* next (guard() comes too late to prevent it), each other node in memory is on the
\* stack or in the hands of one pop(): no other interleaving loses or doubles one.
retiring == {t \in Thread : pc[t] = "retire"}

NodeInOnePlace ==
  /\ reached(objHead, objNext) = {n \in Node : memory[n] = "retired"} \cup {Nil}
  /\ ~aba =>
       /\ reached(head, next) \cup {ptr[t] : t \in retiring}
            = {n \in Node : memory[n] = "live"} \cup {Nil}
       /\ \A t \in retiring :
            /\ ptr[t] \notin reached(head, next)
            /\ \A u \in retiring : ptr[u] = ptr[t] => u = t

\* The remover comes to every record that a thread uses, and each thread has one of
\* its own: threads push records while the remover takes out those of threads that
\* ended. The list ends, and nothing else is in it but records not yet taken out.
RecordsListed ==
  /\ reached(hprHead, hprNext) = {r \in Rec : hazptr[r] # NoStore} \cup {Nil}
  /\ \A t \in Thread : rec[t] # Nil =>
       /\ hazptr[rec[t]] \notin {Marked, NoStore}
       /\ \A u \in Thread : rec[u] = rec[t] => u = t

Lifo == INSTANCE LifoStack

\* The stack is a stack, with any allocator: pushes and pops take effect one at a time,
\* in LIFO order, until an exchange of that kind, and in no other way does it fail.
LifoSpec == Lifo!Init /\ [][aba' \/ Lifo!Push \/ Lifo!Pop]_items

\* A thread that goes round until the remover has deleted enough does not do so for
\* ever, although the first of the list is never deleted, and the thread itself
\* guards a node, and gc() does nothing while the remover is about to end.
RetireEnds == \A t \in Thread : pc[t] = "limit" ~> pc[t] # "limit"
=============================================================================
