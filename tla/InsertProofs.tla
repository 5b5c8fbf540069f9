---------------------------- MODULE InsertProofs ----------------------------
(***************************************************************************)
(* Proofs about Insert, for any number of callers, calls, key sets and     *)
(* replacements of the server's set: one row per item, under one key set,  *)
(* in a cluster of the set the server has, and no success without a row.   *)
(***************************************************************************)
EXTENDS Insert, TLAPS

(* What every request says of its item: the id is the item's own, both     *)
(* representations are under one key set, the version is the set its       *)
(* cluster was assigned in.                                                *)
Own(m) == m.id = m.of /\ m.flat = m.mm /\ m.cluster = m.version

(* What a call has in hand at the places that use it.                      *)
HasKeys(c) == pc[c] \in {"flat", "route", "mm"} => snap[c] \in KeySets
HasSet(c) == pc[c] = "mm" => stage[c] = "out" /\ got[c] \in Cache!Sets \ {0}
HasRequest(c) ==
  pc[c] \in {"send", "wait", "backoff"} =>
    req[c] \in Items /\ Own(req[c]) /\ attempt[c] \in 1..maxAttempts
HasAttemptLeft(c) == pc[c] = "backoff" => attempt[c] < maxAttempts

(* A reply waits for a call that waits, and "ok" speaks of a stored row.   *)
ReplyIsAwaited(c) == reply[c] # "none" => pc[c] = "wait"
OkIsStored(c) == reply[c] = "ok" => \E r \in rows : r.of = req[c].of

CallOK(c) ==
  /\ HasKeys(c) /\ HasSet(c) /\ HasRequest(c) /\ HasAttemptLeft(c)
  /\ ReplyIsAwaited(c) /\ OkIsStored(c)

(* What is on the wire and what is stored came from such requests, and an  *)
(* id is stored once.                                                      *)
WireIsOwn == \A w \in net : Own(w[1])
RowsAreOwn == \A r \in rows : Own(r)
OneRowPerId == \A r, s \in rows : r.id = s.id => r = s

IInv ==
  /\ TypeOK
  /\ \A c \in Callers : CallOK(c)
  /\ WireIsOwn /\ RowsAreOwn /\ OneRowPerId

-----------------------------------------------------------------------------
(* A request of the form every request has is a request.                   *)
LEMMA RequestsAreItems ==
  ASSUME NEW id \in Ids, NEW k \in KeySets, NEW v \in Cache!Sets
  PROVE  LET m == [of |-> id, id |-> id, flat |-> k, mm |-> k, cluster |-> v, version |-> v]
         IN  m \in Items /\ Own(m)
BY DEF Items, Own

(* The invariant holds of a client that was just dialled.                  *)
LEMMA InitInvariant ==
  ASSUME Init
  PROVE  IInv
<1>1. TypeOK
  BY BoundsAssumption DEF Init, TypeOK, Cache!Init, Cache!TypeOK, Cache!Stages, maxAttempts
<1>2. \A c \in Callers : CallOK(c)
  BY DEF Init, CallOK, HasKeys, HasSet, HasRequest, HasAttemptLeft, ReplyIsAwaited, OkIsStored
<1>3. WireIsOwn /\ RowsAreOwn /\ OneRowPerId
  BY DEF Init, WireIsOwn, RowsAreOwn, OneRowPerId
<1> QED
  BY <1>1, <1>2, <1>3 DEF IInv

(* What a call that did not move knows is left alone, if the step touches  *)
(* no set it may have in hand and takes no row away.                       *)
LEMMA OthersUndisturbed ==
  ASSUME NEW d \in Callers, CallOK(d), rows \subseteq rows',
         pc'[d] = pc[d], snap'[d] = snap[d], req'[d] = req[d], attempt'[d] = attempt[d],
         reply'[d] = reply[d], stage'[d] = stage[d], got'[d] = got[d]
  PROVE  CallOK(d)'
BY DEF CallOK, HasKeys, HasSet, HasRequest, HasAttemptLeft, ReplyIsAwaited, OkIsStored,
   Items, Ids, Own, maxAttempts

(* A call that returns, whatever it returns, keeps the invariant.          *)
LEMMA Returning ==
  ASSUME IInv, NEW c \in Callers, NEW what \in {"ok"} \cup Failures, Return(c, what),
         calls' \in [Callers -> 0..MaxCalls], UNCHANGED <<cacheVars, clientVars, net, rows>>
  PROVE  IInv'
<1> USE DEF cacheVars, clientVars
<1>1. TypeOK'
  <2>1. Cache!TypeOK'
    BY DEF IInv, TypeOK, Cache!TypeOK, Cache!Sets, Cache!Stages
  <2>2. (req \in [Callers -> Items \cup {NoReq}] /\ net \subseteq Items \X (1..maxAttempts)
         /\ rows \subseteq Items)'
    BY DEF IInv, TypeOK, Return, Goto, Items, Ids, NoReq, maxAttempts
  <2>3. (result \in [Callers -> {"none", "ok"} \cup Failures])'
    BY DEF IInv, TypeOK, Return, Goto, Failures
  <2> QED
    BY <2>1, <2>2, <2>3 DEF IInv, TypeOK, Return, Goto, maxAttempts, Bundles
<1>2. ASSUME NEW d \in Callers PROVE CallOK(d)'
  <2>1. CASE d = c
    BY <2>1 DEF IInv, TypeOK, Return, Goto, CallOK, HasKeys, HasSet, HasRequest,
       HasAttemptLeft, ReplyIsAwaited, OkIsStored
  <2>2. CASE d # c
    BY <2>2, OthersUndisturbed DEF IInv, TypeOK, Return, Goto
  <2> QED
    BY <2>1, <2>2
<1>3. (WireIsOwn /\ RowsAreOwn /\ OneRowPerId)'
  BY DEF IInv, WireIsOwn, RowsAreOwn, OneRowPerId
<1> QED
  BY <1>1, <1>2, <1>3 DEF IInv

(* A step of c leaves the calls of the others where they are.              *)
OthersStay(c) ==
  \A d \in Callers \ {c} :
    /\ pc'[d] = pc[d] /\ snap'[d] = snap[d] /\ req'[d] = req[d] /\ attempt'[d] = attempt[d]
    /\ reply'[d] = reply[d] /\ stage'[d] = stage[d] /\ got'[d] = got[d]

(* A step of c that sends and stores nothing keeps the invariant if it     *)
(* keeps the types and leaves c with what c needs where it now is.         *)
LEMMA Moving ==
  ASSUME IInv, NEW c \in Callers, TypeOK', CallOK(c)', OthersStay(c), UNCHANGED <<net, rows>>
  PROVE  IInv'
<1>1. ASSUME NEW d \in Callers PROVE CallOK(d)'
  <2>1. CASE d = c
    BY <2>1
  <2>2. CASE d # c
    BY <2>2, OthersUndisturbed DEF IInv, OthersStay
  <2> QED
    BY <2>1, <2>2
<1>2. (WireIsOwn /\ RowsAreOwn /\ OneRowPerId)'
  BY DEF IInv, WireIsOwn, RowsAreOwn, OneRowPerId
<1> QED
  BY <1>1, <1>2 DEF IInv

-----------------------------------------------------------------------------
(* Insert starts with the key set that is bound, or ends at once.          *)
LEMMA BeginInsertKeeps ==
  ASSUME IInv, NEW c \in Callers, BeginInsert(c)
  PROVE  IInv'
<1>1. calls' \in [Callers -> 0..MaxCalls]
  BY BoundsAssumption DEF IInv, TypeOK, BeginInsert, BeginCall
<1>2. UNCHANGED <<cacheVars, clientVars, net, rows>>
  BY DEF BeginInsert
<1>3. CASE \E what \in {"ok"} \cup Failures : Return(c, what)
  BY <1>1, <1>2, <1>3, Returning
<1>4. CASE /\ keys # NoKeys
           /\ Goto(c, "flat")
           /\ snap' = [snap EXCEPT ![c] = keys]
           /\ result' = [result EXCEPT ![c] = "none"]
           /\ UNCHANGED <<req, attempt, reply>>
  <2> USE <1>1, <1>2, <1>4 DEF cacheVars, clientVars, Goto
  <2>1. TypeOK'
    <3>1. Cache!TypeOK'
      BY DEF IInv, TypeOK, Cache!TypeOK, Cache!Sets, Cache!Stages
    <3>2. (req \in [Callers -> Items \cup {NoReq}] /\ net \subseteq Items \X (1..maxAttempts)
           /\ rows \subseteq Items)'
      BY DEF IInv, TypeOK, Items, Ids, NoReq, maxAttempts
    <3>3. (result \in [Callers -> {"none", "ok"} \cup Failures])'
      BY DEF IInv, TypeOK, Failures
    <3> QED
      BY <3>1, <3>2, <3>3 DEF IInv, TypeOK, maxAttempts, Bundles
  <2>2. OthersStay(c)
    BY DEF OthersStay, IInv, TypeOK
  <2>3. CallOK(c)'
    BY DEF IInv, TypeOK, BeginInsert, BeginCall, CallOK, HasKeys, HasSet, HasRequest,
       HasAttemptLeft, ReplyIsAwaited, OkIsStored
  <2> QED
    BY <2>1, <2>2, <2>3, Moving
<1> QED
  BY <1>3, <1>4 DEF BeginInsert, Failures

(* EncryptFlat fails, or the call goes to the centroid cache.              *)
LEMMA EncryptFlatKeeps ==
  ASSUME IInv, NEW c \in Callers, EncryptFlat(c)
  PROVE  IInv'
<1>1. CASE \E what \in {"ok"} \cup Failures :
             Return(c, what) /\ UNCHANGED <<cacheVars, clientVars, calls, net, rows>>
  BY <1>1, Returning DEF IInv, TypeOK
<1>2. CASE /\ Goto(c, "route")
           /\ Cache!Enter(c)
           /\ UNCHANGED <<calls, snap, req, attempt, reply, result, clientVars, net, rows>>
  <2> USE <1>2 DEF cacheVars, clientVars, Goto, Cache!Enter
  <2>1. TypeOK'
    BY DEF IInv, TypeOK, Cache!TypeOK, Cache!Sets, Cache!Stages, Items, Ids,
       NoReq, Failures, maxAttempts, Bundles
  <2>2. OthersStay(c)
    BY DEF OthersStay, IInv, TypeOK, Cache!TypeOK
  <2>3. CallOK(c)'
    BY DEF IInv, TypeOK, EncryptFlat, CallOK, HasKeys, HasSet, HasRequest,
       HasAttemptLeft, ReplyIsAwaited, OkIsStored
  <2> QED
    BY <2>1, <2>2, <2>3, Moving
<1> QED
  BY <1>1, <1>2 DEF EncryptFlat, Failures

(* A set of no clustered tier ends the call; another one it holds on to.   *)
LEMMA UseCentroidSetKeeps ==
  ASSUME IInv, NEW c \in Callers, UseCentroidSet(c)
  PROVE  IInv'
<1>1. CASE \E what \in {"ok"} \cup Failures :
             Return(c, what) /\ UNCHANGED <<cacheVars, clientVars, calls, net, rows>>
  BY <1>1, Returning DEF IInv, TypeOK
<1>2. CASE /\ stage[c] = "out" /\ got[c] \notin {NoSet, 0}
           /\ Goto(c, "mm")
           /\ UNCHANGED <<snap, req, attempt, reply, result, cacheVars, clientVars, calls, net,
                          rows>>
  <2> USE <1>2 DEF cacheVars, clientVars, Goto
  <2>1. TypeOK'
    BY DEF IInv, TypeOK, Cache!TypeOK, Cache!Sets, Cache!Stages, Items, Ids,
       NoReq, Failures, maxAttempts, Bundles
  <2>2. OthersStay(c)
    BY DEF OthersStay, IInv, TypeOK, Cache!TypeOK
  <2>3. CallOK(c)'
    BY DEF IInv, TypeOK, UseCentroidSet, CallOK, HasKeys, HasSet, HasRequest,
       HasAttemptLeft, ReplyIsAwaited, OkIsStored,
       Cache!TypeOK
  <2> QED
    BY <2>1, <2>2, <2>3, Moving
<1> QED
  BY <1>1, <1>2 DEF UseCentroidSet, Failures

(* The request is made of the key set and the centroid set in hand.        *)
LEMMA EncryptClusteredKeeps ==
  ASSUME IInv, NEW c \in Callers, EncryptClustered(c)
  PROVE  IInv'
<1>1. CASE \E what \in {"ok"} \cup Failures :
             Return(c, what) /\ UNCHANGED <<cacheVars, clientVars, calls, net, rows>>
  BY <1>1, Returning DEF IInv, TypeOK
<1>2. CASE /\ pc[c] = "mm"
           /\ req' = [req EXCEPT ![c] = RoutedItem(c)]
           /\ attempt' = [attempt EXCEPT ![c] = 1]
           /\ Goto(c, "send")
           /\ UNCHANGED <<snap, reply, result, cacheVars, clientVars, calls, net, rows>>
  <2> USE <1>2 DEF cacheVars, clientVars, Goto
  <2>0. RoutedItem(c) \in Items /\ Own(RoutedItem(c))
    <3>1. <<c, calls[c]>> \in Ids /\ snap[c] \in KeySets /\ got[c] \in Cache!Sets
      BY DEF IInv, TypeOK, CallOK, HasKeys, HasSet, Ids
    <3> QED
      BY <3>1, RequestsAreItems DEF RoutedItem
  <2>1. TypeOK'
    BY <2>0 DEF IInv, TypeOK, Cache!TypeOK, Cache!Sets, Cache!Stages, Items, Ids,
       NoReq, Failures, maxAttempts, Bundles
  <2>2. OthersStay(c)
    BY DEF OthersStay, IInv, TypeOK, Cache!TypeOK
  <2>3. CallOK(c)'
    BY <2>0 DEF Items, Ids, Own, maxAttempts, IInv, TypeOK, EncryptClustered, CallOK, HasKeys,
       HasSet, HasRequest, HasAttemptLeft, ReplyIsAwaited, OkIsStored
  <2> QED
    BY <2>1, <2>2, <2>3, Moving
<1> QED
  BY <1>1, <1>2 DEF EncryptClustered, Failures

(* After UNAVAILABLE the call backs off, or gives up.                      *)
LEMMA SeeUnavailableKeeps ==
  ASSUME IInv, NEW c \in Callers, SeeUnavailable(c)
  PROVE  IInv'
<1>1. CASE \E what \in {"ok"} \cup Failures :
             Return(c, what) /\ UNCHANGED <<cacheVars, clientVars, calls, net, rows>>
  BY <1>1, Returning DEF IInv, TypeOK
<1>2. CASE /\ attempt[c] < maxAttempts
           /\ Goto(c, "backoff")
           /\ reply' = [reply EXCEPT ![c] = "none"]
           /\ UNCHANGED <<snap, req, attempt, result, cacheVars, clientVars, calls, net, rows>>
  <2> USE <1>2 DEF cacheVars, clientVars, Goto
  <2>1. TypeOK'
    BY DEF IInv, TypeOK, Cache!TypeOK, Cache!Sets, Cache!Stages, Items, Ids,
       NoReq, Failures, maxAttempts, Bundles
  <2>2. OthersStay(c)
    BY DEF OthersStay, IInv, TypeOK, Cache!TypeOK
  <2>3. CallOK(c)'
    BY DEF IInv, TypeOK, SeeUnavailable, CallOK, HasKeys, HasSet, HasRequest,
       HasAttemptLeft, ReplyIsAwaited, OkIsStored
  <2> QED
    BY <2>1, <2>2, <2>3, Moving
<1> QED
  BY <1>1, <1>2 DEF SeeUnavailable, Failures

(* The same request is sent in the next attempt, or the context ended.     *)
LEMMA BackoffKeeps ==
  ASSUME IInv, NEW c \in Callers, Backoff(c)
  PROVE  IInv'
<1>1. CASE \E what \in {"ok"} \cup Failures :
             Return(c, what) /\ UNCHANGED <<cacheVars, clientVars, calls, net, rows>>
  BY <1>1, Returning DEF IInv, TypeOK
<1>2. CASE /\ pc[c] = "backoff"
           /\ Goto(c, "send")
           /\ attempt' = [attempt EXCEPT ![c] = @ + 1]
           /\ UNCHANGED <<snap, req, reply, result, cacheVars, clientVars, calls, net, rows>>
  <2> USE <1>2 DEF cacheVars, clientVars, Goto
  <2>0. attempt[c] + 1 \in 1..maxAttempts /\ (attempt \in [Callers -> 0..maxAttempts])'
    BY DEF IInv, TypeOK, CallOK, HasAttemptLeft, maxAttempts
  <2>1. TypeOK'
    <3>1. (req \in [Callers -> Items \cup {NoReq}] /\ net \subseteq Items \X (1..maxAttempts)
           /\ rows \subseteq Items)'
      BY DEF IInv, TypeOK, Items, Ids, NoReq, maxAttempts
    <3> QED
      BY <2>0, <3>1 DEF IInv, TypeOK, Cache!TypeOK, Cache!Sets, Cache!Stages, Failures, Bundles
  <2>2. OthersStay(c)
    BY DEF OthersStay, IInv, TypeOK, Cache!TypeOK
  <2>3. CallOK(c)'
    BY <2>0 DEF Items, Ids, Own, maxAttempts, IInv, TypeOK, Backoff, CallOK, HasKeys,
       HasSet, HasRequest, HasAttemptLeft, ReplyIsAwaited, OkIsStored
  <2> QED
    BY <2>1, <2>2, <2>3, Moving
<1> QED
  BY <1>1, <1>2 DEF Backoff, Failures

(* A pre-encrypted item becomes a request as it is.                        *)
LEMMA BeginPreEncryptedKeeps ==
  ASSUME IInv, NEW c \in Callers, BeginPreEncrypted(c)
  PROVE  IInv'
<1>1. calls' \in [Callers -> 0..MaxCalls]
  BY BoundsAssumption DEF IInv, TypeOK, BeginPreEncrypted, BeginCall
<1>2. UNCHANGED <<cacheVars, clientVars, net, rows>> /\ pc[c] = "idle"
  BY DEF BeginPreEncrypted, BeginCall
<1>3. CASE \E what \in {"ok"} \cup Failures : Return(c, what)
  BY <1>1, <1>2, <1>3, Returning
<1>4. CASE /\ \E k \in KeySets, v \in Cache!Sets \ {0} :
                req' = [req EXCEPT ![c] = [of |-> PreId(c), id |-> PreId(c), flat |-> k,
                                           mm |-> k, cluster |-> v, version |-> v]]
           /\ attempt' = [attempt EXCEPT ![c] = 1]
           /\ Goto(c, "send")
           /\ result' = [result EXCEPT ![c] = "none"]
           /\ UNCHANGED <<snap, reply>>
  <2>1. PICK m \in Items : Own(m) /\ req' = [req EXCEPT ![c] = m]
    <3>1. PreId(c) \in Ids
      BY BoundsAssumption DEF PreId, Ids
    <3> QED
      BY <1>4, <3>1, RequestsAreItems
  <2> HIDE <1>4
  <2> USE <1>1, <1>2, <2>1 DEF cacheVars, clientVars, Goto
  <2>2. /\ attempt' = [attempt EXCEPT ![c] = 1]
        /\ pc' = [pc EXCEPT ![c] = "send"]
        /\ result' = [result EXCEPT ![c] = "none"]
        /\ UNCHANGED <<snap, reply>>
    BY <1>4
  <2>3. TypeOK'
    <3>1. (req \in [Callers -> Items \cup {NoReq}] /\ net \subseteq Items \X (1..maxAttempts)
           /\ rows \subseteq Items)'
      BY DEF IInv, TypeOK, Items, Ids, NoReq, maxAttempts
    <3> QED
      BY <2>2, <3>1 DEF IInv, TypeOK, Cache!TypeOK, Cache!Sets, Cache!Stages, Failures,
         maxAttempts, Bundles
  <2>4. OthersStay(c)
    BY <2>2 DEF OthersStay, IInv, TypeOK
  <2>5. CallOK(c)'
    BY <2>2 DEF Items, Ids, Own, maxAttempts, IInv, TypeOK, CallOK, HasKeys, HasSet, HasRequest,
       HasAttemptLeft, ReplyIsAwaited, OkIsStored
  <2> QED
    BY <2>3, <2>4, <2>5, Moving
<1> QED
  BY <1>3, <1>4 DEF BeginPreEncrypted, Failures

(* The centroid cache changes what a call has in hand only while it is     *)
(* inside, and it is not when it uses the set.                             *)
LEMMA CacheStepKeeps ==
  ASSUME IInv, NEW c \in Callers, CacheStep(c)
  PROVE  IInv'
<1> USE DEF clientVars, callVars
<1>1. Cache!TypeOK'
  <2> USE DEF IInv, TypeOK, Cache!TypeOK, Cache!Sets, Cache!Stages
  <2>1. CASE Cache!Lookup(c)
    BY <2>1 DEF Cache!Lookup
  <2>2. CASE Cache!Drain(c)
    BY <2>2 DEF Cache!Drain
  <2>3. CASE Cache!FetchFails(c)
    BY <2>3 DEF Cache!FetchFails
  <2>4. CASE Cache!Install(c)
    BY <2>4 DEF Cache!Install
  <2> QED
    BY <2>1, <2>2, <2>3, <2>4 DEF CacheStep
<1>2. TypeOK'
  BY <1>1 DEF IInv, TypeOK, CacheStep, Items, Ids, NoReq, Failures, maxAttempts, Bundles,
     Cache!Sets
<1>3. stage[c] # "out"
  BY DEF CacheStep, Cache!Lookup, Cache!Drain, Cache!FetchFails, Cache!Install
<1>4. OthersStay(c)
  BY DEF OthersStay, IInv, TypeOK, Cache!TypeOK, CacheStep, Cache!Lookup, Cache!Drain,
     Cache!FetchFails, Cache!Install
<1>5. CallOK(c)'
  BY <1>3 DEF CacheStep, IInv, CallOK, HasKeys, HasSet, HasRequest, HasAttemptLeft,
     ReplyIsAwaited, OkIsStored, Items, Ids, Own, maxAttempts
<1> QED
  BY <1>2, <1>4, <1>5, Moving DEF CacheStep

(* A request goes out as it was made.                                      *)
LEMMA SendInsertKeeps ==
  ASSUME IInv, NEW c \in Callers, SendInsert(c)
  PROVE  IInv'
<1>1. CASE \E what \in {"ok"} \cup Failures :
             Return(c, what) /\ UNCHANGED <<cacheVars, clientVars, calls, net, rows>>
  BY <1>1, Returning DEF IInv, TypeOK
<1>2. CASE /\ pc[c] = "send"
           /\ net' = net \cup {<<req[c], attempt[c]>>}
           /\ Goto(c, "wait")
           /\ UNCHANGED <<snap, req, attempt, reply, result, cacheVars, clientVars, calls, rows>>
  <2> USE <1>2 DEF cacheVars, clientVars, Goto
  <2>1. req[c] \in Items /\ Own(req[c]) /\ attempt[c] \in 1..maxAttempts
    BY DEF IInv, CallOK, HasRequest
  <2>2. TypeOK'
    <3>1. (req \in [Callers -> Items \cup {NoReq}] /\ net \subseteq Items \X (1..maxAttempts)
           /\ rows \subseteq Items)'
      BY <2>1 DEF IInv, TypeOK, Items, Ids, NoReq, maxAttempts
    <3> QED
      BY <3>1 DEF IInv, TypeOK, Cache!TypeOK, Cache!Sets, Cache!Stages, Failures,
         maxAttempts, Bundles
  <2>3. ASSUME NEW d \in Callers PROVE CallOK(d)'
    <3>1. CASE d = c
      BY <2>1, <3>1 DEF IInv, TypeOK, CallOK, HasKeys, HasSet, HasRequest, HasAttemptLeft,
         ReplyIsAwaited, OkIsStored, Items, Ids, Own, maxAttempts
    <3>2. CASE d # c
      BY <3>2, OthersUndisturbed DEF IInv, TypeOK
    <3> QED
      BY <3>1, <3>2
  <2>4. WireIsOwn'
    BY <2>1 DEF IInv, WireIsOwn, Own
  <2>5. (RowsAreOwn /\ OneRowPerId)'
    BY DEF IInv, RowsAreOwn, OneRowPerId
  <2> QED
    BY <2>2, <2>3, <2>4, <2>5 DEF IInv
<1> QED
  BY <1>1, <1>2 DEF SendInsert, Failures

(* A reply that came, and a failure of the RPC, end the call.              *)
LEMMA AnswerKeeps ==
  ASSUME IInv, NEW c \in Callers, ReceiveReply(c) \/ SeeFailure(c)
  PROVE  IInv'
<1>1. calls' \in [Callers -> 0..MaxCalls] /\ UNCHANGED <<cacheVars, clientVars, net, rows>>
  BY DEF IInv, TypeOK, ReceiveReply, SeeFailure
<1>2. \E what \in {"ok"} \cup Failures : Return(c, what)
  BY DEF IInv, TypeOK, ReceiveReply, SeeFailure, Failures
<1> QED
  BY <1>1, <1>2, Returning

-----------------------------------------------------------------------------
(* What the server does with a request that reaches it.                    *)
LEMMA Delivering ==
  ASSUME IInv, NEW w \in net, Deliver(w[1], w[2])
  PROVE  /\ w[1] \in Items /\ Own(w[1])
         /\ net' \subseteq net
         /\ rows' = rows \/ (rows' = rows \cup {w[1]} /\ ~Stored(w[1]) /\ w[1].version = serverSet)
<1>1. w[1] \in Items /\ Own(w[1])
  BY DEF IInv, TypeOK, WireIsOwn
<1> QED
  BY <1>1 DEF Deliver, Outcomes

(* A reply "ok" has a row of its item behind it.                           *)
LEMMA RepliesAreTrue ==
  ASSUME IInv, NEW w \in net, Deliver(w[1], w[2]), NEW c \in Callers
  PROVE  ReplyIsAwaited(c)' /\ OkIsStored(c)'
<1> DEFINE m == w[1]
<1>1. /\ rows \subseteq rows' /\ UNCHANGED <<pc, req>>
      /\ \/ reply'[c] = reply[c]
         \/ reply'[c] \in Outcomes(m) /\ pc[c] = "wait" /\ req[c] = m
              /\ (reply'[c] = "ok" => Stored(m) \/ m \in rows')
  <2>1. PICK outcome \in Outcomes(m) :
          /\ rows' = IF outcome = "ok" /\ ~Stored(m) THEN rows \cup {m} ELSE rows
          /\ reply' = [d \in Callers |->
                         IF pc[d] = "wait" /\ req[d] = m /\ attempt[d] = w[2]
                         THEN outcome ELSE reply[d]]
    BY DEF Deliver
  <2> QED
    BY <2>1 DEF Deliver
<1>2. Own(m) /\ (Stored(m) => \E r \in rows : r.of = m.of)
  BY Delivering DEF IInv, RowsAreOwn, Own, Stored
<1> QED
  BY <1>1, <1>2 DEF IInv, CallOK, ReplyIsAwaited, OkIsStored

(* A request that the server takes, now or after its call has ended, keeps *)
(* the invariant.                                                          *)
LEMMA DeliverKeeps ==
  ASSUME IInv, NEW w \in net, Deliver(w[1], w[2])
  PROVE  IInv'
<1> USE DEF cacheVars, clientVars
<1>1. TypeOK'
  <2>1. reply' \in [Callers -> {"none", "ok", "mismatch", "rejected"}]
    BY DEF Deliver, Outcomes, IInv, TypeOK
  <2>2. (req \in [Callers -> Items \cup {NoReq}] /\ net \subseteq Items \X (1..maxAttempts)
         /\ rows \subseteq Items)'
    <3>1. net' \subseteq Items \X (1..maxAttempts) /\ rows' \subseteq Items
      BY Delivering DEF IInv, TypeOK
    <3> QED
      BY <3>1 DEF Deliver, IInv, TypeOK, Items, Ids, NoReq, maxAttempts
  <2> QED
    BY <2>1, <2>2 DEF Deliver, IInv, TypeOK, Cache!TypeOK, Cache!Sets, Cache!Stages, Failures,
       maxAttempts, Bundles
<1>2. ASSUME NEW c \in Callers PROVE CallOK(c)'
  <2>1. (HasKeys(c) /\ HasSet(c) /\ HasRequest(c) /\ HasAttemptLeft(c))'
    BY DEF Deliver, IInv, CallOK, HasKeys, HasSet, HasRequest, HasAttemptLeft, Items, Ids, Own,
       maxAttempts, Cache!Sets
  <2> QED
    BY <2>1, RepliesAreTrue DEF CallOK
<1>3. WireIsOwn' /\ RowsAreOwn'
  BY Delivering DEF IInv, WireIsOwn, RowsAreOwn, Own
<1>4. OneRowPerId'
  BY Delivering DEF IInv, OneRowPerId, Stored
<1> QED
  BY <1>1, <1>2, <1>3, <1>4 DEF IInv

-----------------------------------------------------------------------------
(* Rebinding and closing under the calls, an invalidation and another set  *)
(* on the server take nothing out of the hands of a call.                  *)
LEMMA AroundCallsKeeps ==
  ASSUME IInv,
         \/ \E k \in KeySets \cup {NoKeys} : UseKeys(k)
         \/ \E k \in KeySets : CloseKeys(k)
         \/ CloseClient \/ Invalidate \/ ReplaceSet
         \/ UNCHANGED vars
  PROVE  IInv'
<1> USE DEF cacheVars, clientVars, callVars, vars
<1>1. UNCHANGED <<callVars, stage, got, net, rows>>
  <2>1. CASE (\E k \in KeySets \cup {NoKeys} : UseKeys(k)) \/ (\E k \in KeySets : CloseKeys(k))
    BY <2>1 DEF UseKeys, CloseKeys
  <2>2. CASE CloseClient \/ Invalidate \/ ReplaceSet
    BY <2>2 DEF CloseClient, Invalidate, ReplaceSet, Cache!InvalidateCentroidCache,
       Cache!ReplaceSet
  <2>3. CASE UNCHANGED vars
    BY <2>3
  <2> QED
    BY <2>1, <2>2, <2>3
<1>2. (open \in BOOLEAN /\ keys \in KeySets \cup {NoKeys} /\ shut \in [KeySets -> SUBSET Bundles])'
  <2> USE DEF IInv, TypeOK, Bundles
  <2>1. CASE \E k \in KeySets \cup {NoKeys} : UseKeys(k)
    BY <2>1 DEF UseKeys
  <2>4. ASSUME NEW k \in KeySets, CloseKeys(k)
        PROVE  /\ open' = open /\ keys' \in KeySets \cup {NoKeys}
               /\ shut' \in [KeySets -> SUBSET Bundles]
    BY <2>4 DEF CloseKeys
  <2>2. CASE CloseClient
    BY <2>2 DEF CloseClient
  <2>3. CASE Invalidate \/ ReplaceSet \/ UNCHANGED vars
    BY <2>3 DEF Invalidate, ReplaceSet
  <2> QED
    BY <2>1, <2>2, <2>3, <2>4
<1>3. TypeOK'
  <2>1. Cache!TypeOK'
    <3> USE BoundsAssumption DEF IInv, TypeOK, Cache!TypeOK, Cache!Sets, Cache!Stages
    <3>1. CASE Invalidate
      BY <3>1 DEF Invalidate, Cache!InvalidateCentroidCache
    <3>2. CASE ReplaceSet
      BY <3>2 DEF ReplaceSet, Cache!ReplaceSet
    <3>3. CASE UNCHANGED <<serverSet, cache, stage, drawn, got>>
      BY <3>3
    <3> QED
      BY <3>1, <3>2, <3>3 DEF UseKeys, CloseKeys, CloseClient
  <2> QED
    BY <1>1, <1>2, <2>1 DEF IInv, TypeOK, Items, Ids, NoReq, Failures, maxAttempts, Cache!Sets
<1>4. ASSUME NEW c \in Callers PROVE CallOK(c)'
  BY <1>1, OthersUndisturbed DEF IInv
<1>5. (WireIsOwn /\ RowsAreOwn /\ OneRowPerId)'
  BY <1>1 DEF IInv, WireIsOwn, RowsAreOwn, OneRowPerId
<1> QED
  BY <1>3, <1>4, <1>5 DEF IInv

(* Every step keeps the invariant.                                         *)
LEMMA NextInvariant ==
  ASSUME IInv, [Next]_vars
  PROVE  IInv'
<1>1. ASSUME NEW c \in Callers,
             \/ BeginInsert(c) \/ EncryptFlat(c) \/ CacheStep(c) \/ UseCentroidSet(c)
             \/ EncryptClustered(c) \/ BeginPreEncrypted(c) \/ SendInsert(c)
             \/ ReceiveReply(c) \/ SeeUnavailable(c) \/ SeeFailure(c) \/ Backoff(c)
      PROVE  IInv'
  BY <1>1, BeginInsertKeeps, EncryptFlatKeeps, CacheStepKeeps, UseCentroidSetKeeps,
     EncryptClusteredKeeps, BeginPreEncryptedKeeps, SendInsertKeeps, AnswerKeeps,
     SeeUnavailableKeeps, BackoffKeeps
<1>2. ASSUME NEW w \in net, Deliver(w[1], w[2]) PROVE IInv'
  BY <1>2, DeliverKeeps
<1> QED
  BY <1>1, <1>2, AroundCallsKeeps DEF Next

(* The invariant holds in every reachable state.                           *)
THEOREM InvariantHolds == Spec => []IInv
BY InitInvariant, NextInvariant, PTL DEF Spec

-----------------------------------------------------------------------------
(* Every state the client and the server reach has its type: a request on  *)
(* the wire, however late it is, is one that a call made.                  *)
THEOREM TypeCorrect == Spec => []TypeOK
BY InvariantHolds, PTL DEF IInv

(* Whatever was retried, lost or delivered late, one item has one row.     *)
THEOREM ItemsAreStoredOnce == Spec => []OneRowPerItem
<1>1. IInv => OneRowPerItem
  BY DEF IInv, RowsAreOwn, OneRowPerId, Own, OneRowPerItem
<1> QED
  BY <1>1, InvariantHolds, PTL

(* The two representations of a row are under one key set, also if the     *)
(* client was rebound between the two encryptions.                         *)
THEOREM RowsHaveOneKeySet == Spec => []OneKeySetPerRow
<1>1. IInv => OneKeySetPerRow
  BY DEF IInv, RowsAreOwn, Own, OneKeySetPerRow
<1> QED
  BY <1>1, InvariantHolds, PTL

(* What a step adds to the rows was routed in the set the server has, from *)
(* whatever cached set it was routed and however late it came.             *)
THEOREM RowsAreRoutedInServerSet == Spec => RoutedInServerSet
<1>1. ASSUME IInv, [Next]_vars
      PROVE  [\A r \in rows' \ rows : r.cluster = serverSet]_vars
  <2>1. ASSUME NEW w \in net, Deliver(w[1], w[2])
        PROVE  \A r \in rows' \ rows : r.cluster = serverSet
    BY <1>1, <2>1, Delivering DEF Own
  <2>2. CASE UNCHANGED rows
    BY <2>2
  <2> QED
    BY <1>1, <2>1, <2>2 DEF Next, vars, BeginInsert, EncryptFlat, CacheStep, UseCentroidSet,
       EncryptClustered, BeginPreEncrypted, SendInsert, ReceiveReply, SeeUnavailable, SeeFailure,
       Backoff, UseKeys, CloseKeys, CloseClient, Invalidate, ReplaceSet
<1> QED
  BY <1>1, InvariantHolds, PTL DEF Spec, RoutedInServerSet

(* A call that reports success has its item stored, and only an answer of  *)
(* the server makes it report one.                                         *)
THEOREM SuccessIsStored == Spec => AckedIsStored
<1> DEFINE Acked(c) == pc[c] # "idle" /\ pc'[c] = "idle" /\ result'[c] = "ok"
<1>1. ASSUME IInv, Next, NEW c \in Callers, Acked(c)
      PROVE  ReceiveReply(c) /\ reply[c] = "ok"
  <2>1. ASSUME NEW d \in Callers,
               \/ BeginInsert(d) \/ EncryptFlat(d) \/ UseCentroidSet(d)
               \/ EncryptClustered(d) \/ BeginPreEncrypted(d) \/ SendInsert(d)
               \/ ReceiveReply(d) \/ SeeUnavailable(d) \/ SeeFailure(d) \/ Backoff(d)
        PROVE  ReceiveReply(c) /\ reply[c] = "ok"
    BY <1>1, <2>1 DEF IInv, TypeOK, BeginInsert, BeginCall, EncryptFlat, UseCentroidSet,
       EncryptClustered, BeginPreEncrypted, SendInsert, ReceiveReply, SeeUnavailable, SeeFailure,
       Backoff, Return, Goto
  <2>2. CASE UNCHANGED pc
    BY <1>1, <2>2
  <2> QED
    BY <1>1, <2>1, <2>2 DEF Next, CacheStep, Deliver, UseKeys, CloseKeys, CloseClient, Invalidate,
       ReplaceSet, callVars
<1>2. ASSUME IInv, [Next]_vars
      PROVE  [\A c \in Callers : Acked(c) => \E r \in rows' : r.of = req[c].of]_vars
  <2>1. ASSUME Next, NEW c \in Callers, Acked(c)
        PROVE  \E r \in rows' : r.of = req[c].of
    BY <1>1, <1>2, <2>1 DEF IInv, CallOK, OkIsStored, ReceiveReply
  <2> QED
    BY <1>2, <2>1
<1> QED
  BY <1>2, InvariantHolds, PTL DEF Spec, AckedIsStored
=============================================================================
