------------------------------- MODULE Insert -------------------------------
(***************************************************************************)
(* Client.Insert, Client.InsertPreEncrypted and insertWithRetry, composed  *)
(* with the centroid cache: goroutines that share one client, key sets     *)
(* that are rebound and closed under them, a network that delays and loses *)
(* requests and acknowledgements, and the server's manifest.               *)
(***************************************************************************)
EXTENDS Naturals

CONSTANTS
  Callers,   \* the goroutines
  MaxCalls,  \* bound: the calls each of them makes
  MaxSet,    \* bound: how often the server replaces its centroid set
  NoSet,     \* no centroid set
  KeySets,   \* the key sets the program has opened
  NoKeys     \* no key set bound

ASSUME BoundsAssumption == MaxCalls \in Nat /\ MaxSet \in Nat
ASSUME NilAssumption == NoSet \notin Nat /\ NoKeys \notin KeySets

VARIABLES
  serverSet, cache, stage, drawn, got,   \* the centroid cache
  open,      \* Client.conn is not nil
  keys,      \* Client.keys
  shut,      \* shut[k]: the bundles of key set k that Keys.Close has closed
  pc,        \* pc[c]: where goroutine c is
  calls,     \* calls[c]: how many calls c has begun
  snap,      \* snap[c]: the key set the call of c works with
  req,       \* req[c]: the request the call of c sends, or NoReq
  attempt,   \* attempt[c]: the attempt it is at
  reply,     \* reply[c]: the answer to it that is on its way, or "none"
  result,    \* result[c]: what the latest call of c returned
  net,       \* requests on their way to the server
  rows       \* rows the server stores

cacheVars == <<serverSet, cache, stage, drawn, got>>
clientVars == <<open, keys, shut>>
callVars == <<pc, calls, snap, req, attempt, reply, result>>
vars == <<serverSet, cache, stage, drawn, got, open, keys, shut, pc, calls,
          snap, req, attempt, reply, result, net, rows>>

Cache == INSTANCE CentroidCache

Bundles == {"rmp", "mm"}
maxAttempts == 3

(* An item that a developer machine encrypted comes with its id, so every  *)
(* call that forwards it uses that one; Insert issues an id per call.      *)
Ids == Callers \X (0..MaxCalls)
PreId(c) == <<c, 0>>

(* What the server stores of an item, and the request that carries it: the *)
(* item it is meant for (history), its id, the key set of each             *)
(* representation, the set its cluster was assigned in and the version it  *)
(* claims.                                                                 *)
Items == [of: Ids, id: Ids, flat: KeySets, mm: KeySets, cluster: Cache!Sets, version: Cache!Sets]
NoReq == [id |-> <<>>]

Failures == {"closed", "noKeys", "invalid", "encrypt", "centroids", "clusterRequired",
             "dim", "mismatch", "rejected", "unavailable", "ctxDone"}

TypeOK ==
  /\ Cache!TypeOK
  /\ open \in BOOLEAN
  /\ keys \in KeySets \cup {NoKeys}
  /\ shut \in [KeySets -> SUBSET Bundles]
  /\ pc \in [Callers -> {"idle", "flat", "route", "mm", "send", "wait", "backoff"}]
  /\ calls \in [Callers -> 0..MaxCalls]
  /\ snap \in [Callers -> KeySets \cup {NoKeys}]
  /\ req \in [Callers -> Items \cup {NoReq}]
  /\ attempt \in [Callers -> 0..maxAttempts]
  /\ reply \in [Callers -> {"none", "ok", "mismatch", "rejected"}]
  /\ result \in [Callers -> {"none", "ok"} \cup Failures]
  /\ net \subseteq Items \X (1..maxAttempts)
  /\ rows \subseteq Items

Init ==
  /\ Cache!Init
  /\ open = TRUE
  /\ keys \in KeySets \cup {NoKeys}
  /\ shut = [k \in KeySets |-> {}]
  /\ pc = [c \in Callers |-> "idle"]
  /\ calls = [c \in Callers |-> 0]
  /\ snap = [c \in Callers |-> NoKeys]
  /\ req = [c \in Callers |-> NoReq]
  /\ attempt = [c \in Callers |-> 0]
  /\ reply = [c \in Callers |-> "none"]
  /\ result = [c \in Callers |-> "none"]
  /\ net = {}
  /\ rows = {}

Goto(c, where) == pc' = [pc EXCEPT ![c] = where]

(* The call of c returns; what it worked with goes out of scope.           *)
Return(c, what) ==
  /\ Goto(c, "idle")
  /\ result' = [result EXCEPT ![c] = what]
  /\ snap' = [snap EXCEPT ![c] = NoKeys]
  /\ req' = [req EXCEPT ![c] = NoReq]
  /\ attempt' = [attempt EXCEPT ![c] = 0]
  /\ reply' = [reply EXCEPT ![c] = "none"]

BeginCall(c) ==
  /\ pc[c] = "idle"
  /\ calls[c] < MaxCalls
  /\ calls' = [calls EXCEPT ![c] = @ + 1]

-----------------------------------------------------------------------------
(* Insert takes conn and keys under one lock; a vector of another length   *)
(* or metadata that is not JSON is refused here.                           *)
BeginInsert(c) ==
  /\ BeginCall(c)
  /\ \/ /\ open /\ keys # NoKeys
        /\ Goto(c, "flat")
        /\ snap' = [snap EXCEPT ![c] = keys]
        /\ result' = [result EXCEPT ![c] = "none"]
        /\ UNCHANGED <<req, attempt, reply>>
     \/ ~open /\ Return(c, "closed")
     \/ open /\ keys = NoKeys /\ Return(c, "noKeys")
     \/ open /\ keys # NoKeys /\ Return(c, "invalid")
  /\ UNCHANGED <<cacheVars, clientVars, net, rows>>

(* EncryptFlat fails on a closed bundle, or in the native library.         *)
EncryptFlat(c) ==
  /\ pc[c] = "flat"
  /\ \/ /\ "rmp" \notin shut[snap[c]]
        /\ Goto(c, "route")
        /\ Cache!Enter(c)
        /\ UNCHANGED <<snap, req, attempt, reply, result>>
     \/ Return(c, "encrypt") /\ UNCHANGED cacheVars
  /\ UNCHANGED <<calls, clientVars, net, rows>>

(* centroidSetCached.                                                      *)
CacheStep(c) ==
  /\ Cache!Lookup(c) \/ Cache!Drain(c) \/ Cache!FetchFails(c) \/ Cache!Install(c)
  /\ UNCHANGED <<clientVars, callVars, net, rows>>

(* A set without a clustered tier, and one of another dimension, end the   *)
(* call before any request.                                                *)
UseCentroidSet(c) ==
  /\ pc[c] = "route"
  /\ stage[c] = "out"
  /\ \/ got[c] = NoSet /\ Return(c, "centroids")
     \/ got[c] = 0 /\ Return(c, "clusterRequired")
     \/ got[c] \notin {NoSet, 0} /\ Return(c, "dim")
     \/ /\ got[c] \notin {NoSet, 0}
        /\ Goto(c, "mm")
        /\ UNCHANGED <<snap, req, attempt, reply, result>>
  /\ UNCHANGED <<cacheVars, clientVars, calls, net, rows>>

(* Mutants: the second representation is made with the keys bound by now;  *)
(* the version is asked of the server in a call of its own.                *)
RoutedItemOfNewKeys(c) ==
  [of |-> <<c, calls[c]>>, id |-> <<c, calls[c]>>, flat |-> snap[c], mm |-> keys,
   cluster |-> got[c], version |-> got[c]]

RoutedItemOfNewSet(c) ==
  [of |-> <<c, calls[c]>>, id |-> <<c, calls[c]>>, flat |-> snap[c], mm |-> snap[c],
   cluster |-> got[c], version |-> serverSet]

(* The cluster and the version come from the one set the call holds, both  *)
(* representations from the one key set it took at the start.              *)
RoutedItem(c) ==
  [of |-> <<c, calls[c]>>, id |-> <<c, calls[c]>>, flat |-> snap[c], mm |-> snap[c],
   cluster |-> got[c], version |-> got[c]]

EncryptClustered(c) ==
  /\ pc[c] = "mm"
  /\ \/ /\ "mm" \notin shut[snap[c]]
        /\ req' = [req EXCEPT ![c] = RoutedItem(c)]
        /\ attempt' = [attempt EXCEPT ![c] = 1]
        /\ Goto(c, "send")
        /\ UNCHANGED <<snap, reply, result>>
     \/ Return(c, "encrypt")
  /\ UNCHANGED <<cacheVars, clientVars, calls, net, rows>>

(* InsertPreEncrypted forwards an item with the version its origin routed  *)
(* it by; it needs no key set and no centroid set.                         *)
BeginPreEncrypted(c) ==
  /\ BeginCall(c)
  /\ \/ /\ open
        /\ \E k \in KeySets, v \in Cache!Sets \ {0} :
             req' = [req EXCEPT ![c] = [of |-> PreId(c), id |-> PreId(c), flat |-> k,
                                        mm |-> k, cluster |-> v, version |-> v]]
        /\ attempt' = [attempt EXCEPT ![c] = 1]
        /\ Goto(c, "send")
        /\ result' = [result EXCEPT ![c] = "none"]
        /\ UNCHANGED <<snap, reply>>
     \/ ~open /\ Return(c, "closed")
     \/ open /\ Return(c, "invalid")
  /\ UNCHANGED <<cacheVars, clientVars, net, rows>>

-----------------------------------------------------------------------------
(* insertWithRetry: an RPC on a closed connection fails with a status that *)
(* is not UNAVAILABLE.                                                     *)
SendInsert(c) ==
  /\ pc[c] = "send"
  /\ \/ /\ open
        /\ net' = net \cup {<<req[c], attempt[c]>>}
        /\ Goto(c, "wait")
        /\ UNCHANGED <<snap, req, attempt, reply, result>>
     \/ ~open /\ Return(c, "rejected") /\ UNCHANGED net
  /\ UNCHANGED <<cacheVars, clientVars, calls, rows>>

ReceiveReply(c) ==
  /\ pc[c] = "wait"
  /\ reply[c] # "none"
  /\ Return(c, reply[c])
  /\ UNCHANGED <<cacheVars, clientVars, calls, net, rows>>

(* Mutants: there is no last attempt; a lost acknowledgement passes for    *)
(* success.                                                                *)
SeeUnavailableForEver(c) ==
  /\ pc[c] = "wait"
  /\ Goto(c, "backoff")
  /\ reply' = [reply EXCEPT ![c] = "none"]
  /\ UNCHANGED <<snap, req, attempt, result, cacheVars, clientVars, calls, net, rows>>

SeeUnavailableAsSuccess(c) ==
  /\ pc[c] = "wait"
  /\ Return(c, "ok")
  /\ UNCHANGED <<cacheVars, clientVars, calls, net, rows>>

(* UNAVAILABLE: the request was lost, or its acknowledgement, or it is     *)
(* still on its way.                                                       *)
SeeUnavailable(c) ==
  /\ pc[c] = "wait"
  /\ \/ /\ attempt[c] < maxAttempts
        /\ Goto(c, "backoff")
        /\ reply' = [reply EXCEPT ![c] = "none"]
        /\ UNCHANGED <<snap, req, attempt, result>>
     \/ attempt[c] = maxAttempts /\ Return(c, "unavailable")
  /\ UNCHANGED <<cacheVars, clientVars, calls, net, rows>>

(* Any other status, for one because the context ended or the connection   *)
(* was closed.                                                             *)
SeeFailure(c) ==
  /\ pc[c] = "wait"
  /\ Return(c, "rejected")
  /\ UNCHANGED <<cacheVars, clientVars, calls, net, rows>>

(* Mutants: a retry gets an id of its own; the attempts are not counted.   *)
BackoffNewId(c) ==
  /\ pc[c] = "backoff"
  /\ Goto(c, "send")
  /\ attempt' = [attempt EXCEPT ![c] = @ + 1]
  /\ req' = [req EXCEPT ![c].id = <<c, calls[c], attempt[c]>>]
  /\ UNCHANGED <<snap, reply, result, cacheVars, clientVars, calls, net, rows>>

BackoffUncounted(c) ==
  /\ pc[c] = "backoff"
  /\ Goto(c, "send")
  /\ UNCHANGED <<snap, req, attempt, reply, result, cacheVars, clientVars, calls, net, rows>>

Backoff(c) ==
  /\ pc[c] = "backoff"
  /\ \/ /\ Goto(c, "send")
        /\ attempt' = [attempt EXCEPT ![c] = @ + 1]
        /\ UNCHANGED <<snap, req, reply, result>>
     \/ Return(c, "ctxDone")
  /\ UNCHANGED <<cacheVars, clientVars, calls, net, rows>>

-----------------------------------------------------------------------------
(* The server takes a request from the network, however late.  An id it    *)
(* has is a no-op; whether it looks at the id or at the version first is   *)
(* not known here.  It can always refuse for a reason of its own, one      *)
(* being that it has no clustered tier.                                    *)
Stored(m) == \E r \in rows : r.id = m.id

Outcomes(m) ==
  {"rejected"}
    \cup (IF Stored(m) \/ m.version = serverSet THEN {"ok"} ELSE {})
    \cup (IF serverSet \notin {0, m.version} THEN {"mismatch"} ELSE {})

Deliver(m, a) ==
  /\ <<m, a>> \in net
  /\ net' = net \ {<<m, a>>}
  /\ \E outcome \in Outcomes(m) :
       /\ rows' = IF outcome = "ok" /\ ~Stored(m) THEN rows \cup {m} ELSE rows
       /\ reply' = [c \in Callers |->
                      IF pc[c] = "wait" /\ req[c] = m /\ attempt[c] = a
                      THEN outcome ELSE reply[c]]
  /\ UNCHANGED <<cacheVars, clientVars, pc, calls, snap, req, attempt,
                 result>>

-----------------------------------------------------------------------------
(* Any set is bound, or none: UseKeys takes a nil *Keys as well.           *)
UseKeys(k) ==
  /\ keys' = k
  /\ UNCHANGED <<cacheVars, open, shut, callVars, net, rows>>

(* Keys.Close of some key set: the RMP bundle, then the MM bundle.         *)
CloseKeys(k) ==
  /\ \/ shut[k] = {} /\ shut' = [shut EXCEPT ![k] = {"rmp"}]
     \/ shut[k] = {"rmp"} /\ shut' = [shut EXCEPT ![k] = Bundles]
  /\ UNCHANGED <<cacheVars, open, keys, callVars, net, rows>>

CloseClient ==
  /\ open
  /\ open' = FALSE
  /\ UNCHANGED <<cacheVars, keys, shut, callVars, net, rows>>

Invalidate ==
  /\ Cache!InvalidateCentroidCache
  /\ UNCHANGED <<clientVars, callVars, net, rows>>

ReplaceSet ==
  /\ Cache!ReplaceSet
  /\ UNCHANGED <<clientVars, callVars, net, rows>>

Next ==
  \/ \E c \in Callers :
       \/ BeginInsert(c)
       \/ EncryptFlat(c)
       \/ CacheStep(c)
       \/ UseCentroidSet(c)
       \/ EncryptClustered(c)
       \/ BeginPreEncrypted(c)
       \/ SendInsert(c)
       \/ ReceiveReply(c)
       \/ SeeUnavailable(c)
       \/ SeeFailure(c)
       \/ Backoff(c)
  \/ \E w \in net : Deliver(w[1], w[2])
  \/ \E k \in KeySets \cup {NoKeys} : UseKeys(k)
  \/ \E k \in KeySets : CloseKeys(k)
  \/ CloseClient
  \/ Invalidate
  \/ ReplaceSet

(* A call that began takes its next step: encryption ends, an RPC is       *)
(* answered or fails, a timer fires.  Nothing outside the call is forced.  *)
Fairness ==
  \A c \in Callers :
    WF_vars(\/ EncryptFlat(c) \/ CacheStep(c) \/ UseCentroidSet(c)
            \/ EncryptClustered(c) \/ SendInsert(c) \/ ReceiveReply(c)
            \/ SeeUnavailable(c) \/ SeeFailure(c) \/ Backoff(c))

Spec == Init /\ [][Next]_vars /\ Fairness

-----------------------------------------------------------------------------
(* One call of Insert adds one row at most, and the calls that forward one *)
(* pre-encrypted item add one row together, whatever was retried, lost or  *)
(* delivered late.                                                         *)
OneRowPerItem == \A r, s \in rows : r.of = s.of => r = s

(* A call that reports success has its item stored.                        *)
AckedIsStored ==
  [][\A c \in Callers : pc[c] # "idle" /\ pc'[c] = "idle" /\ result'[c] = "ok" =>
       \E r \in rows' : r.of = req[c].of]_vars

(* Both representations of a stored item are under one key set, also when  *)
(* the client was rebound while the call was at work: a search decrypts    *)
(* both tiers with one set.                                                *)
OneKeySetPerRow == \A r \in rows : r.flat = r.mm

(* However old the cached set was, no item is stored in a cluster that was *)
(* computed in another set than the one the server searches by.            *)
RoutedInServerSet == [][\A r \in rows' \ rows : r.cluster = serverSet]_vars

(* A call returns, whatever is lost.                                       *)
EveryCallReturns == \A c \in Callers : (pc[c] # "idle") ~> (pc[c] = "idle")
=============================================================================
