---------------------------- MODULE Registration ----------------------------
(***************************************************************************)
(* Clients that register, bind and verify key sets with one server, each   *)
(* used by several goroutines and closed at any time: the guards of the    *)
(* calls, the two-key stream frame by frame, and what RegisterKeys and     *)
(* VerifyKeys let their caller conclude about the server.                  *)
(***************************************************************************)
EXTENDS Naturals, SequencesExt

CONSTANTS
  Callers,   \* goroutines
  Clients,
  Tokens,    \* the clients dialled with WithAccessToken
  KeySets,   \* open key sets of one key id, preset and dimension; the bytes of
             \* an eval key are the name of its set
  NoKeys,    \* no key set: the nil *Keys, an unbound client, an empty server
  NoPrint,   \* a registered key that is reported without a fingerprint
  MaxCalls   \* bound: how many calls are made

ASSUME NoKeysAssumption == NoKeys \notin KeySets
ASSUME NoPrintAssumption == NoPrint \notin KeySets \cup {NoKeys}
ASSUME ClientsAssumption == Clients # {}
ASSUME TokensAssumption == Tokens \subseteq Clients
ASSUME MaxCallsAssumption == MaxCalls \in Nat

Tiers == {"rmp", "mm"}
DataPlane == {"Insert", "Search"}
Operations ==
  {"RegisterKeys", "VerifyKeys", "UseKeys", "Close", "Delete", "Centroids"} \cup DataPlane
Answers == {"none", "ok", "ErrClientClosed", "ErrKeysNotRegistered",
            "ErrKeysNotForRegister", "unauthenticated", "error"}

VARIABLES
  open,     \* open[c]: whether c.conn is set
  wire,     \* wire[c]: whether the connection itself is up
  bound,    \* bound[c]: the key set the client encrypts with
  cached,   \* cached[c]: whether the centroid set is cached
  pc, op, client, keys, \* what a goroutine does, with which client and keys
  tier,     \* tier[p]: the tier it streams or fingerprints
  told,     \* told[p]: what GetInfo told it of each tier, NoKeys if nothing
  answer,   \* answer[p]: what its last call returned
  late,     \* late[p]: whether that call began after a Close had returned (history)
  calls,    \* how many calls have begun
  frames,   \* frames[p]: the frames sent on its stream, in order
  stream,   \* stream[p]: how its stream stands
  served,   \* served[t]: the eval key the server serves
  stray,    \* uploads that reached the server and whose caller gets no answer
  closed,   \* the clients whose Close has returned (history)
  registered, \* the key sets some RegisterKeys has succeeded with (history)
  verified    \* the key sets some VerifyKeys has succeeded with, each with the
              \* tiers whose fingerprints it compared (history)

clientVars == <<open, wire, bound, cached>>
callVars == <<pc, op, client, keys, tier, told, answer, late, calls>>
streamVars == <<frames, stream, stray>>
vars == <<clientVars, callVars, streamVars, served, closed, registered, verified>>

Nothing == [t \in Tiers |-> NoKeys]
Eval == [Tiers -> KeySets \cup {NoKeys}]
Reports == [Tiers -> KeySets \cup {NoKeys, NoPrint}]

(* The frames a RegisterKeys of set k sends: a key is a header, its bytes  *)
(* and a footer with their digest, of one tier and then of the other.      *)
KeyFrames(k, t) == <<<<"header", t>>, <<"data", k>>, <<"footer", k>>>>
Upload(k) == KeyFrames(k, "rmp") \o KeyFrames(k, "mm") \o <<<<"close">>>>

TypeOK ==
  /\ open \in [Clients -> BOOLEAN] /\ wire \in [Clients -> BOOLEAN]
  /\ cached \in [Clients -> BOOLEAN]
  /\ bound \in [Clients -> KeySets \cup {NoKeys}]
  /\ pc \in [Callers -> {"idle", "guard", "info", "rpc", "read", "compare", "stream",
                         "header", "data", "footer", "close", "recv", "bind", "hangup"}]
  /\ op \in [Callers -> Operations] /\ client \in [Callers -> Clients]
  /\ keys \in [Callers -> KeySets \cup {NoKeys}]
  /\ tier \in [Callers -> Tiers] /\ told \in [Callers -> Reports]
  /\ answer \in [Callers -> Answers] /\ late \in [Callers -> BOOLEAN]
  /\ calls \in 0..MaxCalls
  /\ \A p \in Callers : frames[p] = <<>> \/ \E k \in KeySets : IsPrefix(frames[p], Upload(k))
  /\ stream \in [Callers -> {"none", "open", "accepted", "refused", "denied", "lost"}]
  /\ served \in Eval /\ stray \subseteq KeySets
  /\ closed \subseteq Clients /\ registered \subseteq KeySets
  /\ verified \subseteq KeySets \X SUBSET Tiers

(* Dial: a connection is up, nothing is bound or cached.                   *)
Dial ==
  /\ open = [c \in Clients |-> TRUE] /\ wire = [c \in Clients |-> TRUE]
  /\ bound = [c \in Clients |-> NoKeys] /\ cached = [c \in Clients |-> FALSE]

Init ==
  /\ Dial
  /\ pc = [p \in Callers |-> "idle"] /\ op = [p \in Callers |-> "Close"]
  /\ client = [p \in Callers |-> CHOOSE c \in Clients : TRUE]
  /\ keys = [p \in Callers |-> NoKeys]
  /\ tier = [p \in Callers |-> "rmp"] /\ told = [p \in Callers |-> Nothing]
  /\ answer = [p \in Callers |-> "none"] /\ late = [p \in Callers |-> FALSE]
  /\ calls = 0
  /\ frames = [p \in Callers |-> <<>>] /\ stream = [p \in Callers |-> "none"]
  /\ served = Nothing /\ stray = {} /\ closed = {} /\ registered = {} /\ verified = {}

-----------------------------------------------------------------------------
Goto(p, where) == pc' = [pc EXCEPT ![p] = where]
BothTiers(k) == [t \in Tiers |-> k]

(* The whole stream of p is on its way or has arrived.                     *)
Uploaded(p) == keys[p] # NoKeys /\ frames[p] = Upload(keys[p])

(* The call returns; what it had read is forgotten.                        *)
Return(p, a) ==
  /\ Goto(p, "idle")
  /\ answer' = [answer EXCEPT ![p] = a]
  /\ tier' = [tier EXCEPT ![p] = "rmp"]
  /\ keys' = [keys EXCEPT ![p] = NoKeys]
  /\ told' = [told EXCEPT ![p] = Nothing]
  /\ UNCHANGED <<op, client, late, calls>>

(* The call goes on.                                                       *)
Continue(p, where) ==
  /\ Goto(p, where)
  /\ UNCHANGED <<op, client, keys, tier, told, answer, late, calls>>

Begin(p, o, c, k) ==
  /\ pc[p] = "idle"
  /\ calls < MaxCalls
  /\ o \in {"RegisterKeys", "VerifyKeys", "UseKeys"} \/ k = NoKeys
  /\ calls' = calls + 1
  /\ op' = [op EXCEPT ![p] = o]
  /\ keys' = [keys EXCEPT ![p] = k]
  /\ answer' = [answer EXCEPT ![p] = "none"]
  /\ late' = [late EXCEPT ![p] = c \in closed]
  /\ client' = [client EXCEPT ![p] = c]
  /\ frames' = [frames EXCEPT ![p] = <<>>]
  /\ stream' = [stream EXCEPT ![p] = "none"]
  /\ Goto(p, "guard")
  /\ UNCHANGED <<clientVars, tier, told, stray, served, closed, registered, verified>>

(* Mutant: the connection is not looked at.                                *)
connOKAlways(c) == c \in Clients

connOK(c) == open[c]

(* Insert and Search read the connection and the bound keys at one time; a *)
(* vector of another length than the keys have is refused then.            *)
ReadBound(p) ==
  LET c == client[p]
  IN  \/ ~connOK(c) /\ Return(p, "ErrClientClosed")
      \/ connOK(c) /\ bound[c] = NoKeys /\ Return(p, "ErrKeysNotRegistered")
      \/ connOK(c) /\ bound[c] # NoKeys /\ (Return(p, "error") \/ Continue(p, "rpc"))

(* The checks before the first RPC, in their order.                        *)
Guard(p) ==
  LET c == client[p]
      o == op[p]
  IN  /\ pc[p] = "guard"
      /\ \/ /\ o \in {"RegisterKeys", "VerifyKeys", "Delete"} /\ ~connOK(c)
            /\ Return(p, "ErrClientClosed")
         \/ /\ o \in {"RegisterKeys", "VerifyKeys"} /\ connOK(c) /\ keys[p] = NoKeys
            /\ Return(p, "ErrKeysNotForRegister")
         \/ o \in DataPlane /\ ReadBound(p)
         \/ /\ o = "Centroids" /\ cached[c]
            /\ Return(p, "ok")
         \/ /\ o = "RegisterKeys" /\ connOK(c) /\ keys[p] # NoKeys
            /\ Continue(p, "stream")
         \/ /\ o = "VerifyKeys" /\ connOK(c) /\ keys[p] # NoKeys
            /\ Continue(p, "info")
         \/ /\ \/ o = "Delete" /\ connOK(c)
               \/ o = "Centroids" /\ ~cached[c]
            /\ Continue(p, "rpc")
      /\ UNCHANGED <<clientVars, streamVars, served, closed, registered, verified>>

UseKeys(p) ==
  /\ pc[p] = "guard"
  /\ op[p] = "UseKeys"
  /\ bound' = [bound EXCEPT ![client[p]] = keys[p]]
  /\ Return(p, "ok")
  /\ UNCHANGED <<open, wire, cached, streamVars, served, closed, registered, verified>>

-----------------------------------------------------------------------------
(* Close takes the connection out of the client, then tears it down.  A    *)
(* second Close returns at once.                                           *)
Close(p) ==
  LET c == client[p]
  IN  /\ pc[p] = "guard"
      /\ op[p] = "Close"
      /\ open' = [open EXCEPT ![c] = FALSE]
      /\ \/ open[c] /\ Continue(p, "hangup") /\ UNCHANGED closed
         \/ ~open[c] /\ Return(p, "ok") /\ closed' = closed \cup {c}
      /\ UNCHANGED <<wire, bound, cached, streamVars, served, registered, verified>>

(* What is in flight on the connection fails.                              *)
HangUp(p) ==
  LET c == client[p]
      cut == {q \in Callers : client[q] = c /\ stream[q] = "open"}
  IN  /\ pc[p] = "hangup"
      /\ wire' = [wire EXCEPT ![c] = FALSE]
      /\ stream' = [q \in Callers |-> IF q \in cut THEN "lost" ELSE stream[q]]
      /\ stray' = stray \cup {keys[q] : q \in {q \in cut : Uploaded(q)}}
      /\ closed' = closed \cup {c}
      /\ Return(p, "ok")
      /\ UNCHANGED <<open, bound, cached, frames, served, registered, verified>>

-----------------------------------------------------------------------------
(* The headers an RPC carries: Dial puts the token's interceptors in front *)
(* of both chains.                                                         *)
bearerTokenInterceptor(c) == c \in Tokens

bearerTokenStreamInterceptor(c) == c \in Tokens

(* Centroids opens a stream; the other calls are unary.                    *)
Authorized(p) ==
  IF op[p] = "Centroids" THEN bearerTokenStreamInterceptor(client[p])
                         ELSE bearerTokenInterceptor(client[p])

(* VerifyKeys asks through Info, which looks at the connection again.      *)
InfoGuard(p) ==
  /\ pc[p] = "info"
  /\ \/ connOK(client[p]) /\ Continue(p, "rpc")
     \/ ~connOK(client[p]) /\ Return(p, "ErrClientClosed")
  /\ UNCHANGED <<clientVars, streamVars, served, closed, registered, verified>>

(* What the server may say to GetInfo of the keys it serves: of each tier  *)
(* the fingerprint, the identity alone, or nothing.  VerifyKeys refuses a  *)
(* report that says nothing at all.                                        *)
GetInfo(report) ==
  /\ report # Nothing
  /\ \A t \in Tiers : served[t] = NoKeys => report[t] = NoKeys
  /\ \A t \in Tiers : report[t] \in {NoKeys, NoPrint, served[t]}

(* One round trip through the gateway.  It may fail, and fails on a        *)
(* connection that is down.  The server edits nothing without keys.        *)
RoundTrip(p) ==
  LET c == client[p]
      reached == wire[c] /\ Authorized(p)
  IN  /\ pc[p] = "rpc"
      /\ \/ Return(p, "error") /\ UNCHANGED cached
         \/ wire[c] /\ ~Authorized(p) /\ Return(p, "unauthenticated") /\ UNCHANGED cached
         \/ /\ reached /\ op[p] \in {"Delete"} \cup DataPlane /\ served # Nothing
            /\ Return(p, "ok") /\ UNCHANGED cached
         \/ /\ reached /\ op[p] = "Centroids"
            /\ cached' = [cached EXCEPT ![c] = TRUE]
            /\ Return(p, "ok")
         \/ /\ reached /\ op[p] = "VerifyKeys"
            /\ Goto(p, "read")
            /\ \E report \in Reports :
                 GetInfo(report) /\ told' = [told EXCEPT ![p] = report]
            /\ UNCHANGED <<op, client, keys, tier, answer, late, calls, cached>>
      /\ UNCHANGED <<open, wire, bound, streamVars, served, closed, registered, verified>>

(* evalKeyFingerprint digests the eval key on disk, of one tier and then   *)
(* of the other.                                                           *)
Fingerprint(p) ==
  /\ pc[p] = "read"
  /\ \/ /\ tier' = [tier EXCEPT ![p] = "mm"]
        /\ Goto(p, IF tier[p] = "rmp" THEN "read" ELSE "compare")
        /\ UNCHANGED <<op, client, keys, told, answer, late, calls>>
     \/ Return(p, "error")
  /\ UNCHANGED <<clientVars, streamVars, served, closed, registered, verified>>

Reported(p) == {t \in Tiers : told[p][t] # NoKeys}
Compared(p) == {t \in Tiers : told[p][t] \notin {NoKeys, NoPrint}}

(* Mutant: only the identities are compared, and these sets share theirs.  *)
SameIdentity(p) == Reported(p) # {}

(* A key that is not reported is not compared, nor is one whose            *)
(* fingerprint is empty: its identity matches.                             *)
Matches(p) == \A t \in Reported(p) : told[p][t] \in {NoPrint, keys[p]}

Compare(p) ==
  /\ pc[p] = "compare"
  /\ \/ /\ Matches(p) /\ Return(p, "ok")
        /\ verified' = verified \cup {<<keys[p], Compared(p)>>}
     \/ ~Matches(p) /\ Return(p, "error") /\ UNCHANGED verified
  /\ UNCHANGED <<clientVars, streamVars, served, closed, registered>>

-----------------------------------------------------------------------------
(* RegisterKeys opens a stream.                                            *)
OpenStream(p) ==
  /\ pc[p] = "stream"
  /\ \/ /\ wire[client[p]]
        /\ stream' = [stream EXCEPT ![p] = "open"]
        /\ Continue(p, "header")
     \/ Return(p, "error") /\ UNCHANGED stream
  /\ UNCHANGED <<clientVars, frames, stray, served, closed, registered, verified>>

(* A frame leaves.  On a stream that has ended it may still be buffered,   *)
(* and else Send fails with io.EOF.                                        *)
Send(p, frame) ==
  \/ stream[p] = "open" /\ frames' = [frames EXCEPT ![p] = Append(@, frame)]
  \/ stream[p] # "open" /\ UNCHANGED frames

SendFails(p) ==
  /\ stream[p] # "open"
  /\ Return(p, "error")
  /\ UNCHANGED frames

(* If the reader of the eval key cannot be opened, the call returns and    *)
(* leaves the stream as it is.                                             *)
SendHeader(p) ==
  /\ pc[p] = "header"
  /\ \/ Send(p, <<"header", tier[p]>>) /\ Continue(p, "data")
     \/ SendFails(p)
     \/ Return(p, "error") /\ UNCHANGED frames
  /\ UNCHANGED <<clientVars, stream, stray, served, closed, registered, verified>>

(* Reading the eval key may fail too.                                      *)
SendData(p) ==
  /\ pc[p] = "data"
  /\ \/ Send(p, <<"data", keys[p]>>) /\ Continue(p, "footer")
     \/ SendFails(p)
     \/ Return(p, "error") /\ UNCHANGED frames
  /\ UNCHANGED <<clientVars, stream, stray, served, closed, registered, verified>>

(* Mutant: the second key is announced as the first.                       *)
SendFooterSameTier(p) ==
  /\ pc[p] = "footer"
  /\ \/ /\ Send(p, <<"footer", keys[p]>>)
        /\ Goto(p, IF Len(frames[p]) < 5 THEN "header" ELSE "close")
        /\ UNCHANGED <<op, client, keys, tier, told, answer, late, calls>>
     \/ SendFails(p)
  /\ UNCHANGED <<clientVars, stream, stray, served, closed, registered, verified>>

(* The footer has the digest of the bytes sent; the MM key follows.        *)
SendFooter(p) ==
  /\ pc[p] = "footer"
  /\ \/ /\ Send(p, <<"footer", keys[p]>>)
        /\ Goto(p, IF tier[p] = "rmp" THEN "header" ELSE "close")
        /\ tier' = [tier EXCEPT ![p] = "mm"]
        /\ UNCHANGED <<op, client, keys, told, answer, late, calls>>
     \/ SendFails(p)
  /\ UNCHANGED <<clientVars, stream, stray, served, closed, registered, verified>>

(* Mutant: the end of the stream is not announced.                         *)
RecvOnly(p) ==
  /\ pc[p] = "close"
  /\ Continue(p, "recv")
  /\ UNCHANGED <<clientVars, streamVars, served, closed, registered, verified>>

CloseSend(p) ==
  /\ pc[p] = "close"
  /\ Send(p, <<"close">>)
  /\ Continue(p, "recv")
  /\ UNCHANGED <<clientVars, stream, stray, served, closed, registered, verified>>

(* Mutant: only a failed transport is an error.                            *)
ReceiveAny(p) ==
  /\ pc[p] = "recv"
  /\ \/ stream[p] \in {"accepted", "refused"} /\ Continue(p, "bind")
     \/ stream[p] \in {"denied", "lost"} /\ Return(p, "error")
  /\ UNCHANGED <<clientVars, streamVars, served, closed, registered, verified>>

(* CloseAndRecv waits for the answer or for the end of the connection.     *)
Receive(p) ==
  /\ pc[p] = "recv"
  /\ \/ stream[p] = "accepted" /\ Continue(p, "bind")
     \/ stream[p] = "denied" /\ Return(p, "unauthenticated")
     \/ stream[p] \in {"refused", "lost"} /\ Return(p, "error")
  /\ UNCHANGED <<clientVars, streamVars, served, closed, registered, verified>>

(* The keys are bound after the server has accepted them.                  *)
Bind(p) ==
  /\ pc[p] = "bind"
  /\ bound' = [bound EXCEPT ![client[p]] = keys[p]]
  /\ registered' = registered \cup {keys[p]}
  /\ Return(p, "ok")
  /\ UNCHANGED <<open, wire, cached, streamVars, served, closed, verified>>

-----------------------------------------------------------------------------
(* The gateway and the server.  The end of a stream empties it.            *)
EndStream(p, how) ==
  /\ stream' = [stream EXCEPT ![p] = how]
  /\ frames' = [frames EXCEPT ![p] = <<>>]
  /\ UNCHANGED <<clientVars, callVars, closed, registered, verified>>

Deny(p) ==
  /\ stream[p] = "open"
  /\ ~bearerTokenStreamInterceptor(client[p])
  /\ EndStream(p, "denied")
  /\ UNCHANGED <<stray, served>>

(* Registration is one-shot: the first pair of keys is served from then    *)
(* on.  The same pair again may be accepted, another one is not.           *)
Register(k) ==
  /\ served \in {Nothing, BothTiers(k)}
  /\ served' = BothTiers(k)

Serve(p) ==
  /\ stream[p] = "open" /\ Uploaded(p)
  /\ bearerTokenStreamInterceptor(client[p])
  /\ \/ Register(keys[p]) /\ EndStream(p, "accepted")
     \/ EndStream(p, "refused") /\ UNCHANGED served
  /\ UNCHANGED stray

(* The server may end the stream before it has everything.                 *)
RefuseEarly(p) ==
  /\ stream[p] = "open" /\ ~Uploaded(p)
  /\ EndStream(p, "refused")
  /\ UNCHANGED <<stray, served>>

(* The stream breaks; what the server has of it whole may still count.     *)
Lose(p) ==
  /\ stream[p] = "open"
  /\ EndStream(p, "lost")
  /\ stray' = IF Uploaded(p) THEN stray \cup {keys[p]} ELSE stray
  /\ UNCHANGED served

ServeStray(k) ==
  /\ k \in stray
  /\ Register(k)
  /\ stray' = stray \ {k}
  /\ UNCHANGED <<clientVars, callVars, frames, stream, closed, registered, verified>>

Step(p) ==
  \/ Guard(p)
  \/ UseKeys(p)
  \/ Close(p)
  \/ HangUp(p)
  \/ InfoGuard(p)
  \/ RoundTrip(p)
  \/ Fingerprint(p)
  \/ Compare(p)
  \/ OpenStream(p)
  \/ SendHeader(p)
  \/ SendData(p)
  \/ SendFooter(p)
  \/ CloseSend(p)
  \/ Receive(p)
  \/ Bind(p)

Next ==
  \/ \E p \in Callers :
       \/ \E o \in Operations, c \in Clients, k \in KeySets \cup {NoKeys} : Begin(p, o, c, k)
       \/ Step(p)
       \/ Deny(p)
       \/ Serve(p)
       \/ RefuseEarly(p)
       \/ Lose(p)
  \/ \E k \in KeySets : ServeStray(k)

Spec == Init /\ [][Next]_vars

(* Goroutines run, and the server answers what it has received whole or    *)
(* the keepalive finds that it does not.                                   *)
Answered(p) == stream[p] = "open" /\ Uploaded(p) /\ (Deny(p) \/ Serve(p) \/ Lose(p))

FairSpec == Spec /\ \A p \in Callers : WF_vars(Step(p)) /\ WF_vars(Answered(p))

-----------------------------------------------------------------------------
(* When RegisterKeys returned nil the server serves the eval keys of this  *)
(* very set in both tiers and goes on to, whoever else registers, whatever *)
(* is lost or arrives late.                                                *)
RegisteredMeansServed == \A k \in registered : served = BothTiers(k)

(* When VerifyKeys returned nil and the server had reported a fingerprint  *)
(* of either tier, the server serves both eval keys of this very set and   *)
(* goes on to, although the answer that was compared is an old one.  Its   *)
(* doc says so of every nil; when the server reported identities alone it  *)
(* is not so, for nothing was compared that tells two sets apart.          *)
VerifiedMeansServed ==
  \A v \in verified : v[2] # {} => served = BothTiers(v[1])

(* A call that begins after Close has returned says that the client is     *)
(* closed, but for Centroids, which answers from the cache or fails        *)
(* otherwise (AfterCloseSaysClosed is about that), and for UseKeys and a   *)
(* second Close, which cannot fail.                                        *)
ClosedIsFinal ==
  \A p \in Callers : late[p] /\ pc[p] = "idle" =>
    \/ op[p] \in {"UseKeys", "Close"}
    \/ op[p] = "Centroids" /\ (answer[p] = "ok" => cached[client[p]])
    \/ answer[p] = "ErrClientClosed"

(* What the doc of ErrClientClosed says: the methods of a closed client    *)
(* that can fail, all of them, return it.                                  *)
AfterCloseSaysClosed ==
  \A p \in Callers : late[p] /\ pc[p] = "idle" =>
    op[p] \in {"UseKeys", "Close"} \/ answer[p] = "ErrClientClosed"

(* Every call returns, whoever closes the client meanwhile and wherever the*)
(* server ends the stream.                                                 *)
EveryCallReturns == \A p \in Callers : pc[p] # "idle" ~> pc[p] = "idle"
=============================================================================
