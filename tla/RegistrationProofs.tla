------------------------- MODULE RegistrationProofs -------------------------
(***************************************************************************)
(* What RegisterKeys and VerifyKeys let their caller conclude, for any     *)
(* number of goroutines, clients, key sets and calls.  The argument: what  *)
(* the server serves never changes once it serves something, so neither an *)
(* acknowledgement nor an answer to GetInfo can be out of date.  Then what *)
(* a closed client answers and what its streams carry: a client never      *)
(* opens again, and a goroutine's place says how much it has sent.         *)
(***************************************************************************)
EXTENDS Registration, TLAPS

Registering == {"stream", "header", "data", "footer", "close", "recv", "bind"}
Verifying == {"info", "read", "compare"}
Steps == Registering \cup Verifying \cup {"idle", "guard", "rpc", "hangup"}

StreamStates == {"none", "open", "accepted", "refused", "denied", "lost"}

(* The part of TypeOK that the argument needs.                             *)
Flow ==
  /\ pc \in [Callers -> Steps]
  /\ op \in [Callers -> Operations]
  /\ keys \in [Callers -> KeySets \cup {NoKeys}]
  /\ told \in [Callers -> Reports]
  /\ stream \in [Callers -> StreamStates]
  /\ served \in Eval /\ stray \subseteq KeySets
  /\ registered \subseteq KeySets /\ verified \subseteq KeySets \X SUBSET Tiers

(* Past the guards a call that registers or verifies has a key set.        *)
KeysGiven ==
  \A p \in Callers :
    \/ pc[p] \in Registering \cup Verifying
    \/ pc[p] = "rpc" /\ op[p] = "VerifyKeys"
    => keys[p] \in KeySets

(* An acknowledged upload is what the server serves.                       *)
AcceptedIsServed ==
  \A p \in Callers :
    stream[p] = "accepted" /\ keys[p] # NoKeys => served = BothTiers(keys[p])

BindsAccepted == \A p \in Callers : pc[p] = "bind" => stream[p] = "accepted"

(* The server has both keys of one set, or none.                           *)
ServedWhole == served = Nothing \/ \E k \in KeySets : served = BothTiers(k)

(* A fingerprint that GetInfo reported is still true.                      *)
ToldIsServed ==
  \A p \in Callers : pc[p] \in {"read", "compare"} =>
    \A t \in Tiers : told[p][t] \in KeySets => served = BothTiers(told[p][t])

IInv ==
  /\ Flow
  /\ KeysGiven
  /\ AcceptedIsServed
  /\ BindsAccepted
  /\ ServedWhole
  /\ ToldIsServed
  /\ RegisteredMeansServed
  /\ VerifiedMeansServed

-----------------------------------------------------------------------------
(* A server that serves a key set serves something.                        *)
LEMMA WholeIsSomething ==
  ASSUME NEW k \in KeySets
  PROVE  BothTiers(k) \in Eval /\ BothTiers(k) # Nothing
<1>1. BothTiers(k)["rmp"] = k /\ Nothing["rmp"] = NoKeys
  BY DEF BothTiers, Nothing, Tiers
<1>. QED
  BY <1>1, NoKeysAssumption DEF BothTiers, Eval

(* What is served stays: only an upload can change it, and only from       *)
(* nothing.                                                                *)
LEMMA ServedStays ==
  ASSUME [Next]_vars, served # Nothing
  PROVE  served' = served
<1>. SUFFICES ASSUME Next PROVE served' = served
  BY DEF vars
<1>1. ASSUME NEW p \in Callers, Step(p) PROVE served' = served
  BY <1>1 DEF Step, Guard, UseKeys, Close, HangUp, InfoGuard, RoundTrip, Fingerprint, Compare,
     OpenStream, SendHeader, SendData, SendFooter, CloseSend, Receive, Bind
<1>2. ASSUME NEW k, Register(k) PROVE served' = served
  BY <1>2 DEF Register
<1>. QED
  BY <1>1, <1>2 DEF Next, Begin, Deny, Serve, RefuseEarly, Lose, ServeStray

-----------------------------------------------------------------------------
LEMMA Initially == Init => IInv
<1>. SUFFICES ASSUME Init PROVE IInv
  OBVIOUS
<1>1. Nothing \in Eval /\ Nothing \in Reports
  BY DEF Nothing, Eval, Reports
<1>. QED
  BY <1>1 DEF Init, IInv, Flow, KeysGiven, AcceptedIsServed, BindsAccepted, ServedWhole,
     ToldIsServed, RegisteredMeansServed, VerifiedMeansServed, Steps, Operations, Registering, Verifying,
     StreamStates

(* What a step may do to all streams at once.                              *)
BreaksAtMost ==
  /\ stream' \in [Callers -> StreamStates]
  /\ \A q \in Callers : stream'[q] = stream[q] \/ (stream[q] = "open" /\ stream'[q] = "lost")

(* To count the key set of p as successful it must be served.              *)
CountsServed(p, before, after) ==
  \/ after = before
  \/ /\ after = before \cup {keys[p]}
     /\ keys[p] \in KeySets /\ served = BothTiers(keys[p])

(* To count it as verified it must be served if a fingerprint was compared.*)
CountsVerified(p) ==
  \/ verified' = verified
  \/ \E T \in SUBSET Tiers :
       /\ verified' = verified \cup {<<keys[p], T>>}
       /\ keys[p] \in KeySets /\ (T # {} => served = BothTiers(keys[p]))

(* A return keeps the invariant, for the goroutine holds nothing then.     *)
LEMMA ReturningWith ==
  ASSUME IInv, NEW p \in Callers, NEW a, Return(p, a), served' = served, BreaksAtMost,
         stray' \subseteq KeySets,
         CountsServed(p, registered, registered'), CountsVerified(p)
  PROVE  IInv'
<1>1. Nothing \in Reports
  BY DEF Nothing, Reports
<1>2. registered' \subseteq KeySets /\ verified' \subseteq KeySets \X SUBSET Tiers
  BY DEF IInv, Flow, CountsServed, CountsVerified
<1>3. Flow'
  BY <1>1, <1>2 DEF IInv, Flow, Return, Goto, Steps, BreaksAtMost
<1>4. \A q \in Callers : q # p => pc'[q] = pc[q] /\ keys'[q] = keys[q] /\ told'[q] = told[q]
  BY DEF IInv, Flow, Return, Goto
<1>5. pc'[p] = "idle" /\ keys'[p] = NoKeys
  BY DEF IInv, Flow, Return, Goto
<1>6. op' = op
  BY DEF Return
<1>7. KeysGiven' /\ ToldIsServed' /\ ServedWhole'
  BY <1>4, <1>5, <1>6 DEF IInv, KeysGiven, ToldIsServed, ServedWhole, Registering, Verifying,
     Nothing, BothTiers
<1>8. AcceptedIsServed' /\ BindsAccepted'
  BY <1>4, <1>5 DEF IInv, AcceptedIsServed, BindsAccepted, BothTiers, BreaksAtMost
<1>9. RegisteredMeansServed' /\ VerifiedMeansServed'
  BY DEF IInv, RegisteredMeansServed, VerifiedMeansServed, BothTiers, CountsServed, CountsVerified
<1>. QED
  BY <1>3, <1>7, <1>8, <1>9 DEF IInv

LEMMA Returning ==
  ASSUME IInv, NEW p \in Callers, NEW a, Return(p, a),
         UNCHANGED <<stream, served, stray, registered, verified>>
  PROVE  IInv'
<1>1. BreaksAtMost /\ stray' \subseteq KeySets
  BY DEF IInv, Flow, BreaksAtMost
<1>2. CountsServed(p, registered, registered') /\ CountsVerified(p)
  BY DEF CountsServed, CountsVerified
<1>. QED
  BY <1>1, <1>2, ReturningWith

(* So does a step to a place where the call may be, which opens a stream   *)
(* or hears what is served at most.                                        *)
LEMMA Going ==
  ASSUME IInv, NEW p \in Callers, NEW where \in Steps, Goto(p, where),
         UNCHANGED <<op, keys, served, stray, registered, verified>>,
         told' = told \/ \E report \in Reports : told' = [told EXCEPT ![p] = report],
         stream' = stream \/ stream' = [stream EXCEPT ![p] = "open"],
         \/ where \in Registering \cup Verifying
         \/ where = "rpc" /\ op[p] = "VerifyKeys"
         => keys[p] \in KeySets,
         where = "bind" => stream'[p] = "accepted",
         where \in {"read", "compare"} =>
           \A t \in Tiers : told'[p][t] \in KeySets => served = BothTiers(told'[p][t])
  PROVE  IInv'
<1>1. Flow'
  BY DEF IInv, Flow, Goto, StreamStates
<1>2. pc'[p] = where /\ \A q \in Callers : q # p => pc'[q] = pc[q]
  BY DEF IInv, Flow, Goto
<1>3. \A q \in Callers : q # p => told'[q] = told[q] /\ stream'[q] = stream[q]
  BY DEF IInv, Flow
<1>4. stream'[p] = "accepted" => stream[p] = "accepted"
  BY DEF IInv, Flow
<1>5. KeysGiven' /\ ToldIsServed' /\ ServedWhole'
  BY <1>2, <1>3 DEF IInv, KeysGiven, ToldIsServed, ServedWhole, Nothing, BothTiers
<1>6. AcceptedIsServed'
  BY <1>3, <1>4 DEF IInv, AcceptedIsServed, BothTiers
<1>7. BindsAccepted'
  BY <1>2, <1>3 DEF IInv, BindsAccepted
<1>8. RegisteredMeansServed' /\ VerifiedMeansServed'
  BY DEF IInv, RegisteredMeansServed, VerifiedMeansServed, BothTiers
<1>. QED
  BY <1>1, <1>5, <1>6, <1>7, <1>8 DEF IInv

LEMMA Continuing ==
  ASSUME IInv, NEW p \in Callers, NEW where \in Steps, Continue(p, where),
         UNCHANGED <<stream, served, stray, registered, verified>>,
         \/ where \in Registering \cup Verifying
         \/ where = "rpc" /\ op[p] = "VerifyKeys"
         => keys[p] \in KeySets,
         where = "bind" => stream[p] = "accepted",
         where \notin {"read", "compare"}
  PROVE  IInv'
<1>1. Goto(p, where) /\ UNCHANGED <<op, keys, told>>
  BY DEF Continue
<1>. QED
  BY <1>1, Going

(* The end of a stream that was open keeps it, if what was accepted is     *)
(* served and what strays is a key set.                                    *)
LEMMA Ending ==
  ASSUME IInv, NEW p \in Callers, stream[p] = "open",
         NEW how \in {"accepted", "refused", "denied", "lost"},
         stream' = [stream EXCEPT ![p] = how],
         UNCHANGED <<pc, op, keys, told, registered, verified>>,
         ServedWhole', stray' \subseteq KeySets,
         served # Nothing => served' = served,
         how = "accepted" /\ keys[p] # NoKeys => served' = BothTiers(keys[p])
  PROVE  IInv'
<1>0. served' \in Eval
  BY WholeIsSomething DEF ServedWhole, Nothing, Eval, BothTiers
<1>1. Flow'
  BY <1>0 DEF IInv, Flow, StreamStates
<1>2. \A q \in Callers : stream'[q] = IF q = p THEN how ELSE stream[q]
  BY DEF IInv, Flow
<1>3. KeysGiven' /\ BindsAccepted'
  BY <1>2 DEF IInv, KeysGiven, BindsAccepted, Registering, Verifying
<1>4. \A k \in KeySets : served = BothTiers(k) => served' = BothTiers(k)
  BY WholeIsSomething
<1>9. ToldIsServed'
  BY <1>4 DEF IInv, ToldIsServed, BothTiers
<1>5. ASSUME NEW q \in Callers, stream'[q] = "accepted", keys'[q] # NoKeys
      PROVE  served' = BothTiers(keys'[q])
  <2>1. CASE q = p
    BY <1>2, <1>5, <2>1
  <2>2. CASE q # p
    <3>1. keys[q] \in KeySets
      BY <1>5 DEF IInv, Flow
    <3>. QED
      BY <1>2, <1>4, <1>5, <2>2, <3>1 DEF IInv, AcceptedIsServed
  <2>. QED
    BY <2>1, <2>2
<1>6. AcceptedIsServed'
  BY <1>5 DEF AcceptedIsServed, BothTiers
<1>7. RegisteredMeansServed' /\ VerifiedMeansServed'
  BY <1>4 DEF IInv, Flow, RegisteredMeansServed, VerifiedMeansServed, BothTiers
<1>. QED
  BY <1>1, <1>3, <1>6, <1>7, <1>9 DEF IInv

-----------------------------------------------------------------------------
(* Every step of a call keeps the invariant.                               *)
LEMMA StepKeeps ==
  ASSUME IInv, NEW p \in Callers, Step(p)
  PROVE  IInv'
<1>1. {"info", "rpc", "read", "compare", "stream", "hangup", "header", "data", "footer", "close",
       "recv", "bind"} \subseteq Steps
  BY DEF Steps, Registering, Verifying
<1>2. pc[p] \in Registering \cup Verifying => keys[p] \in KeySets
  BY DEF IInv, KeysGiven
<1>3. keys[p] # NoKeys => keys[p] \in KeySets
  BY DEF IInv, Flow
<1>4. CASE Guard(p)
  <2>1. UNCHANGED <<stream, served, stray, registered, verified>>
    BY <1>4 DEF Guard, streamVars
  <2>2. CASE \E a \in Answers : Return(p, a)
    BY <2>1, <2>2, Returning
  <2>3. CASE Continue(p, "stream") /\ keys[p] # NoKeys
    BY <1>1, <1>3, <2>1, <2>3, Continuing
  <2>4. CASE Continue(p, "info") /\ keys[p] # NoKeys
    BY <1>1, <1>3, <2>1, <2>4, Continuing
  <2>5. CASE Continue(p, "rpc") /\ op[p] # "VerifyKeys"
    BY <1>1, <2>1, <2>5, Continuing DEF Registering, Verifying
  <2>. QED
    BY <1>4, <2>2, <2>3, <2>4, <2>5 DEF Guard, ReadBound, DataPlane, Answers
<1>5. CASE UseKeys(p)
  BY <1>5, Returning DEF UseKeys, streamVars
<1>6. CASE Close(p)
  <2>1. UNCHANGED <<stream, served, stray, registered, verified>>
    BY <1>6 DEF Close, streamVars
  <2>2. Continue(p, "hangup") \/ Return(p, "ok")
    BY <1>6 DEF Close
  <2>. QED
    BY <1>1, <2>1, <2>2, Continuing, Returning DEF Registering, Verifying
<1>7. CASE InfoGuard(p)
  <2>1. UNCHANGED <<stream, served, stray, registered, verified>>
    BY <1>7 DEF InfoGuard, streamVars
  <2>2. keys[p] \in KeySets /\ (Continue(p, "rpc") \/ Return(p, "ErrClientClosed"))
    BY <1>2, <1>7 DEF InfoGuard, Verifying
  <2>. QED
    BY <1>1, <2>1, <2>2, Continuing, Returning
<1>8. CASE Compare(p)
  <2>1. UNCHANGED <<stream, served, stray, registered>>
    BY <1>8 DEF Compare, streamVars
  <2>2. BreaksAtMost /\ stray' \subseteq KeySets /\ CountsServed(p, registered, registered')
    BY <2>1 DEF IInv, Flow, BreaksAtMost, CountsServed
  <2>3. keys[p] \in KeySets /\ told[p] \in Reports
    BY <1>2, <1>8 DEF IInv, Flow, Compare, Verifying
  <2>4. CountsVerified(p)
    <3>1. CASE verified' = verified
      BY <3>1 DEF CountsVerified
    <3>2. CASE Matches(p) /\ verified' = verified \cup {<<keys[p], Compared(p)>>}
      <4>1. Compared(p) \in SUBSET Tiers
        BY DEF Compared
      <4>2. ASSUME NEW t \in Compared(p) PROVE served = BothTiers(keys[p])
        <5>1. t \in Tiers /\ told[p][t] = keys[p]
          BY <3>2, NoPrintAssumption DEF Matches, Reported, Compared
        <5>. QED
          BY <1>8, <2>3, <5>1 DEF Compare, IInv, ToldIsServed
      <4>. QED
        BY <2>3, <3>2, <4>1, <4>2 DEF CountsVerified
    <3>. QED
      BY <1>8, <3>1, <3>2 DEF Compare
  <2>5. Return(p, "ok") \/ Return(p, "error")
    BY <1>8 DEF Compare
  <2>. QED
    BY <2>1, <2>2, <2>4, <2>5, ReturningWith
<1>9. CASE Bind(p)
  <2>1. UNCHANGED <<stream, served, stray, verified>> /\ Return(p, "ok")
    BY <1>9 DEF Bind, streamVars
  <2>2. BreaksAtMost /\ stray' \subseteq KeySets /\ CountsVerified(p)
    BY <2>1 DEF IInv, Flow, BreaksAtMost, CountsVerified
  <2>3. keys[p] \in KeySets /\ served = BothTiers(keys[p])
    BY <1>2, <1>9, NoKeysAssumption DEF IInv, BindsAccepted, AcceptedIsServed, Bind, Registering
  <2>4. CountsServed(p, registered, registered')
    BY <1>9, <2>3 DEF Bind, CountsServed
  <2>. QED
    BY <2>1, <2>2, <2>4, ReturningWith
<1>10. CASE HangUp(p)
  <2>1. UNCHANGED <<served, registered, verified>> /\ Return(p, "ok")
    BY <1>10 DEF HangUp
  <2>2. BreaksAtMost
    BY <1>10 DEF HangUp, IInv, Flow, BreaksAtMost, StreamStates
  <2>3. \A q \in Callers : Uploaded(q) => keys[q] \in KeySets
    BY DEF Uploaded, IInv, Flow
  <2>4. stray' \subseteq KeySets
    BY <1>10, <2>3 DEF HangUp, IInv, Flow
  <2>5. CountsServed(p, registered, registered') /\ CountsVerified(p)
    BY <2>1 DEF CountsServed, CountsVerified
  <2>. QED
    BY <2>1, <2>2, <2>4, <2>5, ReturningWith
<1>11. CASE RoundTrip(p)
  <2>1. UNCHANGED <<stream, served, stray, registered, verified>>
    BY <1>11 DEF RoundTrip, streamVars
  <2>2. CASE \E a \in Answers : Return(p, a)
    BY <2>1, <2>2, Returning
  <2>3. ASSUME NEW report \in Reports, GetInfo(report), op[p] = "VerifyKeys", Goto(p, "read"),
               told' = [told EXCEPT ![p] = report], UNCHANGED <<op, keys>>
        PROVE  IInv'
    <3>1. keys[p] \in KeySets
      BY <1>11, <2>3 DEF RoundTrip, IInv, KeysGiven
    <3>2. told'[p] = report
      BY <2>3 DEF IInv, Flow
    <3>3. ASSUME NEW t \in Tiers, report[t] \in KeySets PROVE served = BothTiers(report[t])
      <4>1. report[t] = served[t]
        BY <2>3, <3>3, NoKeysAssumption, NoPrintAssumption DEF GetInfo
      <4>2. served # Nothing
        BY <3>3, <4>1, NoKeysAssumption DEF Nothing
      <4>. QED
        BY <4>1, <4>2 DEF IInv, ServedWhole, BothTiers
    <3>. QED
      BY <1>1, <2>1, <2>3, <3>1, <3>2, <3>3, Going
  <2>4. ASSUME op[p] = "VerifyKeys", Goto(p, "read"), UNCHANGED <<op, keys>>,
               \E report \in Reports :
                 GetInfo(report) /\ told' = [told EXCEPT ![p] = report]
        PROVE  IInv'
    BY <2>3, <2>4
  <2>. QED
    BY <1>11, <2>2, <2>4 DEF RoundTrip, Answers
<1>12. CASE Fingerprint(p)
  <2>1. UNCHANGED <<stream, served, stray, registered, verified>>
    BY <1>12 DEF Fingerprint, streamVars
  <2>2. CASE Return(p, "error")
    BY <2>1, <2>2, Returning
  <2>3. ASSUME NEW where \in {"read", "compare"}, Goto(p, where), UNCHANGED <<op, keys, told>>
        PROVE  IInv'
    <3>1. /\ keys[p] \in KeySets
          /\ \A t \in Tiers : told[p][t] \in KeySets => served = BothTiers(told[p][t])
      BY <1>2, <1>12 DEF Fingerprint, Verifying, IInv, ToldIsServed
    <3>. QED
      BY <1>1, <2>1, <2>3, <3>1, Going
  <2>. QED
    BY <1>12, <2>2, <2>3 DEF Fingerprint
<1>13. CASE OpenStream(p)
  <2>1. UNCHANGED <<served, stray, registered, verified>> /\ keys[p] \in KeySets
    BY <1>2, <1>13 DEF OpenStream, Registering
  <2>2. CASE Return(p, "error") /\ UNCHANGED stream
    BY <2>1, <2>2, Returning
  <2>3. CASE Continue(p, "header") /\ stream' = [stream EXCEPT ![p] = "open"]
    <3>1. Goto(p, "header") /\ UNCHANGED <<op, keys, told>>
      BY <2>3 DEF Continue
    <3>. QED
      BY <1>1, <2>1, <2>3, <3>1, Going
  <2>. QED
    BY <1>13, <2>2, <2>3 DEF OpenStream
<1>14. CASE SendHeader(p) \/ SendData(p) \/ CloseSend(p)
  <2>1. UNCHANGED <<stream, served, stray, registered, verified>> /\ keys[p] \in KeySets
    BY <1>2, <1>14 DEF SendHeader, SendData, CloseSend, Registering
  <2>2. Return(p, "error") \/ \E where \in {"data", "footer", "recv"} : Continue(p, where)
    BY <1>14 DEF SendHeader, SendData, CloseSend, SendFails
  <2>. QED
    BY <1>1, <2>1, <2>2, Continuing, Returning
<1>15. CASE SendFooter(p)
  <2>1. UNCHANGED <<stream, served, stray, registered, verified>> /\ keys[p] \in KeySets
    BY <1>2, <1>15 DEF SendFooter, Registering
  <2>2. \/ Return(p, "error")
        \/ \E where \in {"header", "close"} : Goto(p, where) /\ UNCHANGED <<op, keys, told>>
    BY <1>15 DEF SendFooter, SendFails
  <2>. QED
    BY <1>1, <2>1, <2>2, Going, Returning
<1>16. CASE Receive(p)
  <2>1. UNCHANGED <<stream, served, stray, registered, verified>> /\ keys[p] \in KeySets
    BY <1>2, <1>16 DEF Receive, Registering, streamVars
  <2>2. \/ Return(p, "unauthenticated") \/ Return(p, "error")
        \/ stream[p] = "accepted" /\ Continue(p, "bind")
    BY <1>16 DEF Receive
  <2>. QED
    BY <1>1, <2>1, <2>2, Continuing, Returning
<1>. QED
  BY <1>4, <1>5, <1>6, <1>7, <1>8, <1>9, <1>10, <1>11, <1>12, <1>13, <1>14, <1>15, <1>16 DEF Step

(* So does every step of the network and of the server.                    *)
LEMMA ServerKeeps ==
  ASSUME IInv, NEW p \in Callers, Deny(p) \/ Serve(p) \/ RefuseEarly(p) \/ Lose(p)
  PROVE  IInv'
<1>1. stream[p] = "open" /\ UNCHANGED <<pc, op, keys, told, registered, verified>>
  BY DEF Deny, Serve, RefuseEarly, Lose, EndStream, callVars
<1>2. Uploaded(p) => keys[p] \in KeySets
  BY DEF Uploaded, IInv, Flow
<1>3. stray \subseteq KeySets /\ ServedWhole
  BY DEF IInv, Flow
<1>4. CASE Deny(p) \/ RefuseEarly(p) \/ Lose(p)
  <2>1. served' = served /\ stray' \subseteq KeySets
    BY <1>2, <1>3, <1>4 DEF Deny, RefuseEarly, Lose
  <2>2. \E how \in {"denied", "refused", "lost"} : stream' = [stream EXCEPT ![p] = how]
    BY <1>4 DEF Deny, RefuseEarly, Lose, EndStream
  <2>3. ServedWhole'
    BY <1>3, <2>1 DEF ServedWhole, Nothing, BothTiers
  <2>. QED
    BY <1>1, <1>3, <2>1, <2>2, <2>3, Ending
<1>5. CASE Serve(p)
  <2>1. keys[p] \in KeySets /\ stray' = stray
    BY <1>2, <1>5 DEF Serve
  <2>2. CASE Register(keys[p]) /\ stream' = [stream EXCEPT ![p] = "accepted"]
    <3>1. served' = BothTiers(keys[p]) /\ (served # Nothing => served' = served)
      BY <2>2 DEF Register
    <3>2. ServedWhole'
      BY <2>1, <3>1 DEF ServedWhole, BothTiers
    <3>. QED
      BY <1>1, <1>3, <2>1, <2>2, <3>1, <3>2, Ending
  <2>3. CASE served' = served /\ stream' = [stream EXCEPT ![p] = "refused"]
    <3>1. ServedWhole'
      BY <1>3, <2>3 DEF ServedWhole, Nothing, BothTiers
    <3>. QED
      BY <1>1, <1>3, <2>1, <2>3, <3>1, Ending
  <2>. QED
    BY <1>5, <2>2, <2>3 DEF Serve, EndStream
<1>. QED
  BY <1>4, <1>5

(* A call begins; the answers to the last one are gone.                    *)
LEMMA BeginKeeps ==
  ASSUME IInv, NEW p \in Callers, NEW o \in Operations, NEW c \in Clients,
         NEW k \in KeySets \cup {NoKeys}, Begin(p, o, c, k)
  PROVE  IInv'
<1>1. UNCHANGED <<told, stray, served, registered, verified>>
  BY DEF Begin
<1>2. /\ pc' = [pc EXCEPT ![p] = "guard"] /\ op' = [op EXCEPT ![p] = o]
      /\ keys' = [keys EXCEPT ![p] = k] /\ stream' = [stream EXCEPT ![p] = "none"]
  BY DEF Begin, Goto
<1>3. Flow'
  BY <1>1, <1>2 DEF IInv, Flow, StreamStates, Steps
<1>4. pc'[p] = "guard" /\ stream'[p] = "none"
  BY <1>2 DEF IInv, Flow
<1>5. \A q \in Callers : q # p =>
        pc'[q] = pc[q] /\ op'[q] = op[q] /\ keys'[q] = keys[q] /\ stream'[q] = stream[q]
  BY <1>2 DEF IInv, Flow
<1>6. KeysGiven' /\ ToldIsServed' /\ ServedWhole'
  BY <1>1, <1>4, <1>5 DEF IInv, KeysGiven, ToldIsServed, ServedWhole, Registering, Verifying,
     Nothing, BothTiers
<1>7. AcceptedIsServed' /\ BindsAccepted'
  BY <1>1, <1>4, <1>5 DEF IInv, AcceptedIsServed, BindsAccepted, BothTiers
<1>8. RegisteredMeansServed' /\ VerifiedMeansServed'
  BY <1>1 DEF IInv, RegisteredMeansServed, VerifiedMeansServed, BothTiers
<1>. QED
  BY <1>3, <1>6, <1>7, <1>8 DEF IInv

(* An upload whose caller gave up is served late.                          *)
LEMMA StrayKeeps ==
  ASSUME IInv, NEW k \in KeySets, ServeStray(k)
  PROVE  IInv'
<1>1. UNCHANGED <<pc, op, keys, told, stream, registered, verified>>
  BY DEF ServeStray, callVars
<1>2. /\ served' = BothTiers(k) /\ stray' = stray \ {k}
      /\ served # Nothing => served' = served
  BY DEF ServeStray, Register
<1>3. Flow'
  BY <1>1, <1>2, WholeIsSomething DEF IInv, Flow
<1>4. \A s \in KeySets : served = BothTiers(s) => served' = BothTiers(s)
  BY <1>2, WholeIsSomething
<1>5. KeysGiven' /\ BindsAccepted' /\ ServedWhole'
  BY <1>1, <1>2 DEF IInv, KeysGiven, BindsAccepted, ServedWhole, BothTiers
<1>8. ToldIsServed'
  BY <1>1, <1>4 DEF IInv, ToldIsServed, BothTiers
<1>6. AcceptedIsServed'
  BY <1>1, <1>4 DEF IInv, Flow, AcceptedIsServed, BothTiers
<1>7. RegisteredMeansServed' /\ VerifiedMeansServed'
  BY <1>1, <1>4 DEF IInv, Flow, RegisteredMeansServed, VerifiedMeansServed, BothTiers
<1>. QED
  BY <1>3, <1>5, <1>6, <1>7, <1>8 DEF IInv

LEMMA Inductive == IInv /\ [Next]_vars => IInv'
<1>. SUFFICES ASSUME IInv, [Next]_vars PROVE IInv'
  OBVIOUS
<1>1. ASSUME NEW p \in Callers, NEW o \in Operations, NEW c \in Clients,
             NEW k \in KeySets \cup {NoKeys}, Begin(p, o, c, k)
      PROVE  IInv'
  BY <1>1, BeginKeeps
<1>2. ASSUME NEW p \in Callers, Step(p) PROVE IInv'
  BY <1>2, StepKeeps
<1>3. ASSUME NEW p \in Callers, Deny(p) \/ Serve(p) \/ RefuseEarly(p) \/ Lose(p) PROVE IInv'
  BY <1>3, ServerKeeps
<1>4. ASSUME NEW k \in KeySets, ServeStray(k) PROVE IInv'
  BY <1>4, StrayKeeps
<1>5. CASE UNCHANGED vars
  BY <1>5 DEF vars, clientVars, callVars, streamVars, IInv, Flow, KeysGiven, AcceptedIsServed,
     BindsAccepted, ServedWhole, ToldIsServed, RegisteredMeansServed, VerifiedMeansServed,
     BothTiers, Nothing
<1>. QED
  BY <1>1, <1>2, <1>3, <1>4, <1>5 DEF Next

(* The inductive invariant holds in every reachable state.                 *)
THEOREM InvariantHolds == Spec => []IInv
<1>. QED
  BY Initially, Inductive, PTL DEF Spec

(* When RegisterKeys has returned nil the server serves the eval keys of   *)
(* this set in both tiers, then and for ever.                              *)
THEOREM RegisteredIsServed == Spec => []RegisteredMeansServed
<1>1. IInv => RegisteredMeansServed
  BY DEF IInv
<1>. QED
  BY <1>1, InvariantHolds, PTL

(* When VerifyKeys has returned nil and has compared the fingerprint of a  *)
(* tier at least, the server serves both keys of this set, then and for    *)
(* ever.  When it has compared none, nothing follows.                      *)
THEOREM VerifiedIsServed == Spec => []VerifiedMeansServed
<1>1. IInv => VerifiedMeansServed
  BY DEF IInv
<1>. QED
  BY <1>1, InvariantHolds, PTL

-----------------------------------------------------------------------------
(* What the rest of the state looks like: the clients, what a call has,    *)
(* and the frames of each stream.                                          *)
ClientsTyped ==
  /\ open \in [Clients -> BOOLEAN] /\ wire \in [Clients -> BOOLEAN]
  /\ cached \in [Clients -> BOOLEAN]
  /\ bound \in [Clients -> KeySets \cup {NoKeys}]
  /\ closed \subseteq Clients

CallsTyped ==
  /\ client \in [Callers -> Clients] /\ tier \in [Callers -> Tiers]
  /\ answer \in [Callers -> Answers] /\ late \in [Callers -> BOOLEAN]
  /\ calls \in 0..MaxCalls

(* The first n frames of an upload of k.                                   *)
Sent(k, n) == [i \in 1..n |-> Upload(k)[i]]

(* How many frames a goroutine that streams has sent.                      *)
Position(p) ==
  LET here == [header |-> 0, data |-> 1, footer |-> 2, close |-> 3]
  IN  here[pc[p]] + IF tier[p] = "rmp" THEN 0 ELSE 3

Sending == {"header", "data", "footer", "close"}

(* Nothing has been sent before the stream opens, all that Position counts *)
(* while it is open, and the start of one upload at any time.              *)
FrameOK(p) ==
  /\ pc[p] \in {"idle", "guard", "stream", "info", "rpc"} => tier[p] = "rmp"
  /\ pc[p] = "close" => tier[p] = "mm"
  /\ pc[p] \in {"guard", "stream"} => frames[p] = <<>>
  /\ pc[p] \in Sending /\ stream[p] = "open" => frames[p] = Sent(keys[p], Position(p))
  /\ frames[p] = <<>> \/ \E k \in KeySets, n \in 0..7 : frames[p] = Sent(k, n)

FramesOK == DOMAIN frames = Callers /\ \A p \in Callers : FrameOK(p)

(* A client that is closed stays so, and whoever tears it down finds it    *)
(* closed.                                                                 *)
ClosedIsShut ==
  /\ \A c \in closed : ~open[c]
  /\ \A p \in Callers : pc[p] = "hangup" => ~open[client[p]]

(* A call that begins on a closed client gets past the guards only as a    *)
(* Centroids whose answer is not cached.                                   *)
LateIsStopped ==
  \A p \in Callers : late[p] =>
    /\ client[p] \in closed
    /\ pc[p] \in {"idle", "guard"} \/ (pc[p] = "rpc" /\ op[p] = "Centroids")

CInv == ClientsTyped /\ CallsTyped /\ FramesOK /\ ClosedIsShut /\ LateIsStopped /\ ClosedIsFinal

-----------------------------------------------------------------------------
(* A sequence put together of three, three and one.                        *)
LEMMA SevenOf ==
  ASSUME NEW S, NEW a \in S, NEW b \in S, NEW c \in S, NEW d \in S, NEW e \in S, NEW f \in S,
         NEW g \in S, NEW u, u = <<a, b, c>> \o <<d, e, f>> \o <<g>>
  PROVE  /\ u \in Seq(S) /\ Len(u) = 7
         /\ u[1] = a /\ u[2] = b /\ u[3] = c /\ u[4] = d /\ u[5] = e /\ u[6] = f /\ u[7] = g
<1>1. <<a, b, c>> \in Seq(S) /\ <<d, e, f>> \in Seq(S) /\ <<g>> \in Seq(S)
  OBVIOUS
<1>2. PICK v : v = <<a, b, c>> \o <<d, e, f>>
  OBVIOUS
<1>3. /\ v \in Seq(S) /\ Len(v) = 6
      /\ v[1] = a /\ v[2] = b /\ v[3] = c /\ v[4] = d /\ v[5] = e /\ v[6] = f
  BY <1>1, <1>2
<1>4. u = v \o <<g>>
  BY <1>2
<1>. QED
  BY <1>1, <1>3, <1>4

(* The frames of an upload, one by one.                                    *)
LEMMA UploadIs ==
  ASSUME NEW k
  PROVE  /\ \E S : Upload(k) \in Seq(S)
         /\ Len(Upload(k)) = 7
         /\ Upload(k)[1] = <<"header", "rmp">> /\ Upload(k)[4] = <<"header", "mm">>
         /\ Upload(k)[2] = <<"data", k>> /\ Upload(k)[5] = <<"data", k>>
         /\ Upload(k)[3] = <<"footer", k>> /\ Upload(k)[6] = <<"footer", k>>
         /\ Upload(k)[7] = <<"close">>
<1>1. PICK a, b, c, d, g : /\ a = <<"header", "rmp">> /\ b = <<"data", k>> /\ c = <<"footer", k>>
                           /\ d = <<"header", "mm">> /\ g = <<"close">>
  OBVIOUS
<1>2. Upload(k) = <<a, b, c>> \o <<d, b, c>> \o <<g>>
  BY <1>1, Zenon DEF Upload, KeyFrames
<1>3. PICK S : S = {a, b, c, d, g}
  OBVIOUS
<1>4. a \in S /\ b \in S /\ c \in S /\ d \in S /\ g \in S
  BY <1>3
<1>5. PICK u : u = Upload(k)
  OBVIOUS
<1>6. /\ u \in Seq(S) /\ Len(u) = 7
      /\ u[1] = a /\ u[2] = b /\ u[3] = c /\ u[4] = d /\ u[5] = b /\ u[6] = c /\ u[7] = g
  <2>1. u = <<a, b, c>> \o <<d, b, c>> \o <<g>>
    BY <1>2, <1>5, Zenon
  <2>. QED
    BY <1>4, <2>1, SevenOf
<1>. QED
  BY <1>1, <1>5, <1>6, Zenon

(* Nothing sent is the empty sequence, and each frame makes it longer.     *)
LEMMA SentGrows ==
  ASSUME NEW k
  PROVE  /\ Sent(k, 0) = <<>>
         /\ \A n \in 0..6 : Append(Sent(k, n), Upload(k)[n + 1]) = Sent(k, n + 1)
<1>1. PICK u : u = Upload(k)
  OBVIOUS
<1>2. [i \in 1..0 |-> u[i]] = <<>>
  OBVIOUS
<1>3. PICK S : u \in Seq(S) /\ Len(u) = 7
  BY <1>1, UploadIs
<1>4. ASSUME NEW n \in 0..6
      PROVE  Append([i \in 1..n |-> u[i]], u[n + 1]) = [i \in 1..(n + 1) |-> u[i]]
  BY <1>3
<1>. QED
  BY <1>1, <1>2, <1>4 DEF Sent

LEMMA SentIsPrefix ==
  ASSUME NEW k, NEW n \in 0..7
  PROVE  IsPrefix(Sent(k, n), Upload(k))
<1>1. PICK u : u = Upload(k)
  OBVIOUS
<1>2. PICK S : u \in Seq(S) /\ Len(u) = 7
  BY <1>1, UploadIs
<1>3. PICK s : s = [i \in 1..n |-> u[i]]
  OBVIOUS
<1>4. s \in Seq(S) /\ Len(s) = n /\ \A i \in 1..n : s[i] = u[i]
  BY <1>2, <1>3
<1>5. SubSeq(s, 1, Len(s)) = SubSeq(u, 1, Len(s))
  BY <1>2, <1>4
<1>. QED
  BY <1>1, <1>2, <1>3, <1>4, <1>5 DEF Sent, IsPrefix

-----------------------------------------------------------------------------
LEMMA StateInitially == Init => CInv
<1>. SUFFICES ASSUME Init PROVE CInv
  OBVIOUS
<1>1. ClientsTyped
  BY DEF Init, Dial, ClientsTyped
<1>2. client \in [Callers -> Clients]
  <2>1. (CHOOSE c \in Clients : TRUE) \in Clients
    BY ClientsAssumption
  <2>. QED
    BY <2>1, Zenon DEF Init
<1>3. CallsTyped
  BY <1>2, MaxCallsAssumption DEF Init, CallsTyped, Answers, Tiers
<1>4. FramesOK
  BY DEF Init, FramesOK, FrameOK, Sending
<1>5. ClosedIsShut /\ LateIsStopped /\ ClosedIsFinal
  BY DEF Init, ClosedIsShut, LateIsStopped, ClosedIsFinal
<1>. QED
  BY <1>1, <1>3, <1>4, <1>5 DEF CInv

-----------------------------------------------------------------------------
(* A goroutine whose call and stream stay as they are keeps its frames.    *)
LEMMA OthersFrames ==
  ASSUME NEW q \in Callers, FrameOK(q), pc'[q] = pc[q], tier'[q] = tier[q], keys'[q] = keys[q],
         frames'[q] = frames[q], stream'[q] = "open" => stream[q] = "open"
  PROVE  FrameOK(q)'
<1>1. Position(q)' = Position(q)
  BY DEF Position
<1>. QED
  BY <1>1 DEF FrameOK, Sent

(* A call returns, or goes where it sends nothing.                         *)
LEMMA FramesReturn ==
  ASSUME IInv, CInv, NEW p \in Callers, NEW a, Return(p, a), frames' = frames,
         \A q \in Callers : stream'[q] = "open" => stream[q] = "open"
  PROVE  FramesOK'
<1>1. pc'[p] = "idle" /\ tier'[p] = "rmp"
  BY DEF Return, Goto, IInv, Flow, CInv, CallsTyped
<1>2. FrameOK(p)'
  BY <1>1 DEF FrameOK, Sent, Sending, CInv, FramesOK
<1>3. ASSUME NEW q \in Callers, q # p PROVE FrameOK(q)'
  <2>1. pc'[q] = pc[q] /\ tier'[q] = tier[q] /\ keys'[q] = keys[q]
    BY <1>3 DEF Return, Goto, IInv, Flow, CInv, CallsTyped
  <2>. QED
    BY <1>3, <2>1, OthersFrames DEF CInv, FramesOK
<1>. QED
  BY <1>2, <1>3 DEF CInv, FramesOK

LEMMA FramesGoto ==
  ASSUME IInv, CInv, NEW p \in Callers, NEW where \in Steps \ (Sending \cup {"idle", "guard"}),
         Goto(p, where), UNCHANGED <<keys, frames, stream>>,
         tier' = tier \/ (tier' = [tier EXCEPT ![p] = "mm"] /\ where \in {"read", "compare"}),
         where \in {"info", "rpc", "stream"} => pc[p] \in {"guard", "info"},
         where = "stream" => pc[p] = "guard"
  PROVE  FramesOK'
<1>1. pc'[p] = where
  BY DEF Goto, IInv, Flow
<1>2. where \in {"info", "rpc", "stream"} => tier'[p] = "rmp"
  BY DEF CInv, FramesOK, FrameOK
<1>3. FrameOK(p)'
  BY <1>1, <1>2 DEF FrameOK, Sent, Sending, CInv, FramesOK
<1>4. ASSUME NEW q \in Callers, q # p PROVE FrameOK(q)'
  <2>1. pc'[q] = pc[q] /\ tier'[q] = tier[q]
    BY <1>4 DEF Goto, IInv, Flow, CInv, CallsTyped
  <2>. QED
    BY <1>4, <2>1, OthersFrames DEF CInv, FramesOK
<1>. QED
  BY <1>3, <1>4 DEF CInv, FramesOK

(* The stream opens before any frame.                                      *)
LEMMA FramesOpen ==
  ASSUME IInv, CInv, NEW p \in Callers, pc[p] = "stream", Continue(p, "header"), frames' = frames,
         stream' = [stream EXCEPT ![p] = "open"]
  PROVE  FramesOK'
<1>1. pc'[p] = "header" /\ tier'[p] = "rmp" /\ frames'[p] = <<>>
  BY DEF Continue, Goto, IInv, Flow, CInv, FramesOK, FrameOK
<1>2. Position(p)' = 0
  BY <1>1 DEF Position
<1>3. FrameOK(p)'
  BY <1>1, <1>2, SentGrows DEF FrameOK
<1>4. ASSUME NEW q \in Callers, q # p PROVE FrameOK(q)'
  <2>1. pc'[q] = pc[q] /\ tier'[q] = tier[q] /\ keys'[q] = keys[q] /\ stream'[q] = stream[q]
    BY <1>4 DEF Continue, Goto, IInv, Flow
  <2>. QED
    BY <1>4, <2>1, OthersFrames DEF CInv, FramesOK
<1>. QED
  BY <1>3, <1>4 DEF CInv, FramesOK

(* A frame is sent and the call goes on to the next.                       *)
LEMMA FramesSend ==
  ASSUME IInv, CInv, NEW p \in Callers, pc[p] \in Sending, NEW frame, Send(p, frame),
         frame = Upload(keys[p])[Position(p) + 1], Position(p) \in 0..6,
         NEW where \in {"header", "data", "footer", "close", "recv"}, Goto(p, where),
         where # "recv" => Position(p)' = Position(p) + 1,
         tier' = tier \/ tier' = [tier EXCEPT ![p] = "mm"],
         where = "close" => tier'[p] = "mm",
         UNCHANGED <<keys, stream>>
  PROVE  FramesOK'
<1>1. pc'[p] = where
  BY DEF Goto, IInv, Flow
<1>2. keys[p] \in KeySets
  BY DEF IInv, KeysGiven, Sending, Registering
<1>3. DOMAIN frames' = Callers /\ \A q \in Callers : q # p => frames'[q] = frames[q]
  BY DEF Send, CInv, FramesOK
<1>4. stream[p] = "open" => frames'[p] = Sent(keys[p], Position(p) + 1)
  <2>. SUFFICES ASSUME stream[p] = "open" PROVE frames'[p] = Sent(keys[p], Position(p) + 1)
    OBVIOUS
  <2>1. frames[p] = Sent(keys[p], Position(p))
    BY DEF CInv, FramesOK, FrameOK
  <2>2. frames'[p] = Append(frames[p], frame)
    BY DEF Send, CInv, FramesOK
  <2>. QED
    BY <2>1, <2>2, SentGrows
<1>5. frames'[p] = <<>> \/ \E k \in KeySets, n \in 0..7 : frames'[p] = Sent(k, n)
  <2>1. CASE stream[p] = "open"
    BY <1>2, <1>4, <2>1
  <2>2. CASE stream[p] # "open"
    <3>1. frames' = frames
      BY <2>2 DEF Send
    <3>. QED
      BY <3>1 DEF CInv, FramesOK, FrameOK
  <2>. QED
    BY <2>1, <2>2
<1>6. FrameOK(p)'
  BY <1>1, <1>4, <1>5 DEF FrameOK, Sent, Sending
<1>7. ASSUME NEW q \in Callers, q # p PROVE FrameOK(q)'
  <2>1. pc'[q] = pc[q] /\ tier'[q] = tier[q]
    BY <1>7 DEF Goto, IInv, Flow, CInv, CallsTyped
  <2>. QED
    BY <1>3, <1>7, <2>1, OthersFrames DEF CInv, FramesOK
<1>. QED
  BY <1>3, <1>6, <1>7 DEF FramesOK

(* The end of a stream empties it.                                         *)
LEMMA FramesEnd ==
  ASSUME IInv, CInv, NEW p \in Callers, NEW how \in {"accepted", "refused", "denied", "lost"},
         EndStream(p, how)
  PROVE  FramesOK'
<1>1. UNCHANGED <<pc, keys, tier>>
  BY DEF EndStream, callVars
<1>2. /\ DOMAIN frames' = Callers /\ frames'[p] = <<>> /\ stream'[p] = how
      /\ \A q \in Callers : q # p => frames'[q] = frames[q] /\ stream'[q] = stream[q]
  BY DEF EndStream, CInv, FramesOK, IInv, Flow
<1>3. FrameOK(p)'
  BY <1>1, <1>2 DEF FrameOK, CInv, FramesOK
<1>4. ASSUME NEW q \in Callers, q # p PROVE FrameOK(q)'
  BY <1>1, <1>2, <1>4, OthersFrames DEF CInv, FramesOK
<1>. QED
  BY <1>2, <1>3, <1>4 DEF FramesOK

-----------------------------------------------------------------------------
(* What a step may do to the clients: nothing opens again, closed clients  *)
(* are closed for good, and what is cached stays cached.                   *)
ClientsAge ==
  /\ ClientsTyped'
  /\ \A c \in Clients : (open'[c] => open[c]) /\ (cached[c] => cached'[c])
  /\ closed \subseteq closed' /\ \A c \in closed' : c \in closed \/ ~open'[c]

LEMMA ClientsRest ==
  ASSUME CInv, UNCHANGED <<clientVars, closed>>
  PROVE  ClientsAge
BY DEF CInv, ClientsTyped, ClientsAge, clientVars

(* What a call on a closed client may answer.                              *)
LateAnswer(p, a) ==
  \/ op[p] \in {"UseKeys", "Close"}
  \/ op[p] = "Centroids" /\ (a = "ok" => cached'[client[p]])
  \/ a = "ErrClientClosed"

LEMMA Returned ==
  ASSUME IInv, CInv, NEW p \in Callers, NEW a \in Answers, Return(p, a), ClientsAge,
         frames' = frames, \A q \in Callers : stream'[q] = "open" => stream[q] = "open",
         late[p] => LateAnswer(p, a)
  PROVE  CInv'
<1>1. UNCHANGED <<op, client, late, calls>>
  BY DEF Return
<1>2. CallsTyped'
  BY DEF Return, CInv, CallsTyped, Tiers
<1>3. FramesOK'
  BY FramesReturn
<1>4. /\ pc'[p] = "idle" /\ answer'[p] = a
      /\ \A q \in Callers : q # p => pc'[q] = pc[q] /\ answer'[q] = answer[q]
  BY DEF Return, Goto, IInv, Flow, CInv, CallsTyped
<1>5. \A q \in Callers : client[q] \in Clients
  BY DEF CInv, CallsTyped
<1>6. ClosedIsShut'
  BY <1>1, <1>4, <1>5 DEF CInv, ClosedIsShut, ClientsAge, ClientsTyped
<1>7. LateIsStopped'
  BY <1>1, <1>4 DEF CInv, LateIsStopped, ClientsAge
<1>8. ClosedIsFinal'
  BY <1>1, <1>4, <1>5 DEF CInv, ClosedIsFinal, LateAnswer, ClientsAge
<1>. QED
  BY <1>2, <1>3, <1>6, <1>7, <1>8 DEF CInv, ClientsAge

LEMMA Went ==
  ASSUME IInv, CInv, NEW p \in Callers, NEW where \in Steps \ {"idle", "guard"}, Goto(p, where),
         UNCHANGED <<op, client, late, answer, calls>>, ClientsAge, FramesOK',
         tier' = tier \/ tier' = [tier EXCEPT ![p] = "mm"],
         where = "hangup" => ~open'[client[p]],
         late[p] => where = "rpc" /\ op[p] = "Centroids"
  PROVE  CInv'
<1>1. CallsTyped'
  BY DEF CInv, CallsTyped, Tiers
<1>2. pc'[p] = where /\ \A q \in Callers : q # p => pc'[q] = pc[q]
  BY DEF Goto, IInv, Flow
<1>3. \A q \in Callers : client[q] \in Clients
  BY DEF CInv, CallsTyped
<1>4. ClosedIsShut'
  BY <1>2, <1>3 DEF CInv, ClosedIsShut, ClientsAge, ClientsTyped
<1>5. LateIsStopped'
  BY <1>2 DEF CInv, LateIsStopped, ClientsAge
<1>6. ClosedIsFinal'
  BY <1>2, <1>3 DEF CInv, ClosedIsFinal, ClientsAge
<1>. QED
  BY <1>1, <1>4, <1>5, <1>6 DEF CInv, ClientsAge

-----------------------------------------------------------------------------
LEMMA StepKeepsState ==
  ASSUME IInv, CInv, NEW p \in Callers, Step(p)
  PROVE  CInv'
<1>1. late[p] => pc[p] \in {"guard", "idle"} \/ (pc[p] = "rpc" /\ op[p] = "Centroids")
  BY DEF CInv, LateIsStopped
<1>2. client[p] \in Clients /\ (late[p] => ~open[client[p]])
  BY DEF CInv, CallsTyped, LateIsStopped, ClosedIsShut
<1>3. /\ {"ok", "ErrClientClosed", "ErrKeysNotRegistered", "ErrKeysNotForRegister",
          "unauthenticated", "error"} \subseteq Answers
      /\ {"info", "rpc", "read", "compare", "stream", "hangup", "recv", "bind"}
         \subseteq Steps \ (Sending \cup {"idle", "guard"})
      /\ Sending \subseteq Steps \ {"idle", "guard"}
  BY DEF Answers, Steps, Registering, Verifying, Sending
<1>4. CASE Guard(p)
  <2>1. UNCHANGED <<frames, stream>> /\ ClientsAge
    BY <1>4, ClientsRest DEF Guard, streamVars
  <2>2. late[p] => op[p] \in {"UseKeys", "Close", "Centroids"} \/ ~connOK(client[p])
    BY <1>2 DEF connOK
  <2>3. CASE Return(p, "ErrClientClosed")
    BY <1>3, <2>1, <2>3, Returned DEF LateAnswer
  <2>4. CASE Return(p, "ErrKeysNotForRegister") /\ connOK(client[p])
    BY <1>2, <1>3, <2>1, <2>4, Returned DEF LateAnswer, connOK
  <2>5. ASSUME NEW a \in {"ErrKeysNotRegistered", "error"}, Return(p, a), connOK(client[p])
        PROVE  CInv'
    BY <1>2, <1>3, <2>1, <2>5, Returned DEF LateAnswer, connOK
  <2>6. CASE Return(p, "ok") /\ op[p] = "Centroids" /\ cached[client[p]]
    <3>1. LateAnswer(p, "ok")
      BY <1>2, <2>1, <2>6 DEF LateAnswer, ClientsAge
    <3>. QED
      BY <1>3, <2>1, <2>6, <3>1, Returned
  <2>7. ASSUME NEW where \in {"stream", "info", "rpc"}, Continue(p, where),
               late[p] => where = "rpc" /\ op[p] = "Centroids"
        PROVE  CInv'
    <3>1. Goto(p, where) /\ UNCHANGED <<op, client, late, answer, calls, keys, tier>>
      BY <2>7 DEF Continue
    <3>2. pc[p] = "guard"
      BY <1>4 DEF Guard
    <3>3. FramesOK'
      BY <1>3, <2>1, <3>1, <3>2, FramesGoto
    <3>. QED
      BY <1>3, <2>1, <2>7, <3>1, <3>3, Went
  <2>. QED
    BY <1>2, <1>4, <2>3, <2>4, <2>5, <2>6, <2>7 DEF Guard, ReadBound, connOK
<1>5. CASE UseKeys(p)
  <2>1. UNCHANGED <<frames, stream>> /\ Return(p, "ok") /\ op[p] = "UseKeys"
    BY <1>5 DEF UseKeys, streamVars
  <2>2. ClientsAge
    BY <1>5 DEF UseKeys, ClientsAge, CInv, ClientsTyped, IInv, Flow
  <2>. QED
    BY <1>3, <2>1, <2>2, Returned DEF LateAnswer
<1>6. CASE Close(p)
  <2>1. UNCHANGED <<frames, stream>> /\ op[p] = "Close" /\ pc[p] = "guard"
    BY <1>6 DEF Close, streamVars
  <2>2. /\ open' = [open EXCEPT ![client[p]] = FALSE] /\ UNCHANGED <<wire, bound, cached>>
        /\ closed' = closed \/ closed' = closed \cup {client[p]}
    BY <1>6 DEF Close
  <2>3. /\ open' \in [Clients -> BOOLEAN] /\ ~open'[client[p]]
        /\ \A c \in Clients : open'[c] => open[c]
    BY <1>2, <2>2 DEF CInv, ClientsTyped
  <2>4. ClientsAge
    BY <1>2, <2>2, <2>3 DEF ClientsAge, CInv, ClientsTyped
  <2>5. CASE Return(p, "ok")
    BY <1>3, <2>1, <2>4, <2>5, Returned DEF LateAnswer
  <2>6. CASE open[client[p]] /\ Continue(p, "hangup")
    <3>1. Goto(p, "hangup") /\ UNCHANGED <<op, client, late, answer, calls, keys, tier>>
      BY <2>6 DEF Continue
    <3>2. FramesOK'
      BY <1>3, <2>1, <3>1, FramesGoto
    <3>. QED
      BY <1>2, <1>3, <2>3, <2>4, <2>6, <3>1, <3>2, Went
  <2>. QED
    BY <1>6, <2>5, <2>6 DEF Close
<1>7. CASE HangUp(p)
  <2>1. frames' = frames /\ Return(p, "ok") /\ pc[p] = "hangup"
    BY <1>7 DEF HangUp
  <2>2. \A q \in Callers : stream'[q] = "open" => stream[q] = "open"
    BY <1>7 DEF HangUp
  <2>3. /\ UNCHANGED <<open, bound, cached>> /\ wire' = [wire EXCEPT ![client[p]] = FALSE]
        /\ closed' = closed \cup {client[p]} /\ ~open[client[p]]
    BY <1>7 DEF HangUp, CInv, ClosedIsShut
  <2>4. ClientsAge
    BY <1>2, <2>3 DEF ClientsAge, CInv, ClientsTyped
  <2>. QED
    BY <1>1, <1>3, <2>1, <2>2, <2>4, Returned
<1>8. CASE InfoGuard(p)
  <2>1. UNCHANGED <<frames, stream>> /\ ClientsAge /\ pc[p] = "info"
    BY <1>8, ClientsRest DEF InfoGuard, streamVars
  <2>2. CASE Return(p, "ErrClientClosed")
    BY <1>1, <1>3, <2>1, <2>2, Returned
  <2>3. CASE Continue(p, "rpc")
    <3>1. Goto(p, "rpc") /\ UNCHANGED <<op, client, late, answer, calls, keys, tier>>
      BY <2>3 DEF Continue
    <3>2. FramesOK'
      BY <1>3, <2>1, <3>1, FramesGoto
    <3>. QED
      BY <1>1, <1>3, <2>1, <3>1, <3>2, Went
  <2>. QED
    BY <1>8, <2>2, <2>3 DEF InfoGuard
<1>9. CASE RoundTrip(p)
  <2>1. /\ UNCHANGED <<frames, stream, open, wire, bound, closed>> /\ pc[p] = "rpc"
        /\ cached' = cached \/ cached' = [cached EXCEPT ![client[p]] = TRUE]
    BY <1>9 DEF RoundTrip, streamVars
  <2>2. ClientsAge
    BY <1>2, <2>1 DEF ClientsAge, CInv, ClientsTyped
  <2>3. late[p] => op[p] = "Centroids"
    BY <1>1, <2>1
  <2>4. ASSUME NEW a \in {"ok", "error", "unauthenticated"}, Return(p, a),
               a = "ok" => op[p] # "Centroids" \/ cached'[client[p]]
        PROVE  CInv'
    BY <1>3, <2>1, <2>2, <2>3, <2>4, Returned DEF LateAnswer
  <2>5. CASE /\ Goto(p, "read") /\ op[p] = "VerifyKeys"
             /\ UNCHANGED <<op, client, keys, tier, answer, late, calls>>
    <3>1. FramesOK'
      BY <1>3, <2>1, <2>5, FramesGoto
    <3>. QED
      BY <1>1, <1>3, <2>2, <2>3, <2>5, <3>1, Went
  <2>6. op[p] = "Centroids" /\ cached' = [cached EXCEPT ![client[p]] = TRUE] => cached'[client[p]]
    BY <1>2 DEF CInv, ClientsTyped
  <2>. QED
    BY <1>9, <2>4, <2>5, <2>6 DEF RoundTrip, DataPlane
<1>10. CASE Fingerprint(p)
  <2>1. UNCHANGED <<frames, stream>> /\ ClientsAge /\ pc[p] = "read"
    BY <1>10, ClientsRest DEF Fingerprint, streamVars
  <2>2. CASE Return(p, "error")
    BY <1>1, <1>3, <2>1, <2>2, Returned
  <2>3. ASSUME NEW where \in {"read", "compare"}, Goto(p, where), tier' = [tier EXCEPT ![p] = "mm"],
               UNCHANGED <<op, client, keys, told, answer, late, calls>>
        PROVE  CInv'
    <3>1. FramesOK'
      BY <1>3, <2>1, <2>3, FramesGoto
    <3>. QED
      BY <1>1, <1>3, <2>1, <2>3, <3>1, Went
  <2>. QED
    BY <1>10, <2>2, <2>3 DEF Fingerprint
<1>11. CASE Compare(p)
  <2>1. UNCHANGED <<frames, stream>> /\ ClientsAge /\ pc[p] = "compare"
    BY <1>11, ClientsRest DEF Compare, streamVars
  <2>2. Return(p, "ok") \/ Return(p, "error")
    BY <1>11 DEF Compare
  <2>. QED
    BY <1>1, <1>3, <2>1, <2>2, Returned
<1>12. CASE OpenStream(p)
  <2>1. frames' = frames /\ ClientsAge /\ pc[p] = "stream"
    BY <1>12, ClientsRest DEF OpenStream
  <2>2. CASE Return(p, "error") /\ UNCHANGED stream
    BY <1>1, <1>3, <2>1, <2>2, Returned
  <2>3. CASE Continue(p, "header") /\ stream' = [stream EXCEPT ![p] = "open"]
    <3>1. FramesOK'
      BY <2>1, <2>3, FramesOpen
    <3>. QED
      BY <1>1, <1>3, <2>1, <2>3, <3>1, Went DEF Continue, Sending
  <2>. QED
    BY <1>12, <2>2, <2>3 DEF OpenStream
<1>13. CASE SendHeader(p) \/ SendData(p) \/ SendFooter(p) \/ CloseSend(p)
  <2>1. stream' = stream /\ ClientsAge /\ pc[p] \in Sending
    BY <1>13, ClientsRest DEF SendHeader, SendData, SendFooter, CloseSend, Sending
  <2>2. CASE Return(p, "error") /\ UNCHANGED frames
    BY <1>1, <1>3, <2>1, <2>2, Returned DEF Sending
  <2>3. ASSUME NEW frame, Send(p, frame), frame = Upload(keys[p])[Position(p) + 1],
               Position(p) \in 0..6,
               NEW where \in {"header", "data", "footer", "close", "recv"}, Goto(p, where),
               where # "recv" => Position(p)' = Position(p) + 1,
               tier' = tier \/ tier' = [tier EXCEPT ![p] = "mm"],
               where = "close" => tier'[p] = "mm",
               UNCHANGED <<op, client, keys, answer, late, calls>>
        PROVE  CInv'
    <3>1. FramesOK'
      BY <2>1, <2>3, FramesSend
    <3>. QED
      BY <1>1, <1>3, <2>1, <2>3, <3>1, Went DEF Sending
  <2>4. pc \in [Callers -> Steps] /\ tier \in [Callers -> Tiers]
    BY DEF IInv, Flow, CInv, CallsTyped
  <2>5. CASE SendHeader(p) /\ Send(p, <<"header", tier[p]>>) /\ Continue(p, "data")
    <3>1. /\ pc[p] = "header" /\ Goto(p, "data") /\ pc'[p] = "data"
          /\ UNCHANGED <<op, client, keys, tier, answer, late, calls>>
      BY <2>4, <2>5 DEF SendHeader, Continue, Goto
    <3>2. tier[p] = "rmp" \/ tier[p] = "mm"
      BY <2>4 DEF Tiers
    <3>3. /\ Position(p) \in 0..6 /\ Position(p)' = Position(p) + 1
          /\ tier[p] = "rmp" => Position(p) = 0
          /\ tier[p] = "mm" => Position(p) = 3
      BY <3>1, <3>2 DEF Position
    <3>4. <<"header", tier[p]>> = Upload(keys[p])[Position(p) + 1]
      BY <3>2, <3>3, UploadIs
    <3>. QED
      BY <2>3, <2>5, <3>1, <3>3, <3>4
  <2>6. CASE SendData(p) /\ Send(p, <<"data", keys[p]>>) /\ Continue(p, "footer")
    <3>1. /\ pc[p] = "data" /\ Goto(p, "footer") /\ pc'[p] = "footer"
          /\ UNCHANGED <<op, client, keys, tier, answer, late, calls>>
      BY <2>4, <2>6 DEF SendData, Continue, Goto
    <3>2. tier[p] = "rmp" \/ tier[p] = "mm"
      BY <2>4 DEF Tiers
    <3>3. /\ Position(p) \in {1, 4} /\ Position(p)' = Position(p) + 1
      BY <3>1, <3>2 DEF Position
    <3>4. <<"data", keys[p]>> = Upload(keys[p])[Position(p) + 1]
      BY <3>3, UploadIs
    <3>. QED
      BY <2>3, <2>6, <3>1, <3>3, <3>4
  <2>7. CASE /\ SendFooter(p) /\ Send(p, <<"footer", keys[p]>>)
             /\ Goto(p, IF tier[p] = "rmp" THEN "header" ELSE "close")
             /\ tier' = [tier EXCEPT ![p] = "mm"]
             /\ UNCHANGED <<op, client, keys, told, answer, late, calls>>
    <3>1. PICK where \in {"header", "close"} :
            where = (IF tier[p] = "rmp" THEN "header" ELSE "close") /\ Goto(p, where)
      BY <2>7
    <3>2. pc[p] = "footer" /\ pc'[p] = where /\ tier'[p] = "mm"
      BY <2>4, <2>7, <3>1 DEF SendFooter, Goto
    <3>3. /\ Position(p) \in {2, 5} /\ Position(p)' = Position(p) + 1
      BY <3>1, <3>2 DEF Position
    <3>4. <<"footer", keys[p]>> = Upload(keys[p])[Position(p) + 1]
      BY <3>3, UploadIs
    <3>. QED
      BY <2>3, <2>7, <3>1, <3>2, <3>3, <3>4
  <2>8. CASE CloseSend(p)
    <3>1. /\ pc[p] = "close" /\ Goto(p, "recv") /\ Send(p, <<"close">>) /\ tier[p] = "mm"
          /\ UNCHANGED <<op, client, keys, tier, answer, late, calls>>
      BY <2>8 DEF CloseSend, Continue, CInv, FramesOK, FrameOK
    <3>2. Position(p) = 6
      BY <3>1 DEF Position
    <3>3. <<"close">> = Upload(keys[p])[Position(p) + 1]
      BY <3>2, UploadIs
    <3>. QED
      BY <2>3, <3>1, <3>2, <3>3
  <2>. QED
    BY <1>13, <2>2, <2>5, <2>6, <2>7, <2>8 DEF SendHeader, SendData, SendFooter, SendFails
<1>14. CASE Receive(p)
  <2>1. UNCHANGED <<frames, stream>> /\ ClientsAge /\ pc[p] = "recv"
    BY <1>14, ClientsRest DEF Receive, streamVars
  <2>2. CASE Return(p, "error") \/ Return(p, "unauthenticated")
    BY <1>1, <1>3, <2>1, <2>2, Returned
  <2>3. CASE Continue(p, "bind")
    <3>1. Goto(p, "bind") /\ UNCHANGED <<op, client, late, answer, calls, keys, tier>>
      BY <2>3 DEF Continue
    <3>2. FramesOK'
      BY <1>3, <2>1, <3>1, FramesGoto
    <3>. QED
      BY <1>1, <1>3, <2>1, <3>1, <3>2, Went
  <2>. QED
    BY <1>14, <2>2, <2>3 DEF Receive
<1>15. CASE Bind(p)
  <2>1. UNCHANGED <<frames, stream>> /\ Return(p, "ok") /\ pc[p] = "bind"
    BY <1>15 DEF Bind, streamVars
  <2>2. ClientsAge
    BY <1>15 DEF Bind, ClientsAge, CInv, ClientsTyped, IInv, Flow
  <2>. QED
    BY <1>1, <1>3, <2>1, <2>2, Returned
<1>. QED
  BY <1>4, <1>5, <1>6, <1>7, <1>8, <1>9, <1>10, <1>11, <1>12, <1>13, <1>14, <1>15 DEF Step

LEMMA BeginKeepsState ==
  ASSUME IInv, CInv, NEW p \in Callers, NEW o \in Operations, NEW c \in Clients,
         NEW k \in KeySets \cup {NoKeys}, Begin(p, o, c, k)
  PROVE  CInv'
<1>1. UNCHANGED <<clientVars, tier, closed>> /\ pc[p] = "idle" /\ calls \in 0..MaxCalls
  BY DEF Begin, CInv, CallsTyped
<1>2. /\ pc' = [pc EXCEPT ![p] = "guard"] /\ keys' = [keys EXCEPT ![p] = k]
      /\ op' = [op EXCEPT ![p] = o] /\ client' = [client EXCEPT ![p] = c]
      /\ late' = [late EXCEPT ![p] = c \in closed] /\ answer' = [answer EXCEPT ![p] = "none"]
      /\ frames' = [frames EXCEPT ![p] = <<>>] /\ stream' = [stream EXCEPT ![p] = "none"]
  BY DEF Begin, Goto
<1>3. calls' \in 0..MaxCalls
  BY <1>1, MaxCallsAssumption DEF Begin
<1>4. ClientsTyped' /\ CallsTyped'
  BY <1>1, <1>2, <1>3 DEF CInv, ClientsTyped, CallsTyped, clientVars, Answers
<1>5. /\ pc'[p] = "guard" /\ client'[p] = c /\ late'[p] = (c \in closed) /\ frames'[p] = <<>>
      /\ DOMAIN frames' = Callers
  BY <1>2 DEF IInv, Flow, CInv, CallsTyped, FramesOK
<1>6. \A q \in Callers : q # p =>
        /\ pc'[q] = pc[q] /\ client'[q] = client[q] /\ late'[q] = late[q] /\ keys'[q] = keys[q]
        /\ op'[q] = op[q] /\ frames'[q] = frames[q] /\ stream'[q] = stream[q]
        /\ answer'[q] = answer[q]
  BY <1>2 DEF IInv, Flow, CInv, CallsTyped, FramesOK
<1>7. FrameOK(p)'
  BY <1>1, <1>5 DEF FrameOK, CInv, FramesOK, Sending
<1>8. ASSUME NEW q \in Callers, q # p PROVE FrameOK(q)'
  BY <1>1, <1>6, <1>8, OthersFrames DEF CInv, FramesOK
<1>9. FramesOK'
  BY <1>5, <1>7, <1>8 DEF FramesOK
<1>10. UNCHANGED <<open, cached, closed>> /\ (late'[p] => c \in closed)
  BY <1>1, <1>5 DEF clientVars
<1>11. ClosedIsShut'
  BY <1>5, <1>6, <1>10 DEF CInv, ClosedIsShut
<1>12. LateIsStopped'
  BY <1>5, <1>6, <1>10 DEF CInv, LateIsStopped
<1>13. ClosedIsFinal'
  BY <1>5, <1>6, <1>10 DEF CInv, ClosedIsFinal
<1>. QED
  BY <1>4, <1>9, <1>11, <1>12, <1>13 DEF CInv

LEMMA EndKeepsState ==
  ASSUME IInv, CInv, NEW p \in Callers, NEW how \in {"accepted", "refused", "denied", "lost"},
         EndStream(p, how)
  PROVE  CInv'
<1>1. UNCHANGED <<clientVars, callVars, closed>>
  BY DEF EndStream
<1>2. ClientsTyped' /\ CallsTyped' /\ ClosedIsShut' /\ LateIsStopped' /\ ClosedIsFinal'
  BY <1>1 DEF CInv, clientVars, callVars, ClientsTyped, CallsTyped, ClosedIsShut, LateIsStopped,
     ClosedIsFinal
<1>. QED
  BY <1>2, FramesEnd DEF CInv

LEMMA StateInductive == IInv /\ CInv /\ [Next]_vars => CInv'
<1>. SUFFICES ASSUME IInv, CInv, [Next]_vars PROVE CInv'
  OBVIOUS
<1>1. ASSUME NEW p \in Callers, NEW o \in Operations, NEW c \in Clients,
             NEW k \in KeySets \cup {NoKeys}, Begin(p, o, c, k)
      PROVE  CInv'
  BY <1>1, BeginKeepsState
<1>2. ASSUME NEW p \in Callers, Step(p) PROVE CInv'
  BY <1>2, StepKeepsState
<1>3. ASSUME NEW p \in Callers, Deny(p) \/ Serve(p) \/ RefuseEarly(p) \/ Lose(p) PROVE CInv'
  BY <1>3, EndKeepsState DEF Deny, Serve, RefuseEarly, Lose
<1>4. CASE UNCHANGED <<clientVars, callVars, frames, stream, closed>>
  <2>1. UNCHANGED <<open, wire, bound, cached, pc, op, client, keys, tier, answer, late, calls,
                    frames, stream, closed>>
    BY <1>4 DEF clientVars, callVars
  <2>2. FramesOK'
    BY <2>1 DEF CInv, FramesOK, FrameOK, Sent, Position
  <2>. QED
    BY <2>1, <2>2 DEF CInv, ClientsTyped, CallsTyped, ClosedIsShut, LateIsStopped, ClosedIsFinal
<1>. QED
  BY <1>1, <1>2, <1>3, <1>4 DEF Next, ServeStray, vars, streamVars

(* What the rest of the state looks like holds in every reachable state.   *)
THEOREM StateHolds == Spec => []CInv
<1>. QED
  BY InvariantHolds, StateInitially, StateInductive, PTL DEF Spec

(* Every variable keeps its type, and what has been sent on a stream is    *)
(* at any time the start of one upload: header, bytes and footer of one    *)
(* tier, then of the other, then the end.                                  *)
THEOREM TypeCorrect == Spec => []TypeOK
<1>1. IInv /\ CInv => TypeOK
  <2>. SUFFICES ASSUME IInv, CInv PROVE TypeOK
    OBVIOUS
  <2>1. \A p \in Callers : frames[p] = <<>> \/ \E k \in KeySets : IsPrefix(frames[p], Upload(k))
    BY SentIsPrefix DEF CInv, FramesOK, FrameOK
  <2>2. Steps = {"idle", "guard", "info", "rpc", "read", "compare", "stream",
                 "header", "data", "footer", "close", "recv", "bind", "hangup"}
    BY DEF Steps, Registering, Verifying
  <2>. QED
    BY <2>1, <2>2 DEF TypeOK, IInv, Flow, CInv, ClientsTyped, CallsTyped, StreamStates
<1>. QED
  BY <1>1, InvariantHolds, StateHolds, PTL

(* A call that begins after Close has returned says that the client is     *)
(* closed, except Centroids, which answers from the cache or fails.        *)
THEOREM ClosedStaysClosed == Spec => []ClosedIsFinal
<1>1. CInv => ClosedIsFinal
  BY DEF CInv
<1>. QED
  BY <1>1, StateHolds, PTL
=============================================================================
