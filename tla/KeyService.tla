----------------------------- MODULE KeyService -----------------------------
(***************************************************************************)
(* What a *Keys promises to its callers, without its locks and without the *)
(* native library: encryption and decryption are offered per bundle, Close *)
(* withdraws them for good, a call is answered from what is on offer at    *)
(* one instant between its start and its return, and when a Close returns  *)
(* nothing is on offer any more.  Keys.tla is shown to implement it.       *)
(***************************************************************************)
EXTENDS Naturals

CONSTANT Procs     \* the goroutines that share one *Keys

Bundles == {"rmp", "mm"}
Services == {"enc", "dec"}
Answers == {"ok", "failed", "unavailable"}

VARIABLES
  offer,    \* offer[b]: the services bundle b still offers
  request,  \* request[p]: NoRequest, CloseRequest or the <<bundle, service>> asked for
  answer    \* answer[p]: "none" until the request of p is answered

vars == <<offer, request, answer>>

NoRequest == <<>>
CloseRequest == <<"close">>
Requests == {NoRequest, CloseRequest} \cup (Bundles \X Services)

TypeOK ==
  /\ offer \in [Bundles -> SUBSET Services]
  /\ request \in [Procs -> Requests]
  /\ answer \in [Procs -> {"none"} \cup Answers]

Init ==
  /\ \E parts \in SUBSET Services : offer = [b \in Bundles |-> parts]
  /\ request = [p \in Procs |-> NoRequest]
  /\ answer = [p \in Procs |-> "none"]

Ask(p, r) ==
  /\ request[p] = NoRequest
  /\ request' = [request EXCEPT ![p] = r]
  /\ answer' = [answer EXCEPT ![p] = "none"]
  /\ UNCHANGED offer

(* The instant at which a call takes effect.                               *)
Answer(p) ==
  /\ request[p] \in Bundles \X Services
  /\ answer[p] = "none"
  /\ \E a \in IF request[p][2] \in offer[request[p][1]]
              THEN {"ok", "failed"} ELSE {"unavailable"} :
       answer' = [answer EXCEPT ![p] = a]
  /\ UNCHANGED <<offer, request>>

Return(p) ==
  /\ request[p] \in Bundles \X Services
  /\ answer[p] # "none"
  /\ request' = [request EXCEPT ![p] = NoRequest]
  /\ UNCHANGED <<offer, answer>>

(* Only a caller inside Close withdraws a service.                         *)
Withdraw(p, b, s) ==
  /\ request[p] = CloseRequest
  /\ s \in offer[b]
  /\ offer' = [offer EXCEPT ![b] = @ \ {s}]
  /\ UNCHANGED <<request, answer>>

CloseReturns(p) ==
  /\ request[p] = CloseRequest
  /\ offer = [b \in Bundles |-> {}]
  /\ request' = [request EXCEPT ![p] = NoRequest]
  /\ UNCHANGED <<offer, answer>>

Next ==
  \E p \in Procs :
    \/ \E r \in Requests \ {NoRequest} : Ask(p, r)
    \/ Answer(p)
    \/ Return(p)
    \/ \E b \in Bundles, s \in Services : Withdraw(p, b, s)
    \/ CloseReturns(p)

Fairness ==
  \A p \in Procs :
    /\ WF_vars(Answer(p))
    /\ WF_vars(Return(p))
    /\ WF_vars(\/ \E b \in Bundles, s \in Services : Withdraw(p, b, s)
               \/ CloseReturns(p))

Spec == Init /\ [][Next]_vars /\ Fairness
=============================================================================
