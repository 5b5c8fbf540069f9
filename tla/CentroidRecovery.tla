-------------------------- MODULE CentroidRecovery --------------------------
(***************************************************************************)
(* Callers that insert for ever and follow the advice given with           *)
(* ErrCentroidVersionMismatch: route with the cached set, and when the     *)
(* server, which has another one, refuses the version, invalidate the      *)
(* cache and route again.  Others may invalidate it for no reason at all.  *)
(***************************************************************************)
EXTENDS CentroidHistory

VARIABLE verdict  \* verdict[c]: "none", "routed" until the insert of c has
                  \* its verdict, "mismatch" until c invalidates

recoveryVars == <<allVars, verdict>>

RecoveryInit == HistInit /\ verdict = [c \in Callers |-> "none"]

(* No set, and the set 0 of a server without a clustered tier, end an      *)
(* insert before there is a request to judge.                              *)
Route(c) ==
  /\ verdict[c] = "none" \/ (verdict[c] = "routed" /\ got[c] \in {NoSet, 0})
  /\ HistEnter(c)
  /\ verdict' = [verdict EXCEPT ![c] = "routed"]

Judge(c, answer) ==
  /\ verdict[c] = "routed"
  /\ stage[c] = "out"
  /\ got[c] \notin {NoSet, 0}
  /\ verdict' = [verdict EXCEPT ![c] = answer]
  /\ UNCHANGED allVars

(* The server compares the version of an insert with the set it has.       *)
Accept(c) == got[c] = serverSet /\ Judge(c, "none")
Refuse(c) == got[c] # serverSet /\ Judge(c, "mismatch")

Recover(c) ==
  /\ verdict[c] = "mismatch"
  /\ HistInvalidate
  /\ verdict' = [verdict EXCEPT ![c] = "none"]

(* The steps of centroidSetCached.                                         *)
Look(c) == Lookup(c) /\ UNCHANGED <<histVars, verdict>>
Fetch(c) == (Drain(c) \/ FetchFails(c)) /\ UNCHANGED <<histVars, verdict>>
Keep(c) == HistInstall(c) /\ UNCHANGED verdict

RecoveryNext ==
  \/ \E c \in Callers : Route(c) \/ Accept(c) \/ Refuse(c) \/ Recover(c)
  \/ \E c \in Callers : Look(c) \/ Fetch(c) \/ Keep(c)
  \/ HistInvalidate /\ UNCHANGED verdict
  \/ ReplaceSet /\ UNCHANGED <<histVars, verdict>>

(* A call that began runs to its end, an insert is accepted or refused by  *)
(* the version it carries, and callers keep inserting.                     *)
RecoveryFairness ==
  \A c \in Callers :
    /\ WF_recoveryVars(Route(c))
    /\ WF_recoveryVars(Accept(c) \/ Refuse(c))
    /\ WF_recoveryVars(Recover(c))
    /\ WF_recoveryVars(Look(c))
    /\ WF_recoveryVars(Fetch(c))
    /\ WF_recoveryVars(Keep(c))

RecoverySpec == RecoveryInit /\ [][RecoveryNext]_recoveryVars /\ RecoveryFairness

-----------------------------------------------------------------------------
(* Once the server, which has a clustered tier, keeps its set, the callers *)
(* end up with it for good: however fetches and invalidations overlapped,  *)
(* a stale set is not kept.                                                *)
SettlesOnServerSet == serverSet # 0 => <>[](cache \in {NoSet, serverSet})
=============================================================================
