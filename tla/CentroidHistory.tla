-------------------------- MODULE CentroidHistory ---------------------------
(***************************************************************************)
(* CentroidCache with history variables that say how old the cached set    *)
(* may be: the set the server had at the latest invalidation, and the      *)
(* fetches that were drained before it and are still to be installed.      *)
(***************************************************************************)
EXTENDS CentroidCache

VARIABLES
  floor,    \* the server's set at the latest InvalidateCentroidCache, 0 before
  since,    \* since[c]: floor when the current or latest call of c began
  overlap,  \* the callers that drained their set before that invalidation
  origin    \* whether one of them installed the cached set

histVars == <<floor, since, overlap, origin>>
allVars == <<cacheVars, histVars>>

HistTypeOK ==
  /\ TypeOK
  /\ floor \in Sets
  /\ since \in [Callers -> Sets]
  /\ overlap \subseteq Callers
  /\ origin \in {"recent", "overlapped"}

HistInit ==
  /\ Init
  /\ floor = 0
  /\ since = [c \in Callers |-> 0]
  /\ overlap = {}
  /\ origin = "recent"

HistEnter(c) ==
  /\ Enter(c)
  /\ since' = [since EXCEPT ![c] = floor]
  /\ UNCHANGED <<floor, overlap, origin>>

HistInstall(c) ==
  /\ Install(c)
  /\ origin' = IF cache = NoSet /\ c \in overlap THEN "overlapped" ELSE origin
  /\ overlap' = overlap \ {c}
  /\ UNCHANGED <<floor, since>>

HistInvalidate ==
  /\ InvalidateCentroidCache
  /\ floor' = serverSet
  /\ overlap' = {c \in Callers : stage[c] = "drained"}
  /\ origin' = "recent"
  /\ UNCHANGED since

HistNext ==
  \/ \E c \in Callers : HistEnter(c) \/ HistInstall(c)
  \/ \E c \in Callers : (Lookup(c) \/ Drain(c) \/ FetchFails(c)) /\ UNCHANGED histVars
  \/ HistInvalidate
  \/ ReplaceSet /\ UNCHANGED histVars

(* As CallFairness: a call that began runs to its end.                     *)
HistFairness ==
  \A c \in Callers :
    /\ WF_allVars(Lookup(c) /\ UNCHANGED histVars)
    /\ WF_allVars((Drain(c) \/ FetchFails(c)) /\ UNCHANGED histVars)
    /\ WF_allVars(HistInstall(c))

HistSpec == HistInit /\ [][HistNext]_allVars /\ HistFairness

-----------------------------------------------------------------------------
(* An invalidation loses nothing but to a fetch it overlapped: a cached    *)
(* set that no overlapped fetch installed is at least as new as the one    *)
(* the server had when the cache was last invalidated.                     *)
OnlyOverlapIsStale == cache # NoSet /\ origin = "recent" => cache >= floor

(* A fetch is never of a set the server did not have, nor, unless it       *)
(* overlapped, of one older than the latest invalidation.                  *)
DrainedIsRecent ==
  \A c \in Callers :
    stage[c] = "drained" =>
      /\ drawn[c] \in Sets
      /\ c \notin overlap => drawn[c] >= floor

FloorIsPast == floor <= serverSet

HistInv == HistTypeOK /\ FloorIsPast /\ DrainedIsRecent /\ OnlyOverlapIsStale

(* InvalidateCentroidCache "drops the cached centroid set so the next      *)
(* Centroids() / insert-routing call refetches it": a call that begins     *)
(* after it returns nothing older than the set the server then had.        *)
NextCallRefetches == \A c \in Callers : got[c] # NoSet => got[c] >= since[c]
=============================================================================
