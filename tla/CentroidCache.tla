--------------------------- MODULE CentroidCache ----------------------------
(***************************************************************************)
(* The client's cache of the server's IVF centroid set: centroidSetCached  *)
(* looks under the lock, drains the GetCentroids stream without the lock   *)
(* and installs under the lock again; InvalidateCentroidCache empties the  *)
(* cache at any time, and the server replaces its set at any time.  A set  *)
(* is named by its position in the server's history; set 0 is "no          *)
(* clustered tier" (an empty version, or a server that does not implement  *)
(* GetCentroids), which is cached like any other.                          *)
(***************************************************************************)
EXTENDS Naturals

CONSTANTS
  Callers,   \* the goroutines that need the set: Centroids, Insert
  MaxSet,    \* bound: how often the server replaces its set
  NoSet      \* nothing loaded, or nothing returned

Sets == 0..MaxSet

ASSUME MaxSetAssumption == MaxSet \in Nat
ASSUME NoSetAssumption == NoSet \notin Nat

VARIABLES
  serverSet,  \* the set the server has loaded
  cache,      \* centroids, or NoSet while centroidsLoaded is false
  stage,      \* stage[c]: where c is in centroidSetCached
  drawn,      \* drawn[c]: the set c drained from its stream
  got         \* got[c]: what the latest call of c returned; NoSet: an error

cacheVars == <<serverSet, cache, stage, drawn, got>>

Stages == {"out", "lookup", "missed", "drained"}

TypeOK ==
  /\ serverSet \in Sets
  /\ cache \in Sets \cup {NoSet}
  /\ stage \in [Callers -> Stages]
  /\ drawn \in [Callers -> Sets \cup {NoSet}]
  /\ got \in [Callers -> Sets \cup {NoSet}]

Init ==
  /\ serverSet \in Sets
  /\ cache = NoSet
  /\ stage = [c \in Callers |-> "out"]
  /\ drawn = [c \in Callers |-> NoSet]
  /\ got = [c \in Callers |-> NoSet]

Enter(c) ==
  /\ stage[c] = "out"
  /\ stage' = [stage EXCEPT ![c] = "lookup"]
  /\ got' = [got EXCEPT ![c] = NoSet]
  /\ UNCHANGED <<serverSet, cache, drawn>>

(* The first critical section: a hit returns the cached set.               *)
Lookup(c) ==
  /\ stage[c] = "lookup"
  /\ IF cache # NoSet
     THEN /\ got' = [got EXCEPT ![c] = cache]
          /\ stage' = [stage EXCEPT ![c] = "out"]
     ELSE stage' = [stage EXCEPT ![c] = "missed"] /\ UNCHANGED got
  /\ UNCHANGED <<serverSet, cache, drawn>>

(* GetCentroids, outside the lock: the stream carries one set, the one the *)
(* server has when it serves the call.                                     *)
Drain(c) ==
  /\ stage[c] = "missed"
  /\ drawn' = [drawn EXCEPT ![c] = serverSet]
  /\ stage' = [stage EXCEPT ![c] = "drained"]
  /\ UNCHANGED <<serverSet, cache, got>>

(* Mutant: what a broken stream carried so far, which is no set the server *)
(* ever had, passes for a set.                                             *)
FetchKeepsPart(c) ==
  /\ stage[c] = "missed"
  /\ drawn' = [drawn EXCEPT ![c] = MaxSet + 1]
  /\ stage' = [stage EXCEPT ![c] = "drained"]
  /\ UNCHANGED <<serverSet, cache, got>>

(* The stream does not open or breaks: an error, and nothing is cached.    *)
FetchFails(c) ==
  /\ stage[c] = "missed"
  /\ stage' = [stage EXCEPT ![c] = "out"]
  /\ UNCHANGED <<serverSet, cache, drawn, got>>

(* Mutant: every fetch overwrites the cache.                               *)
InstallAlways(c) ==
  /\ stage[c] = "drained"
  /\ cache' = drawn[c]
  /\ got' = [got EXCEPT ![c] = drawn[c]]
  /\ stage' = [stage EXCEPT ![c] = "out"]
  /\ drawn' = [drawn EXCEPT ![c] = NoSet]
  /\ UNCHANGED serverSet

(* The second critical section: the first to arrive caches its set, the    *)
(* others take what is cached.                                             *)
Install(c) ==
  /\ stage[c] = "drained"
  /\ LET set == IF cache = NoSet THEN drawn[c] ELSE cache
     IN  /\ cache' = set
         /\ got' = [got EXCEPT ![c] = set]
  /\ stage' = [stage EXCEPT ![c] = "out"]
  /\ drawn' = [drawn EXCEPT ![c] = NoSet]
  /\ UNCHANGED serverSet

(* Mutant: the cache is kept.                                              *)
InvalidateNothing == UNCHANGED cacheVars

InvalidateCentroidCache ==
  /\ cache' = NoSet
  /\ UNCHANGED <<serverSet, stage, drawn, got>>

(* The server restarts with another set, or with its first one.            *)
ReplaceSet ==
  /\ serverSet < MaxSet
  /\ serverSet' = serverSet + 1
  /\ UNCHANGED <<cache, stage, drawn, got>>

Next ==
  \/ \E c \in Callers :
       Enter(c) \/ Lookup(c) \/ Drain(c) \/ FetchFails(c) \/ Install(c)
  \/ InvalidateCentroidCache
  \/ ReplaceSet

(* A call that began runs to its end: the mutex is held for a few          *)
(* assignments, and a GetCentroids RPC answers or fails.                   *)
CallFairness(c) ==
  /\ WF_cacheVars(Lookup(c))
  /\ WF_cacheVars(Drain(c) \/ FetchFails(c))
  /\ WF_cacheVars(Install(c))

Spec == Init /\ [][Next]_cacheVars /\ \A c \in Callers : CallFairness(c)

-----------------------------------------------------------------------------
Cell ==
  INSTANCE LoadOnce WITH
    Readers <- Callers,
    Values <- Sets,
    Empty <- NoSet,
    cell <- cache,
    reading <- {c \in Callers : stage[c] # "out"},
    got <- got

(* Concurrent first callers may each fetch, but one caches and all         *)
(* converge on it, and every call returns: the cache implements a cell     *)
(* that is loaded once.                                                    *)
ImplementsLoadOnce == Cell!Spec

(* The safety part of it.                                                  *)
LoadsOnce == Cell!Init /\ [][Cell!Next]_(Cell!vars)
=============================================================================
