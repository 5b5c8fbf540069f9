--------------------------- MODULE CentroidProofs ---------------------------
(***************************************************************************)
(* Proofs about the centroid cache, for any number of callers and of       *)
(* replacements of the server's set: it is a cell loaded once, and only a  *)
(* fetch that overlapped an invalidation can leave an older set in it.     *)
(***************************************************************************)
EXTENDS CentroidHistory, TLAPS

(* Every step of the cache keeps its types.                                *)
LEMMA CacheTypeStep ==
  ASSUME TypeOK, [Next]_cacheVars
  PROVE  TypeOK'
<1> USE MaxSetAssumption DEF TypeOK, Sets, Stages
<1>1. ASSUME NEW c \in Callers, Enter(c) PROVE TypeOK'
  BY <1>1 DEF Enter
<1>2. ASSUME NEW c \in Callers, Lookup(c) PROVE TypeOK'
  BY <1>2 DEF Lookup
<1>3. ASSUME NEW c \in Callers, Drain(c) PROVE TypeOK'
  BY <1>3 DEF Drain
<1>4. ASSUME NEW c \in Callers, FetchFails(c) PROVE TypeOK'
  BY <1>4 DEF FetchFails
<1>5. ASSUME NEW c \in Callers, Install(c) PROVE TypeOK'
  BY <1>5 DEF Install
<1>6. CASE InvalidateCentroidCache
  BY <1>6 DEF InvalidateCentroidCache
<1>7. CASE ReplaceSet
  BY <1>7 DEF ReplaceSet
<1>8. CASE UNCHANGED cacheVars
  BY <1>8 DEF cacheVars
<1> HIDE DEF TypeOK, Sets, Stages
<1> QED
  BY <1>1, <1>2, <1>3, <1>4, <1>5, <1>6, <1>7, <1>8 DEF Next

(* The cache starts empty, with no call in progress.                       *)
LEMMA CacheInitType ==
  ASSUME Init
  PROVE  TypeOK
BY DEF Init, TypeOK, Stages

(* A caller that is about to install holds a set it drained.               *)
DrainedHasSet == \A c \in Callers : stage[c] = "drained" => drawn[c] \in Sets

(* Every step keeps a drained set for the callers that need one.           *)
LEMMA DrainedStep ==
  ASSUME TypeOK, DrainedHasSet, [Next]_cacheVars
  PROVE  DrainedHasSet'
BY DEF TypeOK, DrainedHasSet, Next, cacheVars, Enter, Lookup, Drain, FetchFails,
   Install, InvalidateCentroidCache, ReplaceSet

-----------------------------------------------------------------------------
Inside == {c \in Callers : stage[c] # "out"}

(* Every step of the cache is a step of the cell or a stuttering step.     *)
LEMMA CellStep ==
  ASSUME TypeOK, DrainedHasSet, [Next]_cacheVars
  PROVE  [Cell!Next]_(Cell!vars)
<1>1. ASSUME NEW c \in Callers, Enter(c) PROVE Cell!Begin(c)
  BY <1>1 DEF Enter, TypeOK, Cell!Begin
<1>2. ASSUME NEW c \in Callers, Lookup(c) PROVE [Cell!Return(c)]_(Cell!vars)
  <2>1. CASE cache # NoSet
    BY <1>2, <2>1 DEF Lookup, TypeOK, Cell!Return
  <2>2. CASE cache = NoSet
    BY <1>2, <2>2 DEF Lookup, TypeOK, Cell!vars
  <2> QED
    BY <2>1, <2>2
<1>3. ASSUME NEW c \in Callers, Drain(c) PROVE UNCHANGED Cell!vars
  BY <1>3 DEF Drain, Cell!vars
<1>4. ASSUME NEW c \in Callers, FetchFails(c) PROVE Cell!GiveUp(c)
  BY <1>4 DEF FetchFails, TypeOK, Cell!GiveUp
<1>5. ASSUME NEW c \in Callers, Install(c) PROVE Cell!Return(c)
  BY <1>5 DEF Install, TypeOK, DrainedHasSet, Cell!Return
<1>6. CASE InvalidateCentroidCache
  BY <1>6 DEF InvalidateCentroidCache, Cell!Clear, Cell!Next
<1>7. CASE ReplaceSet
  BY <1>7 DEF ReplaceSet, Cell!vars
<1>8. CASE UNCHANGED cacheVars
  BY <1>8 DEF cacheVars, Cell!vars
<1> QED
  BY <1>1, <1>2, <1>3, <1>4, <1>5, <1>6, <1>7, <1>8 DEF Next, Cell!Next

(* Whatever fetches race, one set is cached between two invalidations and  *)
(* every call returns the cached one.                                      *)
THEOREM CacheIsLoadedOnce == Spec => LoadsOnce
<1>1. Init => TypeOK /\ DrainedHasSet /\ Cell!Init
  BY CacheInitType DEF Init, DrainedHasSet, Cell!Init
<1>2. TypeOK /\ DrainedHasSet /\ [Next]_cacheVars => TypeOK' /\ DrainedHasSet'
  BY CacheTypeStep, DrainedStep
<1> QED
  BY <1>1, <1>2, CellStep, PTL DEF Spec, LoadsOnce

-----------------------------------------------------------------------------
(* Every step with history is a step of the cache.                         *)
LEMMA HistoryIsCache ==
  ASSUME [HistNext]_allVars
  PROVE  [Next]_cacheVars
BY DEF HistNext, allVars, HistEnter, HistInstall, HistInvalidate, Next

(* Every step keeps the invariant about the age of sets.                   *)
LEMMA HistStep ==
  ASSUME HistInv, [HistNext]_allVars
  PROVE  HistInv'
<1>0. TypeOK' /\ TypeOK
  BY CacheTypeStep, HistoryIsCache DEF HistInv, HistTypeOK
<1> USE <1>0, MaxSetAssumption, NoSetAssumption
<1> USE DEF HistInv, HistTypeOK, TypeOK, Sets, Stages
<1>1. ASSUME NEW c \in Callers, HistEnter(c) PROVE HistInv'
  BY <1>1 DEF HistEnter, Enter, FloorIsPast, DrainedIsRecent, OnlyOverlapIsStale
<1>2. ASSUME NEW c \in Callers, HistInstall(c) PROVE HistInv'
  <2>1. HistTypeOK' /\ FloorIsPast'
    BY <1>2 DEF HistInstall, Install, FloorIsPast
  <2>2. DrainedIsRecent'
    BY <1>2 DEF HistInstall, Install, DrainedIsRecent
  <2>3. OnlyOverlapIsStale'
    <3>1. drawn[c] \in Sets /\ (c \notin overlap => drawn[c] >= floor)
      BY <1>2 DEF HistInstall, Install, DrainedIsRecent
    <3>2. CASE cache = NoSet
      BY <1>2, <3>1 DEF HistInstall, Install, OnlyOverlapIsStale
    <3>3. CASE cache # NoSet
      BY <1>2, <3>3 DEF HistInstall, Install, OnlyOverlapIsStale
    <3> QED
      BY <3>2, <3>3
  <2> QED
    BY <2>1, <2>2, <2>3
<1>3. ASSUME NEW c \in Callers, Lookup(c), UNCHANGED histVars PROVE HistInv'
  BY <1>3 DEF histVars, Lookup, FloorIsPast, DrainedIsRecent, OnlyOverlapIsStale
<1>4. ASSUME NEW c \in Callers, Drain(c), UNCHANGED histVars PROVE HistInv'
  BY <1>4 DEF histVars, Drain, FloorIsPast, DrainedIsRecent, OnlyOverlapIsStale
<1>5. ASSUME NEW c \in Callers, FetchFails(c), UNCHANGED histVars PROVE HistInv'
  BY <1>5 DEF histVars, FetchFails, FloorIsPast, DrainedIsRecent,
     OnlyOverlapIsStale
<1>6. CASE HistInvalidate
  <2>1. HistTypeOK' /\ FloorIsPast'
    BY <1>6 DEF HistInvalidate, InvalidateCentroidCache, FloorIsPast
  <2>2. DrainedIsRecent'
    BY <1>6 DEF HistInvalidate, InvalidateCentroidCache, DrainedIsRecent
  <2>3. OnlyOverlapIsStale'
    BY <1>6 DEF HistInvalidate, InvalidateCentroidCache, OnlyOverlapIsStale
  <2> QED
    BY <2>1, <2>2, <2>3
<1>7. CASE ReplaceSet /\ UNCHANGED histVars
  BY <1>7 DEF histVars, ReplaceSet, FloorIsPast, DrainedIsRecent,
     OnlyOverlapIsStale
<1>8. CASE UNCHANGED allVars
  BY <1>8 DEF allVars, cacheVars, histVars, FloorIsPast, DrainedIsRecent,
     OnlyOverlapIsStale
<1> HIDE DEF HistInv, HistTypeOK, TypeOK, Sets, Stages
<1> QED
  BY <1>1, <1>2, <1>3, <1>4, <1>5, <1>6, <1>7, <1>8 DEF HistNext

(* The cache, the fetches at work and the server's history fit together in *)
(* every reachable state.                                                  *)
THEOREM HistoryHolds == HistSpec => []HistInv
<1>1. ASSUME HistInit PROVE HistInv
  <2>1. TypeOK
    BY <1>1, CacheInitType DEF HistInit
  <2>2. HistTypeOK
    BY <1>1, <2>1, MaxSetAssumption DEF HistInit, HistTypeOK, Sets
  <2>3. FloorIsPast
    BY <1>1, <2>1 DEF HistInit, FloorIsPast, TypeOK, Sets
  <2>4. DrainedIsRecent /\ OnlyOverlapIsStale
    BY <1>1 DEF HistInit, Init, DrainedIsRecent, OnlyOverlapIsStale
  <2> QED
    BY <2>2, <2>3, <2>4 DEF HistInv
<1> QED
  BY <1>1, HistStep, PTL DEF HistSpec

(* What is cached is nothing or a set the server had, never part of one.   *)
THEOREM CachedSetsAreWhole == HistSpec => []HistTypeOK
<1>1. HistInv => HistTypeOK
  BY DEF HistInv
<1> QED
  BY <1>1, HistoryHolds, PTL

(* Only a fetch that overlapped an invalidation leaves a set in the cache  *)
(* that is older than the one the server then had.                         *)
THEOREM StalenessNeedsOverlap == HistSpec => []OnlyOverlapIsStale
<1>1. HistInv => OnlyOverlapIsStale
  BY DEF HistInv
<1> QED
  BY <1>1, HistoryHolds, PTL
=============================================================================
