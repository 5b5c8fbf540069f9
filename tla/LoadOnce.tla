------------------------------ MODULE LoadOnce ------------------------------
(***************************************************************************)
(* What the centroid cache promises: one cell that is filled at most once  *)
(* between two clears, and readers that all get what the cell holds at the *)
(* instant they return.  Where a value comes from is left open here.       *)
(***************************************************************************)
CONSTANTS
  Readers,   \* the goroutines that call centroidSetCached
  Values,    \* the values the cell can hold
  Empty      \* the content of the cell when nothing is loaded

VARIABLES
  cell,      \* the cell
  reading,   \* the readers inside a call
  got        \* got[r]: what the latest finished call of r returned, or Empty

vars == <<cell, reading, got>>

Init ==
  /\ cell = Empty
  /\ reading = {}
  /\ got = [r \in Readers |-> Empty]

Begin(r) ==
  /\ r \notin reading
  /\ reading' = reading \cup {r}
  /\ got' = [got EXCEPT ![r] = Empty]
  /\ UNCHANGED cell

(* A reader returns the content of the cell, which it fills if need be.    *)
Return(r) ==
  /\ r \in reading
  /\ reading' = reading \ {r}
  /\ \E v \in IF cell = Empty THEN Values ELSE {cell} :
       cell' = v /\ got' = [got EXCEPT ![r] = v]

GiveUp(r) ==
  /\ r \in reading
  /\ reading' = reading \ {r}
  /\ UNCHANGED <<cell, got>>

Clear ==
  /\ cell' = Empty
  /\ UNCHANGED <<reading, got>>

Next ==
  \/ \E r \in Readers : Begin(r) \/ Return(r) \/ GiveUp(r)
  \/ Clear

Spec ==
  /\ Init
  /\ [][Next]_vars
  /\ \A r \in Readers : WF_vars(Return(r) \/ GiveUp(r))
=============================================================================
