----------------------------- MODULE KeysProofs -----------------------------
(***************************************************************************)
(* Proofs about Keys, for any set of goroutines: the native library is     *)
(* entered by one call per context at a time, and never with an object     *)
(* that has been destroyed.                                                *)
(***************************************************************************)
EXTENDS Keys, TLAPS

(* Every step keeps the variables in their types.                          *)
LEMMA TypeStep ==
  ASSUME TypeOK, [Next]_vars
  PROVE  TypeOK'
<1> USE DEF TypeOK, Bundles, Handles, Objects, CallPCs, ClosePCs
<1>1. ASSUME NEW p \in Procs, NEW b \in Bundles, NEW h \in Handles, Call(p, b, h)
      PROVE  TypeOK'
  BY <1>1 DEF Call
<1>2. ASSUME NEW p \in Procs, LockBundle(p) PROVE TypeOK'
  BY <1>2 DEF LockBundle
<1>3. ASSUME NEW p \in Procs, Recheck(p) PROVE TypeOK'
  BY <1>3 DEF Recheck
<1>4. ASSUME NEW p \in Procs, EnterNative(p) PROVE TypeOK'
  BY <1>4 DEF EnterNative
<1>5. ASSUME NEW p \in Procs, LeaveNative(p) PROVE TypeOK'
  <2>1. PICK a \in {"ok", "failed"} : answer' = [answer EXCEPT ![p] = a]
    BY <1>5 DEF LeaveNative
  <2> QED
    BY <1>5 DEF LeaveNative
<1>6. ASSUME NEW p \in Procs, UnlockBundle(p) PROVE TypeOK'
  BY <1>6 DEF UnlockBundle
<1>7. ASSUME NEW p \in Procs, StartClose(p) PROVE TypeOK'
  BY <1>7 DEF StartClose
<1>8. ASSUME NEW p \in Procs, LockForClose(p) PROVE TypeOK'
  BY <1>8 DEF LockForClose
<1>9. ASSUME NEW p \in Procs, CloseObject(p) PROVE TypeOK'
  BY <1>9 DEF CloseObject, Destroy, Successor
<1>10. ASSUME NEW p \in Procs, UnlockAfterClose(p) PROVE TypeOK'
  BY <1>10 DEF UnlockAfterClose
<1>11. CASE Drop
  BY <1>11 DEF Drop
<1>12. ASSUME NEW b \in Bundles, NEW o \in Objects, Finalize(b, o) PROVE TypeOK'
  BY <1>12 DEF Finalize, Destroy
<1>13. CASE UNCHANGED vars
  BY <1>13 DEF vars
<1> HIDE DEF TypeOK, Bundles, Handles, Objects
<1>14. CASE Next
  BY <1>1, <1>2, <1>3, <1>4, <1>5, <1>6, <1>7, <1>8, <1>9, <1>10, <1>11, <1>12,
     <1>13 DEF Next, Finished
<1> QED
  BY <1>13, <1>14

(* What OpenKeys returns is of the right types.                            *)
LEMMA InitTypeOK ==
  ASSUME Init
  PROVE  TypeOK
<1>1. PICK parts \in SUBSET Handles : made = [b \in Bundles |-> parts \cup {"ctx"}]
  BY DEF Init
<1> QED
  BY DEF Init, TypeOK, Bundles, Handles, Objects

(* The variables of the key set stay in their types.                       *)
THEOREM TypeCorrect == Spec => []TypeOK
BY InitTypeOK, TypeStep, PTL DEF Spec

-----------------------------------------------------------------------------
(* Steps that leave the native objects alone keep what is said of them.    *)
LEMMA NativeUntouched ==
  ASSUME PointersAreSet, DestroyedIffCleared, UNCHANGED nativeVars
  PROVE  PointersAreSet' /\ DestroyedIffCleared'
BY DEF PointersAreSet, DestroyedIffCleared, nativeVars

(* Steps that leave the goroutines and the fields alone keep what is said  *)
(* of them.                                                                *)
LEMMA CallsUntouched ==
  ASSUME HolderIsInside, CallsAreForHandles, CloseInOrder, NoNilHandle,
         UNCHANGED <<pc, cb, co, held, set>>
  PROVE  HolderIsInside' /\ CallsAreForHandles' /\ CloseInOrder' /\ NoNilHandle'
BY DEF HolderIsInside, CallsAreForHandles, CloseInOrder, NoNilHandle

(* Every step keeps the inductive invariant.                               *)
LEMMA InvariantStep ==
  ASSUME IInv, [Next]_vars
  PROVE  IInv'
<1>0. TypeOK /\ TypeOK'
  BY TypeStep DEF IInv
<1>1. ASSUME NEW p \in Procs, NEW b \in Bundles, NEW h \in Handles, Call(p, b, h) PROVE IInv'
  <2>1. PointersAreSet' /\ DestroyedIffCleared'
    BY <1>1, NativeUntouched DEF Call, IInv, nativeVars
  <2>2. HolderIsInside'
    BY <1>1 DEF Call, IInv, HolderIsInside, LockPCs
  <2>3. CallsAreForHandles'
    BY <1>1 DEF Call, IInv, TypeOK, CallsAreForHandles
  <2>4. ReachableIsAlive'
    BY <1>1 DEF Call, IInv, ReachableIsAlive, Reachable
  <2>5. CloseInOrder'
    BY <1>1 DEF Call, IInv, CloseInOrder, ClosePCs
  <2>6. NoNilHandle'
    BY <1>1 DEF Call, IInv, NoNilHandle
  <2> QED
    BY <1>0, <2>1, <2>2, <2>3, <2>4, <2>5, <2>6 DEF IInv
<1>2. ASSUME NEW p \in Procs, LockBundle(p) PROVE IInv'
  <2>1. PointersAreSet' /\ DestroyedIffCleared'
    BY <1>2, NativeUntouched DEF LockBundle, IInv, nativeVars
  <2>2. HolderIsInside'
    BY <1>2, NoProcAssumption DEF LockBundle, IInv, TypeOK, HolderIsInside
  <2>3. CallsAreForHandles'
    BY <1>2 DEF LockBundle, IInv, CallsAreForHandles, CallPCs
  <2>4. ReachableIsAlive'
    BY <1>2 DEF LockBundle, IInv, ReachableIsAlive, Reachable, InUse, ClosePCs
  <2>5. CloseInOrder'
    BY <1>2 DEF LockBundle, IInv, CloseInOrder, ClosePCs
  <2>6. NoNilHandle'
    BY <1>2 DEF LockBundle, IInv, NoNilHandle
  <2> QED
    BY <1>0, <2>1, <2>2, <2>3, <2>4, <2>5, <2>6 DEF IInv
<1>3. ASSUME NEW p \in Procs, Recheck(p) PROVE IInv'
  <2>1. PointersAreSet' /\ DestroyedIffCleared'
    BY <1>3, NativeUntouched DEF Recheck, IInv, nativeVars
  <2>2. HolderIsInside'
    BY <1>3 DEF Recheck, IInv, TypeOK, HolderIsInside, LockPCs
  <2>3. CallsAreForHandles'
    BY <1>3 DEF Recheck, IInv, TypeOK, CallsAreForHandles, ClosePCs
  <2>4. ReachableIsAlive'
    BY <1>3 DEF Recheck, IInv, TypeOK, ReachableIsAlive, Reachable, InUse,
       ClosePCs
  <2>5. CloseInOrder'
    BY <1>3 DEF Recheck, IInv, TypeOK, CloseInOrder, ClosePCs
  <2>6. NoNilHandle'
    BY <1>3 DEF Recheck, IInv, TypeOK, NoNilHandle
  <2> QED
    BY <1>0, <2>1, <2>2, <2>3, <2>4, <2>5, <2>6 DEF IInv
<1>4. ASSUME NEW p \in Procs, EnterNative(p) PROVE IInv'
  <2>1. PointersAreSet' /\ DestroyedIffCleared'
    BY <1>4, NativeUntouched DEF EnterNative, IInv, nativeVars
  <2>2. HolderIsInside'
    BY <1>4 DEF EnterNative, IInv, TypeOK, HolderIsInside, LockPCs
  <2>3. CallsAreForHandles'
    BY <1>4 DEF EnterNative, IInv, TypeOK, CallsAreForHandles, ClosePCs
  <2>4. ReachableIsAlive'
    BY <1>4 DEF EnterNative, IInv, TypeOK, ReachableIsAlive, Reachable, InUse,
       ClosePCs
  <2>5. CloseInOrder'
    BY <1>4 DEF EnterNative, IInv, TypeOK, CloseInOrder, ClosePCs
  <2>6. NoNilHandle'
    BY <1>4 DEF EnterNative, IInv, TypeOK, NoNilHandle
  <2> QED
    BY <1>0, <2>1, <2>2, <2>3, <2>4, <2>5, <2>6 DEF IInv
<1>5. ASSUME NEW p \in Procs, LeaveNative(p) PROVE IInv'
  <2>1. PointersAreSet' /\ DestroyedIffCleared'
    BY <1>5, NativeUntouched DEF LeaveNative, IInv, nativeVars
  <2>2. HolderIsInside'
    BY <1>5 DEF LeaveNative, IInv, HolderIsInside, LockPCs
  <2>3. CallsAreForHandles'
    BY <1>5 DEF LeaveNative, IInv, CallsAreForHandles, CallPCs
  <2>4. ReachableIsAlive'
    BY <1>5 DEF LeaveNative, IInv, ReachableIsAlive, Reachable, InUse, ClosePCs
  <2>5. CloseInOrder'
    BY <1>5 DEF LeaveNative, IInv, CloseInOrder, ClosePCs
  <2>6. NoNilHandle'
    BY <1>5 DEF LeaveNative, IInv, NoNilHandle
  <2> QED
    BY <1>0, <2>1, <2>2, <2>3, <2>4, <2>5, <2>6 DEF IInv
<1>6. ASSUME NEW p \in Procs, UnlockBundle(p) PROVE IInv'
  <2>1. PointersAreSet' /\ DestroyedIffCleared'
    BY <1>6, NativeUntouched DEF UnlockBundle, IInv, nativeVars
  <2>2. HolderIsInside'
    BY <1>6 DEF UnlockBundle, IInv, TypeOK, HolderIsInside, LockPCs
  <2>3. CallsAreForHandles'
    BY <1>6 DEF UnlockBundle, IInv, CallsAreForHandles, CallPCs
  <2>4. ReachableIsAlive'
    BY <1>6 DEF UnlockBundle, IInv, ReachableIsAlive, Reachable, InUse, ClosePCs
  <2>5. CloseInOrder'
    BY <1>6 DEF UnlockBundle, IInv, CloseInOrder, ClosePCs
  <2>6. NoNilHandle'
    BY <1>6 DEF UnlockBundle, IInv, NoNilHandle
  <2> QED
    BY <1>0, <2>1, <2>2, <2>3, <2>4, <2>5, <2>6 DEF IInv
<1>7. ASSUME NEW p \in Procs, StartClose(p) PROVE IInv'
  <2>1. PointersAreSet' /\ DestroyedIffCleared'
    BY <1>7, NativeUntouched DEF StartClose, IInv, nativeVars
  <2>2. HolderIsInside'
    BY <1>7 DEF StartClose, IInv, HolderIsInside, LockPCs
  <2>3. CallsAreForHandles'
    BY <1>7 DEF StartClose, IInv, CallsAreForHandles, CallPCs
  <2>4. ReachableIsAlive'
    BY <1>7 DEF StartClose, IInv, ReachableIsAlive, Reachable
  <2>5. CloseInOrder'
    BY <1>7 DEF StartClose, IInv, TypeOK, CloseInOrder
  <2>6. NoNilHandle'
    BY <1>7 DEF StartClose, IInv, NoNilHandle
  <2> QED
    BY <1>0, <2>1, <2>2, <2>3, <2>4, <2>5, <2>6 DEF IInv
<1>8. ASSUME NEW p \in Procs, LockForClose(p) PROVE IInv'
  <2>1. PointersAreSet' /\ DestroyedIffCleared'
    BY <1>8, NativeUntouched DEF LockForClose, IInv, nativeVars
  <2>2. HolderIsInside'
    BY <1>8, NoProcAssumption DEF LockForClose, IInv, TypeOK, HolderIsInside
  <2>3. CallsAreForHandles'
    BY <1>8 DEF LockForClose, IInv, CallsAreForHandles, CallPCs
  <2>4. ReachableIsAlive'
    BY <1>8 DEF LockForClose, IInv, ReachableIsAlive, Reachable, InUse, ClosePCs
  <2>5. CloseInOrder'
    BY <1>8 DEF LockForClose, IInv, CloseInOrder, ClosePCs
  <2>6. NoNilHandle'
    BY <1>8 DEF LockForClose, IInv, NoNilHandle
  <2> QED
    BY <1>0, <2>1, <2>2, <2>3, <2>4, <2>5, <2>6 DEF IInv
<1>9. ASSUME NEW p \in Procs, CloseObject(p) PROVE IInv'
  <2>1. HolderIsInside'
    BY <1>9 DEF CloseObject, IInv, HolderIsInside, LockPCs
  <2>2. CallsAreForHandles'
    BY <1>9 DEF CloseObject, IInv, CallsAreForHandles, CallPCs
  <2>3. PointersAreSet'
    BY <1>9 DEF CloseObject, Destroy, IInv, TypeOK, PointersAreSet, Bundles
  <2>4. DestroyedIffCleared'
    BY <1>9 DEF CloseObject, Destroy, IInv, TypeOK, DestroyedIffCleared,
       Handles, Objects, PointersAreSet
  <2>5. ReachableIsAlive'
    BY <1>9 DEF CloseObject, Destroy, IInv, TypeOK, ReachableIsAlive, Bundles,
       Reachable, InUse, ClosePCs
  <2>6. CloseInOrder'
    BY <1>9 DEF CloseObject, Successor, IInv, TypeOK, CloseInOrder, Bundles,
       Handles, Objects, ClosePCs
  <2>7. NoNilHandle'
    BY <1>9 DEF CloseObject, IInv, TypeOK, NoNilHandle, Handles, Objects,
       HolderIsInside, LockPCs, CallsAreForHandles, CallPCs
  <2> QED
    BY <1>0, <2>1, <2>2, <2>3, <2>4, <2>5, <2>6, <2>7 DEF IInv
<1>10. ASSUME NEW p \in Procs, UnlockAfterClose(p) PROVE IInv'
  <2>1. PointersAreSet' /\ DestroyedIffCleared'
    BY <1>10, NativeUntouched DEF UnlockAfterClose, IInv, nativeVars
  <2>2. HolderIsInside'
    BY <1>10 DEF UnlockAfterClose, IInv, TypeOK, HolderIsInside, Bundles,
       LockPCs
  <2>3. CallsAreForHandles'
    BY <1>10 DEF UnlockAfterClose, IInv, TypeOK, CallsAreForHandles, Handles,
       Objects, CallPCs, ClosePCs
  <2>4. ReachableIsAlive'
    BY <1>10 DEF UnlockAfterClose, IInv, TypeOK, ReachableIsAlive, Reachable,
       InUse, ClosePCs
  <2>5. CloseInOrder'
    BY <1>10 DEF UnlockAfterClose, IInv, TypeOK, CloseInOrder, Bundles, ClosePCs
  <2>6. NoNilHandle'
    BY <1>10 DEF UnlockAfterClose, IInv, TypeOK, NoNilHandle, Objects,
       CallsAreForHandles
  <2> QED
    BY <1>0, <2>1, <2>2, <2>3, <2>4, <2>5, <2>6 DEF IInv
<1>11. CASE Drop
  <2>1. PointersAreSet' /\ DestroyedIffCleared'
    BY <1>11, NativeUntouched DEF Drop, IInv, nativeVars
  <2>2. HolderIsInside' /\ CallsAreForHandles' /\ CloseInOrder' /\ NoNilHandle'
    BY <1>11, CallsUntouched DEF Drop, IInv
  <2>3. ReachableIsAlive'
    BY <1>11 DEF Drop, IInv, ReachableIsAlive, Reachable
  <2> QED
    BY <1>0, <2>1, <2>2, <2>3 DEF IInv
<1>12. ASSUME NEW b \in Bundles, NEW o \in Objects, Finalize(b, o) PROVE IInv'
  <2>1. HolderIsInside' /\ CallsAreForHandles' /\ CloseInOrder' /\ NoNilHandle'
    BY <1>12, CallsUntouched DEF Finalize, IInv
  <2>2. PointersAreSet'
    BY <1>12 DEF Finalize, Destroy, IInv, PointersAreSet
  <2>3. DestroyedIffCleared'
    BY <1>12 DEF Finalize, Destroy, IInv, TypeOK, DestroyedIffCleared
  <2>4. ReachableIsAlive'
    BY <1>12 DEF Finalize, Destroy, IInv, ReachableIsAlive, Reachable, InUse
  <2> QED
    BY <1>0, <2>1, <2>2, <2>3, <2>4 DEF IInv
<1>13. CASE UNCHANGED vars
  BY <1>0, <1>13, NativeUntouched, CallsUntouched DEF vars, nativeVars, IInv,
     ReachableIsAlive, Reachable, InUse
<1>14. CASE Next
  BY <1>1, <1>2, <1>3, <1>4, <1>5, <1>6, <1>7, <1>8, <1>9, <1>10, <1>11, <1>12,
     <1>13 DEF Next, Finished
<1> QED
  BY <1>13, <1>14

(* The inductive invariant holds.                                          *)
THEOREM InvariantHolds == Spec => []IInv
<1>1. Init => IInv
  <2> SUFFICES ASSUME Init PROVE IInv
    OBVIOUS
  <2>1. TypeOK
    BY InitTypeOK
  <2>2. PICK parts \in SUBSET Handles : made = [b \in Bundles |-> parts \cup {"ctx"}]
    BY DEF Init
  <2>3. PointersAreSet /\ DestroyedIffCleared
    BY DEF Init, PointersAreSet, DestroyedIffCleared
  <2>4. CloseInOrder /\ ReachableIsAlive
    BY DEF Init, CloseInOrder, ReachableIsAlive, Reachable
  <2>5. HolderIsInside /\ CallsAreForHandles /\ NoNilHandle
    BY DEF Init, HolderIsInside, CallsAreForHandles, NoNilHandle, LockPCs,
       CallPCs
  <2> QED
    BY <2>1, <2>3, <2>4, <2>5 DEF IInv
<1> QED
  BY <1>1, InvariantStep, PTL DEF Spec

-----------------------------------------------------------------------------
(* Two native calls of one bundle would both hold its cryptoMu: the calls  *)
(* into one context are serialized.                                        *)
THEOREM CgoIsSerialized == Spec => []SerializedCgo
<1>1. IInv => SerializedCgo
  BY DEF IInv, HolderIsInside, LockPCs, SerializedCgo
<1> QED
  BY <1>1, InvariantHolds, PTL

(* A native call keeps its bundle reachable and cryptoMu taken, so neither *)
(* the collector nor a Close destroys the handle or the context under it.  *)
THEOREM NoCallUsesFreedMemory == Spec => []NoUseAfterFree
<1>1. IInv => NoUseAfterFree
  <2> SUFFICES ASSUME IInv, NEW p \in Procs, pc[p] = "native",
                      NEW o \in {co[p], "ctx"}
               PROVE  o \in made[cb[p]] /\ destroyed[cb[p]][o] = 0
    BY DEF NoUseAfterFree
  <2>1. cb[p] \in Bundles /\ o \in Objects
    BY DEF IInv, TypeOK, Objects
  <2>2. o \in set[cb[p]]
    BY <2>1 DEF IInv, NoNilHandle, CloseInOrder
  <2>3. Reachable(cb[p], o)
    BY <2>2 DEF Reachable, InUse
  <2>4. o \in ptr[cb[p]]
    BY <2>1, <2>3 DEF IInv, ReachableIsAlive
  <2> QED
    BY <2>1, <2>4 DEF IInv, PointersAreSet, DestroyedIffCleared
<1> QED
  BY <1>1, InvariantHolds, PTL

(* Whatever Close, a second Close and the finalizers do, no native object  *)
(* is destroyed twice.                                                     *)
THEOREM NothingIsFreedTwice == Spec => []NoDoubleFree
<1>1. IInv => NoDoubleFree
  BY DEF IInv, DestroyedIffCleared, NoDoubleFree
<1> QED
  BY <1>1, InvariantHolds, PTL

(* A call that passed the check under cryptoMu never meets a nil field.    *)
THEOREM NoCallOnNil == Spec => []NoNilHandle
<1>1. IInv => NoNilHandle
  BY DEF IInv
<1> QED
  BY <1>1, InvariantHolds, PTL

(* A Close that returns leaves no native object of the key set behind.     *)
THEOREM CloseFreesEverything == Spec => CloseFreesAll
<1>1. ASSUME IInv, [Next]_vars
      PROVE  [\A p \in Procs :
                pc[p] = "closeUnlock" /\ pc'[p] = "idle" =>
                  \A b \in Bundles : \A o \in made[b] : destroyed[b][o] = 1]_vars
  <2> SUFFICES ASSUME NEW p \in Procs, pc[p] = "closeUnlock", pc'[p] = "idle",
                      Next, NEW b \in Bundles, NEW o \in made[b]
               PROVE  destroyed[b][o] = 1
    BY <1>1
  <2>1. UnlockAfterClose(p)
    BY <1>1 DEF Next, IInv, TypeOK, Call, LockBundle, Recheck, EnterNative,
       LeaveNative, UnlockBundle, StartClose, LockForClose, CloseObject,
       UnlockAfterClose, Drop, Finalize, Finished
  <2>2. cb[p] = "mm"
    BY <1>1, <2>1 DEF UnlockAfterClose, IInv, TypeOK, Bundles
  <2>3. set["rmp"] = {} /\ set["mm"] = {}
    BY <1>1, <2>2 DEF IInv, CloseInOrder, ClosePCs
  <2>4. o \in Objects /\ o \notin ptr[b]
    BY <1>1, <2>3 DEF IInv, TypeOK, PointersAreSet, Bundles
  <2> QED
    BY <1>1, <2>4 DEF IInv, DestroyedIffCleared
<1> QED
  BY <1>1, InvariantHolds, PTL DEF Spec, CloseFreesAll

-----------------------------------------------------------------------------
(* Refinement: the safety half of the implementation of KeyService by      *)
(* Keys; every step of the locked implementation is a step of the service  *)
(* or invisible to it.                                                     *)

(* What the goroutine that moves asks for is all that changes in who asks  *)
(* for what.                                                               *)
LEMMA RequestsOf ==
  ASSUME NEW p \in Procs,
         \A q \in Procs \ {p} : pc'[q] = pc[q] /\ cb'[q] = cb[q] /\ co'[q] = co[q]
  PROVE  Requested' = [Requested EXCEPT ![p] = Request(p)']
<1>1. ASSUME NEW q \in Procs \ {p}
      PROVE  Request(q)' = Request(q)
  BY DEF Request
<1> QED
  BY <1>1 DEF Requested

(* A step inside a call that changes no field and no answer is invisible   *)
(* to the service.                                                         *)
LEMMA Invisible ==
  ASSUME NEW p \in Procs, UNCHANGED <<set, answer>>, Request(p)' = Request(p),
         \A q \in Procs \ {p} : pc'[q] = pc[q] /\ cb'[q] = cb[q] /\ co'[q] = co[q]
  PROVE  UNCHANGED Service!vars
<1>1. Offer' = Offer
  BY DEF Offer
<1>2. Requested' = Requested
  BY RequestsOf DEF Requested
<1> QED
  BY <1>1, <1>2 DEF Service!vars

(* A step that gives a call its answer, from what its bundle offers.       *)
LEMMA Answering ==
  ASSUME NEW p \in Procs, pc[p] \in CallPCs, pc'[p] \in CallPCs,
         UNCHANGED <<cb, co, set>>, cb[p] \in Bundles, co[p] \in Handles,
         \A q \in Procs \ {p} : pc'[q] = pc[q], answer[p] = "none",
         NEW a \in IF co[p] \in set[cb[p]] THEN {"ok", "failed"} ELSE {"unavailable"},
         answer' = [answer EXCEPT ![p] = a]
  PROVE  Service!Next
<1>1. Request(p) = <<cb[p], co[p]>> /\ Request(p)' = Request(p)
  BY DEF Request
<1>2. Requested' = Requested
  BY <1>1, RequestsOf DEF Requested
<1>3. Offer' = Offer
  BY DEF Offer
<1>4. Requested[p] = <<cb[p], co[p]>>
  BY <1>1 DEF Requested
<1>5. a \in IF Requested[p][2] \in Offer[Requested[p][1]]
           THEN {"ok", "failed"} ELSE {"unavailable"}
  BY <1>4 DEF Offer
<1>6. Service!Answer(p)
  <2>1. Requested[p] \in Service!Bundles \X Service!Services
    BY <1>4 DEF Service!Bundles, Service!Services, Bundles, Handles
  <2> QED
    BY <1>2, <1>3, <1>5, <2>1 DEF Service!Answer
<1> QED
  BY <1>6 DEF Service!Next

(* A call has its answer from the step that computes it on, not earlier.   *)
AnsweredInTime ==
  \A p \in Procs :
    /\ pc[p] \in {"lock", "check", "rlock", "native"} => answer[p] = "none"
    /\ pc[p] = "unlock" => answer[p] # "none"

(* Every step of Keys is a step of the service or a stuttering step.       *)
LEMMA StepRefines ==
  ASSUME IInv, AnsweredInTime, [Next]_vars
  PROVE  [Service!Next]_(Service!vars)
<1>0. TypeOK
  BY DEF IInv
<1>1. ASSUME NEW p \in Procs, NEW b \in Bundles, NEW h \in Handles, Call(p, b, h)
      PROVE  Service!Next
  <2>1. Requested[p] = <<>> /\ Request(p)' = <<b, h>>
    BY <1>0, <1>1 DEF Call, Request, Requested, TypeOK, CallPCs, ClosePCs
  <2>2. Requested' = [Requested EXCEPT ![p] = <<b, h>>]
    BY <1>1, <2>1, RequestsOf DEF Call
  <2>3. Offer' = Offer
    BY <1>1 DEF Call, Offer
  <2>4. Service!Ask(p, <<b, h>>)
    BY <1>1, <2>1, <2>2, <2>3 DEF Call, Service!Ask, Service!NoRequest
  <2> QED
    BY <2>4 DEF Service!Next, Service!Requests, Service!NoRequest,
       Service!Bundles, Service!Services, Bundles, Handles
<1>2. ASSUME NEW p \in Procs, LockBundle(p) PROVE UNCHANGED Service!vars
  BY <1>0, <1>2, Invisible DEF LockBundle, Request, TypeOK, CallPCs, ClosePCs
<1>3. ASSUME NEW p \in Procs, Recheck(p) PROVE [Service!Next]_(Service!vars)
  <2>1. CASE co[p] \in set[cb[p]]
    BY <1>0, <1>3, <2>1, Invisible DEF Recheck, Request, TypeOK, CallPCs,
       ClosePCs
  <2>2. CASE co[p] \notin set[cb[p]]
    <3>1. pc[p] \in CallPCs /\ pc'[p] \in CallPCs /\ co[p] \in Handles /\ cb[p] \in Bundles
      BY <1>3 DEF Recheck, CallPCs, IInv, CallsAreForHandles, TypeOK
    <3>2. answer[p] = "none" /\ answer' = [answer EXCEPT ![p] = "unavailable"]
      BY <1>3, <2>2 DEF Recheck, AnsweredInTime
    <3>3. \A q \in Procs \ {p} : pc'[q] = pc[q]
      BY <1>0, <1>3 DEF Recheck, TypeOK
    <3> QED
      BY <1>3, <3>1, <3>2, <3>3, Answering DEF Recheck
  <2> QED
    BY <2>1, <2>2
<1>4. ASSUME NEW p \in Procs, EnterNative(p) PROVE UNCHANGED Service!vars
  <2>1. co[p] \in ptr[cb[p]]
    BY <1>4 DEF EnterNative, IInv, NoNilHandle, ReachableIsAlive, Reachable,
       InUse, TypeOK
  <2> QED
    BY <1>0, <1>4, <2>1, Invisible DEF EnterNative, Request, TypeOK, CallPCs,
       ClosePCs
<1>5. ASSUME NEW p \in Procs, LeaveNative(p) PROVE Service!Next
  <2>1. pc[p] \in CallPCs /\ pc'[p] \in CallPCs /\ co[p] \in Handles /\ cb[p] \in Bundles
    BY <1>5 DEF LeaveNative, CallPCs, IInv, CallsAreForHandles, TypeOK
  <2>2. PICK a \in {"ok", "failed"} : answer' = [answer EXCEPT ![p] = a]
    BY <1>5 DEF LeaveNative
  <2>3. answer[p] = "none" /\ co[p] \in set[cb[p]]
    BY <1>5 DEF LeaveNative, AnsweredInTime, IInv, NoNilHandle
  <2>4. \A q \in Procs \ {p} : pc'[q] = pc[q]
    BY <1>5 DEF LeaveNative
  <2> QED
    BY <1>5, <2>1, <2>3, <2>4, Answering DEF LeaveNative
<1>6. ASSUME NEW p \in Procs, UnlockBundle(p) PROVE Service!Next
  <2>1. Requested[p] = <<cb[p], co[p]>> /\ Request(p)' = <<>>
    BY <1>0, <1>6 DEF UnlockBundle, Request, Requested, TypeOK, CallPCs,
       ClosePCs
  <2>2. Requested' = [Requested EXCEPT ![p] = <<>>]
    BY <1>6, <2>1, RequestsOf DEF UnlockBundle
  <2>3. Offer' = Offer
    BY <1>6 DEF UnlockBundle, Offer
  <2>4. cb[p] \in Bundles /\ co[p] \in Handles /\ answer[p] # "none"
    BY <1>6 DEF UnlockBundle, IInv, CallsAreForHandles, CallPCs, AnsweredInTime,
       TypeOK
  <2>5. Requested[p] \in Service!Bundles \X Service!Services
    BY <2>1, <2>4 DEF Service!Bundles, Service!Services, Bundles, Handles
  <2>6. Service!Return(p)
    BY <1>6, <2>2, <2>3, <2>4, <2>5 DEF UnlockBundle, Service!Return,
       Service!NoRequest
  <2> QED
    BY <2>6 DEF Service!Next
<1>7. ASSUME NEW p \in Procs, StartClose(p) PROVE Service!Next
  <2>1. Requested[p] = <<>> /\ Request(p)' = <<"close">>
    BY <1>0, <1>7 DEF StartClose, Request, Requested, TypeOK, CallPCs, ClosePCs
  <2>2. Requested' = [Requested EXCEPT ![p] = <<"close">>]
    BY <1>7, <2>1, RequestsOf DEF StartClose
  <2>3. Offer' = Offer
    BY <1>7 DEF StartClose, Offer
  <2>4. Service!Ask(p, <<"close">>)
    BY <1>7, <2>1, <2>2, <2>3 DEF StartClose, Service!Ask, Service!NoRequest
  <2>5. <<"close">> \in Service!Requests \ {Service!NoRequest}
    BY DEF Service!Requests, Service!NoRequest, Service!CloseRequest
  <2> QED
    BY <2>4, <2>5 DEF Service!Next
<1>8. ASSUME NEW p \in Procs, LockForClose(p) PROVE UNCHANGED Service!vars
  BY <1>0, <1>8, Invisible DEF LockForClose, Request, TypeOK, CallPCs, ClosePCs
<1>9. ASSUME NEW p \in Procs, CloseObject(p) PROVE [Service!Next]_(Service!vars)
  <2>1. Request(p) = <<"close">> /\ Request(p)' = <<"close">>
    BY <1>9 DEF CloseObject, Request, CallPCs, ClosePCs
  <2>2. Requested' = Requested /\ Requested[p] = <<"close">>
    BY <1>0, <1>9, <2>1, RequestsOf DEF CloseObject, TypeOK, Requested
  <2>3. CASE co[p] \in set[cb[p]] /\ co[p] \in Handles
    <3>1. Offer' = [Offer EXCEPT ![cb[p]] = @ \ {co[p]}] /\ co[p] \in Offer[cb[p]]
      BY <1>0, <1>9, <2>3 DEF CloseObject, Offer, TypeOK
    <3>2. cb[p] \in Service!Bundles /\ co[p] \in Service!Services
      BY <1>0, <2>3 DEF TypeOK, Service!Bundles, Service!Services, Bundles,
         Handles
    <3>3. Service!Withdraw(p, cb[p], co[p])
      BY <1>9, <2>2, <3>1 DEF CloseObject, Service!Withdraw,
         Service!CloseRequest
    <3> QED
      BY <3>2, <3>3 DEF Service!Next
  <2>4. CASE ~(co[p] \in set[cb[p]] /\ co[p] \in Handles)
    <3>1. ASSUME NEW b \in Bundles
          PROVE  set'[b] \cap Handles = set[b] \cap Handles
      <4>1. set' = set \/ set' = [set EXCEPT ![cb[p]] = set[cb[p]] \ {co[p]}]
        BY <1>9 DEF CloseObject
      <4>2. set[b] \cap Handles = (set[b] \ {co[p]}) \cap Handles \/ set' = set \/ b # cb[p]
        BY <2>4
      <4> QED
        BY <1>0, <4>1, <4>2 DEF TypeOK
    <3>2. Offer' = Offer
      BY <3>1 DEF Offer
    <3> QED
      BY <1>9, <2>2, <3>2 DEF CloseObject, Service!vars
  <2> QED
    BY <2>3, <2>4
<1>10. ASSUME NEW p \in Procs, UnlockAfterClose(p) PROVE [Service!Next]_(Service!vars)
  <2>1. CASE cb[p] = "rmp"
    BY <1>0, <1>10, <2>1, Invisible DEF UnlockAfterClose, Request, TypeOK,
       CallPCs, ClosePCs
  <2>2. CASE cb[p] = "mm"
    <3>1. Requested[p] = <<"close">> /\ Request(p)' = <<>>
      BY <1>0, <1>10, <2>2 DEF UnlockAfterClose, Request, Requested, TypeOK,
         CallPCs, ClosePCs
    <3>2. Requested' = [Requested EXCEPT ![p] = <<>>]
      BY <1>0, <1>10, <3>1, RequestsOf DEF UnlockAfterClose, TypeOK
    <3>3. set["mm"] = {} /\ set["rmp"] = {}
      BY <1>10, <2>2 DEF UnlockAfterClose, IInv, CloseInOrder, ClosePCs
    <3>4. Offer = [b \in Service!Bundles |-> {}]
      BY <3>3 DEF Offer, Bundles, Service!Bundles
    <3>5. Offer' = Offer
      BY <1>10 DEF UnlockAfterClose, Offer
    <3>6. Service!CloseReturns(p)
      BY <1>10, <3>1, <3>2, <3>4, <3>5 DEF UnlockAfterClose,
         Service!CloseReturns, Service!CloseRequest, Service!NoRequest
    <3> QED
      BY <3>6 DEF Service!Next
  <2> QED
    BY <1>0, <2>1, <2>2 DEF TypeOK, Bundles
<1>11. ASSUME UNCHANGED <<pc, cb, co, set, answer>> PROVE UNCHANGED Service!vars
  BY <1>11 DEF Service!vars, Offer, Requested, Request
<1>12. CASE Drop
  BY <1>11, <1>12 DEF Drop
<1>13. ASSUME NEW b \in Bundles, NEW o \in Objects, Finalize(b, o)
       PROVE  UNCHANGED Service!vars
  BY <1>11, <1>13 DEF Finalize
<1>14. CASE UNCHANGED vars
  BY <1>11, <1>14 DEF vars
<1>15. CASE Next
  BY <1>1, <1>2, <1>3, <1>4, <1>5, <1>6, <1>7, <1>8, <1>9, <1>10, <1>12, <1>13,
     <1>14 DEF Next, Finished
<1> QED
  BY <1>14, <1>15

(* What OpenKeys returns offers what the service may start with.           *)
LEMMA InitRefines ==
  ASSUME Init
  PROVE  Service!Init
<1>1. PICK parts \in SUBSET Handles : made = [b \in Bundles |-> parts \cup {"ctx"}]
  BY DEF Init
<1>2. Offer = [b \in Service!Bundles |-> parts]
  BY <1>1 DEF Init, Offer, Bundles, Handles, Service!Bundles
<1>3. Requested = [p \in Procs |-> Service!NoRequest]
  BY DEF Init, Requested, Request, CallPCs, ClosePCs, Service!NoRequest
<1> QED
  BY <1>2, <1>3 DEF Init, Service!Init, Service!Services, Handles

(* Keys implements the safety part of KeyService.                          *)
THEOREM KeysRefineService == Spec => Service!Init /\ [][Service!Next]_(Service!vars)
<1>1. Init => AnsweredInTime
  BY DEF Init, AnsweredInTime
<1>2. ASSUME IInv, AnsweredInTime, [Next]_vars PROVE AnsweredInTime'
  BY <1>2 DEF IInv, TypeOK, AnsweredInTime, Next, vars, Call, LockBundle,
     Recheck, EnterNative, LeaveNative, UnlockBundle, StartClose, LockForClose,
     CloseObject, UnlockAfterClose, Drop, Finalize, Finished
<1> QED
  BY <1>1, <1>2, InitRefines, StepRefines, InvariantHolds, PTL DEF Spec
=============================================================================
