-------------------------------- MODULE Keys --------------------------------
(***************************************************************************)
(* One opened *Keys shared by goroutines: its two bundles (RMP, MM), each  *)
(* a native context with an encryptor and a decryptor built from it, the   *)
(* bundle's cryptoMu, the RWMutex inside each handle, Close, and the       *)
(* garbage collector that finalizes whatever nobody can reach any more.    *)
(* A native call is a step that starts and a step that ends, so that other *)
(* goroutines and the finalizers run in between.                           *)
(***************************************************************************)
EXTENDS Naturals

CONSTANTS
  Procs,    \* the goroutines
  NoProc    \* the holder of a free mutex

ASSUME NoProcAssumption == NoProc \notin Procs

Bundles == {"rmp", "mm"}
Handles == {"enc", "dec"}
Objects == Handles \cup {"ctx"}

VARIABLES
  pc,         \* pc[p]: where goroutine p is
  cb,         \* cb[p]: the bundle p works on
  co,         \* co[p]: the object of cb[p] that p uses or is about to close
  answer,     \* answer[p]: what the latest call of p answered
  held,       \* held[b]: the goroutine that holds cryptoMu of b
  made,       \* made[b]: the native objects OpenKeys built for b
  set,        \* set[b]: the fields enc, dec, ckks of b that are not nil
  ptr,        \* ptr[b]: the objects of b whose wrapper still has its C pointer
  destroyed,  \* destroyed[b][o]: how often the native object was destroyed
  finalized,  \* finalized[b]: the objects of b whose finalizer has run
  dropped     \* the program has dropped its last reference to the *Keys

callVars == <<pc, cb, co, answer>>
nativeVars == <<made, set, ptr, destroyed, finalized>>
vars == <<pc, cb, co, answer, held, made, set, ptr, destroyed,
          finalized, dropped>>

CallPCs == {"lock", "check", "rlock", "native", "unlock"}
ClosePCs == {"closeLock", "closing", "closeUnlock"}

TypeOK ==
  /\ pc \in [Procs -> {"idle"} \cup CallPCs \cup ClosePCs]
  /\ cb \in [Procs -> Bundles]
  /\ co \in [Procs -> Objects]
  /\ answer \in [Procs -> {"none", "ok", "failed", "unavailable"}]
  /\ held \in [Bundles -> Procs \cup {NoProc}]
  /\ made \in [Bundles -> SUBSET Objects]
  /\ set \in [Bundles -> SUBSET Objects]
  /\ ptr \in [Bundles -> SUBSET Objects]
  /\ destroyed \in [Bundles -> [Objects -> Nat]]
  /\ finalized \in [Bundles -> SUBSET Objects]
  /\ dropped \in BOOLEAN

-----------------------------------------------------------------------------
(* OpenKeys: both bundles get a context and, of the encryptor and the      *)
(* decryptor, those WithKeyParts asked for.                                *)
Init ==
  /\ \E parts \in SUBSET Handles :
       made = [b \in Bundles |-> parts \cup {"ctx"}]
  /\ set = made
  /\ ptr = made
  /\ destroyed = [b \in Bundles |-> [o \in Objects |-> 0]]
  /\ finalized = [b \in Bundles |-> {}]
  /\ pc = [p \in Procs |-> "idle"]
  /\ cb = [p \in Procs |-> "rmp"]
  /\ co = [p \in Procs |-> "enc"]
  /\ answer = [p \in Procs |-> "none"]
  /\ held = [b \in Bundles |-> NoProc]
  /\ dropped = FALSE

(* EncryptFlat <<rmp, enc>>, EncryptClustered <<mm, enc>>,                 *)
(* DecryptResult <<rmp, dec>>, DecryptClustered <<mm, dec>>.               *)
Call(p, b, h) ==
  /\ pc[p] = "idle"
  /\ ~dropped
  /\ pc' = [pc EXCEPT ![p] = "lock"]
  /\ cb' = [cb EXCEPT ![p] = b]
  /\ co' = [co EXCEPT ![p] = h]
  /\ answer' = [answer EXCEPT ![p] = "none"]
  /\ UNCHANGED <<held, made, set, ptr, destroyed, finalized, dropped>>

(* Mutant: the native calls of a bundle are not serialized.                *)
LockBundleFreely(p) ==
  /\ pc[p] = "lock"
  /\ held' = [held EXCEPT ![cb[p]] = p]
  /\ pc' = [pc EXCEPT ![p] = "check"]
  /\ UNCHANGED <<cb, co, answer, made, set, ptr, destroyed, finalized,
                 dropped>>

LockBundle(p) ==
  /\ pc[p] = "lock"
  /\ held[cb[p]] = NoProc
  /\ held' = [held EXCEPT ![cb[p]] = p]
  /\ pc' = [pc EXCEPT ![p] = "check"]
  /\ UNCHANGED <<cb, co, answer, made, set, ptr, destroyed, finalized,
                 dropped>>

(* Mutant: the nil check made before the lock is trusted.                  *)
RecheckNothing(p) ==
  /\ pc[p] = "check"
  /\ pc' = [pc EXCEPT ![p] = "rlock"]
  /\ UNCHANGED <<cb, co, answer, held, made, set, ptr, destroyed, finalized,
                 dropped>>

(* The nil check repeated under cryptoMu; ErrKeysNotForEncrypt or          *)
(* ErrKeysNotForDecrypt when the field is nil.                             *)
Recheck(p) ==
  /\ pc[p] = "check"
  /\ IF co[p] \in set[cb[p]]
     THEN pc' = [pc EXCEPT ![p] = "rlock"] /\ UNCHANGED answer
     ELSE /\ pc' = [pc EXCEPT ![p] = "unlock"]
          /\ answer' = [answer EXCEPT ![p] = "unavailable"]
  /\ UNCHANGED <<cb, co, held, made, set, ptr, destroyed, finalized,
                 dropped>>

(* RLock of the handle, its own "closed" check, and the native call        *)
(* starts; the goroutine is a reader until it returns.  A reader waits for *)
(* no one here: the writers are Close, which holds cryptoMu, and the       *)
(* finalizer, which runs on unreachable handles.                           *)
EnterNative(p) ==
  /\ pc[p] = "rlock"
  /\ IF co[p] \in ptr[cb[p]]
     THEN /\ pc' = [pc EXCEPT ![p] = "native"]
          /\ UNCHANGED answer
     ELSE /\ pc' = [pc EXCEPT ![p] = "unlock"]
          /\ answer' = [answer EXCEPT ![p] = "failed"]
  /\ UNCHANGED <<cb, co, held, made, set, ptr, destroyed, finalized, dropped>>

(* The native call returns, with a result or a status; RUnlock.            *)
LeaveNative(p) ==
  /\ pc[p] = "native"
  /\ \E a \in {"ok", "failed"} : answer' = [answer EXCEPT ![p] = a]
  /\ pc' = [pc EXCEPT ![p] = "unlock"]
  /\ UNCHANGED <<cb, co, held, made, set, ptr, destroyed, finalized, dropped>>

UnlockBundle(p) ==
  /\ pc[p] = "unlock"
  /\ held' = [held EXCEPT ![cb[p]] = NoProc]
  /\ pc' = [pc EXCEPT ![p] = "idle"]
  /\ UNCHANGED <<cb, co, answer, made, set, ptr, destroyed, finalized,
                 dropped>>

-----------------------------------------------------------------------------
(* Keys.Close: the RMP bundle, then the MM bundle.                         *)
StartClose(p) ==
  /\ pc[p] = "idle"
  /\ ~dropped
  /\ pc' = [pc EXCEPT ![p] = "closeLock"]
  /\ cb' = [cb EXCEPT ![p] = "rmp"]
  /\ co' = [co EXCEPT ![p] = "enc"]
  /\ answer' = [answer EXCEPT ![p] = "none"]
  /\ UNCHANGED <<held, made, set, ptr, destroyed, finalized, dropped>>

LockForClose(p) ==
  /\ pc[p] = "closeLock"
  /\ held[cb[p]] = NoProc
  /\ held' = [held EXCEPT ![cb[p]] = p]
  /\ pc' = [pc EXCEPT ![p] = "closing"]
  /\ UNCHANGED <<cb, co, answer, made, set, ptr, destroyed, finalized,
                 dropped>>

(* No call is inside the handle: what the exclusive Lock of a handle's     *)
(* Close waits for.  The context has no lock of its own.                   *)
NoReader(b, o) ==
  o \in Handles => ~\E p \in Procs : pc[p] = "native" /\ cb[p] = b /\ co[p] = o

(* Mutant: Close does not look whether the pointer is nil already.         *)
DestroyAgain(b, o) ==
  /\ ptr' = [ptr EXCEPT ![b] = @ \ {o}]
  /\ destroyed' = [destroyed EXCEPT ![b][o] = @ + 1]

(* Close of one wrapper: destroy the native object once, nil the pointer.  *)
Destroy(b, o) ==
  /\ ptr' = [ptr EXCEPT ![b] = @ \ {o}]
  /\ destroyed' = [destroyed EXCEPT ![b][o] = IF o \in ptr[b] THEN @ + 1 ELSE @]

(* Mutant: Close frees the context before the decryptor built from it.     *)
ContextFirst(o) == IF o = "enc" THEN "ctx" ELSE "dec"

(* bundle.close closes and nils enc, then dec, then ckks.                  *)
Successor(o) == IF o = "enc" THEN "dec" ELSE "ctx"

CloseObject(p) ==
  /\ pc[p] = "closing"
  /\ IF co[p] \in set[cb[p]]
     THEN /\ NoReader(cb[p], co[p])
          /\ Destroy(cb[p], co[p])
          /\ set' = [set EXCEPT ![cb[p]] = @ \ {co[p]}]
     ELSE UNCHANGED <<ptr, destroyed, set>>
  /\ co' = [co EXCEPT ![p] = Successor(@)]
  /\ pc' = [pc EXCEPT ![p] = IF co[p] = "ctx" THEN "closeUnlock" ELSE @]
  /\ UNCHANGED <<cb, answer, held, made, finalized, dropped>>

(* Mutant: Close is done after the RMP bundle.                             *)
UnlockAfterRmp(p) ==
  /\ pc[p] = "closeUnlock"
  /\ held' = [held EXCEPT ![cb[p]] = NoProc]
  /\ pc' = [pc EXCEPT ![p] = "idle"]
  /\ UNCHANGED <<cb, co, answer, made, set, ptr, destroyed, finalized, dropped>>

UnlockAfterClose(p) ==
  /\ pc[p] = "closeUnlock"
  /\ held' = [held EXCEPT ![cb[p]] = NoProc]
  /\ IF cb[p] = "rmp"
     THEN /\ pc' = [pc EXCEPT ![p] = "closeLock"]
          /\ cb' = [cb EXCEPT ![p] = "mm"]
          /\ co' = [co EXCEPT ![p] = "enc"]
     ELSE pc' = [pc EXCEPT ![p] = "idle"] /\ UNCHANGED <<cb, co>>
  /\ UNCHANGED <<answer, made, set, ptr, destroyed, finalized, dropped>>

-----------------------------------------------------------------------------
Drop ==
  /\ ~dropped
  /\ dropped' = TRUE
  /\ UNCHANGED <<pc, cb, co, answer, held, made, set, ptr, destroyed,
                 finalized>>

(* Mutant: only a Close keeps what it works on reachable; a call hands the *)
(* C pointers over and no longer refers to the bundle.                     *)
InUseByClose(b) ==
  \E p \in Procs : pc[p] \in ClosePCs /\ (cb[p] = b \/ cb[p] = "rmp")

(* A call keeps its bundle reachable to its end, through the deferred      *)
(* Unlock of the bundle's cryptoMu; a Close of the RMP bundle still has    *)
(* the MM bundle to close.                                                 *)
InUse(b) ==
  \E p \in Procs :
    \/ pc[p] # "idle" /\ cb[p] = b
    \/ pc[p] \in ClosePCs /\ cb[p] = "rmp"

Reachable(b, o) == (~dropped \/ InUse(b)) /\ o \in set[b]

(* The runtime finalizes an unreachable wrapper by its own Close, once, in *)
(* any order.                                                              *)
Finalize(b, o) ==
  /\ o \in made[b] \ finalized[b]
  /\ ~Reachable(b, o)
  /\ NoReader(b, o)
  /\ Destroy(b, o)
  /\ finalized' = [finalized EXCEPT ![b] = @ \cup {o}]
  /\ UNCHANGED <<pc, cb, co, answer, held, made, set, dropped>>

(* The program is done with the keys and everything is collected.          *)
Finished ==
  /\ dropped
  /\ \A p \in Procs : pc[p] = "idle"
  /\ finalized = made
  /\ UNCHANGED vars

Next ==
  \/ \E p \in Procs :
       \/ \E b \in Bundles, h \in Handles : Call(p, b, h)
       \/ LockBundle(p)
       \/ Recheck(p)
       \/ EnterNative(p)
       \/ LeaveNative(p)
       \/ UnlockBundle(p)
       \/ StartClose(p)
       \/ LockForClose(p)
       \/ CloseObject(p)
       \/ UnlockAfterClose(p)
  \/ Drop
  \/ \E b \in Bundles, o \in Objects : Finalize(b, o)
  \/ Finished

(* sync.Mutex hands the lock to a waiter that has starved for 1 ms, so a   *)
(* goroutine that keeps finding the mutex free again gets it (strong       *)
(* fairness); every other step of a call runs to its end, the native call  *)
(* included (weak fairness).  Starting a call, dropping the keys and the   *)
(* garbage collector are never forced.                                     *)
Fairness ==
  \A p \in Procs :
    /\ SF_vars(LockBundle(p) \/ LockForClose(p))
    /\ WF_vars(Recheck(p) \/ EnterNative(p) \/ LeaveNative(p) \/ UnlockBundle(p))
    /\ WF_vars(CloseObject(p) \/ UnlockAfterClose(p))

Spec == Init /\ [][Next]_vars /\ Fairness

-----------------------------------------------------------------------------
(* Two native calls on one context fault the process: at most one call of  *)
(* a bundle is inside the library.                                         *)
SerializedCgo ==
  \A p, q \in Procs :
    pc[p] = "native" /\ pc[q] = "native" /\ cb[p] = cb[q] => p = q

(* Neither the handle nor the context under a native call in progress has  *)
(* been destroyed, by a Close, by the collector or by both.                *)
NoUseAfterFree ==
  \A p \in Procs :
    pc[p] = "native" =>
      \A o \in {co[p], "ctx"} : o \in made[cb[p]] /\ destroyed[cb[p]][o] = 0

(* Close, a concurrent Close and the finalizer destroy an object once.     *)
NoDoubleFree == \A b \in Bundles, o \in Objects : destroyed[b][o] <= 1

(* A goroutine that passed the check dereferences a field that is still    *)
(* set.                                                                    *)
NoNilHandle ==
  \A p \in Procs : pc[p] \in {"rlock", "native"} => co[p] \in set[cb[p]]

(* When a Close returns, also one that found another Close at work, every  *)
(* native object of both bundles has been destroyed.                       *)
CloseFreesAll ==
  [][\A p \in Procs :
       pc[p] = "closeUnlock" /\ pc'[p] = "idle" =>
         \A b \in Bundles : \A o \in made[b] : destroyed[b][o] = 1]_vars

(* Why they hold, the parts of an inductive invariant.                     *)
LockPCs == {"check", "rlock", "native", "unlock", "closing", "closeUnlock"}

HolderIsInside == \A p \in Procs : pc[p] \in LockPCs => held[cb[p]] = p

CallsAreForHandles == \A p \in Procs : pc[p] \in CallPCs => co[p] \in Handles

(* A wrapper loses its pointer at the latest when its field is nilled, and *)
(* the object was then destroyed, once.                                    *)
PointersAreSet == \A b \in Bundles : ptr[b] \subseteq set[b] /\ set[b] \subseteq made[b]

DestroyedIffCleared ==
  \A b \in Bundles, o \in Objects :
    destroyed[b][o] = IF o \in made[b] \ ptr[b] THEN 1 ELSE 0

(* The collector leaves alone what a goroutine can still reach.            *)
ReachableIsAlive ==
  \A b \in Bundles, o \in Objects : Reachable(b, o) => o \in ptr[b]

(* Close works down enc, dec, ckks, so the context outlives its handles.   *)
CloseInOrder ==
  /\ \A b \in Bundles : set[b] # {} => "ctx" \in set[b]
  /\ \A p \in Procs :
       /\ pc[p] = "closeLock" => co[p] = "enc"
       /\ pc[p] = "closing" /\ co[p] # "enc" => "enc" \notin set[cb[p]]
       /\ pc[p] = "closing" /\ co[p] = "ctx" => "dec" \notin set[cb[p]]
       /\ pc[p] = "closeUnlock" => set[cb[p]] = {}
       /\ pc[p] \in ClosePCs /\ cb[p] = "mm" => set["rmp"] = {}

IInv ==
  /\ TypeOK
  /\ HolderIsInside
  /\ CallsAreForHandles
  /\ PointersAreSet
  /\ DestroyedIffCleared
  /\ ReachableIsAlive
  /\ CloseInOrder
  /\ NoNilHandle

Request(p) ==
  CASE pc[p] = "idle"    -> <<>>
    [] pc[p] \in ClosePCs -> <<"close">>
    [] pc[p] \in CallPCs  -> <<cb[p], co[p]>>

Offer == [b \in Bundles |-> set[b] \cap Handles]
Requested == [p \in Procs |-> Request(p)]

Service ==
  INSTANCE KeyService WITH
    offer <- Offer,
    request <- Requested,
    answer <- answer

(* The locks, the native library and the collector together implement the  *)
(* key service, its liveness included.                                     *)
ImplementsKeyService == Service!Spec
=============================================================================
