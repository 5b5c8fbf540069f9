-------------------------- MODULE NativeErrorsProofs --------------------------
(***************************************************************************)
(* An error carries the message of its own native call, for any number of  *)
(* goroutines, threads and calls.  What makes it true: a goroutine past    *)
(* pinThread is pinned, a pinned one runs, and no two run on one thread.   *)
(***************************************************************************)
EXTENDS NativeErrors, SequenceTheorems, TLAPS

One(b) == IF b THEN 1 ELSE 0
Inside(g) == pc[g] \in {"native", "read", "unpin"}

(* LockOSThread calls are undone once each, the caller's own included.     *)
PinsCounted == \A g \in Goroutines : pins[g] = One(owns[g]) + One(Inside(g))

PinnedRuns == \A g \in Goroutines : pins[g] > 0 => Running(g)

OneEach == \A g, h \in Goroutines : g # h /\ Running(g) => on[g] # on[h]

CallIsLeft == \A g \in Goroutines : pc[g] \in {"pin", "native", "read"} => todo[g] # <<>>

(* Until it is read, the message stays on the thread the goroutine is on.  *)
MessageWaits ==
  \A g \in Goroutines : pc[g] = "read" => message[on[g]][Head(todo[g])] = Text(g)

NotYetFailed == \A g \in Goroutines : pc[g] \in {"pin", "native"} => ~failed[g]

IInv ==
  /\ TypeOK
  /\ PinsCounted
  /\ PinnedRuns
  /\ OneEach
  /\ CallIsLeft
  /\ MessageWaits
  /\ NotYetFailed
  /\ OwnMessage

-----------------------------------------------------------------------------
(* Every operation makes native calls, of the three libraries.             *)
LEMMA OperationsAreCalls ==
  \A operation \in Operations : operation \in Seq(Libraries) /\ operation # <<>>
<1>1. NewCKKSContext \in Seq(Libraries) /\ NewCKKSContext # <<>>
  BY DEF NewCKKSContext, Libraries
<1>2. NewEncryptor \in Seq(Libraries) /\ NewEncryptor # <<>>
  BY DEF NewEncryptor, Libraries
<1>3. NewDecryptor \in Seq(Libraries) /\ NewDecryptor # <<>>
  BY DEF NewDecryptor, Libraries
<1>4. WrapUnwrap \in Seq(Libraries) /\ WrapUnwrap # <<>>
  BY DEF WrapUnwrap, Libraries
<1>5. Generate \in Seq(Libraries) /\ Generate # <<>>
  BY DEF Generate, Libraries
<1>6. EncryptSingle \in Seq(Libraries) /\ EncryptSingle # <<>>
  BY DEF EncryptSingle, Libraries
<1>7. EncryptRow \in Seq(Libraries) /\ EncryptRow # <<>>
  BY DEF EncryptRow, Libraries
<1>8. DecryptSearchResult \in Seq(Libraries) /\ DecryptSearchResult # <<>>
  BY DEF DecryptSearchResult, Libraries
<1>. QED
  BY <1>1, <1>2, <1>3, <1>4, <1>5, <1>6, <1>7, <1>8 DEF Operations

(* A sequence of native calls has a first one and the others.              *)
LEMMA CallsLeft ==
  ASSUME NEW s \in Seq(Libraries), s # <<>>
  PROVE  Head(s) \in Libraries /\ Tail(s) \in Seq(Libraries)
BY HeadTailProperties

(* How often a goroutine is pinned.                                        *)
LEMMA Pins ==
  ASSUME IInv, NEW g \in Goroutines
  PROVE  /\ Inside(g) => pins[g] > 0
         /\ owns[g] => pins[g] > 0
         /\ pins[g] > 0 => Running(g)
         /\ ~Inside(g) => pins[g] \in 0..1
<1>1. pins[g] = One(owns[g]) + One(Inside(g))
  BY DEF IInv, PinsCounted
<1>2. One(owns[g]) \in 0..1 /\ (owns[g] => One(owns[g]) = 1)
  BY DEF One
<1>3. /\ One(Inside(g)) \in 0..1
      /\ Inside(g) => One(Inside(g)) = 1
      /\ ~Inside(g) => One(Inside(g)) = 0
  BY DEF One
<1>. QED
  BY <1>1, <1>2, <1>3 DEF IInv, PinnedRuns

-----------------------------------------------------------------------------
(* Every step keeps the types.                                             *)
LEMMA TypeStep ==
  ASSUME IInv, [Next]_vars
  PROVE  TypeOK'
<1> USE MaxCallsAssumption DEF TypeOK
<1>. TypeOK
  BY DEF IInv
<1>1. ASSUME NEW g \in Goroutines, Preempt(g) PROVE TypeOK'
  BY <1>1 DEF Preempt, callVars
<1>2. ASSUME NEW g \in Goroutines, NEW t \in Threads, Schedule(g, t) PROVE TypeOK'
  BY <1>2 DEF Schedule, callVars
<1>3. ASSUME NEW g \in Goroutines, CallerPins(g) PROVE TypeOK'
  <2>1. pins'[g] \in 0..2 /\ pins' = [pins EXCEPT ![g] = pins'[g]]
    BY <1>3 DEF CallerPins, IInv, PinsCounted, One, Inside
  <2>. QED
    BY <1>3, <2>1 DEF CallerPins, callVars
<1>4. ASSUME NEW g \in Goroutines, Begin(g) PROVE TypeOK'
  <2>1. calls' \in [Goroutines -> 0..MaxCalls]
    BY <1>4 DEF Begin
  <2>2. todo' \in [Goroutines -> Seq(Libraries)]
    BY <1>4, OperationsAreCalls DEF Begin
  <2>3. error' \in [Goroutines -> Messages]
    BY <1>4 DEF Begin, Messages
  <2>. QED
    BY <1>4, <2>1, <2>2, <2>3 DEF Begin, Goto
<1>5. ASSUME NEW g \in Goroutines, pinThread(g) PROVE TypeOK'
  <2>1. pins[g] \in 0..1
    BY <1>5, Pins DEF pinThread, Inside
  <2>. QED
    BY <1>5, <2>1 DEF pinThread, Goto
<1>6. ASSUME NEW g \in Goroutines, CallNative(g) PROVE TypeOK'
  <2>1. todo[g] \in Seq(Libraries) /\ todo[g] # <<>>
    BY <1>6 DEF CallNative, IInv, CallIsLeft
  <2>2. Head(todo[g]) \in Libraries /\ Tail(todo[g]) \in Seq(Libraries)
    BY <2>1, CallsLeft
  <2>3. Text(g) \in Messages /\ NoMessage \in Messages
    BY DEF Text, Messages
  <2>4. \E m \in Messages : message' = [message EXCEPT ![on[g]][Head(todo[g])] = m]
    BY <1>6, <2>3 DEF CallNative, runGuarded
  <2>5. message' \in [Threads -> [Libraries -> Messages]]
    <3>1. PICK m \in Messages : message' = [message EXCEPT ![on[g]][Head(todo[g])] = m]
      BY <2>4
    <3>2. on[g] \in Threads /\ message[on[g]] \in [Libraries -> Messages]
      BY <1>6 DEF CallNative, Running
    <3>3. [message[on[g]] EXCEPT ![Head(todo[g])] = m] \in [Libraries -> Messages]
      BY <2>2, <3>2
    <3>4. message' = [message EXCEPT ![on[g]] = [message[on[g]] EXCEPT ![Head(todo[g])] = m]]
      BY <3>1
    <3>. QED
      BY <3>2, <3>3, <3>4
  <2>6. todo' \in [Goroutines -> Seq(Libraries)]
    BY <1>6, <2>2 DEF CallNative
  <2>. QED
    BY <1>6, <2>5, <2>6 DEF CallNative, Goto
<1>7. ASSUME NEW g \in Goroutines, ReadLastError(g) PROVE TypeOK'
  <2>1. Head(todo[g]) \in Libraries
    BY <1>7, CallsLeft DEF ReadLastError, IInv, CallIsLeft
  <2>. QED
    BY <1>7, <2>1 DEF ReadLastError, Running, Goto
<1>8. ASSUME NEW g \in Goroutines, Unpin(g) PROVE TypeOK'
  <2>1. pins' \in [Goroutines -> 0..2]
    BY <1>8 DEF Unpin, IInv, PinsCounted, One, Inside
  <2>2. todo' \in [Goroutines -> Seq(Libraries)]
    BY <1>8, EmptySeq DEF Unpin
  <2>. QED
    BY <1>8, <2>1, <2>2 DEF Unpin, Goto
<1>9. CASE UNCHANGED vars
  BY <1>9 DEF vars
<1> HIDE DEF TypeOK
<1>. QED
  BY <1>1, <1>2, <1>3, <1>4, <1>5, <1>6, <1>7, <1>8, <1>9 DEF Next

(* Every step keeps the pins, and what they mean for the threads.          *)
LEMMA PinsStep ==
  ASSUME IInv, [Next]_vars
  PROVE  PinsCounted' /\ PinnedRuns' /\ OneEach'
<1> USE DEF IInv, TypeOK, PinsCounted, PinnedRuns, OneEach, Running
<1>1. ASSUME NEW g \in Goroutines, Preempt(g) PROVE PinsCounted' /\ PinnedRuns' /\ OneEach'
  BY <1>1, NoThreadAssumption DEF Preempt, callVars, One, Inside
<1>2. ASSUME NEW g \in Goroutines, NEW t \in Threads, Schedule(g, t)
      PROVE  PinsCounted' /\ PinnedRuns' /\ OneEach'
  BY <1>2, NoThreadAssumption DEF Schedule, callVars, One, Inside
<1>3. ASSUME NEW g \in Goroutines, CallerPins(g) PROVE PinsCounted' /\ PinnedRuns' /\ OneEach'
  <2>1. \A h \in Goroutines : h # g => pins'[h] = pins[h] /\ owns'[h] = owns[h]
    BY <1>3 DEF CallerPins
  <2>2. pins'[g] = One(owns'[g]) + One(Inside(g))
    <3>1. pins[g] = One(owns[g]) + One(Inside(g)) /\ One(Inside(g)) = 0
      BY <1>3 DEF CallerPins, Inside, One
    <3>2. pins'[g] = IF owns[g] THEN pins[g] - 1 ELSE pins[g] + 1
      BY <1>3 DEF CallerPins
    <3>3. One(owns[g]) = (IF owns[g] THEN 1 ELSE 0) /\ One(owns'[g]) = (IF owns[g] THEN 0 ELSE 1)
      BY <1>3 DEF CallerPins, One
    <3>. QED
      BY <3>1, <3>2, <3>3
  <2>3. \A h \in Goroutines : Inside(h)' = Inside(h) /\ Running(h)' = Running(h)
    BY <1>3 DEF CallerPins, callVars, Inside
  <2>4. PinsCounted'
    BY <2>1, <2>2, <2>3
  <2>5. PinnedRuns' /\ OneEach'
    BY <1>3, <2>1 DEF CallerPins
  <2>. QED
    BY <2>4, <2>5
<1>4. ASSUME NEW g \in Goroutines, Begin(g) PROVE PinsCounted' /\ PinnedRuns' /\ OneEach'
  BY <1>4 DEF Begin, Goto, One, Inside
<1>5. ASSUME NEW g \in Goroutines, pinThread(g) PROVE PinsCounted' /\ PinnedRuns' /\ OneEach'
  BY <1>5 DEF pinThread, Goto, One, Inside
<1>6. ASSUME NEW g \in Goroutines, CallNative(g) PROVE PinsCounted' /\ PinnedRuns' /\ OneEach'
  BY <1>6 DEF CallNative, Goto, One, Inside
<1>7. ASSUME NEW g \in Goroutines, ReadLastError(g) PROVE PinsCounted' /\ PinnedRuns' /\ OneEach'
  BY <1>7 DEF ReadLastError, Goto, One, Inside
<1>8. ASSUME NEW g \in Goroutines, Unpin(g) PROVE PinsCounted' /\ PinnedRuns' /\ OneEach'
  BY <1>8 DEF Unpin, Goto, One, Inside
<1>9. CASE UNCHANGED vars
  BY <1>9 DEF vars, One, Inside
<1>. QED
  BY <1>1, <1>2, <1>3, <1>4, <1>5, <1>6, <1>7, <1>8, <1>9 DEF Next

(* Every step keeps a call to make for a goroutine that is to make one.    *)
LEMMA CallIsLeftStep ==
  ASSUME IInv, [Next]_vars
  PROVE  CallIsLeft' /\ NotYetFailed'
<1> USE DEF IInv, TypeOK, CallIsLeft, NotYetFailed
<1>1. ASSUME NEW g \in Goroutines, Begin(g) PROVE CallIsLeft' /\ NotYetFailed'
  BY <1>1, OperationsAreCalls DEF Begin, Goto
<1>2. ASSUME NEW g \in Goroutines, CallNative(g) PROVE CallIsLeft' /\ NotYetFailed'
  BY <1>2 DEF CallNative, Goto
<1>3. ASSUME NEW g \in Goroutines, pinThread(g) \/ ReadLastError(g) \/ Unpin(g)
      PROVE  CallIsLeft' /\ NotYetFailed'
  BY <1>3 DEF pinThread, ReadLastError, Unpin, Goto
<1>4. ASSUME UNCHANGED callVars PROVE CallIsLeft' /\ NotYetFailed'
  BY <1>4 DEF callVars
<1>. QED
  BY <1>1, <1>2, <1>3, <1>4 DEF Next, vars, callVars, Preempt, Schedule, CallerPins

(* No other goroutine writes into the buffers of the thread of one that    *)
(* has yet to read its message.                                            *)
LEMMA MessageWaitsStep ==
  ASSUME IInv, [Next]_vars
  PROVE  MessageWaits'
<1> USE DEF IInv, TypeOK, MessageWaits, Text
<1>1. ASSUME NEW g \in Goroutines, CallNative(g) PROVE MessageWaits'
  <2> SUFFICES ASSUME NEW h \in Goroutines, pc'[h] = "read"
               PROVE  message'[on'[h]][Head(todo'[h])] = <<h, calls'[h]>>
    OBVIOUS
  <2>1. CASE h = g
    <3>1. Head(todo[g]) \in Libraries
      BY <1>1, CallsLeft DEF CallNative, CallIsLeft
    <3>. QED
      BY <1>1, <2>1, <3>1 DEF CallNative, runGuarded, Running, Goto
  <2>2. CASE h # g
    <3>1. pc[h] = "read" /\ todo'[h] = todo[h]
      BY <1>1, <2>2 DEF CallNative, Goto
    <3>2. Running(h) /\ on[h] # on[g]
      BY <1>1, <2>2, <3>1, Pins DEF OneEach, Inside, CallNative
    <3>3. message'[on[h]] = message[on[h]]
      BY <1>1, <3>2 DEF CallNative, runGuarded, Running
    <3>. QED
      BY <1>1, <3>1, <3>3 DEF CallNative
  <2>. QED
    BY <2>1, <2>2
<1>2. ASSUME NEW g \in Goroutines, Preempt(g) \/ \E t \in Threads : Schedule(g, t)
      PROVE  MessageWaits'
  <2>1. pc[g] # "read"
    BY <1>2, Pins DEF Inside, Preempt, Schedule
  <2>. QED
    BY <1>2, <2>1 DEF Preempt, Schedule, callVars
<1>3. ASSUME NEW g \in Goroutines, Begin(g) \/ pinThread(g) \/ ReadLastError(g) \/ Unpin(g)
      PROVE  MessageWaits'
  BY <1>3 DEF Begin, pinThread, ReadLastError, Unpin, Goto
<1>4. ASSUME NEW g \in Goroutines, CallerPins(g) PROVE MessageWaits'
  BY <1>4 DEF CallerPins, callVars
<1>5. CASE UNCHANGED vars
  BY <1>5 DEF vars
<1>. QED
  BY <1>1, <1>2, <1>3, <1>4, <1>5 DEF Next

(* What is read is the own message.                                        *)
LEMMA OwnMessageStep ==
  ASSUME IInv, [Next]_vars
  PROVE  OwnMessage'
<1> USE DEF IInv, TypeOK, OwnMessage, Text
<1>1. ASSUME NEW g \in Goroutines, ReadLastError(g) PROVE OwnMessage'
  BY <1>1 DEF ReadLastError, Goto, MessageWaits
<1>2. ASSUME NEW g \in Goroutines, CallNative(g) PROVE OwnMessage'
  BY <1>2 DEF CallNative, Goto, NotYetFailed
<1>3. ASSUME NEW g \in Goroutines, Begin(g) \/ pinThread(g) \/ Unpin(g) PROVE OwnMessage'
  BY <1>3 DEF Begin, pinThread, Unpin, Goto
<1>4. ASSUME UNCHANGED callVars PROVE OwnMessage'
  BY <1>4 DEF callVars
<1>. QED
  BY <1>1, <1>2, <1>3, <1>4 DEF Next, vars, callVars, Preempt, Schedule, CallerPins

(* The invariant holds at first.                                           *)
LEMMA InvInit ==
  ASSUME Init
  PROVE  IInv
<1> USE DEF Init
<1>1. TypeOK
  BY MaxCallsAssumption, EmptySeq DEF TypeOK, Messages
<1>2. PinsCounted /\ PinnedRuns /\ OneEach
  BY NoThreadAssumption DEF PinsCounted, PinnedRuns, OneEach, One, Inside, Running
<1>3. CallIsLeft /\ MessageWaits /\ NotYetFailed /\ OwnMessage
  BY DEF CallIsLeft, MessageWaits, NotYetFailed, OwnMessage
<1>. QED
  BY <1>1, <1>2, <1>3 DEF IInv

(* Every step keeps the invariant.                                         *)
LEMMA InvStep ==
  ASSUME IInv, [Next]_vars
  PROVE  IInv'
BY TypeStep, PinsStep, CallIsLeftStep, MessageWaitsStep, OwnMessageStep DEF IInv

-----------------------------------------------------------------------------
(* The inductive invariant holds: pins are counted, a pinned goroutine runs*)
(* alone on its thread, and an unread message stays in place.              *)
THEOREM ThreadsArePinned == Spec => []IInv
  BY InvInit, InvStep, PTL DEF Spec

(* The types of goroutines and threads, whatever their number.             *)
THEOREM NativeTypes == Spec => []TypeOK
<1>1. IInv => TypeOK
  BY DEF IInv
<1>. QED
  BY <1>1, ThreadsArePinned, PTL

(* pinThread in every native call is enough for wrapEviError, kmShimError  *)
(* and encShimError to read the message of the call that failed.           *)
THEOREM ErrorsAreOwn == Spec => []OwnMessage
<1>1. IInv => OwnMessage
  BY DEF IInv
<1>. QED
  BY <1>1, ThreadsArePinned, PTL

(* Calls of the SDK never undo a LockOSThread of their caller.             *)
THEOREM CallersKeepTheirThread == Spec => CallerStaysPinned
<1>1. ASSUME IInv, [Next]_vars
      PROVE  [\A g \in Goroutines : owns[g] => on'[g] = on[g]]_vars
  <2>1. \A g \in Goroutines : owns[g] => pins[g] > 0 /\ Running(g)
    BY <1>1, Pins
  <2>2. CASE on' = on
    BY <2>2
  <2>3. ASSUME NEW h \in Goroutines, Preempt(h) \/ \E t \in Threads : Schedule(h, t)
        PROVE  \A g \in Goroutines : owns[g] => on'[g] = on[g]
    <3>1. ~owns[h]
      BY <2>1, <2>3 DEF Preempt, Schedule
    <3>. QED
      BY <2>3, <3>1, <1>1 DEF Preempt, Schedule, IInv, TypeOK
  <2>. QED
    BY <1>1, <2>2, <2>3 DEF Next, vars, CallerPins, Begin, pinThread, CallNative, ReadLastError,
       Unpin
<1>. QED
  BY <1>1, ThreadsArePinned, PTL DEF Spec, CallerStaysPinned
=============================================================================
