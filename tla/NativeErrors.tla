---------------------------- MODULE NativeErrors ----------------------------
(***************************************************************************)
(* Goroutines that call the native library.  A native call reports why it  *)
(* failed in a buffer of the OS thread it ran on, one buffer each for the  *)
(* evi C API and the two shims, and Go reads the buffer in a second native *)
(* call.  Between the two the Go scheduler may move the goroutine to       *)
(* another thread, unless it is pinned.                                    *)
(***************************************************************************)
EXTENDS Naturals, Sequences, FiniteSets

CONSTANTS
  Goroutines,
  Threads,    \* OS threads
  NoThread,   \* where a goroutine is that does not run
  MaxCalls    \* bound: how many calls a goroutine makes

ASSUME NoThreadAssumption == NoThread \notin Threads
ASSUME MaxCallsAssumption == MaxCalls \in Nat

Libraries == {"evi", "km", "enc"}
NoMessage == <<>>

VARIABLES
  on,      \* on[g]: the thread g runs on, or NoThread
  pins,    \* pins[g]: how many LockOSThread calls of g are not undone
  owns,    \* owns[g]: whether the caller of g pinned it itself
  message, \* message[t][lib]: the last error of a library on thread t
  pc,      \* pc[g]: where g is in its call
  todo,    \* todo[g]: the native calls the call has still to make
  calls,   \* calls[g]: how many calls g has begun
  failed,  \* failed[g]: whether a native call of g's call failed
  error    \* error[g]: the message of the error g's call returns

callVars == <<pc, todo, calls, failed, error>>
vars == <<on, pins, owns, message, pc, todo, calls, failed, error>>

-----------------------------------------------------------------------------
(* The native calls with a status that each operation makes, by library.   *)
(* Freeing an object has no status and leaves the buffers alone.           *)
NewCKKSContext == <<"evi">>
NewEncryptor == <<"evi", "evi", "evi">>
NewDecryptor == <<"evi", "evi">>
WrapUnwrap == <<"km">>
EncryptSingle == <<"evi", "evi">>
EncryptRow == <<"enc">>
DecryptSearchResult == <<"evi", "evi", "evi">>
Generate == <<"evi", "evi", "evi", "evi", "evi", "evi", "evi", "km">>
Operations == {NewCKKSContext, NewEncryptor, NewDecryptor, WrapUnwrap, Generate,
               EncryptSingle, EncryptRow, DecryptSearchResult}

(* What a failing native call of g leaves in the buffer: its own message.  *)
Text(g) == <<g, calls[g]>>
Messages == {NoMessage} \cup (Goroutines \X (0..MaxCalls))

TypeOK ==
  /\ on \in [Goroutines -> Threads \cup {NoThread}]
  /\ pins \in [Goroutines -> 0..2]
  /\ owns \in [Goroutines -> BOOLEAN]
  /\ message \in [Threads -> [Libraries -> Messages]]
  /\ pc \in [Goroutines -> {"idle", "pin", "native", "read", "unpin"}]
  /\ todo \in [Goroutines -> Seq(Libraries)]
  /\ calls \in [Goroutines -> 0..MaxCalls]
  /\ failed \in [Goroutines -> BOOLEAN]
  /\ error \in [Goroutines -> Messages]

Init ==
  /\ on = [g \in Goroutines |-> NoThread]
  /\ pins = [g \in Goroutines |-> 0]
  /\ owns = [g \in Goroutines |-> FALSE]
  /\ message = [t \in Threads |-> [lib \in Libraries |-> NoMessage]]
  /\ pc = [g \in Goroutines |-> "idle"]
  /\ todo = [g \in Goroutines |-> <<>>]
  /\ calls = [g \in Goroutines |-> 0]
  /\ failed = [g \in Goroutines |-> FALSE]
  /\ error = [g \in Goroutines |-> NoMessage]

Goto(g, where) == pc' = [pc EXCEPT ![g] = where]
Running(g) == on[g] \in Threads

-----------------------------------------------------------------------------
(* The scheduler stops a goroutine at any time, and starts it on any free  *)
(* thread; a pinned one keeps its thread.                                  *)
Preempt(g) ==
  /\ Running(g)
  /\ pins[g] = 0
  /\ on' = [on EXCEPT ![g] = NoThread]
  /\ UNCHANGED <<pins, owns, message, callVars>>

Schedule(g, t) ==
  /\ ~Running(g)
  /\ \A h \in Goroutines : on[h] # t
  /\ on' = [on EXCEPT ![g] = t]
  /\ UNCHANGED <<pins, owns, message, callVars>>

(* The caller may keep its goroutine on one thread for reasons of its own. *)
CallerPins(g) ==
  /\ Running(g)
  /\ pc[g] = "idle"
  /\ owns' = [owns EXCEPT ![g] = ~owns[g]]
  /\ pins' = [pins EXCEPT ![g] = IF owns[g] THEN @ - 1 ELSE @ + 1]
  /\ UNCHANGED <<on, message, callVars>>

-----------------------------------------------------------------------------
Begin(g) ==
  /\ Running(g)
  /\ pc[g] = "idle"
  /\ calls[g] < MaxCalls
  /\ calls' = [calls EXCEPT ![g] = @ + 1]
  /\ \E operation \in Operations : todo' = [todo EXCEPT ![g] = operation]
  /\ failed' = [failed EXCEPT ![g] = FALSE]
  /\ error' = [error EXCEPT ![g] = NoMessage]
  /\ Goto(g, "pin")
  /\ UNCHANGED <<on, pins, owns, message>>

(* Mutant: the goroutine is not pinned.                                    *)
PinNothing(g) ==
  /\ Running(g)
  /\ pc[g] = "pin"
  /\ Goto(g, "native")
  /\ UNCHANGED <<on, pins, owns, message, todo, calls, failed, error>>

pinThread(g) ==
  /\ Running(g)
  /\ pc[g] = "pin"
  /\ pins' = [pins EXCEPT ![g] = @ + 1]
  /\ Goto(g, "native")
  /\ UNCHANGED <<on, owns, message, todo, calls, failed, error>>

(* A guarded entry clears the buffer when it succeeds.  A null argument or *)
(* an exception leaves a message in it.                                    *)
runGuarded(g, succeeds) ==
  message' = [message EXCEPT ![on[g]][Head(todo[g])] = IF succeeds THEN NoMessage ELSE Text(g)]

CallNative(g) ==
  /\ Running(g)
  /\ pc[g] = "native"
  /\ \/ /\ runGuarded(g, TRUE)
        /\ todo' = [todo EXCEPT ![g] = Tail(@)]
        /\ Goto(g, IF Tail(todo[g]) = <<>> THEN "unpin" ELSE "native")
        /\ UNCHANGED failed
     \/ /\ runGuarded(g, FALSE)
        /\ failed' = [failed EXCEPT ![g] = TRUE]
        /\ Goto(g, "read")
        /\ UNCHANGED todo
  /\ UNCHANGED <<on, pins, owns, calls, error>>

(* The error is made of the message of the library that failed.            *)
ReadLastError(g) ==
  /\ Running(g)
  /\ pc[g] = "read"
  /\ error' = [error EXCEPT ![g] = message[on[g]][Head(todo[g])]]
  /\ Goto(g, "unpin")
  /\ UNCHANGED <<on, pins, owns, message, todo, calls, failed>>

(* Mutant: the thread is let go of, whoever pinned it.                     *)
UnpinAll(g) ==
  /\ Running(g)
  /\ pc[g] = "unpin"
  /\ pins' = [pins EXCEPT ![g] = 0]
  /\ todo' = [todo EXCEPT ![g] = <<>>]
  /\ Goto(g, "idle")
  /\ UNCHANGED <<on, owns, message, calls, failed, error>>

(* The deferred UnlockOSThread, and the call returns.                      *)
Unpin(g) ==
  /\ Running(g)
  /\ pc[g] = "unpin"
  /\ pins' = [pins EXCEPT ![g] = @ - 1]
  /\ todo' = [todo EXCEPT ![g] = <<>>]
  /\ Goto(g, "idle")
  /\ UNCHANGED <<on, owns, message, calls, failed, error>>

Next ==
  \E g \in Goroutines :
    \/ Preempt(g)
    \/ \E t \in Threads : Schedule(g, t)
    \/ CallerPins(g)
    \/ Begin(g)
    \/ pinThread(g)
    \/ CallNative(g)
    \/ ReadLastError(g)
    \/ Unpin(g)

Spec == Init /\ [][Next]_vars

-----------------------------------------------------------------------------
(* The error a call returns tells why its own native call failed: not what *)
(* another goroutine left on the thread, nor an older call, nor nothing.   *)
OwnMessage ==
  \A g \in Goroutines :
    failed[g] /\ pc[g] \in {"unpin", "idle"} => error[g] = Text(g)

(* A goroutine that its caller pinned stays on its thread, whatever calls  *)
(* of the SDK it makes in between.                                         *)
CallerStaysPinned ==
  [][\A g \in Goroutines : owns[g] => on'[g] = on[g]]_vars
=============================================================================
