# Verification of the RuneSpace Go SDK

The SDK is the client side of RuneSpace, an encrypted vector store. It
generates and opens homomorphic-encryption keys, encrypts vectors before they
are inserted, lets a blind server compute encrypted scores, and decrypts, ranks
and resolves them. This directory holds TLA+ models of what is hard to test in
it, the TLC configurations that check them, and proofs checked by TLAPS.

Run everything from this directory: `tlc -config X.cfg M`, `tlapm M.tla`.

## 1. The system

| Component | State it keeps | Operations | Source |
|---|---|---|---|
| Keys | two bundles (RMP, MM), each a native context, an encryptor, a decryptor, a mutex; an RWMutex and C pointers per handle | EncryptFlat, EncryptClustered, DecryptResult, DecryptClustered, Close, finalizers | `keys.go`, `internal/crypto/cryptocgo.go` |
| Centroid cache | `centroids`, `centroidsLoaded`, under `Client.mu` | centroidSetCached, Centroids, InvalidateCentroidCache | `clustering.go`, `centroids.go` |
| Insert | `conn`, `keys` of the client, the request, the attempt | Insert, InsertPreEncrypted, insertWithRetry, UseKeys, Close | `client.go`, `insertpre.go`, `errors.go` |
| Search | the candidates, the window, the matches | Search, searchAndResolve, resolvePositions | `client.go` |
| Key files | two directories of up to six key slots | GenerateKeys | `keys.go`, `cryptocgo.go`, `keymanager_shim.cpp` |
| Key readers | a staging directory, the native objects built so far | OpenKeys, KeysExist, openEvalKeyReader | `keys.go`, `keysoptions.go` |
| Registration | a two-key stream, the binding | RegisterKeys, VerifyKeys, UseKeys | `client.go` |
| Client | `conn` and its connection | Dial, Close, Info, Delete, UpdateTags, RetagAll, RemoveTag, interceptors, options | `client.go`, `clientoptions.go` |
| Native errors | a message per OS thread and library | pinThread, the three error wrappers | `cryptocgo.go`, the shims |

How they interact: a program dials a `Client`, opens a `*Keys` and binds it with
RegisterKeys or UseKeys. Insert copies `conn` and `keys` under `Client.mu`,
calls two encryptions on the key set, asks the centroid cache for a set, and
sends one request up to three times. Search copies the same two fields, sends
one Search RPC, decrypts each cell with the key set, and sends GetMetadata RPCs.
A key set and a client are shared by goroutines and owned by the caller, who
may close or rebind either while calls are at work. The garbage collector runs
finalizers on native wrappers. GenerateKeys and OpenKeys meet on the disk only.

What is hard: native code that faults when two calls share a context or when a
Close or a finalizer frees what a call uses; a cache filled outside its lock; a
retry over a network that loses acknowledgements; key sets and centroid sets
that change in the middle of a call; a server that changes between two RPCs of
one search; a key generation that can fail or crash between any two files, and
readers that meet it half way; a registration stream that can end at any frame,
before or after the server took it for complete; and error messages that belong
to an OS thread while goroutines move between threads.
`PROJECT.json` lists the hazards line by line with the property that covers
each, or why none does yet.

What makes each component correct:

- Keys: at most one native call per context; nothing used after it is freed,
  nothing freed twice; a Close that returns has freed everything; a call takes
  effect at one instant and always returns.
- Centroid cache: it is a cell loaded once; it is as new as the latest
  invalidation; callers that recover end up with the server's set.
- Insert: one row per item; success only with a row; both representations under
  one key set; a row only in a cluster of the server's set; every call returns.
- Search: windows give exactly what one pass over the ranking would give.
- GenerateKeys: touches only its own files, unless its check overlooked a slot;
  success is complete; failure leaves nothing; a crash never leaves a torn secret
  key or an orphaned encryption key.
- Key readers: an open key set is of one generation; the eval key that is
  streamed belongs to the secret key that decrypts; a set found by its names is
  whole; a failed open leaves nothing.
- Registration: a success of RegisterKeys, or of a VerifyKeys that compared a
  fingerprint, is a fact about the server that stays true; every call returns.
- Client: a call after Close says so (Centroids does not).
- Native errors: an error is about its own call; a caller's pin is its own.

## 2. The modules

`Keys` is one opened `*Keys`. `pc[p]` is the line a goroutine has reached:
`lock`, `check`, `rlock`, `native`, `unlock` for a call, `closeLock`, `closing`,
`closeUnlock` for Close. `held` is `cryptoMu`, `set` the non-nil fields of a
bundle, `ptr` the wrappers that still have their C pointer, `destroyed` counts
native destructions. A native call is two steps, `EnterNative` and
`LeaveNative`, so anything may happen inside. The four API calls are one action
`Call` with a bundle and a handle; `EncryptFlat` is `<<"rmp", "enc">>`, and so
on. The handle's RWMutex is not a variable: its readers are the goroutines at
`native`, and the exclusive lock of a Close waits for `NoReader`. Every
registered finalizer is `Finalize`, enabled when a wrapper is unreachable; a
call keeps its bundle reachable by the deferred `Unlock` it has yet to run.

`KeyService` is what callers are promised: services on offer, requests that are
answered from what is on offer at one instant, and a Close that returns when
nothing is on offer. `Keys` implements it with `offer` the non-nil handles,
`request` read off `pc`, and `answer` itself.

`CentroidCache` is `centroidSetCached` in its two critical sections (`Lookup`,
`Install`) with the fetch between them (`Drain`, `FetchFails`). A set is its
number in the server's history; 0 is no clustered tier, and also stands for a
server without GetCentroids. `LoadOnce` is the abstract cell. `CentroidHistory`
adds history variables that say how old a cached set may be. `CentroidRecovery`
extends it with callers that insert for ever and follow the documented advice for
ErrCentroidVersionMismatch, beside others that invalidate the cache for no reason;
they are code outside the SDK and are marked external or mapped to that advice.

`Insert` composes the centroid cache with the insert paths. `snap` is the local
copy of the key set, `req` the request, `attempt` the loop counter of
`insertWithRetry`. A call that meets UNAVAILABLE may do so with its request
lost, stored or still in `net`; `Deliver` is the server taking a request,
however late. What the server does with an id it has and with a version it does
not have is external: it is taken from the documented contract, and the order
of its two checks is left open. A request carries the item it is meant for, as
history, so that properties can speak of it.

`KeyGen` is GenerateKeys on a disk. A file is what key material it holds and
which runs have not written theirs to the end; every stat, open, write, rename
and remove is a step that may fail or be the last before a crash. A stat that
fails for any reason counts as a slot that is not there (`keys.go:193`): so
`anySlotExists` may overlook what a tier holds, and `missed` records it. Only the
refusal of a directory that is not empty (`CheckEmpty`) then stops the run, after
its rollback was registered. `jammed` records the tiers where a removal failed
and the code ignored it: in the rollback, or of `SecKey.json.tmp` by the shim.

`Search` is one call. The reply of the Search RPC, including which items sit in
both tiers and which rows are dead, is chosen freely; `gone` is what the server
no longer resolves. `Wrap` gives `topK*2` the width of an int, and `isDead`
reads a bitmap cut into bytes, both at a small width (`MaxInt`, `ByteBits`) for
TLC and at any width in the proofs. What the code filters in a loop is stated by
place, as the n-th member of a set of row numbers (`InOrder`): nothing could be
proved of a definition by recursion. `Int32` is the conversion of a cell id, at the
width `MaxInt32`. The guards of a call (closed client, no key set) are
`ReadBound` of `Registration`, where clients are closed and bound.

`KeyReader` extends `KeyGen` with one program that reads the same disk. `call`
is where `KeysExist`, `OpenKeys` or the eval-key reader stands: in which tier,
with which slots to go. `StatJSON`, `StatBin` and `ReadSlot` are separate steps,
as they are separate system calls, and between any two of them a `GenerateKeys`
may write, rename, crash or roll back; a stat may fail here too. `held` is what has
to be given back: the staging directory of a tier, its context, encryptor and
decryptor. An envelope that is torn cannot be unwrapped; raw bytes are taken as
they are. `met` counts the runs that changed the disk meanwhile. The context,
encryptor and decryptor are built in one step, because they read the staged
copies, which nobody else touches; it succeeds (`Built`) or fails at one of them
(`ContextFails`, `EncryptorFails`, `DecryptorFails`), each with the clean-up of its
own branch. `CleanUp` removes the staging directory; the removal may fail, which is
ignored and leaves it behind as `Stuck`. Registering streams the eval key of the RMP
tier and then of the MM tier; what is left out is the temporary file into which
an enveloped eval key is unwrapped.

`NativeErrors` has goroutines on OS threads. An operation of the SDK is the
sequence of its native calls, each in one of three libraries that keep their
last error per thread (`message[thread][library]`). `pinThread` and `Unpin` are
the LockOSThread count; `Preempt` and `Schedule` are the Go scheduler, which
moves a goroutine only when its count is 0. `CallerPins` is a program that
calls LockOSThread itself.

`Registration` has clients that share one server, each used by any goroutine.
`open` is `conn # nil` and `wire` is the connection itself, because Close takes
the one away before it tears down the other. A goroutine is at a guard, in a
unary RPC, at a frame of its stream, or comparing fingerprints; frames are sent
one at a time and the stream may be refused, denied or lost between any two.
`stray` are uploads that reached the server whole and whose caller will hear
nothing: they may be served later. The server is external: it serves the first
pair of eval keys that arrives whole, accepts the same pair again and refuses
another ("one-shot", `runespace.proto:20`), and edits nothing without keys. Of
each tier it serves, `GetInfo` may report the fingerprint, the identity without a
fingerprint (`NoPrint`), or nothing. `Matches` is the loop of VerifyKeys over what
was reported: a tier without a fingerprint is skipped, one that is not reported is
not missed, and only a server that reports neither is refused. The key sets of the
model have one key id, preset and dimension, so that fingerprints alone tell them
apart.
The bytes of an eval key are the name of its set, so a digest compares sets;
that the files match the open keys is the subject of `KeyReader`, and files do
not change here. `Delete` stands for the four calls that are one guarded RPC;
`Insert` and `Search` are here with their guards and their binding only.

How they compose: `CentroidHistory` extends `CentroidCache`, `CentroidRecovery`
extends both, `Insert` has the same cache and the key sets inside it,
`KeyReader` extends `KeyGen`, `Keys` implements `KeyService`, and the centroid
cache implements `LoadOnce`. `MCInsert`, `MCSearch`, `MCKeyReader`
and `MCNativeErrors` give TLC symmetry, shapes and bounds; `MCClusterRequired` adds a
history variable. The other configurations use the modules as they are.
Operators marked "Mutant" in a module are plausible faults of the action below
them: substituted for it, they break a property; they are not part of any
specification.

## 3. The runs

| Run | Configuration | Question | Result |
|---|---|---|---|
| keys | `MCKeys.cfg` | mutual exclusion and memory safety of the native library; the inductive invariant; refinement of KeyService with liveness | holds |
| centroids | `MCCentroids.cfg` | refinement of LoadOnce with liveness; where staleness can come from; do recovering callers settle? | holds |
| refetch | `MCRefetch.cfg` | does the next call after an invalidation refetch? | **violated** |
| insert | `MCInsert.cfg` | exactly-once storage, one key set per row, routing | holds |
| insert_live | `MCInsertLive.cfg` | does every insert return? | holds |
| cluster_required | `MCClusterRequired.cfg` | does ErrClusterRequired mean that the server has no set? | **violated** |
| key_reader | `MCKeyReader.cfg` | failures and crashes of GenerateKeys, and what a reader makes of the directory at any time | holds |
| keygen_race | `MCKeyGenRace.cfg` | two GenerateKeys at a time | **violated** |
| search | `MCSearch.cfg` | windows against one pass | holds |
| native_errors | `MCNativeErrors.cfg` | whose error message, whose thread | holds |
| registration | `MCRegistration.cfg` | what a success says of the server; closed clients; does every call return? | holds |
| closed_client | `MCClosedClient.cfg` | does every call on a closed client say that it is closed? | **violated** |

Bounds, and why they are enough:

- keys: two goroutines, one of which may close or encrypt while the other calls
  or closes; calls are unbounded, so a second Close meets a first one that has
  returned. Three do not finish in five minutes; the proofs are for any number, and the refinement with its liveness needs the graph without
  symmetry.
- centroids: three callers (two racing fetches and a later reader), a server set
  that is replaced up to twice; refetch needs two callers and one replacement.
- insert: one caller, two calls, three attempts each, two replacements of the
  set, and two key sets or none bound. Every property is about one item or one call, whose
  opponents are its own late duplicates, rebinding, closing, invalidation and
  the server; two calls are needed because a pre-encrypted item is forwarded
  again. The value a call returned is left out of TLC's view: nothing reads it,
  and the property about it is an action property, evaluated on every step. The
  liveness run has two callers that fill the cache for each other, and the same
  view: no step of a call changes only what it returned.
- key_reader: two runs of GenerateKeys, one after the other (at a time in
  keygen_race), over a path where each tier is missing, empty, foreign, a complete
  set or a set of raw `.bin` files, beside one reader that makes any number of
  calls, with all parts or one. Two generations and an older set are enough to mix
  up two. At most one of the failures that nobody notices happens (`MaxIgnored`,
  constraint `FewIgnored`): a run whose check overlooked slots, a tier whose
  clean-up failed, a staging directory that stays. One is enough for each of the
  exceptions the properties name; the proofs have no such bound.
- native_errors: two goroutines, two threads, two calls each: a wrong message
  takes one other goroutine on the same thread. The proofs are for any number.
- registration: two goroutines, two clients of which one has no token, two key
  sets and three calls: two registrations, of one or two sets, and a Close or a
  VerifyKeys meet at every frame. All three safety properties
  are proved for any number. closed_client needs one goroutine and two calls.
- search: one flat cell of three rows and two cluster cells of one row, three
  items, two scores (ties included), topK of 0, 1, 2 and 7, where twice 7
  overflows the largest int, 7, to a small negative number; a byte of 2 bits puts
  rows on both sides of a byte boundary; `MaxInt32` is 2, so that the larger cluster
  id is the largest int32; one change on the server between the
  RPCs. Five rows are enough for a second and a third window at topK 1.

Deadlock is checked where the system must not stop: keys, whose only end is
the state in which everything was dropped and finalized, centroids, and
native_errors, whose scheduler goes on. The others stop when their bounded calls have ended.

Fairness, and what justifies it:

- Keys: strong fairness for taking `cryptoMu`, because `sync.Mutex` hands the
  lock to a waiter that starved for a millisecond; weak fairness for every other
  step of a call that began. No call, drop or collection is ever forced.
- Centroid cache: weak fairness for the steps of a call; a GetCentroids stream
  ends or fails. Callers keep inserting and follow the advice, and the server
  answers; ReplaceSet is bounded, so the server's set is stable in the end.
  Invalidations for no reason are free to happen, and never forced.
- Insert: weak fairness for the step a call is at. An RPC returns because it is
  answered or fails. The network and the server are not fair: requests may
  never be delivered.
- Registration: weak fairness for the step a call is at, and for an answer to a
  stream that has arrived whole. The answer may be that the connection is lost:
  Dial sets a keepalive (`client.go:79`), which finds out that a server is gone.
  Nothing forces a server to end a stream early, nor an upload to arrive.
- KeyGen, KeyReader, NativeErrors and Search check safety only.

What the violations show:

- `NextCallRefetches`: caller 1 drains the stream, the server replaces its set,
  caller 2 invalidates, caller 1 installs the old set into the empty cache, and
  the next call returns it. `OnlyOverlapIsStale` shows that this is the only
  way, and `SettlesOnServerSet` that repeated recovery gets out of it.
- `ClusterRequiredMeansNoSet`: a disabled tier is cached for good. No version
  mismatch can occur, since no request is sent, so the documented recovery never
  starts and only an unprompted InvalidateCentroidCache helps.
- `CompletedIsKept`: both runs pass the existence check, one finds the directory
  not empty and fails, and its rollback deletes the other's files by name.
- `AfterCloseSaysClosed`: Centroids never looks at the connection
  (`clustering.go:134`): after Close it answers from the cache or with the error of
  the RPC, not with ErrClientClosed as `errors.go:13` says. `ClosedIsFinal` shows
  that it is the only method that can fail and does not say so.

Two properties that hold name an exception in which the code does less than its
documentation says:

- `TouchesOwnFilesOnly`: when the stats of the slots that are there fail
  (`keys.go:193,197` take any error for an absent slot, a link to nothing for one),
  the check passes, the directory is refused as not empty, and the rollback removes
  the caller's slots by name, although `keys.go:271-272` says that it "never touches
  a caller's pre-existing key set". Nothing else makes a run do so.
- `VerifiedMeansServed`: when the server reports identities without fingerprints,
  which `client.go:268` skips, VerifyKeys returns nil for another set of the same
  identity, although its doc (`client.go:227-230`) speaks of "THIS key set" and a
  "full match". One reported fingerprint is enough, by the one-shot contract, even
  when the other tier is not reported.

## 4. The proofs

`KeysProofs` proves, for any set of goroutines, that `Spec` implies type
correctness and the safety properties of run keys, from the assumption
`NoProcAssumption` only (the owner of a free mutex is no goroutine). The
properties are not inductive: that no native call uses freed memory depends on
who holds `cryptoMu`, on what the collector may reach, and on the order of
Close. `IInv` says it: a goroutine past the lock holds it (`HolderIsInside`); a
call concerns a handle (`CallsAreForHandles`); a pointer is there only in a
field that is set (`PointersAreSet`); an object was destroyed once if its
pointer is gone and never otherwise (`DestroyedIffCleared`); what can be reached
is alive (`ReachableIsAlive`); Close works down encryptor, decryptor, context
(`CloseInOrder`); a checked handle is still set (`NoNilHandle`). Each action
preserves each part; the properties follow from `IInv`, and run keys checks it
as an invariant on a small instance.

`KeysRefineService`, in the same module, says that every step of `Keys` maps to a step of `KeyService`
or leaves it unchanged, for any set of goroutines. It needs one invariant more,
`AnsweredInTime`: a request has its answer exactly when its call is past the
native part.

`CentroidProofs` proves the same of the centroid cache and `LoadOnce`
(`CacheIsLoadedOnce`), and that a stale set comes from an overlapped fetch only
(`StalenessNeedsOverlap`), for any set of callers and any number of sets, from
`MaxSetAssumption` and `NoSetAssumption`. The theorems are about `HistSpec`, whose
callers do as they please; `CentroidRecovery` adds nothing to its steps but a
variable of its own. The invariant `HistInv` adds that a drained set is recent unless its fetch
overlapped the latest invalidation, and that invalidations lie in the past of
the server.

`NativeErrorsProofs` proves type correctness, `OwnMessage` and
`CallerStaysPinned` for any number of goroutines, threads and calls, from
`NoThreadAssumption` and `MaxCallsAssumption`. The invariant counts pins
(`PinsCounted`: one for the caller's own, one from pinThread to Unpin), says that
a pinned goroutine runs (`PinnedRuns`) and that no two run on one thread
(`OneEach`), and concludes that the message of a failed call is still on the
thread when it is read (`MessageWaits`). `OwnMessage` alone is not inductive: it
says nothing of a message that was not read yet.

`InsertProofs` proves type correctness and all four safety properties of both
insert paths (`OneRowPerItem`, `OneKeySetPerRow`, `RoutedInServerSet`,
`AckedIsStored`), for any number of callers, items, key sets, sets and attempts,
from `BoundsAssumption`. None of them is inductive: they speak of rows, and a row
comes from a request that may be on the wire since before the client was closed
or rebound. `IInv` therefore follows a request from the call to the row. `CallOK`
says what a call has at each place: a key set and a centroid set before it
encrypts, from then on a request that is `Own`, that is, of the item it carries,
under one key set, routed in the set it is stamped with; and a success only if
the item is stored. `WireIsOwn` and `RowsAreOwn` say the same of the wire and of
the rows, and `OneRowPerId` that ids are primary keys. Retries and late duplicates
can then do no harm: they carry the same id.

`KeyGenProofs` proves type correctness for any runs, and for runs that follow one
another (`~Concurrent`, a constant of the module) all safety properties:
`SecKeyIsWhole`, `EncKeyHasSecKey`, `FailureLeavesNothing`, `SuccessIsComplete`,
`TouchesOwnFilesOnly`, and `CompletedIsKept`, which run keygen_race refutes when
two run at a time: the hypothesis is needed. The last two name the one way in
which a run deletes what is not its own, a check that overlooked slots (`missed`);
key_reader fails without that exception. The runs, what lies on the path at the start, and failures and
crashes at any step are arbitrary. `IInv` says for each place of a run which
files of its tier are whole and which is being written (`TierAtWork`), that the
other tier is vacant or done (`OtherTier`), that a rollback still has only own
files before it (`RollsBackOwn`, `RemovedIsGone`), that at most one run is at
work (`OneAtATime`), and of the disk, whoever left it so (`DiskOK`), that a
temporary secret key has its `EncKey.bin` and the caller's file is old.

`KeyReaderProofs` builds on it. Type correctness and `NothingLeftBehind` are proved
for any runs, concurrent ones too; `OneGeneration`, `StreamsWhatItDecrypts` and
`FoundKeysAreWhole` for runs that follow one another. The last says what the names
KeysExist looks at are worth, crashes and runs at work included: it found the name
`SecKey.json`, which exists only once the envelope was whole, and neither a
generation nor a rollback has an order that leaves a torn file beside it, except
the `EncKey.json` that is written last. `RInv` has `IInv` for the directory, with one generation on
disk at a time (`DirectoryOK`); what a call has still to read (`CallOK`) and to
give back (`HeldOK`); that two generations a reader holds or could read differ
only if it met the runs of both (`GenerationsOK`); and how a part it holds
compares with the disk (`PartsOK`).

`RegistrationProofs` proves `RegisteredMeansServed` and `VerifiedMeansServed` for
any number of goroutines, clients, key sets and calls, from `NoKeysAssumption`
and `NoPrintAssumption`. The argument is that what the server serves never changes once it serves
something (`ServedStays`, from its one-shot contract) and is one set in both tiers
(`ServedWhole`), so that neither an acknowledgement in flight (`AcceptedIsServed`,
`BindsAccepted`) nor a fingerprint GetInfo reported earlier (`ToldIsServed`) can be
out of date, and that a call past its guards has a key set (`KeysGiven`). What the
SDK contributes is that only an acknowledgement leads to `Bind`, and that a
fingerprint that was reported must match; `VerifiedMeansServed` says nothing of a
success that compared none. The one-shot server is an assumption about the other side. A second
invariant, `CInv`, gives type correctness and `ClosedIsFinal`: it follows a call
that begins after Close has returned (`ClosedIsShut`, `LateIsStopped`) and says
which frames a goroutine's place implies (`FramesOK`). It uses
`ClientsAssumption` (there is a client) and `MaxCallsAssumption`.

`SearchProofs` proves type correctness and all four properties of `Search`
(`AnswerIsRanking`, `MatchesArePlaced`, `RankedRowsAreLive`, `OneRoundTrip`), for
any cells, scores, ties, dead bitmaps and values of topK, any width of an int and
of a byte, and any changes on the server between the RPCs, from `NoIdAssumption`,
`WidthAssumption` (topK is an int), `BoundsAssumption` and `ClusterIdAssumption`
(cluster ids, which number the clusters, fit an int32). It rests on lemmas about
the operators: a strict order of a finite set has one member at each place
(`PlacesAreTaken`), so that a ranking is the candidates in another order
(`RankingSorts`) and the n-th of a set of rows is well defined (`InOrderIs`); `isDead`
finds what was packed (`BitmapMarks`); and a window is topK*2 candidates or all
(`WindowSize`). Windows make `AnswerIsRanking` hard: it speaks of the end of a call
only. `SInv` says what every window leaves behind: the candidates list the live
rows of the cells decrypted so far, each once (`CandsOK`); the n-th answer is the
item of the n-th candidate, or none (`AskedOK`), because zipping the two lists of
answers back to the window shifts nothing, also when one of them is short
(`ZippedBack`); and the matches are the candidates that were the first to name
their item, in this order, until there are topK (`OutOK`, with the witness
`Picks`). `TripsOK` says that a second window needs an answer that is missing: an
item lies in one row of a tier at most, so that topK*2 candidates of two tiers
that all resolve name topK items (`TwoTiersFit`, by the pigeonhole principle).
That the server keeps an item in one row per tier is an assumption about the
other side (`TierReplies`).

Only model-checked: all liveness, that is the fairness half of both
refinements, SettlesOnServerSet and EveryCallReturns, which is out of the
prover's reach. Every safety invariant that a passing run
checks is stated by a theorem; with two `GenerateKeys` at a time, where
keygen_race shows what goes wrong, only the types and what a reader gives back
are proved.

## 5. What is not modelled, and the plan

Not modelled because it cannot usefully be: the arithmetic of `assign` and
`l2normalize`, the FHE library, generated protobuf code, the options that fill a
struct, presets, argument checks, examples, scripts and workflows. Metadata,
blobs and vectors are abstracted away.

Left out of what is modelled:

- Wrong dimensions and malformed vectors, which are refused before any state
  changes; key sets that differ in key id, preset or dimension: VerifyKeys tells
  them apart also where fingerprints are missing.
- Promises about the MM tier from KeysExist: it looks at the RMP tier only, as its
  doc says, and may find a complete one beside an MM tier that a crash, or a run
  at work, has not finished. `KeyReader` has the behaviour; `FoundKeysAreWhole`
  is about the tier it looks at.
- A key directory that is replaced between OpenKeys and RegisterKeys by hand:
  `KeyReader` has the changes GenerateKeys makes, and `StreamsWhatItDecrypts`
  says how far the keys of one program still fit together. `Registration` takes
  the files to be those of the open set.
- Keys opened with KeyPartEnc alone: nothing they hold says which eval key is
  theirs, so no property speaks of them.
- A torn `EncKey.json` beside a whole `EncKey.bin`: resolveKeySlot prefers the
  envelope and OpenKeys fails; `KeyReader` has the behaviour, and no doc says
  otherwise.
- A crash of the machine that loses data a write had returned for: the files are
  not synced, and a crash in the models is one of the process.
