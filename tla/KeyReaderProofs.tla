--------------------------- MODULE KeyReaderProofs ---------------------------
(***************************************************************************)
(* Proofs about a program that opens a directory while GenerateKeys works  *)
(* on it: for any number of runs that come one after the other and may     *)
(* fail or crash at any step, and any number of calls of the reader, each  *)
(* of whose steps may fail.                                                *)
(***************************************************************************)
EXTENDS KeyReader, KeyGenProofs, FiniteSetTheorems

-----------------------------------------------------------------------------
(* Where a call may be, and the parts it has left.                         *)
OpenLists == {<<>>, <<"Enc">>, <<"Sec">>, <<"Enc", "Sec">>}
ExistLists == OpenLists \cup {<<"Eval">>, <<"Eval", "Sec">>, <<"Enc", "Eval", "Sec">>}
Slotting == {"json", "bin", "read"}

ExistOK ==
  call.does = "exist" =>
    call.pc \in {"json", "bin", "done", "absent"} /\ call.tier = "rmp" /\ call.todo \in ExistLists

OpenOK ==
  call.does = "open" =>
    /\ call.pc \in Slotting \cup {"stage", "build", "opened", "absent", "failed"}
    /\ call.todo \in OpenLists

EvalOK ==
  call.does = "eval" =>
    /\ call.pc \in Slotting \cup {"done", "absent", "failed"}
    /\ call.todo \in {<<>>, <<"Eval">>}

CallOK ==
  /\ call \in Calls
  /\ loaded \in [Tiers -> [KeyParts -> Content]]
  /\ held \subseteq Tiers \X (Objects \cup {Stuck})
  /\ call.does = "nothing" <=> call.pc = "idle"
  /\ call.pc = "idle" => loaded = NothingLoaded /\ held = {} /\ call.todo = <<>>
  /\ ExistOK /\ OpenOK /\ EvalOK
  /\ call.pc \in Slotting => call.todo # <<>>
  /\ call.pc = "read" =>
       call.path \in {jsonName[Head(call.todo)], binName[Head(call.todo)]}

MetOK == met \subseteq Runs /\ IsFiniteSet(met)

(* A KeysExist that looks for the secret key looks for it last; and once   *)
(* it has found all it looks for, the secret key was there.                *)
FoundOK ==
  call.does = "exist" /\ "Sec" \in resolveKeyParts(call.parts) =>
    /\ call.pc \in {"json", "bin"} =>
         call.todo \in {<<"Enc", "Eval", "Sec">>, <<"Eval", "Sec">>, <<"Sec">>}
    /\ call.pc = "done" /\ met = {} =>
         Exists("rmp", "SecKey.json") \/ Exists("rmp", "SecKey.bin")

-----------------------------------------------------------------------------
(* What an OpenKeys has made when it comes to each tier: besides it there  *)
(* are only staging directories that could not be removed.                 *)
Bundles(t) == {t} \X {"context", "encryptor", "decryptor"}
Leftovers == Tiers \X {Stuck}

HeldOK ==
  /\ call.does = "exist" => held = {}
  /\ call.does = "open" /\ call.tier = "rmp" =>
       held \subseteq Leftovers \cup (IF call.pc = "stage" THEN {} ELSE {<<"rmp", "stage">>})
  /\ call.does = "open" /\ call.tier = "mm" =>
       held \subseteq Leftovers \cup Bundles("rmp") \cup Bundles("mm") \cup {<<"mm", "stage">>}
  /\ call.does = "open" /\ call.tier = "mm" /\ call.pc \in Slotting \cup {"stage", "build"} =>
       held \subseteq Leftovers \cup Bundles("rmp") \cup {<<"mm", "stage">>}
  /\ call.pc \notin Slotting \cup {"build"} \/ call.does = "eval" =>
       held \cap (Tiers \X {"stage"}) = {}
  /\ call.does = "open" /\ call.pc \in {"absent", "failed"} => held \subseteq Leftovers

-----------------------------------------------------------------------------
(* Tiers whose slots hold keys of one generation: each for itself, and     *)
(* both together if no check has overlooked a slot.                        *)
NoneMissed == \A g \in Runs : missed[g] = {}
Scopes == {{t} : t \in Tiers} \cup (IF NoneMissed THEN {Tiers} ELSE {})

OnDisk(S, k) == \E t \in S, s \in Slots : k \in disk[t][s].keys
Loaded(S, k) == \E t \in S, part \in KeyParts : k \in loaded[t][part].keys
Keys == Runs \cup {Old}

OneOnDisk == \A S \in Scopes : \A k, d \in Keys : OnDisk(S, k) /\ OnDisk(S, d) => k = d

(* A run that writes no key any more.                                      *)
Past(g) == RollsBack(g) \/ pc[g] \in Ended

(* Keys that were loaded are on the disk still, or a run that removed them *)
(* was met; and two generations take two runs that were met.               *)
GenerationsOK ==
  \A S \in Scopes, k \in Keys : Loaded(S, k) =>
    /\ OnDisk(S, k) \/ \E h \in met : Past(h)
    /\ \A d \in Keys : OnDisk(S, d) \/ Loaded(S, d) => k = d \/ \E x, y \in met : x # y

-----------------------------------------------------------------------------
(* Run g is past the eval key of a tier, for good.                         *)
PastEval(g, t) ==
  \/ Past(g)
  \/ (AtWork(g) /\ t = "rmp" /\ tier[g] = "mm")
  \/ /\ tier[g] = t
     /\ \/ pc[g] \in {"rename", "remove"}
        \/ pc[g] \in {"open", "write"} /\ file[g] \in {"SecKey.json.tmp", "EncKey.json"}

RawKeys == {"EncKey.bin", "EvalKey.bin"}
EvalDone(g, t) ==
  PastEval(g, t) /\ \A f \in RawKeys : disk[t][f].keys = {g} => disk[t][f].torn = {}

(* What the slots of a tier hold.                                          *)
SlotsOK(t) ==
  /\ \A s \in Slots : Exists(t, s) => \E key \in Keys : disk[t][s].keys = {key}
  /\ \A s \in Slots : disk[t][s].keys = {Old} => disk[t][s] = Whole(Old)
  /\ disk[t]["SecKey.bin"] \in {NoFile, Whole(Old)}
  /\ disk[t]["EvalKey.json"] = NoFile
  /\ \A g \in Runs : disk[t]["SecKey.json"].keys = {g} => EvalDone(g, t)

DirectoryOK == IInv /\ OneOnDisk /\ \A t \in Tiers : SlotsOK(t)

(* What is read of a tier: the eval key after the secret key.              *)
PartsOK(t) ==
  /\ call.does \in {"nothing", "exist", "open"} => loaded[t]["Eval"] = NoFile
  /\ loaded[t]["Sec"] # NoFile =>
       \E key \in Keys : loaded[t]["Sec"] = Whole(key) /\ (key \in Runs => EvalDone(key, t))
  /\ loaded[t]["Eval"] # NoFile => \E key \in Keys : loaded[t]["Eval"].keys = {key}
  /\ loaded[t]["Sec"] # NoFile /\ loaded[t]["Eval"].keys = loaded[t]["Sec"].keys =>
       loaded[t]["Eval"] = loaded[t]["Sec"]

RInv ==
  /\ DirectoryOK /\ CallOK /\ MetOK /\ HeldOK /\ FoundOK /\ GenerationsOK
  /\ \A t \in Tiers : PartsOK(t)

-----------------------------------------------------------------------------
(* The directory, whoever reads it.                                        *)

(* What a step of a run does to a file of its tier, if it changes it: a    *)
(* rollback removes a slot, or the run writes or removes one of its own.   *)
Removes(g, t, f) ==
  pc[g] = "undo" /\ RollsBack(g)' /\ f \in Slots /\ disk'[t][f] = NoFile

Writes(g, t, f) ==
  /\ AtWork(g) /\ pc[g] \notin {"mkdir", "empty"}
  /\ disk[t][f] = NoFile \/ disk[t][f].keys = {g}
  /\ disk'[t][f] = NoFile \/ disk'[t][f].keys = {g}
  /\ disk'[t][f] = NoFile /\ f \in Slots =>
       f = "EncKey.bin" /\ disk'[t]["EncKey.json"].keys = {g}
  /\ f \in {"SecKey.bin", "EvalKey.json"} => disk'[t][f] = NoFile
  /\ f = "SecKey.json" /\ disk'[t][f] # NoFile =>
       /\ pc[g] = "rename"
       /\ pc'[g] = "open" /\ file'[g] = "EncKey.json" /\ tier'[g] = t
  /\ f \in RawKeys /\ disk'[t][f] # NoFile => pc[g] \in {"open", "write"} /\ file[g] = f

Wrote(g, t, f) == t = tier[g] /\ (Removes(g, t, f) \/ Writes(g, t, f))

(* A file that changes is removed by a rollback, or was of the run that    *)
(* changes it, and is again or is gone; and only the step whose turn it is *)
(* writes a file.                                                          *)
LEMMA FileStep ==
  ASSUME IInv, NEW g \in Runs, Run(g), NEW t \in Tiers, NEW f \in Files, disk'[t][f] # disk[t][f]
  PROVE  Wrote(g, t, f)
<1> USE FileNames, SlotNames, WholeFile, NoFileIsContent DEF Written, RawKeys
<1>1. /\ t = tier[g]
      /\ \/ AtWork(g) /\ pc[g] \notin {"mkdir", "empty"}
         \/ pc[g] = "undo" /\ f \in Slots
  BY ChangesWhereItWorks DEF IInv
<1>2. tier[g] \in Tiers /\ file[g] \in Written /\ file[g] \in Files
  BY DEF IInv, TypesOK, TypeOK
<1>3. CASE pc[g] = "undo" /\ f \in Slots
  <2>1. RemoveArtifact(g)
    BY <1>1, <1>3 DEF Run, Start, Check, MakeDir, CheckEmpty, OpenFile, WriteFile, RenameSecKey,
       RemoveRawEncKey, RemoveDir, Crash
  <2>2. Artifacts[undone[g] + 1] \in Files
    BY <2>1 DEF RemoveArtifact, IInv, TypesOK, TypeOK, Files
  <2>3. Put(tier[g], Artifacts[undone[g] + 1], NoFile)
    BY <2>1 DEF RemoveArtifact
  <2>4. disk'[t][f] = NoFile
    BY <1>2, <2>2, <2>3, PutOne DEF IInv, TypesOK
  <2>5. RollsBack(g)'
    BY <2>1 DEF RemoveArtifact, RollsBack, Goto, IInv, TypesOK, TypeOK
  <2> QED
    BY <1>1, <1>3, <2>4, <2>5 DEF Wrote, Removes
<1>4. CASE AtWork(g) /\ pc[g] \notin {"mkdir", "empty"}
  <2>1. disk[t][f] = NoFile \/ disk[t][f].keys = {g}
    BY <1>1, <1>4, TierIsOwn DEF Exists
  <2>2. CASE Discard(tier[g], file[g])
    <3>1. f = "SecKey.json.tmp" /\ disk'[t][f] = NoFile
      BY <1>2, <2>2, PutOne DEF Discard, IInv, TypesOK
    <3> QED
      BY <1>1, <1>4, <2>1, <3>1 DEF Wrote, Writes
  <2>3. CASE (OpenFile(g) \/ WriteFile(g)) /\ ~Discard(tier[g], file[g])
    <3>1. PICK content \in {[keys |-> {g}, torn |-> {g}], Whole(g)} :
             Put(tier[g], file[g], content)
      BY <2>3, OpensNew, WritesWhole
    <3>2. content \in Content /\ content.keys = {g} /\ content # NoFile
      <4>1. \E torn \in SUBSET {g} : content = [keys |-> {g}, torn |-> torn]
        BY DEF Whole
      <4>2. content.keys = {g}
        BY <4>1
      <4> QED
        BY <4>1, <4>2
    <3>3. disk'[t][f] = content /\ f = file[g] /\ pc[g] \in {"open", "write"}
      BY <1>2, <2>3, <3>1, <3>2, PutOne DEF IInv, TypesOK, OpenFile, WriteFile
    <3> QED
      BY <1>1, <1>2, <1>4, <2>1, <3>2, <3>3 DEF Wrote, Writes
  <2>4. CASE RenameSecKey(g) /\ ~Discard(tier[g], file[g])
    <3>1. /\ pc'[g] = "open" /\ tier'[g] = tier[g] /\ file'[g] = "EncKey.json"
          /\ disk'[t][f] = IF f = "SecKey.json" THEN Whole(g)
                           ELSE IF f = "SecKey.json.tmp" THEN NoFile ELSE disk[t][f]
      BY <1>1, <2>4, RenamesWhole
    <3> QED
      BY <1>1, <1>4, <2>1, <2>4, <3>1 DEF Wrote, Writes, RenameSecKey
  <2>5. CASE RemoveRawEncKey(g)
    <3>1. \A e \in Files : disk'[t][e] = IF e = "EncKey.bin" THEN NoFile ELSE disk[t][e]
      <4>1. Put(tier[g], "EncKey.bin", NoFile)
        BY <2>5 DEF RemoveRawEncKey
      <4> QED
        BY <1>1, <1>2, <4>1, PutOne DEF IInv, TypesOK
    <3>2. disk[t]["EncKey.json"].keys = {g}
      BY <1>1, <2>5 DEF RemoveRawEncKey, IInv, RunOK, TierAtWork, Holds, Trio
    <3> QED
      BY <1>1, <1>4, <2>1, <3>1, <3>2 DEF Wrote, Writes
  <2> QED
    BY <1>4, <2>2, <2>3, <2>4, <2>5 DEF Run, Start, Check, MakeDir, CheckEmpty, RemoveArtifact,
       RemoveDir, Crash, AtWork
<1> QED
  BY <1>1, <1>3, <1>4

(* What a check has overlooked stays overlooked.                           *)
LEMMA MissedGrows ==
  ASSUME TypesOK, [Next]_vars
  PROVE  Scopes' \subseteq Scopes
<1>1. ASSUME NEW g \in Runs PROVE missed[g] \subseteq missed'[g]
  <2>1. CASE UNCHANGED missed
    BY <2>1
  <2>2. ASSUME NEW h \in Runs, Check(h), ~UNCHANGED missed PROVE missed[g] \subseteq missed'[g]
    <3> DEFINE more == missed[h] \cup {tier[h]}
    <3>1. missed' = [missed EXCEPT ![h] = more] /\ missed \in [Runs -> SUBSET Tiers]
      BY <2>2 DEF Check, Overlook, TypesOK, TypeOK
    <3>2. missed[h] \subseteq more
      OBVIOUS
    <3> HIDE DEF more
    <3> QED
      BY <3>1, <3>2
  <2>3. ASSUME NEW h \in Runs, Run(h), ~UNCHANGED missed PROVE Check(h)
    BY <2>3 DEF Run, Start, MakeDir, CheckEmpty, OpenFile, WriteFile, RenameSecKey,
       RemoveRawEncKey, RemoveArtifact, RemoveDir, Crash
  <2> QED
    BY <2>1, <2>2, <2>3 DEF Next, vars
<1>2. NoneMissed' => NoneMissed
  BY <1>1 DEF NoneMissed
<1> QED
  BY <1>2 DEF Scopes, Tiers

(* A run that is past its work stays so.                                   *)
LEMMA PastKept ==
  ASSUME IInv, [Next]_vars, NEW g \in Runs, Past(g)
  PROVE  Past(g)'
<1> USE DEF Past, RollsBack, Ended
<1>1. CASE UNCHANGED vars
  BY <1>1 DEF vars
<1>2. ASSUME NEW h \in Runs, Run(h) PROVE Past(g)'
  <2>1. CASE h # g
    BY <1>2, <2>1, OwnPlace DEF IInv
  <2>2. CASE h = g
    BY <1>2, <2>2 DEF IInv, TypesOK, TypeOK, Run, Start, Check, MakeDir, CheckEmpty, OpenFile,
       WriteFile, RenameSecKey, RemoveRawEncKey, RemoveArtifact, RemoveDir, Crash, Goto
  <2> QED
    BY <2>1, <2>2
<1> QED
  BY <1>1, <1>2 DEF Next

(* A run that changes slots of a scope removes some in a rollback, or      *)
(* finds and leaves there nothing but what is its own.                     *)
LEMMA ChangesScope ==
  ASSUME IInv, NEW g \in Runs, Run(g), NEW S \in Scopes,
         \E t \in S, s \in Slots : disk'[t][s] # disk[t][s]
  PROVE  \/ RollsBack(g)' /\ \A k : OnDisk(S, k)' => OnDisk(S, k)
         \/ /\ AtWork(g) /\ OnDisk(S, g)'
            /\ \A k : (OnDisk(S, k) => k = g) /\ (OnDisk(S, k)' => k = g)
<1> USE FileNames, SlotNames, WholeFile DEF OnDisk
<1>1. PICK t \in S, s \in Slots : disk'[t][s] # disk[t][s]
  OBVIOUS
<1>2. S \subseteq Tiers /\ Slots \subseteq Files
  BY DEF Scopes, Files
<1>3. \A u \in S, e \in Slots : disk'[u][e] = disk[u][e] \/ Wrote(g, u, e)
  BY <1>2, FileStep
<1>4. Wrote(g, t, s)
  BY <1>1, <1>3
<1>5. CASE pc[g] = "undo"
  <2>1. \A u \in S, e \in Slots : disk'[u][e] = disk[u][e] \/ disk'[u][e] = NoFile
    BY <1>3, <1>5 DEF Wrote, Removes, Writes, AtWork
  <2>2. RollsBack(g)'
    BY <1>4, <1>5 DEF Wrote, Removes, Writes, AtWork
  <2> QED
    BY <2>1, <2>2
<1>6. CASE pc[g] # "undo"
  <2>1. AtWork(g) /\ pc[g] \notin {"mkdir", "empty"} /\ t = tier[g] /\ Writes(g, t, s)
    BY <1>4, <1>6 DEF Wrote, Removes, Writes
  <2>2. \A u \in S, e \in Slots : disk[u][e] = NoFile \/ disk[u][e].keys = {g}
    <3>1. CASE S = {t}
      BY <1>2, <2>1, <3>1, TierIsOwn DEF Exists
    <3>2. CASE NoneMissed
      BY <1>2, <2>1, <3>2, WorksOnOwn DEF Exists, NoneMissed
    <3> QED
      BY <1>1, <3>1, <3>2 DEF Scopes
  <2>3. \A u \in S, e \in Slots : disk'[u][e] = NoFile \/ disk'[u][e].keys = {g}
    BY <1>3, <1>6, <2>2 DEF Wrote, Removes, Writes
  <2>4. OnDisk(S, g)'
    BY <1>1, <2>1 DEF Writes
  <2> QED
    BY <2>1, <2>2, <2>3, <2>4
<1> QED
  BY <1>5, <1>6

(* Once past an eval key a run never writes a raw key again, so that one of*)
(* its own that was whole is whole for as long as it is there.             *)
LEMMA EvalDoneKept ==
  ASSUME IInv, [Next]_vars, NEW g \in Runs, NEW t \in Tiers, EvalDone(g, t)
  PROVE  EvalDone(g, t)'
<1> USE DEF RollsBack, AtWork, Past
<1>1. CASE UNCHANGED vars
  BY <1>1 DEF vars, EvalDone, PastEval, Ended, RawKeys
<1>2. CASE ~UNCHANGED vars
  <2>1. PICK h \in Runs : Run(h)
    BY <1>2 DEF Next
  <2>2. PastEval(g, t)'
    <3>1. CASE h # g
      BY <2>1, <3>1, OwnPlace DEF IInv, EvalDone, PastEval, Ended
    <3>2. CASE h = g /\ pc'[g] \notin Ended /\ ~RollsBack(g)'
      <4>1. /\ pc[g] \notin Ended /\ pc[g] \notin {"start", "check"} /\ file[g] \in Written
            /\ tier[g] \in Tiers /\ (pc[g] = "rename" => file[g] = "SecKey.json.tmp")
        BY <2>1, <3>2, OwnPlace DEF IInv, EvalDone, PastEval, TypesOK, TypeOK, RunOK, TierAtWork,
           Ended
      <4>2. ~RollsBack(g)
        BY <2>1, <3>2, PastKept DEF Ended
      <4>3. CASE OpenFile(g) \/ MakeDir(g) \/ CheckEmpty(g)
        BY <3>2, <4>1, <4>2, <4>3 DEF IInv, TypesOK, TypeOK, OpenFile, MakeDir, CheckEmpty, Goto,
           RollBack, EvalDone, PastEval
      <4>4. CASE WriteFile(g)
        BY <3>2, <4>1, <4>2, <4>4 DEF IInv, TypesOK, TypeOK, WriteFile, Goto,
           RollBack, EvalDone, PastEval, AfterWrite, Written
      <4>5. CASE RenameSecKey(g) \/ RemoveRawEncKey(g)
        BY <3>2, <4>1, <4>2, <4>5 DEF IInv, TypesOK, TypeOK, RenameSecKey, RemoveRawEncKey, Goto,
           RollBack, EvalDone, PastEval, Tiers, Ended
      <4>6. CASE Crash(g)
        BY <3>2, <4>6 DEF IInv, TypesOK, TypeOK, Crash, Goto, Ended
      <4> QED
        BY <2>1, <3>2, <4>1, <4>2, <4>3, <4>4, <4>5, <4>6 DEF Run, Start, Check, RemoveArtifact,
           RemoveDir
    <3> QED
      BY <3>1, <3>2 DEF PastEval, Ended
  <2>3. ASSUME NEW f \in RawKeys, disk'[t][f].keys = {g}, disk'[t][f] # disk[t][f]
        PROVE  FALSE
    <3>1. Wrote(h, t, f) /\ disk'[t][f] # NoFile
      BY <2>1, <2>3, FileStep, FileNames, WholeFile DEF RawKeys
    <3>2. h = g /\ pc[g] \in {"open", "write"} /\ tier[g] = t /\ file[g] = f
      BY <2>3, <3>1 DEF Wrote, Removes, Writes
    <3> QED
      BY <3>2 DEF EvalDone, PastEval, Ended, RawKeys
  <2> QED
    BY <2>2, <2>3 DEF EvalDone, RawKeys
<1> QED
  BY <1>1, <1>2

(* The slots of a scope hold the keys of one run: a run starts to write    *)
(* when there are none.                                                    *)
LEMMA OneOnDiskKept ==
  ASSUME IInv, OneOnDisk, [Next]_vars
  PROVE  OneOnDisk'
<1> SUFFICES ASSUME NEW S \in Scopes
              PROVE  \A k, d \in Keys : (OnDisk(S, k) /\ OnDisk(S, d))' => k = d
  BY MissedGrows DEF OneOnDisk, IInv, Keys
<1>1. CASE \A t \in S, s \in Slots : disk'[t][s] = disk[t][s]
  BY <1>1 DEF OneOnDisk, OnDisk
<1>2. CASE \E t \in S, s \in Slots : disk'[t][s] # disk[t][s]
  <2>1. PICK g \in Runs : Run(g)
    BY <1>2 DEF Next, vars
  <2>2. \/ \A k : OnDisk(S, k)' => OnDisk(S, k)
        \/ \A k : OnDisk(S, k)' => k = g
    BY <1>2, <2>1, ChangesScope
  <2> QED
    BY <2>2 DEF OneOnDisk
<1> QED
  BY <1>1, <1>2

(* What a run does keeps what is true of the slots of a tier.              *)
LEMMA SlotsKept ==
  ASSUME ~Concurrent, IInv, IInv', [Next]_vars, NEW t \in Tiers, SlotsOK(t)
  PROVE  SlotsOK(t)'
<1> USE DEF Removes, Writes
<1>1. ASSUME NEW s \in Slots
      PROVE  disk'[t][s] = disk[t][s] \/ \E h \in Runs : Run(h) /\ Wrote(h, t, s)
  BY FileStep DEF Next, vars, Files
<1>2. ASSUME NEW s \in Slots
      PROVE  /\ Exists(t, s)' => \E key \in Keys : disk'[t][s].keys = {key}
             /\ disk'[t][s].keys = {Old} => disk'[t][s] = Whole(Old)
  <2>1. CASE disk'[t][s] = disk[t][s]
    BY <2>1 DEF SlotsOK, Exists, NoFile
  <2>2. CASE disk'[t][s] = NoFile
    BY <2>2, WholeFile DEF Exists, NoFile
  <2>3. CASE \E h \in Runs : disk'[t][s].keys = {h}
    BY <2>3, OldAssumption DEF Keys
  <2> QED
    BY <1>1, <2>1, <2>2, <2>3 DEF Wrote
<1>3. disk'[t]["SecKey.bin"] \in {NoFile, Whole(Old)} /\ disk'[t]["EvalKey.json"] = NoFile
  BY <1>1, SlotNames DEF SlotsOK, Wrote
<1>4. ASSUME NEW g \in Runs, disk'[t]["SecKey.json"].keys = {g}
      PROVE  EvalDone(g, t)'
  <2>1. CASE disk'[t]["SecKey.json"] = disk[t]["SecKey.json"]
    BY <1>4, <2>1, EvalDoneKept DEF SlotsOK
  <2>2. CASE disk'[t]["SecKey.json"] # disk[t]["SecKey.json"]
    <3>1. PICK h \in Runs : Run(h) /\ Wrote(h, t, "SecKey.json")
      BY <1>1, <2>2, SlotNames
    <3>2. h = g /\ pc'[g] = "open" /\ file'[g] = "EncKey.json" /\ tier'[g] = t
      BY <1>4, <3>1, WholeFile DEF Wrote
    <3>3. disk'[t]["EvalKey.bin"] = Whole(g) /\ disk'[t]["EncKey.bin"] = Whole(g)
      BY <3>2, FileNames DEF IInv, RunOK, TierAtWork, Holds, Made, Whole, Tiers
    <3> QED
      BY <3>2, <3>3, WholeFile DEF EvalDone, PastEval, RawKeys
  <2> QED
    BY <2>1, <2>2
<1> QED
  BY <1>2, <1>3, <1>4 DEF SlotsOK, NoFile, Whole, Keys, Slots, Artifacts

(* What is known of the directory is kept by every step of a run, and by   *)
(* every step of a reader.                                                 *)
LEMMA DirectoryStep ==
  ASSUME ~Concurrent, DirectoryOK, [Next]_vars
  PROVE  DirectoryOK'
<1>1. IInv'
  BY NextInvariant DEF DirectoryOK
<1>2. OneOnDisk'
  BY OneOnDiskKept DEF DirectoryOK
<1>3. \A t \in Tiers : SlotsOK(t)'
  BY <1>1, SlotsKept DEF DirectoryOK
<1> QED
  BY <1>1, <1>2, <1>3 DEF DirectoryOK, Tiers

(* It is known of every directory a first run may find.                    *)
LEMMA DirectoryInit ==
  ASSUME Init
  PROVE  DirectoryOK
<1>1. \A t \in Tiers : \A f \in Files : disk[t][f] \in {NoFile, Whole(Old)}
  BY DEF Init, Holding
<1>2. \A t \in Tiers : disk[t]["EvalKey.json"] = NoFile
  BY FileNames DEF Init, Holding, Trio
<1>3. \A t \in Tiers : SlotsOK(t)
  BY <1>1, <1>2, FileNames, SlotNames, WholeFile, OldAssumption DEF SlotsOK, Exists, Keys
<1>4. OneOnDisk
  <2>1. \A S \in Scopes : S \subseteq Tiers
    BY DEF Scopes
  <2> QED
    BY <1>1, <2>1, WholeFile DEF OneOnDisk, OnDisk, Files
<1> QED
  BY <1>3, <1>4, InitInvariant DEF DirectoryOK

-----------------------------------------------------------------------------
(* The calls of the reader.                                                *)

(* What is left of a list of parts after its first.                        *)
LEMMA ListFacts ==
  /\ \A l \in ExistLists : /\ l \in Seq(KeyParts) /\ Len(l) <= 3
                           /\ l # <<>> => Head(l) \in KeyParts /\ Tail(l) \in ExistLists
  /\ OpenLists \subseteq ExistLists
  /\ \A l \in OpenLists \ {<<>>} : Head(l) \in {"Enc", "Sec"} /\ Tail(l) \in OpenLists
  /\ Head(<<"Eval">>) = "Eval" /\ Tail(<<"Eval">>) = <<>> /\ <<"Eval">> \in ExistLists
<1> USE DEF ExistLists, OpenLists, KeyParts
<1>1. /\ Tail(<<"Enc">>) = <<>> /\ Tail(<<"Sec">>) = <<>> /\ Tail(<<"Eval">>) = <<>>
      /\ Tail(<<"Enc", "Sec">>) = <<"Sec">> /\ Tail(<<"Eval", "Sec">>) = <<"Sec">>
      /\ Tail(<<"Enc", "Eval", "Sec">>) = <<"Eval", "Sec">>
  OBVIOUS
<1>2. /\ Head(<<"Enc">>) = "Enc" /\ Head(<<"Sec">>) = "Sec" /\ Head(<<"Eval">>) = "Eval"
      /\ Head(<<"Enc", "Sec">>) = "Enc" /\ Head(<<"Eval", "Sec">>) = "Eval"
      /\ Head(<<"Enc", "Eval", "Sec">>) = "Enc"
  OBVIOUS
<1>3. ASSUME NEW l \in ExistLists
      PROVE  l \in Seq(KeyParts) /\ Len(l) <= 3
  <2>1. /\ <<"Enc">> \in Seq(KeyParts) /\ <<"Sec">> \in Seq(KeyParts)
        /\ <<"Eval">> \in Seq(KeyParts) /\ <<"Enc", "Sec">> \in Seq(KeyParts)
        /\ <<"Eval", "Sec">> \in Seq(KeyParts) /\ <<"Enc", "Eval", "Sec">> \in Seq(KeyParts)
        /\ <<>> \in Seq(KeyParts)
    OBVIOUS
  <2>2. /\ Len(<<"Enc">>) = 1 /\ Len(<<"Sec">>) = 1 /\ Len(<<"Eval">>) = 1 /\ Len(<<>>) = 0
        /\ Len(<<"Enc", "Sec">>) = 2 /\ Len(<<"Eval", "Sec">>) = 2
        /\ Len(<<"Enc", "Eval", "Sec">>) = 3
    OBVIOUS
  <2>3. l \in Seq(KeyParts)
    BY <2>1
  <2>4. Len(l) \in 0..3
    BY <2>2
  <2>5. \A n \in 0..3 : n <= 3
    OBVIOUS
  <2> QED
    BY <2>3, <2>4, <2>5, Zenon
<1>4. ASSUME NEW l \in ExistLists, l # <<>>
      PROVE  Head(l) \in KeyParts /\ Tail(l) \in ExistLists
  BY <1>1, <1>2, <1>4
<1>5. ASSUME NEW l \in OpenLists, l # <<>>
      PROVE  Head(l) \in {"Enc", "Sec"} /\ Tail(l) \in OpenLists
  BY <1>1, <1>2, <1>5
<1> QED
  BY <1>1, <1>2, <1>3, <1>4, <1>5

(* Names that follow one another.                                          *)
LEMMA JoinTwo ==
  ASSUME NEW x, NEW y
  PROVE  <<x>> \o <<y>> = <<x, y>>
<1> DEFINE S == {x, y}
<1>1. ASSUME NEW p \in Seq(S), Len(p) = 2, p[1] = x, p[2] = y PROVE p = <<x, y>>
  BY <1>1
<1>2. /\ <<x>> \o <<y>> \in Seq(S) /\ Len(<<x>> \o <<y>>) = 2
      /\ (<<x>> \o <<y>>)[1] = x /\ (<<x>> \o <<y>>)[2] = y
  OBVIOUS
<1> QED
  BY <1>1, <1>2

(* Two names that a third one follows.                                     *)
LEMMA JoinThree ==
  ASSUME NEW x, NEW y, NEW z
  PROVE  <<x, y>> \o <<z>> = <<x, y, z>>
<1> DEFINE S == {x, y, z}
<1>1. ASSUME NEW p \in Seq(S), Len(p) = 3, p[1] = x, p[2] = y, p[3] = z PROVE p = <<x, y, z>>
  BY <1>1
<1>2. /\ <<x, y>> \o <<z>> \in Seq(S) /\ Len(<<x, y>> \o <<z>>) = 3
      /\ (<<x, y>> \o <<z>>)[1] = x /\ (<<x, y>> \o <<z>>)[2] = y /\ (<<x, y>> \o <<z>>)[3] = z
  OBVIOUS
<1> QED
  BY <1>1, <1>2

(* An item that is not wanted adds nothing.                                *)
LEMMA Wanted ==
  ASSUME NEW parts \in PartLists, NEW part \in KeyParts, NEW item
  PROVE  IfWanted(parts, part, item) = IF parts \in {{}, {part}} THEN <<item>> ELSE <<>>
BY DEF IfWanted, resolveKeyParts, PartLists, KeyParts

(* The parts a call begins with, which the secret key ends if it is wanted.*)
LEMMA WantedLists ==
  ASSUME NEW parts \in PartLists
  PROVE  /\ IfWanted(parts, "Enc", "Enc") \o IfWanted(parts, "Eval", "Eval")
              \o IfWanted(parts, "Sec", "Sec") \in ExistLists \ {<<>>}
         /\ "Sec" \in resolveKeyParts(parts) =>
              IfWanted(parts, "Enc", "Enc") \o IfWanted(parts, "Eval", "Eval")
                \o IfWanted(parts, "Sec", "Sec") \in {<<"Enc", "Eval", "Sec">>, <<"Sec">>}
         /\ ToMaterialise(parts) \in OpenLists
<1>1. /\ <<"Enc">> \o <<"Eval">> = <<"Enc", "Eval">>
      /\ <<"Enc", "Eval">> \o <<"Sec">> = <<"Enc", "Eval", "Sec">>
      /\ <<"Enc">> \o <<"Sec">> = <<"Enc", "Sec">>
  <2>1. <<"Enc">> \o <<"Eval">> = <<"Enc", "Eval">>
    BY JoinTwo, Zenon
  <2>2. <<"Enc", "Eval">> \o <<"Sec">> = <<"Enc", "Eval", "Sec">>
    BY JoinThree, Zenon
  <2>3. <<"Enc">> \o <<"Sec">> = <<"Enc", "Sec">>
    BY JoinTwo, Zenon
  <2> QED
    BY <2>1, <2>2, <2>3, Zenon
<1>2. \A x, y : /\ <<x>> \o <<>> = <<x>> /\ <<>> \o <<x>> = <<x>>
                /\ <<x, y>> \o <<>> = <<x, y>>
                /\ <<>> \o <<>> = <<>>
  OBVIOUS
<1> DEFINE w(part) == IfWanted(parts, part, part)
<1>3. \A part \in KeyParts : w(part) = IF parts \in {{}, {part}} THEN <<part>> ELSE <<>>
  BY Wanted
<1> HIDE DEF w
<1>4. CASE parts = {}
  <2>1. w("Enc") = <<"Enc">> /\ w("Eval") = <<"Eval">> /\ w("Sec") = <<"Sec">>
    BY <1>3, <1>4 DEF KeyParts
  <2>2. w("Enc") \o w("Eval") \o w("Sec") = <<"Enc", "Eval", "Sec">>
    BY <1>1, <1>2, <2>1
  <2>3. w("Enc") \o w("Sec") = <<"Enc", "Sec">>
    BY <1>1, <1>2, <2>1
  <2> QED
    BY <1>4, <2>2, <2>3 DEF w, ToMaterialise, ExistLists, OpenLists, resolveKeyParts
<1>5. CASE parts = {"Enc"}
  <2>1. w("Enc") = <<"Enc">> /\ w("Eval") = <<>> /\ w("Sec") = <<>>
    BY <1>3, <1>5 DEF KeyParts
  <2>2. w("Enc") \o w("Eval") \o w("Sec") = <<"Enc">>
    BY <1>1, <1>2, <2>1
  <2>3. w("Enc") \o w("Sec") = <<"Enc">>
    BY <1>1, <1>2, <2>1
  <2> QED
    BY <1>5, <2>2, <2>3 DEF w, ToMaterialise, ExistLists, OpenLists, resolveKeyParts
<1>6. CASE parts = {"Eval"}
  <2>1. w("Enc") = <<>> /\ w("Eval") = <<"Eval">> /\ w("Sec") = <<>>
    BY <1>3, <1>6 DEF KeyParts
  <2>2. w("Enc") \o w("Eval") \o w("Sec") = <<"Eval">>
    BY <1>1, <1>2, <2>1
  <2>3. w("Enc") \o w("Sec") = <<>>
    BY <1>1, <1>2, <2>1
  <2> QED
    BY <1>6, <2>2, <2>3 DEF w, ToMaterialise, ExistLists, OpenLists, resolveKeyParts
<1>7. CASE parts = {"Sec"}
  <2>1. w("Enc") = <<>> /\ w("Eval") = <<>> /\ w("Sec") = <<"Sec">>
    BY <1>3, <1>7 DEF KeyParts
  <2>2. w("Enc") \o w("Eval") \o w("Sec") = <<"Sec">>
    BY <1>1, <1>2, <2>1
  <2>3. w("Enc") \o w("Sec") = <<"Sec">>
    BY <1>1, <1>2, <2>1
  <2> QED
    BY <1>7, <2>2, <2>3 DEF w, ToMaterialise, ExistLists, OpenLists, resolveKeyParts
<1> QED
  BY <1>4, <1>5, <1>6, <1>7 DEF PartLists, KeyParts

(* What was read has its type.                                             *)
LEMMA NothingIsLoaded ==
  /\ NothingLoaded \in [Tiers -> [KeyParts -> Content]]
  /\ \A t \in Tiers, part \in KeyParts : NothingLoaded[t][part] = NoFile
BY NoFileIsContent DEF NothingLoaded

(* A staging directory goes, or is left over.                              *)
LEMMA CleanUpLeaves ==
  ASSUME NEW objects, NEW t \in Tiers, NEW left \in CleanUp(objects, t)
  PROVE  left \subseteq (objects \ {<<t, "stage">>}) \cup Leftovers
<1>1. \/ left = objects \ {<<t, "stage">>}
      \/ left = (objects \ {<<t, "stage">>}) \cup {<<t, Stuck>>}
  BY DEF CleanUp
<1>2. <<t, Stuck>> \in Leftovers
  BY DEF Leftovers
<1> QED
  BY <1>1, <1>2

(* What is left over is no staging directory to come.                      *)
LEMMA LeftoversAreOld ==
  /\ Leftovers \subseteq Tiers \X (Objects \cup {Stuck})
  /\ Leftovers \cap (Tiers \X {"stage"}) = {}
  /\ \A t : Bundles(t) \cap (Tiers \X {"stage"}) = {}
  /\ \A t \in Tiers : Bundles(t) \subseteq Tiers \X (Objects \cup {Stuck})
BY DEF Leftovers, Bundles, Objects, Stuck

(* A step that fails leaves nothing of an OpenKeys behind, but staging     *)
(* directories that could not be removed, and leaves the open keys of an   *)
(* eval-key reader alone.                                                  *)
LEMMA FailKeeps ==
  ASSUME CallOK, HeldOK, call.does # "nothing",
         NEW answer \in {"absent", "failed"}, call.does = "exist" => answer = "absent",
         NEW left, Fail(answer, left), call.does # "open" => left = held,
         call.does = "open" /\ call.tier = "rmp" => left \subseteq Leftovers,
         call.does = "open" /\ call.tier = "mm" => left \subseteq Leftovers \cup Bundles("rmp")
  PROVE  CallOK' /\ HeldOK'
<1>1. /\ call' \in Calls /\ call'.does = call.does /\ call'.tier = call.tier
      /\ call'.pc = answer /\ call'.todo = <<>> /\ call.tier \in Tiers
  <2>1. "EncKey.bin" \in Slots /\ <<>> \in Seq(KeyParts)
    BY SlotNames
  <2> QED
    BY <2>1 DEF CallOK, Calls, Fail
<1>2. /\ call.does = "open" => held' \subseteq Leftovers
      /\ call.does # "open" => held' = held
  <2>1. call.does = "open" /\ call.tier = "rmp" => held' \subseteq Leftovers
    BY DEF Fail
  <2>2. call.does = "open" /\ call.tier = "mm" => held' \subseteq Leftovers
    BY DEF Fail, Bundles
  <2>3. call.does # "open" => held' = held
    BY DEF Fail
  <2> QED
    BY <1>1, <2>1, <2>2, <2>3 DEF Tiers
<1>3. loaded' = NothingLoaded
  BY DEF Fail
<1>4. CallOK'
  <2>1. held' \subseteq Tiers \X (Objects \cup {Stuck})
    BY <1>2, LeftoversAreOld DEF CallOK
  <2> QED
    BY <1>1, <1>3, <2>1, NothingIsLoaded DEF CallOK, ExistOK, OpenOK, EvalOK, OpenLists,
       ExistLists, Slotting
<1>5. HeldOK'
  <2>1. CASE call.does = "open"
    BY <1>1, <1>2, <2>1, LeftoversAreOld DEF HeldOK, Slotting
  <2>2. CASE call.does = "exist"
    BY <1>1, <1>2, <2>2 DEF HeldOK, Slotting
  <2>3. CASE call.does = "eval"
    BY <1>1, <1>2, <2>3 DEF HeldOK, Slotting
  <2> QED
    BY <2>1, <2>2, <2>3 DEF CallOK, Calls
<1> QED
  BY <1>4, <1>5

(* A failure after which an OpenKeys cleans up what it staged.             *)
LEMMA CleanUpKeeps ==
  ASSUME CallOK, HeldOK, call.does = "open", call.pc \in Slotting \cup {"build"},
         NEW answer \in {"absent", "failed"}, NEW objects, objects \subseteq held,
         NEW left \in CleanUp(objects, call.tier), Fail(answer, left)
  PROVE  CallOK' /\ HeldOK'
<1>1. call.tier \in Tiers /\ left \subseteq (held \ {<<call.tier, "stage">>}) \cup Leftovers
  BY CleanUpLeaves DEF CallOK, Calls
<1>2. CASE call.tier = "rmp"
  <2>1. held \subseteq Leftovers \cup {<<"rmp", "stage">>}
    BY <1>2 DEF HeldOK, Slotting
  <2>2. left \subseteq Leftovers
    BY <1>1, <1>2, <2>1
  <2> QED
    BY <1>2, <2>2, FailKeeps
<1>3. CASE call.tier = "mm"
  <2>1. held \subseteq Leftovers \cup Bundles("rmp") \cup {<<"mm", "stage">>}
    BY <1>3 DEF HeldOK, Slotting
  <2>2. left \subseteq Leftovers \cup Bundles("rmp")
    BY <1>1, <1>3, <2>1
  <2> QED
    BY <1>3, <2>2, FailKeeps
<1> QED
  BY <1>1, <1>2, <1>3 DEF Tiers

(* A slot that cannot be materialised.                                     *)
LEMMA FailSlotKeeps ==
  ASSUME CallOK, HeldOK, call.does # "nothing", call.pc \in Slotting,
         NEW answer \in {"absent", "failed"}, call.does = "exist" => answer = "absent",
         FailSlot(answer)
  PROVE  CallOK' /\ HeldOK'
<1>1. CASE call.does = "open"
  BY <1>1, CleanUpKeeps DEF FailSlot
<1>2. CASE call.does # "open"
  BY <1>2, FailKeeps DEF FailSlot
<1> QED
  BY <1>1, <1>2

(* A call that begins has made nothing.                                    *)
LEMMA BeginKeeps ==
  ASSUME CallOK, HeldOK,
         \/ \E parts \in PartLists : BeginKeysExist(parts) \/ BeginOpenKeys(parts)
         \/ BeginEvalKeys
  PROVE  CallOK' /\ HeldOK'
<1>1. CASE \E parts \in PartLists : BeginKeysExist(parts)
  <2>1. PICK todo \in ExistLists \ {<<>>}, parts \in PartLists :
          call' = [Idle EXCEPT !.does = "exist", !.parts = parts, !.pc = "json", !.todo = todo]
    BY <1>1, WantedLists DEF BeginKeysExist
  <2>2. /\ call' \in Calls /\ call'.does = "exist" /\ call'.pc = "json" /\ call'.todo = todo
        /\ call'.tier = "rmp"
    BY <2>1, ListFacts, SlotNames DEF Idle, Calls, Tiers
  <2>3. loaded' = loaded /\ held' = {}
    BY <1>1 DEF BeginKeysExist, CallOK
  <2>4. CallOK'
    BY <2>2, <2>3 DEF CallOK, ExistOK, OpenOK, EvalOK, ExistLists, OpenLists, Slotting
  <2> QED
    BY <2>2, <2>3, <2>4 DEF HeldOK
<1>2. CASE \E parts \in PartLists : BeginOpenKeys(parts)
  <2>1. PICK todo \in OpenLists, parts \in PartLists :
          call' = [Idle EXCEPT !.does = "open", !.parts = parts, !.pc = "stage", !.todo = todo]
    BY <1>2, WantedLists DEF BeginOpenKeys
  <2>2. /\ call' \in Calls /\ call'.does = "open" /\ call'.pc = "stage" /\ call'.todo = todo
        /\ call'.tier = "rmp"
    BY <2>1, ListFacts, SlotNames DEF Idle, Calls, Tiers
  <2>3. loaded' = loaded /\ held' = {}
    BY <1>2 DEF BeginOpenKeys, CallOK
  <2>4. CallOK'
    BY <2>2, <2>3 DEF CallOK, ExistOK, OpenOK, EvalOK, OpenLists, Slotting
  <2> QED
    BY <2>2, <2>3, <2>4 DEF HeldOK
<1>3. CASE BeginEvalKeys
  <2>1. /\ call' \in Calls /\ call'.does = "eval" /\ call'.pc = "json" /\ call'.todo = <<"Eval">>
        /\ loaded' = loaded /\ held' = held
        /\ call.does = "open" /\ call.pc = "opened"
    BY <1>3, ListFacts DEF BeginEvalKeys, CallOK, Calls, Tiers
  <2>2. CallOK'
    BY <2>1 DEF CallOK, ExistOK, OpenOK, EvalOK, Slotting
  <2> QED
    BY <2>1, <2>2 DEF HeldOK, Slotting, Tiers
<1> QED
  BY <1>1, <1>2, <1>3

(* The staging directory of a tier is made.                                *)
LEMMA MakeStageKeeps ==
  ASSUME CallOK, HeldOK, MakeStage
  PROVE  CallOK' /\ HeldOK'
<1>1. call.does = "open" /\ call.pc = "stage" /\ call.tier \in Tiers /\ call.todo \in OpenLists
  BY DEF CallOK, Calls, MakeStage, ExistOK, OpenOK, EvalOK, Slotting
<1>2. /\ call.tier = "rmp" => held \subseteq Leftovers
      /\ call.tier = "mm" => held \subseteq Leftovers \cup Bundles("rmp")
  <2>1. held \cap (Tiers \X {"stage"}) = {} /\ <<"mm", "stage">> \in Tiers \X {"stage"}
    BY <1>1 DEF HeldOK, Slotting, Tiers
  <2> QED
    BY <1>1, <2>1 DEF HeldOK
<1>3. CASE Fail("failed", held)
  BY <1>1, <1>2, <1>3, FailKeeps
<1>4. CASE ~Fail("failed", held)
  <2>1. held' = held \cup {<<call.tier, "stage">>} /\ loaded' = loaded
        /\ call' = [call EXCEPT !.pc = AfterSlots(call.todo)]
    BY <1>4 DEF MakeStage
  <2>2. /\ call' \in Calls /\ call'.does = "open" /\ call'.tier = call.tier
        /\ call'.todo = call.todo /\ call'.pc \in {"json", "build"}
        /\ call'.pc = "json" => call.todo # <<>>
    BY <1>1, <2>1 DEF CallOK, Calls, AfterSlots
  <2>3. CallOK'
    BY <1>1, <2>1, <2>2 DEF CallOK, ExistOK, OpenOK, EvalOK, Slotting, Objects
  <2>4. HeldOK'
    <3>1. CASE call.tier = "rmp"
      BY <1>2, <2>1, <2>2, <3>1 DEF HeldOK, Slotting
    <3>2. CASE call.tier = "mm"
      BY <1>2, <2>1, <2>2, <3>2 DEF HeldOK, Slotting
    <3> QED
      BY <1>1, <3>1, <3>2 DEF Tiers
  <2> QED
    BY <2>3, <2>4
<1> QED
  BY <1>3, <1>4

(* A part is looked for in the two slots it may be in.                     *)
LEMMA StatKeeps ==
  ASSUME CallOK, HeldOK, StatJSON \/ StatBin
  PROVE  CallOK' /\ HeldOK'
<1> DEFINE part == Head(call.todo)
           rest == Tail(call.todo)
<1>1. /\ call.pc \in {"json", "bin"} /\ call.does # "nothing"
      /\ call.todo # <<>> /\ call.todo \in ExistLists
      /\ call.does = "open" => call.todo \in OpenLists
      /\ call.does = "eval" => call.todo = <<"Eval">>
      /\ call.does = "exist" => call.tier = "rmp"
      /\ part \in KeyParts
  <2>1. /\ call.pc \in {"json", "bin"} /\ call.does # "nothing" /\ call.todo # <<>>
        /\ call.does \in {"exist", "open", "eval"}
    BY DEF StatJSON, StatBin, CallOK, Calls, Slotting
  <2>2. /\ call.does = "open" => call.todo \in OpenLists
        /\ call.does = "eval" => call.todo = <<"Eval">>
        /\ call.does = "exist" => call.todo \in ExistLists /\ call.tier = "rmp"
    BY <2>1 DEF CallOK, ExistOK, OpenOK, EvalOK
  <2> QED
    BY <2>1, <2>2, ListFacts
<1>2. CASE FailSlot("absent")
  BY <1>1, <1>2, FailSlotKeeps DEF Slotting
<1>3. CASE UNCHANGED <<loaded, held>> /\ call' = [call EXCEPT !.pc = "bin"]
  <2>1. /\ call' \in Calls /\ call'.pc = "bin" /\ call'.does = call.does
        /\ call'.todo = call.todo /\ call'.tier = call.tier
    BY <1>3 DEF CallOK, Calls
  <2>2. CallOK'
    BY <1>1, <1>3, <2>1 DEF CallOK, ExistOK, OpenOK, EvalOK, Slotting
  <2> QED
    BY <1>1, <1>3, <2>1, <2>2 DEF HeldOK, Slotting, Tiers, Bundles, Objects
<1>4. ASSUME NEW path \in {jsonName[part], binName[part]}, Found(path)
      PROVE  CallOK' /\ HeldOK'
  <2>1. path \in Slots
    BY <1>1, SlotNames DEF jsonName, binName, KeyParts
  <2>2. UNCHANGED <<loaded, held>>
    BY <1>4 DEF Found
  <2>3. CASE call.does # "exist"
    <3>1. /\ call' \in Calls /\ call'.pc = "read" /\ call'.does = call.does
          /\ call'.todo = call.todo /\ call'.tier = call.tier /\ call'.path = path
      BY <1>4, <2>1, <2>3 DEF Found, CallOK, Calls
    <3>2. CallOK'
      BY <1>1, <1>4, <2>2, <2>3, <3>1 DEF CallOK, ExistOK, OpenOK, EvalOK, Slotting
    <3> QED
      BY <1>1, <2>2, <3>1, <3>2 DEF HeldOK, Slotting, Tiers, Bundles, Objects
  <2>4. CASE call.does = "exist"
    <3>1. rest \in ExistLists /\ rest \in Seq(KeyParts)
      BY <1>1, ListFacts
    <3>2. /\ call' \in Calls /\ call'.pc \in {"json", "done"} /\ call'.does = "exist"
          /\ call'.todo = rest /\ call'.tier = call.tier /\ (call'.pc = "json" => rest # <<>>)
      BY <1>4, <2>4, <3>1 DEF Found, CallOK, Calls
    <3>3. CallOK'
      BY <1>1, <2>2, <2>4, <3>1, <3>2 DEF CallOK, ExistOK, OpenOK, EvalOK, Slotting, ExistLists,
         OpenLists
    <3> QED
      BY <2>2, <2>4, <3>2, <3>3 DEF HeldOK
  <2> QED
    BY <2>3, <2>4
<1> QED
  BY <1>2, <1>3, <1>4 DEF StatJSON, StatBin

(* What is read of a slot, and where the call goes on.                     *)
LEMMA Reads ==
  ASSUME TypeOK, CallOK, ReadSlot, ~FailSlot("failed")
  PROVE  /\ call.does \in {"open", "eval"} /\ call.tier \in Tiers
         /\ call.path \in Slots /\ Exists(call.tier, call.path)
         /\ \A t \in Tiers, part \in KeyParts :
              loaded'[t][part] = IF t = call.tier /\ part = Head(call.todo)
                                 THEN disk[call.tier][call.path] ELSE loaded[t][part]
         /\ loaded' \in [Tiers -> [KeyParts -> Content]]
         /\ call'.does = call.does
<1>1. call.pc = "read" /\ call.does \in {"open", "eval"} /\ call.tier \in Tiers
  BY DEF ReadSlot, CallOK, Calls, ExistOK
<1>2. Head(call.todo) \in KeyParts
  BY <1>1, ListFacts DEF CallOK, OpenOK, EvalOK, Slotting
<1>3. call.path \in Slots /\ call.path \in Files
  BY DEF CallOK, Calls, Files
<1>4. /\ Exists(call.tier, call.path)
      /\ loaded' = [loaded EXCEPT ![call.tier][Head(call.todo)] = disk[call.tier][call.path]]
  BY DEF ReadSlot
<1>5. disk[call.tier][call.path] \in Content
  BY <1>1, <1>3 DEF TypeOK
<1>6. call'.does = call.does
  BY <1>1 DEF ReadSlot, CallOK, Calls, Tiers
<1> QED
  BY <1>1, <1>2, <1>3, <1>4, <1>5, <1>6 DEF CallOK

(* A part is read, or it cannot be.                                        *)
LEMMA ReadSlotKeeps ==
  ASSUME TypeOK, CallOK, HeldOK, ReadSlot
  PROVE  CallOK' /\ HeldOK'
<1> DEFINE rest == Tail(call.todo)
<1>1. /\ call.pc = "read" /\ call.does \in {"open", "eval"} /\ call.tier \in Tiers
      /\ call.todo # <<>>
  BY DEF ReadSlot, CallOK, Calls, ExistOK, Slotting
<1>2. CASE FailSlot("failed")
  BY <1>1, <1>2, FailSlotKeeps DEF Slotting, CallOK, Calls, ExistOK
<1>3. CASE ~FailSlot("failed")
  <2>1. UNCHANGED held /\ loaded' \in [Tiers -> [KeyParts -> Content]]
    BY <1>3, Reads DEF ReadSlot
  <2>2. CASE call.does = "open"
    <3>1. rest \in OpenLists /\ rest \in Seq(KeyParts)
      BY <1>1, <2>2, ListFacts DEF CallOK, OpenOK
    <3>2. /\ call' = [call EXCEPT !.pc = AfterSlots(rest), !.todo = rest, !.path = "EncKey.bin"]
          /\ "EncKey.bin" \in Slots
      BY <1>3, <2>2, SlotNames DEF ReadSlot
    <3>3. /\ call' \in Calls /\ call'.does = "open" /\ call'.tier = call.tier /\ call'.todo = rest
          /\ call'.pc \in {"json", "build"} /\ (call'.pc = "json" => rest # <<>>)
      BY <2>2, <3>1, <3>2 DEF CallOK, Calls, AfterSlots
    <3>4. CallOK'
      BY <1>1, <2>1, <3>1, <3>3 DEF CallOK, ExistOK, OpenOK, EvalOK, Slotting
    <3> QED
      BY SMTT(30), <1>1, <2>1, <2>2, <3>3, <3>4 DEF HeldOK, Slotting, Tiers, Bundles, Objects
  <2>3. CASE call.does = "eval"
    <3>1. call.todo = <<"Eval">> /\ rest = <<>> /\ <<>> \in Seq(KeyParts)
      BY <1>1, <2>3, ListFacts DEF CallOK, EvalOK, Slotting
    <3>2. \/ call' = [call EXCEPT !.pc = "json", !.tier = "mm"]
          \/ call' = [call EXCEPT !.pc = "done", !.todo = rest]
      BY <1>1, <1>3, <2>3 DEF ReadSlot, Tiers
    <3>3. /\ call' \in Calls /\ call'.does = "eval"
          /\ \/ call'.pc = "json" /\ call'.todo = <<"Eval">> /\ call'.todo # <<>>
             \/ call'.pc = "done" /\ call'.todo = <<>>
      <4>1. CASE call' = [call EXCEPT !.pc = "json", !.tier = "mm"]
        BY <1>1, <2>3, <3>1, <4>1 DEF CallOK, Calls, Tiers
      <4>2. CASE call' = [call EXCEPT !.pc = "done", !.todo = rest]
        BY <1>1, <2>3, <3>1, <4>2 DEF CallOK, Calls, Tiers
      <4> QED
        BY <3>2, <4>1, <4>2
    <3>4. EvalOK'
      BY <3>3 DEF EvalOK, Slotting
    <3>5. CallOK'
      BY <1>1, <2>1, <3>3, <3>4 DEF CallOK, ExistOK, OpenOK, Slotting
    <3> QED
      BY <1>1, <2>1, <2>3, <3>3, <3>5 DEF HeldOK, Slotting, Tiers
  <2> QED
    BY <1>1, <2>2, <2>3
<1> QED
  BY <1>2, <1>3

(* A tier is built and its staging directory goes, or nothing of it stays. *)
LEMMA BuildKeeps ==
  ASSUME CallOK, HeldOK, BuildBundle
  PROVE  CallOK' /\ HeldOK'
<1>1. /\ call.pc = "build" /\ call.does = "open" /\ call.tier \in Tiers /\ call.parts \in PartLists
      /\ call.todo \in OpenLists
  BY DEF BuildBundle, CallOK, Calls, ExistOK, OpenOK, EvalOK, Slotting
<1>2. BundleOf(call.parts) \subseteq {"context", "encryptor", "decryptor"}
  BY DEF BundleOf
<1>3. CASE ContextFails
  BY <1>1, <1>3, CleanUpKeeps DEF ContextFails
<1>4. CASE EncryptorFails
  <2> DEFINE objects == (held \cup Natives({"context"})) \ Natives({"context"})
  <2>1. PICK left \in CleanUp(objects, call.tier) : Fail("failed", left)
    BY <1>4 DEF EncryptorFails
  <2>2. objects \subseteq held
    OBVIOUS
  <2> QED
    BY <1>1, <2>1, <2>2, CleanUpKeeps
<1>5. CASE DecryptorFails
  <2> DEFINE objects == (held \cup Natives(BundleOf(call.parts) \ {"decryptor"}))
                           \ Natives({"decryptor", "encryptor", "context"})
  <2>1. PICK left \in CleanUp(objects, call.tier) : Fail("failed", left)
    BY <1>5 DEF DecryptorFails
  <2>2. objects \subseteq held
    BY <1>2 DEF Natives
  <2> QED
    BY <1>1, <2>1, <2>2, CleanUpKeeps
<1>6. CASE Built
  <2>1. held' \subseteq ((held \cup Bundles(call.tier)) \ {<<call.tier, "stage">>}) \cup Leftovers
    <3> DEFINE objects == held \cup Natives(BundleOf(call.parts))
    <3>1. held' \in CleanUp(objects, call.tier)
      BY <1>6 DEF Built
    <3>2. objects \subseteq held \cup Bundles(call.tier)
      BY <1>2 DEF Natives, Bundles
    <3>3. held' \subseteq (objects \ {<<call.tier, "stage">>}) \cup Leftovers
      BY <1>1, <3>1, CleanUpLeaves
    <3> HIDE DEF objects
    <3> QED
      BY <3>2, <3>3
  <2>2. /\ ToMaterialise(call.parts) \in OpenLists
        /\ ToMaterialise(call.parts) \in Seq(KeyParts)
    BY <1>1, WantedLists, ListFacts
  <2>3. /\ call' \in Calls /\ call'.does = "open" /\ call'.tier = "mm" /\ call'.todo \in OpenLists
        /\ \/ call.tier = "rmp" /\ call'.pc = "stage"
           \/ call.tier = "mm" /\ call'.pc = "opened"
        /\ UNCHANGED loaded
    BY <1>1, <1>6, <2>2 DEF Built, CallOK, Calls, Tiers
  <2>4. held' \subseteq Tiers \X (Objects \cup {Stuck})
    BY <1>1, <2>1, LeftoversAreOld DEF CallOK
  <2>5. CallOK'
    BY <1>1, <2>3, <2>4 DEF CallOK, ExistOK, OpenOK, EvalOK, Slotting
  <2>6. CASE call.tier = "rmp"
    <3>1. held' \subseteq Leftovers \cup Bundles("rmp")
      BY <1>1, <2>1, <2>6 DEF HeldOK
    <3> QED
      BY <2>3, <2>5, <2>6, <3>1, LeftoversAreOld DEF HeldOK, Slotting
  <2>7. CASE call.tier = "mm"
    <3>1. held' \subseteq Leftovers \cup Bundles("rmp") \cup Bundles("mm")
      BY <1>1, <2>1, <2>7 DEF HeldOK
    <3> QED
      BY <2>3, <2>5, <2>7, <3>1, LeftoversAreOld DEF HeldOK, Slotting
  <2> QED
    BY <1>1, <2>6, <2>7 DEF Tiers
<1> QED
  BY <1>3, <1>4, <1>5, <1>6 DEF BuildBundle

(* The program closes what it has.                                         *)
LEMMA ReturnKeeps ==
  ASSUME CallOK, Return
  PROVE  CallOK' /\ HeldOK'
<1>1. Idle \in Calls
  BY ListFacts, SlotNames DEF Idle, Calls, Tiers, PartLists, ExistLists, OpenLists
<1>2. /\ call'.does = "nothing" /\ call'.pc = "idle" /\ call' \in Calls /\ call'.todo = <<>>
      /\ loaded' = NothingLoaded /\ held' = {}
  BY <1>1 DEF Return, Idle
<1> QED
  BY <1>2, NothingIsLoaded DEF CallOK, HeldOK, ExistOK, OpenOK, EvalOK, Slotting

(* Every step of the reader, and every step of a run, keeps where a call   *)
(* may be and what it has made.                                            *)
LEMMA CallStep ==
  ASSUME TypeOK, CallOK, HeldOK, [ReaderNext]_<<vars, readerVars>>
  PROVE  CallOK' /\ HeldOK'
<1>1. CASE UNCHANGED <<call, loaded, held>>
  <2>1. CallOK'
    BY <1>1 DEF CallOK, ExistOK, OpenOK, EvalOK
  <2>2. HeldOK'
    BY <1>1 DEF HeldOK
  <2> QED
    BY <2>1, <2>2
<1>2. CASE Read
  BY <1>2, BeginKeeps, MakeStageKeeps, StatKeeps, ReadSlotKeeps, BuildKeeps, ReturnKeeps DEF Read
<1> QED
  BY <1>1, <1>2 DEF ReaderNext, readerVars

-----------------------------------------------------------------------------
(* What was read, and the directory it was read from.                      *)

(* What a step of the reader leaves loaded.                                *)
LEMMA LoadsOne ==
  ASSUME TypeOK, CallOK, Read
  PROVE  \/ UNCHANGED loaded
         \/ loaded' = NothingLoaded
         \/ ReadSlot /\ ~FailSlot("failed")
BY DEF Read, BeginKeysExist, BeginOpenKeys, BeginEvalKeys, MakeStage, StatJSON, StatBin, Found,
   ReadSlot, BuildBundle, Built, ContextFails, EncryptorFails, DecryptorFails, Return, Fail,
   FailSlot

(* A reader leaves the directory and the runs as they are.                 *)
LEMMA ReaderSteps ==
  ASSUME [ReaderNext]_<<vars, readerVars>>
  PROVE  [Next]_vars
BY DEF ReaderNext, Next

(* Only runs are met, and each by a step.                                  *)
LEMMA MetStep ==
  ASSUME MetOK, [ReaderNext]_<<vars, readerVars>>
  PROVE  MetOK'
<1>1. \A g \in Runs : met \cup {g} \subseteq Runs /\ IsFiniteSet(met \cup {g})
  BY FS_AddElement DEF MetOK
<1>2. met' \in {met, {}} \/ \E g \in Runs : met' = met \cup {g}
  BY DEF ReaderNext, Meets, readerVars
<1> QED
  BY <1>1, <1>2, FS_EmptySet DEF MetOK

(* Nothing that was not loaded has keys that were.                         *)
LEMMA LoadedNothing ==
  ASSUME loaded = NothingLoaded, NEW S \in Scopes, NEW k
  PROVE  ~Loaded(S, k)
<1>1. S \subseteq Tiers
  BY DEF Scopes
<1> QED
  BY <1>1, NothingIsLoaded, WholeFile DEF Loaded

(* A KeysExist finds the secret key last, and it stays while the disk does.*)
LEMMA FoundStep ==
  ASSUME CallOK, FoundOK, [ReaderNext]_<<vars, readerVars>>
  PROVE  FoundOK'
<1> DEFINE lists == {<<"Enc", "Eval", "Sec">>, <<"Eval", "Sec">>, <<"Sec">>}
<1>0. /\ Tail(<<"Enc", "Eval", "Sec">>) = <<"Eval", "Sec">> /\ Tail(<<"Eval", "Sec">>) = <<"Sec">>
      /\ Tail(<<"Sec">>) = <<>> /\ Head(<<"Sec">>) = "Sec"
      /\ <<"Eval", "Sec">> # <<>> /\ <<"Sec">> # <<>>
  OBVIOUS
<1>1. CASE UNCHANGED <<vars, readerVars>>
  BY <1>1 DEF vars, readerVars, FoundOK, Exists, NoFile, resolveKeyParts
<1>2. ASSUME NEW g \in Runs, Meets(g), UNCHANGED <<call, loaded, held>> PROVE FoundOK'
  <2>1. CASE call.pc = "done" /\ met' = {}
    BY <1>2, <2>1 DEF Meets, FoundOK, Exists, NoFile, resolveKeyParts
  <2>2. CASE ~(call.pc = "done" /\ met' = {})
    BY <1>2, <2>2 DEF FoundOK, resolveKeyParts
  <2> QED
    BY <2>1, <2>2
<1>3. ASSUME NEW parts \in PartLists, BeginKeysExist(parts) PROVE FoundOK'
  <2>1. PICK order : /\ call' = [Idle EXCEPT !.does = "exist", !.parts = parts, !.pc = "json",
                                             !.todo = order]
                     /\ "Sec" \in resolveKeyParts(parts) => order \in lists
    BY <1>3, WantedLists DEF BeginKeysExist
  <2>2. call'.parts = parts /\ call'.pc = "json" /\ call'.todo = order
    BY <2>1 DEF Idle
  <2> QED
    BY <2>1, <2>2 DEF FoundOK, resolveKeyParts
<1>4. ASSUME call'.does # "exist" PROVE FoundOK'
  BY <1>4 DEF FoundOK
<1>5. ASSUME NEW path, Found(path), call.pc \in {"json", "bin"}, Exists(call.tier, path),
             path \in {jsonName[Head(call.todo)], binName[Head(call.todo)]},
             call.does = "exist", UNCHANGED vars
      PROVE  FoundOK'
  <2>1. SUFFICES ASSUME "Sec" \in resolveKeyParts(call.parts) PROVE FoundOK'
    <3>1. call'.parts = call.parts
      BY <1>5 DEF Found, CallOK, Calls
    <3> QED
      BY <2>1, <3>1 DEF FoundOK, resolveKeyParts
  <2>2. call.todo \in lists /\ call.tier = "rmp"
    BY <1>5, <2>1 DEF FoundOK, CallOK, ExistOK
  <2>3. CASE call.todo \in {<<"Enc", "Eval", "Sec">>, <<"Eval", "Sec">>}
    <3>1. Tail(call.todo) \in {<<"Eval", "Sec">>, <<"Sec">>} /\ Tail(call.todo) # <<>>
      BY <1>0, <2>3, Zenon
    <3>2. call'.pc = "json" /\ call'.todo = Tail(call.todo)
      BY <1>5, <3>1 DEF Found, CallOK, Calls
    <3> QED
      BY <3>1, <3>2 DEF FoundOK
  <2>4. CASE call.todo = <<"Sec">>
    <3>1. Head(call.todo) = "Sec" /\ Tail(call.todo) = <<>>
      BY <1>0, <2>4, Zenon
    <3>2. call'.pc = "done"
      BY <1>5, <3>1 DEF Found, CallOK, Calls
    <3>3. path \in {"SecKey.json", "SecKey.bin"}
      BY <1>5, <3>1 DEF jsonName, binName, KeyParts
    <3>4. Exists("rmp", "SecKey.json")' \/ Exists("rmp", "SecKey.bin")'
      BY <1>5, <2>2, <3>3 DEF Exists, vars, NoFile
    <3> QED
      BY <3>2, <3>4 DEF FoundOK
  <2> QED
    BY <2>2, <2>3, <2>4
<1>6. ASSUME StatJSON \/ StatBin, call.does = "exist", UNCHANGED vars PROVE FoundOK'
  <2>1. call.pc \in {"json", "bin"}
    BY <1>6 DEF StatJSON, StatBin
  <2>2. CASE FailSlot("absent")
    BY <2>2 DEF FailSlot, Fail, CallOK, Calls, FoundOK
  <2>3. CASE call' = [call EXCEPT !.pc = "bin"]
    <3>1. call'.parts = call.parts /\ call'.todo = call.todo /\ call'.pc = "bin"
          /\ call'.does = call.does
      BY <2>3 DEF CallOK, Calls
    <3> QED
      BY <2>1, <3>1 DEF FoundOK, resolveKeyParts
  <2> QED
    BY <1>5, <1>6, <2>1, <2>2, <2>3 DEF StatJSON, StatBin
<1>7. ASSUME Read, UNCHANGED vars PROVE FoundOK'
  <2>1. CASE \E parts \in PartLists : BeginOpenKeys(parts)
    BY <1>4, <2>1 DEF BeginOpenKeys, Idle
  <2>2. CASE BeginEvalKeys \/ Return
    <3>1. BeginEvalKeys => call'.does = "eval"
      BY DEF BeginEvalKeys, CallOK, Calls
    <3>2. Return => call'.does = "nothing"
      BY DEF Return, Idle
    <3> QED
      BY <1>4, <2>2, <3>1, <3>2
  <2>3. CASE MakeStage \/ BuildBundle
    <3>1. call.does = "open"
      BY <2>3 DEF MakeStage, BuildBundle, CallOK, Calls, ExistOK, EvalOK, Slotting
    <3>2. call'.does = "open"
      BY <2>3, <3>1 DEF MakeStage, BuildBundle, Built, ContextFails, EncryptorFails,
         DecryptorFails, Fail, CallOK, Calls
    <3> QED
      BY <1>4, <3>2
  <2>4. CASE ReadSlot
    <3>1. call.does \in {"open", "eval"}
      BY <2>4 DEF ReadSlot, CallOK, Calls, ExistOK
    <3>2. call'.does = call.does
      BY <2>4, <3>1 DEF ReadSlot, FailSlot, Fail, CallOK, Calls, Tiers
    <3> QED
      BY <1>4, <3>1, <3>2
  <2>5. CASE (StatJSON \/ StatBin) /\ call.does # "exist"
    BY <1>4, <2>5 DEF StatJSON, StatBin, Found, FailSlot, Fail, CallOK, Calls
  <2> QED
    BY <1>3, <1>6, <1>7, <2>1, <2>2, <2>3, <2>4, <2>5 DEF Read
<1> QED
  BY <1>1, <1>2, <1>7 DEF ReaderNext

(* A step of a run keeps what is known of the keys that were loaded.       *)
LEMMA GenerationsMet ==
  ASSUME DirectoryOK, MetOK, GenerationsOK, call.pc # "idle", NEW g \in Runs, Run(g), Meets(g),
         UNCHANGED <<call, loaded>>
  PROVE  GenerationsOK'
<1> SUFFICES ASSUME NEW S \in Scopes, NEW k \in Keys, Loaded(S, k)
             PROVE  /\ OnDisk(S, k)' \/ \E h \in met' : Past(h)'
                    /\ \A d \in Keys : OnDisk(S, d)' \/ Loaded(S, d) =>
                         k = d \/ \E x, y \in met' : x # y
  <2>1. Scopes' \subseteq Scopes
    BY MissedGrows DEF DirectoryOK, IInv, Next
  <2> QED
    BY <2>1 DEF GenerationsOK, Loaded, Keys
<1>1. met \subseteq met' /\ (disk' # disk => met' = met \cup {g})
  BY DEF Meets
<1>2. \A h \in Runs : Past(h) => Past(h)'
  BY PastKept DEF DirectoryOK, Next
<1>3. /\ OnDisk(S, k) \/ \E h \in met : Past(h)
      /\ \A d \in Keys : OnDisk(S, d) \/ Loaded(S, d) => k = d \/ \E x, y \in met : x # y
  BY DEF GenerationsOK
<1>4. (\E h \in met : Past(h)) => \E h \in met' : Past(h)'
  <2>1. met \cap Runs = met
    BY DEF MetOK
  <2> QED
    BY <1>1, <1>2, <2>1
<1>5. CASE \A t \in S, s \in Slots : disk'[t][s] = disk[t][s]
  <2>1. \A d : OnDisk(S, d)' <=> OnDisk(S, d)
    BY <1>5 DEF OnDisk, Slots, Artifacts
  <2> QED
    BY <1>1, <1>3, <1>4, <2>1
<1>6. CASE \E t \in S, s \in Slots : disk'[t][s] # disk[t][s]
  <2>1. met' = met \cup {g}
    BY <1>1, <1>6
  <2>2. CASE RollsBack(g)' /\ \A d : OnDisk(S, d)' => OnDisk(S, d)
    BY <1>1, <1>3, <2>1, <2>2 DEF Past
  <2>3. CASE /\ AtWork(g) /\ OnDisk(S, g)'
             /\ \A d : (OnDisk(S, d) => d = g) /\ (OnDisk(S, d)' => d = g)
    <3>1. CASE OnDisk(S, k)
      BY <1>1, <1>3, <2>3, <3>1
    <3>2. CASE ~OnDisk(S, k)
      <4>1. PICK h \in met : Past(h)
        BY <1>3, <3>2
      <4>2. h # g
        BY <2>3, <4>1 DEF Past, AtWork, RollsBack, Ended
      <4>3. \E x, y \in met' : x # y
        BY <2>1, <4>2
      <4> QED
        BY <1>4, <4>1, <4>3
    <3> QED
      BY <3>1, <3>2
  <2> QED
    BY <1>6, <2>2, <2>3, ChangesScope DEF DirectoryOK
<1> QED
  BY <1>5, <1>6

(* The keys that were loaded are on the disk or a run that removed them was*)
(* met, and two that differ take two runs that changed the disk.           *)
LEMMA GenerationsStep ==
  ASSUME DirectoryOK, CallOK, CallOK', MetOK, GenerationsOK, [ReaderNext]_<<vars, readerVars>>
  PROVE  GenerationsOK'
<1>0. TypeOK
  BY DEF DirectoryOK, IInv, TypesOK
<1>1. CASE loaded' = NothingLoaded
  <2>1. ASSUME NEW S \in Scopes' PROVE \A k : ~Loaded(S, k)'
    BY <1>1, NothingIsLoaded, WholeFile DEF Loaded, Scopes
  <2> QED
    BY <2>1 DEF GenerationsOK, Keys
<1>2. ASSUME UNCHANGED <<vars, loaded, met>> PROVE GenerationsOK'
  <2>1. Scopes' = Scopes /\ Keys' = Keys /\ \A h \in met : Past(h)' <=> Past(h)
    BY <1>2 DEF vars, Scopes, NoneMissed, Keys, Past, RollsBack, Ended, Tiers
  <2>2. \A S, k : (OnDisk(S, k)' <=> OnDisk(S, k)) /\ (Loaded(S, k)' <=> Loaded(S, k))
    BY <1>2 DEF vars, OnDisk, Loaded, Slots, Artifacts, KeyParts
  <2> QED
    BY <1>2, <2>1, <2>2, Zenon DEF GenerationsOK
<1>3. ASSUME Read, ReadSlot, ~FailSlot("failed"), UNCHANGED vars, met' = met
      PROVE  GenerationsOK'
  <2> SUFFICES ASSUME NEW S \in Scopes, NEW k \in Keys, Loaded(S, k)'
               PROVE  /\ OnDisk(S, k) \/ \E h \in met : Past(h)
                      /\ \A d \in Keys : OnDisk(S, d) \/ Loaded(S, d)' =>
                           k = d \/ \E x, y \in met : x # y
    BY <1>3 DEF vars, GenerationsOK, Scopes, NoneMissed, OnDisk, Past, RollsBack, Ended, Keys,
       Slots, Artifacts, Tiers
  <2>1. S \subseteq Tiers
    BY DEF Scopes
  <2>2. \A d : Loaded(S, d)' => Loaded(S, d) \/ OnDisk(S, d)
    BY <1>0, <1>3, <2>1, Reads DEF Loaded, OnDisk, KeyParts
  <2>3. \A d \in Keys : OnDisk(S, k) /\ OnDisk(S, d) => k = d
    BY DEF DirectoryOK, OneOnDisk
  <2>4. \A c, d \in Keys : Loaded(S, c) /\ (OnDisk(S, d) \/ Loaded(S, d)) =>
                             c = d \/ \E x, y \in met : x # y
    BY DEF GenerationsOK
  <2> QED
    BY <2>2, <2>3, <2>4 DEF GenerationsOK
<1>4. ASSUME NEW g \in Runs, Run(g), Meets(g), UNCHANGED <<call, loaded>> PROVE GenerationsOK'
  <2>1. CASE call.pc = "idle"
    BY <1>1, <1>4, <2>1 DEF CallOK
  <2> QED
    BY <1>4, <2>1, GenerationsMet
<1>5. ASSUME Read, met' = (IF call'.pc = "idle" THEN {} ELSE met), UNCHANGED vars
      PROVE  GenerationsOK'
  <2>1. CASE call'.pc = "idle"
    BY <1>1, <2>1 DEF CallOK, NothingLoaded, NoFile, Tiers, KeyParts
  <2>2. CASE call'.pc # "idle"
    BY <1>0, <1>1, <1>2, <1>3, <1>5, <2>2, LoadsOne
  <2> QED
    BY <2>1, <2>2
<1> QED
  BY <1>2, <1>4, <1>5 DEF ReaderNext, readerVars

(* A slot is read: the secret key is whole and its run is past the eval    *)
(* key, or the eval key is the whole one of that run.                      *)
LEMMA ReadPartsOK ==
  ASSUME DirectoryOK, CallOK, NEW t \in Tiers, PartsOK(t), ReadSlot, ~FailSlot("failed"),
         UNCHANGED vars
  PROVE  PartsOK(t)'
<1> DEFINE part == Head(call.todo)
           content == disk[call.tier][call.path]
<1>0. TypeOK /\ call.pc = "read"
  BY DEF DirectoryOK, IInv, TypesOK, ReadSlot
<1>1. /\ call.does \in {"open", "eval"} /\ call'.does = call.does
      /\ call.path \in {jsonName[part], binName[part]} /\ call.path \in Slots
      /\ Exists(call.tier, call.path)
      /\ \A p \in KeyParts : loaded'[t][p] = IF t = call.tier /\ p = part THEN content
                                             ELSE loaded[t][p]
      /\ part \in KeyParts
      /\ call.does = "open" => part \in {"Enc", "Sec"}
      /\ call.does = "eval" => part = "Eval"
      /\ call.path = jsonName[part] => content.torn = {}
  <2>1. /\ call.does = "open" => part \in {"Enc", "Sec"}
        /\ call.does = "eval" => part = "Eval"
    BY <1>0, ListFacts DEF CallOK, OpenOK, EvalOK, Slotting
  <2> QED
    BY <1>0, <2>1, Reads DEF CallOK, ReadSlot, KeyParts
<1>2. \A key \in Runs : EvalDone(key, t)' <=> EvalDone(key, t)
  BY DEF EvalDone, PastEval, Past, RollsBack, AtWork, Ended, vars, RawKeys
<1>3. SlotsOK(t)
  BY DEF DirectoryOK
<1>4. CASE t # call.tier \/ part = "Enc"
  <2>1. loaded'[t]["Eval"] = loaded[t]["Eval"] /\ loaded'[t]["Sec"] = loaded[t]["Sec"]
    BY <1>1, <1>4 DEF KeyParts
  <2> QED
    BY <1>1, <1>2, <2>1 DEF PartsOK, Keys, NoFile, Whole
<1>5. CASE t = call.tier /\ part = "Sec"
  <2>1. call.does = "open" /\ loaded[t]["Eval"] = NoFile
    BY <1>1, <1>5 DEF PartsOK
  <2>2. loaded'[t]["Sec"] = content /\ loaded'[t]["Eval"] = loaded[t]["Eval"]
    BY <1>1, <1>5 DEF KeyParts
  <2>3. /\ content # NoFile
        /\ \E key \in Keys : content = Whole(key) /\ (key \in Runs => EvalDone(key, t))
    <3>1. CASE call.path = "SecKey.bin"
      BY <1>1, <1>3, <1>5, <3>1, OldAssumption DEF SlotsOK, Exists, Keys
    <3>2. CASE call.path = "SecKey.json"
      <4>1. PICK key \in Keys : content.keys = {key}
        BY <1>1, <1>3, <1>5 DEF SlotsOK
      <4>2. content \in Content /\ content.torn = {}
        BY <1>0, <1>1, <1>5, <3>2 DEF TypeOK, jsonName, Files
      <4>3. content = Whole(key)
        BY <4>1, <4>2 DEF Content, Whole
      <4> QED
        BY <1>1, <1>3, <1>5, <3>2, <4>1, <4>3 DEF SlotsOK, Exists
    <3> QED
      BY <1>1, <1>5, <3>1, <3>2 DEF jsonName, binName
  <2>4. NoFile.keys # content.keys
    BY <2>3, WholeFile
  <2> QED
    BY <1>1, <1>2, <2>1, <2>2, <2>3, <2>4 DEF PartsOK, Keys, NoFile, Whole
<1>6. CASE t = call.tier /\ part = "Eval"
  <2>1. call.does = "eval" /\ call'.does = "eval" /\ call.path = "EvalKey.bin"
    BY <1>1, <1>3, <1>6 DEF SlotsOK, Exists, jsonName, binName
  <2>2. loaded'[t]["Eval"] = content /\ loaded'[t]["Sec"] = loaded[t]["Sec"]
    BY <1>1, <1>6 DEF KeyParts
  <2>3. PICK key \in Keys : content.keys = {key}
    BY <1>1, <1>3, <1>6 DEF SlotsOK
  <2>4. ASSUME loaded[t]["Sec"] # NoFile, content.keys = loaded[t]["Sec"].keys
        PROVE  content = loaded[t]["Sec"]
    <3>1. PICK d \in Keys : loaded[t]["Sec"] = Whole(d) /\ (d \in Runs => EvalDone(d, t))
      BY <2>4 DEF PartsOK
    <3>2. content.keys = {d}
      BY <2>4, <3>1, WholeFile
    <3>3. CASE d = Old
      BY <1>1, <1>3, <1>6, <3>1, <3>2, <3>3 DEF SlotsOK
    <3>4. CASE d \in Runs
      <4>1. content \in Content /\ content.torn = {}
        BY <1>0, <1>1, <1>6, <2>1, <3>1, <3>2, <3>4 DEF EvalDone, RawKeys, TypeOK, Files
      <4> QED
        BY <3>1, <3>2, <4>1 DEF Content, Whole
    <3> QED
      BY <3>3, <3>4 DEF Keys
  <2> QED
    BY <1>2, <2>1, <2>2, <2>3, <2>4 DEF PartsOK, Keys, NoFile, Whole
<1> QED
  BY <1>1, <1>4, <1>5, <1>6 DEF KeyParts

(* Every step keeps what is known of the parts that were read.             *)
LEMMA PartsStep ==
  ASSUME DirectoryOK, CallOK, CallOK', NEW t \in Tiers, PartsOK(t),
         [ReaderNext]_<<vars, readerVars>>
  PROVE  PartsOK(t)'
<1>0. TypeOK
  BY DEF DirectoryOK, IInv, TypesOK
<1>1. \A key \in Runs : EvalDone(key, t) => EvalDone(key, t)'
  BY ReaderSteps, EvalDoneKept DEF DirectoryOK
<1>2. CASE loaded' = NothingLoaded
  BY <1>2, NothingIsLoaded, WholeFile DEF PartsOK, KeyParts, NoFile
<1>3. CASE UNCHANGED <<loaded, call>>
  BY <1>1, <1>3 DEF PartsOK, Keys, NoFile, Whole
<1>4. CASE Read /\ UNCHANGED loaded
  <2>1. call'.does \in {"nothing", "exist", "open"} => loaded[t]["Eval"] = NoFile
    <3> USE DEF CallOK, Calls
    <3>1. CASE \E parts \in PartLists : BeginKeysExist(parts) \/ BeginOpenKeys(parts)
      BY <3>1, NothingIsLoaded DEF BeginKeysExist, BeginOpenKeys, KeyParts
    <3>2. CASE BeginEvalKeys
      BY <3>2 DEF BeginEvalKeys
    <3>3. ASSUME NEW answer, NEW left, Fail(answer, left)
          PROVE  call'.does = call.does
      BY <3>3 DEF Fail
    <3>4. CASE MakeStage \/ BuildBundle
      <4>1. call'.does = call.does
        BY <3>3, <3>4 DEF MakeStage, BuildBundle, Built, ContextFails, EncryptorFails,
           DecryptorFails
      <4> QED
        BY <4>1 DEF PartsOK
    <3>5. CASE StatJSON \/ StatBin
      <4>1. call'.does = call.does
        BY <3>3, <3>5 DEF StatJSON, StatBin, Found, FailSlot
      <4> QED
        BY <4>1 DEF PartsOK
    <3>6. CASE ReadSlot
      <4>1. call'.does = call.does
        BY <1>0, <3>3, <3>6, Reads DEF FailSlot
      <4> QED
        BY <4>1 DEF PartsOK
    <3>7. CASE Return
      BY <1>4, <3>7, NothingIsLoaded DEF Return, KeyParts
    <3> QED
      BY <1>4, <3>1, <3>2, <3>4, <3>5, <3>6, <3>7 DEF Read
  <2> QED
    BY <1>1, <1>4, <2>1 DEF PartsOK, Keys, NoFile, Whole
<1>5. CASE Read /\ UNCHANGED vars
  BY <1>0, <1>2, <1>4, <1>5, LoadsOne, ReadPartsOK
<1> QED
  BY <1>3, <1>5 DEF ReaderNext, readerVars

-----------------------------------------------------------------------------
(* The directory and the program that reads it, together.                  *)
LEMMA ReaderInvariant ==
  ASSUME ~Concurrent, RInv, [ReaderNext]_<<vars, readerVars>>
  PROVE  RInv'
<1>1. TypeOK
  BY DEF RInv, DirectoryOK, IInv, TypesOK
<1>2. DirectoryOK'
  BY ReaderSteps, DirectoryStep DEF RInv
<1>3. CallOK' /\ HeldOK' /\ MetOK'
  BY <1>1, CallStep, MetStep DEF RInv
<1>4. GenerationsOK'
  BY <1>3, GenerationsStep DEF RInv
<1>5. \A t \in Tiers : PartsOK(t)'
  BY <1>3, PartsStep DEF RInv
<1>6. FoundOK'
  BY FoundStep DEF RInv
<1> QED
  BY <1>2, <1>3, <1>4, <1>5, <1>6 DEF RInv, Tiers

(* A reader that has not begun.                                            *)
LEMMA ReaderBegins ==
  ASSUME ReaderInit
  PROVE  RInv
<1>1. Idle \in Calls /\ Idle.does = "nothing" /\ Idle.pc = "idle" /\ Idle.todo = <<>>
  BY ListFacts, SlotNames DEF Idle, Calls, Tiers, PartLists, ExistLists, OpenLists
<1>2. CallOK /\ HeldOK /\ FoundOK
  BY <1>1, NothingIsLoaded DEF ReaderInit, CallOK, HeldOK, FoundOK, ExistOK, OpenOK, EvalOK,
     Slotting
<1>3. MetOK
  BY FS_EmptySet DEF ReaderInit, MetOK
<1>4. GenerationsOK
  BY LoadedNothing DEF ReaderInit, GenerationsOK
<1>5. \A t \in Tiers : PartsOK(t)
  BY NothingIsLoaded, WholeFile DEF ReaderInit, PartsOK, KeyParts
<1> QED
  BY <1>2, <1>3, <1>4, <1>5, DirectoryInit DEF ReaderInit, RInv

(* With one run at a time the invariant holds in every reachable state.    *)
THEOREM ReaderInvariantHolds == ASSUME ~Concurrent PROVE ReaderSpec => []RInv
BY ReaderBegins, ReaderInvariant, PTL DEF ReaderSpec

(* Every state of a call, of what it read and of what it made has its      *)
(* type, for any number of runs on the path at a time.                     *)
THEOREM ReaderTypeCorrect == ReaderSpec => []ReaderTypeOK
<1> DEFINE TInv == TypesOK /\ CallOK /\ HeldOK /\ MetOK
<1>1. ReaderInit => TInv
  BY ReaderBegins, InitTypes DEF RInv, ReaderInit
<1>2. TInv /\ [ReaderNext]_<<vars, readerVars>> => TInv'
  BY ReaderSteps, TypesStep, CallStep, MetStep DEF TypesOK
<1>3. TInv => ReaderTypeOK
  <2>1. ASSUME CallOK PROVE Len(call.todo) <= 3
    <3>1. call.does = "nothing" => call.todo = <<>>
      BY <2>1 DEF CallOK
    <3> QED
      BY <2>1, <3>1, ListFacts DEF CallOK, ExistOK, OpenOK, EvalOK, Calls, OpenLists, ExistLists
  <2> QED
    BY <2>1 DEF TypesOK, CallOK, MetOK, ReaderTypeOK
<1> QED
  BY <1>1, <1>2, <1>3, PTL DEF ReaderSpec

(* Whatever step fails, OpenKeys leaves no native object behind and no     *)
(* staging directory, in which the secret key lies unwrapped, but one that *)
(* could not be removed; and nor does what follows it, however many runs   *)
(* work on the path meanwhile.                                             *)
THEOREM LeavesNothingBehind == ReaderSpec => []NothingLeftBehind
<1> DEFINE TInv == TypesOK /\ CallOK /\ HeldOK
<1>1. ReaderInit => TInv
  BY ReaderBegins, InitTypes DEF RInv, ReaderInit
<1>2. TInv /\ [ReaderNext]_<<vars, readerVars>> => TInv'
  BY ReaderSteps, TypesStep, CallStep DEF TypesOK
<1>3. TInv => NothingLeftBehind
  BY DEF HeldOK, NothingLeftBehind, Slotting, Leftovers
<1> QED
  BY <1>1, <1>2, <1>3, PTL DEF ReaderSpec

(* Of a set with at most one element two elements are the same.            *)
LEMMA AtMostOne ==
  ASSUME NEW S, IsFiniteSet(S), Cardinality(S) <= 1, NEW k \in S, NEW d \in S
  PROVE  k = d
<1> SUFFICES ASSUME k # d PROVE FALSE
  OBVIOUS
<1>1. {k, d} \subseteq S /\ Cardinality({k, d}) = 2
  <2>1. {k, d} = {k} \cup {d} /\ d \notin {k}
    OBVIOUS
  <2>2. IsFiniteSet({k}) /\ Cardinality({k}) = 1
    BY FS_Singleton
  <2>3. Cardinality({k} \cup {d}) = Cardinality({k}) + 1
    BY <2>1, <2>2, FS_AddElement
  <2> QED
    BY <2>1, <2>2, <2>3
<1>2. Cardinality({k, d}) <= Cardinality(S) /\ Cardinality(S) \in Nat
  BY <1>1, FS_Subset, FS_CardinalityType
<1> QED
  BY <1>1, <1>2

(* What was loaded of a scope is of one generation, unless two runs changed*)
(* the disk.                                                               *)
LEMMA OneGenerationLoaded ==
  ASSUME RInv, Cardinality(met) <= 1, NEW S \in Scopes, NEW k \in Keys, NEW d \in Keys,
         Loaded(S, k), Loaded(S, d)
  PROVE  k = d
<1>1. k = d \/ \E x, y \in met : x # y
  BY DEF RInv, GenerationsOK
<1> QED
  BY <1>1, AtMostOne DEF RInv, MetOK

(* A Keys is made of the keys of one generation, in both tiers and for all *)
(* its parts, although nothing locks the directory: unless two runs        *)
(* changed it meanwhile, or the check of one overlooked a tier.            *)
THEOREM KeysAreOneGeneration == ASSUME ~Concurrent PROVE ReaderSpec => []OneGeneration
<1>1. ASSUME RInv, Cardinality(met) <= 1, NoneMissed
      PROVE  \E key \in Keys :
               \A t \in Tiers, part \in KeyParts : loaded[t][part].keys \subseteq {key}
  <2>1. \A t \in Tiers, part \in KeyParts : loaded[t][part].keys \subseteq Keys
    BY <1>1 DEF RInv, CallOK, Content, Keys
  <2>2. Tiers \in Scopes
    BY <1>1 DEF Scopes
  <2>3. CASE \E k \in Keys : Loaded(Tiers, k)
    BY <1>1, <2>1, <2>2, <2>3, OneGenerationLoaded DEF Loaded
  <2>4. CASE \A k \in Keys : ~Loaded(Tiers, k)
    BY <2>1, <2>4 DEF Loaded, Keys
  <2> QED
    BY <2>3, <2>4
<1>2. RInv => OneGeneration
  BY <1>1 DEF OneGeneration, NoneMissed, Keys
<1> QED
  BY <1>2, ReaderInvariantHolds, PTL

(* The eval key that is streamed for a Keys that decrypts is the whole one *)
(* of its secret key, never a torn file of a run that crashed or gave up:  *)
(* unless two runs changed the directory meanwhile.                        *)
THEOREM StreamsItsOwnEvalKey == ASSUME ~Concurrent PROVE ReaderSpec => []StreamsWhatItDecrypts
<1>1. ASSUME RInv, Cardinality(met) <= 1, NEW t \in Tiers,
             loaded[t]["Eval"] # NoFile, loaded[t]["Sec"] # NoFile
      PROVE  loaded[t]["Eval"] = loaded[t]["Sec"]
  <2>1. PICK d \in Keys : loaded[t]["Sec"] = Whole(d)
    BY <1>1 DEF RInv, PartsOK
  <2>2. PICK k \in Keys : loaded[t]["Eval"].keys = {k}
    BY <1>1 DEF RInv, PartsOK
  <2>3. {t} \in Scopes /\ Loaded({t}, k) /\ Loaded({t}, d)
    BY <2>1, <2>2, WholeFile DEF Loaded, KeyParts, Scopes
  <2>4. k = d
    BY <1>1, <2>3, OneGenerationLoaded
  <2> QED
    BY <1>1, <2>1, <2>2, <2>4, WholeFile DEF RInv, PartsOK
<1>2. RInv => StreamsWhatItDecrypts
  BY <1>1 DEF StreamsWhatItDecrypts
<1> QED
  BY <1>2, ReaderInvariantHolds, PTL

(* When KeysExist has found the secret key, and all it was asked for, every*)
(* key file of the RMP tier is whole and of one generation, but for the    *)
(* EncKey.json that is written last: whatever run wrote them, and whether  *)
(* it succeeded, crashed, is at work or could not clean up.                *)
THEOREM FoundSetIsWhole == ASSUME ~Concurrent PROVE ReaderSpec => []FoundKeysAreWhole
<1> DEFINE slot(s) == disk["rmp"][s]
           found == Exists("rmp", "SecKey.json") \/ Exists("rmp", "SecKey.bin")
<1>1. ASSUME RInv, found
      PROVE  \E key \in Keys : \A s \in Slots :
               Exists("rmp", s) =>
                 slot(s).keys = {key} /\ (s # "EncKey.json" => slot(s) = Whole(key))
  <2>1. /\ SlotsOK("rmp") /\ SecKeyIsWhole /\ TypeOK
        /\ {"rmp"} \in Scopes /\ "rmp" \in Tiers
    BY <1>1 DEF RInv, DirectoryOK, IInv, DiskOK, TypesOK, Tiers, Scopes
  <2>2. ASSUME NEW s \in Slots, NEW d \in Slots, NEW k \in Keys, NEW c \in Keys,
               slot(s).keys = {k}, slot(d).keys = {c}
        PROVE  k = c
    BY <1>1, <2>1, <2>2 DEF RInv, DirectoryOK, OneOnDisk, OnDisk
  <2>3. PICK s0 \in {"SecKey.json", "SecKey.bin"} : Exists("rmp", s0)
    BY <1>1
  <2>4. PICK key \in Keys : slot(s0).keys = {key}
    BY <2>1, <2>3, SlotNames DEF SlotsOK
  <2>5. \A s \in Slots : Exists("rmp", s) => slot(s).keys = {key}
    BY <2>1, <2>2, <2>3, <2>4, SlotNames DEF SlotsOK
  <2>6. CASE key = Old
    BY <2>1, <2>5, <2>6 DEF SlotsOK
  <2>7. CASE key \in Runs
    <3>1. s0 = "SecKey.json"
      BY <2>1, <2>3, <2>4, <2>7, WholeFile, OldAssumption DEF SlotsOK, Exists
    <3>2. EvalDone(key, "rmp")
      BY <2>1, <2>4, <2>7, <3>1 DEF SlotsOK
    <3>3. ASSUME NEW s \in Slots, Exists("rmp", s), s # "EncKey.json"
          PROVE  slot(s) = Whole(key)
      <4>1. slot(s) \in Content /\ slot(s).keys = {key}
        BY <2>1, <2>5, <3>3 DEF TypeOK, Files
      <4>2. slot(s).torn = {}
        <5>1. s \notin {"SecKey.bin", "EvalKey.json"}
          BY <2>1, <2>7, <3>3, <4>1, WholeFile, OldAssumption DEF SlotsOK, Exists
        <5> QED
          BY <2>1, <3>2, <3>3, <4>1, <5>1, SlotNames DEF EvalDone, RawKeys, SecKeyIsWhole
      <4> QED
        BY <4>1, <4>2 DEF Content, Whole
    <3> QED
      BY <2>5, <3>3
  <2> QED
    BY <2>6, <2>7 DEF Keys
<1>2. RInv => FoundKeysAreWhole
  BY <1>1 DEF RInv, FoundOK, FoundKeysAreWhole, Keys
<1> QED
  BY <1>2, ReaderInvariantHolds, PTL
=============================================================================
