------------------------------- MODULE KeyGen -------------------------------
(***************************************************************************)
(* GenerateKeys on the file system: the existence check, the two tiers     *)
(* written file by file, the rollback after a failure, and processes that  *)
(* crash at any point.  Any call of the file system may fail, the stat of  *)
(* a file that is there included.  A file is what key material it holds    *)
(* and which runs have not written theirs to the end.                      *)
(***************************************************************************)
EXTENDS Sequences, Naturals

CONSTANTS
  Runs,       \* the calls of GenerateKeys, each made once
  Old,        \* the key material of a set that was there before
  Concurrent  \* whether two calls may work on one path at a time

ASSUME OldAssumption == Old \notin Runs
ASSUME ConcurrentAssumption == Concurrent \in BOOLEAN

Tiers == {"rmp", "mm"}
Trio == {"EncKey.json", "EvalKey.bin", "SecKey.json"}

(* Mutant: the secret key goes before the encryption key.                  *)
SecretFirst == <<"EncKey.bin", "EvalKey.bin", "SecKey.bin",
                 "SecKey.json", "EvalKey.json", "EncKey.json">>

(* removeKeyArtifacts deletes the six slots by name and in this order.     *)
Artifacts == <<"EncKey.bin", "EvalKey.bin", "SecKey.bin",
               "EncKey.json", "EvalKey.json", "SecKey.json">>
Slots == {Artifacts[i] : i \in DOMAIN Artifacts}
Files == Slots \cup {"SecKey.json.tmp", "foreign"}

Content == [keys: SUBSET (Runs \cup {Old}), torn: SUBSET Runs]
NoFile == [keys |-> {}, torn |-> {}]
Whole(key) == [keys |-> {key}, torn |-> {}]

VARIABLES
  dirs,   \* the tiers whose directory exists
  disk,   \* disk[t][f]: the content of file f of tier t, or NoFile
  pc,     \* pc[g]: where run g is
  tier,   \* tier[g]: the tier it works on
  file,   \* file[g]: the file it writes next
  undone, \* undone[g]: how many slots of the tier its rollback has removed
  missed, \* missed[g]: the tiers whose slots its check did not see (history)
  jammed  \* the tiers where a clean-up could not delete a file (history)

runVars == <<pc, tier, file, undone>>
vars == <<dirs, disk, pc, tier, file, undone, missed, jammed>>

Ended == {"ok", "exists", "failed", "crashed"}
PCs == {"start", "check", "mkdir", "empty", "open", "write", "rename", "remove",
        "undo", "rmdir"} \cup Ended

TypeOK ==
  /\ dirs \subseteq Tiers
  /\ disk \in [Tiers -> [Files -> Content]]
  /\ \A t \in Tiers \ dirs : \A f \in Files : disk[t][f] = NoFile
  /\ pc \in [Runs -> PCs]
  /\ tier \in [Runs -> Tiers]
  /\ file \in [Runs -> Files]
  /\ undone \in [Runs -> 0..Len(Artifacts)]
  /\ missed \in [Runs -> SUBSET Tiers]
  /\ jammed \subseteq Tiers

-----------------------------------------------------------------------------
(* A tier before the first run: no directory, an empty one, one with a     *)
(* file of the caller's, a generated set, or a set of raw .bin files.      *)
Holding(names, key) == [f \in Files |-> IF f \in names THEN Whole(key) ELSE NoFile]

Init ==
  /\ disk \in [Tiers -> {Holding(names, Old) :
        names \in {{}, {"foreign"}, Trio, {"EncKey.bin", "EvalKey.bin", "SecKey.bin"}}}]
  /\ dirs \in SUBSET Tiers
  /\ \A t \in Tiers : disk[t] # Holding({}, Old) => t \in dirs
  /\ pc = [g \in Runs |-> "start"]
  /\ tier = [g \in Runs |-> "rmp"]
  /\ file = [g \in Runs |-> "EncKey.bin"]
  /\ undone = [g \in Runs |-> 0]
  /\ missed = [g \in Runs |-> {}]
  /\ jammed = {}

Goto(g, where) == pc' = [pc EXCEPT ![g] = where]
Exists(t, f) == disk[t][f] # NoFile
Put(t, f, content) == disk' = [disk EXCEPT ![t][f] = content]

(* Mutant: the tier that failed is rolled back, not the one before it.     *)
RollBackTier(g) ==
  /\ Goto(g, "undo")
  /\ file' = [file EXCEPT ![g] = "EncKey.bin"]
  /\ undone' = [undone EXCEPT ![g] = 0]
  /\ UNCHANGED tier

(* The deferred rollback starts over with the RMP tier.                    *)
RollBack(g) ==
  /\ Goto(g, "undo")
  /\ tier' = [tier EXCEPT ![g] = "rmp"]
  /\ file' = [file EXCEPT ![g] = "EncKey.bin"]
  /\ undone' = [undone EXCEPT ![g] = 0]

Start(g) ==
  /\ pc[g] = "start"
  /\ Concurrent \/ \A h \in Runs : pc[h] \in Ended \cup {"start"}
  /\ Goto(g, "check")
  /\ UNCHANGED <<dirs, disk, tier, file, undone, missed, jammed>>

HasSlot(t) == \E s \in Slots : Exists(t, s)

(* What anySlotExists may answer.  A slot it finds is there; but a stat    *)
(* that fails for any reason (an I/O error, a link to nothing) counts as a *)
(* slot that is not, so that it may find none wherever it looks.           *)
anySlotExists(t, found) == found => HasSlot(t)

(* What the check of the tier overlooked.                                  *)
Overlook(g, t) == missed' = IF HasSlot(t) THEN [missed EXCEPT ![g] = @ \cup {t}] ELSE missed

(* Mutant: the rollback is registered before the existence check.          *)
CheckLate(g) ==
  /\ pc[g] = "check"
  /\ \/ (\E t \in Tiers : HasSlot(t)) /\ RollBack(g)
     \/ /\ \A t \in Tiers : ~HasSlot(t)
        /\ Goto(g, "mkdir")
        /\ UNCHANGED <<tier, file, undone>>
  /\ UNCHANGED <<dirs, disk, missed, jammed>>

(* Mutant: only the RMP tier is looked at.                                 *)
CheckRmpOnly(g) ==
  /\ pc[g] = "check"
  /\ Goto(g, IF HasSlot("rmp") THEN "exists" ELSE "mkdir")
  /\ UNCHANGED <<dirs, disk, tier, file, undone, missed, jammed>>

(* The RMP tier is looked at first, then the MM tier.  No rollback is      *)
(* registered yet.                                                         *)
Check(g) ==
  /\ pc[g] = "check"
  /\ \/ /\ anySlotExists(tier[g], TRUE)
        /\ Goto(g, "exists")
        /\ UNCHANGED <<tier, missed>>
     \/ /\ anySlotExists(tier[g], FALSE)
        /\ Overlook(g, tier[g])
        /\ \/ /\ tier[g] = "rmp"
              /\ tier' = [tier EXCEPT ![g] = "mm"]
              /\ UNCHANGED pc
           \/ /\ tier[g] = "mm"
              /\ tier' = [tier EXCEPT ![g] = "rmp"]
              /\ Goto(g, "mkdir")
  /\ UNCHANGED <<dirs, disk, file, undone, jammed>>

-----------------------------------------------------------------------------
(* MkdirAll, and the key generator is made.                                *)
MakeDir(g) ==
  /\ pc[g] = "mkdir"
  /\ \/ dirs' = dirs \cup {tier[g]} /\ Goto(g, "empty") /\ UNCHANGED <<tier, file, undone>>
     \/ RollBack(g) /\ UNCHANGED dirs
  /\ UNCHANGED <<disk, missed, jammed>>

(* MkdirAll again, then nothing at all may be in the directory; the keys   *)
(* are generated in memory.                                                *)
CheckEmpty(g) ==
  /\ pc[g] = "empty"
  /\ dirs' = dirs \cup {tier[g]}
  /\ \/ /\ \A f \in Files : ~Exists(tier[g], f)
        /\ Goto(g, "open")
        /\ file' = [file EXCEPT ![g] = "EncKey.bin"]
        /\ UNCHANGED <<tier, undone>>
     \/ RollBack(g)
  /\ UNCHANGED <<disk, missed, jammed>>

(* The material that goes into a file: the envelope of EncKey wraps what   *)
(* EncKey.bin holds at that time.                                          *)
Material(g, t, f) == IF f = "EncKey.json" THEN disk[t]["EncKey.bin"].keys ELSE {g}

(* Runs still at work on the file go on writing into it.                   *)
Writers(t, f) == {h \in disk[t][f].torn : pc[h] = "write" /\ tier[h] = t /\ file[h] = f}

(* When its write fails, the SecKey shim removes its temporary file itself,*)
(* and ignores a removal that fails.  No other file goes before the        *)
(* rollback.                                                               *)
Discard(t, f) ==
  \/ f = "SecKey.json.tmp" /\ Put(t, f, NoFile) /\ UNCHANGED jammed
  \/ f = "SecKey.json.tmp" /\ Exists(t, f) /\ jammed' = jammed \cup {t} /\ UNCHANGED disk
  \/ f # "SecKey.json.tmp" /\ UNCHANGED <<disk, jammed>>

(* Opening truncates.  It fails without the directory, as the wrapping of  *)
(* EncKey fails without EncKey.bin.                                        *)
OpenFile(g) ==
  LET t == tier[g]
      f == file[g]
  IN  /\ pc[g] = "open"
      /\ \/ /\ t \in dirs
            /\ f = "EncKey.json" => Exists(t, "EncKey.bin")
            /\ Put(t, f, [keys |-> Material(g, t, f) \cup Writers(t, f),
                          torn |-> {g} \cup Writers(t, f)])
            /\ Goto(g, "write")
            /\ UNCHANGED <<tier, file, undone, jammed>>
         \/ Discard(t, f) /\ RollBack(g)
      /\ UNCHANGED <<dirs, missed>>

(* Mutant: SecKey.json is written in place.                                *)
AfterWriteInPlace(f) ==
  CASE f = "EncKey.bin"  -> [pc |-> "open", file |-> "EvalKey.bin"]
    [] f = "EvalKey.bin" -> [pc |-> "open", file |-> "SecKey.json"]
    [] f = "SecKey.json" -> [pc |-> "open", file |-> "EncKey.json"]
    [] f = "EncKey.json" -> [pc |-> "remove", file |-> f]

(* Mutant: the eval key is written last.                                   *)
EvalKeyLast(f) ==
  CASE f = "EncKey.bin"      -> [pc |-> "open", file |-> "SecKey.json.tmp"]
    [] f = "SecKey.json.tmp" -> [pc |-> "rename", file |-> f]
    [] f = "EncKey.json"     -> [pc |-> "open", file |-> "EvalKey.bin"]
    [] f = "EvalKey.bin"     -> [pc |-> "remove", file |-> f]

(* EncKey.bin, EvalKey.bin, SecKey.json.tmp and its renaming, EncKey.json, *)
(* and EncKey.bin goes.                                                    *)
AfterWrite(f) ==
  CASE f = "EncKey.bin"      -> [pc |-> "open", file |-> "EvalKey.bin"]
    [] f = "EvalKey.bin"     -> [pc |-> "open", file |-> "SecKey.json.tmp"]
    [] f = "SecKey.json.tmp" -> [pc |-> "rename", file |-> f]
    [] f = "EncKey.json"     -> [pc |-> "remove", file |-> f]

(* The file is written to its end, unless it was unlinked meanwhile; or    *)
(* the write fails half way.                                               *)
WriteFile(g) ==
  LET t == tier[g]
      f == file[g]
  IN  /\ pc[g] = "write"
      /\ \/ /\ Put(t, f, [disk[t][f] EXCEPT !.torn = @ \ {g}])
            /\ Goto(g, AfterWrite(f).pc)
            /\ file' = [file EXCEPT ![g] = AfterWrite(f).file]
            /\ UNCHANGED <<tier, undone, jammed>>
         \/ Discard(t, f) /\ RollBack(g)
      /\ UNCHANGED <<dirs, missed>>

RenameSecKey(g) ==
  LET t == tier[g]
  IN  /\ pc[g] = "rename"
      /\ \/ /\ Exists(t, "SecKey.json.tmp")
            /\ disk' = [disk EXCEPT ![t]["SecKey.json"] = disk[t]["SecKey.json.tmp"],
                                    ![t]["SecKey.json.tmp"] = NoFile]
            /\ Goto(g, "open")
            /\ file' = [file EXCEPT ![g] = "EncKey.json"]
            /\ UNCHANGED <<tier, undone, jammed>>
         \/ Discard(t, file[g]) /\ RollBack(g)
      /\ UNCHANGED <<dirs, missed>>

(* Mutant: EncKey.bin is left beside its envelope.                         *)
KeepRawEncKey(g) ==
  /\ pc[g] = "remove"
  /\ Goto(g, IF tier[g] = "rmp" THEN "mkdir" ELSE "ok")
  /\ tier' = [tier EXCEPT ![g] = "mm"]
  /\ UNCHANGED <<dirs, disk, file, undone, missed, jammed>>

(* The tier is done; the MM tier follows the RMP tier.                     *)
RemoveRawEncKey(g) ==
  LET t == tier[g]
  IN  /\ pc[g] = "remove"
      /\ \/ /\ Exists(t, "EncKey.bin")
            /\ Put(t, "EncKey.bin", NoFile)
            /\ Goto(g, IF t = "rmp" THEN "mkdir" ELSE "ok")
            /\ tier' = [tier EXCEPT ![g] = "mm"]
            /\ UNCHANGED <<file, undone>>
         \/ RollBack(g) /\ UNCHANGED disk
      /\ UNCHANGED <<dirs, missed, jammed>>

-----------------------------------------------------------------------------
(* removeKeyArtifacts ignores a removal that fails.                        *)
RemoveArtifact(g) ==
  LET t == tier[g]
      s == Artifacts[undone[g] + 1]
  IN  /\ pc[g] = "undo"
      /\ undone[g] < Len(Artifacts)
      /\ undone' = [undone EXCEPT ![g] = @ + 1]
      /\ \/ Put(t, s, NoFile) /\ UNCHANGED jammed
         \/ Exists(t, s) /\ jammed' = jammed \cup {t} /\ UNCHANGED disk
      /\ Goto(g, IF undone'[g] = Len(Artifacts) THEN "rmdir" ELSE "undo")
      /\ UNCHANGED <<dirs, tier, file, missed>>

(* Mutant: the directory goes with all that is left in it.                 *)
RemoveDirAlways(g) ==
  /\ pc[g] = "rmdir"
  /\ dirs' = dirs \ {tier[g]}
  /\ Goto(g, IF tier[g] = "rmp" THEN "undo" ELSE "failed")
  /\ tier' = [tier EXCEPT ![g] = "mm"]
  /\ undone' = [undone EXCEPT ![g] = 0]
  /\ UNCHANGED <<disk, file, missed, jammed>>

(* The directory goes if nothing is left in it.                            *)
RemoveDir(g) ==
  LET t == tier[g]
  IN  /\ pc[g] = "rmdir"
      /\ dirs' = IF \E f \in Files : Exists(t, f) THEN dirs ELSE dirs \ {t}
      /\ Goto(g, IF t = "rmp" THEN "undo" ELSE "failed")
      /\ tier' = [tier EXCEPT ![g] = "mm"]
      /\ undone' = [undone EXCEPT ![g] = 0]
      /\ UNCHANGED <<disk, file, missed, jammed>>

(* What the process knew is lost, whatever it was at.                      *)
Crash(g) ==
  /\ pc[g] \notin Ended \cup {"start"}
  /\ Goto(g, "crashed")
  /\ tier' = [tier EXCEPT ![g] = "rmp"]
  /\ file' = [file EXCEPT ![g] = "EncKey.bin"]
  /\ undone' = [undone EXCEPT ![g] = 0]
  /\ UNCHANGED <<dirs, disk, missed, jammed>>

Run(g) ==
  \/ Start(g)
  \/ Check(g)
  \/ MakeDir(g)
  \/ CheckEmpty(g)
  \/ OpenFile(g)
  \/ WriteFile(g)
  \/ RenameSecKey(g)
  \/ RemoveRawEncKey(g)
  \/ RemoveArtifact(g)
  \/ RemoveDir(g)
  \/ Crash(g)

Next == \E g \in Runs : Run(g)

Spec == Init /\ [][Next]_vars

-----------------------------------------------------------------------------
(* GenerateKeys overwrites and deletes nothing but files of its own: not   *)
(* the caller's, not an existing set, not what a crashed run left.  The    *)
(* one exception is a slot whose stat failed in its check: a rollback      *)
(* removes it, although it is said that "it never touches a caller's       *)
(* pre-existing key set".                                                  *)
TouchesOwnFilesOnly ==
  [][\A t \in Tiers, f \in Files :
       Exists(t, f) /\ disk'[t][f] # disk[t][f] =>
         \E g \in Runs :
           /\ pc[g] \notin Ended
           /\ \/ disk[t][f].keys = {g}
              \/ pc[g] = "undo" /\ t \in missed[g] /\ f \in Slots]_vars

(* When GenerateKeys reports success both tiers hold a trio that is whole  *)
(* and of one generation.                                                  *)
SuccessIsComplete ==
  [][\A g \in Runs : pc[g] # "ok" /\ pc'[g] = "ok" =>
       \A t \in Tiers : {f \in Files : disk'[t][f] = Whole(g)} = Trio]_vars

(* A run that failed, and whose clean-up met no error, left no file, so    *)
(* that a retry is not blocked by it.                                      *)
FailureLeavesNothing ==
  \A g \in Runs : pc[g] = "failed" =>
    \A t \in Tiers \ jammed, f \in Files : g \notin disk[t][f].keys

(* A SecKey.json in place is a whole one, whenever the process crashed.    *)
SecKeyIsWhole == \A t \in Tiers : disk[t]["SecKey.json"].torn = {}

(* Whatever was written half or removed half, an enveloped encryption key  *)
(* never stands without the secret key that reads what it encrypts, unless *)
(* a rollback went on after a removal that failed.                         *)
EncKeyHasSecKey ==
  \A t \in Tiers \ jammed :
    Exists(t, "EncKey.json") => disk[t]["SecKey.json"].keys = disk[t]["EncKey.json"].keys

(* "It never overwrites": a set whose generation succeeded stays, unless   *)
(* a run rolls back whose check did not see every slot that was there.     *)
CompletedIsKept ==
  [][\A g \in Runs : pc[g] = "ok" =>
       \A t \in Tiers, f \in Trio :
         disk[t][f] = Whole(g) /\ disk'[t][f] # disk[t][f] =>
           \E h \in Runs : pc[h] = "undo" /\ missed[h] # {}]_vars
=============================================================================
