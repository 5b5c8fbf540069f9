---------------------------- MODULE KeyGenProofs ----------------------------
(***************************************************************************)
(* Proofs about GenerateKeys, for any number of runs on one path that come *)
(* one after the other, each of which may fail or crash at any step.       *)
(***************************************************************************)
EXTENDS KeyGen, TLAPS

Written == {"EncKey.bin", "EvalKey.bin", "SecKey.json.tmp", "EncKey.json"}

-----------------------------------------------------------------------------
(* Types, for any number of runs, at a time or not.                        *)
TypesOK == TypeOK /\ \A g \in Runs : file[g] \in Written

(* The slots by name.                                                      *)
LEMMA SlotNames ==
  /\ Slots = {"EncKey.bin", "EvalKey.bin", "SecKey.bin",
              "EncKey.json", "EvalKey.json", "SecKey.json"}
  /\ Len(Artifacts) = 6 /\ DOMAIN Artifacts = 1..6
  /\ \A i \in 1..6 : Artifacts[i] \in Slots
BY DEF Slots, Artifacts

(* Writing one file leaves every other one.                                *)
LEMMA PutOne ==
  ASSUME TypeOK, NEW t \in Tiers, NEW f \in Files, NEW content \in Content, Put(t, f, content)
  PROVE  /\ disk' \in [Tiers -> [Files -> Content]]
         /\ \A u \in Tiers, e \in Files :
              disk'[u][e] = IF u = t /\ e = f THEN content ELSE disk[u][e]
BY DEF TypeOK, Put

(* A file that is missing is of the type of a file.                        *)
LEMMA NoFileIsContent ==
  /\ NoFile \in Content
  /\ \A g \in Runs : \A torn \in SUBSET {g} : [keys |-> {g}, torn |-> torn] \in Content
BY DEF NoFile, Content

(* Files are in directories that exist.                                    *)
FilesInDirs == \A t \in Tiers \ dirs : \A f \in Files : disk[t][f] = NoFile

(* A step whose every assignment has its type keeps the types.             *)
LEMMA TypesKept ==
  ASSUME TypesOK, NEW g \in Runs, NEW where \in PCs,
         Goto(g, where), tier' \in [Runs -> Tiers], file' \in [Runs -> Written],
         undone' \in [Runs -> 0..6], missed' \in [Runs -> SUBSET Tiers], jammed' \subseteq Tiers,
         disk' \in [Tiers -> [Files -> Content]], dirs' \subseteq Tiers, FilesInDirs'
  PROVE  TypesOK'
<1>1. Written \subseteq Files
  BY SlotNames DEF Written, Files
<1>2. pc' \in [Runs -> PCs] /\ file' \in [Runs -> Files]
  <2>1. pc \in [Runs -> PCs]
    BY DEF TypesOK, TypeOK
  <2> QED
    BY <1>1, <2>1 DEF Goto
<1>3. TypeOK'
  BY <1>2, SlotNames DEF TypeOK, Files, Content, NoFile, PCs, Tiers, Ended, FilesInDirs
<1>4. \A h \in Runs : file'[h] \in Written
  BY DEF Written
<1> QED
  BY <1>3, <1>4 DEF TypesOK, Written

(* A step that goes to a place of its own and may roll back.               *)
LEMMA RollBackTypes ==
  ASSUME TypesOK, NEW g \in Runs, RollBack(g), jammed' \subseteq Tiers, UNCHANGED missed,
         disk' \in [Tiers -> [Files -> Content]], dirs' \subseteq Tiers, FilesInDirs'
  PROVE  TypesOK'
<1>1. "undo" \in PCs /\ Goto(g, "undo")
  BY DEF PCs, RollBack
<1>2. tier' \in [Runs -> Tiers] /\ file' \in [Runs -> Written] /\ undone' \in [Runs -> 0..6]
  BY SlotNames DEF RollBack, TypesOK, TypeOK, Tiers, Written
<1> QED
  BY <1>1, <1>2, TypesKept DEF TypesOK, TypeOK

(* Making a directory, and removing one that is empty, leaves no file      *)
(* outside a directory.                                                    *)
LEMMA DirectoryTypes ==
  ASSUME TypesOK, NEW g \in Runs, MakeDir(g) \/ CheckEmpty(g) \/ RemoveDir(g)
  PROVE  TypesOK'
<1>1. /\ disk' \in [Tiers -> [Files -> Content]] /\ jammed' \subseteq Tiers /\ dirs' \subseteq Tiers
      /\ UNCHANGED <<disk, missed>>
  BY DEF TypesOK, TypeOK, MakeDir, CheckEmpty, RemoveDir
<1>2. FilesInDirs'
  BY <1>1 DEF TypesOK, TypeOK, FilesInDirs, MakeDir, CheckEmpty, RemoveDir, Exists
<1>3. CASE RollBack(g)
  BY <1>1, <1>2, <1>3, RollBackTypes
<1>4. CASE ~RollBack(g)
  <2>1. \E where \in PCs : Goto(g, where)
    BY <1>4 DEF MakeDir, CheckEmpty, RemoveDir, PCs, Ended
  <2>2. tier' \in [Runs -> Tiers] /\ file' \in [Runs -> Written] /\ undone' \in [Runs -> 0..6]
    BY <1>4, SlotNames DEF TypesOK, TypeOK, MakeDir, CheckEmpty, RemoveDir, Tiers, Written
  <2> QED
    BY <1>1, <1>2, <2>1, <2>2, TypesKept DEF TypesOK, TypeOK
<1> QED
  BY <1>3, <1>4

(* A file is written where its directory is, and goes from anywhere.       *)
LEMMA PutTypes ==
  ASSUME TypesOK, NEW t \in Tiers, NEW f \in Files, NEW content \in Content,
         t \in dirs \/ content = NoFile, Put(t, f, content), UNCHANGED dirs
  PROVE  disk' \in [Tiers -> [Files -> Content]] /\ FilesInDirs'
BY PutOne DEF TypesOK, TypeOK, FilesInDirs

(* A temporary file is discarded, or stays, or there is none.              *)
LEMMA DiscardTypes ==
  ASSUME TypesOK, NEW t \in Tiers, NEW f \in Files, Discard(t, f), UNCHANGED dirs
  PROVE  disk' \in [Tiers -> [Files -> Content]] /\ FilesInDirs' /\ jammed' \subseteq Tiers
<1>1. CASE Put(t, f, NoFile) /\ UNCHANGED jammed
  BY <1>1, PutTypes, NoFileIsContent DEF TypesOK, TypeOK
<1>2. CASE UNCHANGED disk /\ jammed' \in {jammed, jammed \cup {t}}
  BY <1>2 DEF TypesOK, TypeOK, FilesInDirs
<1> QED
  BY <1>1, <1>2 DEF Discard

(* Opening, writing, renaming and removing keep the types.                 *)
LEMMA FileTypes ==
  ASSUME TypesOK, NEW g \in Runs,
         \/ OpenFile(g) \/ WriteFile(g) \/ RenameSecKey(g) \/ RemoveRawEncKey(g)
         \/ RemoveArtifact(g)
  PROVE  TypesOK'
<1> DEFINE t == tier[g]
           f == file[g]
           gaveUp == (Discard(t, f) \/ UNCHANGED <<disk, jammed>>) /\ RollBack(g)
<1> USE DEF PCs, Ended
<1>1. /\ t \in Tiers /\ f \in Written /\ f \in Files /\ UNCHANGED <<dirs, missed>>
      /\ dirs \subseteq Tiers /\ missed \in [Runs -> SUBSET Tiers]
      /\ Slots \subseteq Files /\ "SecKey.json.tmp" \in Files
  BY DEF TypesOK, TypeOK, OpenFile, WriteFile, RenameSecKey, RemoveRawEncKey, RemoveArtifact, Files
<1>2. CASE gaveUp
  <2>1. disk' \in [Tiers -> [Files -> Content]] /\ FilesInDirs' /\ jammed' \subseteq Tiers
    BY <1>1, <1>2, DiscardTypes DEF TypesOK, TypeOK, FilesInDirs
  <2> QED
    BY <1>1, <1>2, <2>1, RollBackTypes
<1>3. CASE OpenFile(g) /\ ~gaveUp
  <2> DEFINE content == [keys |-> Material(g, t, f) \cup Writers(t, f),
                         torn |-> {g} \cup Writers(t, f)]
  <2>1. content \in Content
    <3>1. "EncKey.bin" \in Files
      BY SlotNames DEF Files
    <3> QED
      BY <1>1, <3>1 DEF TypesOK, TypeOK, Content, Material, Writers
  <2>2. t \in dirs /\ Put(t, f, content) /\ Goto(g, "write")
        /\ UNCHANGED <<tier, file, undone, jammed>>
    BY <1>3 DEF OpenFile
  <2> HIDE DEF content
  <2>3. disk' \in [Tiers -> [Files -> Content]] /\ FilesInDirs'
    BY <1>1, <2>1, <2>2, PutTypes
  <2> QED
    BY <1>1, <2>2, <2>3, TypesKept, SlotNames DEF TypesOK, TypeOK
<1>4. CASE WriteFile(g) /\ ~gaveUp
  <2> DEFINE content == [disk[t][f] EXCEPT !.torn = @ \ {g}]
  <2>1. content \in Content /\ (disk[t][f] = NoFile => content = NoFile)
    <3> DEFINE k == disk[t][f].keys
               x == disk[t][f].torn
    <3>1. disk[t][f] = [keys |-> k, torn |-> x] /\ k \subseteq Runs \cup {Old} /\ x \subseteq Runs
      BY <1>1 DEF TypesOK, TypeOK, Content
    <3>2. content = [keys |-> k, torn |-> x \ {g}]
      BY <3>1
    <3>3. content \in Content
      BY <3>1, <3>2 DEF Content
    <3>4. k = {} /\ x = {} => k = {} /\ x \ {g} = {}
      OBVIOUS
    <3>5. disk[t][f] = NoFile => k = {} /\ x = {}
      BY DEF NoFile
    <3> QED
      BY <3>2, <3>3, <3>4, <3>5 DEF NoFile
  <2>2. /\ Put(t, f, content) /\ Goto(g, AfterWrite(f).pc)
        /\ file' = [file EXCEPT ![g] = AfterWrite(f).file]
        /\ UNCHANGED <<tier, undone, jammed>>
    BY <1>4 DEF WriteFile
  <2>3. t \in dirs \/ content = NoFile
    BY <1>1, <2>1 DEF TypesOK, TypeOK
  <2>4. AfterWrite(f).pc \in PCs /\ AfterWrite(f).file \in Written
    BY <1>1 DEF AfterWrite, Written
  <2> HIDE DEF content
  <2>5. disk' \in [Tiers -> [Files -> Content]] /\ FilesInDirs'
    BY <1>1, <2>1, <2>2, <2>3, PutTypes
  <2>6. file' \in [Runs -> Written]
    BY <2>2, <2>4 DEF TypesOK, TypeOK
  <2> QED
    BY <1>1, <2>2, <2>4, <2>5, <2>6, TypesKept, SlotNames DEF TypesOK, TypeOK
<1>5. CASE RenameSecKey(g) /\ ~gaveUp
  <2>1. /\ Exists(t, "SecKey.json.tmp") /\ Goto(g, "open") /\ UNCHANGED <<tier, undone, jammed>>
        /\ disk' = [disk EXCEPT ![t]["SecKey.json"] = disk[t]["SecKey.json.tmp"],
                                ![t]["SecKey.json.tmp"] = NoFile]
        /\ file' = [file EXCEPT ![g] = "EncKey.json"]
    BY <1>5 DEF RenameSecKey
  <2>2. t \in dirs /\ "SecKey.json" \in Files
    BY <1>1, <2>1, SlotNames DEF TypesOK, TypeOK, Exists
  <2>3. disk' \in [Tiers -> [Files -> Content]]
    BY <1>1, <2>1, <2>2, NoFileIsContent DEF TypesOK, TypeOK
  <2>4. FilesInDirs'
    BY <1>1, <2>1, <2>2 DEF TypesOK, TypeOK, FilesInDirs
  <2>5. file' \in [Runs -> Written] /\ "open" \in PCs
    BY <2>1 DEF TypesOK, TypeOK, Written
  <2> QED
    BY <1>1, <2>1, <2>3, <2>4, <2>5, TypesKept, SlotNames DEF TypesOK, TypeOK
<1>6. CASE RemoveRawEncKey(g) /\ ~gaveUp
  <2>1. Put(t, "EncKey.bin", NoFile) /\ UNCHANGED <<file, undone, jammed>>
    BY <1>6 DEF RemoveRawEncKey
  <2>2. PICK where \in PCs : Goto(g, where)
    BY <1>6 DEF RemoveRawEncKey
  <2>3. tier' \in [Runs -> Tiers]
    BY <1>6 DEF RemoveRawEncKey, TypesOK, TypeOK, Tiers
  <2>4. disk' \in [Tiers -> [Files -> Content]] /\ FilesInDirs'
    BY <1>1, <2>1, SlotNames, PutTypes, NoFileIsContent
  <2> QED
    BY <1>1, <2>1, <2>2, <2>3, <2>4, TypesKept, SlotNames DEF TypesOK, TypeOK
<1>7. CASE RemoveArtifact(g)
  <2> DEFINE s == Artifacts[undone[g] + 1]
  <2>1. /\ Put(t, s, NoFile) \/ UNCHANGED disk
        /\ undone' = [undone EXCEPT ![g] = @ + 1] /\ undone[g] < 6 /\ UNCHANGED <<tier, file>>
        /\ jammed' \in {jammed, jammed \cup {t}}
        /\ \E where \in PCs : Goto(g, where)
    BY <1>7, SlotNames DEF RemoveArtifact
  <2>2. undone[g] + 1 \in 1..6 /\ s \in Files /\ undone' \in [Runs -> 0..6]
    BY <1>1, <2>1, SlotNames DEF TypesOK, TypeOK
  <2> HIDE DEF s
  <2>3. disk' \in [Tiers -> [Files -> Content]] /\ FilesInDirs'
    <3>1. CASE Put(t, s, NoFile)
      BY <1>1, <2>2, <3>1, PutTypes, NoFileIsContent
    <3>2. CASE UNCHANGED disk
      BY <1>1, <3>2 DEF TypesOK, TypeOK, FilesInDirs
    <3> QED
      BY <2>1, <3>1, <3>2
  <2> QED
    BY <1>1, <2>1, <2>2, <2>3, TypesKept DEF TypesOK, TypeOK
<1> QED
  BY <1>2, <1>3, <1>4, <1>5, <1>6, <1>7 DEF OpenFile, WriteFile, RenameSecKey, RemoveRawEncKey

(* A step that touches no file and no directory keeps the types.           *)
LEMMA QuietTypes ==
  ASSUME TypesOK, NEW g \in Runs, Start(g) \/ Check(g) \/ Crash(g)
  PROVE  TypesOK'
<1>1. UNCHANGED <<dirs, disk, jammed>>
  BY DEF Start, Check, Crash
<1>2. /\ pc \in [Runs -> PCs] /\ tier \in [Runs -> Tiers] /\ file \in [Runs -> Written]
      /\ undone \in [Runs -> 0..6] /\ missed \in [Runs -> SUBSET Tiers]
  BY SlotNames DEF TypesOK, TypeOK
<1>3. /\ \E where \in PCs : Goto(g, where)
      /\ tier' \in [Runs -> Tiers] /\ file' \in [Runs -> Written] /\ undone' \in [Runs -> 0..6]
      /\ missed' \in [Runs -> SUBSET Tiers]
  <2>1. CASE Start(g)
    BY <1>2, <2>1 DEF Start, PCs
  <2>2. CASE Check(g)
    <3>1. tier[g] \in Tiers /\ missed' \in [Runs -> SUBSET Tiers]
      <4> DEFINE more == missed[g] \cup {tier[g]}
      <4>1. tier[g] \in Tiers /\ more \in SUBSET Tiers
        BY <1>2
      <4>2. UNCHANGED missed \/ missed' = [missed EXCEPT ![g] = more]
        BY <2>2 DEF Check, Overlook
      <4> HIDE DEF more
      <4> QED
        BY <1>2, <4>1, <4>2
    <3>2. tier' \in [Runs -> Tiers] /\ file' = file /\ undone' = undone
      BY <1>2, <2>2 DEF Check, Tiers
    <3>3. \E where \in PCs : Goto(g, where)
      <4>1. UNCHANGED pc => Goto(g, "check") /\ "check" \in PCs
        BY <1>2, <2>2 DEF Goto, Check, PCs
      <4>2. {"exists", "mkdir"} \subseteq PCs
        BY DEF PCs, Ended
      <4> QED
        BY <2>2, <4>1, <4>2 DEF Check
    <3> QED
      BY <1>2, <3>1, <3>2, <3>3
  <2>3. CASE Crash(g)
    BY <1>2, <2>3 DEF Crash, PCs, Ended, Tiers, Written
  <2> QED
    BY <2>1, <2>2, <2>3
<1> QED
  BY <1>1, <1>3, TypesKept DEF TypesOK, TypeOK, FilesInDirs

(* Every step keeps the types.                                             *)
LEMMA TypesStep ==
  ASSUME TypesOK, [Next]_vars
  PROVE  TypesOK'
<1>1. CASE UNCHANGED vars
  BY <1>1 DEF vars, TypesOK, TypeOK, Tiers, Files, Content, PCs, Ended, NoFile, Written, Slots,
     Artifacts
<1> QED
  BY <1>1, DirectoryTypes, FileTypes, QuietTypes DEF Next, Run

(* The types hold of every directory a run may find.                       *)
LEMMA InitTypes ==
  ASSUME Init
  PROVE  TypesOK
<1>1. disk \in [Tiers -> [Files -> Content]]
  BY DEF Init, Holding, Whole, NoFile, Content
<1>2. \A t \in Tiers \ dirs : \A f \in Files : disk[t][f] = NoFile
  BY DEF Init, Holding
<1> QED
  BY <1>1, <1>2, SlotNames DEF Init, TypesOK, TypeOK, Tiers, Written, PCs, Files

(* Every state of the disk and of the runs has its type, at whatever step  *)
(* a run fails or crashes and however many work on the path.               *)
THEOREM TypeCorrect == Spec => []TypeOK
<1>1. TypesOK => TypeOK
  BY DEF TypesOK
<1> QED
  BY <1>1, InitTypes, TypesStep, PTL DEF Spec

-----------------------------------------------------------------------------
(* The inductive invariant, for runs that come one after the other.        *)

(* The tier holds the named files, whole and of run g, and no other.       *)
Holds(t, names, g) == \A f \in Files : disk[t][f] = IF f \in names THEN Whole(g) ELSE NoFile

(* The files of a tier that are whole when the next is opened.             *)
Made(f) ==
  CASE f = "EncKey.bin"      -> {}
    [] f = "EvalKey.bin"     -> {"EncKey.bin"}
    [] f = "SecKey.json.tmp" -> {"EncKey.bin", "EvalKey.bin"}
    [] f = "EncKey.json"     -> {"EncKey.bin", "EvalKey.bin", "SecKey.json"}

Active(g) == pc[g] \notin Ended \cup {"start"}
AtWork(g) == pc[g] \in {"mkdir", "empty", "open", "write", "rename", "remove"}
RollsBack(g) == pc[g] \in {"undo", "rmdir"}

(* A tier that is still ahead of a run: its check found no slot there, or  *)
(* overlooked those that are; and no file in it is of the run.             *)
TakenForEmpty(g, t) == HasSlot(t) => t \in missed[g]
Untouched(g, t) == \A f \in Files : g \notin disk[t][f].keys
Ahead(g, t) == TakenForEmpty(g, t) /\ Untouched(g, t)

(* Where a run is when it has not begun, or looks for existing keys.       *)
BeginsWithRmp(g) ==
  /\ pc[g] = "start" => tier[g] = "rmp"
  /\ pc[g] = "check" => tier[g] = "rmp" \/ TakenForEmpty(g, "rmp")

(* What the tier at work holds at each step.                               *)
Writing(g) ==
  LET t == tier[g]
  IN  \A f \in Files : disk[t][f] = IF f = file[g] THEN [keys |-> {g}, torn |-> {g}]
                                    ELSE IF f \in Made(file[g]) THEN Whole(g) ELSE NoFile

TierAtWork(g) ==
  /\ pc[g] \in {"mkdir", "empty"} => Ahead(g, tier[g])
  /\ pc[g] = "open" => Holds(tier[g], Made(file[g]), g)
  /\ pc[g] = "write" => Writing(g)
  /\ pc[g] = "rename" =>
       file[g] = "SecKey.json.tmp" /\ Holds(tier[g], Made(file[g]) \cup {file[g]}, g)
  /\ pc[g] = "remove" => Holds(tier[g], Trio \cup {"EncKey.bin"}, g)

(* The MM tier waits, and the RMP tier is complete.                        *)
OtherTier(g) ==
  AtWork(g) => IF tier[g] = "rmp" THEN Ahead(g, "mm") ELSE Holds("rmp", Trio, g)

(* A rollback finds slots of its own run, but where its check overlooked   *)
(* some; its temporary file is gone unless that could not be removed; and  *)
(* the slots that it went past are gone where every removal succeeded.     *)
RollsBackOwn(g) ==
  RollsBack(g) =>
    \A t \in Tiers :
      /\ g \in disk[t]["SecKey.json.tmp"].keys => t \in jammed
      /\ \A s \in Slots : Exists(t, s) => disk[t][s].keys = {g} \/ t \in missed[g]

Removed(g, t, i) ==
  \/ tier[g] = "mm" /\ t = "rmp"
  \/ tier[g] = t /\ (pc[g] = "rmdir" \/ i <= undone[g])

RemovedIsGone(g) ==
  RollsBack(g) =>
    \A t \in Tiers \ jammed, i \in 1..6 : Removed(g, t, i) => ~Exists(t, Artifacts[i])

RunOK(g) ==
  BeginsWithRmp(g) /\ TierAtWork(g) /\ OtherTier(g) /\ RollsBackOwn(g) /\ RemovedIsGone(g)

(* The caller's file is the caller's, and a run that looks for keys has    *)
(* written nothing.                                                        *)
ForeignIsOld == \A t \in Tiers : disk[t]["foreign"] \in {NoFile, Whole(Old)}
WritesLater == \A g \in Runs : pc[g] \in {"start", "check"} => \A t \in Tiers : Untouched(g, t)

DiskOK ==
  /\ ForeignIsOld /\ WritesLater
  /\ SecKeyIsWhole /\ EncKeyHasSecKey /\ FailureLeavesNothing

OneAtATime == \A g, h \in Runs : Active(g) /\ Active(h) => g = h

IInv ==
  /\ TypesOK
  /\ OneAtATime
  /\ \A g \in Runs : RunOK(g)
  /\ DiskOK

(* A run is not alone in the file names: files of different names.         *)
LEMMA FileNames ==
  Files = {"EncKey.bin", "EvalKey.bin", "SecKey.bin", "EncKey.json", "EvalKey.json", "SecKey.json",
           "SecKey.json.tmp", "foreign"}
BY SlotNames DEF Files

(* A whole file is not a missing one, nor one that is being written.       *)
LEMMA WholeFile ==
  ASSUME NEW key
  PROVE  /\ Whole(key) # NoFile /\ Whole(key).keys = {key} /\ Whole(key).torn = {}
         /\ NoFile.keys = {} /\ NoFile.torn = {}
         /\ [keys |-> {key}, torn |-> {key}] \notin {NoFile, Whole(key)}
         /\ [keys |-> {key}, torn |-> {key}].keys = {key}
BY DEF Whole, NoFile

(* A run changes no place but its own, and works if it has begun.          *)
LEMMA OwnPlace ==
  ASSUME TypesOK, NEW g \in Runs, Run(g)
  PROVE  /\ pc[g] \notin Ended
         /\ pc[g] = "start" => Start(g)
         /\ pc'[g] \in {"start", "check"} => pc[g] \in {"start", "check"}
         /\ pc[g] # "check" => UNCHANGED missed
         /\ \A h \in Runs \ {g} : /\ pc'[h] = pc[h] /\ tier'[h] = tier[h]
                                 /\ file'[h] = file[h] /\ undone'[h] = undone[h]
                                 /\ missed'[h] = missed[h]
<1> USE DEF TypesOK, TypeOK, Goto, RollBack, Ended, Overlook
<1>1. CASE Start(g) \/ Check(g) \/ Crash(g)
  BY <1>1 DEF Start, Check, Crash
<1>2. CASE MakeDir(g) \/ CheckEmpty(g) \/ RemoveArtifact(g) \/ RemoveDir(g)
  BY <1>2 DEF MakeDir, CheckEmpty, RemoveArtifact, RemoveDir
<1>3. CASE OpenFile(g) \/ RenameSecKey(g) \/ RemoveRawEncKey(g)
  BY <1>3 DEF OpenFile, RenameSecKey, RemoveRawEncKey
<1>4. CASE WriteFile(g)
  <2>1. AfterWrite(file[g]).pc \in {"open", "rename", "remove"}
    BY DEF AfterWrite, Written
  <2> QED
    BY <1>4, <2>1 DEF WriteFile
<1> QED
  BY <1>1, <1>2, <1>3, <1>4 DEF Run

(* A step of the run that works keeps the invariant if it leaves the disk  *)
(* and this run as they should be: no other run works.                     *)
LEMMA Working ==
  ASSUME ~Concurrent, IInv, NEW g \in Runs, Run(g), RunOK(g)', DiskOK'
  PROVE  IInv'
<1>1. \A h \in Runs \ {g} : ~Active(h)
  BY OwnPlace DEF IInv, OneAtATime, Active, Start
<1>2. \A h \in Runs \ {g} : ~Active(h)' /\ pc'[h] = pc[h] /\ tier'[h] = tier[h]
  BY <1>1, OwnPlace DEF IInv, Active, Ended
<1>3. OneAtATime'
  BY <1>2 DEF OneAtATime
<1>4. ASSUME NEW h \in Runs \ {g} PROVE RunOK(h)'
  BY <1>1, <1>2 DEF IInv, RunOK, BeginsWithRmp, TierAtWork, OtherTier, RollsBackOwn, RemovedIsGone,
     AtWork, RollsBack, Active, Ended
<1>5. TypesOK'
  BY TypesStep DEF IInv, Next
<1> QED
  BY <1>3, <1>4, <1>5 DEF IInv

(* The invariant holds of whatever directory the first run finds.          *)
LEMMA InitInvariant ==
  ASSUME Init
  PROVE  IInv
<1>1. OneAtATime /\ \A g \in Runs : RunOK(g)
  BY DEF Init, OneAtATime, RunOK, BeginsWithRmp, TierAtWork, OtherTier, RollsBackOwn,
     RemovedIsGone, AtWork, RollsBack, Active, Ended
<1>2. ASSUME NEW t \in Tiers
      PROVE  \A f \in Files : disk[t][f] \in {NoFile, Whole(Old)}
  BY DEF Init, Holding
<1>3. ASSUME NEW t \in Tiers
      PROVE  disk[t]["SecKey.json.tmp"] = NoFile
             /\ (Exists(t, "EncKey.json") => Exists(t, "SecKey.json"))
  BY FileNames DEF Init, Holding, Exists, Trio
<1>4. DiskOK
  <2>1. ForeignIsOld /\ SecKeyIsWhole
    BY <1>2, <1>3, FileNames, WholeFile DEF ForeignIsOld, SecKeyIsWhole, Exists
  <2>2. EncKeyHasSecKey
    BY <1>2, <1>3, FileNames, WholeFile DEF EncKeyHasSecKey, Exists
  <2>3. FailureLeavesNothing
    BY DEF FailureLeavesNothing, Init
  <2>4. WritesLater
    BY <1>2, WholeFile, OldAssumption DEF WritesLater, Untouched
  <2> QED
    BY <2>1, <2>2, <2>3, <2>4 DEF DiskOK
<1> QED
  BY <1>1, <1>4, InitTypes DEF IInv

-----------------------------------------------------------------------------
(* A step that leaves the files alone keeps what is true of them, unless   *)
(* the run now says that it failed.                                        *)
LEMMA QuietDisk ==
  ASSUME IInv, NEW g \in Runs, Run(g), pc'[g] # "failed", UNCHANGED <<disk, jammed>>
  PROVE  DiskOK'
<1>1. \A h \in Runs : pc'[h] = "failed" => pc[h] = "failed"
  BY OwnPlace DEF IInv
<1>2. \A h \in Runs : pc'[h] \in {"start", "check"} => pc[h] \in {"start", "check"}
  BY OwnPlace DEF IInv
<1> USE FileNames DEF IInv, DiskOK
<1>3. WritesLater'
  BY <1>2 DEF WritesLater, Untouched
<1> QED
  BY <1>1, <1>3 DEF ForeignIsOld, SecKeyIsWhole, EncKeyHasSecKey, FailureLeavesNothing, Exists,
     Whole, NoFile

(* A run past the empty directory has written all that is in its tier.     *)
LEMMA TierIsOwn ==
  ASSUME IInv, NEW g \in Runs, AtWork(g), pc[g] \notin {"mkdir", "empty"}, NEW f \in Files,
         Exists(tier[g], f)
  PROVE  /\ disk[tier[g]][f].keys = {g}
         /\ f = "SecKey.json.tmp" => file[g] = f /\ pc[g] \in {"write", "rename"}
<1> USE WholeFile, FileNames DEF Exists
<1>1. file[g] \in Written /\ TierAtWork(g)
  BY DEF IInv, TypesOK, RunOK
<1>2. CASE pc[g] = "open"
  BY <1>1, <1>2 DEF TierAtWork, Holds, Made, Written
<1>3. CASE pc[g] = "write"
  BY <1>1, <1>3 DEF TierAtWork, Writing, Made, Written
<1>4. CASE pc[g] = "rename"
  BY <1>1, <1>4 DEF TierAtWork, Holds, Made
<1>5. CASE pc[g] = "remove"
  BY <1>1, <1>5 DEF TierAtWork, Holds, Trio
<1> QED
  BY <1>2, <1>3, <1>4, <1>5 DEF AtWork

(* What a run at work would find if it rolled back now: slots of its own,  *)
(* or that its check overlooked, and at most the temporary file it writes. *)
LEMMA WorksOnOwn ==
  ASSUME IInv, NEW g \in Runs, AtWork(g), NEW t \in Tiers
  PROVE  /\ \A s \in Slots : Exists(t, s) => disk[t][s].keys = {g} \/ t \in missed[g]
         /\ g \in disk[t]["SecKey.json.tmp"].keys =>
              t = tier[g] /\ file[g] = "SecKey.json.tmp" /\ pc[g] \in {"write", "rename"}
<1> USE WholeFile, FileNames, SlotNames DEF Exists
<1>1. CASE t # tier[g]
  <2>1. IF t = "mm" THEN Ahead(g, t) ELSE Holds(t, Trio, g)
    BY <1>1 DEF IInv, RunOK, OtherTier, TypesOK, TypeOK, Tiers
  <2> QED
    BY <2>1 DEF Ahead, TakenForEmpty, HasSlot, Untouched, Holds, Trio
<1>2. CASE t = tier[g] /\ pc[g] \in {"mkdir", "empty"}
  BY <1>2 DEF IInv, RunOK, TierAtWork, Ahead, TakenForEmpty, HasSlot, Untouched
<1>3. CASE t = tier[g] /\ pc[g] \notin {"mkdir", "empty"}
  <2>1. "SecKey.json.tmp" \in Files /\ Slots \subseteq Files
    BY DEF Slots
  <2>2. g \in disk[t]["SecKey.json.tmp"].keys => Exists(t, "SecKey.json.tmp")
    BY DEF Exists
  <2> QED
    BY <1>3, <2>1, <2>2, TierIsOwn
<1> QED
  BY <1>1, <1>2, <1>3

(* Looking for keys, and beginning to.                                     *)
LEMMA LookingKeeps ==
  ASSUME ~Concurrent, IInv, NEW g \in Runs, Start(g) \/ Check(g)
  PROVE  IInv'
<1>1. Run(g) /\ UNCHANGED <<disk, jammed>> /\ pc'[g] # "failed"
  BY DEF Start, Check, Run, IInv, TypesOK, TypeOK, Goto
<1>2. CASE pc'[g] # "mkdir"
  <2>1. BeginsWithRmp(g)'
    <3>1. CASE Start(g)
      BY <3>1 DEF Start, Goto, IInv, TypesOK, TypeOK, RunOK, BeginsWithRmp
    <3>2. CASE Check(g) /\ pc'[g] = "check"
      <4>1. Overlook(g, "rmp")
        BY <3>2 DEF Check, Goto, IInv, TypesOK, TypeOK
      <4>2. TakenForEmpty(g, "rmp")'
        BY <1>1, <4>1 DEF Overlook, TakenForEmpty, HasSlot, Exists, IInv, TypesOK, TypeOK
      <4> QED
        BY <3>2, <4>2 DEF BeginsWithRmp
    <3>3. CASE Check(g) /\ pc'[g] = "exists"
      BY <3>3 DEF BeginsWithRmp
    <3>4. Check(g) => pc'[g] \in {"check", "exists"}
      BY <1>2 DEF Check, Goto, IInv, TypesOK, TypeOK
    <3> QED
      BY <3>1, <3>2, <3>3, <3>4
  <2>2. pc'[g] \in {"check", "exists"}
    BY <1>2 DEF Start, Check, Goto, IInv, TypesOK, TypeOK
  <2> QED
    BY <1>1, <2>1, <2>2, QuietDisk, Working DEF RunOK, TierAtWork, OtherTier, RollsBackOwn,
       RemovedIsGone, AtWork, RollsBack
<1>3. CASE pc'[g] = "mkdir"
  <2>1. /\ pc[g] = "check" /\ tier[g] = "mm" /\ tier'[g] = "rmp"
        /\ Overlook(g, "mm") /\ TakenForEmpty(g, "rmp")
    BY <1>3 DEF Start, Check, Goto, IInv, TypesOK, TypeOK, RunOK, BeginsWithRmp
  <2>2. TakenForEmpty(g, "rmp")' /\ TakenForEmpty(g, "mm")'
    BY <1>1, <2>1 DEF Overlook, TakenForEmpty, HasSlot, Exists, IInv, TypesOK, TypeOK
  <2>3. \A t \in Tiers : Untouched(g, t)'
    BY <1>1, <2>1 DEF IInv, DiskOK, WritesLater, Untouched
  <2>4. \A t \in Tiers : Ahead(g, t)'
    BY <2>2, <2>3 DEF Ahead, Tiers
  <2>5. RunOK(g)'
    BY <1>3, <2>1, <2>4 DEF RunOK, BeginsWithRmp, TierAtWork, OtherTier, RollsBackOwn,
       RemovedIsGone, AtWork, RollsBack, Tiers
  <2> QED
    BY <1>1, <2>5, QuietDisk, Working
<1> QED
  BY <1>2, <1>3

(* A crash leaves the files as they are.                                   *)
LEMMA CrashKeeps ==
  ASSUME ~Concurrent, IInv, NEW g \in Runs, Crash(g)
  PROVE  IInv'
<1>1. Run(g) /\ UNCHANGED <<disk, jammed>> /\ pc'[g] = "crashed"
  BY DEF Crash, Run, IInv, TypesOK, TypeOK, Goto
<1>2. RunOK(g)'
  BY <1>1 DEF RunOK, BeginsWithRmp, TierAtWork, OtherTier, RollsBackOwn, RemovedIsGone, AtWork,
     RollsBack
<1> QED
  BY <1>1, <1>2, QuietDisk, Working

(* A step that fails starts a rollback, which finds no slot but those of   *)
(* its run and those overlooked: what a shim left half written it has      *)
(* discarded, or could not.                                                *)
LEMMA RollingBackKeeps ==
  ASSUME ~Concurrent, IInv, NEW g \in Runs, Run(g), AtWork(g), RollBack(g),
         \/ /\ UNCHANGED <<disk, jammed>>
            /\ g \notin disk[tier[g]]["SecKey.json.tmp"].keys
         \/ Discard(tier[g], file[g])
  PROVE  IInv'
<1> DEFINE t == tier[g]
           tmp == "SecKey.json.tmp"
<1>1. /\ t \in Tiers /\ file[g] \in Written /\ file[g] \in Files /\ NoFile \in Content
      /\ tmp \in Files
  BY NoFileIsContent, FileNames DEF IInv, TypesOK, TypeOK
<1>2. pc'[g] = "undo" /\ tier'[g] = "rmp" /\ undone'[g] = 0 /\ UNCHANGED missed
  BY OwnPlace DEF RollBack, Goto, IInv, TypesOK, TypeOK, AtWork
<1>3. /\ \A u \in Tiers, f \in Files : f # tmp => disk'[u][f] = disk[u][f]
      /\ \A u \in Tiers : disk'[u][tmp] \in {disk[u][tmp], NoFile}
      /\ \A u \in Tiers : g \in disk'[u][tmp].keys => u \in jammed'
      /\ jammed \subseteq jammed'
  <2>1. CASE UNCHANGED <<disk, jammed>> /\ g \notin disk[t][tmp].keys
    BY <1>1, <2>1, WorksOnOwn
  <2>2. CASE file[g] = tmp /\ Put(t, tmp, NoFile) /\ UNCHANGED jammed
    <3>1. \A u \in Tiers, e \in Files :
            disk'[u][e] = IF u = t /\ e = tmp THEN NoFile ELSE disk[u][e]
      BY <1>1, <2>2, PutOne DEF IInv, TypesOK
    <3> QED
      BY <1>1, <2>2, <3>1, WorksOnOwn, WholeFile
  <2>3. CASE file[g] = tmp /\ UNCHANGED disk /\ jammed' = jammed \cup {t}
    BY <1>1, <2>3, WorksOnOwn
  <2>4. CASE file[g] # tmp /\ UNCHANGED <<disk, jammed>>
    BY <1>1, <2>4, WorksOnOwn
  <2> QED
    BY <2>1, <2>2, <2>3, <2>4 DEF Discard
<1> HIDE DEF tmp
<1>4. RunOK(g)'
  <2>1. \A u \in Tiers, s \in Slots :
          Exists(u, s)' => disk'[u][s].keys = {g} \/ u \in missed'[g]
    <3>1. \A s \in Slots : s \in Files /\ s # tmp
      BY FileNames, SlotNames DEF tmp
    <3> QED
      BY <1>2, <1>3, <3>1, WorksOnOwn DEF Exists, NoFile
  <2>2. RollsBackOwn(g)'
    BY <1>3, <2>1 DEF RollsBackOwn, Exists, Tiers, Slots, Artifacts, NoFile, tmp
  <2>3. RemovedIsGone(g)'
    BY <1>2 DEF RemovedIsGone, Removed
  <2> QED
    BY <1>2, <2>2, <2>3 DEF RunOK, BeginsWithRmp, TierAtWork, OtherTier, AtWork
<1>5. /\ \A h \in Runs : pc'[h] = "failed" => pc[h] = "failed"
      /\ \A h \in Runs : pc'[h] \in {"start", "check"} => pc[h] \in {"start", "check"}
  BY <1>2, OwnPlace DEF IInv
<1>6. DiskOK'
  <2> USE FileNames, WholeFile DEF IInv, DiskOK
  <2>1. ForeignIsOld' /\ SecKeyIsWhole'
    BY <1>3 DEF ForeignIsOld, SecKeyIsWhole, Whole, NoFile, Tiers, tmp
  <2>2. EncKeyHasSecKey'
    BY <1>3 DEF EncKeyHasSecKey, Exists, NoFile, Tiers, tmp
  <2>3. \A u \in Tiers, f \in Files : disk'[u][f].keys \subseteq disk[u][f].keys
    BY <1>3
  <2>4. FailureLeavesNothing' /\ WritesLater'
    BY <1>3, <1>5, <2>3 DEF FailureLeavesNothing, WritesLater, Untouched, Tiers
  <2> QED
    BY <2>1, <2>2, <2>4
<1> QED
  BY <1>4, <1>6, Working

(* The directory is made, or it is not.                                    *)
LEMMA MakeDirKeeps ==
  ASSUME ~Concurrent, IInv, NEW g \in Runs, MakeDir(g) \/ CheckEmpty(g)
  PROVE  IInv'
<1>1. /\ Run(g) /\ UNCHANGED <<disk, missed, jammed>> /\ AtWork(g) /\ tier[g] \in Tiers
      /\ pc[g] \in {"mkdir", "empty"}
  BY DEF MakeDir, CheckEmpty, Run, AtWork, IInv, TypesOK, TypeOK
<1>2. CASE RollBack(g)
  <2>1. g \notin disk[tier[g]]["SecKey.json.tmp"].keys
    BY <1>1, FileNames DEF IInv, RunOK, TierAtWork, Ahead, Untouched
  <2> QED
    BY <1>1, <1>2, <2>1, RollingBackKeeps
<1>3. CASE ~RollBack(g)
  <2>1. /\ UNCHANGED tier
        /\ \/ pc'[g] = "empty"
           \/ /\ pc'[g] = "open" /\ file'[g] = "EncKey.bin"
              /\ \A f \in Files : ~Exists(tier[g], f)
    BY <1>3 DEF MakeDir, CheckEmpty, Goto, IInv, TypesOK, TypeOK
  <2>2. \A t \in Tiers : Ahead(g, t) => Ahead(g, t)'
    BY <1>1 DEF Ahead, TakenForEmpty, HasSlot, Exists, Untouched, NoFile, Files, Slots, Artifacts
  <2>3. TierAtWork(g)'
    BY <1>1, <2>1, <2>2, FileNames DEF IInv, RunOK, TierAtWork, Holds, Made, Exists, NoFile
  <2>4. OtherTier(g)'
    BY <1>1, <2>1, <2>2, FileNames DEF IInv, RunOK, OtherTier, AtWork, Holds, NoFile, Trio, Whole,
       Tiers
  <2>5. RunOK(g)'
    BY <2>1, <2>3, <2>4 DEF RunOK, BeginsWithRmp, RollsBackOwn, RemovedIsGone, RollsBack
  <2> QED
    BY <1>1, <2>1, <2>5, QuietDisk, Working
<1> QED
  BY <1>2, <1>3

(* A file of the tier at work changes, and what is true of files stays so: *)
(* the envelope of EncKey comes after the secret key.                      *)
LEMMA PutDisk ==
  ASSUME IInv, NEW g \in Runs, Run(g), AtWork(g), NEW f \in Written, NEW content \in Content,
         Put(tier[g], f, content), UNCHANGED jammed, pc'[g] # "failed",
         content.keys \subseteq {g}, content # NoFile => content.keys = {g},
         f = "EncKey.json" /\ content # NoFile => disk[tier[g]]["SecKey.json"].keys = {g}
  PROVE  DiskOK'
<1>1. f \in Files /\ f \notin {"foreign", "SecKey.json"} /\ tier[g] \in Tiers
  BY FileNames DEF Written, IInv, TypesOK, TypeOK
<1>2. \A u \in Tiers, e \in Files :
        disk'[u][e] = IF u = tier[g] /\ e = f THEN content ELSE disk[u][e]
  BY <1>1, PutOne DEF IInv, TypesOK
<1>3. /\ \A h \in Runs : pc'[h] = "failed" => pc[h] = "failed" /\ h # g
      /\ \A h \in Runs : pc'[h] \in {"start", "check"} => pc[h] \in {"start", "check"} /\ h # g
  BY OwnPlace DEF IInv, AtWork
<1> USE FileNames DEF IInv, DiskOK
<1>4. ForeignIsOld'
  BY SMTT(30), <1>1, <1>2 DEF ForeignIsOld, NoFile, Whole, Tiers
<1>5. SecKeyIsWhole'
  BY SMTT(30), <1>1, <1>2 DEF SecKeyIsWhole, NoFile, Whole, Tiers
<1>6. EncKeyHasSecKey'
  BY ZenonT(40), <1>1, <1>2 DEF EncKeyHasSecKey, Exists, NoFile, Tiers
<1>7. FailureLeavesNothing' /\ WritesLater'
  BY <1>1, <1>2, <1>3 DEF FailureLeavesNothing, WritesLater, Untouched, Tiers
<1> QED
  BY <1>4, <1>5, <1>6, <1>7

(* What the tier holds after one file of it changed, and what the other    *)
(* tier still holds.                                                       *)
LEMMA AfterPut ==
  ASSUME IInv, NEW g \in Runs, AtWork(g), NEW f \in Written, NEW content \in Content,
         Put(tier[g], f, content), UNCHANGED <<tier, missed>>, AtWork(g)'
  PROVE  /\ \A e \in Files : disk'[tier[g]][e] = IF e = f THEN content ELSE disk[tier[g]][e]
         /\ OtherTier(g)'
<1>1. f \in Files /\ tier[g] \in Tiers
  BY FileNames DEF Written, IInv, TypesOK, TypeOK
<1>2. \A u \in Tiers, e \in Files :
        disk'[u][e] = IF u = tier[g] /\ e = f THEN content ELSE disk[u][e]
  BY <1>1, PutOne DEF IInv, TypesOK
<1>3. \A u \in Tiers : u # tier[g] => \A e \in Files : disk'[u][e] = disk[u][e]
  BY <1>2
<1>4. CASE tier[g] = "rmp"
  <2>1. Ahead(g, "mm")
    BY <1>4 DEF IInv, RunOK, OtherTier
  <2>2. Ahead(g, "mm")'
    BY <1>3, <1>4, <2>1, FileNames, SlotNames DEF Ahead, TakenForEmpty, HasSlot, Untouched, Exists,
       Tiers, NoFile
  <2> QED
    BY <1>1, <1>2, <1>4, <2>2 DEF OtherTier
<1>5. CASE tier[g] = "mm"
  BY <1>2, <1>3, <1>5, FileNames DEF IInv, RunOK, OtherTier, Holds, Tiers, NoFile, Whole, Trio
<1> QED
  BY <1>1, <1>4, <1>5 DEF Tiers

(* A file that is opened was not there: nobody else is writing it.         *)
LEMMA OpensNew ==
  ASSUME IInv, NEW g \in Runs, OpenFile(g), ~(Discard(tier[g], file[g]) /\ RollBack(g))
  PROVE  /\ Put(tier[g], file[g], [keys |-> {g}, torn |-> {g}])
         /\ pc'[g] = "write" /\ UNCHANGED <<tier, file, missed, jammed>>
<1> DEFINE t == tier[g]
           f == file[g]
           full == [keys |-> Material(g, t, f) \cup Writers(t, f), torn |-> {g} \cup Writers(t, f)]
<1>1. t \in Tiers /\ f \in Written /\ f \in Files /\ Holds(t, Made(f), g)
  BY DEF IInv, TypesOK, TypeOK, OpenFile, RunOK, TierAtWork
<1>2. full = [keys |-> {g}, torn |-> {g}]
  <2>1. disk[t][f] = NoFile /\ (f = "EncKey.json" => disk[t]["EncKey.bin"] = Whole(g))
    BY <1>1, FileNames DEF Holds, Made, Written
  <2> QED
    BY <2>1, WholeFile DEF Material, Writers
<1>3. Put(t, f, full) /\ pc'[g] = "write" /\ UNCHANGED <<tier, file, missed, jammed>>
  BY DEF OpenFile, Goto, IInv, TypesOK, TypeOK
<1> QED
  BY <1>2, <1>3

(* A file is opened after those before it are whole.                       *)
LEMMA OpenFileKeeps ==
  ASSUME ~Concurrent, IInv, NEW g \in Runs, OpenFile(g)
  PROVE  IInv'
<1> DEFINE t == tier[g]
           f == file[g]
           half == [keys |-> {g}, torn |-> {g}]
<1>1. /\ Run(g) /\ AtWork(g) /\ t \in Tiers /\ f \in Written /\ f \in Files
      /\ half \in Content
  BY NoFileIsContent DEF OpenFile, Run, AtWork, IInv, TypesOK, TypeOK
<1>2. Holds(t, Made(f), g)
  BY DEF OpenFile, IInv, RunOK, TierAtWork
<1>3. CASE Discard(t, f) /\ RollBack(g)
  BY <1>1, <1>3, RollingBackKeeps
<1>4. CASE ~(Discard(t, f) /\ RollBack(g))
  <2>1. Put(t, f, half) /\ pc'[g] = "write" /\ UNCHANGED <<tier, file, missed, jammed>>
    BY <1>4, OpensNew
  <2> HIDE DEF half
  <2>2. half.keys = {g} /\ half # NoFile /\ half = [keys |-> {g}, torn |-> {g}]
    BY WholeFile DEF half
  <2>3. AtWork(g)'
    BY <2>1 DEF AtWork
  <2>4. f = "EncKey.json" => disk[t]["SecKey.json"].keys = {g}
    BY <1>2, FileNames, WholeFile DEF Holds, Made
  <2>5. DiskOK'
    BY <1>1, <2>1, <2>2, <2>4, PutDisk
  <2>6. TierAtWork(g)'
    <3>1. \A e \in Files : disk'[t][e] = IF e = f THEN half ELSE disk[t][e]
      BY <1>1, <2>1, <2>3, AfterPut
    <3>2. Writing(g)'
      BY <1>2, <2>1, <2>2, <3>1 DEF Writing, Holds, Files, Slots, Artifacts, Made, NoFile, Whole
    <3> QED
      BY <2>1, <3>2 DEF TierAtWork
  <2>7. OtherTier(g)'
    BY <1>1, <2>1, <2>3, AfterPut
  <2>8. RunOK(g)'
    BY <2>1, <2>6, <2>7 DEF RunOK, BeginsWithRmp, RollsBackOwn, RemovedIsGone, RollsBack
  <2> QED
    BY <1>1, <2>5, <2>8, Working
<1> QED
  BY <1>3, <1>4

(* A file that is written to its end is whole.                             *)
LEMMA WritesWhole ==
  ASSUME IInv, NEW g \in Runs, WriteFile(g), ~(Discard(tier[g], file[g]) /\ RollBack(g))
  PROVE  /\ Put(tier[g], file[g], Whole(g)) /\ UNCHANGED <<tier, missed, jammed>>
         /\ pc'[g] = AfterWrite(file[g]).pc /\ file'[g] = AfterWrite(file[g]).file
<1> DEFINE t == tier[g]
           f == file[g]
           content == [disk[t][f] EXCEPT !.torn = @ \ {g}]
<1>1. content = Whole(g)
  <2>1. disk[t][f] = [keys |-> {g}, torn |-> {g}]
    BY DEF WriteFile, IInv, TypesOK, TypeOK, RunOK, TierAtWork, Writing
  <2> QED
    BY <2>1 DEF Whole
<1>2. /\ Put(t, f, content) /\ UNCHANGED <<tier, missed, jammed>>
      /\ pc'[g] = AfterWrite(f).pc /\ file'[g] = AfterWrite(f).file
  BY DEF WriteFile, Goto, IInv, TypesOK, TypeOK
<1> QED
  BY <1>1, <1>2

(* The next file follows, or the renaming, or the removal of EncKey.bin.   *)
LEMMA WriteFileKeeps ==
  ASSUME ~Concurrent, IInv, NEW g \in Runs, WriteFile(g)
  PROVE  IInv'
<1> DEFINE t == tier[g]
           f == file[g]
<1>1. /\ Run(g) /\ AtWork(g) /\ t \in Tiers /\ f \in Written /\ f \in Files
      /\ Whole(g) \in Content
  BY NoFileIsContent DEF WriteFile, Run, AtWork, IInv, TypesOK, TypeOK, Whole
<1>2. Writing(g)
  BY DEF WriteFile, IInv, RunOK, TierAtWork
<1>3. CASE Discard(t, f) /\ RollBack(g)
  BY <1>1, <1>3, RollingBackKeeps
<1>4. CASE ~(Discard(t, f) /\ RollBack(g))
  <2>1. /\ Put(t, f, Whole(g)) /\ UNCHANGED <<tier, missed, jammed>>
        /\ pc'[g] = AfterWrite(f).pc /\ file'[g] = AfterWrite(f).file
    BY <1>4, WritesWhole
  <2>2. pc'[g] \in {"open", "rename", "remove"} /\ AtWork(g)'
    BY <1>1, <2>1 DEF AfterWrite, Written, AtWork
  <2>3. f = "EncKey.json" => disk[t]["SecKey.json"].keys = {g}
    BY <1>2, FileNames, WholeFile DEF Writing, Made
  <2>4. DiskOK'
    BY <1>1, <2>1, <2>2, <2>3, WholeFile, PutDisk
  <2>5. TierAtWork(g)'
    <3>1. \A e \in Files : disk'[t][e] = IF e = f THEN Whole(g) ELSE disk[t][e]
      BY <1>1, <2>1, <2>2, AfterPut
    <3>2. \A e \in Files : disk'[t][e] = IF e \in Made(f) \cup {f} THEN Whole(g) ELSE NoFile
      BY <1>2, <3>1 DEF Writing
    <3>3. CASE f \in {"EncKey.bin", "EvalKey.bin"}
      <4>1. pc'[g] = "open" /\ Made(file'[g]) = Made(f) \cup {f}
        BY <2>1, <3>3 DEF AfterWrite, Made
      <4> QED
        BY <2>1, <3>2, <4>1 DEF TierAtWork, Holds, Files, Slots, Artifacts, Whole, NoFile, Made
    <3>4. CASE f = "SecKey.json.tmp"
      <4>1. pc'[g] = "rename" /\ file'[g] = f
        BY <2>1, <3>4 DEF AfterWrite
      <4> QED
        BY <2>1, <3>2, <3>4, <4>1 DEF TierAtWork, Holds, Files, Slots, Artifacts, Whole, NoFile,
           Made
    <3>5. CASE f = "EncKey.json"
      <4>1. pc'[g] = "remove" /\ Made(f) \cup {f} = Trio \cup {"EncKey.bin"}
        BY <2>1, <3>5 DEF AfterWrite, Made, Trio
      <4> QED
        BY <2>1, <3>2, <4>1 DEF TierAtWork, Holds, Files, Slots, Artifacts, Whole, NoFile, Trio
    <3> QED
      BY <1>1, <3>3, <3>4, <3>5 DEF Written
  <2>6. OtherTier(g)'
    BY <1>1, <2>1, <2>2, AfterPut
  <2>7. RunOK(g)'
    BY <2>2, <2>5, <2>6 DEF RunOK, BeginsWithRmp, RollsBackOwn, RemovedIsGone, RollsBack
  <2> QED
    BY <1>1, <2>4, <2>7, Working
<1> QED
  BY <1>3, <1>4

(* The secret key takes its place whole.                                   *)
LEMMA RenamesWhole ==
  ASSUME IInv, NEW g \in Runs, RenameSecKey(g), ~(Discard(tier[g], file[g]) /\ RollBack(g))
  PROVE  /\ pc'[g] = "open" /\ UNCHANGED <<tier, missed, jammed>> /\ file'[g] = "EncKey.json"
         /\ \A u \in Tiers, e \in Files :
              disk'[u][e] = IF u = tier[g] /\ e = "SecKey.json" THEN Whole(g)
                            ELSE IF u = tier[g] /\ e = "SecKey.json.tmp" THEN NoFile
                            ELSE disk[u][e]
<1> DEFINE t == tier[g]
<1>1. t \in Tiers /\ disk[t]["SecKey.json.tmp"] = Whole(g)
  BY FileNames DEF RenameSecKey, IInv, TypesOK, TypeOK, RunOK, TierAtWork, Holds, Made
<1>2. /\ pc'[g] = "open" /\ UNCHANGED <<tier, missed, jammed>> /\ file'[g] = "EncKey.json"
      /\ disk' = [disk EXCEPT ![t]["SecKey.json"] = disk[t]["SecKey.json.tmp"],
                              ![t]["SecKey.json.tmp"] = NoFile]
  BY DEF RenameSecKey, Goto, IInv, TypesOK, TypeOK
<1> QED
  BY <1>1, <1>2, FileNames DEF IInv, TypesOK, TypeOK

(* The envelope of EncKey follows the secret key.                          *)
LEMMA RenameSecKeyKeeps ==
  ASSUME ~Concurrent, IInv, NEW g \in Runs, RenameSecKey(g)
  PROVE  IInv'
<1> DEFINE t == tier[g]
<1>1. Run(g) /\ AtWork(g) /\ t \in Tiers /\ pc[g] = "rename"
  BY DEF RenameSecKey, Run, AtWork, IInv, TypesOK, TypeOK
<1>2. Holds(t, {"EncKey.bin", "EvalKey.bin", "SecKey.json.tmp"}, g)
  BY <1>1 DEF IInv, RunOK, TierAtWork, Made, Holds
<1>3. CASE Discard(t, file[g]) /\ RollBack(g)
  BY <1>1, <1>3, RollingBackKeeps
<1>4. CASE ~(Discard(t, file[g]) /\ RollBack(g))
  <2>1. \A u \in Tiers, e \in Files :
          disk'[u][e] = IF u = t /\ e = "SecKey.json" THEN Whole(g)
                        ELSE IF u = t /\ e = "SecKey.json.tmp" THEN NoFile ELSE disk[u][e]
    BY <1>4, RenamesWhole
  <2>2. pc'[g] = "open" /\ UNCHANGED <<tier, missed, jammed>> /\ file'[g] = "EncKey.json"
    BY <1>4, RenamesWhole
  <2>3. DiskOK'
    <3> USE FileNames, WholeFile DEF IInv, DiskOK
    <3>1. ForeignIsOld' /\ SecKeyIsWhole'
      BY <1>1, <2>1 DEF ForeignIsOld, SecKeyIsWhole, NoFile, Whole, Tiers
    <3>2. EncKeyHasSecKey'
      BY <1>1, <1>2, <2>1, <2>2 DEF EncKeyHasSecKey, Holds, Exists, NoFile, Tiers
    <3>3. /\ \A h \in Runs : pc'[h] = "failed" => pc[h] = "failed" /\ h # g
          /\ \A h \in Runs : pc'[h] \in {"start", "check"} => pc[h] \in {"start", "check"} /\ h # g
      BY <1>1, <2>2, OwnPlace
    <3>4. FailureLeavesNothing' /\ WritesLater'
      BY <1>1, <2>1, <2>2, <3>3 DEF FailureLeavesNothing, WritesLater, Untouched, Tiers
    <3> QED
      BY <3>1, <3>2, <3>4
  <2>4. TierAtWork(g)'
    BY <1>1, <1>2, <2>1, <2>2 DEF TierAtWork, Holds, Made, Files, Slots, Artifacts, Whole, NoFile
  <2>5. OtherTier(g)'
    <3>1. \A u \in Tiers : u # t => \A e \in Files : disk'[u][e] = disk[u][e]
      BY <2>1
    <3>2. CASE t = "rmp"
      <4>1. Ahead(g, "mm")
        BY <1>1, <3>2 DEF IInv, RunOK, OtherTier
      <4>2. Ahead(g, "mm")'
        BY <2>2, <3>1, <3>2, <4>1, FileNames, SlotNames DEF Ahead, TakenForEmpty, HasSlot,
           Untouched, Exists, Tiers, NoFile
      <4> QED
        BY <2>2, <3>2, <4>2 DEF OtherTier
    <3>3. CASE t = "mm"
      BY <1>1, <2>2, <3>1, <3>3, FileNames DEF IInv, RunOK, OtherTier, Holds, Tiers, NoFile, Whole,
         Trio
    <3> QED
      BY <1>1, <3>2, <3>3 DEF Tiers
  <2>6. RunOK(g)'
    BY <2>2, <2>4, <2>5 DEF RunOK, BeginsWithRmp, RollsBackOwn, RemovedIsGone, RollsBack
  <2> QED
    BY <1>1, <2>3, <2>6, Working
<1> QED
  BY <1>3, <1>4

(* The raw EncKey goes when its envelope is whole; then the RMP tier is    *)
(* complete and the MM tier follows, or both are.                          *)
LEMMA RemoveRawEncKeyKeeps ==
  ASSUME ~Concurrent, IInv, NEW g \in Runs, RemoveRawEncKey(g)
  PROVE  IInv'
<1> DEFINE t == tier[g]
<1>1. /\ Run(g) /\ AtWork(g) /\ t \in Tiers /\ UNCHANGED <<missed, jammed>> /\ pc[g] = "remove"
      /\ "EncKey.bin" \in Written /\ "EncKey.bin" \in Files /\ NoFile \in Content
  BY NoFileIsContent, FileNames DEF RemoveRawEncKey, Run, AtWork, IInv, TypesOK, TypeOK, Written
<1>2. Holds(t, Trio \cup {"EncKey.bin"}, g) /\ g \notin disk[t]["SecKey.json.tmp"].keys
  BY <1>1, FileNames, WholeFile DEF IInv, RunOK, TierAtWork, Holds, Trio
<1>3. CASE RollBack(g) /\ UNCHANGED disk
  BY <1>1, <1>2, <1>3, RollingBackKeeps
<1>4. CASE ~(RollBack(g) /\ UNCHANGED disk)
  <2>1. /\ Put(t, "EncKey.bin", NoFile) /\ tier'[g] = "mm"
        /\ pc'[g] = IF t = "rmp" THEN "mkdir" ELSE "ok"
    BY <1>4 DEF RemoveRawEncKey, Goto, IInv, TypesOK, TypeOK
  <2>2. DiskOK'
    BY <1>1, <1>2, <2>1, WholeFile, PutDisk
  <2>3. \A u \in Tiers, e \in Files :
          disk'[u][e] = IF u = t /\ e = "EncKey.bin" THEN NoFile ELSE disk[u][e]
    BY <1>1, <2>1, PutOne DEF IInv, TypesOK
  <2>4. CASE t = "rmp"
    <3>1. Ahead(g, "mm") /\ Holds("rmp", Trio \cup {"EncKey.bin"}, g)
      BY <1>1, <1>2, <2>4 DEF IInv, RunOK, OtherTier
    <3>2. Ahead(g, "mm")'
      BY <1>1, <2>3, <2>4, <3>1, FileNames, SlotNames DEF Ahead, TakenForEmpty, HasSlot, Untouched,
         Exists, Tiers, NoFile
    <3>3. Holds("rmp", Trio, g)'
      BY <2>3, <2>4, <3>1 DEF Holds, Tiers, Trio, NoFile, Whole, Files, Slots, Artifacts
    <3>4. TierAtWork(g)' /\ OtherTier(g)'
      BY <2>1, <2>4, <3>2, <3>3 DEF TierAtWork, OtherTier
    <3> QED
      BY <1>1, <2>1, <2>2, <2>4, <3>4, Working DEF RunOK, BeginsWithRmp, RollsBackOwn,
         RemovedIsGone, RollsBack
  <2>5. CASE t = "mm"
    BY <1>1, <2>1, <2>2, <2>5, Working DEF RunOK, BeginsWithRmp, TierAtWork, OtherTier,
       RollsBackOwn, RemovedIsGone, RollsBack, AtWork
  <2> QED
    BY <1>1, <2>4, <2>5 DEF Tiers
<1> QED
  BY <1>3, <1>4 DEF RemoveRawEncKey

(* The rollback removes slots in their order, the envelope of EncKey       *)
(* before the secret key.                                                  *)
LEMMA RemoveArtifactKeeps ==
  ASSUME ~Concurrent, IInv, NEW g \in Runs, RemoveArtifact(g)
  PROVE  IInv'
<1> DEFINE t == tier[g]
           n == undone[g] + 1
           s == Artifacts[n]
<1>1. /\ Run(g) /\ RollsBack(g) /\ pc[g] = "undo" /\ t \in Tiers /\ UNCHANGED <<tier, missed>>
      /\ undone[g] \in 0..5 /\ n \in 1..6 /\ undone'[g] = n
      /\ pc'[g] = IF n = 6 THEN "rmdir" ELSE "undo"
  BY SlotNames DEF RemoveArtifact, Run, RollsBack, IInv, TypesOK, TypeOK, Goto
<1>2. s \in Slots /\ s \in Files /\ s \notin {"SecKey.json.tmp", "foreign"} /\ NoFile \in Content
  BY <1>1, SlotNames, NoFileIsContent DEF Files
<1>3. \/ /\ \A u \in Tiers, e \in Files :
              disk'[u][e] = IF u = t /\ e = s THEN NoFile ELSE disk[u][e]
         /\ UNCHANGED jammed
      \/ UNCHANGED disk /\ jammed' = jammed \cup {t}
  <2>1. (Put(t, s, NoFile) /\ UNCHANGED jammed) \/ (UNCHANGED disk /\ jammed' = jammed \cup {t})
    BY DEF RemoveArtifact
  <2> QED
    BY <1>1, <1>2, <2>1, PutOne DEF IInv, TypesOK
<1>4. RollsBackOwn(g) /\ RemovedIsGone(g)
  BY DEF IInv, RunOK
<1>5. RollsBackOwn(g)'
  BY <1>1, <1>2, <1>3, <1>4, FileNames, SlotNames DEF RollsBackOwn, RollsBack, Exists, Tiers, NoFile
<1>6. RemovedIsGone(g)'
  <2>1. ASSUME NEW u \in Tiers, u \notin jammed', NEW i \in 1..6, Removed(g, u, i)'
        PROVE  ~Exists(u, Artifacts[i])'
    <3>1. u \notin jammed /\ (Removed(g, u, i) \/ (u = t /\ i = n))
      BY <1>1, <1>3, <2>1 DEF Removed
    <3>2. Artifacts[i] \in Files
      BY SlotNames DEF Files
    <3>3. CASE Removed(g, u, i)
      BY <1>1, <1>3, <1>4, <3>1, <3>2, <3>3 DEF RemovedIsGone, Exists
    <3>4. CASE u = t /\ i = n
      BY <1>1, <1>3, <2>1, <3>2, <3>4 DEF Exists
    <3> QED
      BY <3>1, <3>3, <3>4
  <2> QED
    BY <2>1 DEF RemovedIsGone, RollsBack
<1>7. DiskOK'
  <2>1. /\ pc'[g] # "failed" /\ \A h \in Runs : pc'[h] = "failed" => pc[h] = "failed"
        /\ \A h \in Runs : pc'[h] \in {"start", "check"} => pc[h] \in {"start", "check"}
    BY <1>1, OwnPlace DEF IInv
  <2> USE FileNames, WholeFile DEF IInv, DiskOK
  <2>2. ForeignIsOld' /\ SecKeyIsWhole'
    BY <1>1, <1>2, <1>3 DEF ForeignIsOld, SecKeyIsWhole, NoFile, Whole, Tiers
  <2>3. ASSUME NEW u \in Tiers, u \notin jammed', Exists(u, "EncKey.json")'
        PROVE  (disk[u]["SecKey.json"].keys = disk[u]["EncKey.json"].keys)'
    <3>1. u \notin jammed /\ Exists(u, "EncKey.json")
      BY <1>1, <1>2, <1>3, <2>3 DEF Exists
    <3>2. disk[u]["SecKey.json"].keys = disk[u]["EncKey.json"].keys
      BY <3>1 DEF EncKeyHasSecKey
    <3>3. ~(u = t /\ s = "SecKey.json" /\ UNCHANGED jammed)
      <4>1. Artifacts[4] = "EncKey.json" /\ (s = "SecKey.json" => n = 6)
        BY <1>1 DEF Artifacts
      <4>2. CASE u = t /\ n = 6
        BY <1>1, <1>4, <3>1, <4>1, <4>2 DEF RemovedIsGone, Removed
      <4> QED
        BY <4>1, <4>2
    <3>4. ~(u = t /\ s = "EncKey.json" /\ UNCHANGED jammed)
      BY <1>1, <1>2, <1>3, <2>3, <3>1 DEF Exists
    <3> QED
      BY <1>1, <1>2, <1>3, <2>3, <3>1, <3>2, <3>3, <3>4
  <2>4. EncKeyHasSecKey'
    BY <2>3 DEF EncKeyHasSecKey, Tiers
  <2>5. FailureLeavesNothing' /\ WritesLater'
    BY <1>1, <1>2, <1>3, <2>1 DEF FailureLeavesNothing, WritesLater, Untouched, NoFile, Tiers
  <2> QED
    BY <2>2, <2>4, <2>5
<1> QED
  BY <1>1, <1>5, <1>6, <1>7, Working DEF RunOK, BeginsWithRmp, TierAtWork, OtherTier, AtWork

(* A tier that was rolled back is left; after the MM tier the run has      *)
(* failed, and left nothing where every removal succeeded.                 *)
LEMMA RemoveDirKeeps ==
  ASSUME ~Concurrent, IInv, NEW g \in Runs, RemoveDir(g)
  PROVE  IInv'
<1>1. /\ Run(g) /\ RollsBack(g) /\ pc[g] = "rmdir" /\ tier[g] \in Tiers
      /\ UNCHANGED <<disk, missed, jammed>>
      /\ pc'[g] = IF tier[g] = "rmp" THEN "undo" ELSE "failed"
      /\ tier'[g] = "mm" /\ undone'[g] = 0
  BY DEF RemoveDir, Run, RollsBack, IInv, TypesOK, TypeOK, Goto
<1>2. RollsBackOwn(g) /\ RemovedIsGone(g)
  BY DEF IInv, RunOK
<1>3. CASE tier[g] = "rmp"
  <2>1. RollsBackOwn(g)'
    BY <1>1, <1>2, FileNames, SlotNames DEF RollsBackOwn, RollsBack, Exists, Tiers, NoFile,
       Slots, Artifacts
  <2>2. RemovedIsGone(g)'
    BY <1>1, <1>2, <1>3 DEF RemovedIsGone, Removed, RollsBack, Exists, Tiers, NoFile, Artifacts
  <2> QED
    BY <1>1, <1>3, <2>1, <2>2, QuietDisk, Working DEF RunOK, BeginsWithRmp, TierAtWork, OtherTier,
       AtWork
<1>4. CASE tier[g] = "mm"
  <2>1. RunOK(g)'
    BY <1>1, <1>4 DEF RunOK, BeginsWithRmp, TierAtWork, OtherTier, RollsBackOwn, RemovedIsGone,
       AtWork, RollsBack
  <2>2. ASSUME NEW t \in Tiers \ jammed, NEW f \in Files
        PROVE  g \notin disk[t][f].keys
    <3>1. CASE f \in Slots
      <4>1. PICK i \in 1..6 : f = Artifacts[i]
        BY <3>1, SlotNames DEF Slots
      <4>2. ~Exists(t, f)
        BY <1>1, <1>2, <1>4, <4>1 DEF RemovedIsGone, Removed, Tiers
      <4> QED
        BY <4>2, WholeFile DEF Exists
    <3>2. CASE f = "SecKey.json.tmp"
      BY <1>1, <1>2, <3>2 DEF RollsBackOwn, Tiers
    <3>3. CASE f = "foreign"
      BY <3>3, WholeFile, OldAssumption DEF IInv, DiskOK, ForeignIsOld
    <3> QED
      BY <3>1, <3>2, <3>3 DEF Files
  <2>3. DiskOK'
    <3>1. /\ \A h \in Runs \ {g} : pc'[h] = "failed" => pc[h] = "failed"
          /\ \A h \in Runs : pc'[h] \in {"start", "check"} => pc[h] \in {"start", "check"}
      BY <1>1, OwnPlace DEF IInv
    <3>2. FailureLeavesNothing' /\ WritesLater'
      BY <1>1, <2>2, <3>1 DEF IInv, DiskOK, FailureLeavesNothing, WritesLater, Untouched, Tiers,
         Files, Slots, Artifacts
    <3> QED
      BY <1>1, <3>2 DEF IInv, DiskOK, ForeignIsOld, SecKeyIsWhole, EncKeyHasSecKey, Exists, Tiers,
         NoFile, Whole
  <2> QED
    BY <1>1, <2>1, <2>3, Working
<1> QED
  BY <1>1, <1>3, <1>4 DEF Tiers

(* Every step keeps the invariant.                                         *)
LEMMA NextInvariant ==
  ASSUME ~Concurrent, IInv, [Next]_vars
  PROVE  IInv'
<1>1. CASE UNCHANGED vars
  <2>1. TypesOK'
    BY TypesStep DEF IInv
  <2>2. OneAtATime'
    BY <1>1 DEF vars, IInv, OneAtATime, Active, Ended
  <2>3. ASSUME NEW g \in Runs PROVE RunOK(g)'
    <3> USE <1>1 DEF vars, IInv, RunOK, AtWork, RollsBack, Exists, NoFile, Slots, Artifacts
    <3>1. (BeginsWithRmp(g) /\ OtherTier(g))'
      BY DEF BeginsWithRmp, OtherTier, Ahead, TakenForEmpty, HasSlot, Untouched, Holds, Files,
         Whole, Trio
    <3>2. (RollsBackOwn(g) /\ RemovedIsGone(g))'
      BY DEF RollsBackOwn, RemovedIsGone, Removed, Tiers
    <3>3. TierAtWork(g)'
      BY DEF TierAtWork, Ahead, TakenForEmpty, HasSlot, Untouched, Holds, Writing, Made, Files,
         Whole, Trio
    <3> QED
      BY <3>1, <3>2, <3>3
  <2>4. DiskOK'
    BY <1>1 DEF vars, IInv, DiskOK, WritesLater, Untouched, ForeignIsOld, SecKeyIsWhole,
       EncKeyHasSecKey, FailureLeavesNothing, Exists, Tiers, NoFile, Whole, Files, Slots, Artifacts
  <2> QED
    BY <2>1, <2>2, <2>3, <2>4 DEF IInv
<1> QED
  BY <1>1, LookingKeeps, CrashKeeps, MakeDirKeeps, OpenFileKeeps, WriteFileKeeps,
     RenameSecKeyKeeps, RemoveRawEncKeyKeeps, RemoveArtifactKeeps, RemoveDirKeeps DEF Next, Run

(* With one run at a time the invariant holds in every reachable state.    *)
THEOREM InvariantHolds == ASSUME ~Concurrent PROVE Spec => []IInv
BY InitInvariant, NextInvariant, PTL DEF Spec

-----------------------------------------------------------------------------
(* A SecKey.json in place is a whole one: a crash or a failure at any step *)
(* never leaves a torn one, if runs come one after the other.              *)
THEOREM SecretKeyIsWhole == ASSUME ~Concurrent PROVE Spec => []SecKeyIsWhole
<1>1. IInv => SecKeyIsWhole
  BY DEF IInv, DiskOK
<1> QED
  BY <1>1, InvariantHolds, PTL

(* No enveloped encryption key stands without the secret key that reads    *)
(* what it encrypts, at whatever step a run or its rollback ended.         *)
THEOREM NoOrphanedEncKey == ASSUME ~Concurrent PROVE Spec => []EncKeyHasSecKey
<1>1. IInv => EncKeyHasSecKey
  BY DEF IInv, DiskOK
<1> QED
  BY <1>1, InvariantHolds, PTL

(* A run that reports a failure has left no file where its clean-up met no *)
(* error, in either tier.                                                  *)
THEOREM FailureIsClean == ASSUME ~Concurrent PROVE Spec => []FailureLeavesNothing
<1>1. IInv => FailureLeavesNothing
  BY DEF IInv, DiskOK
<1> QED
  BY <1>1, InvariantHolds, PTL

(* A run that reports success has just removed EncKey.bin from the MM tier.*)
LEMMA SucceedsLast ==
  ASSUME IInv, NEW g \in Runs, Run(g), pc[g] # "ok", pc'[g] = "ok"
  PROVE  RemoveRawEncKey(g) /\ tier[g] = "mm" /\ Put("mm", "EncKey.bin", NoFile)
<1> USE DEF IInv, TypesOK, TypeOK, Goto, RollBack
<1>1. ~Start(g) /\ ~Check(g) /\ ~Crash(g)
  BY DEF Start, Check, Crash
<1>2. ~MakeDir(g) /\ ~CheckEmpty(g) /\ ~RemoveArtifact(g) /\ ~RemoveDir(g)
  BY DEF MakeDir, CheckEmpty, RemoveArtifact, RemoveDir
<1>3. ~OpenFile(g) /\ ~RenameSecKey(g)
  BY DEF OpenFile, RenameSecKey
<1>4. ~WriteFile(g)
  <2>1. AfterWrite(file[g]).pc \in {"open", "rename", "remove"}
    BY DEF AfterWrite, Written
  <2> QED
    BY <2>1 DEF WriteFile
<1>5. RemoveRawEncKey(g)
  BY <1>1, <1>2, <1>3, <1>4 DEF Run
<1> QED
  BY <1>5 DEF RemoveRawEncKey, Tiers

(* A run that reports success leaves two whole trios of its own generation *)
(* and nothing else.                                                       *)
LEMMA SuccessStep ==
  ASSUME ~Concurrent, IInv, [Next]_vars, NEW g \in Runs, pc[g] # "ok", pc'[g] = "ok"
  PROVE  \A t \in Tiers : {f \in Files : disk'[t][f] = Whole(g)} = Trio
<1>1. PICK h \in Runs : Run(h)
  BY DEF Next, vars
<1>2. h = g
  BY <1>1, OwnPlace DEF IInv
<1>3. RemoveRawEncKey(g) /\ tier[g] = "mm" /\ Put("mm", "EncKey.bin", NoFile)
  BY <1>1, <1>2, SucceedsLast
<1>4. Holds("mm", Trio \cup {"EncKey.bin"}, g) /\ Holds("rmp", Trio, g)
  BY <1>3 DEF RemoveRawEncKey, IInv, RunOK, TierAtWork, OtherTier, AtWork
<1>5. \A u \in Tiers, e \in Files :
        disk'[u][e] = IF u = "mm" /\ e = "EncKey.bin" THEN NoFile ELSE disk[u][e]
  BY <1>3, PutOne, NoFileIsContent, FileNames DEF IInv, TypesOK, Tiers
<1> QED
  BY <1>4, <1>5, FileNames, WholeFile DEF Holds, Trio, Tiers

(* Success means both tiers are complete and of one generation.            *)
THEOREM SuccessHasBothTiers == ASSUME ~Concurrent PROVE Spec => SuccessIsComplete
<1>1. ASSUME IInv, [Next]_vars
      PROVE  [\A g \in Runs : pc[g] # "ok" /\ pc'[g] = "ok" =>
               \A t \in Tiers : {f \in Files : disk'[t][f] = Whole(g)} = Trio]_vars
  BY <1>1, SuccessStep
<1> QED
  BY <1>1, InvariantHolds, PTL DEF Spec, SuccessIsComplete

(* A step changes files of the tier its run is at work on, after it found  *)
(* the directory empty, or slots of the tier it rolls back.                *)
LEMMA ChangesWhereItWorks ==
  ASSUME TypesOK, NEW g \in Runs, Run(g), NEW t \in Tiers, NEW f \in Files, disk'[t][f] # disk[t][f]
  PROVE  /\ t = tier[g]
         /\ \/ AtWork(g) /\ pc[g] \notin {"mkdir", "empty"}
            \/ pc[g] = "undo" /\ f \in Slots
<1> USE FileNames, NoFileIsContent DEF Written
<1>1. tier[g] \in Tiers /\ file[g] \in Written /\ disk \in [Tiers -> [Files -> Content]]
  BY DEF TypesOK, TypeOK
<1>2. ASSUME NEW e \in Files, NEW content, Put(tier[g], e, content)
      PROVE  t = tier[g] /\ f = e
  BY <1>1, <1>2 DEF Put
<1>3. CASE OpenFile(g) \/ WriteFile(g)
  <2>1. disk' = disk \/ \E content : Put(tier[g], file[g], content)
    BY <1>3 DEF OpenFile, WriteFile, Discard
  <2> QED
    BY <1>1, <1>2, <1>3, <2>1 DEF OpenFile, WriteFile, AtWork
<1>4. CASE RenameSecKey(g)
  <2>1. pc[g] = "rename"
    BY <1>4 DEF RenameSecKey
  <2>2. CASE Put(tier[g], file[g], NoFile)
    BY <1>1, <1>2, <2>1, <2>2 DEF AtWork
  <2>3. CASE disk' = [disk EXCEPT ![tier[g]]["SecKey.json"] = disk[tier[g]]["SecKey.json.tmp"],
                                  ![tier[g]]["SecKey.json.tmp"] = NoFile]
    BY <1>1, <2>1, <2>3 DEF AtWork
  <2> QED
    BY <1>4, <2>2, <2>3 DEF RenameSecKey, Discard
<1>5. CASE RemoveRawEncKey(g)
  <2>1. disk' = disk \/ Put(tier[g], "EncKey.bin", NoFile)
    BY <1>5 DEF RemoveRawEncKey
  <2> QED
    BY <1>2, <1>5, <2>1 DEF RemoveRawEncKey, AtWork
<1>6. CASE RemoveArtifact(g)
  <2>1. Artifacts[undone[g] + 1] \in Slots /\ Slots \subseteq Files
    BY <1>6, SlotNames DEF RemoveArtifact, TypesOK, TypeOK
  <2> QED
    BY <1>2, <1>6, <2>1 DEF RemoveArtifact
<1>7. CASE UNCHANGED disk
  BY <1>7
<1> QED
  BY <1>3, <1>4, <1>5, <1>6, <1>7 DEF Run, Start, Check, MakeDir, CheckEmpty, RemoveDir, Crash

(* A file that is there and changes is of the run that changes it, or is a *)
(* slot that the check of this run overlooked and its rollback removes.    *)
LEMMA ChangesOwn ==
  ASSUME IInv, NEW g \in Runs, Run(g), NEW t \in Tiers, NEW f \in Files,
         Exists(t, f), disk'[t][f] # disk[t][f]
  PROVE  /\ pc[g] \notin Ended
         /\ \/ disk[t][f].keys = {g}
            \/ pc[g] = "undo" /\ t \in missed[g] /\ f \in Slots
<1>1. /\ t = tier[g]
      /\ \/ AtWork(g) /\ pc[g] \notin {"mkdir", "empty"}
         \/ pc[g] = "undo" /\ f \in Slots
  BY ChangesWhereItWorks DEF IInv
<1>2. CASE AtWork(g) /\ pc[g] \notin {"mkdir", "empty"}
  BY <1>1, <1>2, TierIsOwn DEF AtWork, Ended
<1>3. CASE pc[g] = "undo" /\ f \in Slots
  BY <1>3 DEF IInv, RunOK, RollsBackOwn, RollsBack, Ended
<1> QED
  BY <1>1, <1>2, <1>3

(* GenerateKeys overwrites and deletes nothing but what this very run has  *)
(* written: not the caller's file, not an older set, not what a crash left;*)
(* except slots its check did not see, which its rollback may remove.      *)
THEOREM OnlyOwnFilesChange == ASSUME ~Concurrent PROVE Spec => TouchesOwnFilesOnly
<1>1. ASSUME IInv, Next, NEW t \in Tiers, NEW f \in Files, Exists(t, f), disk'[t][f] # disk[t][f]
      PROVE  \E g \in Runs :
               /\ pc[g] \notin Ended
               /\ \/ disk[t][f].keys = {g}
                  \/ pc[g] = "undo" /\ t \in missed[g] /\ f \in Slots
  BY <1>1, ChangesOwn DEF Next
<1>2. ASSUME IInv, [Next]_vars
      PROVE  [\A t \in Tiers, f \in Files :
                Exists(t, f) /\ disk'[t][f] # disk[t][f] =>
                  \E g \in Runs :
                    /\ pc[g] \notin Ended
                    /\ \/ disk[t][f].keys = {g}
                       \/ pc[g] = "undo" /\ t \in missed[g] /\ f \in Slots]_vars
  BY <1>1, <1>2
<1> QED
  BY <1>2, InvariantHolds, PTL DEF Spec, TouchesOwnFilesOnly

(* A set whose generation succeeded stays, if runs come one after the      *)
(* other: two at a time, and a check that overlooked slots, are the only   *)
(* ways to lose it.                                                        *)
THEOREM CompletedSetStays == ASSUME ~Concurrent PROVE Spec => CompletedIsKept
<1>1. ASSUME IInv, Next, NEW g \in Runs, pc[g] = "ok", NEW t \in Tiers, NEW f \in Trio,
             disk[t][f] = Whole(g), disk'[t][f] # disk[t][f]
      PROVE  \E h \in Runs : pc[h] = "undo" /\ missed[h] # {}
  <2>1. PICK h \in Runs : Run(h)
    BY <1>1 DEF Next
  <2>2. f \in Files /\ Exists(t, f) /\ disk[t][f].keys = {g}
    BY <1>1, FileNames, WholeFile DEF Trio, Exists
  <2>3. /\ pc[h] \notin Ended
        /\ disk[t][f].keys = {h} \/ (pc[h] = "undo" /\ t \in missed[h])
    BY <1>1, <2>1, <2>2, ChangesOwn
  <2>4. h # g
    BY <1>1, <2>3 DEF Ended
  <2> QED
    BY <2>2, <2>3, <2>4
<1>2. ASSUME IInv, [Next]_vars
      PROVE  [\A g \in Runs : pc[g] = "ok" =>
                \A t \in Tiers, f \in Trio :
                  disk[t][f] = Whole(g) /\ disk'[t][f] # disk[t][f] =>
                    \E h \in Runs : pc[h] = "undo" /\ missed[h] # {}]_vars
  BY <1>1, <1>2
<1> QED
  BY <1>2, InvariantHolds, PTL DEF Spec, CompletedIsKept
=============================================================================
