------------------------------ MODULE KeyReader ------------------------------
(***************************************************************************)
(* A program that reads the directory GenerateKeys works on: KeysExist,    *)
(* OpenKeys with any parts, and the eval-key reader that RegisterKeys and  *)
(* VerifyKeys open later.  Nothing locks the directory: every stat and     *)
(* every read sees the disk of that moment.                                *)
(***************************************************************************)
EXTENDS KeyGen, FiniteSets

KeyParts == {"Enc", "Eval", "Sec"}
Objects == {"stage", "context", "encryptor", "decryptor"}
Stuck == "stage that could not be removed"

(* The arguments of WithKeyParts: none, or one part alone; a list of two   *)
(* does what its parts do in turn.                                         *)
PartLists == {{}} \cup {{part} : part \in KeyParts}

binName == [Enc |-> "EncKey.bin", Eval |-> "EvalKey.bin", Sec |-> "SecKey.bin"]
jsonName == [Enc |-> "EncKey.json", Eval |-> "EvalKey.json", Sec |-> "SecKey.json"]

VARIABLES
  call,   \* the call in progress: what it does, for which parts, where it is
  loaded, \* loaded[t][part]: what it read of tier t, or NoFile
  held,   \* the staging directories and native objects it made and still has
  met     \* the runs that changed the disk since the keys were looked for (history)

readerVars == <<call, loaded, held, met>>

Idle == [does |-> "nothing", parts |-> {}, pc |-> "idle", tier |-> "rmp",
         todo |-> <<>>, path |-> "EncKey.bin"]
NothingLoaded == [t \in Tiers |-> [part \in KeyParts |-> NoFile]]

Calls == [does: {"nothing", "exist", "open", "eval"}, parts: PartLists,
          pc: {"idle", "stage", "json", "bin", "read", "build", "done", "opened", "absent",
               "failed"},
          tier: Tiers, todo: Seq(KeyParts), path: Slots]

ReaderTypeOK ==
  /\ TypeOK
  /\ call \in Calls
  /\ Len(call.todo) <= 3
  /\ loaded \in [Tiers -> [KeyParts -> Content]]
  /\ held \subseteq Tiers \X (Objects \cup {Stuck})
  /\ met \subseteq Runs

ReaderInit == Init /\ call = Idle /\ loaded = NothingLoaded /\ held = {} /\ met = {}

(* An empty list of parts means all.                                       *)
resolveKeyParts(parts) == IF parts = {} THEN KeyParts ELSE parts
IfWanted(parts, part, item) == IF part \in resolveKeyParts(parts) THEN <<item>> ELSE <<>>

-----------------------------------------------------------------------------
(* KeysExist looks for the parts of the RMP tier.                          *)
BeginKeysExist(parts) ==
  LET order == IfWanted(parts, "Enc", "Enc") \o IfWanted(parts, "Eval", "Eval")
                 \o IfWanted(parts, "Sec", "Sec")
  IN  /\ call.pc = "idle"
      /\ call' = [Idle EXCEPT !.does = "exist", !.parts = parts, !.pc = "json", !.todo = order]
      /\ UNCHANGED <<loaded, held>>

(* openKeyBundle materialises EncKey, then SecKey.                         *)
ToMaterialise(parts) == IfWanted(parts, "Enc", "Enc") \o IfWanted(parts, "Sec", "Sec")

BeginOpenKeys(parts) ==
  /\ call.pc = "idle"
  /\ call' = [Idle EXCEPT !.does = "open", !.parts = parts, !.pc = "stage",
                          !.todo = ToMaterialise(parts)]
  /\ UNCHANGED <<loaded, held>>

(* RegisterKeys or VerifyKeys opens the eval key of one tier, then of the  *)
(* other.                                                                  *)
BeginEvalKeys ==
  /\ call.pc = "opened"
  /\ call.does = "open"
  /\ call' = [call EXCEPT !.does = "eval", !.pc = "json", !.tier = "rmp", !.todo = <<"Eval">>]
  /\ UNCHANGED <<loaded, held>>

(* cleanup: the staging directory of the tier goes.  RemoveAll may fail,   *)
(* which is ignored.                                                       *)
CleanUp(objects, t) ==
  LET rest == objects \ {<<t, "stage">>}
  IN  {rest} \cup (IF <<t, "stage">> \in objects THEN {rest \cup {<<t, Stuck>>}} ELSE {})

(* A step of the call fails, and only these objects are left.  OpenKeys    *)
(* closes the RMP bundle when the MM tier failed; KeysExist and the        *)
(* eval-key reader leave the open keys alone.                              *)
Fail(answer, left) ==
  /\ call' = [call EXCEPT !.pc = answer, !.path = "EncKey.bin", !.todo = <<>>]
  /\ loaded' = NothingLoaded
  /\ held' = IF call.does = "open" /\ call.tier = "mm"
              THEN left \ ({"rmp"} \X {"context", "encryptor", "decryptor"})
              ELSE left

(* A slot cannot be materialised: openKeyBundle removes what it staged.    *)
FailSlot(answer) ==
  IF call.does = "open" THEN \E left \in CleanUp(held, call.tier) : Fail(answer, left)
                        ELSE Fail(answer, held)

(* Where a tier goes on when its slots are read.                           *)
AfterSlots(todo) == IF todo = <<>> THEN "build" ELSE "json"

MakeStage ==
  /\ call.pc = "stage"
  /\ \/ /\ held' = held \cup {<<call.tier, "stage">>}
        /\ call' = [call EXCEPT !.pc = AfterSlots(call.todo)]
        /\ UNCHANGED loaded
     \/ Fail("failed", held)

(* A part was found.  KeysExist goes on to the next; the others read it.   *)
Found(path) ==
  LET rest == Tail(call.todo)
  IN  /\ call' = CASE call.does # "exist" -> [call EXCEPT !.pc = "read", !.path = path]
                   [] call.does = "exist" /\ rest # <<>> ->
                        [call EXCEPT !.pc = "json", !.todo = rest]
                   [] call.does = "exist" /\ rest = <<>> ->
                        [call EXCEPT !.pc = "done", !.todo = rest]
      /\ UNCHANGED <<loaded, held>>

(* resolveKeySlot prefers the envelope, whatever is in it.  A stat that    *)
(* fails counts as a file that is not there.                               *)
StatJSON ==
  LET json == jsonName[Head(call.todo)]
  IN  /\ call.pc = "json"
      /\ \/ Exists(call.tier, json) /\ Found(json)
         \/ call' = [call EXCEPT !.pc = "bin"] /\ UNCHANGED <<loaded, held>>

StatBin ==
  LET bin == binName[Head(call.todo)]
  IN  /\ call.pc = "bin"
      /\ \/ Exists(call.tier, bin) /\ Found(bin)
         \/ FailSlot("absent")

(* A whole envelope is unwrapped; raw bytes are copied or streamed whatever*)
(* they are; and the file may be gone by now.                              *)
ReadSlot ==
  LET part == Head(call.todo)
      rest == Tail(call.todo)
      content == disk[call.tier][call.path]
  IN  /\ call.pc = "read"
      /\ \/ /\ Exists(call.tier, call.path)
            /\ call.path = jsonName[part] => content.torn = {}
            /\ loaded' = [loaded EXCEPT ![call.tier][part] = content]
            /\ call' = CASE call.does = "open" ->
                              [call EXCEPT !.pc = AfterSlots(rest), !.todo = rest,
                                           !.path = "EncKey.bin"]
                         [] call.does = "eval" /\ call.tier = "rmp" ->
                              [call EXCEPT !.pc = "json", !.tier = "mm"]
                         [] call.does = "eval" /\ call.tier = "mm" ->
                              [call EXCEPT !.pc = "done", !.todo = rest]
            /\ UNCHANGED held
         \/ FailSlot("failed")

-----------------------------------------------------------------------------
(* The native objects of the tier, and those a bundle is made of.          *)
Natives(names) == {call.tier} \X names
BundleOf(parts) == {"context"} \cup (IF "Enc" \in resolveKeyParts(parts) THEN {"encryptor"} ELSE {})
                              \cup (IF "Sec" \in resolveKeyParts(parts) THEN {"decryptor"} ELSE {})

(* The bundle is complete and its staging directory goes; the MM tier      *)
(* follows the RMP tier.                                                   *)
Built ==
  /\ held' \in CleanUp(held \cup Natives(BundleOf(call.parts)), call.tier)
  /\ call' = IF call.tier = "rmp"
             THEN [call EXCEPT !.pc = "stage", !.tier = "mm", !.todo = ToMaterialise(call.parts)]
             ELSE [call EXCEPT !.pc = "opened"]
  /\ UNCHANGED loaded

(* The context fails: there is no native object yet.                       *)
ContextFails == \E left \in CleanUp(held, call.tier) : Fail("failed", left)

(* The encryptor fails: the context is closed.                             *)
EncryptorFails ==
  LET made == held \cup Natives({"context"})
  IN  /\ "encryptor" \in BundleOf(call.parts)
      /\ \E left \in CleanUp(made \ Natives({"context"}), call.tier) : Fail("failed", left)

(* Mutant: the decryptor fails, and only the context is closed, as when    *)
(* the encryptor fails.                                                    *)
ContextClosedOnly ==
  LET made == held \cup Natives(BundleOf(call.parts) \ {"decryptor"})
  IN  /\ "decryptor" \in BundleOf(call.parts)
      /\ \E left \in CleanUp(made \ Natives({"context"}), call.tier) : Fail("failed", left)

(* The decryptor fails: keyBundle.close closes what the bundle has.        *)
DecryptorFails ==
  LET made == held \cup Natives(BundleOf(call.parts) \ {"decryptor"})
  IN  /\ "decryptor" \in BundleOf(call.parts)
      /\ \E left \in CleanUp(made \ Natives({"decryptor", "encryptor", "context"}), call.tier) :
           Fail("failed", left)

(* The context, the encryptor and the decryptor are built from staged files*)
(* of the call's own, in one step; each may fail, which a torn raw key     *)
(* need not make it.                                                       *)
BuildBundle ==
  /\ call.pc = "build"
  /\ Built \/ ContextFails \/ EncryptorFails \/ DecryptorFails

(* The program is told the answer, closes the keys it has, and may start   *)
(* over; a Keys that is open may be closed without being registered.  The  *)
(* next call stages in a directory of its own.                             *)
Return ==
  /\ call.pc \in {"done", "opened", "absent", "failed"}
  /\ call' = Idle
  /\ loaded' = NothingLoaded
  /\ held' = {}

Read ==
  \/ \E parts \in PartLists : BeginKeysExist(parts) \/ BeginOpenKeys(parts)
  \/ BeginEvalKeys
  \/ MakeStage
  \/ StatJSON
  \/ StatBin
  \/ ReadSlot
  \/ BuildBundle
  \/ Return

(* The disk changes while keys are looked for or open.                     *)
Meets(g) == met' = IF call.pc # "idle" /\ disk' # disk THEN met \cup {g} ELSE met

ReaderNext ==
  \/ \E g \in Runs : Run(g) /\ Meets(g) /\ UNCHANGED <<call, loaded, held>>
  \/ Read /\ met' = (IF call'.pc = "idle" THEN {} ELSE met) /\ UNCHANGED vars

ReaderSpec == ReaderInit /\ [][ReaderNext]_<<vars, readerVars>>

-----------------------------------------------------------------------------
(* What a Keys is made of comes from one call of GenerateKeys, in both     *)
(* tiers and for all parts, although nothing locks the directory: unless   *)
(* two calls changed it meanwhile, or one whose check overlooked a tier    *)
(* left a mixture.                                                         *)
OneGeneration ==
  /\ call.pc = "opened" /\ Cardinality(met) <= 1
  /\ \A g \in Runs : missed[g] = {}
  => \E key \in Runs \cup {Old} : \A t \in Tiers, part \in KeyParts :
       loaded[t][part].keys \subseteq {key}

(* The eval key that RegisterKeys streams for a Keys that decrypts is the  *)
(* whole eval key of the secret key it decrypts with: not a torn file of   *)
(* a crashed run, whose digest would match.                                *)
StreamsWhatItDecrypts ==
  call.does = "eval" /\ Cardinality(met) <= 1 =>
    \A t \in Tiers :
      /\ loaded[t]["Eval"] # NoFile
      /\ loaded[t]["Sec"] # NoFile
      => loaded[t]["Eval"] = loaded[t]["Sec"]

(* Whatever step fails, OpenKeys leaves no native object behind, and no    *)
(* staging directory, in which the secret key lies unwrapped, but one that *)
(* could not be removed.                                                   *)
NothingLeftBehind ==
  /\ call.pc \in {"idle", "done", "opened", "absent", "failed"} =>
       held \cap (Tiers \X {"stage"}) = {}
  /\ call.does = "open" /\ call.pc \in {"absent", "failed"} => held \subseteq Tiers \X {Stuck}

(* KeysExist looks at names only, and a partial SecKey.json is never "a    *)
(* valid slot" to it: when the secret key was among the parts it found, and*)
(* the directory did not change meanwhile, every key file of the RMP tier  *)
(* is of one generation and whole, but for EncKey.json, which is written   *)
(* last: also when the run that wrote them crashed, is at work or could not*)
(* clean up.                                                               *)
FoundKeysAreWhole ==
  /\ call.does = "exist" /\ call.pc = "done" /\ met = {}
  /\ "Sec" \in resolveKeyParts(call.parts)
  => \E key \in Runs \cup {Old} : \A s \in Slots :
       Exists("rmp", s) =>
         /\ disk["rmp"][s].keys = {key}
         /\ s # "EncKey.json" => disk["rmp"][s] = Whole(key)
=============================================================================
