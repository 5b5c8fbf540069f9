------------------------------- MODULE Search -------------------------------
(***************************************************************************)
(* One Client.Search: the encrypted scores of every cell are decrypted and *)
(* ranked, and the ranked rows are resolved to items window by window,     *)
(* while the server retires cells and hides items between the RPCs.        *)
(***************************************************************************)
EXTENDS Integers, FiniteSets, FiniteSetsExt, SequencesExt

CONSTANTS
  Items,         \* the items (their ids)
  NoId,          \* the empty id
  Scores,        \* bound: the scores a row may get
  FlatShape,     \* bound: how many rows each flat cell has
  ClusterShape,  \* bound: how many rows each cluster cell has
  TopKs,         \* bound: the values of topK
  MaxDrops,      \* bound: how often the server retires or hides something
  ByteBits,      \* the bits of a byte of the dead bitmap; 8
  MaxInt,        \* the largest int; 2^63 - 1
  MaxInt32       \* the largest int32; 2^31 - 1

ASSUME NoIdAssumption == NoId \notin Items
ASSUME WidthAssumption ==
  /\ ByteBits \in Nat \ {0}
  /\ MaxInt \in Nat
  /\ TopKs \subseteq (-MaxInt - 1)..MaxInt
  /\ MaxInt32 \in Nat
ASSUME BoundsAssumption ==
  /\ Scores \subseteq Int
  /\ FlatShape \in Seq(Nat) /\ ClusterShape \in Seq(Nat)
  /\ MaxDrops \in Nat
(* A Match has an int32 for the uint32 id of its cluster.                  *)
ASSUME ClusterIdAssumption == Len(ClusterShape) <= MaxInt32

Tiers == {"rmp", "mm"}

VARIABLES
  pc,     \* where the call is
  topK,   \* its argument
  resp,   \* resp[t]: the cells the Search RPC returned of tier t
  cell,   \* how many of them have been decrypted
  cands,  \* the candidates
  batch,  \* the size of a window
  cursor, \* how many candidates have been resolved
  out,    \* the matches found so far
  asked,  \* what each resolved candidate was resolved to (history)
  trips,  \* GetMetadata round trips made (history)
  gone,   \* the positions the server no longer resolves
  drops   \* how often it retired or hid something

callVars == <<pc, topK, resp, cell, cands, batch, cursor, out, asked, trips>>
serverVars == <<gone, drops>>
vars == <<pc, topK, resp, cell, cands, batch, cursor, out, asked, trips, gone, drops>>

Shape == [t \in Tiers |-> IF t = "rmp" THEN FlatShape ELSE ClusterShape]
Positions(t) == UNION {{<<t, i, row>> : row \in 0..(Shape[t][i] - 1)} : i \in DOMAIN Shape[t]}
AllPositions == Positions("rmp") \cup Positions("mm")

Candidates == [at: AllPositions, score: Scores]
Matches == [id: Items, row: Nat, score: Scores, cluster: Int]

TypeOK ==
  /\ pc \in {"search", "decrypt", "rank", "resolve", "done", "failed"}
  /\ topK \in TopKs
  /\ cands \in Seq(Candidates)
  /\ cell \in 0..(Len(FlatShape) + Len(ClusterShape))
  /\ batch \in 0..Len(cands)
  /\ cursor \in 0..Len(cands)
  /\ out \in Seq(Matches)
  /\ asked \in Seq(Items \cup {NoId}) /\ Len(asked) = cursor
  /\ trips \in Nat
  /\ gone \subseteq AllPositions
  /\ drops \in 0..MaxDrops

(* The members of a set of numbers, the smallest first.                    *)
InOrder(S) == [n \in 1..Cardinality(S) |-> CHOOSE i \in S : Cardinality({j \in S : j <= i}) = n]

-----------------------------------------------------------------------------
(* The server.  An item lies in one row of a tier at most; a dead bitmap   *)
(* is cut after its last set bit.                                          *)
Pack(rows) ==
  IF rows = {} THEN <<>>
  ELSE [b \in 1..(Max(rows) \div ByteBits + 1) |->
          {r % ByteBits : r \in {x \in rows : x \div ByteBits = b - 1}}]

Cells(n) == [item: [1..n -> Items], score: [1..n -> Scores],
             dead: {Pack(rows) : rows \in SUBSET (0..(n - 1))}]

TierReplies(t) ==
  {reply \in {<<>>} \cup [DOMAIN Shape[t] -> UNION {Cells(Shape[t][i]) : i \in DOMAIN Shape[t]}] :
     /\ \A i \in DOMAIN reply : Len(reply[i].item) = Shape[t][i]
     /\ \A p, q \in {r \in Positions(t) : r[2] \in DOMAIN reply} :
          reply[p[2]].item[p[3] + 1] = reply[q[2]].item[q[3] + 1] => p = q}

ItemAt(p) == resp[p[1]][p[2]].item[p[3] + 1]
Answered == {p \in AllPositions : p[2] \in DOMAIN resp[p[1]]}

(* A rebalance retires a cell: its rows cannot be resolved any more.       *)
RetireCell(t, i) ==
  /\ pc \in {"decrypt", "rank", "resolve"}
  /\ drops < MaxDrops
  /\ gone' = gone \cup {p \in Answered : p[1] = t /\ p[2] = i}
  /\ drops' = drops + 1
  /\ UNCHANGED callVars

(* An item is deleted, or retagged out of the scope of the call.           *)
HideItem(item) ==
  /\ pc \in {"decrypt", "rank", "resolve"}
  /\ drops < MaxDrops
  /\ gone' = gone \cup {p \in Answered : ItemAt(p) = item}
  /\ drops' = drops + 1
  /\ UNCHANGED callVars

-----------------------------------------------------------------------------
Init ==
  /\ pc = "search"
  /\ topK \in TopKs
  /\ resp = [t \in Tiers |-> <<>>]
  /\ cell = 0
  /\ cands = <<>>
  /\ batch = 0
  /\ cursor = 0
  /\ out = <<>>
  /\ asked = <<>>
  /\ trips = 0
  /\ gone = {}
  /\ drops = 0

Fail ==
  /\ pc' = "failed"
  /\ UNCHANGED <<topK, resp, cell, cands, batch, cursor, out, asked, trips, serverVars>>

SearchRPC ==
  /\ pc = "search"
  /\ \E flat \in TierReplies("rmp"), clustered \in TierReplies("mm") :
       resp' = [t \in Tiers |-> IF t = "rmp" THEN flat ELSE clustered]
  /\ pc' = "decrypt"
  /\ UNCHANGED <<topK, cell, cands, batch, cursor, out, asked, trips, serverVars>>

(* Mutant: the last byte of a bitmap is taken to be past its end.          *)
isDeadShort(dead, row) ==
  /\ row \div ByteBits < Len(dead) - 1
  /\ row % ByteBits \in dead[row \div ByteBits + 1]

isDead(dead, row) ==
  /\ row \div ByteBits < Len(dead)
  /\ row % ByteBits \in dead[row \div ByteBits + 1]

LiveRows(t, i) ==
  LET c == resp[t][i]
      live == InOrder({n \in DOMAIN c.score : ~isDead(c.dead, n - 1)})
  IN  [n \in DOMAIN live |-> [at |-> <<t, i, live[n] - 1>>, score |-> c.score[live[n]]]]

(* The flat cells, then the cluster cells.                                 *)
CellNumber(n) ==
  IF n <= Len(resp["rmp"]) THEN <<"rmp", n>> ELSE <<"mm", n - Len(resp["rmp"])>>
CellCount == Len(resp["rmp"]) + Len(resp["mm"])

DecryptCell ==
  /\ pc = "decrypt"
  /\ cell < CellCount
  /\ cell' = cell + 1
  /\ cands' = cands \o LiveRows(CellNumber(cell')[1], CellNumber(cell')[2])
  /\ UNCHANGED <<pc, topK, resp, batch, cursor, out, asked, trips, serverVars>>

(* sort.SliceStable by descending score.                                   *)
Ranked(s) ==
  LET Above(i, j) == s[i].score > s[j].score \/ (s[i].score = s[j].score /\ i < j)
      Place(i) == Cardinality({j \in DOMAIN s : Above(j, i)}) + 1
  IN  [n \in DOMAIN s |-> s[CHOOSE i \in DOMAIN s : Place(i) = n]]

Wrap(n) == ((n + MaxInt + 1) % (2 * (MaxInt + 1))) - (MaxInt + 1)

(* Mutants: the overflow is not noticed; no margin for items served twice. *)
BatchUnchecked(k, n) == IF k > 0 /\ Wrap(k * 2) < n THEN Wrap(k * 2) ELSE n
BatchOfTopK(k, n) == IF 0 < k /\ k < n THEN k ELSE n

(* All candidates at once, or windows of topK*2 when that does not         *)
(* overflow.                                                               *)
Batch(k, n) == IF k > 0 /\ 0 < Wrap(k * 2) /\ Wrap(k * 2) < n THEN Wrap(k * 2) ELSE n

RankCandidates ==
  /\ pc = "decrypt"
  /\ cell = CellCount
  /\ cands' = Ranked(cands)
  /\ batch' = Batch(topK, Len(cands))
  /\ pc' = "resolve"
  /\ UNCHANGED <<topK, resp, cell, cursor, out, asked, trips, serverVars>>

-----------------------------------------------------------------------------
(* GetMetadata answers each tier by a list of its own, in the order asked; *)
(* an answer may be short.                                                 *)
Entries(window, t) ==
  LET asks == InOrder({j \in DOMAIN window : window[j].at[1] = t})
  IN  [n \in DOMAIN asks |->
         LET p == window[asks[n]].at IN IF p \in gone THEN NoId ELSE ItemAt(p)]

(* Mutant: the answers of both tiers are counted by one cursor.            *)
ResolvedIdsOneCursor(window, entries) ==
  [j \in DOMAIN window |->
     IF j <= Len(entries[window[j].at[1]]) THEN entries[window[j].at[1]][j] ELSE NoId]

(* resolvePositions zips the two lists back to the window.                 *)
ResolvedIds(window, entries) ==
  [j \in DOMAIN window |->
     LET t == window[j].at[1]
         n == Cardinality({k \in 1..j : window[k].at[1] = t})
     IN  IF n <= Len(entries[t]) THEN entries[t][n] ELSE NoId]

(* int32 of a uint32.                                                      *)
Int32(n) == IF n <= MaxInt32 THEN n ELSE n - 2 * (MaxInt32 + 1)

FlatClusterID == -1
Match(k, id) ==
  [id |-> id, row |-> k.at[3], score |-> k.score,
   cluster |-> IF k.at[1] = "rmp" THEN FlatClusterID ELSE Int32(k.at[2])]

(* Mutant: an item is looked for among the matches of its own window only. *)
FreshInWindow(window, ids) ==
  LET New(j) == ids[j] # NoId /\ \A i \in 1..(j - 1) : ids[i] # ids[j]
      js == InOrder({j \in DOMAIN window : New(j)})
      found == [n \in DOMAIN js |-> Match(window[js[n]], ids[js[n]])]
  IN  IF topK > 0 THEN SubSeq(found, 1, Min({topK - Len(out), Len(found)})) ELSE found

(* The rows of a window that become matches: resolved, and not seen before *)
(* in this window or an earlier one; no more than topK asks for.           *)
Fresh(window, ids) ==
  LET New(j) == /\ ids[j] # NoId
                /\ \A i \in DOMAIN out : out[i].id # ids[j]
                /\ \A i \in 1..(j - 1) : ids[i] # ids[j]
      js == InOrder({j \in DOMAIN window : New(j)})
      found == [n \in DOMAIN js |-> Match(window[js[n]], ids[js[n]])]
  IN  IF topK > 0 THEN SubSeq(found, 1, Min({topK - Len(out), Len(found)})) ELSE found

ResolveWindow ==
  /\ pc = "resolve"
  /\ cursor < Len(cands)
  /\ LET window == SubSeq(cands, cursor + 1, Min({cursor + batch, Len(cands)}))
     IN  \E short \in SUBSET Tiers :
           LET all == [t \in Tiers |-> Entries(window, t)]
               entries == [t \in Tiers |-> IF t \in short /\ all[t] # <<>>
                                           THEN Front(all[t]) ELSE all[t]]
               ids == ResolvedIds(window, entries)
           IN  /\ out' = out \o Fresh(window, ids)
               /\ asked' = asked \o ids
               /\ cursor' = cursor + Len(window)
  /\ trips' = trips + 1
  /\ pc' = IF topK > 0 /\ Len(out') >= topK THEN "done" ELSE "resolve"
  /\ UNCHANGED <<topK, resp, cell, cands, batch, serverVars>>

Exhausted ==
  /\ pc = "resolve"
  /\ cursor >= Len(cands)
  /\ pc' = "done"
  /\ UNCHANGED <<topK, resp, cell, cands, batch, cursor, out, asked, trips, serverVars>>

(* An RPC fails, or a cell does not decrypt.                               *)
StepFails ==
  /\ \/ pc = "search"
     \/ pc = "decrypt" /\ cell < CellCount
     \/ pc = "resolve" /\ cursor < Len(cands)
  /\ Fail

CallStep == SearchRPC \/ DecryptCell \/ RankCandidates \/ ResolveWindow \/ Exhausted \/ StepFails

Next ==
  \/ CallStep
  \/ \E t \in Tiers : \E i \in DOMAIN Shape[t] : RetireCell(t, i)
  \/ \E item \in Items : HideItem(item)

Spec == Init /\ [][Next]_vars

-----------------------------------------------------------------------------
Seen(id) == {n \in DOMAIN asked : asked[n] = id}
Found == {asked[n] : n \in DOMAIN asked} \ {NoId}

(* The answer is what one pass over the whole ranking gives: each item     *)
(* once, at the best score it resolved at, best first, topK of them or, if *)
(* there are fewer, all that resolved, with no candidate left unasked.     *)
AnswerIsRanking ==
  pc = "done" =>
    /\ \A i, j \in DOMAIN out : i < j => out[i].id # out[j].id /\ out[i].score >= out[j].score
    /\ \A i \in DOMAIN out : out[i].score = Max({cands[n].score : n \in Seen(out[i].id)})
    /\ topK > 0 => Len(out) <= topK
    /\ topK <= 0 \/ Len(out) < topK =>
         cursor = Len(cands) /\ {out[i].id : i \in DOMAIN out} = Found
    /\ \A id \in Found \ {out[i].id : i \in DOMAIN out}, i \in DOMAIN out :
         \A n \in Seen(id) : cands[n].score <= out[i].score

(* A match carries the row, the score and the cluster of a position that   *)
(* held this very item, never those of a neighbour in the window.          *)
MatchesArePlaced ==
  \A i \in DOMAIN out :
    \E p \in Answered :
      /\ ItemAt(p) = out[i].id
      /\ p[3] = out[i].row
      /\ resp[p[1]][p[2]].score[p[3] + 1] = out[i].score
      /\ out[i].cluster = IF p[1] = "rmp" THEN FlatClusterID ELSE p[2]

(* What is ranked is every row the server did not mark dead, once, and no  *)
(* other: a dead row is never asked for, a live one never lost.            *)
RankedRowsAreLive ==
  pc = "resolve" =>
    LET Marked(p) == \E b \in DOMAIN resp[p[1]][p[2]].dead :
                       p[3] - (b - 1) * ByteBits \in resp[p[1]][p[2]].dead[b]
    IN  /\ {cands[n].at : n \in DOMAIN cands} = {p \in Answered : ~Marked(p)}
        /\ \A i, j \in DOMAIN cands : cands[i].at = cands[j].at => i = j

(* "The common (no-drop) case resolves everything in one GetMetadata", and *)
(* no call makes a round trip after it has its topK.                       *)
OneRoundTrip == pc = "done" /\ NoId \notin {asked[n] : n \in DOMAIN asked} => trips <= 1
=============================================================================
