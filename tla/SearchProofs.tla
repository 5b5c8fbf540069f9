---------------------------- MODULE SearchProofs ----------------------------
(***************************************************************************)
(* Proofs about Search, for any cells, scores, dead bitmaps and topK, any  *)
(* width of an int and any number of changes on the server: the windows    *)
(* give what one pass over the whole ranking gives.                        *)
(***************************************************************************)
EXTENDS Search, FiniteSetTheorems, SequenceTheorems, TLAPS

-----------------------------------------------------------------------------
(* Counting.                                                               *)

(* The members of D that come before i, and the place of i.                *)
Before(D, R, i) == {j \in D : <<j, i>> \in R}
PlaceIn(D, R, i) == Cardinality(Before(D, R, i)) + 1

StrictOrder(D, R) ==
  /\ \A i \in D : <<i, i>> \notin R
  /\ \A i, j \in D : i # j => <<i, j>> \in R \/ <<j, i>> \in R
  /\ \A i, j, k \in D : <<i, j>> \in R /\ <<j, k>> \in R => <<i, k>> \in R

(* In a strict order of a finite set there is one member at each place.    *)
LEMMA PlacesAreTaken ==
  ASSUME NEW D, IsFiniteSet(D), NEW R, StrictOrder(D, R)
  PROVE  /\ Cardinality(D) \in Nat
         /\ \A i \in D : PlaceIn(D, R, i) \in 1..Cardinality(D)
         /\ \A i, j \in D : <<i, j>> \in R <=> PlaceIn(D, R, i) < PlaceIn(D, R, j)
         /\ \A i, j \in D : PlaceIn(D, R, i) = PlaceIn(D, R, j) => i = j
         /\ \A n \in 1..Cardinality(D) : \E i \in D : PlaceIn(D, R, i) = n
<1>1. Cardinality(D) \in Nat
  BY FS_CardinalityType
<1>2. ASSUME NEW i \in D
      PROVE  /\ IsFiniteSet(Before(D, R, i)) /\ Cardinality(Before(D, R, i)) \in Nat
             /\ Cardinality(Before(D, R, i)) < Cardinality(D)
  <2>1. Before(D, R, i) \in SUBSET D /\ i \notin Before(D, R, i)
    BY DEF Before, StrictOrder
  <2>2. IsFiniteSet(Before(D, R, i))
    BY <2>1, FS_Subset
  <2>. QED
    BY <1>1, <2>1, <2>2, FS_Subset, FS_CardinalityType
<1>3. \A i \in D : PlaceIn(D, R, i) \in 1..Cardinality(D)
  BY <1>1, <1>2 DEF PlaceIn
<1>4. ASSUME NEW i \in D, NEW j \in D, <<i, j>> \in R
      PROVE  PlaceIn(D, R, i) < PlaceIn(D, R, j)
  <2>1. Before(D, R, i) \in SUBSET Before(D, R, j)
    BY <1>4 DEF Before, StrictOrder
  <2>2. i \in Before(D, R, j) /\ i \notin Before(D, R, i)
    BY <1>4 DEF Before, StrictOrder
  <2>3. Cardinality(Before(D, R, i)) < Cardinality(Before(D, R, j))
    BY <1>2, <2>1, <2>2, FS_Subset
  <2>. QED
    BY <1>2, <2>3 DEF PlaceIn
<1>5. \A i, j \in D : i = j \/ PlaceIn(D, R, i) < PlaceIn(D, R, j)
                            \/ PlaceIn(D, R, j) < PlaceIn(D, R, i)
  BY <1>4 DEF StrictOrder
<1>6. \A i, j \in D : PlaceIn(D, R, i) = PlaceIn(D, R, j) => i = j
  BY <1>1, <1>3, <1>5
<1>7. \A i, j \in D : <<i, j>> \in R <=> PlaceIn(D, R, i) < PlaceIn(D, R, j)
  <2>. SUFFICES ASSUME NEW i \in D, NEW j \in D, PlaceIn(D, R, i) < PlaceIn(D, R, j)
                PROVE  <<i, j>> \in R
    BY <1>4
  <2>1. i # j /\ ~(PlaceIn(D, R, j) < PlaceIn(D, R, i))
    BY <1>1, <1>3
  <2>. QED
    BY <1>4, <2>1 DEF StrictOrder
<1>8. ASSUME NEW n \in 1..Cardinality(D)
      PROVE  \E i \in D : PlaceIn(D, R, i) = n
  <2>1. PICK f : f = [i \in D |-> PlaceIn(D, R, i)]
    OBVIOUS
  <2>2. f \in Injection(D, 1..Cardinality(D))
    BY <1>3, <1>6, <2>1 DEF Injection, IsInjective
  <2>3. IsFiniteSet(1..Cardinality(D)) /\ Cardinality(1..Cardinality(D)) = Cardinality(D)
    BY <1>1, FS_Interval
  <2>4. f \in Surjection(D, 1..Cardinality(D))
    BY <2>2, <2>3, FS_Injection
  <2>5. PICK i \in D : f[i] = n
    BY <2>4 DEF Surjection
  <2>. QED
    BY <2>1, <2>5
<1>. QED
  BY <1>1, <1>3, <1>6, <1>7, <1>8

-----------------------------------------------------------------------------
(* The union of two sets that have nothing in common.                      *)
LEMMA DisjointUnion ==
  ASSUME NEW S, IsFiniteSet(S), NEW T, IsFiniteSet(T), S \cap T = {}
  PROVE  /\ IsFiniteSet(S \cup T) /\ Cardinality(S \cup T) = Cardinality(S) + Cardinality(T)
         /\ Cardinality(S) \in Nat /\ Cardinality(T) \in Nat
<1>1. Cardinality(S) \in Nat /\ Cardinality(T) \in Nat
  BY FS_CardinalityType
<1>2. Cardinality(S \cap T) = 0
  BY FS_EmptySet
<1>3. IsFiniteSet(S \cup T)
  BY FS_Union
<1>4. Cardinality(S \cup T) = Cardinality(S) + Cardinality(T) - Cardinality(S \cap T)
  BY FS_Union
<1>. QED
  BY <1>1, <1>2, <1>3, <1>4

(* The members of S up to i.                                               *)
UpTo(S, i) == {j \in S : j <= i}

(* InOrder lists the members of a set, the n-th has n members up to it.    *)
LEMMA InOrderIs ==
  ASSUME NEW S \in SUBSET Nat, IsFiniteSet(S)
  PROVE  /\ Cardinality(S) \in Nat
         /\ InOrder(S) \in [1..Cardinality(S) -> S]
         /\ \A n \in 1..Cardinality(S) : Cardinality(UpTo(S, InOrder(S)[n])) = n
         /\ \A m, n \in 1..Cardinality(S) : m < n => InOrder(S)[m] < InOrder(S)[n]
         /\ \A i \in S : /\ Cardinality(UpTo(S, i)) \in 1..Cardinality(S)
                         /\ InOrder(S)[Cardinality(UpTo(S, i))] = i
<1>1. PICK R : R = {e \in S \X S : e[1] < e[2]}
  OBVIOUS
<1>2. StrictOrder(S, R) /\ \A i, j \in S : <<i, j>> \in R <=> i < j
  BY <1>1 DEF StrictOrder
<1>3. ASSUME NEW i \in S
      PROVE  Cardinality(UpTo(S, i)) = PlaceIn(S, R, i)
  <2>1. i \notin Before(S, R, i)
    BY <1>2 DEF Before
  <2>2. \A j \in S : j <= i <=> j < i \/ j = i
    OBVIOUS
  <2>3. UpTo(S, i) = Before(S, R, i) \cup {i}
    BY <1>2, <2>2 DEF UpTo, Before
  <2>4. IsFiniteSet(Before(S, R, i))
    BY FS_Subset DEF Before
  <2>. QED
    BY <2>1, <2>3, <2>4, FS_AddElement DEF PlaceIn
<1>4. /\ Cardinality(S) \in Nat
      /\ \A i \in S : PlaceIn(S, R, i) \in 1..Cardinality(S)
      /\ \A i, j \in S : <<i, j>> \in R <=> PlaceIn(S, R, i) < PlaceIn(S, R, j)
      /\ \A i, j \in S : PlaceIn(S, R, i) = PlaceIn(S, R, j) => i = j
      /\ \A n \in 1..Cardinality(S) : \E i \in S : PlaceIn(S, R, i) = n
  BY <1>2, PlacesAreTaken
<1>5. ASSUME NEW n \in 1..Cardinality(S)
      PROVE  InOrder(S)[n] \in S /\ PlaceIn(S, R, InOrder(S)[n]) = n
  <2>1. InOrder(S)[n] = CHOOSE i \in S : Cardinality(UpTo(S, i)) = n
    BY DEF InOrder, UpTo
  <2>2. \E i \in S : Cardinality(UpTo(S, i)) = n
    BY <1>3, <1>4
  <2>. QED
    BY <1>3, <2>1, <2>2
<1>6. InOrder(S) \in [1..Cardinality(S) -> S]
  BY <1>5 DEF InOrder
<1>7. \A m, n \in 1..Cardinality(S) : m < n => InOrder(S)[m] < InOrder(S)[n]
  BY <1>2, <1>4, <1>5
<1>8. ASSUME NEW i \in S PROVE InOrder(S)[PlaceIn(S, R, i)] = i
  <2>1. PICK n \in 1..Cardinality(S) : n = PlaceIn(S, R, i)
    BY <1>4
  <2>. QED
    BY <1>4, <1>5, <2>1
<1>. QED
  BY <1>3, <1>4, <1>5, <1>6, <1>7, <1>8

(* The least and the greatest member.                                      *)
LEMMA Extremes ==
  ASSUME NEW S \in SUBSET Nat, IsFiniteSet(S), S # {}
  PROVE  (\E m \in S : \A n \in S : m <= n) /\ (\E m \in S : \A n \in S : n <= m)
<1>1. Cardinality(S) \in Nat \ {0}
  BY FS_CardinalityType, FS_EmptySet
<1>2. /\ \A n \in 1..Cardinality(S) : InOrder(S)[n] \in S
      /\ \A m, n \in 1..Cardinality(S) : m < n => InOrder(S)[m] < InOrder(S)[n]
      /\ \A i \in S : \E n \in 1..Cardinality(S) : InOrder(S)[n] = i
  BY InOrderIs
<1>3. PICK c \in Nat \ {0} : c = Cardinality(S)
  BY <1>1
<1>4. InOrder(S)[1] \in S /\ InOrder(S)[c] \in S
  BY <1>2, <1>3
<1>5. ASSUME NEW i \in S
      PROVE  InOrder(S)[1] <= i /\ i <= InOrder(S)[c]
  <2>1. PICK n \in 1..c : InOrder(S)[n] = i
    BY <1>2, <1>3
  <2>2. \A a, b \in S : a < b => a <= b
    OBVIOUS
  <2>3. \A a \in S : a <= a
    OBVIOUS
  <2>4. /\ n = 1 \/ 1 < n
        /\ n = c \/ n < c
        /\ 1 \in 1..c /\ c \in 1..c
    BY <1>3
  <2>5. 1 < n => InOrder(S)[1] < InOrder(S)[n]
    BY <1>2, <1>3, <2>4
  <2>6. n < c => InOrder(S)[n] < InOrder(S)[c]
    BY <1>2, <1>3, <2>4
  <2>. QED
    BY <1>4, <2>1, <2>2, <2>3, <2>4, <2>5, <2>6, Zenon
<1>. QED
  BY <1>4, <1>5

(* The smaller of two numbers.                                             *)
LEMMA SmallerOfTwo ==
  ASSUME NEW a \in Int, NEW b \in Int
  PROVE  Min({a, b}) = IF a <= b THEN a ELSE b
<1>1. \A x \in {a, b} : (\A y \in {a, b} : x <= y) <=> x = IF a <= b THEN a ELSE b
  OBVIOUS
<1>. QED
  BY <1>1 DEF Min

(* A member that none exceeds is the greatest.                             *)
LEMMA GreatestIs ==
  ASSUME NEW S \in SUBSET Int, NEW m \in S, \A n \in S : n <= m
  PROVE  Max(S) = m
<1>1. \A x \in S : (\A y \in S : x >= y) <=> x = m
  OBVIOUS
<1>. QED
  BY <1>1 DEF Max

-----------------------------------------------------------------------------
(* Bitmaps, windows, rankings: what the operators of Search compute.       *)

(* A packed bitmap marks the rows that went into it and no other, in the   *)
(* last byte as in the others.                                             *)
LEMMA BitmapMarks ==
  ASSUME NEW rows \in SUBSET Nat, IsFiniteSet(rows), NEW row \in Nat
  PROVE  /\ isDead(Pack(rows), row) <=> row \in rows
         /\ (\E b \in DOMAIN Pack(rows) : row - (b - 1) * ByteBits \in Pack(rows)[b])
              <=> row \in rows
<1>1. CASE rows = {}
  <2>1. Pack(rows) = <<>>
    BY <1>1 DEF Pack
  <2>2. row \div ByteBits \in Nat
    BY WidthAssumption
  <2>. QED
    BY <1>1, <2>1, <2>2 DEF isDead
<1>2. CASE rows # {}
  <2> DEFINE m == Max(rows)
             B == ByteBits
             q(x) == x \div B
             rem(x) == x % B
             byte(b) == {rem(r) : r \in {x \in rows : q(x) = b - 1}}
  <2>1. m \in rows /\ \A r \in rows : r <= m
    BY <1>2, Extremes, GreatestIs
  <2>2. B \in Nat \ {0}
    BY WidthAssumption
  <2>3. \A r \in Nat : q(r) \in Nat /\ rem(r) \in 0..(B - 1) /\ r = B * q(r) + rem(r)
    BY <2>2
  <2>4. \A r \in rows : q(r) <= q(m)
    <3>1. \A x, y \in Nat : x <= y => q(x) <= q(y)
      BY <2>2
    <3> HIDE DEF m, q
    <3>. QED
      BY <2>1, <3>1
  <2>5. q(m) \in Nat
    BY <2>1, <2>3
  <2>6. /\ Pack(rows) = [b \in 1..(q(m) + 1) |-> byte(b)]
        /\ Len(Pack(rows)) = q(m) + 1
    <3>1. Pack(rows) = [b \in 1..(q(m) + 1) |-> byte(b)]
      BY <1>2 DEF Pack
    <3>. QED
      BY <2>5, <3>1
  <2>7. isDead(Pack(rows), row) <=>
            q(row) < q(m) + 1 /\ rem(row) \in Pack(rows)[q(row) + 1]
    BY <2>6 DEF isDead
  <2>8. \A x, y \in Nat : B * x = x * B
    BY <2>2
  <2> HIDE DEF m, B, q, rem
  <2>9. ASSUME row \in rows
        PROVE  /\ isDead(Pack(rows), row)
               /\ \E b \in DOMAIN Pack(rows) : row - (b - 1) * B \in Pack(rows)[b]
    <3>1. PICK b \in 1..(q(m) + 1) : b = q(row) + 1
      BY <2>3, <2>4, <2>5, <2>9
    <3>2. q(row) \in Nat /\ b - 1 = q(row) /\ q(row) < q(m) + 1
      BY <2>3, <2>5, <3>1
    <3>3. rem(row) \in byte(b)
      BY <2>9, <3>2
    <3>4. Pack(rows)[b] = byte(b) /\ DOMAIN Pack(rows) = 1..(q(m) + 1)
      BY <2>6
    <3> HIDE DEF byte
    <3>5. row - (b - 1) * B = rem(row)
      <4>1. (b - 1) * B = B * q(row)
        BY <2>8, <3>2
      <4>2. B * q(row) \in Int /\ rem(row) \in Int /\ row = B * q(row) + rem(row)
        BY <2>2, <2>3, <3>2
      <4>. QED
        BY <4>1, <4>2
    <3>. QED
      BY <2>7, <3>1, <3>2, <3>3, <3>4, <3>5
  <2>10. ASSUME NEW b \in 1..(q(m) + 1), NEW x, x \in Pack(rows)[b], row = B * (b - 1) + x
         PROVE  row \in rows
    <3>1. x \in byte(b)
      BY <2>6, <2>10
    <3>2. PICK r \in rows : q(r) = b - 1 /\ x = rem(r)
      BY <3>1
    <3>3. r = B * (b - 1) + x
      BY <2>3, <3>2
    <3>. QED
      BY <2>10, <3>2, <3>3
  <2>11. ASSUME isDead(Pack(rows), row) PROVE row \in rows
    <3>1. PICK b \in 1..(q(m) + 1) : b = q(row) + 1
      BY <2>3, <2>5, <2>7, <2>11
    <3>2. b - 1 = q(row)
      BY <2>3, <3>1
    <3>. QED
      BY <2>3, <2>7, <2>10, <2>11, <3>1, <3>2
  <2>12. ASSUME NEW b \in DOMAIN Pack(rows), row - (b - 1) * B \in Pack(rows)[b]
         PROVE  row \in rows
    <3>1. b \in 1..(q(m) + 1)
      BY <2>6
    <3>2. B * (b - 1) \in Int /\ (b - 1) * B = B * (b - 1)
      BY <2>2, <2>5, <3>1
    <3>3. row = B * (b - 1) + (row - (b - 1) * B)
      BY <3>2
    <3>. QED
      BY <2>10, <2>12, <3>1, <3>3
  <2>. QED
    BY <2>9, <2>11, <2>12 DEF B
<1>. QED
  BY <1>1, <1>2

(* A window is topK*2 candidates if an int can hold that, else all.        *)
LEMMA WindowSize ==
  ASSUME NEW k \in TopKs, NEW n \in Nat
  PROVE  /\ Batch(k, n) \in 0..n
         /\ Batch(k, n) = n \/ (k > 0 /\ Batch(k, n) = 2 * k)
<1>1. MaxInt \in Nat /\ k \in Int /\ k >= -MaxInt - 1 /\ k <= MaxInt
  BY WidthAssumption
<1>2. PICK H \in Nat \ {0} : H = MaxInt + 1
  BY <1>1
<1>3. CASE k > 0 /\ 0 < Wrap(k * 2)
  <2>1. Wrap(k * 2) = ((2 * k + H) % (2 * H)) - H
    BY <1>1, <1>2 DEF Wrap
  <2>2. CASE 2 * k < H
    <3>1. (2 * k + H) % (2 * H) = 2 * k + H
      BY <1>1, <1>2, <1>3, <2>2
    <3>. QED
      BY <1>1, <1>2, <2>1, <3>1 DEF Batch
  <2>3. CASE 2 * k >= H
    <3>1. (2 * k + H) % (2 * H) = 2 * k - H
      BY <1>1, <1>2, <1>3, <2>3
    <3>2. FALSE
      BY <1>1, <1>2, <1>3, <2>1, <3>1
    <3>. QED
      BY <3>2
  <2>. QED
    BY <1>1, <1>2, <2>2, <2>3
<1>4. CASE ~(k > 0 /\ 0 < Wrap(k * 2))
  BY <1>4 DEF Batch
<1>. QED
  BY <1>3, <1>4

(* Ranking moves every candidate to a place of its own, the best first.    *)
Descending(c) == \A m, n \in DOMAIN c : m <= n => c[n].score <= c[m].score

Scored(S) == \A e \in S : e.score \in Int

(* Sequence r is s in another order.                                       *)
Rearranges(r, s) ==
  \E f \in [1..Len(s) -> 1..Len(s)] :
    /\ \A n \in 1..Len(s) : r[n] = s[f[n]]
    /\ \A m, n \in 1..Len(s) : f[m] = f[n] => m = n
    /\ \A i \in 1..Len(s) : \E n \in 1..Len(s) : f[n] = i

(* A ranking has the members of what is ranked, in descending order.       *)
LEMMA RankingSorts ==
  ASSUME NEW S, Scored(S), NEW s \in Seq(S)
  PROVE  /\ Ranked(s) \in Seq(S) /\ Len(Ranked(s)) = Len(s)
         /\ Descending(Ranked(s)) /\ Rearranges(Ranked(s), s)
<1> DEFINE D == DOMAIN s
           Above(i, j) == s[i].score > s[j].score \/ (s[i].score = s[j].score /\ i < j)
           R == {e \in D \X D : Above(e[1], e[2])}
           f == [n \in D |-> CHOOSE i \in D : PlaceIn(D, R, i) = n]
<1>1. D = 1..Len(s) /\ Len(s) \in Nat /\ \A i \in D : s[i] \in S
  OBVIOUS
<1>2. \A i \in D : s[i].score \in Int
  BY <1>1 DEF Scored
<1>3. \A i, j \in D : <<i, j>> \in R <=> Above(i, j)
  OBVIOUS
<1>4. StrictOrder(D, R)
  <2> HIDE DEF R
  <2>. QED
    BY <1>1, <1>2, <1>3 DEF StrictOrder
<1> HIDE DEF R
<1>5. IsFiniteSet(D) /\ Cardinality(D) = Len(s)
  BY <1>1, FS_Interval
<1>6. /\ \A i \in D : PlaceIn(D, R, i) \in D
      /\ \A i, j \in D : <<i, j>> \in R <=> PlaceIn(D, R, i) < PlaceIn(D, R, j)
      /\ \A i, j \in D : PlaceIn(D, R, i) = PlaceIn(D, R, j) => i = j
      /\ \A n \in D : \E i \in D : PlaceIn(D, R, i) = n
  <2>1. 1..Cardinality(D) = D
    BY <1>1, <1>5
  <2>2. /\ \A i \in D : PlaceIn(D, R, i) \in 1..Cardinality(D)
        /\ \A i, j \in D : <<i, j>> \in R <=> PlaceIn(D, R, i) < PlaceIn(D, R, j)
        /\ \A i, j \in D : PlaceIn(D, R, i) = PlaceIn(D, R, j) => i = j
        /\ \A n \in 1..Cardinality(D) : \E i \in D : PlaceIn(D, R, i) = n
    BY <1>4, <1>5, PlacesAreTaken
  <2> HIDE DEF D, f
  <2>. QED
    BY <2>1, <2>2, Zenon
<1>7. Ranked(s) = [n \in D |-> s[f[n]]]
  <2>1. ASSUME NEW i \in D
        PROVE  PlaceIn(D, R, i) = Cardinality({j \in D : Above(j, i)}) + 1
    <3>1. Before(D, R, i) = {j \in D : Above(j, i)}
      BY <1>3 DEF Before
    <3>. QED
      BY <3>1 DEF PlaceIn
  <2>2. ASSUME NEW n \in D
        PROVE  f[n] = CHOOSE i \in D : Cardinality({j \in D : Above(j, i)}) + 1 = n
    BY <2>1
  <2>3. Ranked(s) = [n \in D |->
                       s[CHOOSE i \in D : Cardinality({j \in D : Above(j, i)}) + 1 = n]]
    BY DEF Ranked
  <2> HIDE DEF f
  <2>. QED
    BY <2>2, <2>3
<1>8. \A n \in D : f[n] \in D /\ PlaceIn(D, R, f[n]) = n
  BY <1>6
<1>9. /\ f \in [D -> D]
      /\ \A m, n \in D : f[m] = f[n] => m = n
      /\ \A i \in D : \E n \in D : f[n] = i
  <2>1. f \in [D -> D]
    BY <1>8
  <2>2. \A m, n \in D : f[m] = f[n] => m = n
    BY <1>8
  <2>3. ASSUME NEW i \in D PROVE f[PlaceIn(D, R, i)] = i /\ PlaceIn(D, R, i) \in D
    BY <1>6, <1>8
  <2>. QED
    BY <2>1, <2>2, <2>3
<1> HIDE DEF f
<1>11. Ranked(s) \in Seq(S) /\ Len(Ranked(s)) = Len(s) /\ DOMAIN Ranked(s) = D
  <2>1. Ranked(s) \in [1..Len(s) -> S]
    BY <1>1, <1>7, <1>9
  <2>. QED
    BY <1>1, <2>1
<1>12. Descending(Ranked(s))
  <2>1. SUFFICES ASSUME NEW m \in D, NEW n \in D, m <= n
                 PROVE  Ranked(s)[n].score <= Ranked(s)[m].score
    BY <1>11 DEF Descending
  <2>2. Ranked(s)[m] = s[f[m]] /\ Ranked(s)[n] = s[f[n]] /\ f[m] \in D /\ f[n] \in D
    BY <1>7, <1>8
  <2>3. s[f[m]].score \in Int /\ s[f[n]].score \in Int
    BY <1>2, <2>2
  <2>4. CASE m = n
    BY <2>2, <2>3, <2>4
  <2>5. CASE m < n
    <3>1. PlaceIn(D, R, f[m]) < PlaceIn(D, R, f[n])
      BY <1>8, <2>5
    <3>2. <<f[m], f[n]>> \in R
      BY <1>6, <2>2, <3>1, Zenon
    <3>. QED
      BY <1>3, <2>2, <2>3, <3>2
  <2>. QED
    BY <1>1, <2>1, <2>4, <2>5
<1>. QED
  <2>1. /\ f \in [1..Len(s) -> 1..Len(s)]
        /\ \A n \in 1..Len(s) : Ranked(s)[n] = s[f[n]]
        /\ \A m, n \in 1..Len(s) : f[m] = f[n] => m = n
        /\ \A i \in 1..Len(s) : \E n \in 1..Len(s) : f[n] = i
    BY <1>1, <1>7, <1>9
  <2>2. Rearranges(Ranked(s), s)
    BY <2>1 DEF Rearranges
  <2>. QED
    BY <1>11, <1>12, <2>2

-----------------------------------------------------------------------------
(* The inductive invariant.                                                *)

ScoreAt(p) == resp[p[1]][p[2]].score[p[3] + 1]
Live == {p \in Answered : ~isDead(resp[p[1]][p[2]].dead, p[3])}
(* The number of the cell that position p lies in.                         *)
CellOf(p) == IF p[1] = "rmp" THEN p[2] ELSE Len(resp["rmp"]) + p[2]

RepliesOK ==
  /\ resp = [t \in Tiers |-> resp[t]]
  /\ \A t \in Tiers : resp[t] \in TierReplies(t)

PlaceOK ==
  /\ pc \in {"search", "decrypt", "rank", "resolve", "done", "failed"}
  /\ topK \in TopKs
  /\ pc = "search" => cell = 0 /\ resp = [t \in Tiers |-> <<>>]
  /\ pc \in {"search", "decrypt"} => cursor = 0 /\ trips = 0 /\ batch = 0

(* Sequence c has every member of S once.                                  *)
Lists(c, S) ==
  /\ c \in Seq(S)
  /\ \A e \in S : \E n \in DOMAIN c : c[n] = e
  /\ \A m, n \in DOMAIN c : c[m] = c[n] => m = n

(* The candidates are the live rows of the cells decrypted so far.         *)
CandAt(p) == [at |-> p, score |-> ScoreAt(p)]
Decrypted(k) == {CandAt(p) : p \in {q \in Live : CellOf(q) <= k}}

CandsOK == cell \in 0..CellCount /\ Lists(cands, Decrypted(cell))

RankedOK ==
  /\ pc \in {"resolve", "done"} => cell = CellCount /\ Descending(cands)
  /\ batch \in 0..Len(cands)
  /\ pc = "resolve" => batch = Len(cands) \/ (topK > 0 /\ batch = 2 * topK)

(* A position is resolved to the item that is there, or to none.           *)
AskedOK ==
  /\ cursor \in 0..Len(cands)
  /\ asked \in Seq(Items \cup {NoId}) /\ Len(asked) = cursor
  /\ \A n \in 1..cursor : asked[n] \in {NoId, ItemAt(cands[n].at)}

(* The n-th answer is the first to name its item.                          *)
First(a, n) == a[n] # NoId /\ \A m \in 1..(n - 1) : a[m] # a[n]

(* There are as many matches as k asks for.                                *)
Full(o, k) == k > 0 /\ Len(o) = k

(* The matches o are the candidates c that are the first of their items    *)
(* among the answers a, in this order, up to k of them; the i-th is the    *)
(* f[i]-th candidate.                                                      *)
Picks(f, o, c, a, k) ==
  /\ f \in [DOMAIN o -> DOMAIN a]
  /\ \A i \in DOMAIN o : First(a, f[i]) /\ o[i] = Match(c[f[i]], a[f[i]])
  /\ \A i, j \in DOMAIN o : i < j => f[i] < f[j]
  /\ \A n \in DOMAIN a : First(a, n) =>
       \/ \E i \in DOMAIN o : f[i] = n
       \/ k > 0 /\ Len(o) = k /\ \A i \in DOMAIN o : f[i] < n

OutOK ==
  /\ out \in Seq(Matches)
  /\ \E f \in [DOMAIN out -> DOMAIN asked] : Picks(f, out, cands, asked, topK)
  /\ topK > 0 => Len(out) <= topK
  /\ pc = "resolve" => topK <= 0 \/ Len(out) < topK
  /\ pc = "done" => (topK > 0 /\ Len(out) = topK) \/ cursor = Len(cands)

(* A second window follows the first only if that had an answer missing.   *)
TripsOK ==
  /\ trips \in Nat
  /\ trips = 0 => cursor = 0
  /\ trips = 1 => cursor = batch
  /\ trips > 1 => \E n \in DOMAIN asked : asked[n] = NoId

ServerOK == gone \subseteq AllPositions /\ drops \in 0..MaxDrops

SInv ==
  /\ RepliesOK /\ PlaceOK /\ CandsOK /\ RankedOK
  /\ AskedOK /\ OutOK /\ TripsOK /\ ServerOK

-----------------------------------------------------------------------------
(* What the server may reply: whole cells, each item in one row of a tier. *)

(* How many rows each cell of a tier has.                                  *)
LEMMA Shapes ==
  /\ Shape["rmp"] = FlatShape /\ Shape["mm"] = ClusterShape
  /\ \A t \in Tiers : Shape[t] \in Seq(Nat)
BY BoundsAssumption DEF Shape, Tiers

(* A position names a tier, one of its cells and one of the cell's rows.   *)
LEMMA PositionsAre ==
  ASSUME NEW t \in Tiers
  PROVE  /\ \A p \in Positions(t) :
              /\ p = <<t, p[2], p[3]>> /\ p[2] \in DOMAIN Shape[t]
              /\ p[3] \in Nat /\ p[3] + 1 \in 1..Shape[t][p[2]]
         /\ \A i \in DOMAIN Shape[t] : \A n \in 1..Shape[t][i] : <<t, i, n - 1>> \in Positions(t)
         /\ Positions(t) \subseteq AllPositions
         /\ \A p \in AllPositions : p[1] = t => p \in Positions(t)
<1>1. \A i \in DOMAIN Shape[t] : Shape[t][i] \in Nat
  BY Shapes
<1>2. ASSUME NEW p \in Positions(t)
      PROVE  /\ p = <<t, p[2], p[3]>> /\ p[2] \in DOMAIN Shape[t]
             /\ p[3] \in Nat /\ p[3] + 1 \in 1..Shape[t][p[2]]
  <2>1. PICK i \in DOMAIN Shape[t] : \E row \in 0..(Shape[t][i] - 1) : p = <<t, i, row>>
    BY DEF Positions
  <2>2. PICK row \in 0..(Shape[t][i] - 1) : p = <<t, i, row>>
    BY <2>1
  <2>. QED
    BY <1>1, <2>2
<1>3. ASSUME NEW i \in DOMAIN Shape[t], NEW n \in 1..Shape[t][i]
      PROVE  <<t, i, n - 1>> \in Positions(t)
  <2>1. n - 1 \in 0..(Shape[t][i] - 1)
    BY <1>1
  <2>. QED
    BY <2>1 DEF Positions
<1>4. Positions(t) \subseteq AllPositions
  BY DEF AllPositions, Tiers
<1>5. ASSUME NEW p \in AllPositions, p[1] = t
      PROVE  p \in Positions(t)
  <2>1. \A u \in Tiers : \A q \in Positions(u) : q[1] = u
    BY DEF Positions
  <2>. QED
    BY <1>5, <2>1 DEF AllPositions, Tiers
<1>. QED
  BY <1>2, <1>3, <1>4, <1>5

(* A reply gives each cell an item and a score per row and a packed        *)
(* bitmap, and no item is in two rows of it.                               *)
LEMMA ReplyIs ==
  ASSUME NEW t \in Tiers, NEW reply \in TierReplies(t)
  PROVE  /\ Len(reply) \in 0..Len(Shape[t]) /\ DOMAIN reply = 1..Len(reply)
         /\ DOMAIN reply \subseteq DOMAIN Shape[t]
         /\ \A i \in DOMAIN reply :
              /\ reply[i].item \in [1..Shape[t][i] -> Items]
              /\ reply[i].score \in [1..Shape[t][i] -> Scores]
              /\ \E rows \in SUBSET Nat : IsFiniteSet(rows) /\ reply[i].dead = Pack(rows)
         /\ \A p, q \in Positions(t) :
              /\ p[2] \in DOMAIN reply /\ q[2] \in DOMAIN reply
              /\ reply[p[2]].item[p[3] + 1] = reply[q[2]].item[q[3] + 1]
              => p = q
<1>1. Shape[t] \in Seq(Nat) /\ DOMAIN Shape[t] = 1..Len(Shape[t]) /\ Len(Shape[t]) \in Nat
  BY Shapes
<1>2. /\ \A i \in DOMAIN reply : Len(reply[i].item) = Shape[t][i]
      /\ \A p, q \in {r \in Positions(t) : r[2] \in DOMAIN reply} :
           reply[p[2]].item[p[3] + 1] = reply[q[2]].item[q[3] + 1] => p = q
  BY DEF TierReplies
<1>3. \/ reply = <<>>
      \/ reply \in [DOMAIN Shape[t] -> UNION {Cells(Shape[t][i]) : i \in DOMAIN Shape[t]}]
  BY DEF TierReplies
<1>4. Len(reply) \in 0..Len(Shape[t]) /\ DOMAIN reply = 1..Len(reply)
  BY <1>1, <1>3
<1>5. ASSUME NEW i \in DOMAIN reply
      PROVE  /\ reply[i].item \in [1..Shape[t][i] -> Items]
             /\ reply[i].score \in [1..Shape[t][i] -> Scores]
             /\ \E rows \in SUBSET Nat : IsFiniteSet(rows) /\ reply[i].dead = Pack(rows)
  <2>1. reply[i] \in UNION {Cells(Shape[t][j]) : j \in DOMAIN Shape[t]}
    BY <1>3
  <2>2. PICK n \in Nat : reply[i] \in Cells(n)
    BY <1>1, <2>1
  <2>3. /\ reply[i].item \in [1..n -> Items] /\ reply[i].score \in [1..n -> Scores]
        /\ \E rows \in SUBSET (0..(n - 1)) : reply[i].dead = Pack(rows)
    BY <2>2 DEF Cells
  <2>4. n = Shape[t][i]
    BY <1>2, <2>3
  <2>5. PICK rows \in SUBSET (0..(n - 1)) : reply[i].dead = Pack(rows)
    BY <2>3
  <2>6. IsFiniteSet(0..(n - 1)) /\ 0..(n - 1) \subseteq Nat
    BY FS_Interval
  <2>7. IsFiniteSet(rows) /\ rows \in SUBSET Nat
    BY <2>6, FS_Subset
  <2>. QED
    BY <2>3, <2>4, <2>5, <2>7
<1>6. DOMAIN reply \subseteq DOMAIN Shape[t]
  BY <1>1, <1>4
<1>. QED
  BY <1>2, <1>4, <1>5, <1>6

(* The positions of the reply, and what is at one of them.                 *)
LEMMA AnsweredIs ==
  ASSUME RepliesOK
  PROVE  /\ \A t \in Tiers : /\ Len(resp[t]) \in 0..Len(Shape[t])
                             /\ DOMAIN resp[t] = 1..Len(resp[t])
         /\ \A t \in Tiers : \A i \in DOMAIN resp[t] :
              /\ i \in DOMAIN Shape[t] /\ Shape[t][i] \in Nat
              /\ DOMAIN resp[t][i].score = 1..Shape[t][i]
              /\ \A n \in 1..Shape[t][i] : <<t, i, n - 1>> \in Answered
         /\ \A p \in Answered :
              /\ p[1] \in Tiers /\ p[2] \in DOMAIN resp[p[1]] /\ p[3] \in Nat
              /\ p[3] + 1 \in 1..Shape[p[1]][p[2]] /\ p = <<p[1], p[2], p[3]>>
              /\ p \in AllPositions /\ ItemAt(p) \in Items /\ ScoreAt(p) \in Scores
              /\ \E rows \in SUBSET Nat : IsFiniteSet(rows) /\ resp[p[1]][p[2]].dead = Pack(rows)
         /\ \A p, q \in Answered : p[1] = q[1] /\ ItemAt(p) = ItemAt(q) => p = q
<1>1. ASSUME NEW p \in Answered
      PROVE  /\ p[1] \in Tiers /\ p \in Positions(p[1]) /\ p[2] \in DOMAIN resp[p[1]]
             /\ p \in AllPositions
  <2>1. \A t \in Tiers : \A q \in Positions(t) : q[1] = t
    BY PositionsAre
  <2>. QED
    BY <2>1 DEF Answered, AllPositions, Tiers
<1>2. ASSUME NEW t \in Tiers, NEW i \in DOMAIN resp[t]
      PROVE  /\ i \in DOMAIN Shape[t] /\ Shape[t][i] \in Nat
             /\ DOMAIN resp[t][i].score = 1..Shape[t][i]
             /\ \A n \in 1..Shape[t][i] : <<t, i, n - 1>> \in Answered
  <2>1. i \in DOMAIN Shape[t] /\ DOMAIN resp[t][i].score = 1..Shape[t][i]
    BY ReplyIs DEF RepliesOK
  <2>2. Shape[t][i] \in Nat
    BY <2>1, Shapes
  <2>. QED
    BY <2>1, <2>2, PositionsAre DEF Answered
<1>3. ASSUME NEW p \in Answered
      PROVE  /\ p[3] \in Nat /\ p[3] + 1 \in 1..Shape[p[1]][p[2]] /\ p = <<p[1], p[2], p[3]>>
             /\ ItemAt(p) \in Items /\ ScoreAt(p) \in Scores
             /\ \E rows \in SUBSET Nat : IsFiniteSet(rows) /\ resp[p[1]][p[2]].dead = Pack(rows)
  <2>1. /\ p[3] \in Nat /\ p[3] + 1 \in 1..Shape[p[1]][p[2]]
        /\ p = <<p[1], p[2], p[3]>>
    BY <1>1, PositionsAre
  <2>2. /\ resp[p[1]][p[2]].item \in [1..Shape[p[1]][p[2]] -> Items]
        /\ resp[p[1]][p[2]].score \in [1..Shape[p[1]][p[2]] -> Scores]
        /\ \E rows \in SUBSET Nat : IsFiniteSet(rows) /\ resp[p[1]][p[2]].dead = Pack(rows)
    BY <1>1, ReplyIs DEF RepliesOK
  <2>. QED
    BY <2>1, <2>2 DEF ItemAt, ScoreAt
<1>4. ASSUME NEW p \in Answered, NEW q \in Answered, p[1] = q[1], ItemAt(p) = ItemAt(q)
      PROVE  p = q
  <2>1. PICK t \in Tiers : t = p[1]
    BY <1>1
  <2>2. /\ p \in Positions(t) /\ q \in Positions(t)
        /\ p[2] \in DOMAIN resp[t] /\ q[2] \in DOMAIN resp[t]
    BY <1>1, <1>4, <2>1
  <2>3. resp[t][p[2]].item[p[3] + 1] = resp[t][q[2]].item[q[3] + 1]
    BY <1>4, <2>1 DEF ItemAt
  <2>. QED
    BY <2>2, <2>3, ReplyIs DEF RepliesOK
<1>5. \A t \in Tiers : Len(resp[t]) \in 0..Len(Shape[t]) /\ DOMAIN resp[t] = 1..Len(resp[t])
  BY ReplyIs DEF RepliesOK
<1>. QED
  BY <1>1, <1>2, <1>3, <1>4, <1>5

(* What a decrypted cell adds: its live rows, each once.                   *)
LEMMA LiveRowsAre ==
  ASSUME RepliesOK, NEW t \in Tiers, NEW i \in DOMAIN resp[t]
  PROVE  Lists(LiveRows(t, i), {CandAt(p) : p \in {q \in Live : q[1] = t /\ q[2] = i}})
<1> DEFINE c == resp[t][i]
           S == {n \in DOMAIN c.score : ~isDead(c.dead, n - 1)}
           rank == InOrder(S)
<1>1. /\ DOMAIN c.score = 1..Shape[t][i] /\ Shape[t][i] \in Nat
      /\ \A n \in 1..Shape[t][i] : <<t, i, n - 1>> \in Answered
  BY AnsweredIs
<1>2. S \in SUBSET Nat /\ IsFiniteSet(S)
  <2>1. IsFiniteSet(1..Shape[t][i]) /\ 1..Shape[t][i] \subseteq Nat
    BY <1>1, FS_Interval
  <2>. QED
    BY <1>1, <2>1, FS_Subset
<1>3. ASSUME NEW n \in S
      PROVE  /\ n \in Nat /\ <<t, i, n - 1>> \in Live
             /\ [at |-> <<t, i, n - 1>>, score |-> c.score[n]] = CandAt(<<t, i, n - 1>>)
  <2>1. n \in Nat /\ <<t, i, n - 1>> \in Answered
    BY <1>1
  <2>2. <<t, i, n - 1>> \in Live
    BY <2>1 DEF Live
  <2>3. c.score[n] = ScoreAt(<<t, i, n - 1>>)
    BY <2>1 DEF ScoreAt
  <2>. QED
    BY <2>1, <2>2, <2>3 DEF CandAt
<1>4. PICK N \in Nat : N = Cardinality(S)
  BY <1>2, FS_CardinalityType
<1>5. /\ rank \in [1..N -> S]
      /\ \A m, n \in 1..N : m < n => rank[m] < rank[n]
      /\ \A n \in S : \E k \in 1..N : rank[k] = n
  BY <1>2, <1>4, InOrderIs
<1>6. LiveRows(t, i) = [n \in 1..N |-> [at |-> <<t, i, rank[n] - 1>>, score |-> c.score[rank[n]]]]
  <2>1. DOMAIN rank = 1..N
    BY <1>5
  <2>2. LiveRows(t, i) = [n \in DOMAIN rank |->
                            [at |-> <<t, i, rank[n] - 1>>, score |-> c.score[rank[n]]]]
    BY DEF LiveRows
  <2> HIDE DEF rank
  <2>. QED
    BY <2>1, <2>2
<1> HIDE DEF c, S, rank
<1>7. LiveRows(t, i) = [n \in 1..N |-> CandAt(<<t, i, rank[n] - 1>>)]
  <2>1. \A n \in 1..N : rank[n] \in S
    BY <1>5
  <2>. QED
    BY <1>3, <1>6, <2>1
<1> DEFINE New == {CandAt(p) : p \in {q \in Live : q[1] = t /\ q[2] = i}}
<1>8. LiveRows(t, i) \in Seq(New) /\ DOMAIN LiveRows(t, i) = 1..N
  <2>1. \A n \in 1..N : CandAt(<<t, i, rank[n] - 1>>) \in New
    BY <1>3, <1>5
  <2> HIDE DEF New
  <2>2. LiveRows(t, i) \in [1..N -> New]
    BY <1>7, <2>1
  <2>. QED
    BY <2>2
<1>9. ASSUME NEW p \in Live, p[1] = t, p[2] = i
      PROVE  \E n \in 1..N : LiveRows(t, i)[n] = CandAt(p)
  <2>1. p \in Answered /\ ~isDead(c.dead, p[3])
    BY <1>9 DEF Live, c
  <2>2. p = <<t, i, p[3]>> /\ p[3] \in Nat /\ p[3] + 1 \in 1..Shape[t][i]
    BY <1>9, <2>1, AnsweredIs
  <2>3. p[3] + 1 \in S
    BY <1>1, <2>1, <2>2 DEF S
  <2>4. PICK n \in 1..N : rank[n] = p[3] + 1
    BY <1>5, <2>3
  <2>5. rank[n] - 1 = p[3]
    BY <2>2, <2>4
  <2>6. LiveRows(t, i)[n] = CandAt(<<t, i, rank[n] - 1>>)
    BY <1>7
  <2>. QED
    BY <2>2, <2>5, <2>6
<1>10. ASSUME NEW m \in 1..N, NEW n \in 1..N, LiveRows(t, i)[m] = LiveRows(t, i)[n]
       PROVE  m = n
  <2>1. rank[m] \in Nat /\ rank[n] \in Nat
    BY <1>3, <1>5
  <2>2. CandAt(<<t, i, rank[m] - 1>>).at = CandAt(<<t, i, rank[n] - 1>>).at
    BY <1>7, <1>10
  <2>3. rank[m] = rank[n]
    BY <2>1, <2>2 DEF CandAt
  <2>4. m < n \/ n < m \/ m = n
    OBVIOUS
  <2>. QED
    BY <1>5, <2>1, <2>3, <2>4
<1>. QED
  BY <1>8, <1>9, <1>10 DEF Lists

(* What is in a list is a candidate; two with one position are one.        *)
LEMMA CandsAre ==
  ASSUME RepliesOK, CandsOK
  PROVE  /\ cands \in Seq(Candidates) /\ Len(cands) \in Nat /\ DOMAIN cands = 1..Len(cands)
         /\ CellCount \in Nat
         /\ \A n \in DOMAIN cands : /\ cands[n].at \in Live /\ cands[n].at \in Answered
                                    /\ cands[n].score = ScoreAt(cands[n].at)
                                    /\ cands[n].score \in Scores /\ cands[n].score \in Int
         /\ \A m, n \in DOMAIN cands : cands[m].at = cands[n].at => m = n
<1>1. cands \in Seq(Decrypted(cell)) /\ \A m, n \in DOMAIN cands : cands[m] = cands[n] => m = n
  BY DEF CandsOK, Lists
<1>2. Len(cands) \in Nat /\ DOMAIN cands = 1..Len(cands)
  BY <1>1
<1>3. Live \subseteq Answered
  BY DEF Live
<1>4. ASSUME NEW e \in Decrypted(cell)
      PROVE  /\ e.at \in Live /\ e.score = ScoreAt(e.at) /\ e = CandAt(e.at)
             /\ e.score \in Scores /\ e \in Candidates
  <2>1. PICK p \in Live : e = CandAt(p)
    BY DEF Decrypted
  <2>2. ScoreAt(p) \in Scores /\ p \in AllPositions
    BY <1>3, AnsweredIs
  <2>. QED
    BY <2>1, <2>2 DEF CandAt, Candidates
<1>5. cands \in Seq(Candidates)
  BY <1>1, <1>4
<1>6. ASSUME NEW n \in DOMAIN cands
      PROVE  /\ cands[n].at \in Live /\ cands[n].at \in Answered
             /\ cands[n].score = ScoreAt(cands[n].at) /\ cands[n] = CandAt(cands[n].at)
             /\ cands[n].score \in Scores /\ cands[n].score \in Int
  <2>1. cands[n] \in Decrypted(cell)
    BY <1>1
  <2>. QED
    BY <1>3, <1>4, <2>1, BoundsAssumption
<1>7. ASSUME NEW m \in DOMAIN cands, NEW n \in DOMAIN cands, cands[m].at = cands[n].at
      PROVE  m = n
  <2>1. cands[m] = CandAt(cands[m].at) /\ cands[n] = CandAt(cands[n].at)
    BY <1>6
  <2>2. cands[m] = cands[n]
    BY <1>7, <2>1
  <2>. QED
    BY <1>1, <2>2
<1>8. Len(resp["rmp"]) \in Nat /\ Len(resp["mm"]) \in Nat
  BY ReplyIs, Shapes DEF RepliesOK, Tiers
<1>9. \A x, y \in Nat : x + y \in Nat
  OBVIOUS
<1>10. CellCount \in Nat
  BY <1>8, <1>9, Zenon DEF CellCount
<1>. QED
  BY <1>2, <1>5, <1>6, <1>7, <1>10

-----------------------------------------------------------------------------
(* Decrypting and ranking.                                                 *)

(* Before the Search RPC there is nothing to rank and nothing resolved.    *)
LEMMA InitKeeps == Init => SInv
<1> SUFFICES ASSUME Init PROVE SInv
  OBVIOUS
<1>1. RepliesOK
  BY DEF Init, RepliesOK, TierReplies
<1>2. Answered = {} /\ Live = {}
  <2>1. \A p \in AllPositions : resp[p[1]] = <<>>
    BY PositionsAre DEF Init, AllPositions, Tiers
  <2>. QED
    BY <2>1 DEF Answered, Live
<1>3. CandsOK
  <2>1. Decrypted(cell) = {}
    BY <1>2 DEF Decrypted
  <2>2. CellCount = 0 /\ cell = 0 /\ cands = <<>>
    BY DEF Init, CellCount, Tiers
  <2>. QED
    BY <2>1, <2>2 DEF CandsOK, Lists
<1>4. PlaceOK /\ RankedOK /\ AskedOK /\ TripsOK /\ ServerOK
  BY BoundsAssumption DEF Init, PlaceOK, RankedOK, AskedOK, TripsOK, ServerOK
<1>5. OutOK
  <2>1. /\ pc = "search" /\ out = <<>> /\ asked = <<>> /\ topK \in TopKs
        /\ DOMAIN out = {} /\ DOMAIN asked = {} /\ Len(out) = 0
    BY DEF Init
  <2>2. PICK f : f = [i \in DOMAIN out |-> 0]
    OBVIOUS
  <2>3. Picks(f, out, cands, asked, topK) /\ f \in [DOMAIN out -> DOMAIN asked]
    BY <2>1, <2>2 DEF Picks
  <2>4. topK > 0 => Len(out) <= topK
    BY <2>1, WidthAssumption
  <2>5. out \in Seq(Matches)
    BY <2>1
  <2>. QED
    BY <2>1, <2>3, <2>4, <2>5, Zenon DEF OutOK
<1>. QED
  BY <1>1, <1>3, <1>4, <1>5 DEF SInv

(* Nothing was decrypted, so the reply adds no candidate.                  *)
LEMMA SearchRPCKeeps ==
  ASSUME SInv, SearchRPC
  PROVE  RepliesOK' /\ CandsOK'
<1>1. PICK flat \in TierReplies("rmp"), clustered \in TierReplies("mm") :
        resp' = [t \in Tiers |-> IF t = "rmp" THEN flat ELSE clustered]
  BY DEF SearchRPC
<1>2. RepliesOK'
  BY <1>1 DEF RepliesOK, Tiers
<1>3. cell' = 0 /\ cands' = cands /\ cands = <<>>
  <2>1. cell = 0 /\ resp = [t \in Tiers |-> <<>>] /\ UNCHANGED <<cell, cands>>
    BY DEF SearchRPC, SInv, PlaceOK
  <2>2. \A p \in Live : FALSE
    <3>1. \A p \in AllPositions : resp[p[1]] = <<>>
      BY <2>1, PositionsAre DEF AllPositions, Tiers
    <3>. QED
      BY <3>1 DEF Answered, Live
  <2>3. cands \in Seq({})
    BY <2>2 DEF SInv, CandsOK, Lists, Decrypted
  <2>. QED
    BY <2>1, <2>3
<1>4. Len(resp'["rmp"]) \in Nat /\ Len(resp'["mm"]) \in Nat
  BY <1>1, ReplyIs DEF Tiers
<1>5. ASSUME NEW p \in AllPositions
      PROVE  p[1] \in Tiers /\ p[2] \in Nat \ {0}
  <2>1. PICK t \in Tiers : p \in Positions(t)
    BY DEF AllPositions, Tiers
  <2>2. p[1] = t /\ p[2] \in DOMAIN Shape[t]
    BY <2>1, PositionsAre
  <2>. QED
    BY <2>2, Shapes
<1>6. \A p \in Live' : ~(CellOf(p)' <= 0)
  <2>1. \A p \in Live' : p \in AllPositions
    BY DEF Live, Answered
  <2>. QED
    BY <1>4, <1>5, <2>1 DEF CellOf
<1>7. Decrypted(0)' = {}
  BY <1>6 DEF Decrypted
<1>8. CellCount' \in Nat
  <2>1. \A x, y \in Nat : x + y \in Nat
    OBVIOUS
  <2>. QED
    BY <1>4, <2>1, Zenon DEF CellCount
<1>9. Decrypted(cell)' = {}
  BY <1>3, <1>7 DEF Decrypted
<1>. QED
  BY <1>2, <1>3, <1>8, <1>9 DEF CandsOK, Lists

(* The cells and their numbers.                                            *)
LEMMA CellNumbers ==
  ASSUME RepliesOK
  PROVE  \E x, y \in Nat :
           /\ x = Len(resp["rmp"]) /\ y = Len(resp["mm"]) /\ CellCount = x + y
           /\ DOMAIN resp["rmp"] = 1..x /\ DOMAIN resp["mm"] = 1..y
           /\ \A p \in Answered :
                /\ p[1] \in Tiers /\ p[2] \in Nat
                /\ p[1] = "rmp" => p[2] \in 1..x
                /\ p[1] = "mm" => p[2] \in 1..y
                /\ p[1] = "rmp" => CellOf(p) = p[2]
                /\ p[1] = "mm" => CellOf(p) = x + p[2]
                /\ CellOf(p) \in 1..(x + y)
<1>1. PICK x, y \in Nat : /\ x = Len(resp["rmp"]) /\ y = Len(resp["mm"])
                          /\ DOMAIN resp["rmp"] = 1..x /\ DOMAIN resp["mm"] = 1..y
  BY AnsweredIs, Shapes DEF Tiers
<1>2. CellCount = x + y
  BY <1>1 DEF CellCount
<1>3. ASSUME NEW p \in Answered
      PROVE  p[1] \in Tiers /\ p[2] \in Nat /\ (p[1] = "rmp" => p[2] \in 1..x)
                            /\ (p[1] = "mm" => p[2] \in 1..y)
  BY <1>1, AnsweredIs DEF Tiers
<1>4. ASSUME NEW p \in Answered
      PROVE  /\ p[1] = "rmp" => CellOf(p) = p[2]
             /\ p[1] = "mm" => CellOf(p) = x + p[2]
             /\ CellOf(p) \in 1..(x + y)
  <2>1. CASE p[1] = "rmp"
    <3>1. CellOf(p) = p[2] /\ p[2] \in 1..x /\ ~(p[1] = "mm")
      BY <1>3, <2>1 DEF CellOf
    <3>. QED
      BY <3>1
  <2>2. CASE p[1] = "mm"
    <3>1. CellOf(p) = x + p[2] /\ p[2] \in 1..y
      BY <1>1, <1>3, <2>2 DEF CellOf
    <3>. QED
      BY <2>2, <3>1
  <2>. QED
    BY <1>3, <2>1, <2>2 DEF Tiers
<1>. QED
  BY <1>1, <1>2, <1>3, <1>4

(* Cells are decrypted in the order of their numbers.                      *)
LEMMA NextCell ==
  ASSUME RepliesOK, NEW n \in 1..CellCount
  PROVE  /\ CellNumber(n)[1] \in Tiers /\ CellNumber(n)[2] \in DOMAIN resp[CellNumber(n)[1]]
         /\ \A p \in Answered :
              /\ CellOf(p) \in Nat
              /\ CellOf(p) = n <=> p[1] = CellNumber(n)[1] /\ p[2] = CellNumber(n)[2]
<1>1. PICK x, y \in Nat :
        /\ x = Len(resp["rmp"]) /\ y = Len(resp["mm"]) /\ CellCount = x + y
        /\ DOMAIN resp["rmp"] = 1..x /\ DOMAIN resp["mm"] = 1..y
        /\ \A p \in Answered :
             /\ p[1] \in Tiers /\ p[2] \in Nat
             /\ p[1] = "rmp" => p[2] \in 1..x
             /\ p[1] = "mm" => p[2] \in 1..y
             /\ p[1] = "rmp" => CellOf(p) = p[2]
             /\ p[1] = "mm" => CellOf(p) = x + p[2]
             /\ CellOf(p) \in 1..(x + y)
  BY CellNumbers
<1>2. n \in 1..(x + y)
  BY <1>1
<1>3. ASSUME NEW p \in Answered
      PROVE  p[1] \in Tiers /\ p[2] \in Nat /\ (p[1] = "rmp" => p[2] \in 1..x)
                            /\ (p[1] = "mm" => p[2] \in 1..y)
  BY <1>1
<1>4. ASSUME NEW p \in Answered
      PROVE  /\ p[1] = "rmp" => CellOf(p) = p[2]
             /\ p[1] = "mm" => CellOf(p) = x + p[2]
             /\ CellOf(p) \in Nat
  <2>1. CellOf(p) \in 1..(x + y)
    BY <1>1, Zenon
  <2>2. CellOf(p) \in Nat
    BY <2>1
  <2>. QED
    BY <1>1, <2>2, Zenon
<1>5. CASE n <= x
  <2>1. CellNumber(n)[1] = "rmp" /\ CellNumber(n)[2] = n
    BY <1>1, <1>5 DEF CellNumber
  <2>2. \A p \in Answered : CellOf(p) = n <=> p[1] = "rmp" /\ p[2] = n
    BY <1>2, <1>3, <1>4, <1>5 DEF Tiers
  <2>. QED
    BY <1>1, <1>2, <1>4, <1>5, <2>1, <2>2 DEF Tiers
<1>6. CASE n > x
  <2>1. CellNumber(n)[1] = "mm" /\ CellNumber(n)[2] = n - x
    BY <1>1, <1>2, <1>6 DEF CellNumber
  <2>2. \A p \in Answered : CellOf(p) = n <=> p[1] = "mm" /\ p[2] = n - x
    BY <1>2, <1>3, <1>4, <1>6 DEF Tiers
  <2>3. n - x \in 1..y
    BY <1>2, <1>6
  <2>. QED
    BY <1>1, <1>4, <2>1, <2>2, <2>3 DEF Tiers
<1>. QED
  BY <1>2, <1>5, <1>6

(* Lists of two sets that have nothing in common make a list of both.      *)
LEMMA ListsJoin ==
  ASSUME NEW S, NEW T, S \cap T = {}, NEW c, Lists(c, S), NEW d, Lists(d, T)
  PROVE  Lists(c \o d, S \cup T)
<1>1. c \in Seq(S) /\ d \in Seq(T)
  BY DEF Lists
<1>2. PICK a, b \in Nat : a = Len(c) /\ b = Len(d) /\ DOMAIN c = 1..a /\ DOMAIN d = 1..b
  BY <1>1
<1>3. PICK j : j = c \o d
  OBVIOUS
<1>4. /\ j \in Seq(S \cup T) /\ DOMAIN j = 1..(a + b)
      /\ \A n \in 1..a : j[n] = c[n]
      /\ \A n \in 1..b : j[a + n] = d[n]
  <2>1. c \in Seq(S \cup T) /\ d \in Seq(S \cup T)
    BY <1>1
  <2>. QED
    BY <1>2, <1>3, <2>1
<1>5. \A n \in 1..(a + b) : n \in 1..a \/ \E k \in 1..b : n = a + k
  <2>1. \A n \in 1..(a + b) : n \in 1..a \/ (n - a \in 1..b /\ n = a + (n - a))
    OBVIOUS
  <2>. QED
    BY <2>1
<1>6. \A n \in 1..a : c[n] \in S /\ n \in 1..(a + b)
  BY <1>1, <1>2
<1>7. \A n \in 1..b : d[n] \in T /\ a + n \in 1..(a + b)
  BY <1>1, <1>2
<1>8. /\ \A e \in S : \E n \in 1..a : c[n] = e
      /\ \A e \in T : \E n \in 1..b : d[n] = e
      /\ \A m, n \in 1..a : c[m] = c[n] => m = n
      /\ \A m, n \in 1..b : d[m] = d[n] => m = n
  <2>1. /\ \A e \in S : \E n \in DOMAIN c : c[n] = e
        /\ \A m, n \in DOMAIN c : c[m] = c[n] => m = n
    BY Zenon DEF Lists
  <2>2. /\ \A e \in T : \E n \in DOMAIN d : d[n] = e
        /\ \A m, n \in DOMAIN d : d[m] = d[n] => m = n
    BY Zenon DEF Lists
  <2>3. DOMAIN c = 1..a /\ DOMAIN d = 1..b
    BY <1>2
  <2>. QED
    BY <2>1, <2>2, <2>3
<1>9. \A e \in S \cup T : \E n \in 1..(a + b) : j[n] = e
  BY <1>4, <1>6, <1>7, <1>8
<1>10. ASSUME NEW m \in 1..(a + b), NEW n \in 1..(a + b), j[m] = j[n]
       PROVE  m = n
  <2>1. CASE m \in 1..a /\ n \in 1..a
    BY <1>4, <1>8, <1>10, <2>1
  <2>2. ASSUME NEW x \in 1..a, NEW y \in 1..b PROVE j[x] # j[a + y]
    BY <1>4, <1>6, <1>7
  <2>3. CASE (\E x \in 1..b : m = a + x) /\ (\E y \in 1..b : n = a + y)
    <3>1. PICK x \in 1..b : m = a + x
      BY <2>3
    <3>2. PICK y \in 1..b : n = a + y
      BY <2>3
    <3>3. d[x] = d[y]
      BY <1>4, <1>10, <3>1, <3>2
    <3>. QED
      BY <1>8, <3>1, <3>2, <3>3
  <2>. QED
    BY <1>5, <1>10, <2>1, <2>2, <2>3
<1>. QED
  BY <1>3, <1>4, <1>9, <1>10 DEF Lists

(* A ranked list is a list of the same candidates.                         *)
LEMMA RankedLists ==
  ASSUME NEW S, Scored(S), NEW c, Lists(c, S)
  PROVE  Lists(Ranked(c), S)
<1>1. c \in Seq(S)
  BY DEF Lists
<1> DEFINE L == Len(c)
<1>2. L \in Nat /\ DOMAIN c = 1..L
  BY <1>1
<1>3. PICK r : r = Ranked(c)
  OBVIOUS
<1>4. r \in Seq(S) /\ Len(r) = L /\ Rearranges(r, c)
  BY <1>1, <1>2, <1>3, RankingSorts
<1>5. PICK f \in [1..L -> 1..L] :
        /\ \A n \in 1..L : r[n] = c[f[n]]
        /\ \A m, n \in 1..L : f[m] = f[n] => m = n
        /\ \A i \in 1..L : \E n \in 1..L : f[n] = i
  BY <1>4 DEF Rearranges
<1> HIDE DEF L
<1>6. /\ \A e \in S : \E n \in 1..L : c[n] = e
      /\ \A m, n \in 1..L : c[m] = c[n] => m = n
  BY <1>2 DEF Lists
<1>7. ASSUME NEW e \in S PROVE \E n \in 1..L : r[n] = e
  <2>1. PICK i \in 1..L : c[i] = e
    BY <1>6
  <2>2. PICK n \in 1..L : f[n] = i
    BY <1>5
  <2>. QED
    BY <1>5, <2>1, <2>2
<1>8. \A n \in 1..L : f[n] \in 1..L
  OBVIOUS
<1>9. ASSUME NEW m \in 1..L, NEW n \in 1..L, r[m] = r[n]
      PROVE  m = n
  <2>1. c[f[m]] = c[f[n]] /\ f[m] \in 1..L /\ f[n] \in 1..L
    BY <1>5, <1>8, <1>9
  <2>2. f[m] = f[n]
    BY <1>6, <2>1
  <2>. QED
    BY <1>5, <2>2
<1>10. DOMAIN r = 1..L
  BY <1>4
<1>11. Lists(r, S)
  BY <1>4, <1>7, <1>9, <1>10 DEF Lists
<1>. QED
  BY <1>3, <1>11

(* A decrypted cell adds its live rows, and no row twice.                  *)
LEMMA DecryptCellKeeps ==
  ASSUME SInv, DecryptCell
  PROVE  CandsOK'
<1>1. CellCount \in Nat
  BY CandsAre DEF SInv
<1>2. /\ cell \in 0..CellCount /\ cell < CellCount /\ cell' = cell + 1 /\ resp' = resp
      /\ Lists(cands, Decrypted(cell))
      /\ cands' = cands \o LiveRows(CellNumber(cell')[1], CellNumber(cell')[2])
  BY DEF SInv, CandsOK, DecryptCell
<1>3. PICK m \in 1..CellCount : m = cell + 1
  BY <1>1, <1>2
<1>4. PICK t, i : t = CellNumber(m)[1] /\ i = CellNumber(m)[2]
  OBVIOUS
<1>5. /\ t \in Tiers /\ i \in DOMAIN resp[t]
      /\ \A p \in Live : /\ CellOf(p) \in Nat
                         /\ CellOf(p) = m <=> p[1] = t /\ p[2] = i
  BY <1>4, NextCell DEF SInv, Live
<1> DEFINE New == {CandAt(p) : p \in {q \in Live : q[1] = t /\ q[2] = i}}
<1>6. Lists(LiveRows(t, i), New)
  BY <1>5, LiveRowsAre DEF SInv
<1>7. Decrypted(cell) \cap New = {}
  <2>1. \A p, q : CandAt(p) = CandAt(q) => p = q
    BY DEF CandAt
  <2>2. \A p \in Live : ~(CellOf(p) <= cell /\ p[1] = t /\ p[2] = i)
    BY <1>1, <1>2, <1>3, <1>5
  <2>. QED
    BY <2>1, <2>2 DEF Decrypted
<1>8. Decrypted(cell) \cup New = Decrypted(cell + 1)
  <2>1. \A p \in Live : CellOf(p) <= cell + 1 <=> CellOf(p) <= cell \/ (p[1] = t /\ p[2] = i)
    BY <1>1, <1>2, <1>3, <1>5
  <2>. QED
    BY <2>1 DEF Decrypted
<1> HIDE DEF New
<1>9. cands' = cands \o LiveRows(t, i)
  BY <1>2, <1>3, <1>4
<1>10. Lists(cands', Decrypted(cell + 1))
  <2>1. Lists(cands \o LiveRows(t, i), Decrypted(cell) \cup New)
    BY <1>2, <1>6, <1>7, ListsJoin
  <2>. QED
    BY <1>8, <1>9, <2>1
<1>11. Decrypted(cell)' = Decrypted(cell + 1) /\ CellCount' = CellCount
  BY <1>2 DEF Decrypted, CandAt, CellOf, ScoreAt, Live, Answered, CellCount
<1>. QED
  BY <1>1, <1>2, <1>10, <1>11 DEF CandsOK

(* Ranking orders the candidates and chooses the size of a window.         *)
LEMMA RankCandidatesKeeps ==
  ASSUME SInv, RankCandidates
  PROVE  CandsOK' /\ RankedOK'
<1>1. /\ topK \in TopKs /\ cell = CellCount
      /\ cands' = Ranked(cands) /\ batch' = Batch(topK, Len(cands))
      /\ UNCHANGED <<topK, resp, cell>>
      /\ cell \in 0..CellCount /\ Lists(cands, Decrypted(cell))
  BY DEF SInv, CandsOK, PlaceOK, RankCandidates
<1>2. Decrypted(cell)' = Decrypted(cell) /\ CellCount' = CellCount
  BY <1>1 DEF Decrypted, CandAt, CellOf, ScoreAt, Live, Answered, CellCount
<1>3. Scored(Decrypted(cell))
  <2>1. \A p \in Live : ScoreAt(p) \in Int
    BY AnsweredIs, BoundsAssumption DEF SInv, Live
  <2>. QED
    BY <2>1 DEF Decrypted, CandAt, Scored
<1>4. CandsOK'
  <2>1. Lists(Ranked(cands), Decrypted(cell))
    BY <1>1, <1>3, RankedLists
  <2>. QED
    BY <1>1, <1>2, <2>1 DEF CandsOK
<1>5. RankedOK'
  <2>1. cands \in Seq(Decrypted(cell)) /\ Len(cands) \in Nat
    BY <1>1 DEF Lists
  <2>2. Descending(Ranked(cands)) /\ Len(Ranked(cands)) = Len(cands)
    BY <1>3, <2>1, RankingSorts
  <2>3. PICK b : b = Batch(topK, Len(cands))
    OBVIOUS
  <2>4. b \in 0..Len(cands) /\ (b = Len(cands) \/ (topK > 0 /\ b = 2 * topK))
    BY <1>1, <2>1, <2>3, WindowSize
  <2>. QED
    BY <1>1, <1>2, <2>2, <2>3, <2>4 DEF RankedOK
<1>. QED
  BY <1>4, <1>5

-----------------------------------------------------------------------------
(* One window.                                                             *)

Window == SubSeq(cands, cursor + 1, Min({cursor + batch, Len(cands)}))

(* Sequence d is the w members of c after the k-th.                        *)
Follows(d, c, k, w) ==
  /\ Len(d) = w /\ DOMAIN d = 1..w /\ k + w <= Len(c)
  /\ \A j \in 1..w : k + j \in 1..Len(c) /\ d[j] = c[k + j]

(* A window of b after the k-th is not empty and ends where c does or has  *)
(* b members.                                                              *)
LEMMA CutsFollowing ==
  ASSUME NEW S, NEW c \in Seq(S), NEW k \in Nat, k < Len(c), NEW b \in Nat \ {0}
  PROVE  \E w \in Nat \ {0} :
           /\ SubSeq(c, k + 1, Min({k + b, Len(c)})) \in Seq(S)
           /\ Follows(SubSeq(c, k + 1, Min({k + b, Len(c)})), c, k, w)
           /\ w <= b /\ (k + w = Len(c) \/ w = b)
<1>1. PICK L \in Nat : L = Len(c) /\ k < L /\ DOMAIN c = 1..L
  OBVIOUS
<1>2. k + b \in Int /\ Min({k + b, L}) = IF k + b <= L THEN k + b ELSE L
  BY SmallerOfTwo
<1>3. PICK w \in Nat \ {0} : /\ k + w = Min({k + b, L}) /\ k + w <= L
                             /\ w <= b /\ (k + w = L \/ w = b)
  <2>1. CASE k + b <= L
    BY <1>2, <2>1
  <2>2. CASE ~(k + b <= L)
    <3>1. L - k \in Nat \ {0} /\ k + (L - k) = L /\ L - k <= b
      BY <1>1, <2>2
    <3>. QED
      BY <1>2, <2>2, <3>1
  <2>. QED
    BY <2>1, <2>2
<1>4. PICK d : d = SubSeq(c, k + 1, k + w)
  OBVIOUS
<1>5. \A j \in 1..w : k + j \in 1..L
  BY <1>3
<1>6. d \in Seq(S) /\ Len(d) = w /\ \A j \in 1..w : d[j] = c[k + j]
  <2>1. \A i \in (k + 1)..(k + w) : c[i] \in S
    <3>1. \A i \in 1..L : c[i] \in S
      BY <1>1
    <3>2. \A i \in (k + 1)..(k + w) : i \in 1..L
      BY <1>3
    <3>. QED
      BY <3>1, <3>2
  <2>2. /\ k + 1 \in Int /\ k + w \in Int /\ k + w - (k + 1) + 1 = w
        /\ k + 1 <= k + w
        /\ \A j \in 1..w : k + 1 + j - 1 = k + j
    OBVIOUS
  <2>3. /\ d \in Seq(S)
        /\ Len(d) = w
        /\ \A j \in 1..w : d[j] = c[k + 1 + j - 1]
    BY <1>4, <2>1, <2>2, SubSeqProperties
  <2>. QED
    BY <2>2, <2>3
<1>7. Follows(d, c, k, w)
  BY <1>1, <1>3, <1>5, <1>6 DEF Follows
<1>. QED
  BY <1>1, <1>3, <1>4, <1>6, <1>7

(* A window is the next candidates, and not empty.                         *)
LEMMA WindowIs ==
  ASSUME SInv, pc = "resolve", cursor < Len(cands)
  PROVE  \E w \in Nat \ {0} :
           /\ Window \in Seq(Candidates) /\ Follows(Window, cands, cursor, w)
           /\ w <= batch /\ (cursor + w = Len(cands) \/ w = batch)
<1>1. /\ RepliesOK /\ CandsOK
      /\ batch \in 0..Len(cands)
      /\ batch = Len(cands) \/ (topK > 0 /\ batch = 2 * topK)
      /\ cursor \in 0..Len(cands) /\ topK \in TopKs
  BY DEF SInv, RankedOK, AskedOK, PlaceOK
<1>2. cands \in Seq(Candidates) /\ Len(cands) \in Nat
  BY <1>1, CandsAre
<1>3. topK \in Int
  BY <1>1, WidthAssumption
<1>4. batch \in Nat \ {0} /\ cursor \in Nat
  BY <1>1, <1>2, <1>3
<1>. QED
  BY <1>2, <1>4, CutsFollowing DEF Window

(* Every candidate of a window is of a tier; each tier was answered in full *)
(* or all but the last.                                                    *)
InTiers(window) == \A j \in DOMAIN window : window[j].at[1] \in Tiers

Answers(entries, window) ==
  \A t \in Tiers : \/ entries[t] = Entries(window, t)
                   \/ entries[t] = Front(Entries(window, t)) /\ Entries(window, t) # <<>>

(* The two lists of answers, zipped back to the window: each position gets *)
(* the answer to itself, or none, also when a list is one short.           *)
LEMMA ZippedBack ==
  ASSUME NEW window, NEW w \in Nat, DOMAIN window = 1..w, InTiers(window),
         NEW entries, Answers(entries, window)
  PROVE  \A j \in 1..w :
           ResolvedIds(window, entries)[j] \in {NoId, ItemAt(window[j].at)}
<1> SUFFICES ASSUME NEW j \in 1..w
             PROVE  ResolvedIds(window, entries)[j] \in {NoId, ItemAt(window[j].at)}
  OBVIOUS
<1>1. PICK t \in Tiers : t = window[j].at[1]
  BY DEF InTiers
<1> DEFINE S == {k \in DOMAIN window : window[k].at[1] = t}
           asks == InOrder(S)
           n == Cardinality({k \in 1..j : window[k].at[1] = t})
<1>2. S \in SUBSET Nat /\ IsFiniteSet(S) /\ j \in S
  <2>1. IsFiniteSet(1..w) /\ 1..w \subseteq Nat
    BY FS_Interval
  <2>. QED
    BY <1>1, <2>1, FS_Subset
<1>3. {k \in 1..j : window[k].at[1] = t} = UpTo(S, j)
  <2>1. \A k : k \in 1..j <=> k \in 1..w /\ k <= j
    OBVIOUS
  <2>. QED
    BY <2>1 DEF UpTo
<1>4. PICK N \in Nat : N = Cardinality(S)
  BY <1>2, FS_CardinalityType
<1>5. DOMAIN asks = 1..N /\ n \in 1..N /\ asks[n] = j
  <2>1. n = Cardinality(UpTo(S, j))
    BY <1>3
  <2> HIDE DEF n, S
  <2>2. /\ asks \in [1..N -> S]
        /\ \A i \in S : Cardinality(UpTo(S, i)) \in 1..N /\ asks[Cardinality(UpTo(S, i))] = i
    BY <1>2, <1>4, InOrderIs
  <2>. QED
    BY <1>2, <2>1, <2>2
<1>6. PICK all : all = Entries(window, t)
  OBVIOUS
<1>7. /\ all = [m \in 1..N |->
                 LET p == window[asks[m]].at IN IF p \in gone THEN NoId ELSE ItemAt(p)]
  <2>1. all = [m \in DOMAIN asks |->
                 LET p == window[asks[m]].at IN IF p \in gone THEN NoId ELSE ItemAt(p)]
    BY <1>6 DEF Entries
  <2> HIDE DEF asks
  <2>. QED
    BY <1>5, <2>1
<1>8. all[n] \in {NoId, ItemAt(window[j].at)}
  <2> HIDE DEF asks, n
  <2>. QED
    BY <1>5, <1>7
<1>9. ResolvedIds(window, entries)[j] = IF n <= Len(entries[t]) THEN entries[t][n] ELSE NoId
  BY <1>1 DEF ResolvedIds
<1>10. CASE entries[t] = all
  BY <1>8, <1>9, <1>10
<1>11. CASE entries[t] = Front(all) /\ all # <<>>
  <2>1. PICK V : \A m \in 1..N : all[m] \in V
    <3>1. \A m \in 1..N : all[m] \in {all[k] : k \in 1..N}
      OBVIOUS
    <3>. QED
      BY <3>1
  <2>2. all \in Seq(V) /\ Len(all) = N /\ DOMAIN all = 1..N
    <3>1. DOMAIN all = 1..N /\ all = [m \in 1..N |-> all[m]]
      BY <1>7
    <3>2. all \in [1..N -> V]
      BY <2>1, <3>1
    <3>. QED
      BY <3>2
  <2>3. /\ Len(SubSeq(all, 1, N - 1)) = IF 1 <= N - 1 THEN N - 1 - 1 + 1 ELSE 0
        /\ \A i \in 1..(N - 1 - 1 + 1) : SubSeq(all, 1, N - 1)[i] = all[1 + i - 1]
    <3>1. \A i \in 1..(N - 1) : all[i] \in V
      BY <2>1
    <3>. QED
      BY <3>1, SubSeqProperties
  <2>4. entries[t] = SubSeq(all, 1, N - 1)
    BY <1>11, <2>2 DEF Front
  <2>5. Len(entries[t]) = N - 1 \/ Len(entries[t]) = 0
    BY <2>3, <2>4
  <2>6. \A i \in 1..(N - 1) : entries[t][i] = all[i]
    <3>1. \A i \in 1..(N - 1) : i \in 1..(N - 1 - 1 + 1) /\ 1 + i - 1 = i
      OBVIOUS
    <3>. QED
      BY <2>3, <2>4, <3>1
  <2> HIDE DEF n
  <2>7. n <= Len(entries[t]) => n \in 1..(N - 1)
    BY <1>5, <2>5
  <2>. QED
    BY <1>8, <1>9, <2>6, <2>7
<1>. QED
  BY <1>6, <1>10, <1>11 DEF Answers

(* Every item that was named was named a first time.                       *)
LEMMA FirstOne ==
  ASSUME NEW a, NEW c \in Nat, DOMAIN a = 1..c, NEW n \in 1..c, a[n] # NoId
  PROVE  \E m \in 1..c : First(a, m) /\ a[m] = a[n] /\ m <= n
<1> DEFINE T == {k \in 1..c : a[k] = a[n]}
<1>1. IsFiniteSet(1..c)
  BY FS_Interval
<1>2. T \in SUBSET Nat /\ n \in T /\ IsFiniteSet(T)
  BY <1>1, FS_Subset
<1>3. PICK m \in T : \A k \in T : m <= k
  BY <1>2, Extremes
<1>4. \A k \in 1..(m - 1) : k \in 1..c /\ ~(m <= k)
  OBVIOUS
<1>5. First(a, m)
  BY <1>3, <1>4 DEF First
<1>. QED
  BY <1>2, <1>3, <1>5

(* Every item that answer a names is the item of a match in o.             *)
Placed(f, o, a) ==
  \A n \in DOMAIN a : a[n] # NoId =>
     \E i \in DOMAIN o : f[i] \in DOMAIN a /\ a[f[i]] = a[n] /\ o[i].id = a[n]

(* While fewer than topK are found, each item that was named is a match.   *)
LEMMA NamedIsFound ==
  ASSUME NEW f, NEW o, NEW d, NEW S, NEW a \in Seq(S), NEW k,
         Picks(f, o, d, a, k), ~Full(o, k)
  PROVE  Placed(f, o, a)
<1> SUFFICES ASSUME NEW n \in DOMAIN a, a[n] # NoId
             PROVE  \E i \in DOMAIN o : f[i] \in DOMAIN a /\ a[f[i]] = a[n] /\ o[i].id = a[n]
  BY DEF Placed
<1>1. PICK c \in Nat : DOMAIN a = 1..c
  OBVIOUS
<1>2. PICK m \in 1..c : First(a, m) /\ a[m] = a[n]
  BY <1>1, FirstOne
<1>3. PICK i \in DOMAIN o : f[i] = m
  BY <1>1, <1>2 DEF Picks, Full
<1>4. o[i] = Match(d[m], a[m])
  BY <1>3 DEF Picks
<1>. QED
  BY <1>1, <1>2, <1>3, <1>4 DEF Match

(* Sequence j is a, then b.                                                *)
IsJoin(j, a, b) ==
  /\ Len(j) = Len(a) + Len(b) /\ DOMAIN j = 1..(Len(a) + Len(b))
  /\ \A i \in 1..Len(a) : j[i] = a[i]
  /\ \A i \in 1..Len(b) : j[Len(a) + i] = b[i]

(* The members of two sequences joined.                                    *)
LEMMA Joined ==
  ASSUME NEW S, NEW a \in Seq(S), NEW b \in Seq(S)
  PROVE  a \o b \in Seq(S) /\ IsJoin(a \o b, a, b)
<1>1. /\ a \o b \in Seq(S) /\ Len(a \o b) = Len(a) + Len(b)
      /\ DOMAIN (a \o b) = 1..(Len(a) + Len(b))
  OBVIOUS
<1>2. \A i \in 1..Len(a) : (a \o b)[i] = a[i]
  OBVIOUS
<1>3. \A i \in 1..Len(b) : (a \o b)[Len(a) + i] = b[i]
  OBVIOUS
<1>. QED
  BY <1>1, <1>2, <1>3 DEF IsJoin

(* The cells and the rows of a window are numbers.                         *)
Numbered(window) ==
  \A j \in DOMAIN window : window[j].at[2] \in Int /\ window[j].at[3] \in Nat

(* Every window adds the first rows of the items it names first, and stops *)
(* at topK.                                                                *)
LEMMA FreshIsFirst ==
  ASSUME topK \in Int, asked \in Seq(Items \cup {NoId}), out \in Seq(Matches),
         NEW f, Picks(f, out, cands, asked, topK), topK <= 0 \/ Len(out) < topK,
         NEW window \in Seq(Candidates), NEW w \in Nat,
         Follows(window, cands, Len(asked), w), Numbered(window),
         NEW ids \in [1..w -> Items \cup {NoId}]
  PROVE  /\ out \o Fresh(window, ids) \in Seq(Matches)
         /\ topK > 0 => Len(out \o Fresh(window, ids)) <= topK
         /\ \E g \in [DOMAIN (out \o Fresh(window, ids)) -> DOMAIN (asked \o ids)] :
              Picks(g, out \o Fresh(window, ids), cands, asked \o ids, topK)
<1> DEFINE New(j) == /\ ids[j] # NoId
                     /\ \A i \in DOMAIN out : out[i].id # ids[j]
                     /\ \A i \in 1..(j - 1) : ids[i] # ids[j]
           S == {j \in DOMAIN window : New(j)}
           js == InOrder(S)
           found == [n \in DOMAIN js |-> Match(window[js[n]], ids[js[n]])]
<1>1. PICK c, o \in Nat : c = Len(asked) /\ o = Len(out) /\ DOMAIN asked = 1..c /\ DOMAIN out = 1..o
  OBVIOUS
<1>31. /\ DOMAIN window = 1..w
      /\ \A j \in 1..w : /\ window[j] = cands[c + j] /\ window[j] \in Candidates
                         /\ window[j].at[2] \in Int /\ window[j].at[3] \in Nat
  <2>1. DOMAIN window = 1..w /\ \A j \in 1..w : window[j] = cands[c + j]
    BY <1>1 DEF Follows
  <2>2. \A j \in 1..w : window[j] \in Candidates
    BY <2>1
  <2>3. \A j \in 1..w : window[j].at[2] \in Int /\ window[j].at[3] \in Nat
    BY <2>1 DEF Numbered
  <2>. QED
    BY <2>1, <2>2, <2>3
<1>2. /\ f \in [1..o -> 1..c]
      /\ \A i \in 1..o : First(asked, f[i]) /\ out[i] = Match(cands[f[i]], asked[f[i]])
      /\ \A i, j \in 1..o : i < j => f[i] < f[j]
      /\ \A n \in 1..c : First(asked, n) => \E i \in 1..o : f[i] = n
  <2>1. ~(topK > 0 /\ o = topK)
    BY <1>1
  <2>2. /\ f \in [1..o -> 1..c]
        /\ \A i \in 1..o : First(asked, f[i]) /\ out[i] = Match(cands[f[i]], asked[f[i]])
        /\ \A i, j \in 1..o : i < j => f[i] < f[j]
        /\ \A n \in 1..c : First(asked, n) =>
              \/ \E i \in 1..o : f[i] = n
              \/ topK > 0 /\ o = topK /\ \A i \in 1..o : f[i] < n
    BY <1>1, Zenon DEF Picks
  <2>. QED
    BY <2>1, <2>2, Zenon
<1>3. \A i \in 1..o : f[i] \in 1..c /\ out[i].id = asked[f[i]]
  <2>1. \A k, id : Match(k, id).id = id
    BY DEF Match
  <2>2. ASSUME NEW i \in 1..o PROVE f[i] \in 1..c /\ out[i].id = asked[f[i]]
    <3>1. out[i] = Match(cands[f[i]], asked[f[i]])
      BY <1>2, Zenon
    <3>. QED
      BY <1>2, <2>1, <3>1
  <2>. QED
    BY <2>2
<1>4. PICK a : a = asked \o ids
  OBVIOUS
<1>5. /\ DOMAIN a = 1..(c + w) /\ a \in Seq(Items \cup {NoId})
      /\ \A n \in 1..c : a[n] = asked[n]
      /\ \A j \in 1..w : a[c + j] = ids[j]
  <2>1. ids \in Seq(Items \cup {NoId}) /\ Len(ids) = w
    OBVIOUS
  <2>2. asked \in Seq(Items \cup {NoId}) /\ c = Len(asked)
    BY <1>1
  <2>3. a \in Seq(Items \cup {NoId}) /\ IsJoin(a, asked, ids)
    BY <1>4, <2>1, <2>2, Joined
  <2>. QED
    BY <2>1, <2>2, <2>3 DEF IsJoin
(* What was asked before and is an item is an item of a match.             *)
<1>6. ASSUME NEW n \in 1..c, asked[n] # NoId
      PROVE  \E i \in 1..o : out[i].id = asked[n]
  <2>1. ~Full(out, topK)
    BY <1>1 DEF Full
  <2>2. Placed(f, out, asked)
    BY <2>1, NamedIsFound
  <2>3. DOMAIN asked = 1..c /\ DOMAIN out = 1..o
    BY <1>1
  <2>. QED
    BY <1>6, <2>2, <2>3 DEF Placed
<1>7. ASSUME NEW n \in 1..c PROVE First(a, n) <=> First(asked, n)
  <2>1. \A k \in 1..(n - 1) : k \in 1..c
    OBVIOUS
  <2>. QED
    BY <1>5, <2>1 DEF First
<1>8. ASSUME NEW j \in 1..w PROVE First(a, c + j) <=> New(j)
  <2>1. a[c + j] = ids[j]
    BY <1>5
  <2>2. ASSUME First(a, c + j) PROVE New(j)
    <3>1. a[c + j] # NoId /\ \A m \in 1..(c + j - 1) : a[m] # a[c + j]
      BY <2>2 DEF First
    <3>2. \A i \in 1..o : f[i] \in 1..(c + j - 1) /\ a[f[i]] = out[i].id
      BY <1>3, <1>5
    <3>3. \A i \in 1..(j - 1) : c + i \in 1..(c + j - 1) /\ a[c + i] = ids[i]
      BY <1>5
    <3>. QED
      BY <1>1, <2>1, <3>1, <3>2, <3>3
  <2>3. ASSUME New(j) PROVE First(a, c + j)
    <3>1. ASSUME NEW m \in 1..(c + j - 1) PROVE a[m] # a[c + j]
      <4>1. CASE m \in 1..c
        <5>1. a[m] = asked[m]
          BY <1>5, <4>1
        <5>2. a[m] # NoId => \E i \in 1..o : out[i].id = a[m]
          BY <1>6, <4>1, <5>1
        <5>. QED
          BY <1>1, <2>1, <2>3, <5>2
      <4>2. CASE m - c \in 1..(j - 1)
        <5>1. a[m] = ids[m - c]
          <6>1. m = c + (m - c) /\ m - c \in 1..w
            BY <4>2
          <6>. QED
            BY <1>5, <6>1
        <5>. QED
          BY <2>1, <2>3, <4>2, <5>1
      <4>. QED
        BY <4>1, <4>2
    <3>. QED
      BY <2>1, <2>3, <3>1 DEF First
  <2>. QED
    BY <2>2, <2>3
<1>9. S \in SUBSET Nat /\ IsFiniteSet(S) /\ S = {j \in 1..w : New(j)}
  <2>1. IsFiniteSet(1..w) /\ 1..w \subseteq Nat
    BY FS_Interval
  <2>2. S = {j \in 1..w : New(j)}
    BY <1>31
  <2> HIDE DEF New, S
  <2>. QED
    BY <2>1, <2>2, FS_Subset
<1>10. PICK N \in Nat : N = Cardinality(S)
  BY <1>9, FS_CardinalityType
<1>11. /\ js \in [1..N -> S] /\ DOMAIN js = 1..N
       /\ \A m, n \in 1..N : m < n => js[m] < js[n]
       /\ \A j \in S : \E n \in 1..N : js[n] = j
  <2> HIDE DEF S
  <2>1. /\ js \in [1..N -> S]
        /\ \A m, n \in 1..N : m < n => js[m] < js[n]
        /\ \A j \in S : /\ Cardinality(UpTo(S, j)) \in 1..N
                        /\ js[Cardinality(UpTo(S, j))] = j
    BY <1>9, <1>10, InOrderIs
  <2> HIDE DEF js
  <2>. QED
    BY <2>1
<1>12. Fresh(window, ids) = IF topK > 0 THEN SubSeq(found, 1, Min({topK - Len(out), Len(found)}))
                                        ELSE found
  BY DEF Fresh
<1>13. ASSUME NEW n \in 1..N
       PROVE  /\ js[n] \in 1..w /\ First(a, c + js[n])
              /\ found[n] = Match(cands[c + js[n]], a[c + js[n]])
              /\ found[n] \in Matches
  <2> DEFINE j == js[n]
  <2>1. j \in 1..w /\ First(a, c + j)
    BY <1>8, <1>9, <1>11
  <2>2. found[n] = Match(window[j], ids[j])
    BY <1>11
  <2>3. ids[j] = a[c + j] /\ window[j] = cands[c + j] /\ window[j] \in Candidates
        /\ window[j].at[2] \in Int /\ window[j].at[3] \in Nat
    BY <1>5, <1>31, <2>1
  <2>4. ids[j] \in Items
    BY <1>5, <2>1, <2>3 DEF First
  <2> HIDE DEF j
  <2>5. window[j].score \in Scores
    BY <2>3 DEF Candidates
  <2>6. Match(window[j], ids[j]) \in Matches
    BY <2>3, <2>4, <2>5, WidthAssumption DEF Match, Matches, FlatClusterID, Int32
  <2>. QED
    BY <2>1, <2>2, <2>3, <2>6 DEF j
<1>14. found \in Seq(Matches) /\ Len(found) = N
  <2>1. DOMAIN found = 1..N
    BY <1>11
  <2>2. found \in [1..N -> Matches]
    BY <1>13, <2>1
  <2> HIDE DEF found
  <2>. QED
    BY <2>2
<1>15. PICK l \in 0..N : /\ l = IF topK > 0 /\ topK - o < N THEN topK - o ELSE N
  <2>1. CASE topK > 0 /\ topK - o < N
    <3>1. topK - o \in 0..N
      BY <1>1, <2>1
    <3>. QED
      BY <2>1, <3>1
  <2>2. CASE ~(topK > 0 /\ topK - o < N)
    BY <2>2
  <2>. QED
    BY <2>1, <2>2
<1> HIDE DEF found, js, S, New
<1>16. PICK more : more = Fresh(window, ids)
  OBVIOUS
<1>17. more \in Seq(Matches) /\ Len(more) = l /\ \A n \in 1..l : more[n] = found[n]
  <2>1. CASE topK > 0
    <3>1. Min({topK - Len(out), Len(found)}) = l
      <4>1. topK - o \in Int /\ N \in Int
        BY <1>10
      <4>2. Min({topK - o, N}) = IF topK - o <= N THEN topK - o ELSE N
        BY <4>1, SmallerOfTwo
      <4>. QED
        <5>1. Len(found) = N /\ Len(out) = o /\ (topK - o < N <=> ~(N <= topK - o))
          BY <1>1, <1>14
        <5>2. topK - o <= N => topK - o = l
          BY <1>15, <2>1
        <5>3. ~(topK - o <= N) => N = l
          BY <1>15, <2>1
        <5>. QED
          BY <2>1, <4>2, <5>1, <5>2, <5>3
    <3>2. more = SubSeq(found, 1, l)
      BY <1>12, <1>16, <2>1, <3>1
    <3>. QED
      BY <1>14, <1>15, <3>2
  <2>2. CASE ~(topK > 0)
    BY <1>12, <1>14, <1>15, <1>16, <2>2
  <2>. QED
    BY <2>1, <2>2
<1>18. PICK res : res = out \o more
  OBVIOUS
<1>19. /\ res \in Seq(Matches) /\ Len(res) = o + l /\ DOMAIN res = 1..(o + l)
       /\ \A i \in 1..o : res[i] = out[i]
       /\ \A n \in 1..l : res[o + n] = more[n]
  <2>1. l \in Nat /\ Len(more) = l /\ more \in Seq(Matches)
    BY <1>17
  <2>2. out \in Seq(Matches) /\ o = Len(out)
    BY <1>1
  <2>3. res \in Seq(Matches) /\ IsJoin(res, out, more)
    BY <1>18, <2>1, <2>2, Joined
  <2>. QED
    BY <2>1, <2>2, <2>3 DEF IsJoin
<1>20. topK > 0 => o + l <= topK /\ (l < N => o + l = topK)
  BY <1>1, <1>10, <1>15
<1>21. ~(topK > 0) => l = N
  BY <1>15
<1>22. PICK g : g = [i \in 1..(o + l) |-> IF i <= o THEN f[i] ELSE c + js[i - o]]
  OBVIOUS
<1>23. ASSUME NEW i \in 1..(o + l)
       PROVE  /\ i \in 1..o => g[i] = f[i] /\ g[i] \in 1..c
              /\ i - o \in 1..l => g[i] = c + js[i - o] /\ js[i - o] \in 1..w /\ g[i] > c
              /\ i \in 1..o \/ i - o \in 1..l
              /\ g[i] \in 1..(c + w)
  <2>1. CASE i \in 1..o
    BY <1>3, <1>22, <2>1
  <2>2. CASE i - o \in 1..l
    <3>1. i - o \in 1..N /\ ~(i <= o)
      BY <1>15, <2>2
    <3>2. g[i] = c + js[i - o]
      BY <1>22, <3>1
    <3>3. js[i - o] \in 1..w
      BY <1>13, <3>1
    <3>. QED
      BY <2>2, <3>1, <3>2, <3>3
  <2>. QED
    BY <2>1, <2>2
<1>24. ASSUME NEW i \in 1..(o + l)
       PROVE  First(a, g[i]) /\ res[i] = Match(cands[g[i]], a[g[i]])
  <2>1. CASE i \in 1..o
    <3>1. g[i] = f[i] /\ f[i] \in 1..c /\ res[i] = out[i]
      BY <1>19, <1>23, <2>1
    <3>. QED
      BY <1>2, <1>5, <1>7, <2>1, <3>1
  <2>2. CASE i - o \in 1..l
    <3>1. PICK n \in 1..l : n = i - o /\ i = o + n
      BY <2>2
    <3>2. n \in 1..N /\ g[i] = c + js[n]
      BY <1>15, <1>23, <2>2, <3>1
    <3>3. res[i] = found[n]
      BY <1>17, <1>19, <3>1
    <3>. QED
      BY <1>13, <3>2, <3>3
  <2>. QED
    BY <1>23, <2>1, <2>2
<1>25. ASSUME NEW i \in 1..(o + l), NEW k \in 1..(o + l), i < k
       PROVE  g[i] < g[k]
  <2>1. CASE k \in 1..o
    <3>1. i \in 1..o
      BY <1>25, <2>1
    <3>. QED
      BY <1>2, <1>23, <1>25, <2>1, <3>1
  <2>2. CASE i \in 1..o /\ k - o \in 1..l
    BY <1>23, <2>2
  <2>3. CASE i - o \in 1..l /\ k - o \in 1..l
    <3>1. i - o \in 1..N /\ k - o \in 1..N /\ i - o < k - o
      BY <1>15, <1>25, <2>3
    <3>2. js[i - o] < js[k - o]
      BY <1>11, <3>1
    <3>. QED
      BY <1>23, <2>3, <3>2
  <2>. QED
    BY <1>23, <2>1, <2>2, <2>3
<1>26. ASSUME NEW n \in 1..(c + w), First(a, n)
       PROVE  \/ \E i \in 1..(o + l) : g[i] = n
              \/ topK > 0 /\ o + l = topK /\ \A i \in 1..(o + l) : g[i] < n
  <2>1. CASE n \in 1..c
    <3>1. PICK i \in 1..o : f[i] = n
      BY <1>2, <1>7, <1>26, <2>1
    <3>2. i \in 1..(o + l) /\ g[i] = n
      BY <1>15, <1>23, <3>1
    <3>. QED
      BY <3>2
  <2>2. CASE n - c \in 1..w
    <3>1. PICK j \in 1..w : n = c + j
      <4>1. n = c + (n - c)
        OBVIOUS
      <4>. QED
        BY <2>2, <4>1
    <3>2. j \in S
      BY <1>8, <1>9, <1>26, <3>1
    <3>3. PICK m \in 1..N : js[m] = j
      BY <1>11, <3>2
    <3>4. CASE m <= l
      <4>1. o + m \in 1..(o + l) /\ o + m - o = m /\ m \in 1..l
        BY <1>15, <3>4
      <4>2. g[o + m] = n
        BY <1>23, <3>1, <3>3, <4>1
      <4>. QED
        BY <4>1, <4>2
    <3>5. CASE m > l
      <4>1. topK > 0 /\ o + l = topK
        BY <1>15, <1>20, <1>21, <3>5
      <4>2. ASSUME NEW i \in 1..(o + l) PROVE g[i] < n
        <5>1. CASE i \in 1..o
          BY <1>23, <3>1, <5>1
        <5>2. CASE i - o \in 1..l
          <6>1. i - o \in 1..N /\ i - o < m
            BY <1>15, <3>5, <5>2
          <6>2. js[i - o] < j
            BY <1>11, <3>3, <6>1
          <6>. QED
            BY <1>23, <3>1, <5>2, <6>2
        <5>. QED
          BY <1>23, <5>1, <5>2
      <4>. QED
        BY <4>1, <4>2
    <3>. QED
      BY <1>15, <3>4, <3>5
  <2>. QED
    BY <2>1, <2>2
<1>27. Picks(g, res, cands, a, topK) /\ g \in [DOMAIN res -> DOMAIN a]
  <2>1. g \in [1..(o + l) -> 1..(c + w)]
    BY <1>22, <1>23
  <2>. QED
    BY <1>5, <1>19, <1>24, <1>25, <1>26, <2>1 DEF Picks
<1>. QED
  BY <1>4, <1>16, <1>18, <1>19, <1>20, <1>27

-----------------------------------------------------------------------------
(* Resolving.                                                              *)

(* What one window does: every candidate of it is resolved to its item or  *)
(* to none, and what is fresh is added.                                    *)
LEMMA ResolvesWindow ==
  ASSUME SInv, ResolveWindow
  PROVE  \E w \in Nat \ {0} : \E ids \in [1..w -> Items \cup {NoId}] :
           /\ Window \in Seq(Candidates) /\ Follows(Window, cands, cursor, w)
           /\ Numbered(Window)
           /\ w <= batch /\ (cursor + w = Len(cands) \/ w = batch)
           /\ \A j \in 1..w : ids[j] \in {NoId, ItemAt(Window[j].at)}
           /\ out' = out \o Fresh(Window, ids) /\ asked' = asked \o ids /\ cursor' = cursor + w
<1>1. pc = "resolve" /\ cursor < Len(cands)
  BY DEF ResolveWindow
<1>2. PICK w \in Nat \ {0} :
        /\ Window \in Seq(Candidates) /\ Follows(Window, cands, cursor, w)
        /\ w <= batch /\ (cursor + w = Len(cands) \/ w = batch)
  BY <1>1, WindowIs
<1>3. PICK short \in SUBSET Tiers :
        LET all == [t \in Tiers |-> Entries(Window, t)]
            entries == [t \in Tiers |-> IF t \in short /\ all[t] # <<>>
                                        THEN Front(all[t]) ELSE all[t]]
            ids == ResolvedIds(Window, entries)
        IN  /\ out' = out \o Fresh(Window, ids)
            /\ asked' = asked \o ids
            /\ cursor' = cursor + Len(Window)
  BY DEF ResolveWindow, Window
<1> DEFINE all == [t \in Tiers |-> Entries(Window, t)]
           entries == [t \in Tiers |-> IF t \in short /\ all[t] # <<>>
                                       THEN Front(all[t]) ELSE all[t]]
           ids == ResolvedIds(Window, entries)
<1>4. Answers(entries, Window)
  BY DEF Answers
<1>5. out' = out \o Fresh(Window, ids) /\ asked' = asked \o ids /\ cursor' = cursor + Len(Window)
  BY <1>3
<1> HIDE DEF entries
<1>6. DOMAIN Window = 1..w /\ Len(Window) = w /\ \A j \in 1..w : Window[j] = cands[cursor + j]
  BY <1>2 DEF Follows
<1>7. \A j \in 1..w : Window[j].at \in Answered
  <2>1. \A j \in 1..w : cursor + j \in 1..Len(cands)
    BY <1>2 DEF Follows
  <2>2. RepliesOK /\ CandsOK
    BY DEF SInv
  <2>3. DOMAIN cands = 1..Len(cands) /\ \A n \in DOMAIN cands : cands[n].at \in Answered
    BY <2>2, CandsAre
  <2>. QED
    BY <1>6, <2>1, <2>3
<1>8. \A p \in Answered : /\ p[1] \in Tiers /\ p[2] \in Int /\ p[3] \in Nat
                          /\ ItemAt(p) \in Items
  <2>1. RepliesOK
    BY DEF SInv
  <2>2. ASSUME NEW p \in Answered PROVE p[2] \in Int
    <3>1. PICK t \in Tiers : t = p[1] /\ p[2] \in DOMAIN resp[t]
      BY <2>1, AnsweredIs
    <3>2. DOMAIN resp[t] = 1..Len(resp[t])
      BY <2>1, AnsweredIs
    <3>. QED
      BY <3>1, <3>2
  <2>. QED
    BY <2>1, <2>2, AnsweredIs
<1>9. InTiers(Window) /\ Numbered(Window)
  BY <1>6, <1>7, <1>8 DEF InTiers, Numbered
<1>10. \A j \in 1..w : ids[j] \in {NoId, ItemAt(Window[j].at)}
  BY <1>4, <1>6, <1>9, ZippedBack
<1>11. ids \in [1..w -> Items \cup {NoId}]
  <2>1. ids = [j \in 1..w |-> ids[j]]
    BY <1>6 DEF ResolvedIds
  <2> HIDE DEF ids
  <2>2. \A j \in 1..w : ids[j] \in Items \cup {NoId}
    BY <1>7, <1>8, <1>10
  <2>. QED
    BY <2>1, <2>2
<1> HIDE DEF ids
<1>. QED
  BY <1>2, <1>5, <1>6, <1>9, <1>10, <1>11

(* A set that maps one to one into 1..m has no more than m members.        *)
LEMMA OneTierFits ==
  ASSUME NEW A, IsFiniteSet(A), NEW m \in Nat, NEW h \in [A -> 1..m],
         \A x, y \in A : h[x] = h[y] => x = y
  PROVE  Cardinality(A) \in Nat /\ Cardinality(A) <= m
<1>1. IsFiniteSet(1..m) /\ Cardinality(1..m) = m
  BY FS_Interval
<1>2. Cardinality(A) \in Nat
  BY FS_CardinalityType
<1>3. ~(Cardinality(1..m) < Cardinality(A))
  BY <1>1, FS_PigeonHole
<1>. QED
  BY <1>1, <1>2, <1>3

(* Each tier holds an item once, so candidates that all resolve are at     *)
(* most two for each match while fewer than topK are found.                *)
LEMMA TwoTiersFit ==
  ASSUME SInv, pc = "resolve", \A n \in DOMAIN asked : asked[n] # NoId
  PROVE  cursor <= 2 * Len(out)
<1>1. /\ RepliesOK /\ CandsOK
      /\ cursor \in 0..Len(cands) /\ asked \in Seq(Items \cup {NoId}) /\ Len(asked) = cursor
      /\ \A n \in 1..cursor : asked[n] \in {NoId, ItemAt(cands[n].at)}
      /\ out \in Seq(Matches) /\ topK \in TopKs
      /\ topK <= 0 \/ Len(out) < topK
  BY DEF SInv, AskedOK, OutOK, PlaceOK
<1>2. Len(cands) \in Nat /\ DOMAIN cands = 1..Len(cands)
  BY <1>1, CandsAre
<1>3. PICK c, o \in Nat : c = cursor /\ o = Len(out) /\ DOMAIN asked = 1..c /\ DOMAIN out = 1..o
  <2>1. cursor \in Nat /\ DOMAIN asked = 1..cursor
    BY <1>1, <1>2
  <2>2. Len(out) \in Nat /\ DOMAIN out = 1..Len(out)
    BY <1>1
  <2>. QED
    BY <2>1, <2>2
<1>4. \A n \in 1..c : n \in DOMAIN cands
  BY <1>1, <1>2, <1>3
<1>5. PICK f : Picks(f, out, cands, asked, topK)
  BY DEF SInv, OutOK
<1>6. Placed(f, out, asked)
  <2>1. ~Full(out, topK)
    BY <1>1, <1>3, WidthAssumption DEF Full
  <2>. QED
    BY <1>1, <1>5, <2>1, NamedIsFound
<1>7. \A n \in 1..c : \E i \in 1..o : out[i].id = ItemAt(cands[n].at)
  <2>1. ASSUME NEW n \in 1..c PROVE asked[n] # NoId /\ asked[n] = ItemAt(cands[n].at)
    BY <1>1, <1>3
  <2>2. \A n \in 1..c : \E i \in 1..o : out[i].id = asked[n]
    BY <1>3, <1>6, <2>1 DEF Placed
  <2>. QED
    BY <2>1, <2>2
<1> DEFINE In(t) == {n \in 1..c : cands[n].at[1] = t}
<1>8. ASSUME NEW t \in Tiers
      PROVE  IsFiniteSet(In(t)) /\ Cardinality(In(t)) \in Nat /\ Cardinality(In(t)) <= o
  <2>1. IsFiniteSet(In(t))
    <3>1. IsFiniteSet(1..c)
      BY FS_Interval
    <3>. QED
      BY <3>1, FS_Subset
  <2> DEFINE h == [n \in In(t) |-> CHOOSE i \in 1..o : out[i].id = ItemAt(cands[n].at)]
  <2>2. \A n \in In(t) : h[n] \in 1..o /\ out[h[n]].id = ItemAt(cands[n].at)
    BY <1>7
  <2>3. h \in [In(t) -> 1..o]
    BY <2>2
  <2> HIDE DEF h
  <2>4. ASSUME NEW x \in In(t), NEW y \in In(t), h[x] = h[y]
        PROVE  x = y
    <3>1. ItemAt(cands[x].at) = ItemAt(cands[y].at)
      BY <2>2, <2>4
    <3>2. x \in DOMAIN cands /\ y \in DOMAIN cands /\ cands[x].at[1] = cands[y].at[1]
      BY <1>4
    <3>3. cands[x].at \in Answered /\ cands[y].at \in Answered
      BY <1>1, <3>2, CandsAre
    <3>4. cands[x].at = cands[y].at
      BY <1>1, <3>1, <3>2, <3>3, AnsweredIs
    <3>. QED
      BY <1>1, <3>2, <3>4, CandsAre
  <2> HIDE DEF In
  <2>. QED
    BY <2>1, <2>3, <2>4, OneTierFits
<1>9. In("rmp") \cup In("mm") = 1..c /\ In("rmp") \cap In("mm") = {}
  <2>1. \A n \in 1..c : cands[n].at[1] \in Tiers
    <3>1. \A n \in DOMAIN cands : cands[n].at \in Answered
      BY <1>1, CandsAre
    <3>. QED
      BY <1>1, <1>4, <3>1, AnsweredIs
  <2>. QED
    BY <2>1 DEF Tiers
<1> HIDE DEF In
<1>10. Cardinality(1..c) = Cardinality(In("rmp")) + Cardinality(In("mm"))
  BY <1>8, <1>9, DisjointUnion DEF Tiers
<1>11. Cardinality(1..c) = c
  BY FS_Interval
<1>. QED
  BY <1>3, <1>8, <1>10, <1>11 DEF Tiers

(* One window more: the answers stay those of the candidates, the matches  *)
(* stay the first rows of their items, a second round trip needs a gap.    *)
LEMMA ResolveWindowKeeps ==
  ASSUME SInv, ResolveWindow
  PROVE  AskedOK' /\ OutOK' /\ TripsOK'
<1>1. PICK w \in Nat \ {0} : \E ids \in [1..w -> Items \cup {NoId}] :
        /\ Window \in Seq(Candidates) /\ Follows(Window, cands, cursor, w)
        /\ Numbered(Window)
        /\ w <= batch /\ (cursor + w = Len(cands) \/ w = batch)
        /\ \A j \in 1..w : ids[j] \in {NoId, ItemAt(Window[j].at)}
        /\ out' = out \o Fresh(Window, ids) /\ asked' = asked \o ids /\ cursor' = cursor + w
  BY ResolvesWindow
<1>2. PICK ids \in [1..w -> Items \cup {NoId}] :
        /\ Window \in Seq(Candidates) /\ Follows(Window, cands, cursor, w)
        /\ Numbered(Window)
        /\ w <= batch /\ (cursor + w = Len(cands) \/ w = batch)
        /\ \A j \in 1..w : ids[j] \in {NoId, ItemAt(Window[j].at)}
        /\ out' = out \o Fresh(Window, ids) /\ asked' = asked \o ids /\ cursor' = cursor + w
  BY <1>1
<1>3. /\ pc = "resolve" /\ cursor < Len(cands) /\ trips' = trips + 1
      /\ pc' = IF topK > 0 /\ Len(out') >= topK THEN "done" ELSE "resolve"
      /\ UNCHANGED <<topK, resp, cell, cands, batch>>
  BY DEF ResolveWindow
<1>4. /\ RepliesOK /\ CandsOK /\ topK \in TopKs
      /\ cursor \in 0..Len(cands) /\ asked \in Seq(Items \cup {NoId}) /\ Len(asked) = cursor
      /\ \A n \in 1..cursor : asked[n] \in {NoId, ItemAt(cands[n].at)}
      /\ out \in Seq(Matches) /\ (topK <= 0 \/ Len(out) < topK)
      /\ batch \in 0..Len(cands) /\ (batch = Len(cands) \/ (topK > 0 /\ batch = 2 * topK))
      /\ trips \in Nat /\ (trips = 0 => cursor = 0) /\ (trips = 1 => cursor = batch)
      /\ trips > 1 => \E n \in DOMAIN asked : asked[n] = NoId
  BY <1>3 DEF SInv, AskedOK, OutOK, PlaceOK, RankedOK, TripsOK
<1>5. PICK f : Picks(f, out, cands, asked, topK)
  BY DEF SInv, OutOK
<1>6. topK \in Int
  BY <1>4, WidthAssumption
<1>7. PICK L \in Nat : L = Len(cands) /\ DOMAIN cands = 1..L
  BY <1>4, CandsAre
<1>8. cursor \in Nat /\ cursor + w <= L /\ batch \in Nat
  BY <1>2, <1>4, <1>7 DEF Follows
<1>9. /\ asked' \in Seq(Items \cup {NoId}) /\ Len(asked') = cursor + w
      /\ DOMAIN asked' = 1..(cursor + w) /\ DOMAIN asked = 1..cursor
      /\ \A n \in 1..cursor : asked'[n] = asked[n]
      /\ \A j \in 1..w : asked'[cursor + j] = ids[j]
  <2>1. ids \in Seq(Items \cup {NoId}) /\ Len(ids) = w
    OBVIOUS
  <2>2. DOMAIN asked = 1..cursor
    BY <1>4
  <2>3. asked' = asked \o ids
    BY <1>2
  <2>4. asked \in Seq(Items \cup {NoId}) /\ Len(asked) = cursor
    BY <1>4
  <2>5. asked' \in Seq(Items \cup {NoId}) /\ IsJoin(asked', asked, ids)
    BY <2>1, <2>3, <2>4, Joined
  <2>. QED
    BY <2>1, <2>2, <2>4, <2>5 DEF IsJoin
<1>10. AskedOK'
  <2>1. ASSUME NEW n \in 1..(cursor + w)
        PROVE  asked'[n] \in {NoId, ItemAt(cands[n].at)}
    <3>1. CASE n \in 1..cursor
      BY <1>4, <1>9, <3>1
    <3>2. CASE n - cursor \in 1..w
      <4>1. n = cursor + (n - cursor)
        BY <1>8
      <4>2. PICK j \in 1..w : n = cursor + j
        BY <3>2, <4>1
      <4>3. Window[j] = cands[n]
        BY <1>2, <4>2 DEF Follows
      <4>. QED
        BY <1>2, <1>9, <4>2, <4>3
    <3>3. n \in 1..cursor \/ n - cursor \in 1..w
      BY <1>8
    <3>. QED
      BY <3>1, <3>2, <3>3
  <2>2. \A p : ItemAt(p)' = ItemAt(p)
    BY <1>3 DEF ItemAt
  <2>3. cursor' \in 0..Len(cands')
    BY <1>2, <1>3, <1>7, <1>8
  <2>. QED
    BY <1>2, <1>3, <1>9, <2>1, <2>2, <2>3 DEF AskedOK
<1>11. /\ out' \in Seq(Matches)
       /\ topK > 0 => Len(out') <= topK
       /\ \E g \in [DOMAIN out' -> DOMAIN asked'] : Picks(g, out', cands, asked', topK)
  BY <1>2, <1>4, <1>5, <1>6, FreshIsFirst
<1>12. OutOK'
  <2>1. Len(out') \in Nat
    BY <1>11
  <2>2. \E g \in [DOMAIN out' -> DOMAIN asked'] : Picks(g, out', cands', asked', topK')
    BY <1>3, <1>11
  <2>3. pc' = "resolve" => topK <= 0 \/ Len(out') < topK
    BY <1>3, <1>6, <2>1
  <2>4. pc' = "done" => topK > 0 /\ Len(out') = topK
    BY <1>3, <1>6, <1>11, <2>1
  <2>. QED
    BY <1>3, <1>11, <2>2, <2>3, <2>4 DEF OutOK
<1>13. TripsOK'
  <2>1. CASE trips = 0
    <3>1. cursor = 0 /\ cursor' = batch
      BY <1>2, <1>4, <1>7, <1>8, <2>1
    <3>. QED
      BY <1>3, <2>1, <3>1 DEF TripsOK
  <2>2. CASE trips = 1
    <3>1. cursor = 2 * topK /\ topK > 0 /\ Len(out) < topK
      BY <1>3, <1>4, <1>6, <1>7, <2>2
    <3>2. Len(out) \in Nat
      BY <1>4
    <3>3. ~(cursor <= 2 * Len(out))
      BY <1>6, <3>1, <3>2
    <3>4. PICK n \in DOMAIN asked : asked[n] = NoId
      BY <1>3, <3>3, TwoTiersFit
    <3>5. n \in DOMAIN asked' /\ asked'[n] = NoId
      BY <1>8, <1>9, <3>4
    <3>. QED
      BY <1>3, <2>2, <3>5 DEF TripsOK
  <2>3. CASE trips > 1
    <3>1. PICK n \in DOMAIN asked : asked[n] = NoId
      BY <1>4, <2>3
    <3>2. n \in DOMAIN asked' /\ asked'[n] = NoId
      BY <1>8, <1>9, <3>1
    <3>. QED
      BY <1>3, <1>4, <2>3, <3>2 DEF TripsOK
  <2>. QED
    BY <1>4, <2>1, <2>2, <2>3
<1>. QED
  BY <1>10, <1>12, <1>13

-----------------------------------------------------------------------------
(* The other steps.                                                        *)

(* Before the first window nothing was resolved.                           *)
LEMMA EarlyKeeps ==
  ASSUME SInv, pc \in {"search", "decrypt"}, pc' \in {"decrypt", "resolve"},
         Len(cands') \in Nat, UNCHANGED <<topK, cursor, out, asked, trips>>
  PROVE  AskedOK' /\ OutOK' /\ TripsOK'
<1>1. /\ cursor = 0 /\ trips = 0 /\ topK \in TopKs
      /\ asked \in Seq(Items \cup {NoId}) /\ Len(asked) = cursor
      /\ out \in Seq(Matches) /\ (topK > 0 => Len(out) <= topK)
  BY DEF SInv, PlaceOK, AskedOK, OutOK
<1>2. asked = <<>> /\ DOMAIN asked = {}
  BY <1>1
<1>3. PICK f \in [DOMAIN out -> DOMAIN asked] : Picks(f, out, cands, asked, topK)
  BY DEF SInv, OutOK
<1>4. DOMAIN out = {} /\ out = <<>> /\ Len(out) = 0
  <2>1. DOMAIN out = {}
    BY <1>2, <1>3
  <2>. QED
    BY <1>1, <2>1
<1>5. AskedOK'
  BY <1>1, <1>2 DEF AskedOK
<1>6. OutOK'
  <2>1. Picks(f, out, cands', asked, topK)
    BY <1>2, <1>3, <1>4 DEF Picks
  <2>2. topK <= 0 \/ Len(out) < topK
    BY <1>1, <1>4, WidthAssumption
  <2>. QED
    BY <1>1, <1>3, <2>1, <2>2 DEF OutOK
<1>7. TripsOK'
  BY <1>1 DEF TripsOK
<1>. QED
  BY <1>5, <1>6, <1>7

(* The parts that one step leaves as they are.                             *)
LEMMA SameReply ==
  ASSUME SInv, UNCHANGED resp
  PROVE  /\ RepliesOK' /\ CellCount' = CellCount
         /\ \A k : Decrypted(k)' = Decrypted(k)
BY DEF SInv, RepliesOK, CellCount, Decrypted, CandAt, CellOf, ScoreAt, Live, Answered

(* A step of the server, or one that fails the call, keeps all the rest.   *)
LEMMA SameCall ==
  ASSUME SInv, UNCHANGED <<topK, resp, cell, cands, batch, cursor, out, asked, trips>>
  PROVE  /\ RepliesOK' /\ CandsOK' /\ AskedOK' /\ TripsOK'
         /\ pc' = pc => PlaceOK' /\ RankedOK' /\ OutOK'
         /\ pc' = "failed" => PlaceOK' /\ RankedOK' /\ OutOK'
<1>1. RepliesOK' /\ CellCount' = CellCount /\ \A k : Decrypted(k)' = Decrypted(k)
  BY SameReply
<1>2. CandsOK'
  BY <1>1 DEF SInv, CandsOK
<1>3. AskedOK' /\ TripsOK'
  BY DEF SInv, AskedOK, TripsOK, ItemAt
<1>4. pc' = pc => PlaceOK' /\ RankedOK' /\ OutOK'
  BY <1>1 DEF SInv, PlaceOK, RankedOK, OutOK
<1>5. pc' = "failed" => PlaceOK' /\ RankedOK' /\ OutOK'
  BY DEF SInv, PlaceOK, RankedOK, OutOK
<1>. QED
  BY <1>1, <1>2, <1>3, <1>4, <1>5

(* Every step keeps the invariant.                                         *)
LEMMA SInvIsInductive == SInv /\ [Next]_vars => SInv'
<1> SUFFICES ASSUME SInv, [Next]_vars PROVE SInv'
  OBVIOUS
<1>1. CASE SearchRPC
  <2>1. RepliesOK' /\ CandsOK'
    BY <1>1, SearchRPCKeeps
  <2>2. /\ pc = "search" /\ pc' = "decrypt"
        /\ UNCHANGED <<topK, cell, cands, batch, cursor, out, asked, trips, serverVars>>
    BY <1>1 DEF SearchRPC
  <2>3. Len(cands) \in Nat
    BY CandsAre DEF SInv
  <2>4. AskedOK' /\ OutOK' /\ TripsOK'
    BY <2>2, <2>3, EarlyKeeps
  <2>5. PlaceOK' /\ RankedOK' /\ ServerOK'
    BY <2>2 DEF SInv, PlaceOK, RankedOK, ServerOK, serverVars
  <2>. QED
    BY <2>1, <2>4, <2>5 DEF SInv
<1>2. CASE DecryptCell
  <2>1. /\ pc = "decrypt" /\ cell' = cell + 1
        /\ UNCHANGED <<pc, topK, resp, batch, cursor, out, asked, trips, serverVars>>
    BY <1>2 DEF DecryptCell
  <2>2. RepliesOK' /\ CandsOK'
    BY <1>2, <2>1, SameReply, DecryptCellKeeps
  <2>3. Len(cands') \in Nat
    BY <2>2 DEF CandsOK, Lists
  <2>4. AskedOK' /\ OutOK' /\ TripsOK'
    BY <2>1, <2>3, EarlyKeeps
  <2>5. PlaceOK' /\ RankedOK' /\ ServerOK'
    BY <2>1, <2>3 DEF SInv, PlaceOK, RankedOK, ServerOK, serverVars
  <2>. QED
    BY <2>2, <2>4, <2>5 DEF SInv
<1>3. CASE RankCandidates
  <2>1. /\ pc = "decrypt" /\ pc' = "resolve"
        /\ UNCHANGED <<topK, resp, cell, cursor, out, asked, trips, serverVars>>
    BY <1>3 DEF RankCandidates
  <2>2. RepliesOK' /\ CandsOK' /\ RankedOK'
    BY <1>3, <2>1, SameReply, RankCandidatesKeeps
  <2>3. Len(cands') \in Nat
    BY <2>2 DEF CandsOK, Lists
  <2>4. AskedOK' /\ OutOK' /\ TripsOK'
    BY <2>1, <2>3, EarlyKeeps
  <2>5. PlaceOK' /\ ServerOK'
    BY <2>1 DEF SInv, PlaceOK, ServerOK, serverVars
  <2>. QED
    BY <2>2, <2>4, <2>5 DEF SInv
<1>4. CASE ResolveWindow
  <2>1. /\ pc = "resolve" /\ pc' \in {"resolve", "done"}
        /\ UNCHANGED <<topK, resp, cell, cands, batch, serverVars>>
    BY <1>4 DEF ResolveWindow
  <2>2. RepliesOK' /\ CellCount' = CellCount /\ \A k : Decrypted(k)' = Decrypted(k)
    BY <2>1, SameReply
  <2>3. AskedOK' /\ OutOK' /\ TripsOK'
    BY <1>4, ResolveWindowKeeps
  <2>4. CandsOK' /\ RankedOK' /\ PlaceOK' /\ ServerOK'
    BY <2>1, <2>2 DEF SInv, CandsOK, RankedOK, PlaceOK, ServerOK, serverVars
  <2>. QED
    BY <2>2, <2>3, <2>4 DEF SInv
<1>5. CASE Exhausted
  <2>1. /\ pc = "resolve" /\ cursor >= Len(cands) /\ pc' = "done"
        /\ UNCHANGED <<topK, resp, cell, cands, batch, cursor, out, asked, trips, serverVars>>
    BY <1>5 DEF Exhausted
  <2>2. RepliesOK' /\ CandsOK' /\ AskedOK' /\ TripsOK' /\ CellCount' = CellCount
    BY <2>1, SameCall, SameReply
  <2>3. cursor = Len(cands)
    <3>1. Len(cands) \in Nat /\ cursor \in 0..Len(cands)
      BY CandsAre DEF SInv, AskedOK
    <3>. QED
      BY <2>1, <3>1
  <2>4. RankedOK' /\ PlaceOK' /\ OutOK' /\ ServerOK'
    BY <2>1, <2>2, <2>3 DEF SInv, RankedOK, PlaceOK, OutOK, ServerOK, serverVars
  <2>. QED
    BY <2>2, <2>4 DEF SInv
<1>6. CASE StepFails
  <2>1. /\ pc' = "failed"
        /\ UNCHANGED <<topK, resp, cell, cands, batch, cursor, out, asked, trips, serverVars>>
    BY <1>6 DEF StepFails, Fail
  <2>. QED
    BY <2>1, SameCall DEF SInv, ServerOK, serverVars
<1>7. ASSUME NEW t \in Tiers, NEW i \in DOMAIN Shape[t], RetireCell(t, i)
      PROVE  SInv'
  <2>1. ServerOK'
    BY <1>7, BoundsAssumption DEF SInv, ServerOK, RetireCell, Answered
  <2>. QED
    BY <1>7, <2>1, SameCall DEF SInv, RetireCell, callVars
<1>8. ASSUME NEW item \in Items, HideItem(item)
      PROVE  SInv'
  <2>1. ServerOK'
    BY <1>8, BoundsAssumption DEF SInv, ServerOK, HideItem, Answered
  <2>. QED
    BY <1>8, <2>1, SameCall DEF SInv, HideItem, callVars
<1>9. CASE UNCHANGED vars
  BY <1>9, SameCall DEF SInv, ServerOK, vars
<1>. QED
  BY <1>1, <1>2, <1>3, <1>4, <1>5, <1>6, <1>7, <1>8, <1>9 DEF Next, CallStep

(* The invariant holds in every reachable state.                           *)
LEMMA InvariantHolds == Spec => []SInv
BY InitKeeps, SInvIsInductive, PTL DEF Spec

-----------------------------------------------------------------------------
(* What the invariant gives.                                               *)

(* The argument, the candidates, the answers and the matches have their    *)
(* types, and no more cells are decrypted than there are.                  *)
THEOREM TypeCorrect == Spec => []TypeOK
<1>1. SInv => TypeOK
  <2> SUFFICES ASSUME SInv PROVE TypeOK
    OBVIOUS
  <2>1. RepliesOK /\ CandsOK
    BY DEF SInv
  <2>2. cell \in 0..(Len(FlatShape) + Len(ClusterShape))
    <3>1. /\ Len(resp["rmp"]) \in 0..Len(FlatShape)
          /\ Len(resp["mm"]) \in 0..Len(ClusterShape)
      BY <2>1, AnsweredIs, Shapes DEF Tiers
    <3>2. PICK a, b \in Nat : a = Len(FlatShape) /\ b = Len(ClusterShape)
      BY BoundsAssumption
    <3>3. PICK x, y \in Nat : /\ x = Len(resp["rmp"]) /\ y = Len(resp["mm"])
                              /\ x <= a /\ y <= b
      BY <3>1, <3>2
    <3>4. cell \in 0..(x + y)
      BY <2>1, <3>3 DEF CandsOK, CellCount
    <3>5. cell \in 0..(a + b)
      <4>1. x <= a /\ y <= b
        BY <3>3
      <4>. QED
        BY <3>4, <4>1
    <3>. QED
      BY <3>2, <3>5
  <2>3. cands \in Seq(Candidates)
    BY <2>1, CandsAre
  <2>. QED
    BY <2>2, <2>3 DEF SInv, PlaceOK, RankedOK, AskedOK, OutOK, TripsOK, ServerOK, TypeOK
<1>. QED
  BY <1>1, InvariantHolds, PTL

(* The i-th match is the candidate that f picks.                           *)
LEMMA MatchIs ==
  ASSUME SInv, NEW f \in [DOMAIN out -> DOMAIN asked], Picks(f, out, cands, asked, topK),
         NEW i \in DOMAIN out
  PROVE  /\ f[i] \in 1..cursor /\ f[i] \in DOMAIN cands /\ First(asked, f[i])
         /\ out[i] = Match(cands[f[i]], asked[f[i]])
         /\ out[i].id = asked[f[i]] /\ out[i].score = cands[f[i]].score
         /\ asked[f[i]] = ItemAt(cands[f[i]].at)
<1>1. /\ RepliesOK /\ CandsOK
      /\ cursor \in 0..Len(cands) /\ asked \in Seq(Items \cup {NoId}) /\ Len(asked) = cursor
      /\ \A n \in 1..cursor : asked[n] \in {NoId, ItemAt(cands[n].at)}
  BY DEF SInv, AskedOK
<1>2. Len(cands) \in Nat /\ DOMAIN cands = 1..Len(cands)
  BY <1>1, CandsAre
<1>3. f[i] \in 1..cursor /\ f[i] \in DOMAIN cands
  BY <1>1, <1>2
<1>4. First(asked, f[i]) /\ out[i] = Match(cands[f[i]], asked[f[i]])
  BY DEF Picks
<1>5. asked[f[i]] = ItemAt(cands[f[i]].at)
  BY <1>1, <1>3, <1>4 DEF First
<1>6. \A k, id : Match(k, id).id = id /\ Match(k, id).score = k.score
  BY DEF Match
<1>. QED
  BY <1>3, <1>4, <1>5, <1>6

(* A match carries the row, score and cluster of a position that holds its *)
(* item, whatever the server retires or hides and whichever answer is      *)
(* short.                                                                  *)
THEOREM Placing == Spec => []MatchesArePlaced
<1>1. SInv => MatchesArePlaced
  <2> SUFFICES ASSUME SInv, NEW i \in DOMAIN out
               PROVE  \E p \in Answered :
                        /\ ItemAt(p) = out[i].id
                        /\ p[3] = out[i].row
                        /\ resp[p[1]][p[2]].score[p[3] + 1] = out[i].score
                        /\ out[i].cluster = IF p[1] = "rmp" THEN FlatClusterID ELSE p[2]
    BY DEF MatchesArePlaced
  <2>1. PICK f \in [DOMAIN out -> DOMAIN asked] : Picks(f, out, cands, asked, topK)
    BY DEF SInv, OutOK
  <2>2. PICK n \in DOMAIN cands :
          /\ out[i] = Match(cands[n], asked[n]) /\ out[i].id = ItemAt(cands[n].at)
          /\ out[i].score = cands[n].score
    BY <2>1, MatchIs
  <2>3. cands[n].at \in Answered /\ cands[n].score = ScoreAt(cands[n].at)
    BY CandsAre DEF SInv
  <2>4. /\ out[i].row = cands[n].at[3]
        /\ out[i].cluster = IF cands[n].at[1] = "rmp" THEN FlatClusterID
                                                      ELSE Int32(cands[n].at[2])
    BY <2>2 DEF Match
  <2>5. cands[n].at[1] # "rmp" => Int32(cands[n].at[2]) = cands[n].at[2]
    <3>1. PICK t \in Tiers : cands[n].at \in Positions(t)
      BY <2>3 DEF Answered, AllPositions, Tiers
    <3>2. cands[n].at[1] = t /\ cands[n].at[2] \in DOMAIN Shape[t]
      BY <3>1 DEF Positions
    <3>3. ASSUME t = "mm" PROVE cands[n].at[2] \in 1..Len(ClusterShape)
      BY <3>2, <3>3, BoundsAssumption DEF Shape
    <3>4. ASSUME t = "mm" PROVE cands[n].at[2] <= MaxInt32
      BY <3>3, <3>4, BoundsAssumption, WidthAssumption, ClusterIdAssumption
    <3>. QED
      BY <3>2, <3>4 DEF Int32, Tiers
  <2>. QED
    BY <2>2, <2>3, <2>4, <2>5 DEF ScoreAt
<1>. QED
  BY <1>1, InvariantHolds, PTL

(* What is ranked is every row the server did not mark dead, once.         *)
THEOREM Ranking == Spec => []RankedRowsAreLive
<1>1. ASSUME SInv, pc = "resolve"
      PROVE  RankedRowsAreLive
  <2> DEFINE Marked(p) == \E b \in DOMAIN resp[p[1]][p[2]].dead :
                            p[3] - (b - 1) * ByteBits \in resp[p[1]][p[2]].dead[b]
  <2>1. /\ RepliesOK /\ CandsOK /\ cell = CellCount
        /\ Lists(cands, Decrypted(CellCount))
    BY <1>1 DEF SInv, CandsOK, RankedOK
  <2>2. ASSUME NEW p \in Answered
        PROVE  isDead(resp[p[1]][p[2]].dead, p[3]) <=> Marked(p)
    <3>1. PICK rows \in SUBSET Nat : IsFiniteSet(rows) /\ resp[p[1]][p[2]].dead = Pack(rows)
      BY <2>1, AnsweredIs
    <3>2. p[3] \in Nat
      BY <2>1, AnsweredIs
    <3>. QED
      BY <3>1, <3>2, BitmapMarks
  <2>3. Live = {p \in Answered : ~Marked(p)}
    BY <2>2 DEF Live
  <2> HIDE DEF Marked
  <2>4. ASSUME NEW p \in Answered
        PROVE  CellOf(p) <= CellCount
    <3>1. PICK x, y \in Nat : CellCount = x + y /\ CellOf(p) \in 1..(x + y)
      BY <2>1, CellNumbers
    <3>. QED
      BY <3>1
  <2>5. Decrypted(CellCount) = {CandAt(p) : p \in Live}
    BY <2>4 DEF Decrypted, Live
  <2>6. \A n \in DOMAIN cands : cands[n].at \in Live
    BY <2>1, CandsAre
  <2>7. ASSUME NEW p \in Live
        PROVE  \E n \in DOMAIN cands : cands[n].at = p
    <3>1. PICK n \in DOMAIN cands : cands[n] = CandAt(p)
      BY <2>1, <2>5 DEF Lists
    <3>. QED
      BY <3>1 DEF CandAt
  <2>8. {cands[n].at : n \in DOMAIN cands} = {p \in Answered : ~Marked(p)}
    BY <2>3, <2>6, <2>7
  <2>9. \A i, j \in DOMAIN cands : cands[i].at = cands[j].at => i = j
    BY <2>1, CandsAre
  <2>. QED
    BY <2>8, <2>9 DEF RankedRowsAreLive, Marked
<1>2. SInv => RankedRowsAreLive
  BY <1>1 DEF RankedRowsAreLive
<1>. QED
  BY <1>2, InvariantHolds, PTL

(* Windows of topK*2 candidates and a filter of what was seen give what    *)
(* one pass over the whole ranking gives.                                  *)
THEOREM OnePass == Spec => []AnswerIsRanking
<1>1. ASSUME SInv, pc = "done"
      PROVE  AnswerIsRanking
  <2>1. /\ RepliesOK /\ CandsOK /\ Descending(cands) /\ topK \in TopKs
        /\ cursor \in 0..Len(cands) /\ asked \in Seq(Items \cup {NoId}) /\ Len(asked) = cursor
        /\ out \in Seq(Matches) /\ (topK > 0 => Len(out) <= topK)
        /\ (topK > 0 /\ Len(out) = topK) \/ cursor = Len(cands)
    BY <1>1 DEF SInv, AskedOK, OutOK, RankedOK, PlaceOK
  <2>2. PICK f \in [DOMAIN out -> DOMAIN asked] : Picks(f, out, cands, asked, topK)
    BY <1>1 DEF SInv, OutOK
  <2>3. PICK L, c, o \in Nat :
          /\ L = Len(cands) /\ DOMAIN cands = 1..L
          /\ c = cursor /\ c <= L /\ DOMAIN asked = 1..c
          /\ o = Len(out) /\ DOMAIN out = 1..o
    <3>1. Len(cands) \in Nat /\ DOMAIN cands = 1..Len(cands)
      BY <2>1, CandsAre
    <3>2. cursor \in Nat /\ cursor <= Len(cands) /\ DOMAIN asked = 1..cursor
      <4>1. DOMAIN asked = 1..cursor
        BY <2>1
      <4>2. cursor \in 0..Len(cands)
        BY <2>1
      <4>. QED
        BY <3>1, <4>1, <4>2
    <3>3. Len(out) \in Nat /\ DOMAIN out = 1..Len(out)
      BY <2>1
    <3>. QED
      BY <3>1, <3>2, <3>3
  <2>4. topK \in Int
    BY <2>1, WidthAssumption
  <2>5. ASSUME NEW i \in 1..o
        PROVE  /\ f[i] \in 1..c /\ First(asked, f[i])
               /\ out[i].id = asked[f[i]] /\ out[i].score = cands[f[i]].score
    BY <1>1, <2>2, <2>3, MatchIs
  <2>6. \A n \in 1..L : cands[n].score \in Int
    BY <2>1, <2>3, CandsAre
  <2>7. ASSUME NEW m \in 1..c, NEW n \in 1..c, m <= n
        PROVE  cands[n].score <= cands[m].score
    <3>1. m \in 1..L /\ n \in 1..L
      BY <2>3
    <3>. QED
      BY <2>1, <2>3, <2>7, <3>1 DEF Descending
  <2>8. ASSUME NEW i \in 1..o, NEW j \in 1..o, i < j
        PROVE  out[i].id # out[j].id /\ out[i].score >= out[j].score
    <3>1. f[i] < f[j]
      BY <2>2, <2>3, <2>8 DEF Picks
    <3>2. f[i] \in 1..(f[j] - 1)
      BY <2>5, <3>1
    <3>3. asked[f[i]] # asked[f[j]]
      BY <2>5, <3>2 DEF First
    <3>4. cands[f[j]].score <= cands[f[i]].score
      BY <2>5, <2>7, <3>1
    <3>5. cands[f[i]].score \in Int /\ cands[f[j]].score \in Int
      BY <2>3, <2>5, <2>6
    <3>. QED
      BY <2>5, <3>3, <3>4, <3>5
  <2>9. ASSUME NEW i \in 1..o
        PROVE  out[i].score = Max({cands[n].score : n \in Seen(out[i].id)})
    <3> DEFINE T == {cands[n].score : n \in Seen(out[i].id)}
    <3>1. Seen(out[i].id) = {n \in 1..c : asked[n] = asked[f[i]]}
      BY <2>3, <2>5 DEF Seen
    <3>2. T \in SUBSET Int
      BY <2>3, <2>6, <3>1
    <3>3. cands[f[i]].score \in T
      BY <2>5, <3>1
    <3>4. ASSUME NEW n \in 1..c, asked[n] = asked[f[i]] PROVE f[i] <= n
      <4>1. ~(n \in 1..(f[i] - 1))
        BY <2>5, <3>4 DEF First
      <4>. QED
        BY <2>5, <4>1
    <3>5. \A x \in T : x <= cands[f[i]].score
      BY <2>5, <2>7, <3>1, <3>4
    <3> HIDE DEF T
    <3>6. Max(T) = cands[f[i]].score
      BY <3>2, <3>3, <3>5, GreatestIs
    <3>. QED
      BY <2>5, <3>6 DEF T
  <2>10. ASSUME topK <= 0 \/ Len(out) < topK
         PROVE  cursor = Len(cands) /\ {out[i].id : i \in DOMAIN out} = Found
    <3>1. ~Full(out, topK)
      BY <2>3, <2>4, <2>10 DEF Full
    <3>2. Placed(f, out, asked)
      BY <2>1, <2>2, <3>1, NamedIsFound
    <3>3. Found \subseteq {out[i].id : i \in DOMAIN out}
      BY <3>2 DEF Found, Placed
    <3>4. \A i \in DOMAIN out : out[i].id \in Found
      BY <2>3, <2>5 DEF Found, First
    <3>. QED
      BY <2>1, <2>3, <2>4, <2>10, <3>3, <3>4
  <2>11. ASSUME NEW id \in Found \ {out[i].id : i \in DOMAIN out}, NEW i \in DOMAIN out,
                NEW n \in Seen(id)
         PROVE  cands[n].score <= out[i].score
    <3>1. n \in 1..c /\ asked[n] = id /\ id # NoId
      BY <2>3 DEF Seen, Found
    <3>2. PICK m \in 1..c : First(asked, m) /\ asked[m] = id /\ m <= n
      BY <2>3, <3>1, FirstOne
    <3>3. ASSUME NEW k \in 1..o, f[k] = m PROVE FALSE
      <4>1. out[k].id = id
        BY <2>5, <3>2, <3>3
      <4>. QED
        BY <2>3, <4>1
    <3>4. f[i] < m
      BY <2>2, <2>3, <3>2, <3>3 DEF Picks
    <3>5. f[i] <= n
      BY <2>3, <2>5, <3>1, <3>2, <3>4
    <3>. QED
      BY <2>3, <2>5, <2>7, <3>1, <3>5
  <2>. QED
    BY <2>1, <2>3, <2>8, <2>9, <2>10, <2>11 DEF AnswerIsRanking
<1>2. SInv => AnswerIsRanking
  BY <1>1 DEF AnswerIsRanking
<1>. QED
  BY <1>2, InvariantHolds, PTL

(* A call whose candidates all resolve makes one round trip: two tiers     *)
(* hold an item twice at most, so the first topK*2 candidates name topK.   *)
THEOREM RoundTrips == Spec => []OneRoundTrip
<1>1. SInv => OneRoundTrip
  BY DEF SInv, TripsOK, OneRoundTrip
<1>. QED
  BY <1>1, InvariantHolds, PTL
=============================================================================
