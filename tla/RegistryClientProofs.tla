------------------------ MODULE RegistryClientProofs ------------------------
(***************************************************************************)
(* Proofs about the registry clients of RegistryClient and the choice of   *)
(* the latest version in VersionSelection, for any names, versions, files, *)
(* page sizes, registry URLs and faults.                                   *)
(***************************************************************************)
EXTENDS RegistryClient, FiniteSetTheorems, SequenceTheorems, WellFoundedInduction, TLAPS

-----------------------------------------------------------------------------
(* The assumptions on the constants that the proofs use.                   *)
LEMMA Constants ==
    /\ Lexical \in Seq(Names) /\ ToSet(Lexical) = Names
    /\ NoVersion \notin Names
    /\ Files \in Seq(DOMAIN File \ {""}) /\ ReportFile \in ToSet(Files)
    /\ \A c \in Configs : c.kind \in {"ghr", "s3", "gs", "oci"}
BY ConstantsAssumption, Zenon DEF ConstantsAssumption

LEMMA Sizes == PageSize \in Nat /\ PageSize # 0 /\ MaxPages \in Nat /\ MaxPages # 0
<1>1. PageSize \in Nat \ {0} /\ MaxPages \in Nat \ {0}
  BY ConstantsAssumption, Zenon DEF ConstantsAssumption
<1> QED
  BY <1>1

-----------------------------------------------------------------------------
(* Loops.  The library's induction theorems are about operators; here the  *)
(* same is stated with sets.                                               *)

(* A non-empty set of naturals has a least member.                         *)
LEMMA LeastNatural ==
    ASSUME NEW S \in SUBSET Nat, S # {}
    PROVE  \E x \in S : \A y \in S : x <= y
<1> DEFINE R == OpToRel(<, Nat)
<1>1. \A x, y \in Nat : y < x => <<y, x>> \in R
  BY DEF OpToRel
<1>2. IsWellFoundedOn(R, Nat)
  BY NatLessThanWellFounded
<1> HIDE DEF R
<1>3. PICK x \in S : \A y \in S : ~(<<y, x>> \in R)
  BY <1>2, WFMin
<1>4. ASSUME NEW y \in S PROVE x <= y
  <2>1. x \in Nat /\ y \in Nat
    OBVIOUS
  <2>2. ~(y < x)
    BY <1>1, <1>3, <2>1
  <2> QED
    BY <2>1, <2>2
<1> QED
  BY <1>4

(* What holds before a loop, and after a round if before it, holds all     *)
(* along.                                                                  *)
LEMMA LoopInvariant ==
    ASSUME NEW n \in Nat, NEW G, 0 \in G, \A i \in 1..n : i - 1 \in G => i \in G
    PROVE  \A i \in 0..n : i \in G
<1> DEFINE bad == {i \in 0..n : i \notin G}
<1> SUFFICES ASSUME bad # {} PROVE FALSE
  OBVIOUS
<1>1. bad \in SUBSET Nat
  OBVIOUS
<1>2. PICK i \in bad : \A j \in bad : i <= j
  <2> HIDE DEF bad
  <2> QED
    BY <1>1, LeastNatural
<1>3. i \in 1..n /\ i - 1 \in 0..n /\ ~(i <= i - 1)
  OBVIOUS
<1>4. i - 1 \in G
  BY <1>2, <1>3
<1> QED
  BY <1>3, <1>4

(* A loop of n rounds, F[i] being what round i does to its variable, has a *)
(* history.                                                                *)
Rounds(n, X) == [1..n -> [X -> X]]

History(h, n, X, z, F) ==
    h \in [0..n -> X] /\ h[0] = z /\ \A i \in 1..n : h[i] = F[i][h[i - 1]]

LEMMA LoopHistory ==
    ASSUME NEW n \in Nat, NEW X, NEW z \in X, NEW F \in Rounds(n, X)
    PROVE  \E h : History(h, n, X, z, F)
<1> USE DEF Rounds, History
<1> DEFINE G == {k \in 0..n : \E h \in [0..k -> X] :
                    h[0] = z /\ \A i \in 1..k : h[i] = F[i][h[i - 1]]}
<1>1. 0 \in G
  <2> DEFINE h == [i \in 0..0 |-> z]
  <2>1. h \in [0..0 -> X] /\ h[0] = z /\ \A i \in 1..0 : h[i] = F[i][h[i - 1]]
    OBVIOUS
  <2> HIDE DEF h
  <2> QED
    BY <2>1
<1>2. ASSUME NEW k \in 1..n, k - 1 \in G PROVE k \in G
  <2>1. PICK g \in [0..(k - 1) -> X] :
           g[0] = z /\ \A i \in 1..(k - 1) : g[i] = F[i][g[i - 1]]
    BY <1>2
  <2> DEFINE h == [i \in 0..k |-> IF i = k THEN F[k][g[k - 1]] ELSE g[i]]
  <2>2. k - 1 \in 0..(k - 1) /\ 0 \in 0..(k - 1)
    OBVIOUS
  <2>3. F[k][g[k - 1]] \in X
    BY <2>2
  <2>4. h \in [0..k -> X] /\ h[k] = F[k][g[k - 1]] /\ \A i \in 0..(k - 1) : h[i] = g[i]
    BY <2>3
  <2> HIDE DEF h
  <2>5. \A i \in 1..k : h[i] = F[i][h[i - 1]]
    <3> TAKE i \in 1..k
    <3>1. CASE i = k
      BY <2>2, <2>4, <3>1
    <3>2. CASE i # k
      <4>1. i \in 1..(k - 1) /\ i \in 0..(k - 1) /\ i - 1 \in 0..(k - 1)
        BY <3>2
      <4> QED
        BY <2>1, <2>4, <4>1
    <3> QED
      BY <3>1, <3>2
  <2>6. h[0] = z
    BY <2>1, <2>2, <2>4
  <2>7. h \in [0..k -> X]
    BY <2>4, Zenon
  <2>8. \E e \in [0..k -> X] : e[0] = z /\ \A i \in 1..k : e[i] = F[i][e[i - 1]]
    BY <2>5, <2>6, <2>7, Zenon
  <2>9. k \in 0..n
    OBVIOUS
  <2> QED
    BY <2>8, <2>9, Zenon
<1> HIDE DEF G
<1>3. \A i \in 1..n : i - 1 \in G => i \in G
  BY <1>2
<1>4. \A i \in 0..n : i \in G
  BY <1>1, <1>3, LoopInvariant
<1>5. n \in G
  BY <1>4
<1> QED
  BY <1>5 DEF G
-----------------------------------------------------------------------------
(* Lists *)

(* The members of lists.                                                   *)
LEMMA Members ==
    ASSUME NEW T, NEW s \in Seq(T)
    PROVE  \A x : x \in ToSet(s) <=> \E i \in 1..Len(s) : x = s[i]
BY DEF ToSet

LEMMA MembersEmpty == \A x : x \notin ToSet(<<>>)
BY DEF ToSet

LEMMA MembersAppend ==
    ASSUME NEW T, NEW s \in Seq(T), NEW e \in T
    PROVE  \A x : x \in ToSet(Append(s, e)) <=> x \in ToSet(s) \/ x = e
<1>1. /\ Append(s, e) \in Seq(T) /\ Len(s) \in Nat
      /\ Len(Append(s, e)) = Len(s) + 1
      /\ \A i \in 1..Len(s) : Append(s, e)[i] = s[i]
      /\ Append(s, e)[Len(s) + 1] = e
  OBVIOUS
<1> DEFINE r == Append(s, e)
<1> HIDE DEF r
<1>2. \A x : (\E i \in 1..(Len(s) + 1) : x = r[i])
                 <=> (x = r[Len(s) + 1] \/ \E i \in 1..Len(s) : x = r[i])
  BY <1>1
<1>3. \A x : x \in ToSet(r) <=> \E i \in 1..(Len(s) + 1) : x = r[i]
  <2>1. r \in Seq(T) /\ Len(r) = Len(s) + 1
    BY <1>1 DEF r
  <2> QED
    BY <2>1, Members
<1>4. \A x : x \in ToSet(s) <=> \E i \in 1..Len(s) : x = s[i]
  BY Members
<1> QED
  BY <1>1, <1>2, <1>3, <1>4 DEF r

LEMMA MembersConcat ==
    ASSUME NEW T, NEW s \in Seq(T), NEW t \in Seq(T)
    PROVE  \A x : x \in ToSet(s \o t) <=> x \in ToSet(s) \/ x \in ToSet(t)
<1>1. /\ s \o t \in Seq(T) /\ Len(s) \in Nat /\ Len(t) \in Nat
      /\ Len(s \o t) = Len(s) + Len(t)
      /\ \A i \in 1..Len(s) : (s \o t)[i] = s[i]
      /\ \A i \in 1..Len(t) : (s \o t)[Len(s) + i] = t[i]
  OBVIOUS
<1> DEFINE r == s \o t
<1> HIDE DEF r
<1>2. ASSUME NEW x, \E i \in 1..(Len(s) + Len(t)) : x = r[i]
      PROVE  (\E i \in 1..Len(s) : x = s[i]) \/ \E i \in 1..Len(t) : x = t[i]
  <2>1. PICK i \in 1..(Len(s) + Len(t)) : x = r[i]
    BY <1>2
  <2>2. CASE i \in 1..Len(s)
    BY <1>1, <2>1, <2>2 DEF r
  <2>3. CASE i \notin 1..Len(s)
    <3>1. i - Len(s) \in 1..Len(t) /\ Len(s) + (i - Len(s)) = i
      BY <1>1, <2>3
    <3>2. r[i] = t[i - Len(s)]
      BY <1>1, <3>1 DEF r
    <3> QED
      BY <2>1, <3>1, <3>2
  <2> QED
    BY <2>2, <2>3
<1>3. ASSUME NEW x, (\E i \in 1..Len(s) : x = s[i]) \/ \E i \in 1..Len(t) : x = t[i]
      PROVE  \E i \in 1..(Len(s) + Len(t)) : x = r[i]
  <2>1. ASSUME NEW i \in 1..Len(s), x = s[i] PROVE \E j \in 1..(Len(s) + Len(t)) : x = r[j]
    <3>1. i \in 1..(Len(s) + Len(t)) /\ r[i] = s[i]
      BY <1>1 DEF r
    <3> QED
      BY <2>1, <3>1
  <2>2. ASSUME NEW i \in 1..Len(t), x = t[i] PROVE \E j \in 1..(Len(s) + Len(t)) : x = r[j]
    <3>1. Len(s) + i \in 1..(Len(s) + Len(t)) /\ r[Len(s) + i] = t[i]
      BY <1>1 DEF r
    <3> QED
      BY <2>2, <3>1
  <2> QED
    BY <1>3, <2>1, <2>2
<1>4. \A x : x \in ToSet(r) <=> \E i \in 1..(Len(s) + Len(t)) : x = r[i]
  <2>1. r \in Seq(T) /\ Len(r) = Len(s) + Len(t)
    BY <1>1 DEF r
  <2> QED
    BY <2>1, Members
<1>5. \A x : x \in ToSet(s) <=> \E i \in 1..Len(s) : x = s[i]
  BY Members
<1>6. \A x : x \in ToSet(t) <=> \E i \in 1..Len(t) : x = t[i]
  BY Members
<1> QED
  BY <1>2, <1>3, <1>4, <1>5, <1>6 DEF r

(* Only (the filters of the clients' loops): it keeps the members of S.    *)
LEMMA OnlyKeeps ==
    ASSUME NEW T, NEW list \in Seq(T), NEW S
    PROVE  /\ Only(list, S) \in Seq(T)
           /\ \A x : x \in ToSet(Only(list, S)) <=> x \in ToSet(list) /\ x \in S
<1> DEFINE n == Len(list)
           Round(i, k) == IF list[i] \in S THEN Append(k, list[i]) ELSE k
           F == [i \in 1..n |-> [k \in Seq(T) |-> Round(i, k)]]
           Is(g) == g = [i \in 0..n |-> IF i = 0 THEN <<>> ELSE Round(i, g[i - 1])]
<1>1. n \in Nat /\ \A i \in 1..n : list[i] \in T
  OBVIOUS
<1>2. F \in [1..n -> [Seq(T) -> Seq(T)]]
  BY <1>1
<1>3. <<>> \in Seq(T)
  OBVIOUS
<1> HIDE DEF n
<1>4. PICK h \in [0..n -> Seq(T)] : h[0] = <<>> /\ \A i \in 1..n : h[i] = F[i][h[i - 1]]
  <2> DEFINE X == Seq(T)
             z == <<>>
  <2>1. z \in X /\ F \in Rounds(n, X) /\ n \in Nat
    BY <1>1, <1>2, <1>3 DEF Rounds
  <2> HIDE DEF F, X, z
  <2>2. \E h : History(h, n, X, z, F)
    BY <2>1, LoopHistory
  <2> QED
    BY <2>2 DEF X, z, History
<1>5. \A i \in 1..n : h[i] = Round(i, h[i - 1])
  <2> TAKE i \in 1..n
  <2>1. h[i - 1] \in Seq(T)
    BY <1>1
  <2> QED
    BY <1>4, <2>1
<1>6. Is(h)
  <2>1. \A i \in 0..n : i # 0 => i \in 1..n
    BY <1>1
  <2> QED
    BY <1>4, <1>5, <2>1
<1> DEFINE kept == CHOOSE g : Is(g)
<1>7. Is(kept)
  BY <1>6
<1>8. Only(list, S) = kept[n]
  BY DEF Only, n
<1> HIDE DEF kept, F, Round
<1>9. /\ kept[0] = <<>>
      /\ \A i \in 1..n : kept[i] = Round(i, kept[i - 1])
  BY <1>1, <1>7
<1> HIDE DEF Is
<1> DEFINE G == {i \in 0..n : /\ kept[i] \in Seq(T)
                              /\ \A x : x \in ToSet(kept[i])
                                    <=> x \in S /\ \E j \in 1..i : x = list[j]}
<1>10. 0 \in G
  <2>1. \A x : ~ \E j \in 1..0 : x = list[j]
    OBVIOUS
  <2> QED
    <3>1. kept[0] \in Seq(T) /\ \A x : x \notin ToSet(kept[0])
      BY <1>3, <1>9, MembersEmpty
    <3>2. 0 \in 0..n
      BY <1>1
    <3> QED
      BY <2>1, <3>1, <3>2
<1>11. ASSUME NEW i \in 1..n, i - 1 \in G PROVE i \in G
  <2>1. kept[i - 1] \in Seq(T) /\ list[i] \in T
    BY <1>1, <1>11
  <2>2. \A x : (\E j \in 1..i : x = list[j]) <=> (x = list[i] \/ \E j \in 1..(i - 1) : x = list[j])
    BY <1>1
  <2>3. CASE list[i] \in S
    <3>1. kept[i] = Append(kept[i - 1], list[i])
      BY <1>9, <2>3 DEF Round
    <3>2. kept[i] \in Seq(T)
      BY <2>1, <3>1
    <3>3. \A x : x \in ToSet(kept[i]) <=> x \in ToSet(kept[i - 1]) \/ x = list[i]
      BY <2>1, <3>1, MembersAppend
    <3> QED
      BY <1>11, <2>2, <2>3, <3>2, <3>3
  <2>4. CASE list[i] \notin S
    <3>1. kept[i] = kept[i - 1]
      BY <1>9, <2>4 DEF Round
    <3> QED
      BY <1>11, <2>2, <2>4, <3>1
  <2> QED
    BY <2>3, <2>4
<1>12. n \in G
  <2> HIDE DEF G
  <2>1. \A i \in 1..n : i - 1 \in G => i \in G
    BY <1>11
  <2>2. \A i \in 0..n : i \in G
    BY <1>1, <1>10, <2>1, LoopInvariant
  <2> QED
    BY <1>1, <2>2
<1>13. \A x : x \in ToSet(list) <=> \E j \in 1..n : x = list[j]
  BY Members DEF n
<1> QED
  BY <1>8, <1>12, <1>13

-----------------------------------------------------------------------------
(***************************************************************************)
(* Precedence.  A version is read as two infinite sequences of pairs: its  *)
(* numbers, and its prerelease after a mark for stable versions.  Both     *)
(* Lower and Compare turn out to be their lexicographic order.             *)
(***************************************************************************)
Pairs == Int \X Int

PairBelow(x, y) == x[1] < y[1] \/ (x[1] = y[1] /\ x[2] < y[2])

Keys == [Nat -> Pairs]

KeyBelow(f, g) ==
    \E i \in Nat : PairBelow(f[i], g[i]) /\ \A j \in 0..(i - 1) : f[j] = g[j]

NumberKey(s) == [i \in Nat |-> <<0, NumberAt(s, i)>>]

PreKey(s) ==
    [i \in Nat |-> IF i = 0 THEN <<IF s = <<>> THEN 1 ELSE 0, 0>>
                   ELSE <<KindAt(s, i), NumberAt(s, i)>>]

Below(v, w) ==
    \/ KeyBelow(NumberKey(v.parts), NumberKey(w.parts))
    \/ /\ NumberKey(v.parts) = NumberKey(w.parts)
       /\ KeyBelow(PreKey(v.pre), PreKey(w.pre))

Parts == Seq([value : Nat, digits : Nat])

PreReleases == Seq([numeric : BOOLEAN, signed : BOOLEAN, value : Int, digits : Nat])

IsVersion(v) == v.parts \in Parts /\ v.pre \in PreReleases

(* Pairs are totally ordered.                                              *)
LEMMA PairOrder ==
    /\ \A x \in Pairs : ~PairBelow(x, x)
    /\ \A x, y \in Pairs : PairBelow(x, y) \/ PairBelow(y, x) \/ x = y
    /\ \A x, y, z \in Pairs : PairBelow(x, y) /\ PairBelow(y, z) => PairBelow(x, z)
<1>1. \A x \in Pairs : x[1] \in Int /\ x[2] \in Int /\ x = <<x[1], x[2]>>
  BY DEF Pairs
<1>2. \A x \in Pairs : ~PairBelow(x, x)
  BY <1>1 DEF PairBelow
<1>3. ASSUME NEW x \in Pairs, NEW y \in Pairs
      PROVE  PairBelow(x, y) \/ PairBelow(y, x) \/ x = y
  BY <1>1 DEF PairBelow
<1>4. \A x, y, z \in Pairs : PairBelow(x, y) /\ PairBelow(y, z) => PairBelow(x, z)
  BY <1>1 DEF PairBelow
<1> QED
  BY <1>2, <1>3, <1>4

(* Keys are totally ordered: of two that differ, the first difference      *)
(* decides.                                                                *)
LEMMA KeyOrder ==
    /\ \A f \in Keys : ~KeyBelow(f, f)
    /\ \A f, g \in Keys : KeyBelow(f, g) \/ KeyBelow(g, f) \/ f = g
    /\ \A f, g, h \in Keys : KeyBelow(f, g) /\ KeyBelow(g, h) => KeyBelow(f, h)
<1>1. \A f \in Keys : ~KeyBelow(f, f)
  BY PairOrder DEF Keys, KeyBelow
<1>2. ASSUME NEW f \in Keys, NEW g \in Keys, f # g PROVE KeyBelow(f, g) \/ KeyBelow(g, f)
  <2> DEFINE D == {i \in Nat : f[i] # g[i]}
  <2>1. D \in SUBSET Nat /\ D # {}
    BY <1>2 DEF Keys
  <2>2. PICK i \in D : \A j \in D : i <= j
    <3> HIDE DEF D
    <3> QED
      BY <2>1, LeastNatural
  <2>3. \A j \in 0..(i - 1) : f[j] = g[j]
    BY <2>2
  <2>4. f[i] \in Pairs /\ g[i] \in Pairs /\ f[i] # g[i] /\ i \in Nat
    BY DEF Keys
  <2>5. PairBelow(f[i], g[i]) \/ PairBelow(g[i], f[i])
    BY <2>4, PairOrder
  <2> QED
    BY <2>3, <2>4, <2>5 DEF KeyBelow
<1>3. ASSUME NEW f \in Keys, NEW g \in Keys, NEW h \in Keys, KeyBelow(f, g), KeyBelow(g, h)
      PROVE  KeyBelow(f, h)
  <2>0. \A i \in Nat : f[i] \in Pairs /\ g[i] \in Pairs /\ h[i] \in Pairs
    BY DEF Keys
  <2>1. PICK i \in Nat : PairBelow(f[i], g[i]) /\ \A j \in 0..(i - 1) : f[j] = g[j]
    BY <1>3 DEF KeyBelow
  <2>2. PICK k \in Nat : PairBelow(g[k], h[k]) /\ \A j \in 0..(k - 1) : g[j] = h[j]
    BY <1>3 DEF KeyBelow
  <2>3. CASE i < k
    <3>1. PairBelow(f[i], h[i]) /\ \A j \in 0..(i - 1) : f[j] = h[j]
      BY <2>1, <2>2, <2>3
    <3> QED
      BY <3>1 DEF KeyBelow
  <2>4. CASE k < i
    <3>1. PairBelow(f[k], h[k]) /\ \A j \in 0..(k - 1) : f[j] = h[j]
      BY <2>1, <2>2, <2>4
    <3> QED
      BY <3>1 DEF KeyBelow
  <2>5. CASE i = k
    <3>1. PairBelow(f[i], h[i])
      BY <2>0, <2>1, <2>2, <2>5, PairOrder
    <3>2. \A j \in 0..(i - 1) : f[j] = h[j]
      BY <2>1, <2>2, <2>5
    <3> QED
      BY <3>1, <3>2 DEF KeyBelow
  <2> QED
    BY <2>3, <2>4, <2>5
<1> QED
  BY <1>1, <1>2, <1>3

(* The entries of a list, and nothing beyond it.                           *)
LEMMA ListAt ==
    ASSUME NEW T, NEW s \in Seq(T)
    PROVE  Len(s) \in Nat /\ DOMAIN s = 1..Len(s) /\ \A i \in 1..Len(s) : s[i] \in T
  OBVIOUS

(* The numbers of a version.                                              *)
LEMMA PartsAt ==
    ASSUME NEW s \in Parts
    PROVE  /\ Len(s) \in Nat /\ DOMAIN s = 1..Len(s) /\ 0 \notin DOMAIN s
           /\ \A i \in Nat : NumberAt(s, i) \in Int
<1>1. /\ Len(s) \in Nat /\ DOMAIN s = 1..Len(s)
      /\ \A i \in 1..Len(s) : s[i] \in [value : Nat, digits : Nat]
  BY ListAt, Zenon DEF Parts
<1>2. \A i \in 1..Len(s) : s[i].value \in Nat
  BY <1>1
<1>3. \A i \in Nat : NumberAt(s, i) \in Int
  BY <1>1, <1>2 DEF NumberAt
<1> QED
  BY <1>1, <1>3

(* The identifiers of a prerelease: beyond the last, the kind is 0.        *)
LEMMA PreReleaseAt ==
    ASSUME NEW s \in PreReleases
    PROVE  /\ Len(s) \in Nat /\ DOMAIN s = 1..Len(s) /\ 0 \notin DOMAIN s
           /\ \A i \in 1..Len(s) : s[i].value \in Int /\ s[i].numeric \in BOOLEAN
           /\ \A i \in Nat : NumberAt(s, i) \in Int /\ KindAt(s, i) \in 0..2
<1>1. /\ Len(s) \in Nat /\ DOMAIN s = 1..Len(s)
      /\ \A i \in 1..Len(s) : s[i] \in [numeric : BOOLEAN, signed : BOOLEAN, value : Int, digits : Nat]
  BY ListAt, Zenon DEF PreReleases
<1>2. \A i \in 1..Len(s) : s[i].value \in Int /\ s[i].numeric \in BOOLEAN
  BY <1>1
<1>3. \A i \in Nat : NumberAt(s, i) \in Int
  BY <1>1, <1>2 DEF NumberAt
<1>4. \A i \in Nat : KindAt(s, i) \in 0..2
  BY <1>1 DEF KindAt
<1> QED
  BY <1>1, <1>2, <1>3, <1>4

(* Both readings of a version are keys.                                    *)
LEMMA NumberKeyType == ASSUME NEW s \in Parts PROVE NumberKey(s) \in Keys
  BY PartsAt DEF NumberKey, Keys, Pairs

(* So is that of a prerelease, its mark included.                          *)
LEMMA PreKeyType == ASSUME NEW s \in PreReleases PROVE PreKey(s) \in Keys
<1>1. \A i \in Nat : NumberAt(s, i) \in Int /\ KindAt(s, i) \in Int
  BY PreReleaseAt
<1> QED
  BY <1>1 DEF PreKey, Keys, Pairs

(* So are versions, but for builds of the same version.                    *)
LEMMA BelowOrder ==
    ASSUME NEW v, NEW w, NEW x, IsVersion(v), IsVersion(w), IsVersion(x)
    PROVE  /\ ~Below(v, v)
           /\ Below(v, w) /\ Below(w, x) => Below(v, x)
           /\ Below(v, x) => Below(v, w) \/ Below(w, x)
<1> DEFINE N(u) == NumberKey(u.parts)
           P(u) == PreKey(u.pre)
<1>1. /\ N(v) \in Keys /\ N(w) \in Keys /\ N(x) \in Keys
      /\ P(v) \in Keys /\ P(w) \in Keys /\ P(x) \in Keys
  BY NumberKeyType, PreKeyType DEF IsVersion
<1>2. \A a, b : Below(a, b) <=> KeyBelow(N(a), N(b)) \/ (N(a) = N(b) /\ KeyBelow(P(a), P(b)))
  BY DEF Below
<1> HIDE DEF N, P
<1>3. ~Below(v, v)
  BY <1>1, <1>2, KeyOrder
<1>4. Below(v, w) /\ Below(w, x) => Below(v, x)
  BY <1>1, <1>2, KeyOrder
<1>5. Below(v, x) => Below(v, w) \/ Below(w, x)
  BY <1>1, <1>2, KeyOrder
<1> QED
  BY <1>3, <1>4, <1>5

(* LowerNumbers is the order of the number keys.                           *)
LEMMA NumbersAreKeys ==
    ASSUME NEW a \in Parts, NEW b \in Parts
    PROVE  LowerNumbers(a, b) <=> KeyBelow(NumberKey(a), NumberKey(b))
<1>1. /\ DOMAIN a \subseteq Nat \ {0} /\ DOMAIN b \subseteq Nat \ {0}
      /\ \A i \in Nat : NumberAt(a, i) \in Int /\ NumberAt(b, i) \in Int
      /\ NumberAt(a, 0) = NumberAt(b, 0)
  BY PartsAt DEF NumberAt
<1>2. \A i \in Nat : /\ PairBelow(NumberKey(a)[i], NumberKey(b)[i]) <=> NumberAt(a, i) < NumberAt(b, i)
                     /\ NumberKey(a)[i] = NumberKey(b)[i] <=> NumberAt(a, i) = NumberAt(b, i)
  BY <1>1 DEF NumberKey, PairBelow
<1>3. \A i \in Nat : NumberAt(a, i) < NumberAt(b, i) => i \in DOMAIN a \cup DOMAIN b /\ i # 0
  BY <1>1 DEF NumberAt
<1>4. ASSUME LowerNumbers(a, b) PROVE KeyBelow(NumberKey(a), NumberKey(b))
  <2>1. PICK i \in DOMAIN a \cup DOMAIN b :
           /\ NumberAt(a, i) < NumberAt(b, i)
           /\ \A j \in 1..(i - 1) : NumberAt(a, j) = NumberAt(b, j)
    BY <1>4 DEF LowerNumbers
  <2>2. i \in Nat /\ \A j \in 0..(i - 1) : j \in Nat /\ (j = 0 \/ j \in 1..(i - 1))
    BY <1>1
  <2>3. \A j \in 0..(i - 1) : NumberAt(a, j) = NumberAt(b, j)
    BY <1>1, <2>1, <2>2
  <2> QED
    BY <1>2, <2>1, <2>2, <2>3 DEF KeyBelow
<1>5. ASSUME KeyBelow(NumberKey(a), NumberKey(b)) PROVE LowerNumbers(a, b)
  <2>1. PICK i \in Nat : /\ PairBelow(NumberKey(a)[i], NumberKey(b)[i])
                         /\ \A j \in 0..(i - 1) : NumberKey(a)[j] = NumberKey(b)[j]
    BY <1>5 DEF KeyBelow
  <2>2. i \in DOMAIN a \cup DOMAIN b /\ NumberAt(a, i) < NumberAt(b, i)
    BY <1>2, <1>3, <2>1
  <2>3. \A j \in 1..(i - 1) : j \in Nat /\ j \in 0..(i - 1)
    OBVIOUS
  <2>4. \A j \in 1..(i - 1) : NumberAt(a, j) = NumberAt(b, j)
    BY <1>2, <2>1, <2>3
  <2> QED
    BY <2>2, <2>4 DEF LowerNumbers
<1> QED
  BY <1>4, <1>5

(* What the keys of two prereleases are at a position.                     *)
LEMMA PreKeyAt ==
    ASSUME NEW a \in PreReleases, NEW b \in PreReleases
    PROVE  /\ DOMAIN a \subseteq Nat \ {0} /\ DOMAIN b \subseteq Nat \ {0}
           /\ \A i \in Nat \ {0} :
                 /\ PairBelow(PreKey(a)[i], PreKey(b)[i])
                       <=> \/ KindAt(a, i) < KindAt(b, i)
                           \/ KindAt(a, i) = KindAt(b, i) /\ NumberAt(a, i) < NumberAt(b, i)
                 /\ PreKey(a)[i] = PreKey(b)[i]
                       <=> KindAt(a, i) = KindAt(b, i) /\ NumberAt(a, i) = NumberAt(b, i)
                 /\ PreKey(a)[i] # PreKey(b)[i] => i \in DOMAIN a \cup DOMAIN b
           /\ PreKey(a)[0] = PreKey(b)[0] <=> (a = <<>> <=> b = <<>>)
           /\ PairBelow(PreKey(a)[0], PreKey(b)[0]) <=> a # <<>> /\ b = <<>>
<1>1. DOMAIN a \subseteq Nat \ {0} /\ DOMAIN b \subseteq Nat \ {0}
  <2>1. /\ Len(a) \in Nat /\ DOMAIN a = 1..Len(a)
        /\ Len(b) \in Nat /\ DOMAIN b = 1..Len(b)
    BY PreReleaseAt, Zenon
  <2> QED
    BY <2>1
<1>2. ASSUME NEW i \in Nat \ {0}
      PROVE  /\ PreKey(a)[i] = <<KindAt(a, i), NumberAt(a, i)>>
             /\ PreKey(b)[i] = <<KindAt(b, i), NumberAt(b, i)>>
  BY DEF PreKey
<1>3. ASSUME NEW i \in Nat \ {0}, i \notin DOMAIN a \cup DOMAIN b
      PROVE  PreKey(a)[i] = PreKey(b)[i]
  BY <1>2, <1>3 DEF KindAt, NumberAt
<1>4. /\ PreKey(a)[0] = <<IF a = <<>> THEN 1 ELSE 0, 0>>
      /\ PreKey(b)[0] = <<IF b = <<>> THEN 1 ELSE 0, 0>>
  BY DEF PreKey
<1>5. PreKey(a)[0] = PreKey(b)[0] <=> (a = <<>> <=> b = <<>>)
  BY <1>4
<1>6. PairBelow(PreKey(a)[0], PreKey(b)[0]) <=> a # <<>> /\ b = <<>>
  BY <1>4 DEF PairBelow
<1>7. ASSUME NEW i \in Nat \ {0}
      PROVE  /\ PairBelow(PreKey(a)[i], PreKey(b)[i])
                   <=> \/ KindAt(a, i) < KindAt(b, i)
                       \/ KindAt(a, i) = KindAt(b, i) /\ NumberAt(a, i) < NumberAt(b, i)
             /\ PreKey(a)[i] = PreKey(b)[i]
                   <=> KindAt(a, i) = KindAt(b, i) /\ NumberAt(a, i) = NumberAt(b, i)
  BY <1>2 DEF PairBelow
<1> QED
  BY <1>1, <1>3, <1>5, <1>6, <1>7

(* The prerelease part of Lower is the order of the prerelease keys.       *)
LEMMA PreReleasesAreKeys ==
    ASSUME NEW a \in PreReleases, NEW b \in PreReleases
    PROVE  a # <<>> /\ (b = <<>> \/ LowerPreRelease(a, b)) <=> KeyBelow(PreKey(a), PreKey(b))
<1> DEFINE f == PreKey(a)
           g == PreKey(b)
<1>0. f \in Keys /\ g \in Keys
  BY PreKeyType
<1>1. ASSUME a # <<>>, b = <<>> PROVE KeyBelow(f, g)
  <2>1. PairBelow(f[0], g[0]) /\ 0 \in Nat /\ \A j \in 0..(0 - 1) : f[j] = g[j]
    BY <1>1, PreKeyAt
  <2> QED
    BY <2>1 DEF KeyBelow
<1>2. ASSUME a # <<>>, b # <<>>, LowerPreRelease(a, b) PROVE KeyBelow(f, g)
  <2>1. PICK i \in DOMAIN a \cup DOMAIN b :
           /\ \/ KindAt(a, i) < KindAt(b, i)
              \/ KindAt(a, i) = KindAt(b, i) /\ NumberAt(a, i) < NumberAt(b, i)
           /\ \A j \in 1..(i - 1) : KindAt(a, j) = KindAt(b, j) /\ NumberAt(a, j) = NumberAt(b, j)
    BY <1>2 DEF LowerPreRelease
  <2>2. i \in Nat \ {0} /\ \A j \in 0..(i - 1) : j = 0 \/ (j \in Nat \ {0} /\ j \in 1..(i - 1))
    BY PreKeyAt
  <2>3. PairBelow(f[i], g[i])
    BY <2>1, <2>2, PreKeyAt
  <2>4. \A j \in 0..(i - 1) : f[j] = g[j]
    BY <1>2, <2>1, <2>2, PreKeyAt
  <2> QED
    BY <2>2, <2>3, <2>4 DEF KeyBelow
<1>3. ASSUME KeyBelow(f, g) PROVE a # <<>> /\ (b = <<>> \/ LowerPreRelease(a, b))
  <2>1. PICK i \in Nat : PairBelow(f[i], g[i]) /\ \A j \in 0..(i - 1) : f[j] = g[j]
    BY <1>3 DEF KeyBelow
  <2>2. CASE i = 0
    BY <2>1, <2>2, PreKeyAt
  <2>3. CASE i # 0
    <3>1. 0 \in 0..(i - 1) /\ i \in Nat \ {0}
      BY <2>3
    <3>2. a = <<>> <=> b = <<>>
      BY <2>1, <3>1, PreKeyAt
    <3>3. f[i] # g[i]
      BY <1>0, <2>1, PairOrder DEF Keys
    <3>4. i \in DOMAIN a \cup DOMAIN b
      BY <3>1, <3>3, PreKeyAt
    <3>5. a # <<>>
      BY <3>2, <3>4
    <3>6. \A j \in 1..(i - 1) : j \in Nat \ {0} /\ f[j] = g[j]
      BY <2>1
    <3>7. LowerPreRelease(a, b)
      BY <2>1, <3>1, <3>4, <3>6, PreKeyAt DEF LowerPreRelease
    <3> QED
      BY <3>5, <3>7
  <2> QED
    BY <2>2, <2>3
<1> QED
  BY <1>1, <1>2, <1>3

(* Lower is the order of the keys.                                         *)
LEMMA LowerIsBelow ==
    ASSUME NEW v, NEW w, IsVersion(v), IsVersion(w)
    PROVE  Lower(v, w) <=> Below(v, w)
<1>1. /\ NumberKey(v.parts) \in Keys /\ NumberKey(w.parts) \in Keys
      /\ v.parts \in Parts /\ w.parts \in Parts /\ v.pre \in PreReleases /\ w.pre \in PreReleases
  BY NumberKeyType DEF IsVersion
<1>2. /\ LowerNumbers(v.parts, w.parts) <=> KeyBelow(NumberKey(v.parts), NumberKey(w.parts))
      /\ LowerNumbers(w.parts, v.parts) <=> KeyBelow(NumberKey(w.parts), NumberKey(v.parts))
  BY <1>1, NumbersAreKeys
<1>3. v.pre # <<>> /\ (w.pre = <<>> \/ LowerPreRelease(v.pre, w.pre))
         <=> KeyBelow(PreKey(v.pre), PreKey(w.pre))
  BY <1>1, PreReleasesAreKeys
<1>4. \/ KeyBelow(NumberKey(v.parts), NumberKey(w.parts))
      \/ ~KeyBelow(NumberKey(w.parts), NumberKey(v.parts))
            <=> NumberKey(v.parts) = NumberKey(w.parts)
  BY <1>1, KeyOrder
<1> QED
  BY <1>2, <1>3, <1>4 DEF Lower, Below

(* The least member of a set of positions.                                 *)
LEMMA MinIsLeast ==
    ASSUME NEW S \in SUBSET Nat, S # {}
    PROVE  Min(S) \in S /\ \A i \in S : Min(S) <= i
<1>1. \E x \in S : \A y \in S : x <= y
  BY LeastNatural
<1> QED
  BY <1>1 DEF Min

(* Two keys whose first difference is known.                               *)
LEMMA FirstDifference ==
    ASSUME NEW f \in Keys, NEW g \in Keys, NEW i \in Nat, f[i] # g[i],
           \A j \in 0..(i - 1) : f[j] = g[j]
    PROVE  /\ KeyBelow(f, g) <=> PairBelow(f[i], g[i])
           /\ KeyBelow(g, f) <=> PairBelow(g[i], f[i])
           /\ f # g
<1>1. f[i] \in Pairs /\ g[i] \in Pairs
  BY DEF Keys
<1>2. PairBelow(f[i], g[i]) => KeyBelow(f, g)
  BY DEF KeyBelow
<1>3. PairBelow(g[i], f[i]) => KeyBelow(g, f)
  BY DEF KeyBelow
<1>4. ~(KeyBelow(f, g) /\ KeyBelow(g, f))
  BY KeyOrder
<1>5. PairBelow(f[i], g[i]) \/ PairBelow(g[i], f[i])
  BY <1>1, PairOrder
<1>6. ~(PairBelow(f[i], g[i]) /\ PairBelow(g[i], f[i]))
  BY <1>1, PairOrder
<1> QED
  BY <1>2, <1>3, <1>4, <1>5, <1>6

(* Compare of CalVer, and the numbers of SemVer: the sign is the order of  *)
(* the keys.                                                               *)
LEMMA SegmentsAreKeys ==
    ASSUME NEW a \in Parts, NEW b \in Parts
    PROVE  /\ CompareSegments(a, b) \in Int
           /\ CompareSegments(a, b) < 0 <=> KeyBelow(NumberKey(a), NumberKey(b))
           /\ CompareSegments(a, b) > 0 <=> KeyBelow(NumberKey(b), NumberKey(a))
           /\ CompareSegments(a, b) = 0 <=> NumberKey(a) = NumberKey(b)
<1> DEFINE f == NumberKey(a)
           g == NumberKey(b)
           D == {i \in DOMAIN a \cup DOMAIN b : NumberAt(a, i) # NumberAt(b, i)}
           m == Min(D)
<1>1. /\ DOMAIN a \subseteq Nat \ {0} /\ DOMAIN b \subseteq Nat \ {0}
      /\ \A i \in Nat : NumberAt(a, i) \in Int /\ NumberAt(b, i) \in Int
  BY PartsAt
<1>2. CompareSegments(a, b) = IF D = {} THEN 0 ELSE NumberAt(a, m) - NumberAt(b, m)
  BY DEF CompareSegments, NumberAt
<1>3. \A i \in Nat : f[i] = <<0, NumberAt(a, i)>> /\ g[i] = <<0, NumberAt(b, i)>>
  BY DEF NumberKey
<1>4. \A i \in Nat : i \notin D => f[i] = g[i]
  BY <1>3 DEF NumberAt
<1>5. f \in Keys /\ g \in Keys
  BY NumberKeyType
<1>6. D \in SUBSET Nat
  BY <1>1
<1>d. \A i \in D : NumberAt(a, i) # NumberAt(b, i)
  OBVIOUS
<1>7. CASE D = {}
  <2>1. f = g
    BY <1>4, <1>5, <1>7 DEF Keys
  <2> QED
    BY <1>2, <1>5, <1>7, <2>1, KeyOrder
<1>8. CASE D # {}
  <2>1. m \in D /\ \A i \in D : m <= i
    <3> HIDE DEF D
    <3> QED
      BY <1>6, <1>8, MinIsLeast
  <2> HIDE DEF D, m, f, g
  <2>2. m \in Nat /\ NumberAt(a, m) # NumberAt(b, m)
    BY <1>6, <1>d, <2>1
  <2>3. \A j \in 0..(m - 1) : j \in Nat /\ ~(m <= j)
    BY <2>2
  <2>4. \A j \in 0..(m - 1) : f[j] = g[j]
    BY <1>4, <2>1, <2>3
  <2>5. /\ f[m] # g[m]
        /\ PairBelow(f[m], g[m]) <=> NumberAt(a, m) < NumberAt(b, m)
        /\ PairBelow(g[m], f[m]) <=> NumberAt(b, m) < NumberAt(a, m)
    BY <1>1, <1>3, <2>2 DEF PairBelow
  <2>6. /\ KeyBelow(f, g) <=> NumberAt(a, m) < NumberAt(b, m)
        /\ KeyBelow(g, f) <=> NumberAt(b, m) < NumberAt(a, m)
        /\ f # g
    BY <1>5, <2>2, <2>4, <2>5, FirstDifference
  <2>7. NumberAt(a, m) \in Int /\ NumberAt(b, m) \in Int
    BY <1>1, <2>2
  <2>8. CompareSegments(a, b) = NumberAt(a, m) - NumberAt(b, m)
    BY <1>2, <1>8
  <2> QED
    BY <2>2, <2>6, <2>7, <2>8 DEF f, g
<1> QED
  BY <1>7, <1>8

(* CompareIdentifier: the sign is the order of the pairs at a position     *)
(* both lists have.                                                        *)
LEMMA IdentifiersArePairs ==
    ASSUME NEW a \in PreReleases, NEW b \in PreReleases,
           NEW i \in 1..Len(a), i \in 1..Len(b)
    PROVE  /\ CompareIdentifier(a[i], b[i]) \in Int
           /\ CompareIdentifier(a[i], b[i]) < 0 <=> PairBelow(PreKey(a)[i], PreKey(b)[i])
           /\ CompareIdentifier(a[i], b[i]) > 0 <=> PairBelow(PreKey(b)[i], PreKey(a)[i])
           /\ CompareIdentifier(a[i], b[i]) = 0 <=> PreKey(a)[i] = PreKey(b)[i]
<1>1. /\ i \in Nat \ {0} /\ i \in DOMAIN a /\ i \in DOMAIN b
      /\ a[i].value \in Int /\ b[i].value \in Int
      /\ a[i].numeric \in BOOLEAN /\ b[i].numeric \in BOOLEAN
  <2>1. /\ Len(a) \in Nat /\ DOMAIN a = 1..Len(a)
        /\ Len(b) \in Nat /\ DOMAIN b = 1..Len(b)
    BY PreReleaseAt, Zenon
  <2>2. a[i].value \in Int /\ a[i].numeric \in BOOLEAN
    BY PreReleaseAt, Zenon
  <2>3. b[i].value \in Int /\ b[i].numeric \in BOOLEAN
    BY PreReleaseAt, Zenon
  <2> QED
    BY <2>1, <2>2, <2>3
<1>2. /\ NumberAt(a, i) = a[i].value /\ NumberAt(b, i) = b[i].value
      /\ KindAt(a, i) = (IF a[i].numeric THEN 1 ELSE 2)
      /\ KindAt(b, i) = (IF b[i].numeric THEN 1 ELSE 2)
  BY <1>1 DEF NumberAt, KindAt
<1>3. /\ PairBelow(PreKey(a)[i], PreKey(b)[i])
            <=> \/ KindAt(a, i) < KindAt(b, i)
                \/ KindAt(a, i) = KindAt(b, i) /\ NumberAt(a, i) < NumberAt(b, i)
      /\ PairBelow(PreKey(b)[i], PreKey(a)[i])
            <=> \/ KindAt(b, i) < KindAt(a, i)
                \/ KindAt(b, i) = KindAt(a, i) /\ NumberAt(b, i) < NumberAt(a, i)
      /\ PreKey(a)[i] = PreKey(b)[i]
            <=> KindAt(a, i) = KindAt(b, i) /\ NumberAt(a, i) = NumberAt(b, i)
  BY <1>1, PreKeyAt
<1>4. CASE a[i].numeric = b[i].numeric
  <2>1. CompareIdentifier(a[i], b[i]) = a[i].value - b[i].value
    BY <1>4 DEF CompareIdentifier
  <2>2. KindAt(a, i) = KindAt(b, i) /\ KindAt(a, i) \in Int
    BY <1>2, <1>4
  <2> QED
    BY <1>1, <1>2, <1>3, <2>1, <2>2
<1>5. CASE a[i].numeric # b[i].numeric
  <2>1. \/ a[i].numeric = TRUE /\ b[i].numeric = FALSE
        \/ a[i].numeric = FALSE /\ b[i].numeric = TRUE
    BY <1>1, <1>5
  <2>2. CASE a[i].numeric = TRUE /\ b[i].numeric = FALSE
    <3>1. CompareIdentifier(a[i], b[i]) = -1 /\ KindAt(a, i) = 1 /\ KindAt(b, i) = 2
      BY <1>2, <2>2 DEF CompareIdentifier
    <3> QED
      BY <1>3, <3>1
  <2>3. CASE a[i].numeric = FALSE /\ b[i].numeric = TRUE
    <3>1. CompareIdentifier(a[i], b[i]) = 1 /\ KindAt(a, i) = 2 /\ KindAt(b, i) = 1
      BY <1>2, <2>3 DEF CompareIdentifier
    <3> QED
      BY <1>3, <3>1
  <2> QED
    BY <2>1, <2>2, <2>3
<1> QED
  BY <1>4, <1>5

(* A list that is a proper prefix of another is below it.                  *)
LEMMA PrefixBelow ==
    ASSUME NEW a \in PreReleases, NEW b \in PreReleases, a # <<>>, b # <<>>,
           Len(a) < Len(b), \A i \in 1..Len(a) : PreKey(a)[i] = PreKey(b)[i]
    PROVE  KeyBelow(PreKey(a), PreKey(b)) /\ ~KeyBelow(PreKey(b), PreKey(a))
<1> DEFINE k == Len(a) + 1
<1>0. /\ Len(a) \in Nat /\ DOMAIN a = 1..Len(a) /\ Len(b) \in Nat /\ DOMAIN b = 1..Len(b)
      /\ \A i \in Nat : KindAt(b, i) \in 0..2
  BY PreReleaseAt
<1>1. /\ k \in Nat \ {0} /\ k \notin DOMAIN a /\ k \in DOMAIN b
      /\ KindAt(b, k) \in 0..2
      /\ \A j \in 0..(k - 1) : j = 0 \/ j \in 1..Len(a)
  BY <1>0
<1>2. KindAt(a, k) = 0 /\ KindAt(b, k) # 0
  BY <1>1 DEF KindAt
<1>3. PairBelow(PreKey(a)[k], PreKey(b)[k])
  <2>1. KindAt(a, k) < KindAt(b, k)
    BY <1>1, <1>2
  <2> QED
    BY <1>1, <2>1, PreKeyAt
<1>4. \A j \in 0..(k - 1) : PreKey(a)[j] = PreKey(b)[j]
  BY <1>1, PreKeyAt
<1>5. KeyBelow(PreKey(a), PreKey(b))
  BY <1>1, <1>3, <1>4 DEF KeyBelow
<1> QED
  BY <1>5, PreKeyType, KeyOrder

(* comparePreRelease: the sign is the order of the keys.                   *)
LEMMA ComparesPreReleases ==
    ASSUME NEW a \in PreReleases, NEW b \in PreReleases, a = <<>> <=> b = <<>>
    PROVE  /\ ComparePreRelease(a, b) \in Int
           /\ ComparePreRelease(a, b) < 0 <=> KeyBelow(PreKey(a), PreKey(b))
           /\ ComparePreRelease(a, b) > 0 <=> KeyBelow(PreKey(b), PreKey(a))
<1> DEFINE f == PreKey(a)
           g == PreKey(b)
           common == 1..Min({Len(a), Len(b)})
           D == {i \in common : CompareIdentifier(a[i], b[i]) # 0}
           m == Min(D)
<1>1. Len(a) \in Nat /\ Len(b) \in Nat /\ f \in Keys /\ g \in Keys
  BY PreReleaseAt, PreKeyType
<1>2. \A i \in Nat : i \in common <=> i \in 1..Len(a) /\ i \in 1..Len(b)
  <2>1. {Len(a), Len(b)} \in SUBSET Nat /\ {Len(a), Len(b)} # {}
    BY <1>1
  <2>2. Min({Len(a), Len(b)}) \in {Len(a), Len(b)} /\ \A i \in {Len(a), Len(b)} : Min({Len(a), Len(b)}) <= i
    BY <2>1, MinIsLeast
  <2> QED
    BY <1>1, <2>2
<1>3. ComparePreRelease(a, b) = IF D # {} THEN CompareIdentifier(a[m], b[m]) ELSE Len(a) - Len(b)
  BY DEF ComparePreRelease
<1>4. D \in SUBSET Nat /\ D \subseteq common /\ \A i \in common : i \in D <=> CompareIdentifier(a[i], b[i]) # 0
  <2>1. Min({Len(a), Len(b)}) \in {Len(a), Len(b)}
    BY <1>1, MinIsLeast
  <2> QED
    BY <1>1, <2>1
<1> HIDE DEF common, D, m
<1>5. \A i \in common : /\ i \in Nat
                        /\ CompareIdentifier(a[i], b[i]) \in Int
                        /\ CompareIdentifier(a[i], b[i]) < 0 <=> PairBelow(f[i], g[i])
                        /\ CompareIdentifier(a[i], b[i]) > 0 <=> PairBelow(g[i], f[i])
                        /\ CompareIdentifier(a[i], b[i]) = 0 <=> f[i] = g[i]
  <2>1. \A i \in common : i \in Nat
    <3>1. Min({Len(a), Len(b)}) \in {Len(a), Len(b)}
      BY <1>1, MinIsLeast
    <3> QED
      BY <1>1, <3>1 DEF common
  <2> QED
    BY <1>2, <2>1, IdentifiersArePairs
<1>6. f[0] = g[0]
  BY PreKeyAt
<1>7. CASE D # {}
  <2>1. m \in D /\ \A i \in D : m <= i
    BY <1>4, <1>7, MinIsLeast DEF m
  <2>2. m \in common /\ m \in Nat /\ f[m] # g[m]
    BY <1>4, <1>5, <2>1
  <2>3. ASSUME NEW j \in 0..(m - 1) PROVE f[j] = g[j]
    <3>1. CASE j = 0
      BY <1>6, <3>1
    <3>2. CASE j # 0
      <4>1. j \in Nat /\ ~(m <= j) /\ j \in 1..m
        BY <2>2, <3>2
      <4>2. m \in 1..Len(a) /\ m \in 1..Len(b)
        BY <1>2, <2>2
      <4>3. j \in 1..Len(a) /\ j \in 1..Len(b)
        BY <1>1, <4>1, <4>2
      <4>4. j \in common /\ j \notin D
        BY <1>2, <2>1, <4>1, <4>3
      <4> QED
        BY <1>4, <1>5, <4>4
    <3> QED
      BY <3>1, <3>2
  <2>4. KeyBelow(f, g) <=> PairBelow(f[m], g[m])
    BY <1>1, <2>2, <2>3, FirstDifference
  <2>5. KeyBelow(g, f) <=> PairBelow(g[m], f[m])
    BY <1>1, <2>2, <2>3, FirstDifference
  <2> QED
    BY <1>3, <1>5, <1>7, <2>2, <2>4, <2>5
<1>8. CASE D = {}
  <2>1. \A i \in common : f[i] = g[i]
    BY <1>4, <1>5, <1>8
  <2>2. ComparePreRelease(a, b) = Len(a) - Len(b)
    BY <1>3, <1>8
  <2>3. CASE Len(a) < Len(b)
    <3>1. \A i \in 1..Len(a) : i \in Nat /\ i \in 1..Len(b)
      BY <1>1, <2>3
    <3>2. \A i \in 1..Len(a) : f[i] = g[i]
      BY <1>2, <2>1, <3>1
    <3>3. a # <<>> /\ b # <<>>
      BY <1>1, <2>3
    <3>4. KeyBelow(f, g) /\ ~KeyBelow(g, f)
      BY <2>3, <3>2, <3>3, PrefixBelow
    <3> QED
      BY <1>1, <2>2, <2>3, <3>4
  <2>4. CASE Len(b) < Len(a)
    <3>1. \A i \in 1..Len(b) : i \in Nat /\ i \in 1..Len(a)
      BY <1>1, <2>4
    <3>2. \A i \in 1..Len(b) : g[i] = f[i]
      BY <1>2, <2>1, <3>1
    <3>3. a # <<>> /\ b # <<>>
      BY <1>1, <2>4
    <3>4. KeyBelow(g, f) /\ ~KeyBelow(f, g)
      BY <2>4, <3>2, <3>3, PrefixBelow
    <3> QED
      BY <1>1, <2>2, <2>4, <3>4
  <2>5. CASE Len(a) = Len(b)
    <3>1. ASSUME NEW i \in Nat PROVE f[i] = g[i]
      <4>1. CASE i = 0
        BY <1>6, <4>1
      <4>2. CASE i # 0 /\ i \in 1..Len(a)
        BY <1>2, <2>1, <2>5, <4>2
      <4>3. CASE i # 0 /\ i \notin 1..Len(a)
        <5>1. i \notin DOMAIN a \cup DOMAIN b
          BY <2>5, <4>3, PreReleaseAt
        <5> QED
          BY <4>3, <5>1, PreKeyAt
      <4> QED
        BY <4>1, <4>2, <4>3
    <3>2. f = g
      BY <1>1, <3>1 DEF Keys
    <3>3. ~KeyBelow(f, g) /\ ~KeyBelow(g, f)
      BY <1>1, <3>2, KeyOrder
    <3>4. Len(a) - Len(b) = 0
      BY <1>1, <2>5
    <3> QED
      BY <2>2, <3>3, <3>4
  <2> QED
    BY <1>1, <2>3, <2>4, <2>5
<1> QED
  BY <1>7, <1>8

(* Compare of SemVer and of CalVer orders versions of any form by          *)
(* precedence.                                                             *)
LEMMA CompareIsBelow ==
    ASSUME NEW v, NEW w, IsVersion(v), IsVersion(w)
    PROVE  /\ Compare(v, w) \in Int
           /\ Compare(v, w) < 0 <=> Below(v, w)
           /\ Compare(v, w) > 0 <=> Below(w, v)
<1> DEFINE c == CompareSegments(v.parts, w.parts)
           f == NumberKey(v.parts)
           g == NumberKey(w.parts)
           p == PreKey(v.pre)
           q == PreKey(w.pre)
<1>1. /\ c \in Int
      /\ c < 0 <=> KeyBelow(f, g)
      /\ c > 0 <=> KeyBelow(g, f)
      /\ c = 0 <=> f = g
  BY SegmentsAreKeys DEF IsVersion
<1>2. v.pre \in PreReleases /\ w.pre \in PreReleases
  BY DEF IsVersion
<1>3. /\ p \in Keys /\ q \in Keys /\ 0 \in Nat
      /\ \A j \in 0..(0 - 1) : p[j] = q[j]
      /\ p[0] = q[0] <=> (v.pre = <<>> <=> w.pre = <<>>)
      /\ PairBelow(p[0], q[0]) <=> v.pre # <<>> /\ w.pre = <<>>
      /\ PairBelow(q[0], p[0]) <=> w.pre # <<>> /\ v.pre = <<>>
  BY <1>2, PreKeyType, PreKeyAt
<1>4. /\ v.pre = <<>> /\ w.pre # <<>> => KeyBelow(q, p) /\ ~KeyBelow(p, q)
      /\ v.pre # <<>> /\ w.pre = <<>> => KeyBelow(p, q) /\ ~KeyBelow(q, p)
  BY <1>3, FirstDifference
<1>5. (v.pre = <<>> <=> w.pre = <<>>) =>
         /\ ComparePreRelease(v.pre, w.pre) \in Int
         /\ ComparePreRelease(v.pre, w.pre) < 0 <=> KeyBelow(p, q)
         /\ ComparePreRelease(v.pre, w.pre) > 0 <=> KeyBelow(q, p)
  BY <1>2, ComparesPreReleases
<1>6. /\ Below(v, w) <=> KeyBelow(f, g) \/ (f = g /\ KeyBelow(p, q))
      /\ Below(w, v) <=> KeyBelow(g, f) \/ (f = g /\ KeyBelow(q, p))
  BY DEF Below
<1>7. Compare(v, w) = IF c # 0 THEN c
                      ELSE IF v.pre = <<>> /\ w.pre # <<>> THEN 1
                      ELSE IF v.pre # <<>> /\ w.pre = <<>> THEN -1
                      ELSE ComparePreRelease(v.pre, w.pre)
  BY DEF Compare
<1> HIDE DEF c, f, g, p, q
<1>8. CASE c # 0
  BY <1>1, <1>6, <1>7, <1>8
<1>9. CASE c = 0
  <2>1. f = g /\ ~KeyBelow(f, g) /\ ~KeyBelow(g, f)
    BY <1>1, <1>9
  <2>2. CASE v.pre = <<>> /\ w.pre # <<>>
    BY <1>4, <1>6, <1>7, <1>9, <2>1, <2>2
  <2>3. CASE v.pre # <<>> /\ w.pre = <<>>
    BY <1>4, <1>6, <1>7, <1>9, <2>1, <2>3
  <2>4. CASE v.pre = <<>> <=> w.pre = <<>>
    BY <1>5, <1>6, <1>7, <1>9, <2>1, <2>4
  <2> QED
    BY <2>2, <2>3, <2>4
<1> QED
  BY <1>8, <1>9

(* There are finitely many names: those of the list of all of them.        *)
LEMMA NamesFinite == IsFiniteSet(Names)
<1>0. Lexical \in Seq(Names) /\ ToSet(Lexical) = Names
  BY Constants, Zenon
<1>1. Len(Lexical) \in Nat /\ DOMAIN Lexical = 1..Len(Lexical)
  BY <1>0
<1>2. Lexical \in [1..Len(Lexical) -> Names]
  BY <1>0, <1>1
<1>3. \A n \in Names : \E i \in 1..Len(Lexical) : Lexical[i] = n
  BY <1>0, <1>1 DEF ToSet
<1>4. Lexical \in Surjection(1..Len(Lexical), Names)
  BY <1>2, <1>3 DEF Surjection
<1>5. IsFiniteSet(1..Len(Lexical))
  BY <1>1, FS_Interval
<1> QED
  BY <1>4, <1>5, FS_Surjection

(* The rank of a name orders names by precedence: if n is above m, so is   *)
(* it above all that m is above, and m besides.                            *)
LEMMA RankOrders ==
    /\ Rank \in [Names -> Nat]
    /\ \A n, m \in Names : Rank[n] > Rank[m] <=> Lower(Version[m], Version[n])
<1> DEFINE Under(n) == {k \in Names : Lower(Version[k], Version[n])}
<1>1. \A n \in Names : IsVersion(Version[n])
  BY VersionAssumption DEF VersionAssumption, IsVersion, Parts, PreReleases
<1>2. \A n, m \in Names : Lower(Version[m], Version[n]) <=> Below(Version[m], Version[n])
  BY <1>1, LowerIsBelow
<1>3. \A n \in Names : Under(n) \in SUBSET Names
  OBVIOUS
<1>4. \A n \in Names : IsFiniteSet(Under(n)) /\ Cardinality(Under(n)) \in Nat
  BY <1>3, NamesFinite, FS_Subset, FS_CardinalityType
<1>5. Rank = [n \in Names |-> Cardinality(Under(n))]
  BY DEF Rank
<1>6. \A n, m, k \in Names :
         /\ ~Below(Version[m], Version[m])
         /\ Below(Version[k], Version[m]) /\ Below(Version[m], Version[n])
               => Below(Version[k], Version[n])
         /\ Below(Version[k], Version[n])
               => Below(Version[k], Version[m]) \/ Below(Version[m], Version[n])
  BY <1>1, BelowOrder
<1>7. ASSUME NEW n \in Names, NEW m \in Names, Below(Version[m], Version[n])
      PROVE  Cardinality(Under(n)) > Cardinality(Under(m))
  <2>1. Under(m) \in SUBSET Under(n) /\ m \in Under(n) /\ m \notin Under(m)
    BY <1>2, <1>6, <1>7
  <2> HIDE DEF Under
  <2>2. /\ Cardinality(Under(m)) <= Cardinality(Under(n))
        /\ Cardinality(Under(n)) # Cardinality(Under(m))
    BY <1>4, <2>1, FS_Subset
  <2> QED
    BY <1>4, <2>2
<1>8. ASSUME NEW n \in Names, NEW m \in Names, ~Below(Version[m], Version[n])
      PROVE  Cardinality(Under(n)) <= Cardinality(Under(m))
  <2>1. Under(n) \in SUBSET Under(m)
    BY <1>2, <1>6, <1>8
  <2> HIDE DEF Under
  <2> QED
    BY <1>4, <2>1, FS_Subset
<1> HIDE DEF Under
<1>9. ASSUME NEW n \in Names, NEW m \in Names
      PROVE  Rank[n] > Rank[m] <=> Lower(Version[m], Version[n])
  <2>1. /\ Rank[n] = Cardinality(Under(n)) /\ Rank[m] = Cardinality(Under(m))
        /\ Cardinality(Under(n)) \in Nat /\ Cardinality(Under(m)) \in Nat
    BY <1>4, <1>5
  <2>2. CASE Below(Version[m], Version[n])
    BY <1>2, <1>7, <2>1, <2>2
  <2>3. CASE ~Below(Version[m], Version[n])
    BY <1>2, <1>8, <2>1, <2>3
  <2> QED
    BY <2>2, <2>3
<1>10. Rank \in [Names -> Nat]
  BY <1>4, <1>5
<1> QED
  BY <1>9, <1>10

(***************************************************************************)
(* Compare of semver.go and calver.go, for any two names: the answer is a  *)
(* number, its sign turns with its arguments, it is positive exactly when  *)
(* the first is above the second by item 11 of SemVer, it never calls a    *)
(* version above itself, and what is above is above transitively, names of *)
(* equal precedence being interchangeable.                                 *)
(***************************************************************************)
THEOREM CompareTheorem ==
    \A n, m, k \in Names :
        /\ Precedence[n][m] \in Int
        /\ Precedence[n][m] > 0 <=> Lower(Version[m], Version[n])
        /\ Precedence[n][m] < 0 <=> Precedence[m][n] > 0
        /\ Precedence[n][n] = 0
        /\ Precedence[n][m] >= 0 /\ Precedence[m][k] >= 0 => Precedence[n][k] >= 0
<1>1. \A n \in Names : IsVersion(Version[n])
  BY VersionAssumption DEF VersionAssumption, IsVersion, Parts, PreReleases
<1>2. \A n, m \in Names : Precedence[n][m] = Compare(Version[n], Version[m])
  BY DEF Precedence
<1>3. \A n, m \in Names : /\ Precedence[n][m] \in Int
                          /\ Precedence[n][m] < 0 <=> Below(Version[n], Version[m])
                          /\ Precedence[n][m] > 0 <=> Below(Version[m], Version[n])
  BY <1>1, <1>2, CompareIsBelow
<1>4. \A n, m \in Names : Lower(Version[m], Version[n]) <=> Below(Version[m], Version[n])
  BY <1>1, LowerIsBelow
<1>5. \A n, m, k \in Names :
         /\ ~Below(Version[n], Version[n])
         /\ Below(Version[n], Version[k])
               => Below(Version[n], Version[m]) \/ Below(Version[m], Version[k])
  BY <1>1, BelowOrder
<1>6. \A n \in Names : Precedence[n][n] = 0
  BY <1>3, <1>5
<1>7. \A n, m, k \in Names :
         Precedence[n][m] >= 0 /\ Precedence[m][k] >= 0 => Precedence[n][k] >= 0
  BY <1>3, <1>5
<1> QED
  BY <1>3, <1>4, <1>6, <1>7

(* The comparison orders the versions that a URL admits as Rank does, and  *)
(* in fact all names.                                                      *)
LEMMA NamesOrdered == \A n, m \in Names : Precedence[n][m] > 0 <=> Rank[n] > Rank[m]
  BY CompareTheorem, RankOrders

(* FindLatestSemVer, FindLatestCalVer: the result is an admissible name of *)
(* the list unless there is none, and none of them is above it.            *)
LEMMA FindLatestIs ==
    ASSUME NEW list \in Seq(Names), NEW format, NEW pre
    PROVE  LET best == FindLatest(list, format, pre)
           IN  /\ best = NoVersion
                     => \A t \in ToSet(list) : ~Admissible(format, pre, Version[t])
               /\ best # NoVersion
                     => best \in ToSet(list) /\ Admissible(format, pre, Version[best])
               /\ best # NoVersion
                     => \A t \in ToSet(list) : Admissible(format, pre, Version[t])
                                                  => Rank[t] <= Rank[best]
<1> DEFINE n == Len(list)
           X == Names \cup {NoVersion}
           Adm(t) == Admissible(format, pre, Version[t])
           Round(i, b) == IF Adm(list[i]) THEN GreaterOf(b, list[i]) ELSE b
           F == [i \in 1..n |-> [b \in X |-> Round(i, b)]]
           Is(g) == g = [i \in 0..n |-> IF i = 0 THEN NoVersion ELSE Round(i, g[i - 1])]
<1>1. n \in Nat /\ \A i \in 1..n : list[i] \in Names
  OBVIOUS
<1>2. NoVersion \notin Names /\ Rank \in [Names -> Nat]
  BY Constants, RankOrders, Zenon
<1> HIDE DEF n, Adm
<1>3. \A i \in 1..n : \A b \in X : Round(i, b) \in X
  BY <1>1 DEF GreaterOf
<1> HIDE DEF Round
<1>4. F \in [1..n -> [X -> X]] /\ \A i \in 1..n : \A b \in X : F[i][b] = Round(i, b)
  BY <1>3
<1>5. PICK h : History(h, n, X, NoVersion, F)
  <2>1. NoVersion \in X /\ F \in Rounds(n, X) /\ n \in Nat
    BY <1>1, <1>4 DEF Rounds
  <2> DEFINE z == NoVersion
  <2> HIDE DEF F, X, z
  <2>2. \E h : History(h, n, X, z, F)
    BY <2>1, LoopHistory DEF z
  <2> QED
    BY <2>2 DEF z
<1>6. Is(h)
  <2>1. h \in [0..n -> X] /\ h[0] = NoVersion /\ \A i \in 1..n : h[i] = F[i][h[i - 1]]
    BY <1>5 DEF History
  <2>2. \A i \in 1..n : h[i - 1] \in X
    BY <1>1, <2>1
  <2> HIDE DEF F, X
  <2>3. \A i \in 1..n : h[i] = Round(i, h[i - 1])
    BY <1>4, <2>1, <2>2
  <2>4. \A i \in 0..n : i # 0 => i \in 1..n
    BY <1>1
  <2> QED
    BY <2>1, <2>3, <2>4
<1> DEFINE latest == CHOOSE g : Is(g)
<1>7. Is(latest)
  BY <1>6
<1>8. FindLatest(list, format, pre) = latest[n]
  BY DEF FindLatest, n, Round, Adm
<1> HIDE DEF latest, F, X
<1>9. latest[0] = NoVersion /\ \A i \in 1..n : latest[i] = Round(i, latest[i - 1])
  BY <1>1, <1>7
<1> HIDE DEF Is
<1> DEFINE G == {i \in 0..n :
                   /\ latest[i] = NoVersion => \A j \in 1..i : ~Adm(list[j])
                   /\ latest[i] # NoVersion => Adm(latest[i]) /\ \E j \in 1..i : latest[i] = list[j]
                   /\ latest[i] # NoVersion
                         => \A j \in 1..i : Adm(list[j]) => Rank[list[j]] <= Rank[latest[i]]}
<1>10. 0 \in G
  BY <1>1, <1>9
<1>11. ASSUME NEW i \in 1..n, i - 1 \in G PROVE i \in G
  <2> DEFINE old == latest[i - 1]
             new == latest[i]
  <2>1. \A j \in 1..i : j = i \/ j \in 1..(i - 1)
    BY <1>1
  <2>2. \A j \in 1..(i - 1) : j \in 1..i /\ j \in 1..n
    BY <1>1
  <2>3. new = Round(i, old) /\ i \in 1..i /\ i \in 0..n /\ list[i] \in Names
    BY <1>1, <1>9
  <2>4. /\ old = NoVersion => \A j \in 1..(i - 1) : ~Adm(list[j])
        /\ old # NoVersion => Adm(old) /\ \E j \in 1..(i - 1) : old = list[j]
        /\ old # NoVersion
              => \A j \in 1..(i - 1) : Adm(list[j]) => Rank[list[j]] <= Rank[old]
    BY <1>11
  <2> HIDE DEF old, new
  <2>5. CASE ~Adm(list[i])
    <3>1. new = old
      BY <2>3, <2>5 DEF Round
    <3> QED
      BY <2>1, <2>2, <2>3, <2>4, <2>5, <3>1 DEF new
  <2>6. CASE Adm(list[i]) /\ old = NoVersion
    <3>1. new = list[i]
      BY <2>3, <2>6 DEF Round, GreaterOf
    <3>2. new # NoVersion /\ Rank[new] <= Rank[new]
      BY <1>2, <2>3, <3>1
    <3> QED
      BY <2>1, <2>3, <2>4, <2>6, <3>1, <3>2 DEF new
  <2>7. CASE Adm(list[i]) /\ old # NoVersion
    <3> DEFINE above == Precedence[list[i]][old] > 0
    <3>1. (above => new = list[i]) /\ (~above => new = old)
      BY <2>3, <2>7 DEF Round, GreaterOf
    <3> HIDE DEF above
    <3>2. old \in Names
      BY <1>1, <2>2, <2>4, <2>7
    <3>3. new # NoVersion /\ Adm(new) /\ \E j \in 1..i : new = list[j]
      BY <1>2, <2>2, <2>3, <2>4, <2>7, <3>1
    <3>4. ASSUME NEW j \in 1..i, Adm(list[j])
          PROVE  Rank[list[j]] <= Rank[new]
      <4>1. above <=> Rank[list[i]] > Rank[old]
        BY <2>3, <3>2, NamesOrdered DEF above
      <4>2. Rank[list[i]] \in Nat /\ Rank[old] \in Nat /\ Rank[list[j]] \in Nat
        BY <1>1, <1>2, <2>1, <2>2, <2>3, <3>2
      <4>3. CASE j = i
        BY <3>1, <4>1, <4>2, <4>3
      <4>4. CASE j \in 1..(i - 1)
        <5>1. Rank[list[j]] <= Rank[old]
          BY <2>4, <2>7, <3>4, <4>4
        <5> QED
          BY <3>1, <4>1, <4>2, <5>1
      <4> QED
        BY <2>1, <4>3, <4>4
    <3> QED
      BY <2>3, <3>3, <3>4 DEF new
  <2> QED
    BY <2>5, <2>6, <2>7
<1>12. n \in G
  <2> HIDE DEF G
  <2>1. \A i \in 1..n : i - 1 \in G => i \in G
    BY <1>11
  <2>2. \A i \in 0..n : i \in G
    BY <1>1, <1>10, <2>1, LoopInvariant
  <2> QED
    BY <1>1, <2>2
<1>13. \A x : x \in ToSet(list) <=> \E j \in 1..n : x = list[j]
  BY Members DEF n
<1> QED
  BY <1>8, <1>12, <1>13 DEF Adm

-----------------------------------------------------------------------------
(* Pages *)

LEMMA MinOfTwo ==
    ASSUME NEW a \in Int, NEW b \in Int
    PROVE  Min({a, b}) = IF a <= b THEN a ELSE b
BY DEF Min

(* A set of numbers up to n has a greatest.                                *)
LEMMA MaxIsGreatest ==
    ASSUME NEW n \in Nat, NEW S \in SUBSET (0..n), S # {}
    PROVE  Max(S) \in S /\ \A x \in S : x <= Max(S)
<1> DEFINE bounds == {b \in Nat : \A x \in S : x <= b}
<1>1. n \in bounds /\ bounds \in SUBSET Nat
  OBVIOUS
<1>2. PICK b \in bounds : \A c \in bounds : b <= c
  <2> HIDE DEF bounds
  <2> QED
    BY <1>1, LeastNatural
<1>3. b \in Nat /\ \A x \in S : x <= b /\ x \in Nat
  OBVIOUS
<1>4. b \in S
  <2> SUFFICES ASSUME b \notin S PROVE FALSE
    OBVIOUS
  <2>1. PICK x \in S : TRUE
    OBVIOUS
  <2>2. b - 1 \in Nat /\ ~(b <= b - 1) /\ \A y \in S : y <= b - 1
    BY <1>3, <2>1
  <2>3. b - 1 \in bounds
    BY <2>2
  <2> HIDE DEF bounds
  <2> QED
    BY <1>2, <2>2, <2>3
<1>5. \E x \in S : \A y \in S : x >= y
  BY <1>3, <1>4
<1>6. Max(S) \in S /\ \A y \in S : Max(S) >= y
  BY <1>5 DEF Max
<1> QED
  BY <1>3, <1>6

(* A part of a list.                                                       *)
LEMMA PartOf ==
    ASSUME NEW T, NEW s \in Seq(T), NEW a \in Nat, NEW b \in Nat, b <= Len(s)
    PROVE  /\ SubSeq(s, a + 1, b) \in Seq(T)
           /\ \A x : x \in ToSet(SubSeq(s, a + 1, b)) <=> \E i \in (a + 1)..b : x = s[i]
<1> DEFINE r == SubSeq(s, a + 1, b)
           m == IF a + 1 <= b THEN b - a ELSE 0
<1>1. /\ r \in Seq(T)
      /\ Len(r) = m
      /\ \A i \in 1..m : r[i] = s[a + i]
  BY SubSeqProperties
<1>2. m \in Nat /\ Len(s) \in Nat
  OBVIOUS
<1> HIDE DEF r
<1>3. \A x : x \in ToSet(r) <=> \E i \in 1..m : x = r[i]
  BY <1>1, <1>2, Members
<1>4. \A i \in 1..m : a + i \in (a + 1)..b
  BY <1>2
<1>5. \A i \in (a + 1)..b : i - a \in 1..m /\ a + (i - a) = i
  BY <1>2
<1> HIDE DEF m
<1>6. ASSUME NEW x, \E i \in 1..m : x = r[i] PROVE \E i \in (a + 1)..b : x = s[i]
  BY <1>1, <1>4, <1>6
<1>7. ASSUME NEW x, \E i \in (a + 1)..b : x = s[i] PROVE \E i \in 1..m : x = r[i]
  <2>1. PICK i \in (a + 1)..b : x = s[i]
    BY <1>7
  <2>2. i - a \in 1..m /\ r[i - a] = s[i]
    BY <1>1, <1>5
  <2> QED
    BY <2>1, <2>2
<1>8. \A x : (\E i \in 1..m : x = r[i]) <=> (\E i \in (a + 1)..b : x = s[i])
  BY <1>6, <1>7, Zenon
<1>9. \A x : x \in ToSet(r) <=> \E i \in (a + 1)..b : x = s[i]
  <2> TAKE x
  <2>1. x \in ToSet(r) <=> \E i \in 1..m : x = r[i]
    BY <1>3, Zenon
  <2>2. (\E i \in 1..m : x = r[i]) <=> (\E i \in (a + 1)..b : x = s[i])
    BY <1>8, Zenon
  <2> QED
    BY <2>1, <2>2, Zenon
<1>10. r \in Seq(T)
  BY <1>1, Zenon
<1> QED
  BY <1>9, <1>10, Zenon DEF r

(* A page of GitHub releases: nothing after the cursor is passed over.     *)
LEMMA ReleasePageIs ==
    ASSUME releases \in Seq(Names), cursor \in Nat
    PROVE  /\ ReleasePage.part \in Seq(Names)
           /\ \A x \in ToSet(ReleasePage.part) : x \in ToSet(releases)
           /\ \A i \in 1..Len(releases) :
                 i > cursor => \/ releases[i] \in ToSet(ReleasePage.part)
                               \/ i > cursor + PageSize /\ ReleasePage.more
<1> DEFINE b == Min({cursor + PageSize, Len(releases)})
<1>1. PageSize \in Nat /\ Len(releases) \in Nat
  BY Sizes
<1>2. b = IF cursor + PageSize <= Len(releases) THEN cursor + PageSize ELSE Len(releases)
  BY <1>1, MinOfTwo
<1>3. b \in Nat /\ b <= Len(releases)
  BY <1>1, <1>2
<1>4. /\ ReleasePage.part = SubSeq(releases, cursor + 1, b)
      /\ ReleasePage.more <=> cursor + PageSize < Len(releases)
  BY DEF ReleasePage
<1> HIDE DEF b
<1>5. /\ ReleasePage.part \in Seq(Names)
      /\ \A x : x \in ToSet(ReleasePage.part) <=> \E i \in (cursor + 1)..b : x = releases[i]
  <2> DEFINE r == SubSeq(releases, cursor + 1, b)
  <2>1. r \in Seq(Names) /\ \A x : x \in ToSet(r) <=> \E i \in (cursor + 1)..b : x = releases[i]
    BY <1>3, PartOf
  <2> QED
    BY <1>4, <2>1
<1>6. \A x : x \in ToSet(releases) <=> \E i \in 1..Len(releases) : x = releases[i]
  BY Members
<1>7. \A i \in (cursor + 1)..b : i \in 1..Len(releases)
  BY <1>1, <1>3
<1>8. ASSUME NEW i \in 1..Len(releases), i > cursor, ~(i > cursor + PageSize /\ ReleasePage.more)
      PROVE  i \in (cursor + 1)..b
  BY <1>1, <1>2, <1>4, <1>8
<1> QED
  BY <1>5, <1>6, <1>7, <1>8

(* A page of names: nothing visible after the cursor is passed over.       *)
LEMMA NamePageIs ==
    ASSUME cursor \in Nat, cursor <= Len(Lexical)
    PROVE  /\ NamePage.part \in Seq(Names)
           /\ \A x \in ToSet(NamePage.part) : x \in Visible
           /\ NamePage.next \in Nat /\ NamePage.next <= Len(Lexical)
           /\ \A i \in 1..Len(Lexical) :
                 i > cursor /\ Lexical[i] \in Visible
                     => \/ Lexical[i] \in ToSet(NamePage.part)
                        \/ i > NamePage.next /\ NamePage.more
<1> DEFINE rest == {i \in (cursor + 1)..Len(Lexical) : Lexical[i] \in Visible}
           part == {i \in rest : Cardinality({j \in rest : j < i}) < PageSize}
           last == IF part = {} THEN cursor ELSE Max(part)
           list == SubSeq(Lexical, cursor + 1, last)
<1>1. Lexical \in Seq(Names) /\ Len(Lexical) \in Nat
  <2>1. Lexical \in Seq(Names)
    BY Constants, Zenon
  <2> QED
    BY <2>1
<1>2. NamePage = [part |-> Only(list, Visible), next |-> last, more |-> rest # part]
  BY DEF NamePage
<1>3. rest \in SUBSET (0..Len(Lexical)) /\ part \subseteq rest
  BY <1>1
<1> HIDE DEF part
<1>4. /\ last \in Nat /\ last <= Len(Lexical)
      /\ \A i \in part : i <= last
  <2>1. CASE part = {}
    BY <1>1, <2>1
  <2>2. CASE part # {}
    <3>1. part \in SUBSET (0..Len(Lexical))
      BY <1>3
    <3>2. Max(part) \in part /\ \A x \in part : x <= Max(part)
      BY <1>1, <2>2, <3>1, MaxIsGreatest
    <3>3. last = Max(part)
      BY <2>2
    <3>4. \A i \in part : i \in Nat /\ i <= Len(Lexical)
      BY <1>1, <3>1
    <3> HIDE DEF last
    <3> QED
      BY <3>2, <3>3, <3>4
  <2> QED
    BY <2>1, <2>2
<1> HIDE DEF last
<1>5. /\ list \in Seq(Names)
      /\ \A x : x \in ToSet(list) <=> \E i \in (cursor + 1)..last : x = Lexical[i]
  BY <1>1, <1>4, PartOf
<1> HIDE DEF list
<1>6. /\ Only(list, Visible) \in Seq(Names)
      /\ \A x : x \in ToSet(Only(list, Visible)) <=> x \in ToSet(list) /\ x \in Visible
  BY <1>5, OnlyKeeps
<1>7. /\ NamePage.part = Only(list, Visible) /\ NamePage.next = last
      /\ NamePage.more <=> rest # part
  BY <1>2
<1>8. ASSUME NEW i \in 1..Len(Lexical), i > cursor, Lexical[i] \in Visible,
             ~(i > last /\ rest # part)
      PROVE  i \in (cursor + 1)..last
  <2>1. i \in rest
    BY <1>1, <1>8
  <2>2. i <= last
    <3> HIDE DEF rest
    <3>1. CASE rest = part
      BY <1>4, <2>1, <3>1
    <3>2. CASE ~(i > last)
      BY <1>1, <1>4, <3>2
    <3> QED
      BY <1>8, <3>1, <3>2
  <2> QED
    BY <1>1, <1>4, <1>8, <2>2
<1> HIDE DEF rest
<1> QED
  BY <1>4, <1>5, <1>6, <1>7, <1>8

-----------------------------------------------------------------------------
(* Types *)

FilesOf == [Names -> Seq(ToSet(Files))]

RegOK ==
    /\ cfg \in Configs
    /\ releases \in Seq(Names) /\ drafts \subseteq ToSet(releases)
    /\ uploads \in FilesOf

CallOK ==
    /\ cursor \in Nat /\ (cfg.kind # "ghr" => cursor <= Len(Lexical))
    /\ page \in 0..MaxPages
    /\ pc \in {"idle", "page", "select", "artifact", "find", "fetch", "report"}
    /\ names \in Seq(Names)
    /\ seen \in FilesOf
    /\ pick \in Names \cup {NoVersion}
    /\ atStart \subseteq Names
    /\ outcome \in {"none", "ok", "missing", "err", "lost"}

LoadOK ==
    /\ taken \in AnswerType /\ artifact \in AnswerType
    /\ staged \subseteq [want : AnswerType, got : AnswerType]

Types == RegOK /\ CallOK /\ LoadOK

(* Tokens and failures are counted.                                        *)
CountersOK == {gen, faults, token} \subseteq Nat

-----------------------------------------------------------------------------
(* Steps *)

(* Whatever happens, the registry only gains releases and files: what was  *)
(* visible stays so, and a release only moves towards the end of the list. *)
Grows ==
    /\ cfg' = cfg
    /\ releases' \in Seq(Names) /\ drafts' \subseteq ToSet(releases')
    /\ uploads' \in FilesOf
    /\ \A t \in Visible : t \in Visible'
    /\ \A t \in Names : \A f \in ToSet(uploads[t]) : f \in ToSet(uploads'[t])
    /\ \A i \in 1..Len(releases) :
          \E j \in 1..Len(releases') : j >= i /\ releases'[j] = releases[i]

LEMMA Unmoved ==
    ASSUME RegOK, UNCHANGED <<cfg, releases, drafts>>
    PROVE  /\ cfg' = cfg
           /\ releases' \in Seq(Names) /\ drafts' \subseteq ToSet(releases')
           /\ \A t \in Visible : t \in Visible'
           /\ \A i \in 1..Len(releases) :
                 \E j \in 1..Len(releases') : j >= i /\ releases'[j] = releases[i]
<1>1. releases \in Seq(Names) /\ drafts \subseteq ToSet(releases) /\ Len(releases) \in Nat
  BY DEF RegOK
<1>2. \A i \in 1..Len(releases) : i >= i
  BY <1>1
<1> QED
  BY <1>1, <1>2 DEF Visible

(* A file joins a release, if there is one of that name.                   *)
LEMMA Joins ==
    ASSUME RegOK, NEW t, NEW f \in ToSet(Files),
           uploads' = [uploads EXCEPT ![t] = Append(@, f)]
    PROVE  /\ uploads' \in FilesOf
           /\ \A u \in Names : \A g \in ToSet(uploads[u]) : g \in ToSet(uploads'[u])
<1>1. uploads \in [Names -> Seq(ToSet(Files))]
  BY DEF RegOK, FilesOf
<1>2. CASE t \notin Names
  <2>1. uploads' = uploads
    BY <1>1, <1>2
  <2> QED
    BY <1>1, <2>1 DEF FilesOf
<1>3. CASE t \in Names
  <2>1. uploads[t] \in Seq(ToSet(Files))
    BY <1>1, <1>3
  <2>2. Append(uploads[t], f) \in Seq(ToSet(Files))
    BY <2>1
  <2>3. \A g : g \in ToSet(Append(uploads[t], f)) <=> g \in ToSet(uploads[t]) \/ g = f
    BY <2>1, MembersAppend
  <2>4. /\ uploads' \in [Names -> Seq(ToSet(Files))]
        /\ uploads'[t] = Append(uploads[t], f)
        /\ \A u \in Names : u # t => uploads'[u] = uploads[u]
    BY <1>1, <1>3, <2>2
  <2> QED
    BY <2>3, <2>4 DEF FilesOf
<1> QED
  BY <1>2, <1>3

LEMMA PublishGrows ==
    ASSUME RegOK, NEW t \in Names, Publish(t)
    PROVE  Grows
<1>1. releases \in Seq(Names) /\ drafts \subseteq ToSet(releases) /\ Len(releases) \in Nat
  BY DEF RegOK
<1>2. t \notin ToSet(releases) /\ releases' = <<t>> \o releases /\ cfg' = cfg /\ uploads' = uploads
  BY DEF Publish
<1>3. drafts' = drafts \/ drafts' = drafts \cup {t}
  BY DEF Publish
<1>4. /\ releases' \in Seq(Names) /\ Len(releases') = Len(releases) + 1
      /\ releases'[1] = t
      /\ \A i \in 1..Len(releases) : releases'[i + 1] = releases[i]
  <2>1. <<t>> \in Seq(Names) /\ Len(<<t>>) = 1 /\ <<t>>[1] = t
    OBVIOUS
  <2> DEFINE one == <<t>>
  <2> HIDE DEF one
  <2>2. /\ one \o releases \in Seq(Names) /\ Len(one \o releases) = 1 + Len(releases)
        /\ \A i \in 1..1 : (one \o releases)[i] = one[i]
        /\ \A i \in 1..Len(releases) : (one \o releases)[1 + i] = releases[i]
    BY <1>1, <2>1 DEF one
  <2>3. \A i \in 1..Len(releases) : 1 + i = i + 1
    BY <1>1
  <2> QED
    BY <1>1, <1>2, <2>1, <2>2, <2>3 DEF one
<1>5. \A x : x \in ToSet(releases) => x \in ToSet(releases')
  <2>1. \A x : x \in ToSet(releases') <=> \E i \in 1..Len(releases') : x = releases'[i]
    BY <1>4, Members
  <2>2. \A x : x \in ToSet(releases) <=> \E i \in 1..Len(releases) : x = releases[i]
    BY <1>1, Members
  <2>3. \A i \in 1..Len(releases) : i + 1 \in 1..Len(releases')
    BY <1>1, <1>4
  <2> QED
    BY <1>4, <2>1, <2>2, <2>3
<1>6. t \in ToSet(releases')
  <2>1. \A x : x \in ToSet(releases') <=> \E i \in 1..Len(releases') : x = releases'[i]
    BY <1>4, Members
  <2>2. 1 \in 1..Len(releases')
    BY <1>1, <1>4
  <2> QED
    BY <1>4, <2>1, <2>2
<1>7. drafts' \subseteq ToSet(releases') /\ \A x \in Visible : x \in Visible'
  BY <1>1, <1>2, <1>3, <1>5, <1>6 DEF Visible
<1>8. \A i \in 1..Len(releases) :
          \E j \in 1..Len(releases') : j >= i /\ releases'[j] = releases[i]
  <2> TAKE i \in 1..Len(releases)
  <2>1. i + 1 \in 1..Len(releases') /\ i + 1 >= i
    BY <1>1, <1>4
  <2> QED
    BY <1>4, <2>1
<1>9. uploads' \in FilesOf
  BY <1>2 DEF RegOK
<1> QED
  BY <1>2, <1>4, <1>7, <1>8, <1>9 DEF Grows

LEMMA RegistryGrows ==
    ASSUME RegOK, [Next]_vars
    PROVE  Grows
<1>1. ASSUME UNCHANGED regVars PROVE Grows
  <2>1. UNCHANGED <<cfg, releases, drafts, uploads>>
    BY <1>1 DEF regVars
  <2>2. uploads' \in FilesOf
    BY <2>1 DEF RegOK
  <2> QED
    BY <2>1, <2>2, Unmoved DEF Grows
<1>2. ASSUME NEW t \in Names, Undraft(t) PROVE Grows
  <2>1. UNCHANGED <<cfg, releases, uploads>> /\ drafts' = drafts \ {t}
    BY <1>2 DEF Undraft
  <2>2. releases \in Seq(Names) /\ drafts \subseteq ToSet(releases) /\ Len(releases) \in Nat
    BY DEF RegOK
  <2>3. \A i \in 1..Len(releases) : i >= i
    BY <2>2
  <2>4. uploads' \in FilesOf
    BY <2>1 DEF RegOK
  <2> QED
    BY <2>1, <2>2, <2>3, <2>4 DEF Grows, Visible
<1>3. ASSUME NEW t \in Names, NEW f \in ToSet(Files), Upload(t, f) PROVE Grows
  <2>1. UNCHANGED <<cfg, releases, drafts>> /\ uploads' = [uploads EXCEPT ![t] = Append(@, f)]
    BY <1>3 DEF Upload
  <2> QED
    BY <2>1, Joins, Unmoved DEF Grows
<1>4. ASSUME ExpireToken PROVE Grows
  <2>1. UNCHANGED <<cfg, releases, drafts, uploads>>
    BY <1>4 DEF ExpireToken
  <2>2. uploads' \in FilesOf
    BY <2>1 DEF RegOK
  <2> QED
    BY <2>1, <2>2, Unmoved DEF Grows
<1>5. ASSUME Report PROVE Grows
  <2>1. UNCHANGED <<cfg, releases, drafts>>
    BY <1>5 DEF Report
  <2>2. CASE UNCHANGED uploads
    <3>1. uploads' \in FilesOf
      BY <2>2 DEF RegOK
    <3> QED
      BY <2>1, <2>2, <3>1, Unmoved DEF Grows
  <2>3. CASE PutTextObject(taken.tag)
    <3>1. ReportFile \in ToSet(Files)
      BY Constants
    <3>2. uploads' = [uploads EXCEPT ![taken.tag] = Append(@, ReportFile)]
      BY <2>3 DEF PutTextObject
    <3>3. /\ uploads' \in FilesOf
          /\ \A u \in Names : \A g \in ToSet(uploads[u]) : g \in ToSet(uploads'[u])
      BY <3>1, <3>2, Joins
    <3> QED
      BY <2>1, <3>3, Unmoved DEF Grows
  <2> QED
    BY <1>5, <2>2, <2>3 DEF Report
<1>6. ASSUME Current PROVE UNCHANGED regVars \/ Report
  BY <1>6 DEF Current, BeginCurrent, ListFails, ListReleases, ListPrefixes, IteratePrefixes,
     ListTags, Select, ListObjects, IterateObjects, AnswerFromObjects, GetImageDigest, FindAsset,
     DownloadReleaseAsset, GetObject, NewReader, Pull, Fetch
<1> QED
  BY <1>1, <1>2, <1>3, <1>4, <1>5, <1>6, PublishGrows DEF Next, Registry, vars

load == <<taken, artifact, staged>>

(* The call or the download fails.                                         *)
GiveUp(o) ==
    /\ EndCall(o) /\ pc' = "idle"
    /\ UNCHANGED <<taken, staged>>
    /\ \/ /\ pc \in {"page", "select", "artifact"}
          /\ o \in {"missing", "err"}
          /\ UNCHANGED artifact
       \/ /\ pc \in {"find", "fetch"}
          /\ artifact' = NoAnswer
          /\ \/ o = "err"
             \/ /\ o = "lost" /\ pc = "find" /\ ~AssetPage.more
                /\ ~(/\ artifact.tag \in ToSet(AssetPage.part)
                     /\ artifact.file \in ToSet(uploads[artifact.tag]))

(* A page of names is read.                                                *)
TurnNames ==
    /\ cfg.kind # "ghr"
    /\ pc = "page"
    /\ TurnPage(NamePage.part, NamePage.next, NamePage.more)
    /\ page' = page \/ (~LimitReached /\ page' = page + 1)
    /\ UNCHANGED <<regVars, seen, pick, atStart, outcome, load>>

(* The version has been chosen, its files are asked for.                   *)
Picked ==
    /\ pc = "select" /\ pc' = "artifact" /\ cfg.kind # "ghr"
    /\ pick' = FindLatest(names, cfg.format, cfg.pre) /\ pick' # NoVersion
    /\ UNCHANGED <<cursor, page, names, seen, atStart, outcome, load>>

(* Where an answer comes from: the files of the release that was chosen.   *)
Source(tag, file) ==
    \/ /\ pc = "select" /\ cfg.kind = "ghr"
       /\ tag = FindLatest(names, cfg.format, cfg.pre) /\ tag # NoVersion
       /\ file \in Candidates(seen[tag])
    \/ /\ pc = "artifact" /\ tag = pick
       /\ \/ cfg.kind = "oci" /\ file = NoFile
          \/ cfg.kind # "oci" /\ file \in Candidates(InTextOrder(uploads[tag]))

Answered(tag, file) ==
    /\ Source(tag, file)
    /\ EndCall("ok")
    /\ IF SlotMatches(Slot, ExtractSlot(Version[tag], cfg.format))
       THEN /\ taken' = [tag |-> tag, file |-> file]
            /\ NewArtifact([tag |-> tag, file |-> file])
       ELSE pc' = "idle" /\ UNCHANGED <<taken, artifact>>
    /\ UNCHANGED <<regVars, staged>>

(* The search for the asset goes on, or is over.                           *)
Searching ==
    /\ pc = "find" /\ cfg.kind = "ghr"
    /\ \/ cursor' = 0 /\ pc' = "fetch"
       \/ /\ cursor' = cursor + PageSize /\ pc' = "find"
          /\ ~(/\ artifact.tag \in ToSet(AssetPage.part)
               /\ artifact.file \in ToSet(uploads[artifact.tag]))
    /\ UNCHANGED <<regVars, page, names, seen, pick, atStart, outcome, load>>

Fetched ==
    /\ pc = "fetch" /\ pc' = "report"
    /\ artifact' = NoAnswer
    /\ staged' \subseteq {[want |-> taken, got |-> artifact]} \cup staged
    /\ UNCHANGED <<cursor, page, names, seen, pick, atStart, outcome, taken>>

(* The call stands still, or its tick ends.                                *)
Idle ==
    /\ pc' = pc \/ (pc = "report" /\ pc' = "idle")
    /\ UNCHANGED <<cursor, page, names, seen, pick, atStart, outcome, load>>

LEMMA AnswerIs ==
    ASSUME NEW tag, NEW found, Answer(tag, found), UNCHANGED regVars,
           \A file \in found : Source(tag, file), pc \in {"select", "artifact"}
    PROVE  GiveUp("missing") \/ \E file \in found : Answered(tag, file)
<1>1. CASE found = {} /\ Fail("missing")
  BY <1>1 DEF GiveUp, Fail, loadVars
<1>2. ASSUME NEW file \in found, EndCall("ok"),
             IF SlotMatches(Slot, ExtractSlot(Version[tag], cfg.format))
             THEN /\ taken' = [tag |-> tag, file |-> file]
                  /\ NewArtifact([tag |-> tag, file |-> file])
             ELSE pc' = "idle" /\ UNCHANGED <<taken, artifact>>,
             UNCHANGED staged
      PROVE  Answered(tag, file)
  BY <1>2 DEF Answered
<1> QED
  BY <1>1, <1>2 DEF Answer

(* Every step is one of these, for the call that runs.                     *)
CallStep ==
    \/ Idle \/ BeginCurrent
    \/ \E o \in {"missing", "err", "lost"} : GiveUp(o)
    \/ ListReleases \/ TurnNames \/ Picked
    \/ \E tag, file : Answered(tag, file)
    \/ Searching \/ Fetched

LEMMA FailIs ==
    ASSUME Fail("err"), pc \in {"page", "select", "artifact"}
    PROVE  GiveUp("err")
BY DEF Fail, GiveUp, loadVars

LEMMA RegistryIsIdle ==
    ASSUME Registry
    PROVE  Idle
<1>1. ASSUME NEW t \in Names, Publish(t) PROVE Idle
  BY <1>1 DEF Publish, Idle, callVars, loadVars, load
<1>2. ASSUME NEW t \in Names, Undraft(t) PROVE Idle
  BY <1>2 DEF Undraft, Idle, callVars, loadVars, load
<1>3. ASSUME NEW t \in Names, NEW f \in ToSet(Files), Upload(t, f) PROVE Idle
  BY <1>3 DEF Upload, Idle, callVars, loadVars, load
<1>4. ASSUME ExpireToken PROVE Idle
  BY <1>4 DEF ExpireToken, Idle, callVars, loadVars, load
<1> QED
  BY <1>1, <1>2, <1>3, <1>4 DEF Registry

LEMMA PagingSteps ==
    ASSUME ListFails \/ ListPrefixes \/ IteratePrefixes \/ ListTags
    PROVE  CallStep
<1>1. ASSUME ListFails PROVE GiveUp("err")
  BY <1>1, FailIs DEF ListFails
<1>2. ASSUME ListPrefixes \/ IteratePrefixes PROVE TurnNames
  BY <1>2 DEF ListPrefixes, IteratePrefixes, TurnNames, load, loadVars
<1>3. ASSUME ListTags, LimitReached, TooManyPages PROVE GiveUp("err")
  BY <1>3, FailIs DEF ListTags, TooManyPages
<1>4. ASSUME ListTags, ~LimitReached, Fail("err") PROVE GiveUp("err")
  BY <1>4, FailIs DEF ListTags
<1>5. ASSUME ListTags, ~LimitReached, TurnTagsPage PROVE TurnNames
  BY <1>5 DEF ListTags, TurnTagsPage, TurnNames, load, loadVars
<1>6. ListTags => \/ LimitReached /\ TooManyPages
                  \/ ~LimitReached /\ (Fail("err") \/ TurnTagsPage)
  BY DEF ListTags, Authorize
<1> QED
  BY <1>1, <1>2, <1>3, <1>4, <1>5, <1>6 DEF CallStep

LEMMA SelectSteps ==
    ASSUME Select
    PROVE  CallStep
<1> DEFINE best == FindLatest(names, cfg.format, cfg.pre)
<1> HIDE DEF best
<1>1. pc = "select" /\ UNCHANGED regVars
  BY DEF Select
<1>2. CASE Fail("err")
  BY <1>1, <1>2, FailIs DEF CallStep
<1>3. CASE best # NoVersion /\ cfg.kind = "ghr" /\ Answer(best, Candidates(seen[best]))
  <2>1. \A file \in Candidates(seen[best]) : Source(best, file)
    BY <1>1, <1>3 DEF Source, best
  <2>2. GiveUp("missing") \/ \E file \in Candidates(seen[best]) : Answered(best, file)
    BY <1>1, <1>3, <2>1, AnswerIs
  <2> QED
    BY <2>2 DEF CallStep
<1>4. CASE /\ best # NoVersion /\ cfg.kind # "ghr" /\ pick' = best /\ pc' = "artifact"
           /\ UNCHANGED <<cursor, page, names, seen, atStart, outcome, taken, loadVars>>
  <2>1. Picked
    BY <1>1, <1>4 DEF Picked, load, loadVars, best
  <2> QED
    BY <2>1 DEF CallStep
<1> QED
  BY <1>2, <1>3, <1>4 DEF Select, best

LEMMA ArtifactSteps ==
    ASSUME ListObjects \/ IterateObjects \/ GetImageDigest
    PROVE  CallStep
<1>1. pc = "artifact" /\ UNCHANGED regVars
  BY DEF ListObjects, IterateObjects, GetImageDigest, AnswerFromObjects
<1>2. CASE Fail("err")
  BY <1>1, <1>2, FailIs DEF CallStep
<1>3. CASE cfg.kind # "oci" /\ Answer(pick, Candidates(InTextOrder(uploads[pick])))
  <2> DEFINE found == Candidates(InTextOrder(uploads[pick]))
  <2>1. \A file \in found : Source(pick, file)
    BY <1>1, <1>3 DEF Source
  <2> HIDE DEF found
  <2>2. GiveUp("missing") \/ \E file \in found : Answered(pick, file)
    BY <1>1, <1>3, <2>1, AnswerIs DEF found
  <2> QED
    BY <2>2 DEF CallStep
<1>4. CASE cfg.kind = "oci" /\ Answer(pick, {NoFile})
  <2>1. \A file \in {NoFile} : Source(pick, file)
    BY <1>1, <1>4 DEF Source
  <2>2. GiveUp("missing") \/ \E file \in {NoFile} : Answered(pick, file)
    BY <1>1, <1>4, <2>1, AnswerIs
  <2> QED
    BY <2>2 DEF CallStep
<1> QED
  BY <1>2, <1>3, <1>4 DEF ListObjects, IterateObjects, GetImageDigest, AnswerFromObjects,
                          Authorize

LEMMA DownloadSteps ==
    ASSUME FindAsset \/ \E kind : Fetch(kind)
    PROVE  CallStep
<1> DEFINE found == /\ artifact.tag \in ToSet(AssetPage.part)
                    /\ artifact.file \in ToSet(uploads[artifact.tag])
<1> HIDE DEF found
<1>1. ASSUME DownloadFails("err"), pc \in {"find", "fetch"} PROVE GiveUp("err")
  BY <1>1 DEF DownloadFails, DropArtifact, GiveUp
<1>2. ASSUME DownloadFails("lost"), pc = "find", ~found, ~AssetPage.more PROVE GiveUp("lost")
  BY <1>2 DEF DownloadFails, DropArtifact, GiveUp, found
<1>3. CASE FindAsset
  <2>1. pc = "find" /\ cfg.kind = "ghr" /\ UNCHANGED regVars
    BY <1>3 DEF FindAsset
  <2>2. CASE /\ cursor' = IF found THEN 0 ELSE cursor + PageSize
             /\ pc' = IF found THEN "fetch" ELSE "find"
             /\ UNCHANGED <<faults, page, names, seen, pick, atStart, outcome, taken, loadVars>>
    <3>1. Searching
      BY <2>1, <2>2 DEF Searching, found, load, loadVars
    <3> QED
      BY <3>1 DEF CallStep
  <2>3. CASE DownloadFails("err")
    BY <1>1, <2>1, <2>3 DEF CallStep
  <2>4. CASE ~found /\ ~AssetPage.more /\ DownloadFails("lost")
    BY <1>2, <2>1, <2>4 DEF CallStep
  <2> QED
    BY <1>3, <2>2, <2>3, <2>4 DEF FindAsset, found
<1>4. ASSUME NEW kind, Fetch(kind) PROVE CallStep
  <2>1. pc = "fetch"
    BY <1>4 DEF Fetch
  <2>2. CASE DownloadFails("err")
    BY <1>1, <2>1, <2>2 DEF CallStep
  <2>3. CASE ~DownloadFails("err")
    <3>1. /\ staged' = {[want |-> taken, got |-> artifact]}
                          \cup (IF kind = "oci" THEN {} ELSE staged)
          /\ artifact' = NoAnswer
          /\ pc' = "report"
          /\ UNCHANGED <<faults, cursor, page, names, seen, pick, atStart, outcome, taken>>
      BY <1>4, <2>3 DEF Fetch, DropArtifact
    <3>2. Fetched
      BY <2>1, <3>1 DEF Fetched
    <3> QED
      BY <3>2 DEF CallStep
  <2> QED
    BY <2>2, <2>3
<1> QED
  BY <1>3, <1>4

LEMMA StepKinds ==
    ASSUME [Next]_vars
    PROVE  CallStep
<1>1. ASSUME UNCHANGED vars PROVE Idle
  BY <1>1 DEF vars, callVars, loadVars, load, Idle
<1>2. ASSUME Report PROVE Idle
  BY <1>2 DEF Report, Idle, loadVars, load
<1>3. ASSUME DownloadReleaseAsset \/ GetObject \/ NewReader \/ Pull PROVE \E kind : Fetch(kind)
  BY <1>3 DEF DownloadReleaseAsset, GetObject, NewReader, Pull
<1>4. ASSUME Idle \/ BeginCurrent \/ ListReleases PROVE CallStep
  BY <1>4 DEF CallStep
<1> QED
  BY <1>1, <1>2, <1>3, <1>4, RegistryIsIdle, PagingSteps, SelectSteps, ArtifactSteps,
     DownloadSteps DEF Next, Current

-----------------------------------------------------------------------------
(* Answers *)

(* A file that may be deployed on this host.                               *)
Fits(f) == f = cfg.artifact \/ (IsArchive(f) /\ MatchesPlatform(f, Host))

(* The first member of S in a list is a member of both.                    *)
LEMMA FirstInIs ==
    ASSUME NEW T, NEW list \in Seq(T), NEW S
    PROVE  \A x \in FirstIn(list, S) : x \in ToSet(list) /\ x \in S
<1>1. DOMAIN list = 1..Len(list)
  OBVIOUS
<1>2. \A x : x \in ToSet(list) <=> \E i \in 1..Len(list) : x = list[i]
  BY Members
<1> QED
  BY <1>1, <1>2 DEF FirstIn

LEMMA CandidatesAre ==
    ASSUME NEW list \in Seq(ToSet(Files))
    PROVE  \A f \in Candidates(list) : f \in ToSet(list) /\ Fits(f)
<1>1. CASE cfg.artifact # ""
  <2>1. Candidates(list) = FirstIn(list, {cfg.artifact})
    BY <1>1 DEF Candidates
  <2>2. \A x \in FirstIn(list, {cfg.artifact}) : x \in ToSet(list) /\ x \in {cfg.artifact}
    BY FirstInIs
  <2> QED
    BY <2>1, <2>2 DEF Fits
<1>2. CASE cfg.artifact = ""
  <2> DEFINE S == {f \in DOMAIN File : IsArchive(f) /\ MatchesPlatform(f, Host)}
  <2>1. Candidates(list) = FirstIn(list, S)
    BY <1>2 DEF Candidates, MatchArtifactByPlatform
  <2>2. \A f \in S : Fits(f)
    BY DEF Fits
  <2> HIDE DEF S
  <2>3. \A x \in FirstIn(list, S) : x \in ToSet(list) /\ x \in S
    BY FirstInIs
  <2> QED
    BY <2>1, <2>2, <2>3
<1> QED
  BY <1>1, <1>2

LEMMA InTextOrderIs ==
    ASSUME NEW list
    PROVE  /\ InTextOrder(list) \in Seq(ToSet(Files))
           /\ \A x : x \in ToSet(InTextOrder(list)) => x \in ToSet(Files) /\ x \in ToSet(list)
<1> DEFINE T == ToSet(Files)
           S == ToSet(list)
<1>1. Files \in Seq(T)
  <2>1. Files \in Seq(DOMAIN File \ {""})
    BY Constants, Zenon
  <2>2. \A i \in 1..Len(Files) : Files[i] \in T
    <3>1. \A x : x \in ToSet(Files) <=> \E i \in 1..Len(Files) : x = Files[i]
      BY <2>1, Members
    <3> QED
      BY <3>1
  <2>3. Len(Files) \in Nat /\ Files \in [1..Len(Files) -> DOMAIN File \ {""}]
    BY <2>1, LenProperties
  <2> HIDE DEF T
  <2>4. Files \in [1..Len(Files) -> T]
    BY <2>2, <2>3
  <2> QED
    BY <2>3, <2>4, SeqDef
<1>2. InTextOrder(list) = Only(Files, S)
  BY DEF InTextOrder
<1> HIDE DEF S, T
<1>3. /\ Only(Files, S) \in Seq(T)
      /\ \A x : x \in ToSet(Only(Files, S)) <=> x \in ToSet(Files) /\ x \in S
  BY <1>1, OnlyKeeps
<1> QED
  BY <1>2, <1>3 DEF S, T

(* An answer names a file that fits, taken from the list it was chosen     *)
(* from.                                                                   *)
LEMMA SourceIs ==
    ASSUME Types, NEW tag, NEW file, Source(tag, file)
    PROVE  /\ tag \in Names \cup {NoVersion}
           /\ file \in ToSet(Files) \cup {NoFile}
           /\ pc \in {"select", "artifact"}
           /\ pc = "select" => /\ cfg.kind = "ghr" /\ tag \in Names
                               /\ tag = FindLatest(names, cfg.format, cfg.pre)
                               /\ file \in ToSet(seen[tag])
           /\ pc = "artifact" => /\ tag = pick
                                 /\ cfg.kind # "oci" => file \in ToSet(uploads[tag])
           /\ cfg.kind # "oci" => Fits(file)
<1>1. CASE pc = "select"
  <2>1. /\ cfg.kind = "ghr" /\ tag = FindLatest(names, cfg.format, cfg.pre) /\ tag # NoVersion
        /\ file \in Candidates(seen[tag])
    BY <1>1 DEF Source
  <2>2. names \in Seq(Names) /\ seen \in [Names -> Seq(ToSet(Files))]
    BY DEF Types, CallOK, FilesOf
  <2>3. tag \in ToSet(names)
    <3> DEFINE format == cfg.format
               pre == cfg.pre
    <3> HIDE DEF format, pre
    <3>1. FindLatest(names, format, pre) # NoVersion
              => FindLatest(names, format, pre) \in ToSet(names)
      BY <2>2, FindLatestIs
    <3> QED
      BY <2>1, <3>1 DEF format, pre
  <2>4. tag \in Names
    <3>1. \A x : x \in ToSet(names) <=> \E i \in 1..Len(names) : x = names[i]
      BY <2>2, Members
    <3>2. \A i \in 1..Len(names) : names[i] \in Names
      BY <2>2
    <3> QED
      BY <2>3, <3>1, <3>2
  <2>5. seen[tag] \in Seq(ToSet(Files))
    BY <2>2, <2>4
  <2>6. file \in ToSet(seen[tag]) /\ Fits(file)
    BY <2>1, <2>5, CandidatesAre
  <2>7. file \in ToSet(Files)
    <3> DEFINE T == ToSet(Files)
               r == seen[tag]
    <3>1. r \in Seq(T) /\ file \in ToSet(r)
      BY <2>5, <2>6
    <3> HIDE DEF T, r
    <3>2. \A x : x \in ToSet(r) <=> \E i \in 1..Len(r) : x = r[i]
      BY <3>1, Members
    <3>3. file \in T
      BY <3>1, <3>2
    <3> QED
      BY <3>3 DEF T
  <2> QED
    BY <1>1, <2>1, <2>4, <2>6, <2>7
<1>2. CASE pc = "artifact"
  <2>1. tag = pick /\ pick \in Names \cup {NoVersion}
    BY <1>2 DEF Source, Types, CallOK
  <2>2. CASE cfg.kind = "oci"
    BY <1>2, <2>1, <2>2 DEF Source
  <2>3. CASE cfg.kind # "oci"
    <3> DEFINE list == uploads[tag]
    <3>1. file \in Candidates(InTextOrder(list))
      BY <1>2, <2>3 DEF Source
    <3> HIDE DEF list
    <3>2. /\ InTextOrder(list) \in Seq(ToSet(Files))
          /\ \A x : x \in ToSet(InTextOrder(list)) => x \in ToSet(Files) /\ x \in ToSet(list)
      BY InTextOrderIs
    <3>3. file \in ToSet(InTextOrder(list)) /\ Fits(file)
      BY <3>1, <3>2, CandidatesAre
    <3> QED
      BY <1>2, <2>1, <2>3, <3>2, <3>3 DEF list
  <2> QED
    BY <2>2, <2>3
<1> QED
  BY <1>1, <1>2 DEF Source

-----------------------------------------------------------------------------
(* Every step keeps the types.                                             *)

LEMMA NothingYet == NoFiles \in FilesOf /\ <<>> \in Seq(Names) /\ 0 \in Nat /\ 0 \in 0..MaxPages
<1>1. MaxPages \in Nat
  BY Sizes
<1> QED
  BY <1>1 DEF NoFiles, FilesOf

LEMMA EndTypes ==
    ASSUME CallOK, Grows, NEW o \in {"ok", "missing", "err", "lost"}, EndCall(o),
           pc' \in {"idle", "find", "fetch", "report"}
    PROVE  CallOK'
<1>1. Len(Lexical) \in Nat
  <2>1. Lexical \in Seq(Names)
    BY Constants, Zenon
  <2> QED
    BY <2>1
<1>2. 0 <= Len(Lexical)
  BY <1>1
<1> QED
  BY <1>2, NothingYet DEF CallOK, EndCall

LEMMA ReleasesTypes ==
    ASSUME Types, Grows, ListReleases
    PROVE  CallOK'
<1> DEFINE page1 == ReleasePage.part
           got == Only(page1, Names \ drafts)
<1>1. releases \in Seq(Names) /\ cursor \in Nat /\ names \in Seq(Names)
  BY DEF Types, RegOK, CallOK
<1>2. page1 \in Seq(Names)
  BY <1>1, ReleasePageIs
<1>3. /\ names' = names \o got /\ cursor' = cursor + PageSize
      /\ pc' \in {"page", "select"} /\ cfg.kind = "ghr"
      /\ seen' = [t \in Names |-> IF t \in ToSet(got) THEN uploads[t] ELSE seen[t]]
      /\ UNCHANGED <<page, pick, atStart, outcome>>
  BY DEF ListReleases, TurnPage
<1> HIDE DEF page1
<1>4. got \in Seq(Names)
  BY <1>2, OnlyKeeps
<1> HIDE DEF got
<1>5. names' \in Seq(Names) /\ cursor' \in Nat
  BY <1>1, <1>3, <1>4, Sizes
<1>6. seen' \in FilesOf
  BY <1>3 DEF Types, RegOK, CallOK, FilesOf
<1>7. cfg'.kind = "ghr"
  BY <1>3 DEF Grows
<1> QED
  BY <1>3, <1>5, <1>6, <1>7 DEF CallOK, Types

LEMMA NamesTypes ==
    ASSUME Types, Grows, TurnNames
    PROVE  CallOK'
<1>1. cursor \in Nat /\ cursor <= Len(Lexical) /\ names \in Seq(Names) /\ page \in 0..MaxPages
  BY DEF Types, CallOK, TurnNames
<1>2. /\ NamePage.part \in Seq(Names)
      /\ NamePage.next \in Nat /\ NamePage.next <= Len(Lexical)
  BY <1>1, NamePageIs
<1>3. /\ names' = names \o NamePage.part /\ cursor' = NamePage.next
      /\ pc' \in {"page", "select"}
      /\ UNCHANGED <<seen, pick, atStart, outcome>>
  BY DEF TurnNames, TurnPage
<1>4. names' \in Seq(Names)
  BY <1>1, <1>2, <1>3
<1>5. page' \in 0..MaxPages
  <2>1. page' = page \/ (~(page >= MaxPages) /\ page' = page + 1)
    BY DEF TurnNames, LimitReached
  <2> QED
    BY <1>1, <2>1, Sizes
<1> QED
  BY <1>2, <1>3, <1>4, <1>5 DEF CallOK, Types

LEMMA PickedTypes ==
    ASSUME Types, Grows, Picked
    PROVE  CallOK' /\ pick' \in ToSet(names) /\ pick' \in Names
<1> DEFINE format == cfg.format
           pre == cfg.pre
<1>1. pick' = FindLatest(names, format, pre) /\ pick' # NoVersion /\ names \in Seq(Names)
  BY DEF Picked, Types, CallOK
<1> HIDE DEF format, pre
<1>2. pick' \in ToSet(names)
  <2>1. FindLatest(names, format, pre) # NoVersion
            => FindLatest(names, format, pre) \in ToSet(names)
    BY <1>1, FindLatestIs
  <2> QED
    BY <1>1, <2>1
<1>3. pick' \in Names
  <2>1. \A x : x \in ToSet(names) <=> \E i \in 1..Len(names) : x = names[i]
    BY <1>1, Members
  <2>2. \A i \in 1..Len(names) : names[i] \in Names
    BY <1>1
  <2> QED
    BY <1>2, <2>1, <2>2
<1> QED
  BY <1>2, <1>3 DEF Types, CallOK, Picked, Grows

LEMMA SearchingTypes ==
    ASSUME Types, Grows, Searching
    PROVE  CallOK'
<1>1. cursor' \in Nat
  <2>1. cursor \in Nat /\ PageSize \in Nat
    BY Sizes DEF Types, CallOK
  <2> QED
    BY <2>1 DEF Searching
<1> QED
  BY <1>1 DEF Types, CallOK, Searching, Grows

LEMMA TypesStep ==
    ASSUME Types, Grows, CallStep
    PROVE  Types'
<1>1. RegOK'
  BY DEF Types, RegOK, Grows
<1>2. CASE Idle
  BY <1>1, <1>2 DEF Types, CallOK, LoadOK, Idle, load, Grows
<1>3. CASE BeginCurrent
  <2>1. atStart' \subseteq Names
    <3>1. \A x : x \in ToSet(releases) <=> \E i \in 1..Len(releases) : x = releases[i]
      BY Members DEF Types, RegOK
    <3>2. \A i \in 1..Len(releases) : releases[i] \in Names
      BY DEF Types, RegOK
    <3> QED
      BY <1>3, <3>1, <3>2 DEF BeginCurrent, Visible
  <2> QED
    BY <1>1, <1>3, <2>1 DEF Types, CallOK, LoadOK, BeginCurrent, loadVars, Grows
<1>4. ASSUME NEW o \in {"missing", "err", "lost"}, GiveUp(o) PROVE Types'
  <2>1. CallOK'
    BY <1>4, EndTypes DEF GiveUp, Types
  <2>2. LoadOK'
    BY <1>4 DEF GiveUp, Types, LoadOK, AnswerType, NoAnswer
  <2> QED
    BY <1>1, <2>1, <2>2 DEF Types
<1>5. CASE ListReleases
  BY <1>1, <1>5, ReleasesTypes DEF Types, LoadOK, ListReleases, loadVars
<1>6. CASE TurnNames
  BY <1>1, <1>6, NamesTypes DEF Types, LoadOK, TurnNames, load
<1>7. CASE Picked
  BY <1>1, <1>7, PickedTypes DEF Types, LoadOK, Picked, load
<1>8. ASSUME NEW tag, NEW file, Answered(tag, file) PROVE Types'
  <2>1. tag \in Names \cup {NoVersion} /\ file \in ToSet(Files) \cup {NoFile}
    BY <1>8, SourceIs DEF Answered
  <2>2. [tag |-> tag, file |-> file] \in AnswerType
    BY <2>1 DEF AnswerType
  <2>3. /\ EndCall("ok") /\ UNCHANGED staged
        /\ \/ taken' = [tag |-> tag, file |-> file] /\ NewArtifact([tag |-> tag, file |-> file])
           \/ pc' = "idle" /\ UNCHANGED <<taken, artifact>>
    BY <1>8 DEF Answered
  <2>4. pc' \in {"idle", "find", "fetch", "report"}
    BY <2>3 DEF NewArtifact
  <2>5. CallOK'
    BY <2>3, <2>4, EndTypes DEF Types
  <2>6. LoadOK'
    BY <2>2, <2>3 DEF NewArtifact, Types, LoadOK
  <2> QED
    BY <1>1, <2>5, <2>6 DEF Types
<1>9. CASE Searching
  BY <1>1, <1>9, SearchingTypes DEF Types, LoadOK, Searching, load
<1>10. CASE Fetched
  <2>1. LoadOK'
    BY <1>10 DEF Fetched, Types, LoadOK, AnswerType, NoAnswer
  <2> QED
    BY <1>1, <1>10, <2>1 DEF Fetched, Types, CallOK, Grows
<1> QED
  BY <1>2, <1>3, <1>4, <1>5, <1>6, <1>7, <1>8, <1>9, <1>10 DEF CallStep

-----------------------------------------------------------------------------
(***************************************************************************)
(* The inductive invariant of the call and of the download.  What a call   *)
(* has collected is in the registry, and stays there; d.artifact is the    *)
(* answer while it is downloaded and gone otherwise; and the release that  *)
(* is searched for is still ahead of the search.                           *)
(***************************************************************************)
CursorOK == pc \in {"idle", "fetch", "report"} => cursor = 0

NamesOK == \A t \in ToSet(names) : t \in Visible

SeenOK == \A t \in Names : \A f \in ToSet(seen[t]) : f \in ToSet(uploads[t])

PickOK == pc = "artifact" => pick \in Visible /\ Eligible(pick)

Good(answer) ==
    /\ answer.tag \in Visible /\ Eligible(answer.tag)
    /\ cfg.kind # "oci" => answer.file \in ToSet(uploads[answer.tag]) /\ Fits(answer.file)

TakenOK == taken # NoAnswer => Good(taken)

ArtifactOK == artifact = IF pc \in {"find", "fetch"} THEN taken ELSE NoAnswer

FindOK ==
    /\ pc \in {"find", "fetch"} => taken # NoAnswer
    /\ pc = "find" => /\ cfg.kind = "ghr"
                      /\ \E i \in 1..Len(releases) : i > cursor /\ releases[i] = taken.tag

CallSafe == CursorOK /\ NamesOK /\ SeenOK /\ PickOK

LoadSafe == TakenOK /\ ArtifactOK /\ FindOK /\ AssetFoundAgain /\ StagedAsAnswered

LEMMA VisibleAreNames ==
    ASSUME RegOK
    PROVE  \A t \in Visible : t \in Names /\ \E i \in 1..Len(releases) : releases[i] = t
<1>1. \A x : x \in ToSet(releases) <=> \E i \in 1..Len(releases) : x = releases[i]
  BY Members DEF RegOK
<1>2. \A i \in 1..Len(releases) : releases[i] \in Names
  BY DEF RegOK
<1> QED
  BY <1>1, <1>2 DEF Visible

LEMMA GoodStays ==
    ASSUME Types, Grows, NEW tag, NEW file, Good([tag |-> tag, file |-> file])
    PROVE  Good([tag |-> tag, file |-> file])'
<1>1. tag \in Visible /\ Eligible(tag)
  BY DEF Good
<1>2. cfg.kind # "oci" => file \in ToSet(uploads[tag]) /\ Fits(file)
  BY DEF Good
<1>3. tag \in Names
  BY <1>1, VisibleAreNames DEF Types
<1>4. /\ tag \in Visible' /\ cfg' = cfg
      /\ (file \in ToSet(uploads[tag]) => file \in ToSet(uploads'[tag]))
  BY <1>1, <1>3 DEF Grows
<1>5. Eligible(tag)' /\ (Fits(file) => Fits(file)')
  BY <1>1, <1>4 DEF Eligible, Fits
<1> QED
  BY <1>2, <1>4, <1>5 DEF Good

LEMMA TakenStays ==
    ASSUME Types, Grows, TakenOK, UNCHANGED taken
    PROVE  TakenOK'
<1>1. PICK tag, file : taken = [tag |-> tag, file |-> file]
  BY DEF Types, LoadOK, AnswerType
<1> DEFINE a == [tag |-> tag, file |-> file]
<1> HIDE DEF a
<1>2. CASE taken = NoAnswer
  BY <1>2 DEF TakenOK
<1>3. CASE taken # NoAnswer
  <2>1. Good(a)
    BY <1>1, <1>3 DEF TakenOK, a
  <2>2. Good(a)'
    BY <2>1, GoodStays DEF a
  <2> QED
    BY <1>1, <2>2 DEF TakenOK, Good, a
<1> QED
  BY <1>2, <1>3

(* What Current answers is in the registry and fits.                       *)
LEMMA GoodSource ==
    ASSUME Types, CallSafe, NEW tag, NEW file, Source(tag, file)
    PROVE  Good([tag |-> tag, file |-> file]) /\ tag \in Names
<1>1. CASE pc = "select"
  <2>1. /\ cfg.kind = "ghr" /\ tag \in Names /\ tag = FindLatest(names, cfg.format, cfg.pre)
        /\ file \in ToSet(seen[tag]) /\ Fits(file)
    BY <1>1, SourceIs
  <2>2. tag # NoVersion /\ names \in Seq(Names)
    BY <1>1 DEF Source, Types, CallOK
  <2>3. tag \in ToSet(names) /\ Eligible(tag)
    <3> DEFINE format == cfg.format
               pre == cfg.pre
    <3> HIDE DEF format, pre
    <3>1. LET best == FindLatest(names, format, pre)
          IN  best # NoVersion => best \in ToSet(names) /\ Admissible(format, pre, Version[best])
      BY <2>2, FindLatestIs
    <3> QED
      BY <2>1, <2>2, <3>1 DEF format, pre, Eligible
  <2>4. tag \in Visible /\ file \in ToSet(uploads[tag])
    BY <2>1, <2>3 DEF CallSafe, NamesOK, SeenOK
  <2> QED
    BY <2>1, <2>3, <2>4 DEF Good
<1>2. CASE pc = "artifact"
  <2>1. tag \in Visible /\ Eligible(tag) /\ tag = pick
    BY <1>2, SourceIs DEF CallSafe, PickOK
  <2>2. cfg.kind # "oci" => file \in ToSet(uploads[tag]) /\ Fits(file)
    BY <1>2, SourceIs
  <2>3. tag \in Names
    BY <2>1, VisibleAreNames DEF Types
  <2> QED
    BY <2>1, <2>2, <2>3 DEF Good
<1> QED
  BY <1>1, <1>2, SourceIs

(* The call's own variables, left alone or dropped.                        *)
LEMMA KeptSafe ==
    ASSUME Types, CallSafe, Grows, UNCHANGED <<names, seen>>
    PROVE  NamesOK' /\ SeenOK'
BY DEF CallSafe, NamesOK, SeenOK, Grows

LEMMA EndSafe ==
    ASSUME NEW o, EndCall(o), pc' # "artifact"
    PROVE  CallSafe'
<1>1. cursor' = 0 /\ names' = <<>> /\ seen' = [t \in Names |-> <<>>]
  BY DEF EndCall, NoFiles
<1>2. NamesOK'
  BY <1>1, MembersEmpty DEF NamesOK
<1>3. SeenOK'
  BY <1>1, MembersEmpty DEF SeenOK
<1> QED
  BY <1>1, <1>2, <1>3 DEF CallSafe, CursorOK, PickOK

LEMMA ReleasesSafe ==
    ASSUME Types, CallSafe, Grows, ListReleases
    PROVE  CallSafe'
<1> DEFINE page1 == ReleasePage.part
           S == Names \ drafts
           got == Only(page1, S)
<1>1. releases \in Seq(Names) /\ cursor \in Nat /\ names \in Seq(Names)
  BY DEF Types, RegOK, CallOK
<1>2. page1 \in Seq(Names) /\ \A x \in ToSet(page1) : x \in ToSet(releases)
  BY <1>1, ReleasePageIs
<1>3. /\ names' = names \o got
      /\ pc' \in {"page", "select"}
      /\ seen' = [t \in Names |-> IF t \in ToSet(got) THEN uploads[t] ELSE seen[t]]
      /\ UNCHANGED <<cfg, releases, drafts, uploads>>
  BY DEF ListReleases, TurnPage, regVars
<1> HIDE DEF page1
<1>4. got \in Seq(Names) /\ \A x : x \in ToSet(got) <=> x \in ToSet(page1) /\ x \in S
  <2> HIDE DEF S
  <2> QED
    BY <1>2, OnlyKeeps
<1>5. \A x \in ToSet(got) : x \in Visible
  BY <1>2, <1>4 DEF Visible
<1> HIDE DEF got
<1>6. \A x : x \in ToSet(names \o got) <=> x \in ToSet(names) \/ x \in ToSet(got)
  BY <1>1, <1>4, MembersConcat
<1>7. NamesOK'
  BY <1>3, <1>5, <1>6 DEF CallSafe, NamesOK, Visible
<1>8. SeenOK'
  BY <1>3 DEF CallSafe, SeenOK
<1> QED
  BY <1>3, <1>7, <1>8 DEF CallSafe, CursorOK, PickOK

LEMMA NamesSafe ==
    ASSUME Types, CallSafe, Grows, TurnNames
    PROVE  CallSafe'
<1>1. cursor \in Nat /\ cursor <= Len(Lexical) /\ names \in Seq(Names)
  BY DEF Types, CallOK, TurnNames
<1>2. NamePage.part \in Seq(Names) /\ \A x \in ToSet(NamePage.part) : x \in Visible
  BY <1>1, NamePageIs
<1>3. /\ names' = names \o NamePage.part
      /\ pc' \in {"page", "select"}
      /\ UNCHANGED <<cfg, releases, drafts, uploads, seen>>
  BY DEF TurnNames, TurnPage, regVars
<1>4. NamesOK'
  <2> DEFINE got == NamePage.part
  <2>1. got \in Seq(Names) /\ (\A x \in ToSet(got) : x \in Visible) /\ names' = names \o got
    BY <1>2, <1>3
  <2> HIDE DEF got
  <2>2. \A x : x \in ToSet(names \o got) <=> x \in ToSet(names) \/ x \in ToSet(got)
    BY <1>1, <2>1, MembersConcat
  <2> QED
    BY <1>3, <2>1, <2>2 DEF CallSafe, NamesOK, Visible
<1> QED
  BY <1>3, <1>4 DEF CallSafe, SeenOK, CursorOK, PickOK

LEMMA CallSafeStep ==
    ASSUME Types, CallSafe, Grows, CallStep
    PROVE  CallSafe'
<1>1. CASE Idle
  <2>1. NamesOK' /\ SeenOK'
    BY <1>1, KeptSafe DEF Idle
  <2>2. PickOK'
    BY <1>1 DEF CallSafe, PickOK, Idle, Grows, Eligible
  <2>3. CursorOK'
    BY <1>1 DEF CallSafe, CursorOK, Idle
  <2> QED
    BY <2>1, <2>2, <2>3 DEF CallSafe
<1>2. CASE BeginCurrent
  <2>1. NamesOK' /\ SeenOK'
    BY <1>2, KeptSafe DEF BeginCurrent
  <2> QED
    BY <1>2, <2>1 DEF CallSafe, CursorOK, PickOK, BeginCurrent
<1>3. ASSUME NEW o, GiveUp(o) PROVE CallSafe'
  BY <1>3, EndSafe DEF GiveUp
<1>4. CASE Picked
  <2>1. NamesOK' /\ SeenOK'
    BY <1>4, KeptSafe DEF Picked
  <2>2. pick' \in Visible /\ pick' \in ToSet(names)
    BY <1>4, PickedTypes DEF CallSafe, NamesOK
  <2>3. Eligible(pick')
    <3> DEFINE format == cfg.format
               pre == cfg.pre
    <3>1. pick' = FindLatest(names, format, pre) /\ pick' # NoVersion /\ names \in Seq(Names)
      BY <1>4 DEF Picked, Types, CallOK
    <3> HIDE DEF format, pre
    <3>2. LET best == FindLatest(names, format, pre)
          IN  best # NoVersion => Admissible(format, pre, Version[best])
      BY <3>1, FindLatestIs
    <3> QED
      BY <3>1, <3>2 DEF format, pre, Eligible
  <2>4. PickOK'
    BY <2>2, <2>3 DEF PickOK, Grows, Eligible
  <2> QED
    BY <1>4, <2>1, <2>4 DEF CallSafe, CursorOK, Picked
<1>5. ASSUME NEW tag, NEW file, Answered(tag, file) PROVE CallSafe'
  <2>1. EndCall("ok") /\ pc' # "artifact"
    BY <1>5 DEF Answered, NewArtifact
  <2> QED
    BY <2>1, EndSafe
<1>6. CASE Searching
  <2>1. NamesOK' /\ SeenOK'
    BY <1>6, KeptSafe DEF Searching
  <2> QED
    BY <1>6, <2>1 DEF CallSafe, CursorOK, PickOK, Searching
<1>7. CASE Fetched
  <2>1. NamesOK' /\ SeenOK'
    BY <1>7, KeptSafe DEF Fetched
  <2> QED
    BY <1>7, <2>1 DEF CallSafe, CursorOK, PickOK, Fetched
<1> QED
  BY <1>1, <1>2, <1>3, <1>4, <1>5, <1>6, <1>7, ReleasesSafe, NamesSafe DEF CallStep

(* A release that is not on this page is ahead, and there are more pages.  *)
LEMMA StillAhead ==
    ASSUME Types, LoadSafe, pc = "find",
           ~(/\ artifact.tag \in ToSet(AssetPage.part)
             /\ artifact.file \in ToSet(uploads[artifact.tag]))
    PROVE  /\ AssetPage.more
           /\ \E i \in 1..Len(releases) : i > cursor + PageSize /\ releases[i] = taken.tag
<1>1. artifact = taken /\ taken # NoAnswer /\ cfg.kind = "ghr"
  BY DEF LoadSafe, ArtifactOK, FindOK
<1>2. PICK i \in 1..Len(releases) : i > cursor /\ releases[i] = taken.tag
  BY DEF LoadSafe, FindOK
<1>3. taken.file \in ToSet(uploads[taken.tag])
  BY <1>1 DEF LoadSafe, TakenOK, Good
<1>4. releases[i] \notin ToSet(ReleasePage.part)
  BY <1>1, <1>2, <1>3 DEF AssetPage
<1>5. releases \in Seq(Names) /\ cursor \in Nat
  BY DEF Types, RegOK, CallOK
<1>6. i > cursor + PageSize /\ ReleasePage.more
  BY <1>2, <1>4, <1>5, ReleasePageIs
<1> QED
  BY <1>2, <1>6 DEF AssetPage

LEMMA AheadStays ==
    ASSUME Types, Grows, FindOK, pc = "find", UNCHANGED <<pc, cursor, taken>>
    PROVE  FindOK'
<1>1. PICK i \in 1..Len(releases) : i > cursor /\ releases[i] = taken.tag
  BY DEF FindOK
<1>2. PICK j \in 1..Len(releases') : j >= i /\ releases'[j] = releases[i]
  BY DEF Grows
<1>3. cursor \in Nat /\ Len(releases) \in Nat /\ Len(releases') \in Nat
  BY DEF Types, CallOK, RegOK, Grows
<1>4. j > cursor
  BY <1>1, <1>2, <1>3
<1>5. releases'[j] = taken'.tag /\ j > cursor'
  BY <1>1, <1>2, <1>4
<1> QED
  BY <1>5 DEF FindOK, Grows

LEMMA AnsweredSafe ==
    ASSUME Types, CallSafe, LoadSafe, Grows, NEW tag, NEW file, Answered(tag, file)
    PROVE  LoadSafe'
<1> DEFINE a == [tag |-> tag, file |-> file]
<1>1. pc \in {"select", "artifact"}
  BY SourceIs DEF Answered
<1>2. artifact = NoAnswer
  BY <1>1 DEF LoadSafe, ArtifactOK
<1>3. Good(a) /\ tag \in Names
  BY GoodSource DEF Answered
<1>4. Good(a)' /\ a.tag = tag
  BY <1>3, GoodStays
<1>5. a # NoAnswer
  <2>1. tag # NoVersion
    BY <1>3, Constants
  <2> QED
    BY <2>1 DEF NoAnswer
<1>6. tag \in Visible
  BY <1>3 DEF Good
<1>7. /\ EndCall("ok") /\ UNCHANGED staged /\ UNCHANGED regVars
      /\ \/ taken' = a /\ NewArtifact(a)
         \/ pc' = "idle" /\ UNCHANGED <<taken, artifact>>
  BY DEF Answered
<1> HIDE DEF a
<1>8. AssetFoundAgain' /\ StagedAsAnswered'
  BY <1>7 DEF EndCall, AssetFoundAgain, StagedAsAnswered, LoadSafe
<1>9. CASE pc' = "idle" /\ UNCHANGED <<taken, artifact>>
  <2>1. TakenOK'
    BY <1>9, TakenStays DEF LoadSafe
  <2> QED
    BY <1>2, <1>8, <1>9, <2>1 DEF LoadSafe, ArtifactOK, FindOK
<1>10. CASE taken' = a /\ NewArtifact(a)
  <2>1. TakenOK'
    BY <1>4, <1>10 DEF TakenOK, Good
  <2>2. ArtifactOK'
    BY <1>2, <1>10 DEF ArtifactOK, NewArtifact
  <2>3. pc' = "find" => cfg.kind = "ghr"
    BY <1>10 DEF NewArtifact
  <2>4. \E i \in 1..Len(releases) : i > 0 /\ releases[i] = tag
    <3>1. PICK i \in 1..Len(releases) : releases[i] = tag
      BY <1>6, VisibleAreNames DEF Types
    <3>2. i > 0
      BY DEF Types, RegOK
    <3> QED
      BY <3>1, <3>2
  <2>5. releases' = releases /\ cfg' = cfg /\ cursor' = 0
    BY <1>7 DEF regVars, EndCall
  <2>6. FindOK'
    BY <1>4, <1>5, <1>10, <2>3, <2>4, <2>5 DEF FindOK
  <2> QED
    BY <1>8, <2>1, <2>2, <2>6 DEF LoadSafe
<1> QED
  BY <1>7, <1>9, <1>10

LEMMA LoadSafeStep ==
    ASSUME Types, CallSafe, LoadSafe, Grows, CallStep
    PROVE  LoadSafe'
<1>1. ASSUME UNCHANGED taken PROVE TakenOK'
  BY <1>1, TakenStays DEF LoadSafe
<1>2. CASE Idle
  <2>1. TakenOK'
    BY <1>1, <1>2 DEF Idle, load
  <2>2. AssetFoundAgain' /\ StagedAsAnswered' /\ ArtifactOK'
    BY <1>2 DEF Idle, load, LoadSafe, AssetFoundAgain, StagedAsAnswered, ArtifactOK
  <2>3. FindOK'
    <3>1. CASE pc = "find"
      BY <1>2, <3>1, AheadStays DEF Idle, load, LoadSafe
    <3>2. CASE pc # "find"
      BY <1>2, <3>2 DEF Idle, load, LoadSafe, FindOK
    <3> QED
      BY <3>1, <3>2
  <2> QED
    BY <2>1, <2>2, <2>3 DEF LoadSafe
<1>3. CASE BeginCurrent \/ ListReleases \/ TurnNames \/ Picked
  <2>1. /\ UNCHANGED <<outcome, taken, artifact, staged>>
        /\ pc \notin {"find", "fetch"} /\ pc' \notin {"find", "fetch"}
    BY <1>3 DEF BeginCurrent, ListReleases, TurnNames, Picked, TurnPage, load, loadVars
  <2>2. TakenOK'
    BY <1>1, <2>1
  <2> QED
    BY <2>1, <2>2 DEF LoadSafe, AssetFoundAgain, StagedAsAnswered, ArtifactOK, FindOK
<1>4. ASSUME NEW o \in {"missing", "err", "lost"}, GiveUp(o) PROVE LoadSafe'
  <2>1. pc' = "idle" /\ UNCHANGED <<taken, staged>> /\ outcome' = o
    BY <1>4 DEF GiveUp, EndCall
  <2>2. TakenOK'
    BY <1>1, <2>1
  <2>3. artifact' = NoAnswer
    BY <1>4 DEF GiveUp, LoadSafe, ArtifactOK
  <2>4. o # "lost"
    BY <1>4, StillAhead DEF GiveUp
  <2> QED
    BY <2>1, <2>2, <2>3, <2>4
       DEF LoadSafe, AssetFoundAgain, StagedAsAnswered, ArtifactOK, FindOK
<1>5. CASE Searching
  <2>1. UNCHANGED <<cfg, releases, outcome, taken, artifact, staged>> /\ pc = "find"
    BY <1>5 DEF Searching, load, regVars
  <2>2. TakenOK'
    BY <1>1, <2>1
  <2>3. pc' \in {"find", "fetch"}
    BY <1>5 DEF Searching
  <2>4. AssetFoundAgain' /\ StagedAsAnswered' /\ ArtifactOK'
    BY <2>1, <2>3 DEF LoadSafe, AssetFoundAgain, StagedAsAnswered, ArtifactOK
  <2>5. CASE pc' = "fetch"
    BY <2>1, <2>2, <2>4, <2>5 DEF LoadSafe, FindOK
  <2>6. CASE pc' = "find"
    <3>1. /\ cursor' = cursor + PageSize
          /\ \E i \in 1..Len(releases) : i > cursor + PageSize /\ releases[i] = taken.tag
      BY <1>5, <2>1, <2>6, StillAhead DEF Searching
    <3>2. FindOK'
      BY <2>1, <2>6, <3>1 DEF LoadSafe, FindOK
    <3> QED
      BY <2>2, <2>4, <3>2 DEF LoadSafe
  <2> QED
    BY <2>3, <2>5, <2>6
<1>6. CASE Fetched
  <2>1. artifact = taken
    BY <1>6 DEF Fetched, LoadSafe, ArtifactOK
  <2>2. TakenOK'
    BY <1>1, <1>6 DEF Fetched
  <2>3. StagedAsAnswered'
    <3> SUFFICES ASSUME NEW e \in staged' PROVE e.got = e.want
      BY DEF StagedAsAnswered
    <3>1. e \in staged \/ e = [want |-> taken, got |-> artifact]
      BY <1>6 DEF Fetched
    <3> QED
      BY <2>1, <3>1 DEF LoadSafe, StagedAsAnswered
  <2> QED
    BY <1>6, <2>2, <2>3 DEF Fetched, LoadSafe, AssetFoundAgain, ArtifactOK, FindOK
<1> QED
  BY <1>2, <1>3, <1>4, <1>5, <1>6, AnsweredSafe DEF CallStep

-----------------------------------------------------------------------------
(***************************************************************************)
(* What a call has not passed over.  While it pages, every name that was   *)
(* visible when it started has been read or is ahead of the cursor, in the *)
(* releases as they are now or in text order; then the latest of them is   *)
(* chosen, and the answer of the last call is one of them.                 *)
(***************************************************************************)
Ahead(t) ==
    IF cfg.kind = "ghr"
    THEN \E i \in 1..Len(releases) : i > cursor /\ releases[i] = t
    ELSE \E i \in 1..Len(Lexical) : i > cursor /\ Lexical[i] = t

StartOK == \A t \in atStart : t \in Visible

PageCov == pc = "page" => \A t \in atStart : t \in ToSet(names) \/ Ahead(t)

SelectCov == pc = "select" => \A t \in atStart : t \in ToSet(names)

AboveStart(tag) == \A t \in atStart : Eligible(t) => Rank[t] <= Rank[tag]

PickCov == pc = "artifact" => AboveStart(pick)

AnswerCov ==
    pc \in {"idle", "find", "fetch", "report"} /\ outcome = "ok" /\ Slot = ""
        => taken # NoAnswer /\ AboveStart(taken.tag)

TakenCov == pc \in {"page", "select", "artifact"} /\ taken # NoAnswer => taken.tag \in atStart

Covers == StartOK /\ PageCov /\ SelectCov /\ PickCov /\ AnswerCov /\ TakenCov

(* The latest of the names is above all that was visible at the start.     *)
LEMMA LatestCovers ==
    ASSUME Types, Covers, pc = "select",
           FindLatest(names, cfg.format, cfg.pre) # NoVersion
    PROVE  AboveStart(FindLatest(names, cfg.format, cfg.pre))
<1> DEFINE format == cfg.format
           pre == cfg.pre
           best == FindLatest(names, format, pre)
<1>2. names \in Seq(Names)
  BY DEF Types, CallOK
<1>3. \A t \in atStart : t \in ToSet(names)
  BY DEF Covers, SelectCov
<1> HIDE DEF format, pre
<1>4. best # NoVersion => \A t \in ToSet(names) :
                             Admissible(format, pre, Version[t]) => Rank[t] <= Rank[best]
  BY <1>2, FindLatestIs
<1> QED
  BY <1>3, <1>4 DEF AboveStart, Eligible, format, pre

LEMMA SourceCovers ==
    ASSUME Types, Covers, NEW tag, NEW file, Source(tag, file)
    PROVE  AboveStart(tag)
<1>1. CASE pc = "select"
  <2>1. tag = FindLatest(names, cfg.format, cfg.pre) /\ tag # NoVersion
    BY <1>1 DEF Source
  <2> QED
    BY <1>1, <2>1, LatestCovers
<1>2. CASE pc = "artifact"
  BY <1>2 DEF Source, Covers, PickCov
<1> QED
  BY <1>1, <1>2 DEF Source

LEMMA ReleasesCover ==
    ASSUME Types, Covers, Grows, ListReleases
    PROVE  PageCov' /\ SelectCov'
<1> DEFINE page1 == ReleasePage.part
           more == ReleasePage.more
           S == Names \ drafts
           got == Only(page1, S)
<1>1. releases \in Seq(Names) /\ cursor \in Nat /\ names \in Seq(Names)
  BY DEF Types, RegOK, CallOK
<1>2. /\ page1 \in Seq(Names)
      /\ \A i \in 1..Len(releases) :
            i > cursor => releases[i] \in ToSet(page1) \/ (i > cursor + PageSize /\ more)
  BY <1>1, ReleasePageIs
<1>3. /\ names' = names \o got /\ cursor' = cursor + PageSize
      /\ pc' = IF more THEN "page" ELSE "select"
      /\ pc = "page" /\ cfg.kind = "ghr"
      /\ UNCHANGED <<cfg, releases, drafts, atStart>>
  BY DEF ListReleases, TurnPage, regVars
<1> HIDE DEF page1, more
<1>4. got \in Seq(Names) /\ \A x : x \in ToSet(got) <=> x \in ToSet(page1) /\ x \in S
  <2> HIDE DEF S
  <2> QED
    BY <1>2, OnlyKeeps
<1>5. \A x \in Visible : x \in S
  BY VisibleAreNames DEF Types, Visible
<1> HIDE DEF got, S
<1>6. \A x : x \in ToSet(names \o got) <=> x \in ToSet(names) \/ x \in ToSet(got)
  BY <1>1, <1>4, MembersConcat
<1>7. ASSUME NEW t \in atStart
      PROVE  t \in ToSet(names') \/ (pc' = "page" /\ Ahead(t)')
  <2>1. t \in Visible
    BY DEF Covers, StartOK
  <2>2. CASE t \in ToSet(names)
    BY <1>3, <1>6, <2>2
  <2>3. CASE t \notin ToSet(names)
    <3>1. PICK i \in 1..Len(releases) : i > cursor /\ releases[i] = t
      BY <1>3, <2>3 DEF Covers, PageCov, Ahead
    <3>2. CASE t \in ToSet(page1)
      BY <1>3, <1>4, <1>5, <1>6, <2>1, <3>2
    <3>3. CASE i > cursor + PageSize /\ more
      <4>1. i > cursor' /\ releases'[i] = t /\ i \in 1..Len(releases') /\ cfg'.kind = "ghr"
        BY <1>3, <3>1, <3>3
      <4>2. Ahead(t)'
        BY <4>1 DEF Ahead
      <4> QED
        BY <1>3, <3>3, <4>2
    <3> QED
      BY <1>2, <3>1, <3>2, <3>3
  <2> QED
    BY <2>2, <2>3
<1>8. atStart' = atStart
  BY <1>3
<1> QED
  BY <1>7, <1>8 DEF PageCov, SelectCov

LEMMA NamesCover ==
    ASSUME Types, Covers, Grows, TurnNames
    PROVE  PageCov' /\ SelectCov'
<1> DEFINE got == NamePage.part
           next == NamePage.next
           more == NamePage.more
<1>1. cursor \in Nat /\ cursor <= Len(Lexical) /\ names \in Seq(Names)
  BY DEF Types, CallOK, TurnNames
<1>2. /\ got \in Seq(Names)
      /\ \A i \in 1..Len(Lexical) :
            i > cursor /\ Lexical[i] \in Visible
                => Lexical[i] \in ToSet(got) \/ (i > next /\ more)
  BY <1>1, NamePageIs
<1>3. /\ names' = names \o got /\ cursor' = next
      /\ pc' = IF more THEN "page" ELSE "select"
      /\ pc = "page" /\ cfg.kind # "ghr"
      /\ UNCHANGED <<cfg, atStart>>
  BY DEF TurnNames, TurnPage, regVars
<1> HIDE DEF got, next, more
<1>4. \A x : x \in ToSet(names \o got) <=> x \in ToSet(names) \/ x \in ToSet(got)
  BY <1>1, <1>2, MembersConcat
<1>5. ASSUME NEW t \in atStart
      PROVE  t \in ToSet(names') \/ (pc' = "page" /\ Ahead(t)')
  <2>1. t \in Visible
    BY DEF Covers, StartOK
  <2>2. CASE t \in ToSet(names)
    BY <1>3, <1>4, <2>2
  <2>3. CASE t \notin ToSet(names)
    <3>1. PICK i \in 1..Len(Lexical) : i > cursor /\ Lexical[i] = t
      BY <1>3, <2>3 DEF Covers, PageCov, Ahead
    <3>2. CASE t \in ToSet(got)
      BY <1>3, <1>4, <3>2
    <3>3. CASE i > next /\ more
      <4>1. i > cursor' /\ cfg'.kind # "ghr"
        BY <1>3, <3>3
      <4>2. Ahead(t)'
        BY <3>1, <4>1 DEF Ahead
      <4> QED
        BY <1>3, <3>3, <4>2
    <3> QED
      BY <1>2, <2>1, <3>1, <3>2, <3>3
  <2> QED
    BY <2>2, <2>3
<1>6. atStart' = atStart
  BY <1>3
<1> QED
  BY <1>5, <1>6 DEF PageCov, SelectCov

(* At the start of a call everything visible is ahead of it.               *)
LEMMA BeginCovers ==
    ASSUME Types, CallSafe, LoadSafe, Grows, BeginCurrent
    PROVE  Covers'
<1>1. /\ pc' = "page" /\ atStart' = Visible
      /\ UNCHANGED <<cfg, releases, drafts, cursor, taken>>
  BY DEF BeginCurrent, regVars
<1>2. cursor = 0
  BY DEF BeginCurrent, CallSafe, CursorOK
<1>3. ASSUME NEW t \in Visible PROVE Ahead(t)'
  <2>1. CASE cfg.kind = "ghr"
    <3>1. PICK i \in 1..Len(releases) : releases[i] = t
      BY VisibleAreNames DEF Types
    <3>2. i > 0
      BY DEF Types, RegOK
    <3>3. i > cursor' /\ releases'[i] = t /\ i \in 1..Len(releases') /\ cfg'.kind = "ghr"
      BY <1>1, <1>2, <2>1, <3>1, <3>2
    <3> QED
      BY <3>3 DEF Ahead
  <2>2. CASE cfg.kind # "ghr"
    <3>1. t \in Names
      BY VisibleAreNames DEF Types
    <3>2. Lexical \in Seq(Names) /\ ToSet(Lexical) = Names
      BY Constants, Zenon
    <3>3. \A x : x \in ToSet(Lexical) <=> \E i \in 1..Len(Lexical) : x = Lexical[i]
      BY <3>2, Members
    <3>4. PICK i \in 1..Len(Lexical) : t = Lexical[i]
      BY <3>1, <3>2, <3>3
    <3>5. i > 0
      BY <3>2
    <3>6. i > cursor' /\ cfg'.kind # "ghr"
      BY <1>1, <1>2, <2>2, <3>5
    <3> QED
      BY <3>4, <3>6 DEF Ahead
  <2> QED
    BY <2>1, <2>2
<1>4. StartOK'
  BY <1>1 DEF StartOK, Visible
<1>5. PageCov'
  BY <1>1, <1>3 DEF PageCov
<1>6. TakenCov'
  BY <1>1 DEF TakenCov, LoadSafe, TakenOK, Good
<1> QED
  BY <1>1, <1>4, <1>5, <1>6 DEF Covers, SelectCov, PickCov, AnswerCov

LEMMA AheadKept ==
    ASSUME Types, Grows, UNCHANGED cursor, NEW t, Ahead(t)
    PROVE  Ahead(t)'
<1>1. cfg' = cfg
  BY DEF Grows
<1>2. CASE cfg.kind = "ghr"
  <2>1. PICK i \in 1..Len(releases) : i > cursor /\ releases[i] = t
    BY <1>2 DEF Ahead
  <2>2. PICK j \in 1..Len(releases') : j >= i /\ releases'[j] = releases[i]
    BY DEF Grows
  <2>3. cursor \in Nat /\ Len(releases) \in Nat /\ Len(releases') \in Nat
    BY DEF Types, CallOK, RegOK, Grows
  <2>4. j > cursor'
    BY <2>1, <2>2, <2>3
  <2> QED
    BY <1>1, <1>2, <2>1, <2>2, <2>4 DEF Ahead
<1>3. CASE cfg.kind # "ghr"
  BY <1>1, <1>3 DEF Ahead
<1> QED
  BY <1>2, <1>3

LEMMA AboveKept ==
    ASSUME Grows, UNCHANGED atStart, NEW tag, AboveStart(tag)
    PROVE  AboveStart(tag)'
BY DEF AboveStart, Eligible, Grows

LEMMA CoversStep ==
    ASSUME Types, CallSafe, LoadSafe, Covers, Grows, CallStep
    PROVE  Covers'
<1>1. ASSUME UNCHANGED atStart PROVE StartOK'
  BY <1>1 DEF Covers, StartOK, Grows
<1>2. ASSUME NEW o, EndCall(o), o # "ok", pc' = "idle", UNCHANGED taken PROVE Covers'
  BY <1>1, <1>2 DEF EndCall, Covers, PageCov, SelectCov, PickCov, AnswerCov, TakenCov
<1>3. CASE Idle
  <2>1. UNCHANGED <<cursor, names, pick, atStart, outcome, taken>>
    BY <1>3 DEF Idle, load
  <2>2. PageCov'
    BY <1>3, <2>1, AheadKept DEF Covers, PageCov, Idle
  <2>3. PickCov'
    BY <1>3, <2>1 DEF Covers, PickCov, AboveStart, Eligible, Grows, Idle
  <2>4. AnswerCov'
    BY <1>3, <2>1 DEF Covers, AnswerCov, AboveStart, Eligible, Grows, Idle
  <2> QED
    BY <1>1, <1>3, <2>1, <2>2, <2>3, <2>4 DEF Covers, SelectCov, TakenCov, Idle
<1>4. ASSUME NEW o \in {"missing", "err", "lost"}, GiveUp(o) PROVE Covers'
  BY <1>2, <1>4 DEF GiveUp
<1>5. CASE ListReleases \/ TurnNames
  <2>1. /\ pc = "page" /\ pc' \in {"page", "select"}
        /\ UNCHANGED <<atStart, taken>>
    BY <1>5 DEF ListReleases, TurnNames, TurnPage, load
  <2>2. PageCov' /\ SelectCov'
    BY <1>5, ReleasesCover, NamesCover
  <2> QED
    BY <1>1, <2>1, <2>2 DEF Covers, PickCov, AnswerCov, TakenCov
<1>6. CASE Picked
  <2>1. /\ pc = "select" /\ pc' = "artifact" /\ UNCHANGED <<atStart, taken>>
        /\ pick' = FindLatest(names, cfg.format, cfg.pre) /\ pick' # NoVersion
    BY <1>6 DEF Picked, load
  <2>2. AboveStart(pick')
    BY <2>1, LatestCovers
  <2>3. PickCov'
    BY <2>1, <2>2 DEF PickCov, AboveStart, Eligible, Grows
  <2> QED
    BY <1>1, <2>1, <2>3 DEF Covers, PageCov, SelectCov, AnswerCov, TakenCov
<1>7. ASSUME NEW tag, NEW file, Answered(tag, file) PROVE Covers'
  <2>1. AboveStart(tag) /\ tag \in Names
    BY <1>7, SourceCovers, GoodSource DEF Answered
  <2>2. UNCHANGED atStart /\ pc' \in {"idle", "find", "fetch", "report"}
    BY <1>7 DEF Answered, EndCall, NewArtifact
  <2>3. Slot = "" => taken' = [tag |-> tag, file |-> file]
    BY <1>7 DEF Answered, SlotMatches
  <2>4. tag # NoVersion
    BY <2>1, Constants
  <2>5. ASSUME Slot = "" PROVE taken' # NoAnswer /\ taken'.tag = tag
    <3> DEFINE a == [tag |-> tag, file |-> file]
    <3>1. a.tag = tag /\ NoAnswer.tag = NoVersion
      BY DEF NoAnswer
    <3> HIDE DEF a
    <3>2. a # NoAnswer
      BY <2>4, <3>1
    <3>3. taken' = a
      BY <2>3, <2>5 DEF a
    <3> QED
      BY <3>1, <3>2, <3>3
  <2>6. AboveStart(tag)'
    BY <2>1, <2>2, AboveKept
  <2>7. AnswerCov'
    BY <2>5, <2>6 DEF AnswerCov, AboveStart
  <2> QED
    BY <1>1, <2>2, <2>7 DEF Covers, PageCov, SelectCov, PickCov, TakenCov
<1>8. CASE Searching
  <2>1. /\ pc = "find" /\ pc' \in {"find", "fetch"}
        /\ UNCHANGED <<atStart, outcome, taken>>
    BY <1>8 DEF Searching, load
  <2>2. AnswerCov'
    BY <2>1 DEF Covers, AnswerCov, AboveStart, Eligible, Grows
  <2> QED
    BY <1>1, <2>1, <2>2 DEF Covers, PageCov, SelectCov, PickCov, TakenCov
<1>9. CASE Fetched
  <2>1. pc = "fetch" /\ pc' = "report" /\ UNCHANGED <<atStart, outcome, taken>>
    BY <1>9 DEF Fetched
  <2>2. AnswerCov'
    BY <2>1 DEF Covers, AnswerCov, AboveStart, Eligible, Grows
  <2> QED
    BY <1>1, <2>1, <2>2 DEF Covers, PageCov, SelectCov, PickCov, TakenCov
<1> QED
  BY <1>3, <1>4, <1>5, <1>6, <1>7, <1>8, <1>9, BeginCovers DEF CallStep

-----------------------------------------------------------------------------
(* Theorems *)

LEMMA InitIsSafe ==
    ASSUME Init
    PROVE  Types /\ CallSafe /\ LoadSafe /\ Covers /\ CountersOK
<1>1. Types
  <2>1. RegOK
    BY NothingYet DEF Init, RegOK
  <2>2. Len(Lexical) \in Nat
    <3>1. Lexical \in Seq(Names)
      BY Constants, Zenon
    <3> QED
      BY <3>1
  <2>3. 0 <= Len(Lexical)
    BY <2>2
  <2>4. CallOK
    BY <2>3, NothingYet DEF Init, CallOK
  <2>5. LoadOK
    BY DEF Init, LoadOK, AnswerType, NoAnswer
  <2> QED
    BY <2>1, <2>4, <2>5 DEF Types
<1>2. CallSafe
  <2>1. SeenOK
    BY MembersEmpty DEF Init, SeenOK, NoFiles
  <2> QED
    BY <2>1, MembersEmpty DEF Init, CallSafe, CursorOK, NamesOK, PickOK
<1>3. LoadSafe
  BY DEF Init, LoadSafe, TakenOK, ArtifactOK, FindOK, AssetFoundAgain, StagedAsAnswered
<1>4. Covers
  BY DEF Init, Covers, StartOK, PageCov, SelectCov, PickCov, AnswerCov, TakenCov
<1>5. CountersOK
  BY DEF Init, CountersOK
<1> QED
  BY <1>1, <1>2, <1>3, <1>4, <1>5

LEMMA CountersStep ==
    ASSUME CountersOK, [Next]_vars
    PROVE  CountersOK'
<1>1. gen \in Nat /\ faults \in Nat /\ token \in Nat
  BY DEF CountersOK
<1>2. gen' = gen \/ gen' = gen + 1
  BY DEF Next, Registry, Publish, Undraft, Upload, ExpireToken, vars, regVars, Current,
     BeginCurrent, ListFails, ListReleases, ListPrefixes, IteratePrefixes, ListTags, Select,
     ListObjects, IterateObjects, AnswerFromObjects, GetImageDigest, FindAsset,
     DownloadReleaseAsset, GetObject, NewReader, Pull, Fetch, Report
<1>3. faults' = faults \/ faults' = faults + 1
  BY DEF Next, Registry, Publish, Undraft, Upload, ExpireToken, vars, Current, Fault,
     BeginCurrent, ListFails, ListReleases, ListPrefixes, IteratePrefixes, ListTags, Select,
     ListObjects, IterateObjects, AnswerFromObjects, GetImageDigest, FindAsset,
     DownloadReleaseAsset, GetObject, NewReader, Pull, Fetch, Report
<1>4. token' = token \/ token' = gen
  BY DEF Next, Registry, Publish, Undraft, Upload, ExpireToken, vars, Current, Authorize, GetBearerToken,
     BeginCurrent, ListFails, ListReleases, ListPrefixes, IteratePrefixes, ListTags, Select,
     ListObjects, IterateObjects, AnswerFromObjects, GetImageDigest, FindAsset,
     DownloadReleaseAsset, GetObject, NewReader, Pull, Fetch, Report
<1> QED
  BY <1>1, <1>2, <1>3, <1>4 DEF CountersOK

(* The types, what a call has collected, and what is downloaded.           *)
ClientInv == Types /\ CallSafe /\ LoadSafe /\ CountersOK

(* The inductive invariant holds for any names, files, URLs, page sizes    *)
(* and failures (all of Current, resolveCurrent and Download).             *)
THEOREM ClientInvariant == Spec => []ClientInv
<1>1. Init => ClientInv
  BY InitIsSafe DEF ClientInv
<1>2. ClientInv /\ [Next]_vars => ClientInv'
  <2> SUFFICES ASSUME ClientInv, [Next]_vars PROVE ClientInv'
    OBVIOUS
  <2>1. Types /\ CallSafe /\ LoadSafe /\ CountersOK
    BY DEF ClientInv
  <2>2. Grows /\ CallStep
    BY <2>1, RegistryGrows, StepKinds DEF Types
  <2> QED
    BY <2>1, <2>2, TypesStep, CallSafeStep, LoadSafeStep, CountersStep DEF ClientInv
<1> QED
  BY <1>1, <1>2, PTL DEF Spec

(* TypeOK: the variables of every client keep their kinds of values, and   *)
(* no OCI client fetches more than maxPaginationPages (listTags).          *)
THEOREM ClientTypeTheorem == Spec => []TypeOK
<1>1. ClientInv => TypeOK
  BY DEF ClientInv, Types, RegOK, CallOK, LoadOK, CountersOK, TypeOK, FilesOf
<1> QED
  BY <1>1, ClientInvariant, PTL

(* AssetFoundAgain: however many releases are published meanwhile, the     *)
(* search of Download in artifact/ghr.go meets the asset it was sent for.  *)
THEOREM AssetFoundTheorem == Spec => []AssetFoundAgain
<1>1. ClientInv => AssetFoundAgain
  BY DEF ClientInv, LoadSafe
<1> QED
  BY <1>1, ClientInvariant, PTL

(* StagedAsAnswered: the cache never holds the bytes of one release under  *)
(* the name of another (downloadAndCache, pullContainerImage).             *)
THEOREM StagedTheorem == Spec => []StagedAsAnswered
<1>1. ClientInv => StagedAsAnswered
  BY DEF ClientInv, LoadSafe
<1> QED
  BY <1>1, ClientInvariant, PTL

(* AnswerInstallable: the file answered is one uploaded to that release    *)
(* and, unless the URL names it, an archive made for this host, as far as  *)
(* the publisher names archives so that matchesPlatform can tell.          *)
THEOREM InstallableTheorem == Spec => []AnswerInstallable
<1>1. ClientInv => AnswerInstallable
  <2> SUFFICES ASSUME ClientInv, taken # NoAnswer, cfg.kind # "oci"
               PROVE  /\ taken.file \in ToSet(uploads[taken.tag])
                      /\ \/ taken.file = cfg.artifact
                         \/ /\ File[taken.file].archive
                            /\ NamesTell => /\ File[taken.file].platform.arch = Host.arch
                                            /\ File[taken.file].platform.os = Host.os
    BY DEF AnswerInstallable
  <2>1. taken.file \in ToSet(uploads[taken.tag]) /\ Fits(taken.file)
    BY DEF ClientInv, LoadSafe, TakenOK, Good
  <2>2. taken.file \in ToSet(Files)
    <3> DEFINE list == uploads[taken.tag]
    <3>1. taken.tag \in Visible /\ RegOK
      BY DEF ClientInv, Types, LoadSafe, TakenOK, Good
    <3>2. taken.tag \in Names
      BY <3>1, VisibleAreNames
    <3>3. list \in Seq(ToSet(Files))
      BY <3>1, <3>2 DEF RegOK, FilesOf
    <3>4. PICK i \in 1..Len(list) : taken.file = list[i]
      BY <2>1, <3>3, Members
    <3> QED
      BY <3>3, <3>4
  <2>3. CASE taken.file # cfg.artifact
    <3>1. File[taken.file].archive /\ MatchesPlatform(taken.file, Host)
      BY <2>1, <2>3 DEF Fits, IsArchive
    <3> QED
      BY <2>1, <2>2, <3>1 DEF NamesTell, MatchesPlatform
  <2> QED
    BY <2>1, <2>3
<1> QED
  BY <1>1, ClientInvariant, PTL

(* ComparesByPrecedence: the comparison orders what a URL admits by item   *)
(* 11 of SemVer, for names and versions of any form (Compare of SemVer and *)
(* CalVer, comparePreRelease).                                             *)
THEOREM ComparesByPrecedenceTheorem == Spec => []ComparesByPrecedence
<1>1. ComparesByPrecedence
  BY NamesOrdered DEF ComparesByPrecedence
<1> QED
  BY <1>1, PTL

(* No call passes a release over.                                          *)
LEMMA CoversAlways == Spec => [](ClientInv /\ Covers)
<1>1. Init => Covers
  BY InitIsSafe
<1>2. ClientInv /\ Covers /\ [Next]_vars => Covers'
  <2> SUFFICES ASSUME ClientInv, Covers, [Next]_vars PROVE Covers'
    OBVIOUS
  <2>1. Types /\ CallSafe /\ LoadSafe
    BY DEF ClientInv
  <2>2. Grows /\ CallStep
    BY <2>1, RegistryGrows, StepKinds DEF Types
  <2> QED
    BY <2>1, <2>2, CoversStep
<1> QED
  BY <1>1, <1>2, ClientInvariant, PTL DEF Spec

(* AnswerCoversCall: the answer is no lower by precedence than anything    *)
(* admissible that was visible when the call started, however the pages    *)
(* shift (latest, LatestVersion, listTags).                                *)
THEOREM AnswerCoversTheorem == Spec => []AnswerCoversCall
<1>1. ClientInv /\ Covers => AnswerCoversCall
  BY DEF ClientInv, LoadSafe, TakenOK, Good, Covers, AnswerCov, AboveStart, AnswerCoversCall
<1> QED
  BY <1>1, CoversAlways, PTL

(* NoDowngrade: no step of the deploy loop goes from an answer to one of   *)
(* lower precedence (resolveCurrent).                                      *)
THEOREM NoDowngradeTheorem == Spec => NoDowngrade
<1>1. ClientInv /\ Covers /\ [Next]_vars
          => [taken # NoAnswer => Rank[taken'.tag] >= Rank[taken.tag]]_vars
  <2> SUFFICES ASSUME ClientInv, Covers, [Next]_vars, taken # NoAnswer
               PROVE  Rank[taken'.tag] >= Rank[taken.tag]
    OBVIOUS
  <2>1. Types /\ CallSafe /\ LoadSafe
    BY DEF ClientInv
  <2>2. taken.tag \in Visible /\ Eligible(taken.tag)
    BY <2>1 DEF LoadSafe, TakenOK, Good
  <2>3. taken.tag \in Names /\ Rank \in [Names -> Nat]
    BY <2>1, <2>2, VisibleAreNames, RankOrders DEF Types
  <2>4. Rank[taken.tag] >= Rank[taken.tag]
    BY <2>3
  <2>5. ASSUME NEW tag, NEW file, Answered(tag, file) PROVE Rank[taken'.tag] >= Rank[taken.tag]
    <3>1. tag \in Names /\ AboveStart(tag) /\ pc \in {"select", "artifact"}
      BY <2>1, <2>5, GoodSource, SourceCovers, SourceIs DEF Answered
    <3>2. Rank[taken.tag] <= Rank[tag]
      BY <2>2, <3>1 DEF Covers, TakenCov, AboveStart
    <3>3. Rank[tag] >= Rank[taken.tag]
      BY <2>3, <3>1, <3>2
    <3>4. taken' = taken \/ taken' = [tag |-> tag, file |-> file]
      BY <2>5 DEF Answered
    <3> QED
      BY <2>4, <3>3, <3>4
  <2>6. CallStep
    BY StepKinds
  <2>7. taken' = taken \/ \E tag, file : Answered(tag, file)
    BY <2>6 DEF CallStep, Idle, BeginCurrent, GiveUp, ListReleases, TurnNames, Picked, Searching,
       Fetched, load
  <2> QED
    BY <2>4, <2>5, <2>7
<1> QED
  BY <1>1, CoversAlways, PTL DEF Spec, NoDowngrade

=============================================================================
