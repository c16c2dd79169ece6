--------------------------- MODULE BackendLemmas ---------------------------
(***************************************************************************)
(* The load balancer's list of backends as a sequence: what appending a    *)
(* port (AddBackend) and taking out the first entry with a port            *)
(* (RemoveBackend) do to the entries it has.                               *)
(***************************************************************************)
EXTENDS RollingDeploy, FiniteSetTheorems, SequenceTheorems, TLAPS

(* No port is in the list twice.                                           *)
NoDuplicates(s) == \A i, j \in 1..Len(s) : s[i] = s[j] => i = j

(* A sequence without the entry at position k.                             *)
LEMMA WithoutOne ==
    ASSUME NEW S, NEW s \in Seq(S), NEW k \in 1..Len(s)
    PROVE  /\ RemoveAt(s, k) \in Seq(S)
           /\ Len(RemoveAt(s, k)) = Len(s) - 1
           /\ \A i \in 1..(Len(s) - 1) : RemoveAt(s, k)[i] = IF i < k THEN s[i] ELSE s[i + 1]
<1> DEFINE a == SubSeq(s, 1, k - 1)
           b == SubSeq(s, k + 1, Len(s))
<1>1. Len(s) \in Nat /\ k \in Int /\ k >= 1 /\ k <= Len(s)
  BY LenProperties
<1>2. \A i \in 1..Len(s) : s[i] \in S
  BY ElementOfSeq
<1>3. /\ a \in Seq(S) /\ Len(a) = k - 1
      /\ \A i \in 1..(k - 1) : a[i] = s[i]
  <2>1. \A i \in 1..(k - 1) : s[i] \in S
    BY <1>1, <1>2
  <2>2. /\ a \in Seq(S)
        /\ Len(a) = IF 1 <= k - 1 THEN (k - 1) - 1 + 1 ELSE 0
        /\ \A i \in 1..((k - 1) - 1 + 1) : a[i] = s[1 + i - 1]
    BY <1>1, <2>1, SubSeqProperties, 1 \in Int, k - 1 \in Int
  <2> HIDE DEF a
  <2> QED
    BY <1>1, <2>2
<1>4. /\ b \in Seq(S) /\ Len(b) = Len(s) - k
      /\ \A i \in 1..(Len(s) - k) : b[i] = s[k + i]
  <2>1. \A i \in (k + 1)..Len(s) : s[i] \in S
    BY <1>1, <1>2
  <2>2. /\ b \in Seq(S)
        /\ Len(b) = IF k + 1 <= Len(s) THEN Len(s) - (k + 1) + 1 ELSE 0
        /\ \A i \in 1..(Len(s) - (k + 1) + 1) : b[i] = s[(k + 1) + i - 1]
    BY <1>1, <2>1, SubSeqProperties, k + 1 \in Int
  <2> HIDE DEF b
  <2>3. \A i \in 1..(Len(s) - k) : b[i] = s[k + i]
    <3> TAKE i \in 1..(Len(s) - k)
    <3>1. i \in 1..(Len(s) - (k + 1) + 1) /\ (k + 1) + i - 1 = k + i
      BY <1>1
    <3> QED
      BY <3>1, <2>2
  <2>4. Len(b) = Len(s) - k
    BY <1>1, <2>2
  <2> QED
    BY <2>2, <2>3, <2>4
<1>5. /\ a \o b \in Seq(S)
      /\ Len(a \o b) = Len(a) + Len(b)
      /\ \A i \in 1..(Len(a) + Len(b)) : (a \o b)[i] = IF i <= Len(a) THEN a[i] ELSE b[i - Len(a)]
  BY <1>3, <1>4, ConcatProperties
<1>6. RemoveAt(s, k) = a \o b
  BY DEF RemoveAt
<1> HIDE DEF a, b
<1>7. \A i \in 1..(Len(s) - 1) : (a \o b)[i] = IF i < k THEN s[i] ELSE s[i + 1]
  <2> TAKE i \in 1..(Len(s) - 1)
  <2>1. CASE i < k
    BY <1>1, <1>3, <1>4, <1>5, <2>1
  <2>2. CASE i >= k
    <3>1. i - Len(a) \in 1..(Len(s) - k) /\ k + (i - Len(a)) = i + 1
      BY <1>1, <1>3, <2>2
    <3>2. b[i - Len(a)] = s[i + 1]
      BY <1>4, <3>1
    <3>3. i \in 1..(Len(a) + Len(b)) /\ ~ (i <= Len(a))
      BY <1>1, <1>3, <1>4, <2>2
    <3>4. (a \o b)[i] = b[i - Len(a)]
      BY <1>5, <3>3
    <3> QED
      BY <1>1, <2>2, <3>2, <3>4
  <2>3. i < k \/ i >= k
    BY <1>1
  <2> QED
    BY <2>1, <2>2, <2>3
<1> QED
  BY <1>1, <1>3, <1>4, <1>5, <1>6, <1>7

(* RemoveFirst takes out one entry, and that one had the port.             *)
LEMMA RemovesOne ==
    ASSUME NEW S, NEW s \in Seq(S), NEW p, Contains(s, p)
    PROVE  \E k \in 1..Len(s) : s[k] = p /\ RemoveFirst(s, p) = RemoveAt(s, k)
<1> DEFINE I == {i \in 1..Len(s) : s[i] = p}
<1>1. I \in SUBSET Nat /\ I # {}
  BY LenProperties DEF Contains
<1>2. \E n \in I : \A m \in I : n <= m
  <2> DEFINE R == OpToRel(<, Nat)
  <2> HIDE DEF I
  <2>1. IsWellFoundedOn(R, Nat)
    BY NatLessThanWellFounded, Zenon
  <2>2. PICK n \in I : \A m \in I : ~ (<<m, n>> \in R)
    <3> HIDE DEF R
    <3> QED
      BY <1>1, <2>1, WFMin, Zenon
  <2>3. \A m \in I : ~ (m < n)
    BY <1>1, <2>2 DEF OpToRel
  <2> QED
    BY <1>1, <2>3
<1>3. Min(I) \in I
  <2> HIDE DEF I
  <2> QED
    BY <1>2 DEF Min
<1>4. SelectInSeq(s, LAMBDA v : v = p) = Min(I)
  BY <1>1 DEF SelectInSeq
<1>5. RemoveFirst(s, p) = RemoveAt(s, Min(I))
  BY <1>4 DEF RemoveFirst, Contains
<1> QED
  BY <1>3, <1>5
(* What is left once the first entry with a port is out.                   *)
LEMMA RemoveFirstEntries ==
    ASSUME NEW S, NEW s \in Seq(S), NEW p, Contains(s, p)
    PROVE  /\ RemoveFirst(s, p) \in Seq(S)
           /\ \A q : q # p => (Contains(RemoveFirst(s, p), q) <=> Contains(s, q))
           /\ \A q : Contains(RemoveFirst(s, p), q) => Contains(s, q)
           /\ NoDuplicates(s) => /\ NoDuplicates(RemoveFirst(s, p))
                                /\ ~ Contains(RemoveFirst(s, p), p)
<1>1. PICK k \in 1..Len(s) : s[k] = p /\ RemoveFirst(s, p) = RemoveAt(s, k)
  BY RemovesOne
<1> DEFINE t == RemoveFirst(s, p)
<1>2. /\ t \in Seq(S)
      /\ Len(t) = Len(s) - 1
      /\ \A i \in 1..(Len(s) - 1) : t[i] = IF i < k THEN s[i] ELSE s[i + 1]
  BY <1>1, WithoutOne
<1>3. Len(s) \in Nat
  BY LenProperties
<1> HIDE DEF t
<1>4. \A q : Contains(t, q) => Contains(s, q)
  <2> SUFFICES ASSUME NEW i \in 1..Len(t)
               PROVE  \E j \in 1..Len(s) : s[j] = t[i]
    BY DEF Contains
  <2> QED
    BY <1>2, <1>3
<1>5. \A q : q # p /\ Contains(s, q) => Contains(t, q)
  <2> SUFFICES ASSUME NEW j \in 1..Len(s), s[j] # p
               PROVE  \E i \in 1..Len(t) : t[i] = s[j]
    BY DEF Contains
  <2>1. CASE j < k
    BY <1>2, <1>3, <2>1
  <2>2. CASE j > k
    <3>1. j - 1 \in 1..(Len(s) - 1) /\ ~ (j - 1 < k) /\ (j - 1) + 1 = j
      BY <1>3, <2>2
    <3>2. t[j - 1] = s[j]
      BY <1>2, <3>1
    <3> QED
      BY <1>2, <3>1, <3>2
  <2>3. j < k \/ j > k
    BY <1>1, <1>3
  <2> QED
    BY <2>1, <2>2, <2>3
<1>6. ASSUME NoDuplicates(s)
      PROVE  NoDuplicates(t) /\ ~ Contains(t, p)
  <2> DEFINE from(i) == IF i < k THEN i ELSE i + 1
  <2>1. \A i \in 1..Len(t) : from(i) \in 1..Len(s) /\ t[i] = s[from(i)] /\ from(i) # k
    BY <1>2, <1>3
  <2>2. \A i, j \in 1..Len(t) : from(i) = from(j) => i = j
    BY <1>2, <1>3
  <2> HIDE DEF from
  <2>3. NoDuplicates(t)
    BY <1>6, <2>1, <2>2 DEF NoDuplicates
  <2>4. \A i \in 1..Len(t) : t[i] # p
    BY <1>1, <1>6, <2>1 DEF NoDuplicates
  <2> QED
    BY <2>3, <2>4 DEF Contains
<1> QED
  BY <1>2, <1>4, <1>5, <1>6 DEF t

(* A port that is added.                                                   *)
LEMMA AppendEntries ==
    ASSUME NEW S, NEW s \in Seq(S), NEW p \in S
    PROVE  /\ Append(s, p) \in Seq(S)
           /\ \A q : Contains(Append(s, p), q) <=> Contains(s, q) \/ q = p
           /\ NoDuplicates(s) /\ ~ Contains(s, p) => NoDuplicates(Append(s, p))
<1> DEFINE t == Append(s, p)
<1>1. /\ t \in Seq(S)
      /\ Len(t) = Len(s) + 1
      /\ \A i \in 1..Len(s) : t[i] = s[i]
      /\ t[Len(s) + 1] = p
  BY AppendProperties
<1>2. Len(s) \in Nat
  BY LenProperties
<1> HIDE DEF t
<1>3. \A i \in 1..Len(t) : i \in 1..Len(s) \/ i = Len(s) + 1
  BY <1>1, <1>2
<1>4. \A i \in 1..Len(s) : i \in 1..Len(t)
  BY <1>1, <1>2
<1>5. Len(s) + 1 \in 1..Len(t)
  BY <1>1, <1>2
<1>6. \A q : Contains(t, q) <=> Contains(s, q) \/ q = p
  BY <1>1, <1>3, <1>4, <1>5 DEF Contains
<1>7. NoDuplicates(s) /\ ~ Contains(s, p) => NoDuplicates(t)
  BY <1>1, <1>3, <1>4, <1>5 DEF NoDuplicates, Contains
<1> QED
  BY <1>1, <1>6, <1>7 DEF t
-----------------------------------------------------------------------------
(* Counting the entries of a port.                                         *)

LEMMA EntriesNat ==
    ASSUME NEW S, NEW s \in Seq(S), NEW q
    PROVE  /\ IsFiniteSet({i \in DOMAIN s : s[i] = q})
           /\ Entries(s, q) \in Nat
           /\ Entries(s, q) # 0 <=> Contains(s, q)
<1> DEFINE I == {i \in DOMAIN s : s[i] = q}
<1>1. DOMAIN s = 1..Len(s) /\ Len(s) \in Nat
  BY LenProperties
<1>2. IsFiniteSet(1..Len(s)) /\ I \in SUBSET (1..Len(s))
  BY <1>1, FS_Interval
<1>3. I # {} <=> Contains(s, q)
  BY <1>1 DEF Contains
<1> HIDE DEF I
<1>4. IsFiniteSet(I)
  BY <1>2, FS_Subset
<1>5. Cardinality(I) \in Nat /\ (Cardinality(I) = 0 <=> I = {})
  BY <1>4, FS_CardinalityType, FS_EmptySet
<1> QED
  BY <1>3, <1>4, <1>5 DEF Entries, I

(* AddBackend adds one entry of its port.                                  *)
LEMMA EntriesAppend ==
    ASSUME NEW S, NEW s \in Seq(S), NEW p \in S, NEW q
    PROVE  Entries(Append(s, p), q) = IF q = p THEN Entries(s, q) + 1 ELSE Entries(s, q)
<1> DEFINE t == Append(s, p)
           I == {i \in DOMAIN s : s[i] = q}
           J == {i \in DOMAIN t : t[i] = q}
<1>1. /\ t \in Seq(S)
      /\ Len(t) = Len(s) + 1
      /\ \A i \in 1..Len(s) : t[i] = s[i]
      /\ t[Len(s) + 1] = p
  BY AppendProperties
<1>2. DOMAIN s = 1..Len(s) /\ Len(s) \in Nat
  BY LenProperties
<1>3. DOMAIN t = 1..Len(t)
  BY <1>1, LenProperties
<1>4. DOMAIN t = (DOMAIN s) \cup {Len(s) + 1} /\ Len(s) + 1 \notin DOMAIN s
  BY <1>1, <1>2, <1>3
<1>5. J = (IF q = p THEN I \cup {Len(s) + 1} ELSE I) /\ Len(s) + 1 \notin I
  <2> HIDE DEF t
  <2> QED
    BY <1>1, <1>2, <1>4
<1>6. IsFiniteSet(I)
  BY EntriesNat
<1> HIDE DEF I, J
<1>7. Cardinality(J) = IF q = p THEN Cardinality(I) + 1 ELSE Cardinality(I)
  BY <1>5, <1>6, FS_AddElement
<1> QED
  BY <1>7 DEF Entries, I, J

(* RemoveBackend takes out one entry of its port.                          *)
LEMMA EntriesRemoveFirst ==
    ASSUME NEW S, NEW s \in Seq(S), NEW p, Contains(s, p), NEW q
    PROVE  Entries(RemoveFirst(s, p), q) = IF q = p THEN Entries(s, q) - 1 ELSE Entries(s, q)
<1> DEFINE t == RemoveFirst(s, p)
           I == {i \in DOMAIN s : s[i] = q}
           J == {i \in DOMAIN t : t[i] = q}
<1>1. PICK k \in 1..Len(s) : s[k] = p /\ RemoveFirst(s, p) = RemoveAt(s, k)
  BY RemovesOne
<1>2. /\ t \in Seq(S)
      /\ Len(t) = Len(s) - 1
      /\ \A i \in 1..(Len(s) - 1) : t[i] = IF i < k THEN s[i] ELSE s[i + 1]
  BY <1>1, WithoutOne
<1>3. DOMAIN s = 1..Len(s) /\ Len(s) \in Nat
  BY LenProperties
<1>4. DOMAIN t = 1..Len(t)
  BY <1>2, LenProperties
<1>5. IsFiniteSet(I)
  BY EntriesNat
<1>6. IsFiniteSet(J)
  BY <1>2, EntriesNat
<1> HIDE DEF t
<1> DEFINE f == [i \in J |-> IF i < k THEN i ELSE i + 1]
<1>7. \A i \in J : i \in 1..(Len(s) - 1) /\ t[i] = q
  BY <1>2, <1>3, <1>4
<1>8. \A i \in J : f[i] \in I \ {k}
  BY <1>2, <1>3, <1>7
<1>9. \A i, j \in J : f[i] = f[j] => i = j
  BY <1>3, <1>7
<1>10. \A j \in I \ {k} : \E i \in J : f[i] = j
  <2> TAKE j \in I \ {k}
  <2>1. CASE j < k
    <3>1. j \in 1..(Len(s) - 1) /\ t[j] = s[j]
      BY <1>2, <1>3, <2>1
    <3>2. j \in J
      BY <1>2, <1>4, <3>1
    <3> QED
      BY <2>1, <3>2
  <2>2. CASE j > k
    <3>1. j - 1 \in 1..(Len(s) - 1) /\ ~ (j - 1 < k) /\ (j - 1) + 1 = j
      BY <1>3, <2>2
    <3>2. j - 1 \in J
      BY <1>2, <1>4, <3>1
    <3> QED
      BY <3>1, <3>2
  <2>3. j < k \/ j > k
    BY <1>3
  <2> QED
    BY <2>1, <2>2, <2>3
<1> HIDE DEF I, J, f
<1>11. f \in Bijection(J, I \ {k})
  <2>1. f \in [J -> I \ {k}]
    BY <1>8 DEF f
  <2> QED
    BY <2>1, <1>9, <1>10 DEF Bijection, Injection, Surjection, IsInjective
<1>12. Cardinality(I \ {k}) = Cardinality(J)
  BY <1>6, <1>11, FS_Bijection DEF ExistsBijection
<1>13. Cardinality(I \ {k}) = IF k \in I THEN Cardinality(I) - 1 ELSE Cardinality(I)
  BY <1>5, FS_RemoveElement
<1>14. k \in I <=> q = p
  BY <1>1, <1>3 DEF I
<1> QED
  BY <1>12, <1>13, <1>14 DEF Entries, I, J, t
=============================================================================
