---------------------------- MODULE SequenceLemmas ----------------------------
(***************************************************************************)
(* Facts about the SequencesExt operators the models use to edit lists:   *)
(* the index SelectLastInSeq picks, the first match of a search and what  *)
(* RemoveAt leaves; and the increasing enumeration of a finite set of     *)
(* integers.                                                              *)
(***************************************************************************)
EXTENDS SequencesExt, WellFoundedInduction, SequenceTheorems, FiniteSetTheorems,
        TLAPS

(* A non-empty set of indices of a sequence has a largest element, so     *)
(* SelectLastInSeq finds an index it was looking for.  The argument is    *)
(* the well-foundedness of < on Nat applied to the distances from L.      *)
LEMMA MaxOfIndices ==
    ASSUME NEW L \in Nat, NEW I \in SUBSET (1 .. L), I # {}
    PROVE  Max(I) \in I /\ \A j \in I : j <= Max(I)
<1> DEFINE T == {L - i : i \in I}
<1>1. T \subseteq Nat /\ T # {}
    <2>1. T \subseteq Nat
        BY DEF T
    <2>2. PICK i0 \in I : TRUE
        OBVIOUS
    <2>3. L - i0 \in T
        BY DEF T
    <2>4. QED
        BY <2>1, <2>3
<1>2. PICK x \in T : \A y \in T : ~(<<y, x>> \in OpToRel(<, Nat))
    BY <1>1, NatLessThanWellFounded, WFMin
<1>3. \A y \in T : x <= y
    <2> TAKE y \in T
    <2>1. ~(<<y, x>> \in OpToRel(<, Nat)) /\ x \in Nat /\ y \in Nat
        BY <1>1, <1>2
    <2>2. QED
        BY <2>1 DEF OpToRel
<1>4. \E m \in I : \A j \in I : m >= j
    <2>1. PICK m \in I : x = L - m
        BY Zenon DEF T
    <2>2. \A j \in I : L - j \in T
        BY Zenon DEF T
    <2>3. \A j \in I : m >= j
        <3> TAKE j \in I
        <3>1. x <= L - j /\ j \in Nat /\ m \in Nat
            BY <1>3, <2>2
        <3>2. QED
            BY <2>1, <3>1
    <2>4. QED
        BY <2>3
<1>5. QED
    BY <1>4 DEF Max

(* A non-empty set of indices has a least element, so a first-match      *)
(* search over a table finds the first entry that matches.               *)
LEMMA MinOfIndices ==
    ASSUME NEW I \in SUBSET Nat, I # {}
    PROVE  \E m \in I : \A j \in I : m <= j
<1>1. PICK m \in I : \A y \in I : ~(<<y, m>> \in OpToRel(<, Nat))
    BY NatLessThanWellFounded, WFMin
<1>2. \A j \in I : m <= j
    <2> TAKE j \in I
    <2>1. ~(<<j, m>> \in OpToRel(<, Nat)) /\ m \in Nat /\ j \in Nat
        BY <1>1
    <2>2. QED
        BY <2>1 DEF OpToRel
<1>3. QED
    BY <1>2

(* Under a strict order (irreflexive, transitive) a finite non-empty set *)
(* has a minimal element: one with the fewest elements below it.  This is *)
(* what makes a lookup for the first key not below a value well defined. *)
LEMMA MinimalExists ==
    ASSUME NEW S, IsFiniteSet(S), S # {}, NEW R,
           \A x \in S : <<x, x>> \notin R,
           \A x, y, z \in S : <<x, y>> \in R /\ <<y, z>> \in R => <<x, z>> \in R
    PROVE  \E m \in S : \A j \in S : <<j, m>> \notin R
<1> DEFINE Below(x) == {y \in S : <<y, x>> \in R}
           rk(x) == Cardinality(Below(x))
<1>1. \A x \in S : IsFiniteSet(Below(x)) /\ rk(x) \in Nat
    BY FS_Subset, FS_CardinalityType
<1>2. {rk(x) : x \in S} \in SUBSET Nat /\ {rk(x) : x \in S} # {}
    <2>1. ASSUME NEW k \in {rk(x) : x \in S} PROVE k \in Nat
        <3>1. PICK x \in S : k = rk(x)
            OBVIOUS
        <3>2. QED
            BY <1>1, <3>1
    <2>2. PICK x0 \in S : TRUE
        OBVIOUS
    <2>3. rk(x0) \in {rk(x) : x \in S}
        BY Zenon
    <2>4. QED
        BY <2>1, <2>3, Zenon
<1>3. PICK n \in {rk(x) : x \in S} : \A k \in {rk(x) : x \in S} : n <= k
    BY <1>2, MinOfIndices
<1>4. PICK m \in S : rk(m) = n
    BY <1>3
<1>5. ASSUME NEW j \in S, <<j, m>> \in R PROVE FALSE
    <2>1. Below(j) \subseteq Below(m)
        BY <1>5
    <2>2. j \in Below(m) /\ j \notin Below(j)
        BY <1>5
    <2>3. IsFiniteSet(Below(m)) /\ rk(j) <= rk(m) /\ (rk(m) = rk(j) => Below(m) = Below(j))
        BY <1>1, <2>1, FS_Subset
    <2>4. rk(j) \in Nat /\ rk(m) \in Nat /\ rk(j) # rk(m)
        BY <1>1, <2>2, <2>3
    <2>5. n <= rk(j)
        <3>1. rk(j) \in {rk(x) : x \in S}
            BY Zenon
        <3>2. QED
            BY <1>3, <3>1, Zenon
    <2>6. QED
        BY <1>4, <2>3, <2>4, <2>5
<1>6. QED
    BY <1>5

(* RemoveAt(s, i) drops element i and shifts the rest down by one. *)
LEMMA RemoveAtFacts ==
    ASSUME NEW S, NEW s \in Seq(S), NEW i \in 1 .. Len(s)
    PROVE  /\ RemoveAt(s, i) \in Seq(S)
           /\ Len(RemoveAt(s, i)) = Len(s) - 1
           /\ \A k \in 1 .. Len(s) - 1 :
                  RemoveAt(s, i)[k] = IF k < i THEN s[k] ELSE s[k + 1]
<1>0. PICK a, b : a = SubSeq(s, 1, i - 1) /\ b = SubSeq(s, i + 1, Len(s))
    OBVIOUS
<1>1. \A k \in 1 .. Len(s) : s[k] \in S
    OBVIOUS
<1>2. a \in Seq(S) /\ Len(a) = i - 1 /\ \A k \in 1 .. i - 1 : a[k] = s[k]
    BY <1>0, <1>1, SubSeqProperties
<1>3. b \in Seq(S) /\ Len(b) = Len(s) - i /\ \A k \in 1 .. Len(s) - i : b[k] = s[i + k]
    BY <1>0, <1>1, SubSeqProperties
<1>4. RemoveAt(s, i) = a \o b
    BY <1>0 DEF RemoveAt
<1>5. /\ a \o b \in Seq(S)
      /\ Len(a \o b) = Len(a) + Len(b)
      /\ \A k \in 1 .. Len(a) + Len(b) :
            (a \o b)[k] = IF k <= Len(a) THEN a[k] ELSE b[k - Len(a)]
    BY <1>2, <1>3, ConcatProperties
<1>6. Len(a) + Len(b) = Len(s) - 1
    <2>1. Len(a) = i - 1
        BY <1>2
    <2>2. Len(b) = Len(s) - i
        BY <1>3
    <2>3. QED
        BY <2>1, <2>2
<1>7. ASSUME NEW k \in 1 .. Len(s) - 1
      PROVE  (a \o b)[k] = IF k < i THEN s[k] ELSE s[k + 1]
    <2>1. Len(a) = i - 1
        BY <1>2
    <2>2. k \in 1 .. Len(a) + Len(b)
        BY <1>6
    <2>3. (a \o b)[k] = IF k <= Len(a) THEN a[k] ELSE b[k - Len(a)]
        BY <1>5, <2>2
    <2>4. CASE k < i
        <3>1. k \in 1 .. i - 1 /\ k <= Len(a)
            BY <2>1, <2>4
        <3>2. QED
            BY <1>2, <2>3, <2>4, <3>1
    <2>5. CASE ~(k < i)
        <3>1. ~(k <= Len(a)) /\ k - Len(a) = k - i + 1 /\ k - i + 1 \in 1 .. Len(s) - i
            BY <2>1, <2>5
        <3>2. b[k - i + 1] = s[k + 1]
            BY <1>3, <3>1
        <3>3. QED
            BY <2>3, <2>5, <3>1, <3>2
    <2>6. QED
        BY <2>4, <2>5
<1>8. QED
    BY <1>4, <1>5, <1>6, <1>7

(* SelectLastInSeq(s, LAMBDA x : x = f) is an index of f in s when f      *)
(* occurs in s.                                                            *)
LEMMA SelectLastHit ==
    ASSUME NEW S, NEW s \in Seq(S), NEW f, \E j \in 1 .. Len(s) : s[j] = f
    PROVE  /\ SelectLastInSeq(s, LAMBDA x : x = f) \in 1 .. Len(s)
           /\ s[SelectLastInSeq(s, LAMBDA x : x = f)] = f
<1> DEFINE Hits == {j \in 1 .. Len(s) : s[j] = f}
<1>1. Len(s) \in Nat /\ Hits \in SUBSET (1 .. Len(s)) /\ Hits # {}
    BY DEF Hits
<1>2. Max(Hits) \in Hits
    BY <1>1, MaxOfIndices
<1>3. SelectLastInSeq(s, LAMBDA x : x = f) = Max(Hits)
    BY <1>1 DEF SelectLastInSeq, Hits
<1>4. QED
    BY <1>2, <1>3 DEF Hits

(* Appending x adds x to the elements, and keeps the sequence's type. *)
LEMMA AppendToSet ==
    ASSUME NEW S, NEW s \in Seq(S), NEW x \in S
    PROVE  /\ Append(s, x) \in Seq(S)
           /\ ToSet(Append(s, x)) = ToSet(s) \cup {x}
<1>1. Append(s, x) \in Seq(S) /\ Len(Append(s, x)) = Len(s) + 1
      /\ \A i \in 1 .. Len(s) : Append(s, x)[i] = s[i]
      /\ Append(s, x)[Len(s) + 1] = x
    BY AppendProperties
<1>2. QED
    BY <1>1 DEF ToSet
-----------------------------------------------------------------------------
(* The position x takes in the increasing enumeration of S: one more than *)
(* the number of elements of S below it.                                   *)
Rank(S, x) == Cardinality({y \in S : y < x}) + 1

(* Ranks run over 1 .. Cardinality(S) and grow with the elements. *)
LEMMA RankFacts ==
    ASSUME NEW S \in SUBSET Int, IsFiniteSet(S)
    PROVE  /\ \A x \in S : Rank(S, x) \in 1 .. Cardinality(S)
           /\ \A x, y \in S : x < y => Rank(S, x) < Rank(S, y)
<1>1. Cardinality(S) \in Nat
  BY FS_CardinalityType
<1>2. ASSUME NEW x \in S PROVE Rank(S, x) \in 1 .. Cardinality(S)
  <2>1. {y \in S : y < x} \subseteq S \ {x}
    OBVIOUS
  <2>2. IsFiniteSet(S \ {x}) /\ Cardinality(S \ {x}) = Cardinality(S) - 1
    BY FS_RemoveElement
  <2>3. IsFiniteSet({y \in S : y < x})
        /\ Cardinality({y \in S : y < x}) <= Cardinality(S) - 1
    BY <2>1, <2>2, FS_Subset
  <2>4. Cardinality({y \in S : y < x}) \in Nat
    BY <2>3, FS_CardinalityType
  <2> QED BY <1>1, <2>3, <2>4 DEF Rank
<1>3. ASSUME NEW x \in S, NEW y \in S, x < y PROVE Rank(S, x) < Rank(S, y)
  <2>1. {z \in S : z < x} \cup {x} \subseteq {z \in S : z < y}
    <3> SUFFICES ASSUME NEW z \in {z \in S : z < x} \cup {x} PROVE z \in S /\ z < y
      OBVIOUS
    <3>1. z \in S /\ z <= x
      OBVIOUS
    <3> QED BY <3>1, <1>3
  <2>2. IsFiniteSet({z \in S : z < y})
    BY FS_Subset
  <2>3. IsFiniteSet({z \in S : z < x})
    BY FS_Subset
  <2>4. /\ IsFiniteSet({z \in S : z < x} \cup {x})
        /\ Cardinality({z \in S : z < x} \cup {x}) = Cardinality({z \in S : z < x}) + 1
    BY <2>3, FS_AddElement
  <2>5. Cardinality({z \in S : z < x} \cup {x}) <= Cardinality({z \in S : z < y})
    BY <2>1, <2>2, FS_Subset
  <2>6. Cardinality({z \in S : z < x}) \in Nat /\ Cardinality({z \in S : z < y}) \in Nat
    BY <2>2, <2>3, FS_CardinalityType
  <2> QED BY <2>4, <2>5, <2>6 DEF Rank
<1> QED BY <1>2, <1>3

(* A finite set of integers has an increasing enumeration. *)
LEMMA SortedEnumerationExists ==
    ASSUME NEW S \in SUBSET Int, IsFiniteSet(S)
    PROVE  \E g \in [1 .. Cardinality(S) -> S] :
              /\ \A i, j \in 1 .. Cardinality(S) : i < j => g[i] < g[j]
              /\ \A x \in S : \E i \in 1 .. Cardinality(S) : g[i] = x
<1> PICK n \in Nat : n = Cardinality(S)
  BY FS_CardinalityType
<1>1. \E r \in [S -> 1 .. n] : /\ \A x, y \in S : r[x] = r[y] => x = y
                               /\ \A x, y \in S : x < y => r[x] < r[y]
  <2> DEFINE rk == [x \in S |-> Rank(S, x)]
  <2>1. rk \in [S -> 1 .. n]
    BY RankFacts
  <2>2. \A x, y \in S : x < y => rk[x] < rk[y]
    BY RankFacts
  <2>3. \A x, y \in S : rk[x] = rk[y] => x = y
    <3> SUFFICES ASSUME NEW x \in S, NEW y \in S, x # y PROVE rk[x] # rk[y]
      OBVIOUS
    <3>1. x < y \/ y < x
      OBVIOUS
    <3> QED BY <3>1, <2>1, <2>2
  <2> QED BY <2>1, <2>2, <2>3
<1> PICK r \in [S -> 1 .. n] : /\ \A x, y \in S : r[x] = r[y] => x = y
                               /\ \A x, y \in S : x < y => r[x] < r[y]
  BY <1>1
<1>2. IsFiniteSet(1 .. n) /\ Cardinality(1 .. n) = n
  BY FS_Interval
<1>3. \A i \in 1 .. n : \E x \in S : r[x] = i
  <2>1. r \in Injection(S, 1 .. n)
    BY DEF Injection, IsInjective
  <2>2. r \in Surjection(S, 1 .. n)
    BY <1>2, <2>1, FS_Injection
  <2> QED BY <2>2 DEF Surjection
<1>4. \E g \in [1 .. n -> S] : \A i \in 1 .. n : r[g[i]] = i
  <2> DEFINE gg == [i \in 1 .. n |-> CHOOSE x \in S : r[x] = i]
  <2>1. \A i \in 1 .. n : gg[i] \in S /\ r[gg[i]] = i
    BY <1>3
  <2> QED BY <2>1
<1> PICK g \in [1 .. n -> S] : \A i \in 1 .. n : r[g[i]] = i
  BY <1>4
<1>5. \A i, j \in 1 .. n : i < j => g[i] < g[j]
  <2> SUFFICES ASSUME NEW i \in 1 .. n, NEW j \in 1 .. n, i < j PROVE g[i] < g[j]
    OBVIOUS
  <2>1. g[i] \in S /\ g[j] \in S /\ r[g[i]] = i /\ r[g[j]] = j
    OBVIOUS
  <2>2. g[i] # g[j]
    BY <2>1
  <2>3. ~(g[j] < g[i])
    <3>1. g[j] < g[i] => r[g[j]] < r[g[i]]
      BY <2>1
    <3> QED BY <2>1, <3>1
  <2>4. g[i] \in Int /\ g[j] \in Int
    BY <2>1
  <2> QED BY <2>2, <2>3, <2>4
<1>6. \A x \in S : \E i \in 1 .. n : g[i] = x
  <2> SUFFICES ASSUME NEW x \in S PROVE \E i \in 1 .. n : g[i] = x
    OBVIOUS
  <2>1. r[x] \in 1 .. n /\ r[g[r[x]]] = r[x]
    OBVIOUS
  <2> QED BY <2>1
<1> QED BY <1>5, <1>6
=============================================================================
