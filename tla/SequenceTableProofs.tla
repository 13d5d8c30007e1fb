------------------------ MODULE SequenceTableProofs ------------------------
(***************************************************************************)
(* Proofs about SequenceToOffsetTable: the order SeqLess that keys Seqs is *)
(* a strict total order on integer sequences in which the sequences       *)
(* ending in a given one form an interval, and from that, add() keeps no  *)
(* key a suffix of another.                                                *)
(***************************************************************************)
EXTENDS SequenceTableProperties, SequenceLemmas, TLAPS

(* a and b agree on their first n elements. *)
AgreeUpTo(a, b, n) == \A j \in 1 .. n : a[j] = b[j]

(* std::lexicographical_compare, by the first place the two differ. *)
LexBefore(a, b) ==
    \E i \in 0 .. Len(a) :
        /\ i < Len(b)
        /\ AgreeUpTo(a, b, i)
        /\ i = Len(a) \/ a[i + 1] < b[i + 1]

(* a is a prefix of b, element by element. *)
PrefixOf(a, b) == Len(a) <= Len(b) /\ AgreeUpTo(a, b, Len(a))

(* Two leading slices are equal when the sequences agree up to there. *)
LEMMA SubSeqAgree ==
    ASSUME NEW a \in Seq(Int), NEW b \in Seq(Int), NEW n \in 0 .. Len(a), n <= Len(b)
    PROVE  SubSeq(a, 1, n) = SubSeq(b, 1, n) <=> AgreeUpTo(a, b, n)
<1>1. SubSeq(a, 1, n) = [k \in 1 .. n |-> a[k]] /\ SubSeq(b, 1, n) = [k \in 1 .. n |-> b[k]]
    OBVIOUS
<1>2. QED
    BY <1>1 DEF AgreeUpTo

LEMMA LexLessIff ==
    ASSUME NEW a \in Seq(Int), NEW b \in Seq(Int)
    PROVE  LexLess(a, b) <=> LexBefore(a, b)
<1>1. \A i \in 0 .. Len(a) : i < Len(b) =>
          (SubSeq(a, 1, i) = SubSeq(b, 1, i) <=> AgreeUpTo(a, b, i))
    BY SubSeqAgree
<1>2. QED
    BY <1>1 DEF LexLess, LexBefore

LEMMA IsPrefixIff ==
    ASSUME NEW a \in Seq(Int), NEW b \in Seq(Int)
    PROVE  IsPrefix(a, b) <=> PrefixOf(a, b)
<1>1. Len(a) <= Len(b) => (SubSeq(a, 1, Len(a)) = SubSeq(b, 1, Len(a)) <=> AgreeUpTo(a, b, Len(a)))
    BY SubSeqAgree
<1>2. QED
    BY <1>1 DEF IsPrefix, PrefixOf

LEMMA LexIrreflexive ==
    ASSUME NEW a \in Seq(Int) PROVE ~LexBefore(a, a)
BY DEF LexBefore

LEMMA LexTransitive ==
    ASSUME NEW a \in Seq(Int), NEW b \in Seq(Int), NEW c \in Seq(Int),
           LexBefore(a, b), LexBefore(b, c)
    PROVE  LexBefore(a, c)
<1>1. PICK i \in 0 .. Len(a) : i < Len(b) /\ AgreeUpTo(a, b, i) /\ (i = Len(a) \/ a[i + 1] < b[i + 1])
    BY DEF LexBefore
<1>2. PICK j \in 0 .. Len(b) : j < Len(c) /\ AgreeUpTo(b, c, j) /\ (j = Len(b) \/ b[j + 1] < c[j + 1])
    BY DEF LexBefore
<1>3. (j # Len(b) /\ b[j + 1] < c[j + 1]) \/ j = Len(b)
    BY <1>2
<1>4. CASE i < j
    <2>1. AgreeUpTo(a, c, i) /\ i < Len(c)
        BY <1>1, <1>2, <1>4 DEF AgreeUpTo
    <2>2. i = Len(a) \/ a[i + 1] < c[i + 1]
        BY <1>1, <1>2, <1>4 DEF AgreeUpTo
    <2>3. QED
        BY <2>1, <2>2 DEF LexBefore
<1>5. CASE i = j
    <2>1. AgreeUpTo(a, c, i) /\ i < Len(c)
        BY <1>1, <1>2, <1>5 DEF AgreeUpTo
    <2>2. i = Len(a) \/ a[i + 1] < c[i + 1]
        BY <1>1, <1>2, <1>5
    <2>3. QED
        BY <2>1, <2>2 DEF LexBefore
<1>6. CASE j < i
    <2>1. AgreeUpTo(a, c, j) /\ j < Len(c) /\ j \in 0 .. Len(a)
        BY <1>1, <1>2, <1>6 DEF AgreeUpTo
    <2>2. a[j + 1] < c[j + 1]
        BY <1>1, <1>2, <1>6 DEF AgreeUpTo
    <2>3. QED
        BY <2>1, <2>2 DEF LexBefore
<1>7. QED
    BY <1>4, <1>5, <1>6
(* Where two sequences stop agreeing: either one is a prefix of the other *)
(* or there is a first place they differ.                                 *)
LEMMA FirstDifference ==
    ASSUME NEW a \in Seq(Int), NEW b \in Seq(Int)
    PROVE  \/ Len(a) <= Len(b) /\ AgreeUpTo(a, b, Len(a))
           \/ Len(b) < Len(a) /\ AgreeUpTo(a, b, Len(b))
           \/ \E m \in 1 .. Len(a) :
                  m <= Len(b) /\ AgreeUpTo(a, b, m - 1) /\ a[m] # b[m]
<1> DEFINE D == {j \in 1 .. Len(a) : j <= Len(b) /\ a[j] # b[j]}
<1>1. CASE D = {}
    <2>1. \A j \in 1 .. Len(a) : j <= Len(b) => a[j] = b[j]
        BY <1>1
    <2>2. CASE Len(a) <= Len(b)
        BY <2>1, <2>2 DEF AgreeUpTo
    <2>3. CASE Len(b) < Len(a)
        BY <2>1, <2>3 DEF AgreeUpTo
    <2>4. QED
        BY <2>2, <2>3
<1>2. CASE D # {}
    <2>0. D \in SUBSET Nat
        OBVIOUS
    <2>1. PICK m \in D : \A j \in D : m <= j
        BY <1>2, <2>0, MinOfIndices
    <2>2. AgreeUpTo(a, b, m - 1)
        <3> SUFFICES ASSUME NEW j \in 1 .. m - 1 PROVE a[j] = b[j]
            BY DEF AgreeUpTo
        <3>1. m \in 1 .. Len(a) /\ m <= Len(b)
            OBVIOUS
        <3>2. j \in 1 .. Len(a) /\ j <= Len(b) /\ j < m
            BY <3>1
        <3>3. j \notin D
            BY <2>1, <3>2
        <3>4. QED
            BY <3>2, <3>3
    <2>3. QED
        BY <2>1, <2>2
<1>3. QED
    BY <1>1, <1>2

(* Of two different sequences one is before the other. *)
LEMMA LexTotal ==
    ASSUME NEW a \in Seq(Int), NEW b \in Seq(Int), a # b
    PROVE  LexBefore(a, b) \/ LexBefore(b, a)
<1>1. CASE Len(a) <= Len(b) /\ AgreeUpTo(a, b, Len(a))
    <2>1. Len(a) # Len(b)
        BY <1>1 DEF AgreeUpTo
    <2>2. QED
        BY <1>1, <2>1 DEF LexBefore
<1>2. CASE Len(b) < Len(a) /\ AgreeUpTo(a, b, Len(b))
    <2>1. AgreeUpTo(b, a, Len(b))
        BY <1>2 DEF AgreeUpTo
    <2>2. QED
        BY <1>2, <2>1 DEF LexBefore
<1>3. CASE \E m \in 1 .. Len(a) : m <= Len(b) /\ AgreeUpTo(a, b, m - 1) /\ a[m] # b[m]
    <2>1. PICK m \in 1 .. Len(a) : m <= Len(b) /\ AgreeUpTo(a, b, m - 1) /\ a[m] # b[m]
        BY <1>3
    <2>2. AgreeUpTo(b, a, m - 1)
        BY <2>1 DEF AgreeUpTo
    <2>3. CASE a[m] < b[m]
        <3>1. m - 1 \in 0 .. Len(a) /\ m - 1 < Len(b) /\ a[(m - 1) + 1] < b[(m - 1) + 1]
            BY <2>1, <2>3
        <3>2. QED
            BY <2>1, <3>1 DEF LexBefore
    <2>4. CASE b[m] < a[m]
        <3>1. m - 1 \in 0 .. Len(b) /\ m - 1 < Len(a) /\ b[(m - 1) + 1] < a[(m - 1) + 1]
            BY <2>1, <2>4
        <3>2. QED
            BY <2>2, <3>1 DEF LexBefore
    <2>5. QED
        BY <2>1, <2>3, <2>4
<1>4. QED
    BY <1>1, <1>2, <1>3, FirstDifference

(* A proper prefix comes first. *)
LEMMA PrefixBefore ==
    ASSUME NEW a \in Seq(Int), NEW b \in Seq(Int), PrefixOf(a, b), a # b
    PROVE  LexBefore(a, b)
<1>1. Len(a) < Len(b)
    BY DEF PrefixOf, AgreeUpTo
<1>2. QED
    BY <1>1 DEF PrefixOf, LexBefore

(* The sequences starting with a form an interval: what lies between a    *)
(* and a sequence starting with a starts with a too.                      *)
LEMMA PrefixInterval ==
    ASSUME NEW a \in Seq(Int), NEW b \in Seq(Int), NEW c \in Seq(Int),
           PrefixOf(a, b), ~LexBefore(c, a), ~LexBefore(b, c)
    PROVE  PrefixOf(a, c)
<1>1. CASE Len(a) <= Len(c) /\ AgreeUpTo(a, c, Len(a))
    BY <1>1 DEF PrefixOf
<1>2. CASE Len(c) < Len(a) /\ AgreeUpTo(a, c, Len(c))
    <2>1. AgreeUpTo(c, a, Len(c))
        BY <1>2 DEF AgreeUpTo
    <2>2. LexBefore(c, a)
        BY <1>2, <2>1 DEF LexBefore
    <2>3. QED
        BY <2>2
<1>3. CASE \E m \in 1 .. Len(a) : m <= Len(c) /\ AgreeUpTo(a, c, m - 1) /\ a[m] # c[m]
    <2>1. PICK m \in 1 .. Len(a) : m <= Len(c) /\ AgreeUpTo(a, c, m - 1) /\ a[m] # c[m]
        BY <1>3
    <2>2. CASE c[m] < a[m]
        <3>1. AgreeUpTo(c, a, m - 1)
            BY <2>1 DEF AgreeUpTo
        <3>2. LexBefore(c, a)
            <4>1. m - 1 \in 0 .. Len(c) /\ m - 1 < Len(a) /\ c[(m - 1) + 1] < a[(m - 1) + 1]
                BY <2>1, <2>2
            <4>2. QED
                BY <3>1, <4>1 DEF LexBefore
        <3>3. QED
            BY <3>2
    <2>3. CASE a[m] < c[m]
        <3>1. m <= Len(b) /\ \A j \in 1 .. m : b[j] = a[j]
            BY <2>1 DEF PrefixOf, AgreeUpTo
        <3>2. AgreeUpTo(b, c, m - 1) /\ b[m] < c[m]
            BY <2>1, <2>3, <3>1 DEF AgreeUpTo
        <3>3. LexBefore(b, c)
            <4>1. m - 1 \in 0 .. Len(b) /\ m - 1 < Len(c) /\ b[(m - 1) + 1] < c[(m - 1) + 1]
                BY <2>1, <3>1, <3>2
            <4>2. QED
                BY <3>2, <4>1 DEF LexBefore
        <3>4. QED
            BY <3>3
    <2>4. QED
        BY <2>1, <2>2, <2>3
<1>4. QED
    BY <1>1, <1>2, <1>3, FirstDifference
-----------------------------------------------------------------------------
(* SeqLess and IsSuffix are the order and the prefix relation on the      *)
(* reversed sequences.                                                    *)
LEMMA ReverseFacts ==
    ASSUME NEW a \in Seq(Int)
    PROVE  /\ Reverse(a) \in Seq(Int)
           /\ Len(Reverse(a)) = Len(a)
           /\ Reverse(Reverse(a)) = a
BY DEF Reverse

LEMMA ReverseInjective ==
    ASSUME NEW a \in Seq(Int), NEW b \in Seq(Int), a # b
    PROVE  Reverse(a) # Reverse(b)
BY ReverseFacts

LEMMA SeqLessIff ==
    ASSUME NEW a \in Seq(Int), NEW b \in Seq(Int)
    PROVE  /\ SeqLess(a, b) <=> LexBefore(Reverse(a), Reverse(b))
           /\ IsSuffix(a, b) <=> PrefixOf(Reverse(a), Reverse(b))
BY ReverseFacts, LexLessIff, IsPrefixIff DEF SeqLess, IsSuffix

(* SeqLess is a strict total order on integer sequences. *)
LEMMA SeqLessOrder ==
    ASSUME NEW a \in Seq(Int), NEW b \in Seq(Int), NEW c \in Seq(Int)
    PROVE  /\ ~SeqLess(a, a)
           /\ SeqLess(a, b) /\ SeqLess(b, c) => SeqLess(a, c)
           /\ a # b => SeqLess(a, b) \/ SeqLess(b, a)
<1>1. Reverse(a) \in Seq(Int) /\ Reverse(b) \in Seq(Int) /\ Reverse(c) \in Seq(Int)
    BY ReverseFacts
<1>2. ~SeqLess(a, a)
    BY <1>1, SeqLessIff, LexIrreflexive
<1>3. SeqLess(a, b) /\ SeqLess(b, c) => SeqLess(a, c)
    BY <1>1, SeqLessIff, LexTransitive
<1>4. a # b => SeqLess(a, b) \/ SeqLess(b, a)
    BY <1>1, SeqLessIff, LexTotal, ReverseInjective
<1>5. QED
    BY <1>2, <1>3, <1>4

(* A proper suffix sorts before the sequences ending in it, and never    *)
(* after them.                                                            *)
LEMMA SuffixOrder ==
    ASSUME NEW a \in Seq(Int), NEW b \in Seq(Int), IsSuffix(a, b)
    PROVE  /\ a # b => SeqLess(a, b)
           /\ ~SeqLess(b, a)
<1>1. Reverse(a) \in Seq(Int) /\ Reverse(b) \in Seq(Int)
    BY ReverseFacts
<1>2. a # b => SeqLess(a, b)
    BY <1>1, SeqLessIff, PrefixBefore, ReverseInjective
<1>3. ~SeqLess(b, a)
    BY <1>2, SeqLessOrder
<1>4. QED
    BY <1>2, <1>3

(* The sequences ending in a are an interval of the SeqLess order: what   *)
(* sorts between a and a sequence ending in a ends in a.                  *)
LEMMA SuffixInterval ==
    ASSUME NEW a \in Seq(Int), NEW b \in Seq(Int), NEW c \in Seq(Int),
           IsSuffix(a, b), ~SeqLess(c, a), ~SeqLess(b, c)
    PROVE  IsSuffix(a, c)
<1>1. Reverse(a) \in Seq(Int) /\ Reverse(b) \in Seq(Int) /\ Reverse(c) \in Seq(Int)
    BY ReverseFacts
<1>2. PrefixOf(Reverse(a), Reverse(b)) /\ ~LexBefore(Reverse(c), Reverse(a))
      /\ ~LexBefore(Reverse(b), Reverse(c))
    BY SeqLessIff
<1>3. PrefixOf(Reverse(a), Reverse(c))
    BY <1>1, <1>2, PrefixInterval
<1>4. QED
    BY <1>3, SeqLessIff
-----------------------------------------------------------------------------
(* The keys are finitely many integer sequences. *)
KeysFinite == seqs \subseteq Seq(Int) /\ IsFiniteSet(seqs)

(* A finite non-empty set of integer sequences has a SeqLess-least and a *)
(* SeqLess-greatest element.                                              *)
LEMMA SeqLessExtremes ==
    ASSUME NEW S \in SUBSET Seq(Int), IsFiniteSet(S), S # {}
    PROVE  /\ \E m \in S : \A j \in S : ~SeqLess(j, m)
           /\ \E m \in S : \A j \in S : ~SeqLess(m, j)
<1>1. \E m \in S : \A j \in S : ~SeqLess(j, m)
    <2>1. PICK R : R = {xy \in S \X S : SeqLess(xy[1], xy[2])}
        OBVIOUS
    <2>2. \A x \in S : <<x, x>> \notin R
        BY <2>1, SeqLessOrder
    <2>3. \A x, y, z \in S : <<x, y>> \in R /\ <<y, z>> \in R => <<x, z>> \in R
        BY <2>1, SeqLessOrder
    <2>4. PICK m \in S : \A j \in S : <<j, m>> \notin R
        BY <2>2, <2>3, MinimalExists
    <2>5. QED
        BY <2>1, <2>4
<1>2. \E m \in S : \A j \in S : ~SeqLess(m, j)
    <2>1. PICK R : R = {xy \in S \X S : SeqLess(xy[2], xy[1])}
        OBVIOUS
    <2>2. \A x \in S : <<x, x>> \notin R
        BY <2>1, SeqLessOrder
    <2>3. \A x, y, z \in S : <<x, y>> \in R /\ <<y, z>> \in R => <<x, z>> \in R
        BY <2>1, SeqLessOrder
    <2>4. PICK m \in S : \A j \in S : <<j, m>> \notin R
        BY <2>2, <2>3, MinimalExists
    <2>5. QED
        BY <2>1, <2>4
<1>3. QED
    BY <1>1, <1>2

(* Seqs.lower_bound(Seq) finds the first key not less than Seq when there *)
(* is one: the CHOOSE of the model has a witness.                         *)
LEMMA LowerBoundFacts ==
    ASSUME KeysFinite, NEW s \in Seq(Int), HasLowerBound(s)
    PROVE  /\ LowerBound(s) \in seqs
           /\ ~SeqLess(LowerBound(s), s)
           /\ \A j \in seqs : ~SeqLess(j, s) => ~SeqLess(j, LowerBound(s))
<1>1. PICK L : L = {k \in seqs : ~SeqLess(k, s)}
    OBVIOUS
<1>2. L \in SUBSET Seq(Int) /\ IsFiniteSet(L) /\ L # {}
    BY <1>1, FS_Subset DEF KeysFinite, HasLowerBound
<1>3. PICK m \in L : \A j \in L : ~SeqLess(j, m)
    BY <1>2, SeqLessExtremes
<1>4. m \in seqs /\ ~SeqLess(m, s) /\ \A j \in seqs : ~SeqLess(j, s) => ~SeqLess(j, m)
    BY <1>1, <1>3
<1>5. QED
    BY <1>4 DEF LowerBound

(* --I after the insertion finds the last key less than Seq when there is *)
(* one.                                                                   *)
LEMMA BeforeFacts ==
    ASSUME KeysFinite, NEW s \in Seq(Int), HasBefore(s)
    PROVE  /\ Before(s) \in seqs
           /\ SeqLess(Before(s), s)
           /\ \A j \in seqs : SeqLess(j, s) => ~SeqLess(Before(s), j)
<1>1. PICK L : L = {k \in seqs : SeqLess(k, s)}
    OBVIOUS
<1>2. L \in SUBSET Seq(Int) /\ IsFiniteSet(L) /\ L # {}
    BY <1>1, FS_Subset DEF KeysFinite, HasBefore
<1>3. PICK m \in L : \A j \in L : ~SeqLess(m, j)
    BY <1>2, SeqLessExtremes
<1>4. m \in seqs /\ SeqLess(m, s) /\ \A j \in seqs : SeqLess(j, s) => ~SeqLess(m, j)
    BY <1>1, <1>3
<1>5. QED
    BY <1>4 DEF Before
-----------------------------------------------------------------------------
(* The inductive invariant: the keys are finitely many added sequences,   *)
(* none a suffix of another.  Finiteness (Seqs is a std::map built by     *)
(* add() calls) is what gives lower_bound and --I their keys.             *)
IInv ==
    /\ seqs \subseteq Inputs
    /\ IsFiniteSet(seqs)
    /\ NoSuffixKeys

LEMMA IInvKeysFinite == IInv => KeysFinite
BY InputsAssumption DEF IInv, KeysFinite

LEMMA InitIInv == Init => IInv
BY FS_EmptySet DEF Init, IInv, NoSuffixKeys

(* add(Seq): the early return changes nothing; otherwise Seq is inserted  *)
(* and the key before it erased if it is a suffix of Seq.  A key that     *)
(* Seq is a suffix of would sort from Seq on, so lower_bound would have   *)
(* found one (SuffixInterval); a key that is a suffix of Seq sorts just   *)
(* before it, so it is the one --I finds, and it is erased.              *)
LEMMA AddIInv ==
    ASSUME IInv, NEW s \in Inputs, Add(s) PROVE IInv'
<1>1. KeysFinite /\ s \in Seq(Int)
    BY IInvKeysFinite, InputsAssumption
<1>2. CASE HasLowerBound(s) /\ IsSuffix(s, LowerBound(s))
    BY <1>2 DEF Add, vars, IInv, NoSuffixKeys
<1>3. CASE ~(HasLowerBound(s) /\ IsSuffix(s, LowerBound(s)))
    <2> DEFINE P == IF HasBefore(s) /\ IsSuffix(Before(s), s) THEN {Before(s)} ELSE {}
    <2>1. seqs' = (seqs \cup {s}) \ P
        BY <1>3 DEF Add
    <2>2. seqs' \subseteq Inputs /\ IsFiniteSet(seqs')
        <3>1. IsFiniteSet(seqs \cup {s})
            BY FS_AddElement DEF IInv
        <3>2. QED
            BY <2>1, <3>1, FS_Subset DEF IInv
    <2>3. ASSUME NEW a \in seqs', NEW b \in seqs', a # b, IsSuffix(a, b) PROVE FALSE
        <3>1. a \in Seq(Int) /\ b \in Seq(Int)
            BY <1>1, <2>1 DEF KeysFinite
        <3>2. CASE a \in seqs /\ b \in seqs
            BY <2>3, <3>2 DEF IInv, NoSuffixKeys
        <3>3. CASE a = s /\ b \in seqs
            <4>1. ~SeqLess(b, s)
                BY <2>3, <3>1, <3>3, SuffixOrder
            <4>2. HasLowerBound(s)
                BY <3>3, <4>1 DEF HasLowerBound
            <4>3. LowerBound(s) \in seqs /\ ~SeqLess(LowerBound(s), s)
                  /\ ~SeqLess(b, LowerBound(s))
                BY <1>1, <3>3, <4>1, <4>2, LowerBoundFacts
            <4>4. IsSuffix(s, LowerBound(s))
                BY <1>1, <2>3, <3>1, <3>3, <4>3, SuffixInterval DEF KeysFinite
            <4>5. QED
                BY <1>3, <4>2, <4>4
        <3>4. CASE b = s /\ a \in seqs
            <4>1. SeqLess(a, s)
                BY <2>3, <3>1, <3>4, SuffixOrder
            <4>2. HasBefore(s)
                BY <3>4, <4>1 DEF HasBefore
            <4>3. Before(s) \in seqs /\ SeqLess(Before(s), s) /\ ~SeqLess(Before(s), a)
                BY <1>1, <3>4, <4>1, <4>2, BeforeFacts
            <4>4. Before(s) \in Seq(Int) /\ ~SeqLess(s, Before(s))
                BY <1>1, <4>3, SeqLessOrder DEF KeysFinite
            <4>5. IsSuffix(a, Before(s))
                BY <1>1, <2>3, <3>1, <3>4, <4>3, <4>4, SuffixInterval
            <4>6. CASE a = Before(s)
                <5>1. P = {a}
                    BY <2>3, <3>4, <4>2, <4>6
                <5>2. QED
                    BY <2>1, <5>1
            <4>7. CASE a # Before(s)
                BY <3>4, <4>3, <4>5, <4>7 DEF IInv, NoSuffixKeys
            <4>8. QED
                BY <4>6, <4>7
        <3>5. QED
            BY <2>1, <2>3, <3>2, <3>3, <3>4
    <2>4. QED
        BY <2>2, <2>3 DEF IInv, NoSuffixKeys
<1>4. QED
    BY <1>2, <1>3

LEMMA NextIInv == IInv /\ [Next]_vars => IInv'
<1> SUFFICES ASSUME IInv, [Next]_vars PROVE IInv'
    OBVIOUS
<1>1. CASE \E s \in Inputs : Add(s)
    BY <1>1, AddIInv
<1>2. CASE Layout
    BY <1>2 DEF Layout, IInv, NoSuffixKeys
<1>3. CASE UNCHANGED vars
    BY <1>3 DEF vars, IInv, NoSuffixKeys
<1>4. QED
    BY <1>1, <1>2, <1>3 DEF Next

(* Whatever order a TableGen backend adds its sequences in, and however   *)
(* many sequences and lengths there are, no key of Seqs is a suffix of     *)
(* another: add()'s single lower_bound test and single erase of the key   *)
(* before Seq are enough (SequenceToOffsetTable.h, add).                  *)
THEOREM NoSuffixKeysHolds == Spec => []NoSuffixKeys
<1>1. IInv => NoSuffixKeys
    BY DEF IInv
<1>2. QED
    BY <1>1, InitIInv, NextIInv, PTL DEF Spec
====
