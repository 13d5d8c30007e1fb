------------------------ MODULE SequenceToOffsetTable ------------------------
(***************************************************************************)
(* TableGen's SequenceToOffsetTable (utils/TableGen/SequenceToOffsetTable.h)*)
(* packs null-terminated sequences into one array, storing a sequence that *)
(* is a suffix of another inside it.  Seqs is a std::map ordered by        *)
(* SeqLess (reverse lexicographic order), so a suffix sorts immediately    *)
(* before the sequences ending in it; the map's values are the offsets     *)
(* layout() assigns.  Entries = 0 means "layout() not called yet".         *)
(***************************************************************************)
EXTENDS Integers, SequencesExt, FiniteSetsExt

CONSTANTS
    Inputs,   \* the sequences a TableGen backend may add
    Term      \* the terminator emit() prints after each sequence

ASSUME InputsAssumption == Inputs \subseteq Seq(Int) /\ Inputs # {}

(* std::lexicographical_compare with std::less on the elements. *)
LexLess(a, b) ==
    \E i \in 0 .. Len(a) :
        /\ i < Len(b)
        /\ SubSeq(a, 1, i) = SubSeq(b, 1, i)
        /\ i = Len(a) \/ a[i + 1] < b[i + 1]

(* SeqLess: compare the reversed sequences. *)
SeqLess(a, b) == LexLess(Reverse(a), Reverse(b))

VARIABLES
    seqs,     \* the keys of Seqs: the sequences added so far, suffixes removed
    offset,   \* the values of Seqs: each key's offset (0 until layout)
    entries   \* Entries

vars == <<seqs, offset, entries>>

(* Seqs.lower_bound(Seq) # Seqs.end(): some key is not less than Seq. *)
HasLowerBound(s) == \E k \in seqs : ~SeqLess(k, s)

(* Seqs.lower_bound(Seq): the first key not less than Seq. *)
LowerBound(s) ==
    CHOOSE k \in seqs : ~SeqLess(k, s) /\ \A j \in seqs : ~SeqLess(j, s) => ~SeqLess(j, k)

(* I != Seqs.begin() after the insertion: some key is less than Seq. *)
HasBefore(s) == \E k \in seqs : SeqLess(k, s)

(* --I: the last key less than Seq. *)
Before(s) ==
    CHOOSE k \in seqs : SeqLess(k, s) /\ \A j \in seqs : SeqLess(j, s) => ~SeqLess(k, j)

Init ==
    /\ seqs = {}
    /\ offset = <<>>
    /\ entries = 0

MutantAddNoErase(s) ==
    /\ entries = 0
    /\ LET i == LowerBound(s)
       IN  IF HasLowerBound(s) /\ IsSuffix(s, i)
           THEN UNCHANGED vars
           ELSE /\ seqs' = seqs \cup {s}
                /\ offset' = [k \in seqs' |-> IF k = s THEN 0 ELSE offset[k]]
                /\ UNCHANGED entries

MutantAddEraseAny(s) ==
    /\ entries = 0
    /\ LET i == LowerBound(s)
           p == Before(s)
       IN  IF HasLowerBound(s) /\ IsSuffix(s, i)
           THEN UNCHANGED vars
           ELSE /\ seqs' = (seqs \cup {s}) \ (IF HasBefore(s) THEN {p} ELSE {})
                /\ offset' = [k \in seqs' |-> IF k = s THEN 0 ELSE offset[k]]
                /\ UNCHANGED entries

(* add(Seq), before layout (the assert on Entries): nothing to do when a  *)
(* key ends in Seq; otherwise insert Seq and erase the key before it if   *)
(* that key is a suffix of Seq.                                           *)
Add(s) ==
    /\ entries = 0
    /\ LET i == LowerBound(s)
           p == Before(s)
       IN  IF HasLowerBound(s) /\ IsSuffix(s, i)
           THEN UNCHANGED vars
           ELSE /\ seqs' = (seqs \cup {s}) \ (IF HasBefore(s) /\ IsSuffix(p, s) THEN {p} ELSE {})
                /\ offset' = [k \in seqs' |-> IF k = s THEN 0 ELSE offset[k]]
                /\ UNCHANGED entries

(* layout(), once: each key's offset is the room (its size + 1 for the   *)
(* terminator) of the keys before it in SeqLess order.                    *)
Layout ==
    /\ entries = 0
    /\ offset' = [k \in seqs |->
                    MapThenSumSet(LAMBDA j : Len(j) + 1, {j \in seqs : SeqLess(j, k)})]
    /\ entries' = MapThenSumSet(LAMBDA j : Len(j) + 1, seqs)
    /\ UNCHANGED seqs

Next == (\E s \in Inputs : Add(s)) \/ Layout

Spec == Init /\ [][Next]_vars

MutantGet(s) == offset[LowerBound(s)]

(* get(Seq): the offset of the key ending in Seq, moved past the part of  *)
(* the key before Seq.                                                    *)
Get(s) ==
    LET i == LowerBound(s)
    IN  offset[i] + (Len(i) - Len(s))

(* emit(): the keys in SeqLess order, each followed by the terminator, as *)
(* the elements of the array initializer (the layout of the text is left  *)
(* out).                                                                  *)
Emit ==
    LET sorted == [i \in 1 .. Cardinality(seqs) |->
                     CHOOSE k \in seqs : Cardinality({j \in seqs : SeqLess(j, k)}) = i - 1]
    IN  FlattenSeq([i \in DOMAIN sorted |-> sorted[i] \o <<Term>>])

(* The keys are sequences added, each with an offset. *)
TypeOK ==
    /\ seqs \subseteq Inputs
    /\ offset \in [seqs -> Nat]
    /\ entries \in Nat
=============================================================================
