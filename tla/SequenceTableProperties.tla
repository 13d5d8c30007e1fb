----------------------- MODULE SequenceTableProperties -----------------------
(***************************************************************************)
(* What SequenceToOffsetTable must guarantee, and its refinement of the   *)
(* abstract table SequenceTableAbstract.                                   *)
(***************************************************************************)
EXTENDS SequenceToOffsetTable

(* The sequences the table holds: every suffix of every key. *)
Stored == UNION {Suffixes(k) : k \in seqs}

(* "Sequences added so far, with suffixes removed": no key of Seqs is a  *)
(* suffix of another, whatever order the sequences were added in.  This  *)
(* is what lets add() look at one neighbour only; it needs the erase of   *)
(* the key before a new sequence.                                         *)
NoSuffixKeys ==
    \A a, b \in seqs : a # b => ~IsSuffix(a, b)

(* After layout(), get(Seq) of every sequence the table holds finds a key *)
(* ending in Seq (the assert in get()), and the emitted array holds Seq,  *)
(* then the terminator, from that offset on.                              *)
GetCorrect ==
    entries > 0 =>
        \A s \in Stored :
            /\ HasLowerBound(s) /\ IsSuffix(s, LowerBound(s))
            /\ SubSeq(Emit, Get(s) + 1, Get(s) + Len(s) + 1) = s \o <<Term>>

Abs == INSTANCE SequenceTableAbstract WITH stored <- Stored, frozen <- entries > 0

(* SequenceToOffsetTable implements the abstract table: add() makes the  *)
(* sequence and its suffixes available without losing any held before    *)
(* (the early return and the erase of a suffix are both sound), and       *)
(* layout() of a non-empty table fixes it.                                *)
AbstractSpec == Abs!Spec
=============================================================================
