------------------------ MODULE SequenceTableAbstract ------------------------
(***************************************************************************)
(* What a SequenceToOffsetTable promises its TableGen clients: while the   *)
(* table is open, add(Seq) makes Seq and each of its suffixes available;   *)
(* once the layout is fixed nothing more is added and nothing is lost.     *)
(***************************************************************************)
EXTENDS SequencesExt

CONSTANT Inputs      \* the sequences a TableGen backend may add

VARIABLES
    stored,   \* the sequences get() can return an offset for
    frozen    \* the layout has been computed

Init == stored = {} /\ frozen = FALSE

(* Add a sequence: it and its suffixes become available. *)
AddSeq(s) ==
    /\ ~frozen
    /\ stored' = stored \cup Suffixes(s)
    /\ UNCHANGED frozen

(* Fix the layout of a non-empty table. *)
Freeze ==
    /\ ~frozen
    /\ stored # {}
    /\ frozen' = TRUE
    /\ UNCHANGED stored

Next == (\E s \in Inputs : AddSeq(s)) \/ Freeze

Spec == Init /\ [][Next]_<<stored, frozen>>
=============================================================================
