--------------------- MODULE MCSequenceToOffsetTable ---------------------
(***************************************************************************)
(* Sequences over a two-letter alphabet of up to three elements: enough   *)
(* for a key to have a suffix two levels down and for suffixes to arrive   *)
(* before and after the sequences containing them.                         *)
(***************************************************************************)
EXTENDS SequenceTableProperties

MCInputs == BoundedSeq({1, 2}, 3)
=============================================================================
