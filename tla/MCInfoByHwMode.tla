--------------------------- MODULE MCInfoByHwMode ---------------------------
(***************************************************************************)
(* Two objects, the default mode and two others (one below and one above  *)
(* nothing in particular: DefaultMode is 0, the smallest), and two MVTs.   *)
(***************************************************************************)
EXTENDS InfoByHwModeProperties

MCModes == {0, 1, 2}
MCInfos == {"i32", "i64"}

(* The update swaps the two MVTs, so a mode updated twice is unchanged. *)
MCTransform == [i \in MCInfos |-> IF i = "i32" THEN "i64" ELSE "i32"]
=============================================================================
