----------------------- MODULE InfoByHwModeProperties -----------------------
(***************************************************************************)
(* What InfoByHwMode's accessors must guarantee.                          *)
(***************************************************************************)
EXTENDS InfoByHwMode

CONSTANT Transform   \* the per-mode update a client applies (an MVT change)

ASSUME TransformAssumption == Transform \in [Infos -> Infos]

(* The const get(Mode) has an answer: the mode's entry or the default.   *)
Answers(map, m) == HasMode(map, m) \/ HasMode(map, DefaultMode)

(* One iteration of the loop union_modes is written for:                 *)
(* A.get(M) = Transform(A.get(M)), through the non-const get, which       *)
(* first copies DefaultMode's entry into a mode that has none.            *)
UpdateMode(map, m) ==
    LET g == GetEntry(map, m) IN SetEntry(g, m, Transform[g[m]])

(* The loop over the modes ms, one UpdateMode per element, in order. *)
UpdateModes(map, ms) ==
    LET w[i \in 0 .. Len(ms)] == IF i = 0 THEN map ELSE UpdateMode(w[i - 1], ms[i])
    IN  w[Len(ms)]

(* A client that updates object A for every mode of union_modes(A, B)     *)
(* changes every mode's answer exactly once: afterwards each mode that    *)
(* had an answer answers Transform of its old answer, the modes A had no  *)
(* entry for included.  It holds only because union_modes puts           *)
(* DefaultMode last ("Make sure that the default mode is last on the     *)
(* list"): each other mode copies the default before the default is       *)
(* updated.  Catches a union_modes that visits DefaultMode earlier or     *)
(* twice, and a get that fills a missing mode with anything but a copy of *)
(* the default.                                                           *)
UnionModesWalkUpdatesOnce ==
    \A a, b \in Objects :
        LET old == maps[a]
            ms  == UnionModes(maps[a], maps[b])
            new == UpdateModes(old, ms)
        IN  (\A i \in DOMAIN ms : Answers(old, ms[i])) =>
                \A x \in Modes :
                    Answers(old, x) => ConstGet(new, x) = Transform[ConstGet(old, x)]

(* union_modes(A, B) lists each mode of A or B exactly once, the modes    *)
(* other than DefaultMode in increasing order, and DefaultMode last when  *)
(* either map has it, which is the order the type inference walks modes. *)
UnionModesOrder ==
    \A a, b \in Objects :
        LET v == UnionModes(maps[a], maps[b])
        IN  /\ ToSet(v) = DOMAIN maps[a] \cup DOMAIN maps[b]
            /\ \A i, j \in DOMAIN v :
                   i < j => v[i] # v[j] /\ (v[j] # DefaultMode => v[i] < v[j])
=============================================================================
