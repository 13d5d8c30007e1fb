---------------------------- MODULE InfoByHwMode ----------------------------
(***************************************************************************)
(* TableGen's InfoByHwMode<InfoT> (utils/TableGen/InfoByHwMode.h): a map   *)
(* from hardware mode to an info (a value type, register sizes), where    *)
(* DefaultMode's entry stands for every mode that has none.  A TableGen    *)
(* backend works on several such objects at once (the two operands of a    *)
(* type inference step), so the state is one map per object.             *)
(***************************************************************************)
EXTENDS Integers, SequencesExt

CONSTANTS
    Objects,      \* the InfoByHwMode objects in use
    Modes,        \* hardware mode numbers
    DefaultMode,  \* CodeGenHwModes::DefaultMode
    Infos         \* infos a client stores (MVTs)

ASSUME ModesAssumption ==
    Modes \subseteq Nat /\ DefaultMode \in Modes /\ Objects # {} /\ Infos # {}

(* A Map value: a function from some modes to infos. *)
MapType == UNION {[D -> Infos] : D \in SUBSET Modes}

VARIABLE maps   \* maps[o]: the Map member of object o

vars == <<maps>>

(* Map with entry m set to v: Map[m] = v. *)
SetEntry(map, m, v) == [x \in DOMAIN map \cup {m} |-> IF x = m THEN v ELSE map[x]]

(* hasMode(M) *)
HasMode(map, m) == m \in DOMAIN map

(* The const get(Mode): the mode's own entry, else DefaultMode's (the     *)
(* assert: one of them exists).                                            *)
ConstGet(map, m) == IF HasMode(map, m) THEN map[m] ELSE map[DefaultMode]

(* isSimple(): the only entry is DefaultMode's. *)
IsSimple(map) == DOMAIN map = {DefaultMode}

(* getSimple() *)
GetSimple(map) == map[DefaultMode]

(* The elements of a std::set<unsigned> in its iteration order: one each, *)
(* increasing.                                                            *)
SetOrder(S) ==
    CHOOSE s \in [1 .. Cardinality(S) -> S] :
        \A i, j \in 1 .. Cardinality(S) : i < j => s[i] < s[j]

MutantUnionModes(a, b) ==
    LET u == DOMAIN a \cup DOMAIN b
    IN  SetOrder(u) \o (IF DefaultMode \in u THEN <<DefaultMode>> ELSE <<>>)

(* union_modes(A, B): the modes of either map in increasing order, with    *)
(* DefaultMode moved to the end.                                           *)
UnionModes(a, b) ==
    LET u == DOMAIN a \cup DOMAIN b
    IN  SetOrder(u \ {DefaultMode}) \o (IF DefaultMode \in u THEN <<DefaultMode>> ELSE <<>>)

(* The two constructors: InfoByHwMode() (empty) and ValueTypeByHwMode(T)    *)
(* (T for DefaultMode).                                                    *)
Constructed == {[x \in {} |-> CHOOSE i \in Infos : TRUE]}
               \cup {[x \in {DefaultMode} |-> t] : t \in Infos}

Init == maps \in [Objects -> Constructed]

(* A client fills the public Map member: Map[m] = v. *)
ClientSetMode(o, m, v) ==
    maps' = [maps EXCEPT ![o] = SetEntry(@, m, v)]

MutantGetEntry(map, m) ==
    IF HasMode(map, m) THEN map ELSE SetEntry(map, m, CHOOSE i \in Infos : TRUE)

(* The Map after the non-const get(Mode): a mode without an entry gets a  *)
(* copy of DefaultMode's before the reference to it is returned.          *)
GetEntry(map, m) ==
    IF HasMode(map, m) THEN map ELSE SetEntry(map, m, map[DefaultMode])

(* The non-const get(Mode), whose assert requires the mode's entry or     *)
(* DefaultMode's.                                                          *)
Get(o, m) ==
    /\ HasMode(maps[o], m) \/ HasMode(maps[o], DefaultMode)
    /\ maps' = [maps EXCEPT ![o] = GetEntry(@, m)]

(* makeSimple(Mode): I = get(Mode) (the non-const get), then clear the    *)
(* map and insert I for DefaultMode.                                       *)
MakeSimple(o, m) ==
    /\ HasMode(maps[o], m) \/ HasMode(maps[o], DefaultMode)
    /\ maps' = [maps EXCEPT ![o] = [x \in {DefaultMode} |-> ConstGet(@, m)]]

Next ==
    \E o \in Objects, m \in Modes :
        \/ \E v \in Infos : ClientSetMode(o, m, v)
        \/ Get(o, m)
        \/ MakeSimple(o, m)

Spec == Init /\ [][Next]_vars

(* Each object's Map maps modes to infos. *)
TypeOK == maps \in [Objects -> MapType]
=============================================================================
