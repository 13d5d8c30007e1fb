------------------------- MODULE InfoByHwModeProofs -------------------------
(***************************************************************************)
(* Proofs, for every set of objects, modes and infos, about the accessors *)
(* of InfoByHwMode<InfoT>.                                                 *)
(***************************************************************************)
EXTENDS InfoByHwModeProperties, SequenceLemmas, TLAPS

(* A Map member is a function from some modes to infos. *)
LEMMA MapTypeIntro ==
    ASSUME NEW D \in SUBSET Modes, NEW f \in [D -> Infos]
    PROVE  f \in MapType
BY DEF MapType

LEMMA MapTypeElim ==
    ASSUME NEW f \in MapType
    PROVE  /\ DOMAIN f \subseteq Modes
           /\ f \in [DOMAIN f -> Infos]
BY DEF MapType

(* Map[m] = v keeps a Map a Map, adds m and changes no other entry. *)
LEMMA SetEntryFacts ==
    ASSUME NEW map \in MapType, NEW m \in Modes, NEW v \in Infos
    PROVE  /\ SetEntry(map, m, v) \in MapType
           /\ DOMAIN SetEntry(map, m, v) = DOMAIN map \cup {m}
           /\ SetEntry(map, m, v)[m] = v
           /\ \A x \in DOMAIN map \ {m} : SetEntry(map, m, v)[x] = map[x]
<1>1. /\ DOMAIN map \subseteq Modes
      /\ map \in [DOMAIN map -> Infos]
  BY MapTypeElim
<1>2. SetEntry(map, m, v) \in [DOMAIN map \cup {m} -> Infos]
  BY <1>1 DEF SetEntry
<1>3. SetEntry(map, m, v) \in MapType
  BY <1>1, <1>2, MapTypeIntro
<1> QED BY <1>3 DEF SetEntry

-----------------------------------------------------------------------------
(* Type correctness: the constructors, a client's Map[m] = v, get and     *)
(* makeSimple all leave every object's Map a function from modes to infos. *)

LEMMA InitType == Init => TypeOK
<1> SUFFICES ASSUME Init PROVE TypeOK OBVIOUS
<1>1. Constructed \subseteq MapType
  <2>1. [x \in {} |-> CHOOSE i \in Infos : TRUE] \in MapType
    <3>1. {} \in SUBSET Modes OBVIOUS
    <3>2. [x \in {} |-> CHOOSE i \in Infos : TRUE] \in [{} -> Infos] BY Zenon
    <3> QED BY <3>1, <3>2, MapTypeIntro
  <2>2. \A t \in Infos : [x \in {DefaultMode} |-> t] \in MapType
    BY ModesAssumption, MapTypeIntro
  <2> QED BY <2>1, <2>2 DEF Constructed
<1> QED BY <1>1 DEF Init, TypeOK

LEMMA NextType == TypeOK /\ [Next]_vars => TypeOK'
<1> SUFFICES ASSUME TypeOK, [Next]_vars PROVE TypeOK' OBVIOUS
<1>1. CASE \E o \in Objects, m \in Modes, v \in Infos : ClientSetMode(o, m, v)
  <2> PICK o \in Objects, m \in Modes, v \in Infos : ClientSetMode(o, m, v) BY <1>1
  <2>1. SetEntry(maps[o], m, v) \in MapType BY SetEntryFacts DEF TypeOK
  <2> QED BY <2>1 DEF ClientSetMode, TypeOK
<1>2. CASE \E o \in Objects, m \in Modes : Get(o, m)
  <2> PICK o \in Objects, m \in Modes : Get(o, m) BY <1>2
  <2>1. maps[o] \in MapType BY DEF TypeOK
  <2>2. CASE HasMode(maps[o], m)
    BY <2>2 DEF Get, GetEntry, TypeOK
  <2>3. CASE ~HasMode(maps[o], m)
    <3>1. maps[o][DefaultMode] \in Infos
      BY <2>1, <2>3, MapTypeElim DEF Get, GetEntry, HasMode
    <3>2. SetEntry(maps[o], m, maps[o][DefaultMode]) \in MapType
      BY <2>1, <3>1, SetEntryFacts
    <3> QED BY <2>3, <3>2 DEF Get, GetEntry, TypeOK
  <2> QED BY <2>2, <2>3
<1>3. CASE \E o \in Objects, m \in Modes : MakeSimple(o, m)
  <2> PICK o \in Objects, m \in Modes : MakeSimple(o, m) BY <1>3
  <2>1. ConstGet(maps[o], m) \in Infos
    BY MapTypeElim DEF MakeSimple, ConstGet, HasMode, TypeOK
  <2>2. [x \in {DefaultMode} |-> ConstGet(maps[o], m)] \in MapType
    BY <2>1, ModesAssumption, MapTypeIntro
  <2> QED BY <2>2 DEF MakeSimple, TypeOK
<1>4. CASE UNCHANGED vars
  BY <1>4 DEF vars, TypeOK
<1> QED BY <1>1, <1>2, <1>3, <1>4 DEF Next

(* Every object's Map stays a function from modes to infos. *)
LEMMA TypeCorrect == Spec => []TypeOK
BY InitType, NextType, PTL DEF Spec

-----------------------------------------------------------------------------
(* The iteration order of a std::set<unsigned>: every element once, in    *)
(* increasing order.                                                       *)
(* An increasing enumeration of a finite set of integers lists it all. *)
LEMMA SortedListsAll ==
    ASSUME NEW S \in SUBSET Int, IsFiniteSet(S),
           NEW s \in [1 .. Cardinality(S) -> S],
           \A i, j \in 1 .. Cardinality(S) : i < j => s[i] < s[j]
    PROVE  /\ s \in Seq(S)
           /\ s \in Seq(Int)
           /\ Len(s) = Cardinality(S)
           /\ ToSet(s) = S
<1> PICK n \in Nat : n = Cardinality(S)
  BY FS_CardinalityType
<1>1. s \in Injection(1 .. n, S)
  <2> SUFFICES ASSUME NEW i \in 1 .. n, NEW j \in 1 .. n, i # j PROVE s[i] # s[j]
    BY DEF Injection, IsInjective
  <2>1. i < j \/ j < i
    OBVIOUS
  <2>2. s[i] \in Int /\ s[j] \in Int
    OBVIOUS
  <2>3. i < j => s[i] < s[j]
    OBVIOUS
  <2>4. j < i => s[j] < s[i]
    OBVIOUS
  <2> QED BY <2>1, <2>2, <2>3, <2>4
<1>2. s \in Surjection(1 .. n, S)
  <2>1. IsFiniteSet(1 .. n) /\ Cardinality(1 .. n) = n
    BY FS_Interval
  <2> QED BY <1>1, <2>1, FS_Injection
<1>3. ToSet(s) = S
  BY <1>2 DEF Surjection, ToSet
<1>4. s \in [1 .. n -> Int]
  OBVIOUS
<1> QED BY <1>3, <1>4

(* The iteration order of a std::set<unsigned>: every element once, in    *)
(* increasing order.                                                       *)
LEMMA SetOrderFacts ==
    ASSUME NEW S \in SUBSET Int, IsFiniteSet(S)
    PROVE  /\ SetOrder(S) \in Seq(S)
           /\ SetOrder(S) \in Seq(Int)
           /\ Len(SetOrder(S)) = Cardinality(S)
           /\ \A i, j \in 1 .. Cardinality(S) : i < j => SetOrder(S)[i] < SetOrder(S)[j]
           /\ ToSet(SetOrder(S)) = S
<1>1. /\ SetOrder(S) \in [1 .. Cardinality(S) -> S]
      /\ \A i, j \in 1 .. Cardinality(S) : i < j => SetOrder(S)[i] < SetOrder(S)[j]
  <2>1. \E g \in [1 .. Cardinality(S) -> S] :
           \A i, j \in 1 .. Cardinality(S) : i < j => g[i] < g[j]
    BY SortedEnumerationExists
  <2> QED BY <2>1 DEF SetOrder
<1> QED BY <1>1, SortedListsAll

(* What union_modes builds: the std::set iteration of the modes other     *)
(* than DefaultMode, then DefaultMode when either map has it.              *)
LEMMA UnionModesShape ==
    ASSUME NEW a \in MapType, NEW b \in MapType,
           IsFiniteSet(DOMAIN a), IsFiniteSet(DOMAIN b)
    PROVE  \E w \in Seq(Int) :
              /\ UnionModes(a, b) =
                    w \o (IF DefaultMode \in DOMAIN a \cup DOMAIN b
                          THEN <<DefaultMode>> ELSE <<>>)
              /\ \A i, j \in 1 .. Len(w) : i < j => w[i] < w[j]
              /\ ToSet(w) = (DOMAIN a \cup DOMAIN b) \ {DefaultMode}
<1>1. DOMAIN a \subseteq Modes /\ DOMAIN b \subseteq Modes
  BY MapTypeElim
<1>0. (DOMAIN a \cup DOMAIN b) \ {DefaultMode} \in SUBSET Int
  <2>1. Modes \subseteq Int
    BY ModesAssumption
  <2> QED BY <1>1, <2>1, Zenon
<1> PICK S0 \in SUBSET Int : S0 = (DOMAIN a \cup DOMAIN b) \ {DefaultMode}
  BY <1>0, Zenon
<1>2. IsFiniteSet(S0)
  BY FS_Union, FS_RemoveElement
<1>3. /\ SetOrder(S0) \in Seq(Int)
      /\ \A i, j \in 1 .. Len(SetOrder(S0)) : i < j => SetOrder(S0)[i] < SetOrder(S0)[j]
      /\ ToSet(SetOrder(S0)) = S0
  <2>1. /\ SetOrder(S0) \in Seq(Int)
        /\ Len(SetOrder(S0)) = Cardinality(S0)
        /\ \A i, j \in 1 .. Cardinality(S0) : i < j => SetOrder(S0)[i] < SetOrder(S0)[j]
        /\ ToSet(SetOrder(S0)) = S0
    BY <1>2, SetOrderFacts
  <2> QED BY <2>1
<1>4. UnionModes(a, b) =
        SetOrder(S0) \o (IF DefaultMode \in DOMAIN a \cup DOMAIN b
                         THEN <<DefaultMode>> ELSE <<>>)
  BY DEF UnionModes
<1> QED BY <1>3, <1>4

(* union_modes for two maps with finitely many modes: each mode of either *)
(* map once, DefaultMode last, the others ascending.                      *)
LEMMA UnionModesFacts ==
    ASSUME NEW a \in MapType, NEW b \in MapType,
           IsFiniteSet(DOMAIN a), IsFiniteSet(DOMAIN b)
    PROVE  /\ ToSet(UnionModes(a, b)) = DOMAIN a \cup DOMAIN b
           /\ \A i, j \in DOMAIN UnionModes(a, b) :
                 i < j => /\ UnionModes(a, b)[i] # UnionModes(a, b)[j]
                          /\ UnionModes(a, b)[j] # DefaultMode =>
                                UnionModes(a, b)[i] < UnionModes(a, b)[j]
<1> PICK U : U = DOMAIN a \cup DOMAIN b
  OBVIOUS
<1> PICK w \in Seq(Int) :
        /\ UnionModes(a, b) = w \o (IF DefaultMode \in U THEN <<DefaultMode>> ELSE <<>>)
        /\ \A i, j \in 1 .. Len(w) : i < j => w[i] < w[j]
        /\ ToSet(w) = U \ {DefaultMode}
  BY UnionModesShape
<1> PICK k \in Nat : k = Len(w)
  OBVIOUS
<1>2. UnionModes(a, b) = w \o (IF DefaultMode \in U THEN <<DefaultMode>> ELSE <<>>)
  OBVIOUS
<1>3. CASE DefaultMode \notin U
  <2>1. UnionModes(a, b) = w
    BY <1>2, <1>3
  <2>2. ToSet(w) = U
    BY <1>3
  <2>3. \A i, j \in DOMAIN w : i < j => w[i] # w[j] /\ w[i] < w[j]
    OBVIOUS
  <2>4. ToSet(UnionModes(a, b)) = DOMAIN a \cup DOMAIN b
    BY <2>1, <2>2
  <2> QED BY <2>1, <2>3, <2>4
<1>4. CASE DefaultMode \in U
  <2> PICK D \in Int : D = DefaultMode
    BY ModesAssumption
  <2>1. w \in Seq(Int)
    OBVIOUS
  <2>2. UnionModes(a, b) = Append(w, D)
    BY <1>2, <1>4, <2>1, AppendIsConcat
  <2>3. /\ Append(w, D) \in Seq(Int)
        /\ Len(Append(w, D)) = Len(w) + 1
        /\ \A i \in 1 .. Len(w) : Append(w, D)[i] = w[i]
        /\ Append(w, D)[Len(w) + 1] = D
    BY <2>1, AppendProperties
  <2>4. ToSet(Append(w, D)) = U
    <3>1. ToSet(Append(w, D)) = ToSet(w) \cup {D}
      BY <2>1, AppendToSet
    <3> QED BY <1>4, <3>1
  <2>5. ASSUME NEW i \in 1 .. k + 1, NEW j \in 1 .. k + 1, i < j
        PROVE  /\ Append(w, D)[i] # Append(w, D)[j]
               /\ Append(w, D)[j] # D => Append(w, D)[i] < Append(w, D)[j]
    <3>1. i \in 1 .. k /\ Append(w, D)[i] = w[i]
      BY <2>3, <2>5
    <3>2. w[i] \in U \ {D}
      <4>0. i \in DOMAIN w
        BY <3>1
      <4>1. w[i] \in ToSet(w)
        BY <4>0, Zenon DEF ToSet
      <4> QED BY <4>1
    <3>3. CASE j <= k
      <4>1. j \in 1 .. k /\ Append(w, D)[j] = w[j]
        BY <2>3, <2>5, <3>3
      <4>2. w[i] < w[j]
        BY <3>1, <4>1, <2>5
      <4> QED BY <3>1, <4>1, <4>2
    <3>4. CASE j = k + 1
      <4>1. Append(w, D)[j] = D
        BY <2>3, <3>4
      <4> QED BY <3>1, <3>2, <4>1
    <3> QED BY <3>3, <3>4, <2>5
  <2>6. DOMAIN Append(w, D) = 1 .. k + 1
    BY <2>3
  <2> QED BY <2>2, <2>4, <2>5, <2>6
<1> QED BY <1>3, <1>4

-----------------------------------------------------------------------------
(* Every object's Map has finitely many entries: a std::map is finite.    *)
FiniteMaps == \A o \in Objects : IsFiniteSet(DOMAIN maps[o])

IInv == TypeOK /\ FiniteMaps

LEMMA InitIInv == Init => IInv
<1> SUFFICES ASSUME Init PROVE IInv OBVIOUS
<1>1. TypeOK
  BY InitType
<1>2. \A c \in Constructed : IsFiniteSet(DOMAIN c)
  BY FS_EmptySet, FS_Singleton DEF Constructed
<1> QED BY <1>1, <1>2 DEF Init, IInv, FiniteMaps

(* A step of object o that may add modes m and DefaultMode to its Map    *)
(* keeps every Map finite.                                                 *)
LEMMA FiniteStep ==
    ASSUME FiniteMaps, TypeOK, NEW o \in Objects, NEW m \in Modes, NEW X,
           DOMAIN X \subseteq (DOMAIN maps[o] \cup {m}) \cup {DefaultMode},
           maps' = [maps EXCEPT ![o] = X]
    PROVE  FiniteMaps'
<1>1. IsFiniteSet(DOMAIN maps[o])
  BY DEF FiniteMaps
<1>2. IsFiniteSet(DOMAIN maps[o] \cup {m})
  BY <1>1, FS_AddElement
<1>3. IsFiniteSet((DOMAIN maps[o] \cup {m}) \cup {DefaultMode})
  BY <1>2, FS_AddElement
<1>4. IsFiniteSet(DOMAIN X)
  BY <1>3, FS_Subset
<1>5. \A p \in Objects : maps'[p] = IF p = o THEN X ELSE maps[p]
  BY DEF TypeOK
<1> QED BY <1>4, <1>5 DEF FiniteMaps

LEMMA NextIInv == IInv /\ [Next]_vars => IInv'
<1> SUFFICES ASSUME IInv, [Next]_vars PROVE IInv' OBVIOUS
<1>1. TypeOK'
  BY NextType DEF IInv
<1> USE DEF IInv
<1>2. ASSUME NEW o \in Objects, NEW m \in Modes, NEW v \in Infos, ClientSetMode(o, m, v)
      PROVE  FiniteMaps'
  <2>1. DOMAIN SetEntry(maps[o], m, v) \subseteq (DOMAIN maps[o] \cup {m}) \cup {DefaultMode}
    BY DEF SetEntry
  <2> QED BY <1>2, <2>1, FiniteStep DEF ClientSetMode
<1>3. ASSUME NEW o \in Objects, NEW m \in Modes, Get(o, m)
      PROVE  FiniteMaps'
  <2> DEFINE X == IF HasMode(maps[o], m) THEN maps[o]
                  ELSE SetEntry(maps[o], m, maps[o][DefaultMode])
  <2>1. DOMAIN X \subseteq (DOMAIN maps[o] \cup {m}) \cup {DefaultMode}
    BY DEF SetEntry
  <2>2. maps' = [maps EXCEPT ![o] = X]
    BY <1>3 DEF Get, GetEntry
  <2> QED BY <2>1, <2>2, FiniteStep
<1>4. ASSUME NEW o \in Objects, NEW m \in Modes, MakeSimple(o, m)
      PROVE  FiniteMaps'
  <2> DEFINE X == [x \in {DefaultMode} |-> ConstGet(maps[o], m)]
  <2>1. DOMAIN X \subseteq (DOMAIN maps[o] \cup {m}) \cup {DefaultMode}
    OBVIOUS
  <2>2. maps' = [maps EXCEPT ![o] = X]
    BY <1>4 DEF MakeSimple
  <2> QED BY <2>1, <2>2, FiniteStep
<1>5. ASSUME UNCHANGED vars PROVE FiniteMaps'
  BY <1>5 DEF vars, FiniteMaps
<1>6. FiniteMaps'
  BY <1>2, <1>3, <1>4, <1>5 DEF Next
<1> QED BY <1>1, <1>6

(* union_modes, applied to any two objects in any reachable state, lists  *)
(* each mode of either map exactly once, DefaultMode last and the others  *)
(* ascending, for every set of objects, modes and infos.                  *)
THEOREM UnionModesOrderHolds == Spec => []UnionModesOrder
<1>1. IInv => UnionModesOrder
  BY UnionModesFacts DEF IInv, TypeOK, FiniteMaps, UnionModesOrder
<1> QED BY <1>1, InitIInv, NextIInv, PTL DEF Spec
=============================================================================
