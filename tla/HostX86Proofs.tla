---------------------------- MODULE HostX86Proofs ----------------------------
(***************************************************************************)
(* Proofs about sys::getHostCPUName (x86), for every set of hosts and      *)
(* every content of the uninitialized Type and Subtype.                    *)
(***************************************************************************)
EXTENDS HostX86Properties, SequenceLemmas, TLAPS

(* The features getAvailableFeatures reports, one membership at a time. *)
LEMMA FeatureMembership ==
    ASSUME NEW c \in CPUID
    PROVE  LET hasAVX == {27, 28} \subseteq c.ecx1 /\ {1, 2} \subseteq c.xcr0
               hasAVX512Save == hasAVX /\ {5, 6, 7} \subseteq c.xcr0
               hasLeaf7 == c.maxLeaf >= 7
               f == GetAvailableFeatures(c)
           IN  /\ "AVX" \in f <=> hasAVX
               /\ "AVX2" \in f <=> hasAVX /\ hasLeaf7 /\ 5 \in c.ebx7
               /\ "AVX512" \in f <=> hasLeaf7 /\ hasAVX512Save /\ 16 \in c.ebx7
               /\ "AVX512SAVE" \in f <=> hasAVX512Save
               /\ "ADX" \in f <=> hasLeaf7 /\ 19 \in c.ebx7
BY DEF GetAvailableFeatures

(* The chain of feature tests in getAvailableFeatures (Host.cpp) reports  *)
(* AVX2 and AVX-512 only on top of usable AVX, AVX-512 only with the      *)
(* opmask/ZMM state saved, and leaf-7 features only when leaf 7 exists:   *)
(* for every CPUID answer, not only the profiles the runs enumerate.      *)
LEMMA FeatureImplicationsForAll ==
    ASSUME NEW c \in CPUID
    PROVE  LET f == GetAvailableFeatures(c)
           IN  /\ f \cap {"AVX2", "AVX512", "AVX512SAVE"} # {} => "AVX" \in f
               /\ "AVX" \in f => {27, 28} \subseteq c.ecx1 /\ {1, 2} \subseteq c.xcr0
               /\ "AVX512" \in f => "AVX512SAVE" \in f /\ 16 \in c.ebx7
               /\ "AVX512SAVE" \in f => {5, 6, 7} \subseteq c.xcr0
               /\ f \cap {"AVX2", "AVX512", "ADX"} # {} => c.maxLeaf >= 7
BY FeatureMembership
(* For an AMD family getAMDProcessorTypeAndSubtype has a case for, without *)
(* usable AVX, the name switch never returns a name whose subtarget uses  *)
(* AVX, whatever Type and Subtype held before the call.                   *)
LEMMA AMDNameWithoutAVX ==
    ASSUME NEW family \in AMDKnownFamilies, NEW model, NEW f, NEW t0, NEW s0,
           "AVX" \notin f
    PROVE  AMDName(GetAMDProcessorTypeAndSubtype(family, model, f, t0, s0)) \notin AVXNames
<1> DEFINE r == GetAMDProcessorTypeAndSubtype(family, model, f, t0, s0)
<1>1. CASE family = 4
  <2>1. r.type = "AMD_i486"
    BY <1>1 DEF GetAMDProcessorTypeAndSubtype, Set
  <2>. QED  BY <2>1 DEF AMDName, AVXNames
<1>2. CASE family = 5
  <2>1. r.type = "AMDPENTIUM"
    BY <1>2 DEF GetAMDProcessorTypeAndSubtype, Set
  <2>2. AMDName(r) \in {"k6", "k6-2", "k6-3", "geode", "pentium"}
    BY <2>1 DEF AMDName, Lookup
  <2>. QED  BY <2>2 DEF AVXNames
<1>3. CASE family = 6
  <2>1. r.type = "AMDATHLON"
    BY <1>3 DEF GetAMDProcessorTypeAndSubtype, Set
  <2>2. AMDName(r) \in {"athlon-tbird", "athlon-mp", "athlon-xp", "k8-sse3", "opteron",
                        "athlon-fx", "athlon64", "athlon"}
    BY <2>1 DEF AMDName, Lookup
  <2>. QED  BY <2>2 DEF AVXNames
<1>4. CASE family = 15
  <2>1. r.type = "AMDATHLON"
    BY <1>4 DEF GetAMDProcessorTypeAndSubtype, Set
  <2>2. AMDName(r) \in {"athlon-tbird", "athlon-mp", "athlon-xp", "k8-sse3", "opteron",
                        "athlon-fx", "athlon64", "athlon"}
    BY <2>1 DEF AMDName, Lookup
  <2>. QED  BY <2>2 DEF AVXNames
<1>5. CASE family = 16
  <2>1. r.type = "AMDFAM10H"
    BY <1>5 DEF GetAMDProcessorTypeAndSubtype, Set
  <2>. QED  BY <2>1 DEF AMDName, AVXNames
<1>6. CASE family = 20
  <2>1. r.type = "AMDFAM14H"
    BY <1>6 DEF GetAMDProcessorTypeAndSubtype, Set
  <2>. QED  BY <2>1 DEF AMDName, AVXNames
<1>7. CASE family = 21
  <2>1. r = [type |-> "AMDFAM15H", subtype |-> "AMD_BTVER1"]
    BY <1>7 DEF GetAMDProcessorTypeAndSubtype, Set, AMDFam15hSubtype
  <2>2. AMDName(r) = "btver1"
    BY <2>1 DEF AMDName, Lookup
  <2>. QED  BY <2>2 DEF AVXNames
<1>8. CASE family = 22
  <2>1. r = [type |-> "AMDFAM16H", subtype |-> "AMD_BTVER1"]
    BY <1>8 DEF GetAMDProcessorTypeAndSubtype, Set
  <2>2. AMDName(r) = "btver1"
    BY <2>1 DEF AMDName, Lookup
  <2>. QED  BY <2>2 DEF AVXNames
<1>. QED  BY <1>1, <1>2, <1>3, <1>4, <1>5, <1>6, <1>7, <1>8 DEF AMDKnownFamilies
(* On an AMD host getHostCPUName's name is the AMD switch applied to what *)
(* getAMDProcessorTypeAndSubtype left in Type and Subtype.                *)
LEMMA AMDHostName ==
    ASSUME NEW c, NEW t0, NEW s0, c.vendor = "Auth"
    PROVE  GetHostCPUName(c, t0, s0) =
               AMDName(GetAMDProcessorTypeAndSubtype(DetectX86FamilyModel(c.eax1).family,
                                                     DetectX86FamilyModel(c.eax1).model,
                                                     GetAvailableFeatures(c), t0, s0))
BY DEF GetHostCPUName

(* The Intel name switch reads Subtype only for PENTIUM, CORE2, COREI7   *)
(* and ATOM: an outcome that assigns Type, and Subtype unless Type is     *)
(* another one, gives a name independent of what they held.              *)
SubtypeReadBy == {"INTEL_PENTIUM", "INTEL_CORE2", "INTEL_COREI7", "INTEL_ATOM"}

AssignsWhatIsRead(e) ==
    e.type # "keep" /\ (e.subtype # "keep" \/ e.type \notin SubtypeReadBy)

LEMMA IntelNameIgnoresPrior ==
    ASSUME NEW e, AssignsWhatIsRead(e), NEW t0, NEW s0, NEW t1, NEW s1
    PROVE  IntelName(Set(e.type, e.subtype, t0, s0)) = IntelName(Set(e.type, e.subtype, t1, s1))
<1>1. CASE e.subtype # "keep"
  BY <1>1 DEF AssignsWhatIsRead, Set
<1>2. CASE e.subtype = "keep"
  <2>1. e.type \notin SubtypeReadBy /\ e.type # "keep"
    BY <1>2 DEF AssignsWhatIsRead
  <2>. QED  BY <2>1 DEF IntelName, Set, SubtypeReadBy
<1>. QED  BY <1>1, <1>2

(* Every row of the family-6 model table and of the feature guess assigns *)
(* what the name switch reads.                                            *)
LEMMA Family6RowsAssign ==
    /\ DOMAIN IntelFamily6Models = 1 .. 18
    /\ \A i \in 1 .. 18 : AssignsWhatIsRead(IntelFamily6Models[i])
    /\ DOMAIN IntelFamily6Guess = 1 .. 14
    /\ \A i \in 1 .. 14 : AssignsWhatIsRead(IntelFamily6Guess[i])
    /\ IntelFamily6Guess[14].needs = {}
BY DEF IntelFamily6Models, IntelFamily6Guess, AssignsWhatIsRead, SubtypeReadBy

(* The feature guess for an unknown family-6 model always finds a first   *)
(* matching rule: the last one needs nothing.                             *)
LEMMA Family6GuessFound ==
    ASSUME NEW f
    PROVE  \E i \in DOMAIN IntelFamily6Guess :
               /\ IntelFamily6Guess[i].needs \subseteq f
               /\ \A j \in 1 .. i - 1 : ~(IntelFamily6Guess[j].needs \subseteq f)
<1> DEFINE M == {i \in 1 .. 14 : IntelFamily6Guess[i].needs \subseteq f}
<1>1. M \in SUBSET Nat /\ M # {}
  <2>1. 14 \in M
    BY Family6RowsAssign
  <2>. QED  BY <2>1
<1>2. PICK m \in M : \A j \in M : m <= j
  BY <1>1, MinOfIndices
<1>. QED  BY <1>2, Family6RowsAssign

(* The family-6 switch of getIntelProcessorTypeAndSubtype, known model or *)
(* guess, gives a name that does not depend on the prior Type/Subtype.    *)
LEMMA Family6IgnoresPrior ==
    ASSUME NEW model, NEW f, NEW t0, NEW s0, NEW t1, NEW s1
    PROVE  IntelName(IntelFamily6(model, f, t0, s0)) = IntelName(IntelFamily6(model, f, t1, s1))
<1>1. CASE \E i \in DOMAIN IntelFamily6Models : model \in IntelFamily6Models[i].models
  <2> DEFINE i == CHOOSE i \in DOMAIN IntelFamily6Models : model \in IntelFamily6Models[i].models
             e == IntelFamily6Models[i]
  <2>1. i \in 1 .. 18
    BY <1>1, Family6RowsAssign
  <2>2. AssignsWhatIsRead(e)
    BY <2>1, Family6RowsAssign
  <2>3. IntelFamily6(model, f, t0, s0) = Set(e.type, e.subtype, t0, s0)
        /\ IntelFamily6(model, f, t1, s1) = Set(e.type, e.subtype, t1, s1)
    BY <1>1 DEF IntelFamily6
  <2>. QED  BY <2>2, <2>3, IntelNameIgnoresPrior
<1>2. CASE ~\E i \in DOMAIN IntelFamily6Models : model \in IntelFamily6Models[i].models
  <2> DEFINE i == CHOOSE i \in DOMAIN IntelFamily6Guess :
                      /\ IntelFamily6Guess[i].needs \subseteq f
                      /\ \A j \in 1 .. i - 1 : ~(IntelFamily6Guess[j].needs \subseteq f)
             e == IntelFamily6Guess[i]
  <2>1. i \in 1 .. 14
    BY Family6GuessFound, Family6RowsAssign
  <2>2. AssignsWhatIsRead(e)
    BY <2>1, Family6RowsAssign
  <2>3. IntelFamily6(model, f, t0, s0) = Set(e.type, e.subtype, t0, s0)
        /\ IntelFamily6(model, f, t1, s1) = Set(e.type, e.subtype, t1, s1)
    BY <1>2 DEF IntelFamily6
  <2>. QED  BY <2>2, <2>3, IntelNameIgnoresPrior
<1>. QED  BY <1>1, <1>2

(* With brand id 0 and a family and model of IntelAssignsWhatIsRead,     *)
(* getIntelProcessorTypeAndSubtype assigns what the name switch reads.   *)
LEMMA IntelIgnoresPrior ==
    ASSUME NEW family, NEW model, IntelAssignsWhatIsRead([family |-> family, model |-> model]),
           NEW f,
           NEW t0, NEW s0, NEW t1, NEW s1
    PROVE  IntelName(GetIntelProcessorTypeAndSubtype(family, model, 0, f, t0, s0)) =
           IntelName(GetIntelProcessorTypeAndSubtype(family, model, 0, f, t1, s1))
<1>1. CASE family \in {3, 4}
  <2> DEFINE e == [type |-> IF family = 3 THEN "INTEL_i386" ELSE "INTEL_i486",
                   subtype |-> "keep"]
  <2>1. AssignsWhatIsRead(e)
    BY DEF AssignsWhatIsRead, SubtypeReadBy
  <2>2. /\ GetIntelProcessorTypeAndSubtype(family, model, 0, f, t0, s0) = Set(e.type, e.subtype, t0, s0)
        /\ GetIntelProcessorTypeAndSubtype(family, model, 0, f, t1, s1) = Set(e.type, e.subtype, t1, s1)
    BY <1>1 DEF GetIntelProcessorTypeAndSubtype
  <2>. QED  BY <2>1, <2>2, IntelNameIgnoresPrior
<1>2. CASE family = 6
  <2>1. /\ GetIntelProcessorTypeAndSubtype(family, model, 0, f, t0, s0) = IntelFamily6(model, f, t0, s0)
        /\ GetIntelProcessorTypeAndSubtype(family, model, 0, f, t1, s1) = IntelFamily6(model, f, t1, s1)
    BY <1>2 DEF GetIntelProcessorTypeAndSubtype
  <2>. QED  BY <2>1, Family6IgnoresPrior
<1>3. CASE family = 15
  <2> DEFINE e == [type |-> IF model \in {3, 4, 6}
                            THEN IF "EM64T" \in f THEN "INTEL_NOCONA" ELSE "INTEL_PRESCOTT"
                            ELSE IF "EM64T" \in f THEN "INTEL_X86_64" ELSE "INTEL_PENTIUM_IV",
                   subtype |-> "keep"]
  <2>1. AssignsWhatIsRead(e)
    BY DEF AssignsWhatIsRead, SubtypeReadBy
  <2>2. /\ GetIntelProcessorTypeAndSubtype(family, model, 0, f, t0, s0) = Set(e.type, e.subtype, t0, s0)
        /\ GetIntelProcessorTypeAndSubtype(family, model, 0, f, t1, s1) = Set(e.type, e.subtype, t1, s1)
    BY <1>3 DEF GetIntelProcessorTypeAndSubtype, IntelFamily15
  <2>. QED  BY <2>1, <2>2, IntelNameIgnoresPrior
<1>4. CASE family = 5 /\ model = 4
  <2> DEFINE e == [type |-> "INTEL_PENTIUM", subtype |-> "INTEL_PENTIUM_MMX"]
  <2>1. AssignsWhatIsRead(e)
    BY DEF AssignsWhatIsRead
  <2>2. /\ GetIntelProcessorTypeAndSubtype(family, model, 0, f, t0, s0) = Set(e.type, e.subtype, t0, s0)
        /\ GetIntelProcessorTypeAndSubtype(family, model, 0, f, t1, s1) = Set(e.type, e.subtype, t1, s1)
    BY <1>4 DEF GetIntelProcessorTypeAndSubtype
  <2>. QED  BY <2>1, <2>2, IntelNameIgnoresPrior
<1>. QED  BY <1>1, <1>2, <1>3, <1>4 DEF IntelAssignsWhatIsRead

(* On an Intel host getHostCPUName's name is the Intel switch applied to  *)
(* what getIntelProcessorTypeAndSubtype left in Type and Subtype.         *)
LEMMA IntelHostName ==
    ASSUME NEW c, NEW t0, NEW s0, c.vendor = "Genu"
    PROVE  GetHostCPUName(c, t0, s0) =
               IntelName(GetIntelProcessorTypeAndSubtype(DetectX86FamilyModel(c.eax1).family,
                                                         DetectX86FamilyModel(c.eax1).model,
                                                         Field(c.ebx1, 0, 8),
                                                         GetAvailableFeatures(c), t0, s0))
BY DEF GetHostCPUName

-----------------------------------------------------------------------------
(* The inductive invariant: the host is one of CPUs, and a returned name  *)
(* is what getHostCPUName computes for it from some content of the        *)
(* uninitialized Type and Subtype.                                        *)
IInv ==
    /\ cpu \in CPUs
    /\ name = "none" \/ name \in PossibleNames(cpu)

LEMMA InitIInv == Init => IInv
BY DEF Init, IInv

LEMMA NextIInv == IInv /\ [Next]_vars => IInv'
<1> SUFFICES ASSUME IInv, [Next]_vars PROVE IInv'
  OBVIOUS
<1>1. CASE GetHostCPUNameCall
  BY <1>1 DEF GetHostCPUNameCall, IInv, PossibleNames
<1>2. CASE UNCHANGED vars
  BY <1>2 DEF vars, IInv, PossibleNames
<1>. QED  BY <1>1, <1>2 DEF Next

LEMMA IInvHolds == Spec => []IInv
BY InitIInv, NextIInv, PTL DEF Spec

(* Every host getHostCPUName runs on reports AVX2 and AVX-512 only on top *)
(* of usable AVX, AVX-512 only with its state saved by the OS, and leaf-7 *)
(* features only when leaf 7 exists (getAvailableFeatures, Host.cpp).     *)
THEOREM FeatureImplicationsHolds == Spec => []FeatureImplications
<1>1. IInv => FeatureImplications
  <2> SUFFICES ASSUME IInv PROVE FeatureImplications
    OBVIOUS
  <2>1. cpu \in CPUID
    BY CPUsAssumption DEF IInv
  <2>. QED  BY <2>1, FeatureImplicationsForAll DEF FeatureImplications
<1>. QED  BY <1>1, IInvHolds, PTL

(* getHostCPUName never names an AMD CPU of a family the code knows after *)
(* an AVX subtarget (bdver*, btver2) unless getAvailableFeatures found AVX *)
(* usable: the btver1 fallback of families 15h and 16h is taken whatever  *)
(* Type and Subtype held, for every host and every stack content.         *)
THEOREM AMDAVXNameNeedsAVXHolds == Spec => []AMDAVXNameNeedsAVX
<1>1. IInv => AMDAVXNameNeedsAVX
  <2> SUFFICES ASSUME IInv, Called, cpu.vendor = "Auth", name \in AVXNames,
                      DetectX86FamilyModel(cpu.eax1).family \in AMDKnownFamilies,
                      "AVX" \notin GetAvailableFeatures(cpu)
               PROVE  FALSE
    BY DEF AMDAVXNameNeedsAVX
  <2>1. PICK t0 \in UninitTypes, s0 \in UninitSubtypes : name = GetHostCPUName(cpu, t0, s0)
    BY DEF IInv, Called, PossibleNames
  <2>2. name = AMDName(GetAMDProcessorTypeAndSubtype(DetectX86FamilyModel(cpu.eax1).family,
                                                     DetectX86FamilyModel(cpu.eax1).model,
                                                     GetAvailableFeatures(cpu), t0, s0))
    BY <2>1, AMDHostName
  <2>. QED  BY <2>2, AMDNameWithoutAVX
<1>. QED  BY <1>1, IInvHolds, PTL
(* For a genuine Intel CPU with brand id 0 of family 3, 4, 6 or 15, or a  *)
(* Pentium MMX, getHostCPUName's name depends on CPUID alone: every path  *)
(* of getIntelProcessorTypeAndSubtype assigns Type, and Subtype whenever  *)
(* the name switch reads it, for every host and every stack content.      *)
(* Plain Pentiums (family 5, other models) are not covered: their name    *)
(* does depend on the stack (the switch reads their unassigned Subtype). *)
THEOREM KnownIntelFamiliesNamedHolds == Spec => []KnownIntelFamiliesNamed
<1>1. IInv => KnownIntelFamiliesNamed
  <2> DEFINE fm == DetectX86FamilyModel(cpu.eax1)
             N(t, s) == IntelName(GetIntelProcessorTypeAndSubtype(fm.family, fm.model, 0,
                                                                  GetAvailableFeatures(cpu), t, s))
  <2> SUFFICES ASSUME IInv, Called, cpu.vendor = "Genu", Field(cpu.ebx1, 0, 8) = 0,
                      IntelAssignsWhatIsRead(fm)
               PROVE  PossibleNames(cpu) = {name}
    BY DEF KnownIntelFamiliesNamed
  <2>1. \A t, s : GetHostCPUName(cpu, t, s) = N(t, s)
    BY IntelHostName
  <2>2. PICK t0 \in UninitTypes, s0 \in UninitSubtypes : name = GetHostCPUName(cpu, t0, s0)
    BY DEF IInv, Called, PossibleNames
  <2>3. IntelAssignsWhatIsRead([family |-> fm.family, model |-> fm.model])
    BY DEF IntelAssignsWhatIsRead
  <2>4. \A t, s : N(t, s) = N(t0, s0)
    BY <2>3, IntelIgnoresPrior
  <2>. QED  BY <2>1, <2>2, <2>4 DEF PossibleNames
<1>. QED  BY <1>1, IInvHolds, PTL
====
