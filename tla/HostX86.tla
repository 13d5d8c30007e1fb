------------------------------- MODULE HostX86 -------------------------------
(***************************************************************************)
(* sys::getHostCPUName for x86 hosts (Support/Host.cpp): CPUID leaf 0 and  *)
(* 1, XGETBV and leaf 7 / 0x80000001 give the vendor, family, model and   *)
(* feature bits, from which the vendor's get*ProcessorTypeAndSubtype      *)
(* picks an enum Type and Subtype, and a switch turns them into a name.   *)
(*                                                                         *)
(* A register is the set of its 1 bits, so (R >> k) & 1 is k \in R.       *)
(* Type and Subtype are locals of getHostCPUName that are not initialized: *)
(* a path of get*ProcessorTypeAndSubtype that does not assign one leaves   *)
(* whatever the stack held, which the model takes from UninitTypes and    *)
(* UninitSubtypes.                                                         *)
(***************************************************************************)
EXTENDS Integers, TLC

CONSTANTS
    CPUs,            \* the CPUID/XGETBV answers of the hosts considered
    UninitTypes,     \* what an uninitialized Type may hold
    UninitSubtypes   \* what an uninitialized Subtype may hold

(* enum ProcessorTypes *)
ProcessorTypes ==
    {"INTEL_ATOM", "INTEL_CORE2", "INTEL_COREI7", "AMDFAM10H", "AMDFAM15H",
     "INTEL_i386", "INTEL_i486", "INTEL_PENTIUM", "INTEL_PENTIUM_PRO",
     "INTEL_PENTIUM_II", "INTEL_PENTIUM_III", "INTEL_PENTIUM_IV",
     "INTEL_PENTIUM_M", "INTEL_CORE_DUO", "INTEL_XEONPHI", "INTEL_X86_64",
     "INTEL_NOCONA", "INTEL_PRESCOTT", "AMD_i486", "AMDPENTIUM", "AMDATHLON",
     "AMDFAM14H", "AMDFAM16H"}

(* enum ProcessorSubtypes *)
ProcessorSubtypes ==
    {"INTEL_COREI7_NEHALEM", "INTEL_COREI7_WESTMERE",
     "INTEL_COREI7_SANDYBRIDGE", "AMDFAM10H_BARCELONA", "AMDFAM10H_SHANGHAI",
     "AMDFAM10H_ISTANBUL", "AMDFAM15H_BDVER1", "AMDFAM15H_BDVER2",
     "INTEL_PENTIUM_MMX", "INTEL_CORE2_65", "INTEL_CORE2_45",
     "INTEL_COREI7_IVYBRIDGE", "INTEL_COREI7_HASWELL", "INTEL_COREI7_BROADWELL",
     "INTEL_COREI7_SKYLAKE", "INTEL_COREI7_SKYLAKE_AVX512",
     "INTEL_ATOM_BONNELL", "INTEL_ATOM_SILVERMONT", "INTEL_KNIGHTS_LANDING",
     "AMDPENTIUM_K6", "AMDPENTIUM_K62", "AMDPENTIUM_K63", "AMDPENTIUM_GEODE",
     "AMDATHLON_TBIRD", "AMDATHLON_MP", "AMDATHLON_XP", "AMDATHLON_K8SSE3",
     "AMDATHLON_OPTERON", "AMDATHLON_FX", "AMDATHLON_64", "AMD_BTVER1",
     "AMD_BTVER2", "AMDFAM15H_BDVER3", "AMDFAM15H_BDVER4"}

(* enum ProcessorFeatures *)
ProcessorFeatures ==
    {"CMOV", "MMX", "POPCNT", "SSE", "SSE2", "SSE3", "SSSE3", "SSE4_1",
     "SSE4_2", "AVX", "AVX2", "AVX512", "AVX512SAVE", "MOVBE", "ADX", "EM64T"}

Reg == SUBSET (0 .. 31)

(* What the host answers: the leaf-0 vendor (EBX) and maximum leaf, the    *)
(* leaf-1 registers, XCR0's low half, leaf 7's EBX and leaf 0x80000001's  *)
(* EDX.                                                                    *)
CPUID == [vendor : {"Genu", "Auth", "Other"}, maxLeaf : Nat,
          eax1 : Reg, ebx1 : Reg, ecx1 : Reg, edx1 : Reg,
          xcr0 : Reg, ebx7 : Reg, edx81 : Reg]

ASSUME CPUsAssumption == CPUs \subseteq CPUID
ASSUME UninitAssumption ==
    UninitTypes \subseteq ProcessorTypes \cup {"none"}
    /\ UninitSubtypes \subseteq ProcessorSubtypes \cup {"none"}

(* (R >> lo) & (2^n - 1) *)
Field(r, lo, n) ==
    LET f[j \in 0 .. n] ==
            IF j = 0 THEN 0 ELSE f[j - 1] + (IF lo + j - 1 \in r THEN 2^(j - 1) ELSE 0)
    IN  f[n]

-----------------------------------------------------------------------------
(* detectX86FamilyModel: the extended family counts for family 0xf only,  *)
(* the extended model for families 6 and 0xf.                             *)
DetectX86FamilyModel(eax) ==
    LET family == Field(eax, 8, 4)
        model  == Field(eax, 4, 4)
    IN  [family |-> IF family = 15 THEN family + Field(eax, 20, 8) ELSE family,
         model  |-> IF family \in {6, 15} THEN model + Field(eax, 16, 4) * 16 ELSE model]

MutantGetAvailableFeatures(c) ==
    LET hasAVX == {27, 28} \subseteq c.ecx1 /\ {1, 2} \subseteq c.xcr0
        hasAVX512Save == hasAVX /\ {5, 6, 7} \subseteq c.xcr0
        hasLeaf7 == c.maxLeaf >= 7
        has == [MMX |-> 23 \in c.edx1, SSE |-> 25 \in c.edx1, SSE2 |-> 26 \in c.edx1,
                SSE3 |-> 0 \in c.ecx1, SSSE3 |-> 9 \in c.ecx1, SSE4_1 |-> 19 \in c.ecx1,
                SSE4_2 |-> 20 \in c.ecx1, MOVBE |-> 22 \in c.ecx1,
                AVX |-> hasAVX, AVX2 |-> hasLeaf7 /\ 5 \in c.ebx7,
                AVX512 |-> hasLeaf7 /\ hasAVX512Save /\ 16 \in c.ebx7,
                AVX512SAVE |-> hasAVX512Save, ADX |-> hasLeaf7 /\ 19 \in c.ebx7,
                EM64T |-> 29 \in c.edx81]
    IN  {f \in DOMAIN has : has[f]}

(* getAvailableFeatures(ECX, EDX, MaxLeaf): the leaf-1 bits; AVX only when *)
(* CPUID reports OSXSAVE and AVX (ECX bits 27, 28) and XCR0 says the OS    *)
(* saves SSE and AVX state (bits 1, 2); the AVX-512 state (bits 5-7) on   *)
(* top of that; AVX2, AVX-512 and ADX from leaf 7's EBX when MaxLeaf >= 7; *)
(* EM64T from leaf 0x80000001's EDX bit 29.                                *)
GetAvailableFeatures(c) ==
    LET hasAVX == {27, 28} \subseteq c.ecx1 /\ {1, 2} \subseteq c.xcr0
        hasAVX512Save == hasAVX /\ {5, 6, 7} \subseteq c.xcr0
        hasLeaf7 == c.maxLeaf >= 7
        has == [MMX |-> 23 \in c.edx1, SSE |-> 25 \in c.edx1, SSE2 |-> 26 \in c.edx1,
                SSE3 |-> 0 \in c.ecx1, SSSE3 |-> 9 \in c.ecx1, SSE4_1 |-> 19 \in c.ecx1,
                SSE4_2 |-> 20 \in c.ecx1, MOVBE |-> 22 \in c.ecx1,
                AVX |-> hasAVX, AVX2 |-> hasAVX /\ hasLeaf7 /\ 5 \in c.ebx7,
                AVX512 |-> hasLeaf7 /\ hasAVX512Save /\ 16 \in c.ebx7,
                AVX512SAVE |-> hasAVX512Save, ADX |-> hasLeaf7 /\ 19 \in c.ebx7,
                EM64T |-> 29 \in c.edx81]
    IN  {f \in DOMAIN has : has[f]}

-----------------------------------------------------------------------------
(* The outcome of get*ProcessorTypeAndSubtype on the prior (uninitialized) *)
(* Type t0 and Subtype s0: "keep" for an output the path does not assign.  *)
Set(t, s, t0, s0) ==
    [type |-> IF t = "keep" THEN t0 ELSE t, subtype |-> IF s = "keep" THEN s0 ELSE s]

(* The family-6 models getIntelProcessorTypeAndSubtype knows by number.    *)
IntelFamily6Models ==
    << [models |-> {1}, type |-> "INTEL_PENTIUM_PRO", subtype |-> "keep"],
       [models |-> {3, 5, 6}, type |-> "INTEL_PENTIUM_II", subtype |-> "keep"],
       [models |-> {7, 8, 10, 11}, type |-> "INTEL_PENTIUM_III", subtype |-> "keep"],
       [models |-> {9, 13, 21}, type |-> "INTEL_PENTIUM_M", subtype |-> "keep"],
       [models |-> {14}, type |-> "INTEL_CORE_DUO", subtype |-> "keep"],
       [models |-> {15, 22}, type |-> "INTEL_CORE2", subtype |-> "INTEL_CORE2_65"],
       [models |-> {23, 29}, type |-> "INTEL_CORE2", subtype |-> "INTEL_CORE2_45"],
       [models |-> {26, 30, 31, 46}, type |-> "INTEL_COREI7",
        subtype |-> "INTEL_COREI7_NEHALEM"],
       [models |-> {37, 44, 47}, type |-> "INTEL_COREI7",
        subtype |-> "INTEL_COREI7_WESTMERE"],
       [models |-> {42, 45}, type |-> "INTEL_COREI7",
        subtype |-> "INTEL_COREI7_SANDYBRIDGE"],
       [models |-> {58, 62}, type |-> "INTEL_COREI7",
        subtype |-> "INTEL_COREI7_IVYBRIDGE"],
       [models |-> {60, 63, 69, 70}, type |-> "INTEL_COREI7",
        subtype |-> "INTEL_COREI7_HASWELL"],
       [models |-> {61, 71, 79, 86}, type |-> "INTEL_COREI7",
        subtype |-> "INTEL_COREI7_BROADWELL"],
       [models |-> {78}, type |-> "INTEL_COREI7",
        subtype |-> "INTEL_COREI7_SKYLAKE_AVX512"],
       [models |-> {94}, type |-> "INTEL_COREI7", subtype |-> "INTEL_COREI7_SKYLAKE"],
       [models |-> {28, 38, 39, 53, 54}, type |-> "INTEL_ATOM",
        subtype |-> "INTEL_ATOM_BONNELL"],
       [models |-> {55, 74, 77, 90, 93, 76}, type |-> "INTEL_ATOM",
        subtype |-> "INTEL_ATOM_SILVERMONT"],
       [models |-> {87}, type |-> "INTEL_XEONPHI", subtype |-> "INTEL_KNIGHTS_LANDING"] >>

(* The guess for an unknown family-6 model: the first rule whose features *)
(* the CPU has, in the order of the code's if-chain.                      *)
IntelFamily6Guess ==
    << [needs |-> {"AVX512"}, type |-> "INTEL_XEONPHI", subtype |-> "INTEL_KNIGHTS_LANDING"],
       [needs |-> {"ADX"}, type |-> "INTEL_COREI7", subtype |-> "INTEL_COREI7_BROADWELL"],
       [needs |-> {"AVX2"}, type |-> "INTEL_COREI7", subtype |-> "INTEL_COREI7_HASWELL"],
       [needs |-> {"AVX"}, type |-> "INTEL_COREI7", subtype |-> "INTEL_COREI7_SANDYBRIDGE"],
       [needs |-> {"SSE4_2", "MOVBE"}, type |-> "INTEL_ATOM",
        subtype |-> "INTEL_ATOM_SILVERMONT"],
       [needs |-> {"SSE4_2"}, type |-> "INTEL_COREI7", subtype |-> "INTEL_COREI7_NEHALEM"],
       [needs |-> {"SSE4_1"}, type |-> "INTEL_CORE2", subtype |-> "INTEL_CORE2_45"],
       [needs |-> {"SSSE3", "MOVBE"}, type |-> "INTEL_ATOM", subtype |-> "INTEL_ATOM_BONNELL"],
       [needs |-> {"SSSE3"}, type |-> "INTEL_CORE2", subtype |-> "INTEL_CORE2_65"],
       [needs |-> {"EM64T"}, type |-> "INTEL_X86_64", subtype |-> "keep"],
       [needs |-> {"SSE2"}, type |-> "INTEL_PENTIUM_M", subtype |-> "keep"],
       [needs |-> {"SSE"}, type |-> "INTEL_PENTIUM_III", subtype |-> "keep"],
       [needs |-> {"MMX"}, type |-> "INTEL_PENTIUM_II", subtype |-> "keep"],
       [needs |-> {}, type |-> "INTEL_PENTIUM_PRO", subtype |-> "keep"] >>

MutantIntelFamily6(model, f, t0, s0) ==
    IF \E i \in DOMAIN IntelFamily6Models : model \in IntelFamily6Models[i].models
    THEN LET e == IntelFamily6Models[CHOOSE i \in DOMAIN IntelFamily6Models :
                                         model \in IntelFamily6Models[i].models]
         IN  Set(e.type, e.subtype, t0, s0)
    ELSE LET first == CHOOSE i \in DOMAIN IntelFamily6Guess :
                          /\ IntelFamily6Guess[i].needs \subseteq f
                          /\ \A j \in 1 .. i - 1 : ~(IntelFamily6Guess[j].needs \subseteq f)
         IN  Set(IntelFamily6Guess[first].type, "keep", t0, s0)

(* The switch on Model for family 6: a known model, else the guess. *)
IntelFamily6(model, f, t0, s0) ==
    IF \E i \in DOMAIN IntelFamily6Models : model \in IntelFamily6Models[i].models
    THEN LET e == IntelFamily6Models[CHOOSE i \in DOMAIN IntelFamily6Models :
                                         model \in IntelFamily6Models[i].models]
         IN  Set(e.type, e.subtype, t0, s0)
    ELSE LET first == CHOOSE i \in DOMAIN IntelFamily6Guess :
                          /\ IntelFamily6Guess[i].needs \subseteq f
                          /\ \A j \in 1 .. i - 1 : ~(IntelFamily6Guess[j].needs \subseteq f)
             e == IntelFamily6Guess[first]
         IN  Set(e.type, e.subtype, t0, s0)

(* Family 15 (Pentium 4): EM64T tells x86-64 / nocona from pentium4 /     *)
(* prescott; Subtype is not assigned.                                      *)
IntelFamily15(model, f, t0, s0) ==
    LET em64t == "EM64T" \in f
    IN  Set(IF model \in {3, 4, 6}
            THEN IF em64t THEN "INTEL_NOCONA" ELSE "INTEL_PRESCOTT"
            ELSE IF em64t THEN "INTEL_X86_64" ELSE "INTEL_PENTIUM_IV",
            "keep", t0, s0)

(* getIntelProcessorTypeAndSubtype: nothing is assigned for a non-zero     *)
(* brand id or an unlisted family.                                         *)
GetIntelProcessorTypeAndSubtype(family, model, brandId, f, t0, s0) ==
    IF brandId # 0 THEN Set("keep", "keep", t0, s0)
    ELSE CASE family = 3  -> Set("INTEL_i386", "keep", t0, s0)
           [] family = 4  -> Set("INTEL_i486", "keep", t0, s0)
           [] family = 5  -> Set("INTEL_PENTIUM",
                                 IF model = 4 THEN "INTEL_PENTIUM_MMX" ELSE "keep", t0, s0)
           [] family = 6  -> IntelFamily6(model, f, t0, s0)
           [] family = 15 -> IntelFamily15(model, f, t0, s0)
           [] OTHER       -> Set("keep", "keep", t0, s0)

MutantAMDFam15hSubtype(model, avx) ==
    CASE model \in 80 .. 111 -> "AMDFAM15H_BDVER4"
      [] model \in 48 .. 63  -> "AMDFAM15H_BDVER3"
      [] model \in 16 .. 31  -> "AMDFAM15H_BDVER2"
      [] model \in 0 .. 15   -> "AMDFAM15H_BDVER1"
      [] OTHER               -> "keep"

(* Family 21 (15h): btver1 without AVX, else the Bulldozer generation by  *)
(* model range; a model in none of the ranges leaves Subtype unassigned.  *)
AMDFam15hSubtype(model, avx) ==
    IF ~avx THEN "AMD_BTVER1"
    ELSE CASE model \in 80 .. 111 -> "AMDFAM15H_BDVER4"
           [] model \in 48 .. 63  -> "AMDFAM15H_BDVER3"
           [] model \in 16 .. 31  -> "AMDFAM15H_BDVER2"
           [] model \in 0 .. 15   -> "AMDFAM15H_BDVER1"
           [] OTHER               -> "keep"

(* getAMDProcessorTypeAndSubtype: family 21 and 22 fall back to btver1    *)
(* without AVX; a model outside a family's cases leaves Subtype as it was. *)
GetAMDProcessorTypeAndSubtype(family, model, f, t0, s0) ==
    LET avx == "AVX" \in f
    IN  CASE family = 4  -> Set("AMD_i486", "keep", t0, s0)
          [] family = 5  -> Set("AMDPENTIUM",
                                CASE model \in {6, 7}  -> "AMDPENTIUM_K6"
                                  [] model = 8        -> "AMDPENTIUM_K62"
                                  [] model \in {9, 13} -> "AMDPENTIUM_K63"
                                  [] model = 10       -> "AMDPENTIUM_GEODE"
                                  [] OTHER            -> "keep",
                                t0, s0)
          [] family = 6  -> Set("AMDATHLON",
                                CASE model = 4           -> "AMDATHLON_TBIRD"
                                  [] model \in {6, 7, 8} -> "AMDATHLON_MP"
                                  [] model = 10          -> "AMDATHLON_XP"
                                  [] OTHER               -> "keep",
                                t0, s0)
          [] family = 15 -> Set("AMDATHLON",
                                IF "SSE3" \in f THEN "AMDATHLON_K8SSE3"
                                ELSE IF model = 1 THEN "AMDATHLON_OPTERON"
                                ELSE IF model = 5 THEN "AMDATHLON_FX"
                                ELSE "AMDATHLON_64",
                                t0, s0)
          [] family = 16 -> Set("AMDFAM10H",
                                CASE model = 2 -> "AMDFAM10H_BARCELONA"
                                  [] model = 4 -> "AMDFAM10H_SHANGHAI"
                                  [] model = 8 -> "AMDFAM10H_ISTANBUL"
                                  [] OTHER     -> "keep",
                                t0, s0)
          [] family = 20 -> Set("AMDFAM14H", "AMD_BTVER1", t0, s0)
          [] family = 21 -> Set("AMDFAM15H", AMDFam15hSubtype(model, avx), t0, s0)
          [] family = 22 -> Set("AMDFAM16H", IF avx THEN "AMD_BTVER2" ELSE "AMD_BTVER1",
                                t0, s0)
          [] OTHER       -> Set("keep", "keep", t0, s0)

-----------------------------------------------------------------------------
(* The case of a switch on an enumerator: the table is a record from     *)
(* enumerator names to the string returned, d the default.               *)
Lookup(tbl, k, d) == IF k \in DOMAIN tbl THEN tbl[k] ELSE d

(* The switch on Type (and Subtype) of getHostCPUName's Intel branch. *)
IntelName(ts) ==
    LET t == ts.type
        s == ts.subtype
    IN  CASE t = "INTEL_PENTIUM" ->
                 IF s = "INTEL_PENTIUM_MMX" THEN "pentium-mmx" ELSE "pentium"
          [] t = "INTEL_CORE2" ->
                 IF s = "INTEL_CORE2_45" THEN "penryn" ELSE "core2"
          [] t = "INTEL_COREI7" ->
                 Lookup([INTEL_COREI7_NEHALEM |-> "nehalem",
                         INTEL_COREI7_WESTMERE |-> "westmere",
                         INTEL_COREI7_SANDYBRIDGE |-> "sandybridge",
                         INTEL_COREI7_IVYBRIDGE |-> "ivybridge",
                         INTEL_COREI7_HASWELL |-> "haswell",
                         INTEL_COREI7_BROADWELL |-> "broadwell",
                         INTEL_COREI7_SKYLAKE |-> "skylake",
                         INTEL_COREI7_SKYLAKE_AVX512 |-> "skylake-avx512"], s, "corei7")
          [] t = "INTEL_ATOM" ->
                 Lookup([INTEL_ATOM_BONNELL |-> "bonnell",
                         INTEL_ATOM_SILVERMONT |-> "silvermont"], s, "atom")
          [] OTHER ->
                 Lookup([INTEL_i386 |-> "i386", INTEL_i486 |-> "i486",
                         INTEL_PENTIUM_PRO |-> "pentiumpro",
                         INTEL_PENTIUM_II |-> "pentium2",
                         INTEL_PENTIUM_III |-> "pentium3",
                         INTEL_PENTIUM_IV |-> "pentium4",
                         INTEL_PENTIUM_M |-> "pentium-m", INTEL_CORE_DUO |-> "yonah",
                         INTEL_XEONPHI |-> "knl", INTEL_X86_64 |-> "x86-64",
                         INTEL_NOCONA |-> "nocona", INTEL_PRESCOTT |-> "prescott"], t, "generic")

(* The switch on Type (and Subtype) of getHostCPUName's AMD branch. *)
AMDName(ts) ==
    LET t == ts.type
        s == ts.subtype
    IN  CASE t = "AMD_i486" -> "i486"
          [] t = "AMDPENTIUM" ->
                 Lookup([AMDPENTIUM_K6 |-> "k6", AMDPENTIUM_K62 |-> "k6-2",
                         AMDPENTIUM_K63 |-> "k6-3", AMDPENTIUM_GEODE |-> "geode"],
                        s, "pentium")
          [] t = "AMDATHLON" ->
                 Lookup([AMDATHLON_TBIRD |-> "athlon-tbird",
                         AMDATHLON_MP |-> "athlon-mp", AMDATHLON_XP |-> "athlon-xp",
                         AMDATHLON_K8SSE3 |-> "k8-sse3", AMDATHLON_OPTERON |-> "opteron",
                         AMDATHLON_FX |-> "athlon-fx", AMDATHLON_64 |-> "athlon64"], s, "athlon")
          [] t = "AMDFAM10H" ->
                 IF s = "AMDFAM10H_BARCELONA" THEN "barcelona" ELSE "amdfam10"
          [] t = "AMDFAM14H" -> "btver1"
          [] t = "AMDFAM15H" ->
                 Lookup([AMDFAM15H_BDVER1 |-> "bdver1", AMDFAM15H_BDVER2 |-> "bdver2",
                         AMDFAM15H_BDVER3 |-> "bdver3", AMDFAM15H_BDVER4 |-> "bdver4",
                         AMD_BTVER1 |-> "btver1"], s, "amdfam15")
          [] t = "AMDFAM16H" ->
                 Lookup([AMD_BTVER1 |-> "btver1", AMD_BTVER2 |-> "btver2"], s, "amdfam16")
          [] OTHER -> "generic"

(* getHostCPUName (x86): decode leaf 1, compute the features, dispatch on *)
(* the vendor signature; t0 and s0 are what Type and Subtype hold before  *)
(* they are (or are not) assigned.                                        *)
GetHostCPUName(c, t0, s0) ==
    LET fm == DetectX86FamilyModel(c.eax1)
        f  == GetAvailableFeatures(c)
        brandId == Field(c.ebx1, 0, 8)
    IN  CASE c.vendor = "Genu" ->
                 IntelName(GetIntelProcessorTypeAndSubtype(fm.family, fm.model, brandId,
                                                           f, t0, s0))
          [] c.vendor = "Auth" ->
                 AMDName(GetAMDProcessorTypeAndSubtype(fm.family, fm.model, f, t0, s0))
          [] OTHER -> "generic"

-----------------------------------------------------------------------------
VARIABLES
    cpu,    \* the host's CPUID answers
    name    \* the name getHostCPUName returned, or "none" before the call

vars == <<cpu, name>>

Init ==
    /\ cpu \in CPUs
    /\ name = "none"

(* One call of sys::getHostCPUName on the host, with whatever its stack   *)
(* holds in Type and Subtype.                                              *)
GetHostCPUNameCall ==
    /\ name = "none"
    /\ \E t0 \in UninitTypes, s0 \in UninitSubtypes :
           name' = GetHostCPUName(cpu, t0, s0)
    /\ UNCHANGED cpu

Next == GetHostCPUNameCall

Spec == Init /\ [][Next]_vars

(* The host's answers are among those considered, and the name is a string. *)
TypeOK == cpu \in CPUs /\ name \in STRING
=============================================================================
