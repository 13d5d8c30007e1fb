-------------------------- MODULE HostX86Properties --------------------------
(***************************************************************************)
(* What sys::getHostCPUName (x86) must guarantee, whatever the CPU answers *)
(* and whatever its uninitialized locals hold.                             *)
(***************************************************************************)
EXTENDS HostX86

(* The names getHostCPUName could return for the host's answers, over    *)
(* every content of the uninitialized Type and Subtype.                   *)
PossibleNames(c) == {GetHostCPUName(c, t0, s0) : t0 \in UninitTypes, s0 \in UninitSubtypes}

Called == name # "none"

(* The processor names whose LLVM subtarget model enables AVX. *)
AVXNames == {"sandybridge", "ivybridge", "haswell", "broadwell", "skylake",
             "skylake-avx512", "knl", "bdver1", "bdver2", "bdver3", "bdver4", "btver2"}

-----------------------------------------------------------------------------
(* getAvailableFeatures reports a vector extension only when both the CPU *)
(* and the OS support it: AVX needs CPUID's OSXSAVE and AVX bits and XCR0 *)
(* saving SSE and AVX state; AVX2 and AVX-512 need AVX, AVX-512 needs the  *)
(* opmask/ZMM state in XCR0, and leaf-7 features need MaxLeaf >= 7 (leaf  *)
(* 7 is not asked otherwise).  Catches a dropped HasAVX or XCR0 test, and *)
(* a wrong bit position, in the chain of feature tests.                   *)
FeatureImplications ==
    LET f == GetAvailableFeatures(cpu)
    IN  /\ f \cap {"AVX2", "AVX512", "AVX512SAVE"} # {} => "AVX" \in f
        /\ "AVX" \in f => {27, 28} \subseteq cpu.ecx1 /\ {1, 2} \subseteq cpu.xcr0
        /\ "AVX512" \in f => "AVX512SAVE" \in f /\ 16 \in cpu.ebx7
        /\ "AVX512SAVE" \in f => {5, 6, 7} \subseteq cpu.xcr0
        /\ f \cap {"AVX2", "AVX512", "ADX"} # {} => cpu.maxLeaf >= 7

(* The Intel families and models for which every path of                 *)
(* getIntelProcessorTypeAndSubtype assigns Type, and Subtype whenever the *)
(* name switch reads it: families 3, 4, 6 and 15, and the Pentium MMX     *)
(* (family 5, model 4).  The other family-5 models set Type to            *)
(* INTEL_PENTIUM only, and the switch reads Subtype for that Type, so a  *)
(* plain Pentium can be named "pentium-mmx" (NameDeterminedByCPUID fails  *)
(* there too).                                                            *)
IntelAssignsWhatIsRead(fm) ==
    fm.family \in {3, 4, 6, 15} \/ (fm.family = 5 /\ fm.model = 4)

(* For a genuine Intel CPU with brand id 0 of one of those families, the  *)
(* name depends on CPUID alone, whatever Type and Subtype held before.     *)
(* Catches a case that sets Type to ATOM, CORE2 or COREI7 but forgets     *)
(* Subtype.  It says nothing of family 5 models other than 4, brand ids   *)
(* other than 0, or unlisted families, where the code reads garbage.      *)
KnownIntelFamiliesNamed ==
    Called /\ cpu.vendor = "Genu" /\ Field(cpu.ebx1, 0, 8) = 0
    /\ IntelAssignsWhatIsRead(DetectX86FamilyModel(cpu.eax1)) => PossibleNames(cpu) = {name}

(* The AMD families getAMDProcessorTypeAndSubtype has a case for.  For   *)
(* any other family (17h, Zen, among them) it assigns neither Type nor    *)
(* Subtype, and the name comes from whatever the stack held.              *)
AMDKnownFamilies == {4, 5, 6, 15, 16, 20, 21, 22}

(* An AMD CPU of a family the code knows is given a name whose subtarget  *)
(* uses AVX (bdver*, btver2) only when getAvailableFeatures found AVX     *)
(* usable: the family 15h/16h "sane fallback" to btver1 without AVX must  *)
(* hold whatever Subtype held.                                            *)
AMDAVXNameNeedsAVX ==
    /\ Called /\ cpu.vendor = "Auth" /\ name \in AVXNames
    /\ DetectX86FamilyModel(cpu.eax1).family \in AMDKnownFamilies
    => "AVX" \in GetAvailableFeatures(cpu)

(* getHostCPUName's result is a function of the CPU: two calls on one    *)
(* host cannot return different names.                                   *)
NameDeterminedByCPUID ==
    Called => PossibleNames(cpu) = {name}
=============================================================================
