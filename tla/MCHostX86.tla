------------------------------ MODULE MCHostX86 ------------------------------
(***************************************************************************)
(* Hosts for model checking getHostCPUName: CPU signatures of each branch *)
(* of the family/model switches, crossed with feature profiles, brand id  *)
(* and maximum leaf.                                                       *)
(***************************************************************************)
EXTENDS HostX86Properties

(* The bits of n placed from bit lo up. *)
BitsAt(n, lo) == {lo + j : j \in {j \in 0 .. 7 : (n \div 2^j) % 2 = 1}}

(* Leaf 1 EAX for family, model, extended model and extended family. *)
EAXOf(sig) == BitsAt(sig[2], 4) \cup BitsAt(sig[1], 8) \cup BitsAt(sig[3], 16)
              \cup BitsAt(sig[4], 20)

(* <<family, model, ext model, ext family>>: Pentium Pro, Sandy Bridge    *)
(* (0x2a), Haswell (0x3c), Silvermont (0x37), an unknown family-6 model   *)
(* (0x90); Pentium and Pentium MMX; Prescott; a 486; family 7.            *)
IntelSigs == {<<6, 1, 0, 0>>, <<6, 10, 2, 0>>, <<6, 12, 3, 0>>, <<6, 7, 3, 0>>,
              <<6, 0, 9, 0>>, <<5, 1, 0, 0>>, <<5, 4, 0, 0>>, <<15, 3, 0, 0>>,
              <<4, 0, 0, 0>>, <<7, 0, 0, 0>>}
(* K6-2; Athlon Thunderbird; Athlon FX; Barcelona and an unlisted 10h;    *)
(* Bulldozer, an unlisted 15h (0x40), Excavator (0x60); Jaguar (16h);    *)
(* Zen (17h), a family the code has no case for.                          *)
AMDSigs == {<<5, 8, 0, 0>>, <<6, 4, 0, 0>>, <<15, 5, 0, 0>>, <<15, 2, 0, 1>>,
            <<15, 3, 0, 1>>, <<15, 2, 0, 6>>, <<15, 0, 4, 6>>, <<15, 0, 6, 6>>,
            <<15, 0, 0, 7>>, <<15, 1, 0, 8>>}

Legacy == {23, 25, 26}
(* <<ECX, EDX, XCR0, leaf-7 EBX, 0x80000001 EDX>>: from nothing up to     *)
(* AVX-512; AVX with an OS that does not save YMM; AVX-512 hardware with  *)
(* an OS that does not save ZMM.                                           *)
Profiles ==
    {<<{}, {}, {}, {}, {}>>, <<{}, {23}, {}, {}, {}>>, <<{}, {23, 25}, {}, {}, {}>>,
     <<{}, Legacy, {}, {}, {}>>, <<{}, Legacy, {}, {}, {29}>>,
     <<{0, 9}, Legacy, {}, {}, {29}>>, <<{0, 9, 22}, Legacy, {}, {}, {29}>>,
     <<{0, 9, 19}, Legacy, {}, {}, {29}>>, <<{0, 9, 19, 20}, Legacy, {}, {}, {29}>>,
     <<{0, 9, 19, 20, 22}, Legacy, {}, {}, {29}>>,
     <<{0, 9, 19, 20, 27, 28}, Legacy, {0, 1}, {5}, {29}>>,
     <<{0, 9, 19, 20, 27, 28}, Legacy, {0, 1, 2}, {}, {29}>>,
     <<{0, 9, 19, 20, 27, 28}, Legacy, {0, 1, 2}, {5}, {29}>>,
     <<{0, 9, 19, 20, 27, 28}, Legacy, {0, 1, 2}, {5, 16, 19}, {29}>>,
     <<{0, 9, 19, 20, 27, 28}, Legacy, {0, 1, 2, 5, 6, 7}, {5, 16, 19}, {29}>>}

Host(v, sig, p, brand, maxLeaf) ==
    [vendor |-> v, maxLeaf |-> maxLeaf, eax1 |-> EAXOf(sig), ebx1 |-> brand,
     ecx1 |-> p[1], edx1 |-> p[2], xcr0 |-> p[3], ebx7 |-> p[4], edx81 |-> p[5]]

MCCPUs ==
    {Host("Genu", s, p, b, l) : s \in IntelSigs, p \in Profiles, b \in {{}, {0}}, l \in {1, 7}}
    \cup {Host("Auth", s, p, {}, l) : s \in AMDSigs, p \in Profiles, l \in {1, 7}}
    \cup {Host("Other", <<6, 10, 2, 0>>, p, {}, 7) : p \in Profiles}

MCUninitTypes == ProcessorTypes \cup {"none"}
MCUninitSubtypes == ProcessorSubtypes \cup {"none"}
=============================================================================
