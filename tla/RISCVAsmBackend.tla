--------------------------- MODULE RISCVAsmBackend ---------------------------
(***************************************************************************)
(* The RISC-V assembler backend of src/unnamed/part_001 (RISCVAsmBackend): *)
(* the fixup kind table, adjustFixupValue, getSize and applyFixup, acting  *)
(* on one fragment's byte buffer.                                          *)
(*                                                                         *)
(* The fragment holds the instructions and data the encoder emitted, each  *)
(* with one pending fixup at its first byte.  The assembler resolves the   *)
(* fixups in any order and calls applyFixup once per fixup with the        *)
(* resolved value; a fixup left to a relocation is applied with the value  *)
(* 0, which takes the early return of applyFixup.                          *)
(*                                                                         *)
(* Values are integers as in AsmBackendBits.                               *)
(***************************************************************************)
EXTENDS Integers, Sequences, AsmBackendBits

CONSTANTS
    Fixups,     \* the fragment's fixups: a sequence of [kind, offset]
    DataSize,   \* Data.size() of the fragment
    Values,     \* resolved values the assembler may pass to applyFixup
    NotApplied  \* marks a fixup applyFixup has not been called for yet

(* Generic fixup kinds (MCFixup.h) and the RISC-V ones (RISCVFixupKinds.h). *)
DataKinds == {"FK_Data_1", "FK_Data_2", "FK_Data_4", "FK_Data_8"}
TargetKinds == {"fixup_riscv_hi20", "fixup_riscv_lo12_i", "fixup_riscv_lo12_s",
                "fixup_riscv_pcrel_hi20", "fixup_riscv_jal",
                "fixup_riscv_branch", "fixup_riscv_rvc_jump",
                "fixup_riscv_rvc_branch"}
Kinds == DataKinds \cup TargetKinds

(* Bytes a data directive or an instruction of each kind occupies.  This  *)
(* is the encoder's layout, not code of the backend.                      *)
ItemSize(k) ==
    CASE k = "FK_Data_1" -> 1 [] k = "FK_Data_2" -> 2
      [] k = "FK_Data_8" -> 8
      [] k \in {"fixup_riscv_rvc_jump", "fixup_riscv_rvc_branch"} -> 2
      [] OTHER -> 4

FixupIdx == 1 .. Len(Fixups)
(* Three bytes past the end stand for the memory next to the buffer: the  *)
(* widest write (4 bytes) of a fixup whose check counted 1 byte reaches   *)
(* them.                                                                  *)
Slack == 3
ByteIdx == 0 .. DataSize + Slack - 1

ErrorKinds == {"range", "align"}

ASSUME FixupsAssumption ==
    /\ Fixups \in Seq([kind : Kinds, offset : Nat])
    /\ \A i \in FixupIdx : Fixups[i].offset + ItemSize(Fixups[i].kind) <= DataSize
    /\ \A i, j \in FixupIdx : i # j =>
          \/ Fixups[i].offset + ItemSize(Fixups[i].kind) <= Fixups[j].offset
          \/ Fixups[j].offset + ItemSize(Fixups[j].kind) <= Fixups[i].offset
ASSUME DataSizeAssumption == DataSize \in Nat
ASSUME NotAppliedAssumption == NotApplied \notin Int
\* |v| < 2^30 keeps every intermediate of the model inside TLC's integers.
ASSUME ValuesAssumption ==
    Values \subseteq Int /\ \A v \in Values : -(2^30) <= v /\ v < 2^30

-----------------------------------------------------------------------------
(* uint8_t(((a << off) >> (i * 8)) & 0xff), computed without forming the *)
(* shifted 64-bit value: byte i of a shifted left by off bits.            *)
ShlByte(a, off, i) ==
    LET d == 8 * i - off
    IN  CASE d >= 0  -> Bits(a, d, 8)
          [] d <= -8 -> 0
          [] OTHER   -> (a % 2^(8 + d)) * 2^(-d)

-----------------------------------------------------------------------------
(* MCAsmBackend::getFixupKindInfo for the generic data kinds (in          *)
(* MCAsmBackend.cpp, outside src/): offset 0, 8N bits, not PC-relative.   *)
GenericFixupKindInfo(k) ==
    [offset |-> 0, pcrel |-> FALSE,
     bits |-> CASE k = "FK_Data_1" -> 8 [] k = "FK_Data_2" -> 16
                [] k = "FK_Data_4" -> 32 [] k = "FK_Data_8" -> 64]

(* RISCVAsmBackend::getFixupKindInfo: the Infos table. *)
GetFixupKindInfo(k) ==
    IF k \in DataKinds THEN GenericFixupKindInfo(k)
    ELSE LET Row(o, b, p) == [offset |-> o, bits |-> b, pcrel |-> p]
         IN  CASE k = "fixup_riscv_hi20"       -> Row(12, 20, FALSE)
               [] k = "fixup_riscv_lo12_i"     -> Row(20, 12, FALSE)
               [] k = "fixup_riscv_lo12_s"     -> Row( 0, 32, FALSE)
               [] k = "fixup_riscv_pcrel_hi20" -> Row(12, 20, TRUE)
               [] k = "fixup_riscv_jal"        -> Row(12, 20, TRUE)
               [] k = "fixup_riscv_branch"     -> Row( 0, 32, TRUE)
               [] k = "fixup_riscv_rvc_jump"   -> Row( 2, 11, TRUE)
               [] k = "fixup_riscv_rvc_branch" -> Row( 0, 16, TRUE)

-----------------------------------------------------------------------------
(* adjustFixupValue, one operator per case of its switch.  A packed value *)
(* is kept as the terms of the OR the code builds, a sequence of          *)
(* <<field, shift>> pairs standing for (field << shift): the terms occupy  *)
(* disjoint bits, and keeping them apart keeps the numbers within TLC's   *)
(* integers (the branch and store forms set bit 31).                      *)

Term(x, s) == <<x, s>>

(* Plausible slips in the code below, each breaking one property; the   *)
(* mutation runs substitute them for the definition they shadow.        *)
MutantLo12SWideLow(v) == << Term(Bits(v, 5, 7), 25), Term(Bits(v, 0, 6), 7) >>
MutantJalNarrowLo10(v) ==
    << Term(Bits(v, 20, 1), 19), Term(Bits(v, 1, 9), 9),
       Term(Bits(v, 11, 1), 8), Term(Bits(v, 12, 8), 0) >>
MutantRvcJumpSwap67(v) ==
    << Term(Bits(v, 11, 1), 10), Term(Bits(v, 4, 1), 9), Term(Bits(v, 8, 2), 7),
       Term(Bits(v, 10, 1), 6), Term(Bits(v, 6, 1), 4), Term(Bits(v, 7, 1), 5),
       Term(Bits(v, 1, 3), 1), Term(Bits(v, 5, 1), 0) >>
MutantRvcBranchBit8At13(v) ==
    << Term(Bits(v, 8, 1), 13), Term(Bits(v, 3, 2), 10), Term(Bits(v, 6, 2), 5),
       Term(Bits(v, 1, 2), 3), Term(Bits(v, 5, 1), 2) >>
MutantAdjustErrorsBranch12(k, v) ==
    LET Width == CASE k = "fixup_riscv_jal" -> 21 [] k = "fixup_riscv_branch" -> 12
    IN  IF k \notin {"fixup_riscv_jal", "fixup_riscv_branch"} THEN {}
        ELSE {e \in ErrorKinds : \/ e = "range" /\ ~IsInt(Width, v)
                                 \/ e = "align" /\ Bits(v, 0, 1) = 1}

AdjustLo12S(v) == << Term(Bits(v, 5, 7), 25), Term(Bits(v, 0, 5), 7) >>

(* Add 1 if bit 11 is 1, to compensate for the low 12 bits being negative. *)
AdjustHi20(v) == << Term(Bits(v + 2048, 12, 20), 0) >>

(* imm[20|10:1|11|19:12] *)
AdjustJal(v) ==
    << Term(Bits(v, 20, 1), 19), Term(Bits(v, 1, 10), 9),
       Term(Bits(v, 11, 1), 8), Term(Bits(v, 12, 8), 0) >>

(* imm[12] at 31, imm[10:5] at 25, imm[4:1] at 8, imm[11] at 7 *)
AdjustBranch(v) ==
    << Term(Bits(v, 12, 1), 31), Term(Bits(v, 5, 6), 25),
       Term(Bits(v, 1, 4), 8), Term(Bits(v, 11, 1), 7) >>

(* offset[11|4|9:8|10|6|7|3:1|5] *)
AdjustRvcJump(v) ==
    << Term(Bits(v, 11, 1), 10), Term(Bits(v, 4, 1), 9), Term(Bits(v, 8, 2), 7),
       Term(Bits(v, 10, 1), 6), Term(Bits(v, 6, 1), 5), Term(Bits(v, 7, 1), 4),
       Term(Bits(v, 1, 3), 1), Term(Bits(v, 5, 1), 0) >>

(* offset[8|4:3] at 12:10 and offset[7:6|2:1|5] at 6:2 *)
AdjustRvcBranch(v) ==
    << Term(Bits(v, 8, 1), 12), Term(Bits(v, 3, 2), 10), Term(Bits(v, 6, 2), 5),
       Term(Bits(v, 1, 2), 3), Term(Bits(v, 5, 1), 2) >>

AdjustFixupValue(k, v) ==
    CASE k \in DataKinds                                      -> << Term(v, 0) >>
      [] k = "fixup_riscv_lo12_i"                             -> << Term(Bits(v, 0, 12), 0) >>
      [] k = "fixup_riscv_lo12_s"                             -> AdjustLo12S(v)
      [] k \in {"fixup_riscv_hi20", "fixup_riscv_pcrel_hi20"} -> AdjustHi20(v)
      [] k = "fixup_riscv_jal"                                -> AdjustJal(v)
      [] k = "fixup_riscv_branch"                             -> AdjustBranch(v)
      [] k = "fixup_riscv_rvc_jump"                           -> AdjustRvcJump(v)
      [] k = "fixup_riscv_rvc_branch"                         -> AdjustRvcBranch(v)

(* Byte i of (packed << off): the OR over the terms of byte i of          *)
(* (field << (shift + off)).                                              *)
PackedByte(packed, off, i) ==
    LET acc[j \in 0 .. Len(packed)] ==
            IF j = 0 THEN 0
            ELSE OrByte(acc[j - 1], ShlByte(packed[j][1], packed[j][2] + off, i))
    IN  acc[Len(packed)]

(* The Ctx.reportError calls of adjustFixupValue: the jal and branch      *)
(* cases check the range and the 2-byte alignment; no other case checks.  *)
AdjustErrors(k, v) ==
    LET Width == CASE k = "fixup_riscv_jal" -> 21 [] k = "fixup_riscv_branch" -> 13
    IN  IF k \notin {"fixup_riscv_jal", "fixup_riscv_branch"} THEN {}
        ELSE {e \in ErrorKinds : \/ e = "range" /\ ~IsInt(Width, v)
                                 \/ e = "align" /\ Bits(v, 0, 1) = 1}

(* getSize: bytes applyFixup writes. *)
GetSize(k) ==
    IF k \in {"fixup_riscv_rvc_jump", "fixup_riscv_rvc_branch"} THEN 2 ELSE 4

-----------------------------------------------------------------------------
(* The base encodings of the instructions the backend's fixups patch,     *)
(* with the fixup's field zero, as the code emitter leaves them:          *)
(*   lui t0 / auipc t0 (hi20), addi t0,t0 (lo12_i), sw t0,(t1) (lo12_s),   *)
(*   jal ra (jal), beq ra,sp (branch), c.j (rvc_jump), c.beqz s0 (rvc_b).  *)
(* Data directives are emitted as zero bytes.                             *)
BaseEncoding(k) ==
    CASE k = "fixup_riscv_hi20"       -> 183        \* 0x000002B7
      [] k = "fixup_riscv_pcrel_hi20" -> 663        \* 0x00000297
      [] k = "fixup_riscv_lo12_i"     -> 164499     \* 0x00028293
      [] k = "fixup_riscv_lo12_s"     -> 5447715    \* 0x00532023
      [] k = "fixup_riscv_jal"        -> 239        \* 0x000000EF
      [] k = "fixup_riscv_branch"     -> 2129987    \* 0x00208063
      [] k = "fixup_riscv_rvc_jump"   -> 40961      \* 0xA001
      [] k = "fixup_riscv_rvc_branch" -> 49153      \* 0xC001

(* The fragment as the encoder left it; memory past its end is 0. *)
Template ==
    [b \in ByteIdx |->
        IF \E i \in FixupIdx : b - Fixups[i].offset \in 0 .. ItemSize(Fixups[i].kind) - 1
        THEN LET i == CHOOSE i \in FixupIdx :
                          b - Fixups[i].offset \in 0 .. ItemSize(Fixups[i].kind) - 1
             IN  IF Fixups[i].kind \in DataKinds THEN 0
                 ELSE Bits(BaseEncoding(Fixups[i].kind), 8 * (b - Fixups[i].offset), 8)
        ELSE 0]

-----------------------------------------------------------------------------
VARIABLES
    data,       \* the fragment's bytes (and the 3 bytes past its end)
    applied,    \* applied[i]: the value fixup i was applied with, or NotApplied
    errors      \* <<fixup, error>> pairs reported through Ctx.reportError

vars == <<data, applied, errors>>

Init ==
    /\ data = Template
    /\ applied = [i \in FixupIdx |-> NotApplied]
    /\ errors = {}

(* RISCVAsmBackend::applyFixup(Fixup i, Value v): return at once for a    *)
(* zero value; otherwise adjust the value (reporting range and alignment  *)
(* errors, and going on regardless), shift it by the kind's TargetOffset  *)
(* and OR its low GetSize bytes into Data[Offset ..].  The debug-build    *)
(* assert checks Offset + ceil(TargetSize / 8) <= Data.size(), which      *)
(* every fixup the encoder places satisfies (FixupsAssumption).           *)
ApplyFixup(i, v) ==
    LET k   == Fixups[i].kind
        off == Fixups[i].offset
        adj == AdjustFixupValue(k, v)
    IN  /\ applied[i] = NotApplied
        /\ applied' = [applied EXCEPT ![i] = v]
        /\ IF v = 0
           THEN UNCHANGED <<data, errors>>
           ELSE /\ errors' = errors \cup {<<i, e>> : e \in AdjustErrors(k, v)}
                /\ data' = [b \in ByteIdx |->
                              IF b - off \in 0 .. GetSize(k) - 1
                              THEN OrByte(data[b],
                                     PackedByte(adj, GetFixupKindInfo(k).offset, b - off))
                              ELSE data[b]]

Next == \E i \in FixupIdx, v \in Values : ApplyFixup(i, v)

Spec == Init /\ [][Next]_vars

(* Once every fixup is applied the fragment is final and the assembler    *)
(* goes on to write it out: the only state with no successor.             *)
Done == \A i \in FixupIdx : applied[i] # NotApplied

-----------------------------------------------------------------------------
(* The buffer holds bytes, each fixup is applied at most once with one of *)
(* the resolved values, and errors name fixups.                           *)
TypeOK ==
    /\ data \in [ByteIdx -> 0 .. 255]
    /\ applied \in [FixupIdx -> Values \cup {NotApplied}]
    /\ errors \subseteq FixupIdx \X ErrorKinds
=============================================================================
