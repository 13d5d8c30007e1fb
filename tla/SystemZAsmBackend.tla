-------------------------- MODULE SystemZAsmBackend --------------------------
(***************************************************************************)
(* The SystemZ assembler backend (SystemZMCAsmBackend.cpp): the fixup kind *)
(* table, extractBitsForFixup and the big-endian applyFixup with its       *)
(* bounds check, acting on one fragment's byte buffer.                     *)
(*                                                                         *)
(* As for RISC-V, the assembler calls applyFixup once per fixup, in any    *)
(* order, with the resolved value.  Unlike RISC-V there is no early return *)
(* for a zero value, no range or alignment check, and a fixup reaching     *)
(* past Data.size() is refused with KS_ERR_ASM_FIXUP_INVALID.  A fixup's   *)
(* offset is that of the field it patches: for brc/brcl it is the          *)
(* instruction's offset + 2.                                               *)
(***************************************************************************)
EXTENDS Integers, Sequences, AsmBackendBits

CONSTANTS
    Fixups,     \* the fragment's fixups: a sequence of [kind, offset]
    DataSize,   \* Data.size() of the fragment
    Values,     \* resolved values the assembler may pass to applyFixup
    NotApplied  \* marks a fixup applyFixup has not been called for yet

(* Generic fixup kinds (MCFixup.h) and the SystemZ ones (SystemZFixups.h). *)
DataKinds == {"FK_Data_1", "FK_Data_2", "FK_Data_4", "FK_Data_8"}
PCDBLKinds == {"FK_390_PC16DBL", "FK_390_PC32DBL"}
TargetKinds == PCDBLKinds \cup {"FK_390_TLS_CALL"}
Kinds == DataKinds \cup TargetKinds

FixupIdx == 1 .. Len(Fixups)
(* Bytes just past the buffer, which a write the bounds check let through *)
(* would reach.                                                            *)
Slack == 3
ByteIdx == 0 .. DataSize + Slack - 1

ASSUME FixupsAssumption == Fixups \in Seq([kind : Kinds, offset : Nat])
ASSUME DataSizeAssumption == DataSize \in Nat
ASSUME NotAppliedAssumption == NotApplied \notin Int
\* |v| < 2^30 keeps every intermediate of the model inside TLC's integers.
ASSUME ValuesAssumption ==
    Values \subseteq Int /\ \A v \in Values : -(2^30) <= v /\ v < 2^30

-----------------------------------------------------------------------------
(* MCAsmBackend::getFixupKindInfo for the generic data kinds (outside     *)
(* src/): 8N bits.                                                         *)
GenericTargetSize(k) ==
    CASE k = "FK_Data_1" -> 8 [] k = "FK_Data_2" -> 16
      [] k = "FK_Data_4" -> 32 [] k = "FK_Data_8" -> 64

(* SystemZMCAsmBackend::getFixupKindInfo: TargetSize of the Infos table;  *)
(* every TargetOffset is 0.                                                *)
TargetSize(k) ==
    IF k \in DataKinds THEN GenericTargetSize(k)
    ELSE CASE k = "FK_390_PC16DBL"  -> 16
           [] k = "FK_390_PC32DBL"  -> 32
           [] k = "FK_390_TLS_CALL" -> 0

(* Plausible slips in the code below, each breaking one property; the   *)
(* mutation runs substitute them for the definition they shadow.        *)
MutantFixupSize(k) == TargetSize(k) \div 8 + 1

(* applyFixup: Size = (TargetSize + 7) / 8 bytes. *)
FixupSize(k) == (TargetSize(k) + 7) \div 8

(* (int64_t)Value / 2: C division truncates towards zero. *)
CDiv2(v) == IF v < 0 THEN -((-v) \div 2) ELSE v \div 2

(* extractBitsForFixup *)
ExtractBitsForFixup(k, v) ==
    CASE k \in DataKinds        -> v
      [] k \in PCDBLKinds       -> CDiv2(v)
      [] k = "FK_390_TLS_CALL"  -> 0

MutantBigEndianByte(x, size, i) ==
    LET shift == 8 * i
    IN  IF shift >= 32 THEN (IF x < 0 THEN 255 ELSE 0) ELSE Bits(x, shift, 8)

(* uint8_t(Value >> ShiftValue) for the I-th byte, ShiftValue counting   *)
(* down from (Size - 1) * 8: the big-endian byte i of x.  From bit 32 up *)
(* every byte of an |x| < 2^30 is a copy of the sign.                    *)
BigEndianByte(x, size, i) ==
    LET shift == 8 * (size - 1 - i)
    IN  IF shift >= 32 THEN (IF x < 0 THEN 255 ELSE 0) ELSE Bits(x, shift, 8)

-----------------------------------------------------------------------------
(* The instruction bytes the encoder emits before a PC-relative field:     *)
(* brc 15 (j, a7 f4) before a PC16DBL field and brcl 15 (jg, c0 f4) before *)
(* a PC32DBL field; every field and every datum starts out 0.              *)
OpcodeBytes(k) ==
    IF k = "FK_390_PC16DBL" THEN <<167, 244>> ELSE <<192, 244>>

Template ==
    [b \in ByteIdx |->
        IF \E i \in FixupIdx : Fixups[i].kind \in PCDBLKinds
                               /\ Fixups[i].offset - b \in {1, 2}
        THEN LET i == CHOOSE i \in FixupIdx :
                          Fixups[i].kind \in PCDBLKinds /\ Fixups[i].offset - b \in {1, 2}
             IN  OpcodeBytes(Fixups[i].kind)[3 - (Fixups[i].offset - b)]
        ELSE 0]

VARIABLES
    data,       \* the fragment's bytes (and the bytes past its end)
    applied,    \* applied[i]: the value fixup i was applied with, or NotApplied
    ksError     \* the fixups whose applyFixup set KS_ERR_ASM_FIXUP_INVALID

vars == <<data, applied, ksError>>

Init ==
    /\ data = Template
    /\ applied = [i \in FixupIdx |-> NotApplied]
    /\ ksError = {}

(* SystemZMCAsmBackend::applyFixup(Fixup i, Value v): refuse a fixup that *)
(* reaches past the buffer; otherwise OR the Size bytes of the extracted  *)
(* value into Data[Offset ..], most significant byte first.               *)
ApplyFixup(i, v) ==
    LET k    == Fixups[i].kind
        off  == Fixups[i].offset
        size == FixupSize(k)
    IN  /\ applied[i] = NotApplied
        /\ applied' = [applied EXCEPT ![i] = v]
        /\ IF off + size > DataSize
           THEN /\ ksError' = ksError \cup {i}
                /\ UNCHANGED data
           ELSE /\ data' = [b \in ByteIdx |->
                              IF b - off \in 0 .. size - 1
                              THEN OrByte(data[b],
                                     BigEndianByte(ExtractBitsForFixup(k, v), size, b - off))
                              ELSE data[b]]
                /\ UNCHANGED ksError

Next == \E i \in FixupIdx, v \in Values : ApplyFixup(i, v)

Spec == Init /\ [][Next]_vars

-----------------------------------------------------------------------------
(* The buffer holds bytes, each fixup is applied at most once with one of *)
(* the resolved values, and errors name fixups.                           *)
TypeOK ==
    /\ data \in [ByteIdx -> 0 .. 255]
    /\ applied \in [FixupIdx -> Values \cup {NotApplied}]
    /\ ksError \subseteq FixupIdx
=============================================================================
