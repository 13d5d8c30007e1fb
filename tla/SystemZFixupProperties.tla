------------------------ MODULE SystemZFixupProperties ------------------------
(***************************************************************************)
(* What applyFixup must achieve on a SystemZ fragment, stated against the  *)
(* z/Architecture formats: a brc/brcl field holds the signed number of     *)
(* halfwords to the target, big-endian; a .byte/.short/.long/.quad datum   *)
(* holds the value, big-endian.                                            *)
(***************************************************************************)
EXTENDS SystemZAsmBackend

(* Bytes of the field a fixup of kind k patches: the RI-c immediate of brc *)
(* is 2 bytes, the RIL-c immediate of brcl 4; a datum has its directive's  *)
(* size; a TLS call marker patches nothing.                                *)
FieldBytes(k) ==
    CASE k = "FK_390_PC16DBL" -> 2 [] k = "FK_390_PC32DBL" -> 4
      [] k = "FK_Data_1" -> 1 [] k = "FK_Data_2" -> 2
      [] k = "FK_Data_4" -> 4 [] k = "FK_Data_8" -> 8
      [] k = "FK_390_TLS_CALL" -> 0

IsApplied(i) == applied[i] # NotApplied

(* Fixup i's field lies inside the fragment. *)
Fits(i) == Fixups[i].offset + FieldBytes(Fixups[i].kind) <= DataSize

(* The bytes of fixup i's field. *)
Field(i) == {Fixups[i].offset + j : j \in 0 .. FieldBytes(Fixups[i].kind) - 1}

(* Bit m (0 = least significant) of fixup i's big-endian field. *)
FieldBit(i, m) ==
    Bits(data[Fixups[i].offset + FieldBytes(Fixups[i].kind) - 1 - m \div 8], m % 8, 1)

(* v is a value the field can represent: a PC-relative offset that is even *)
(* and whose halfword count fits the signed field, a datum within its      *)
(* bytes (signed or unsigned).  A 33-bit signed range holds every value  *)
(* of the model (|v| < 2^30).                                              *)
InRange(k, v) ==
    CASE k \in PCDBLKinds -> v % 2 = 0 /\ (FieldBytes(k) = 4 \/ IsInt(17, v))
      [] k = "FK_Data_1"  -> -128 <= v /\ v < 256
      [] k = "FK_Data_2"  -> -32768 <= v /\ v < 65536
      [] OTHER            -> TRUE

(* The number the field must hold for the value v. *)
Encoded(k, v) == IF k \in PCDBLKinds THEN v \div 2 ELSE v

-----------------------------------------------------------------------------
(* Round trip: once applyFixup has run on a fixup that fits the fragment, *)
(* with a value its field can represent, the field read back big-endian   *)
(* gives that value (in halfwords for brc/brcl).  Catches a byte order    *)
(* slip in the insertion loop, a lost halving in extractBitsForFixup and  *)
(* a wrong TargetSize in the Infos table.                                 *)
RoundTrip ==
    \A i \in FixupIdx :
        IsApplied(i) /\ Fits(i) /\ InRange(Fixups[i].kind, applied[i]) =>
            \A m \in 0 .. 8 * FieldBytes(Fixups[i].kind) - 1 :
                FieldBit(i, m) = ImmBit(Encoded(Fixups[i].kind, applied[i]), m)

(* applyFixup writes only into the field of a fixup that fits: every byte *)
(* of the fragment, and of the memory just past it, outside the fields of *)
(* the fitting fixups applied so far still holds what the encoder put     *)
(* there.  Catches a Size that rounds wrongly and a bounds check that     *)
(* lets a write past Data.size() through.                                 *)
NoClobber ==
    \A b \in ByteIdx :
        data[b] # Template[b] =>
            \E i \in FixupIdx : IsApplied(i) /\ Fits(i) /\ b \in Field(i)

=============================================================================
