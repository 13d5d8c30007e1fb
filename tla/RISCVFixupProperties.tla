------------------------- MODULE RISCVFixupProperties -------------------------
(***************************************************************************)
(* What applyFixup must achieve on a RISC-V fragment, stated against the  *)
(* ISA's instruction formats (RISCVISA) rather than against the backend's *)
(* own shift-and-mask code.                                               *)
(***************************************************************************)
EXTENDS RISCVAsmBackend, RISCVISA

(* Bit ib of the instruction (or datum) fixup i patches, read back from   *)
(* the fragment.                                                          *)
InstBit(i, ib) == Bits(data[Fixups[i].offset + ib \div 8], ib % 8, 1)

(* The immediate the instruction must hold for a resolved value v. *)
ExpectedImm(k, v) ==
    IF k \in {"fixup_riscv_hi20", "fixup_riscv_pcrel_hi20"} THEN Hi20(v) ELSE v

(* v is a value the kind can represent: a PC-relative offset within the   *)
(* instruction's signed range and even, a datum within its N bytes.       *)
InRange(k, v) ==
    CASE k \in PCRelKinds -> IsInt(PCRelWidth(k), v) /\ v % 2 = 0
      [] k = "FK_Data_1"  -> -128 <= v /\ v < 256
      [] k = "FK_Data_2"  -> -32768 <= v /\ v < 65536
      [] OTHER            -> TRUE

IsApplied(i) == applied[i] # NotApplied

(* The bits of the fragment (numbered 8 * byte + bit) that form fixup    *)
(* i's field.                                                             *)
FieldBits == [i \in FixupIdx |->
                {8 * Fixups[i].offset + p[1] : p \in ImmLayout(Fixups[i].kind)}]

-----------------------------------------------------------------------------
(* Round trip (spec, testable properties): once applyFixup has run with a *)
(* value the fixup's kind can represent, reading the immediate back out   *)
(* of the fragment's bytes through the ISA's layout for that instruction  *)
(* format gives that value (for lui/auipc, the upper part that pairs with *)
(* the sign-extended low 12 bits).  Catches a misplaced or dropped bit in *)
(* adjustFixupValue, a wrong TargetOffset or a short getSize.             *)
RoundTrip ==
    \A i \in FixupIdx :
        IsApplied(i) /\ InRange(Fixups[i].kind, applied[i]) =>
            \A p \in ImmLayout(Fixups[i].kind) :
                InstBit(i, p[1]) = ImmBit(ExpectedImm(Fixups[i].kind, applied[i]), p[2])

(* applyFixup only ever sets bits of its own fixup's field: every bit of  *)
(* the fragment, and of the memory just past it, that lies outside the    *)
(* fields of the fixups applied so far still holds what the encoder put   *)
(* there (opcode and register bits, not-yet-patched fields, data).        *)
(* Catches a term shifted out of its field and a write wider than the     *)
(* fixup (getSize), whatever the value and the order of the fixups.       *)
NoClobber ==
    \A b \in ByteIdx, j \in 0 .. 7 :
        Bits(data[b], j, 1) # Bits(Template[b], j, 1) =>
            \E i \in FixupIdx : IsApplied(i) /\ 8 * b + j \in FieldBits[i]

(* Every "fixup value out of range" or "must be 2-byte aligned" error the *)
(* backend reports names an applied PC-relative fixup whose value really  *)
(* is outside the instruction's signed range, or really is odd.           *)
NoSpuriousError ==
    \A x \in errors :
        LET k == Fixups[x[1]].kind
            v == applied[x[1]]
        IN  /\ IsApplied(x[1])
            /\ k \in PCRelKinds
            /\ x[2] = "range" => ~IsInt(PCRelWidth(k), v)
            /\ x[2] = "align" => v % 2 = 1

(* Spec 4.1 / 8: a PC-relative value outside the kind's signed range, or  *)
(* odd, is reported (RangeError, AlignmentError) rather than silently     *)
(* truncated into the instruction.                                        *)
OutOfRangeDiagnosed ==
    \A i \in FixupIdx :
        IsApplied(i) /\ Fixups[i].kind \in PCRelKinds =>
            /\ ~IsInt(PCRelWidth(Fixups[i].kind), applied[i]) => <<i, "range">> \in errors
            /\ applied[i] % 2 = 1 => <<i, "align">> \in errors

=============================================================================
