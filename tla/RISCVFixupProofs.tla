--------------------------- MODULE RISCVFixupProofs ---------------------------
(***************************************************************************)
(* Proofs about the RISC-V backend's applyFixup (RISCVAsmBackend), for    *)
(* every fragment layout and every set of resolved values.                *)
(***************************************************************************)
EXTENDS RISCVFixupProperties, SequenceTheorems, TLAPS

(* The bitwise OR of two bytes, as OrByte builds it bit by bit, is a byte. *)
LEMMA OrByteIsByte ==
    ASSUME NEW a, NEW b
    PROVE  OrByte(a, b) \in 0 .. 255
BY DEF OrByte

(* Each fixup of the fragment has a kind and a byte offset. *)
LEMMA FixupEntry ==
    ASSUME NEW i \in FixupIdx
    PROVE  Fixups[i].kind \in Kinds /\ Fixups[i].offset \in Nat
<1>1. Fixups \in Seq([kind : Kinds, offset : Nat])
    BY FixupsAssumption
<1>2. Fixups[i] \in [kind : Kinds, offset : Nat]
    BY <1>1, ElementOfSeq DEF FixupIdx
<1>3. QED
    BY <1>2

(* Any byte extracted from an integer with Bits is a byte. *)
LEMMA BitsIsByte ==
    ASSUME NEW x \in Int, NEW d \in Nat
    PROVE  Bits(x, d, 8) \in 0 .. 255
BY SMT DEF Bits

(* The resolved values are integers. *)
LEMMA ValuesInt == Values \subseteq Int
BY ValuesAssumption

(* The instruction words the encoder emits for each kind are naturals. *)
LEMMA BaseEncodingNat ==
    ASSUME NEW k \in Kinds \ DataKinds
    PROVE  BaseEncoding(k) \in Nat
<1>1. k \in TargetKinds
    BY DEF Kinds
<1>2. QED
    BY <1>1 DEF TargetKinds, BaseEncoding

(* The encoder's bytes are bytes. *)
LEMMA TemplateType == Template \in [ByteIdx -> 0 .. 255]
<1> SUFFICES ASSUME NEW b \in ByteIdx PROVE Template[b] \in 0 .. 255
    BY DEF Template
<1> DEFINE Covers(i) == b - Fixups[i].offset \in 0 .. ItemSize(Fixups[i].kind) - 1
           j == CHOOSE i \in FixupIdx : Covers(i)
<1>1. CASE ~\E i \in FixupIdx : Covers(i)
    <2>1. Template[b] = 0
        BY <1>1, Zenon DEF Template, Covers
    <2>2. QED
        BY <2>1
<1>2. CASE \E i \in FixupIdx : Covers(i)
    <2>1. j \in FixupIdx /\ Covers(j)
        BY <1>2, Zenon
    <2>2. Template[b] = IF Fixups[j].kind \in DataKinds THEN 0
                       ELSE Bits(BaseEncoding(Fixups[j].kind), 8 * (b - Fixups[j].offset), 8)
        BY <1>2, Zenon DEF Template, Covers
    <2>3. Fixups[j].kind \in Kinds /\ Fixups[j].offset \in Nat
        BY <2>1, FixupEntry
    <2>4. CASE Fixups[j].kind \in DataKinds
        BY <2>2, <2>4
    <2>5. CASE Fixups[j].kind \notin DataKinds
        <3>1. BaseEncoding(Fixups[j].kind) \in Int
            BY <2>3, <2>5, BaseEncodingNat
        <3>2. 8 * (b - Fixups[j].offset) \in Nat
            BY <2>1, <2>3 DEF ByteIdx
        <3>3. QED
            BY <2>2, <2>5, <3>1, <3>2, BitsIsByte
    <2>6. QED
        BY <2>4, <2>5
<1>3. QED
    BY <1>1, <1>2

(* Every error adjustFixupValue reports is a range or an alignment error. *)
LEMMA AdjustErrorsType ==
    ASSUME NEW k \in Kinds, NEW v \in Int
    PROVE  AdjustErrors(k, v) \subseteq ErrorKinds
BY DEF AdjustErrors

(* One applyFixup call keeps the types of the buffer, of the applied    *)
(* values and of the reported errors.                                     *)
LEMMA TypeStep == TypeOK /\ [Next]_vars => TypeOK'
<1> SUFFICES ASSUME TypeOK, [Next]_vars PROVE TypeOK'
    OBVIOUS
<1>1. ASSUME NEW i \in FixupIdx, NEW v \in Values, ApplyFixup(i, v)
      PROVE  TypeOK'
    <2> DEFINE k == Fixups[i].kind
    <2>1. k \in Kinds
        BY FixupEntry
    <2>2. v \in Int
        BY ValuesInt
    <2>3. applied' \in [FixupIdx -> Values \cup {NotApplied}]
        BY <1>1 DEF ApplyFixup, TypeOK
    <2>4. errors' \subseteq FixupIdx \X ErrorKinds
        BY <1>1, <2>1, <2>2, AdjustErrorsType DEF ApplyFixup, TypeOK
    <2>5. data' \in [ByteIdx -> 0 .. 255]
        <3>1. CASE v = 0
            BY <1>1, <3>1 DEF ApplyFixup, TypeOK
        <3>2. CASE v # 0
            BY <1>1, <3>2, OrByteIsByte DEF ApplyFixup, TypeOK
        <3>3. QED
            BY <3>1, <3>2
    <2>6. QED
        BY <2>3, <2>4, <2>5 DEF TypeOK
<1>2. CASE UNCHANGED vars
    BY <1>2 DEF TypeOK, vars
<1>3. QED
    BY <1>1, <1>2 DEF Next

(* The buffer holds bytes, each fixup's record is its resolved value or   *)
(* NotApplied, and errors name fixups: the types of the code's variables. *)
LEMMA TypeCorrect == Spec => []TypeOK
<1>1. Init => TypeOK
    BY TemplateType DEF Init, TypeOK
<1>2. QED
    BY <1>1, TypeStep, PTL DEF Spec

-----------------------------------------------------------------------------
(* The low bit adjustFixupValue tests (Value & 1) is the value's parity.  *)
LEMMA LowBitParity ==
    ASSUME NEW v \in Int
    PROVE  Bits(v, 0, 1) = v % 2
<1>1. 2^0 = 1 /\ 2^1 = 2
    BY SMT
<1>2. QED
    BY <1>1, SMT DEF Bits

(* The errors adjustFixupValue reports for a value: only for jal and     *)
(* branch, a range error exactly when the value exceeds the instruction's *)
(* signed width, an alignment error exactly when it is odd.               *)
LEMMA AdjustErrorsSound ==
    ASSUME NEW k \in Kinds, NEW v \in Int, NEW e \in AdjustErrors(k, v)
    PROVE  /\ k \in PCRelKinds
           /\ e = "range" => ~IsInt(PCRelWidth(k), v)
           /\ e = "align" => v % 2 = 1
<1>1. k \in {"fixup_riscv_jal", "fixup_riscv_branch"}
    BY DEF AdjustErrors
<1>2. e = "align" => Bits(v, 0, 1) = 1
    BY <1>1 DEF AdjustErrors
<1>3. e = "range" => ~IsInt(PCRelWidth(k), v)
    BY <1>1 DEF AdjustErrors, PCRelWidth
<1>4. QED
    BY <1>1, <1>2, <1>3, LowBitParity DEF PCRelKinds

(* Every range or alignment error the backend reports was right to be     *)
(* reported: it names a jal or branch fixup that applyFixup has been      *)
(* called on, with a value that really is out of range, or odd.  The      *)
(* errors of earlier calls stay right because a fixup is applied once.    *)
THEOREM NoSpuriousErrorHolds == Spec => []NoSpuriousError
<1> DEFINE IInv == TypeOK /\ NoSpuriousError
<1>1. Init => IInv
    BY TemplateType DEF Init, TypeOK, NoSpuriousError
<1>2. IInv /\ [Next]_vars => NoSpuriousError'
    <2> SUFFICES ASSUME TypeOK, NoSpuriousError, [Next]_vars
                 PROVE  NoSpuriousError'
        OBVIOUS
    <2>1. ASSUME NEW i \in FixupIdx, NEW v \in Values, ApplyFixup(i, v)
          PROVE  NoSpuriousError'
        <3> SUFFICES ASSUME NEW x \in errors'
                     PROVE  /\ IsApplied(x[1])'
                            /\ Fixups[x[1]].kind \in PCRelKinds
                            /\ x[2] = "range" => ~IsInt(PCRelWidth(Fixups[x[1]].kind), applied'[x[1]])
                            /\ x[2] = "align" => applied'[x[1]] % 2 = 1
            BY DEF NoSpuriousError
        <3>1. CASE x \in errors
            <4>1. x[1] \in FixupIdx /\ IsApplied(x[1])
                BY <3>1 DEF TypeOK, NoSpuriousError
            <4>2. x[1] # i
                BY <2>1, <4>1 DEF ApplyFixup, IsApplied
            <4>3. applied'[x[1]] = applied[x[1]]
                BY <2>1, <4>1, <4>2 DEF ApplyFixup, TypeOK
            <4>4. QED
                BY <3>1, <4>3 DEF NoSpuriousError, IsApplied
        <3>2. CASE x \notin errors
            <4>1. v # 0 /\ \E e \in AdjustErrors(Fixups[i].kind, v) : x = <<i, e>>
                BY <2>1, <3>2 DEF ApplyFixup
            <4>2. PICK e \in AdjustErrors(Fixups[i].kind, v) : x = <<i, e>>
                BY <4>1
            <4>3. v \in Int /\ Fixups[i].kind \in Kinds
                BY ValuesInt, FixupEntry
            <4>4. applied'[i] = v /\ v # NotApplied
                BY <2>1, <4>3, NotAppliedAssumption DEF ApplyFixup, TypeOK
            <4>5. QED
                BY <4>2, <4>3, <4>4, AdjustErrorsSound DEF IsApplied
        <3>3. QED
            BY <3>1, <3>2
    <2>2. CASE UNCHANGED vars
        BY <2>2 DEF NoSpuriousError, IsApplied, vars
    <2>3. QED
        BY <2>1, <2>2 DEF Next
<1>3. QED
    BY <1>1, <1>2, TypeStep, PTL DEF Spec
=============================================================================
