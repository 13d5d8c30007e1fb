-------------------------- MODULE SystemZFixupProofs --------------------------
(***************************************************************************)
(* Proofs about the SystemZ backend's applyFixup (SystemZAsmBackend), for *)
(* every fragment layout, buffer size and set of resolved values.         *)
(***************************************************************************)
EXTENDS SystemZFixupProperties, SequenceTheorems, TLAPS

(* Each fixup of the fragment has a kind and a byte offset. *)
LEMMA FixupEntry ==
    ASSUME NEW i \in FixupIdx
    PROVE  Fixups[i].kind \in Kinds /\ Fixups[i].offset \in Nat
<1>1. Fixups \in Seq([kind : Kinds, offset : Nat])
    BY FixupsAssumption
<1>2. Fixups[i] \in [kind : Kinds, offset : Nat]
    BY <1>1, ElementOfSeq DEF FixupIdx
<1>3. QED
    BY <1>2

(* The bitwise OR of two bytes, as OrByte builds it bit by bit, is a byte. *)
LEMMA OrIsByte ==
    ASSUME NEW a, NEW b
    PROVE  OrByte(a, b) \in 0 .. 255
BY DEF OrByte

(* applyFixup's Size is the width of the field the fixup's kind denotes: *)
(* the Infos table and the generic sizes agree with the formats.          *)
LEMMA SizeIsFieldBytes ==
    ASSUME NEW k \in Kinds
    PROVE  FixupSize(k) = FieldBytes(k)
BY DEF Kinds, DataKinds, TargetKinds, PCDBLKinds, FixupSize, TargetSize,
       GenericTargetSize, FieldBytes

(* The encoder's bytes are bytes. *)
LEMMA TemplateType == Template \in [ByteIdx -> 0 .. 255]
<1> SUFFICES ASSUME NEW b \in ByteIdx PROVE Template[b] \in 0 .. 255
    BY DEF Template
<1> DEFINE Before(i) == Fixups[i].kind \in PCDBLKinds /\ Fixups[i].offset - b \in {1, 2}
           j == CHOOSE i \in FixupIdx : Before(i)
<1>1. CASE ~\E i \in FixupIdx : Before(i)
    <2>1. Template[b] = 0
        BY <1>1 DEF Template, Before
    <2>2. QED
        BY <2>1
<1>2. CASE \E i \in FixupIdx : Before(i)
    <2>1. j \in FixupIdx /\ Before(j)
        BY <1>2, Zenon
    <2>2. Template[b] = OpcodeBytes(Fixups[j].kind)[3 - (Fixups[j].offset - b)]
        BY <1>2, Zenon DEF Template, Before
    <2>3. 3 - (Fixups[j].offset - b) \in {1, 2}
        BY <2>1, FixupEntry DEF ByteIdx
    <2>4. \A k : OpcodeBytes(k) \in [{1, 2} -> 0 .. 255]
        BY DEF OpcodeBytes
    <2>5. QED
        BY <2>2, <2>3, <2>4
<1>3. QED
    BY <1>1, <1>2

-----------------------------------------------------------------------------
(* Type correctness: the buffer only ever holds bytes, whatever fixups    *)
(* the fragment has and whatever values the assembler resolves.           *)
LEMMA TypeStep == TypeOK /\ [Next]_vars => TypeOK'
<1> SUFFICES ASSUME TypeOK, [Next]_vars PROVE TypeOK'
    OBVIOUS
<1>1. CASE \E i \in FixupIdx, v \in Values : ApplyFixup(i, v)
    <2> PICK i \in FixupIdx, v \in Values : ApplyFixup(i, v)
        BY <1>1
    <2>1. applied' \in [FixupIdx -> Values \cup {NotApplied}]
        BY DEF ApplyFixup, TypeOK
    <2>2. ksError' \subseteq FixupIdx
        BY DEF ApplyFixup, TypeOK
    <2>3. data' \in [ByteIdx -> 0 .. 255]
        BY OrIsByte DEF ApplyFixup, TypeOK
    <2>4. QED
        BY <2>1, <2>2, <2>3 DEF TypeOK
<1>2. CASE UNCHANGED vars
    BY <1>2 DEF vars, TypeOK
<1>3. QED
    BY <1>1, <1>2 DEF Next

LEMMA TypeCorrect == Spec => []TypeOK
<1>1. Init => TypeOK
    BY TemplateType DEF Init, TypeOK
<1>2. QED
    BY <1>1, TypeStep, PTL DEF Spec

-----------------------------------------------------------------------------
(* The inductive invariant for NoClobber: the type invariant and the      *)
(* property itself.  It is inductive because applyFixup writes only the   *)
(* Size bytes at the fixup's offset, Size is the field's width, the write *)
(* happens only when the field fits, and an applied fixup stays applied.  *)
IInv == TypeOK /\ NoClobber

(* A byte applyFixup writes lies in the field of the fixup it applies. *)
LEMMA WrittenInField ==
    ASSUME NEW i \in FixupIdx, NEW b \in Int,
           b - Fixups[i].offset \in 0 .. FixupSize(Fixups[i].kind) - 1
    PROVE  b \in Field(i)
<1>1. FixupSize(Fixups[i].kind) = FieldBytes(Fixups[i].kind)
    BY FixupEntry, SizeIsFieldBytes
<1>2. Fixups[i].offset \in Nat
    BY FixupEntry
<1>3. QED
    BY <1>1, <1>2 DEF Field

(* NoClobber: applyFixup writes no byte outside the field of a fixup that *)
(* fits, in every fragment (the bounds check at line 98 is what stops a   *)
(* fixup reaching past Data.size()).                                      *)
THEOREM NoClobberHolds == Spec => []NoClobber
<1>1. Init => IInv
    <2> SUFFICES ASSUME Init PROVE IInv
        OBVIOUS
    <2>1. TypeOK
        BY TemplateType DEF Init, TypeOK
    <2>2. NoClobber
        BY DEF Init, NoClobber
    <2>3. QED
        BY <2>1, <2>2 DEF IInv
<1>2. IInv /\ [Next]_vars => IInv'
    <2> SUFFICES ASSUME IInv, [Next]_vars PROVE IInv'
        OBVIOUS
    <2>1. TypeOK'
        BY TypeStep DEF IInv
    <2>2. CASE \E i \in FixupIdx, v \in Values : ApplyFixup(i, v)
        <3> PICK i \in FixupIdx, v \in Values : ApplyFixup(i, v)
            BY <2>2
        <3> DEFINE k == Fixups[i].kind
                   off == Fixups[i].offset
        <3>1. v # NotApplied
            BY ValuesAssumption, NotAppliedAssumption
        <3>2. \A j \in FixupIdx : IsApplied(j) => IsApplied(j)'
            BY <3>1 DEF ApplyFixup, IsApplied, IInv, TypeOK
        <3>3. IsApplied(i)'
            BY <3>1 DEF ApplyFixup, IsApplied, IInv, TypeOK
        <3> SUFFICES NoClobber'
            BY <2>1 DEF IInv
        <3> SUFFICES ASSUME NEW b \in ByteIdx, data'[b] # Template[b]
                     PROVE  \E j \in FixupIdx : IsApplied(j)' /\ Fits(j) /\ b \in Field(j)
            BY DEF NoClobber
        <3>4. CASE off + FixupSize(k) > DataSize
            <4>1. data'[b] = data[b]
                BY <3>4 DEF ApplyFixup
            <4>2. PICK j \in FixupIdx : IsApplied(j) /\ Fits(j) /\ b \in Field(j)
                BY <4>1 DEF IInv, NoClobber
            <4>3. QED
                BY <4>2, <3>2
        <3>5. CASE ~(off + FixupSize(k) > DataSize)
            <4>1. CASE b - off \in 0 .. FixupSize(k) - 1
                <5>1. b \in Field(i)
                    BY <4>1, WrittenInField DEF ByteIdx
                <5>2. FixupSize(k) = FieldBytes(k) /\ off \in Nat
                    BY FixupEntry, SizeIsFieldBytes
                <5>3. FieldBytes(k) \in Nat
                    BY FixupEntry DEF FieldBytes, Kinds, DataKinds, TargetKinds, PCDBLKinds
                <5>4. Fits(i)
                    BY <3>5, <5>2, <5>3, DataSizeAssumption DEF Fits
                <5>5. QED
                    BY <5>1, <5>4, <3>3
            <4>2. CASE b - off \notin 0 .. FixupSize(k) - 1
                <5>1. data'[b] = data[b]
                    BY <3>5, <4>2 DEF ApplyFixup
                <5>2. PICK j \in FixupIdx : IsApplied(j) /\ Fits(j) /\ b \in Field(j)
                    BY <5>1 DEF IInv, NoClobber
                <5>3. QED
                    BY <5>2, <3>2
            <4>3. QED
                BY <4>1, <4>2
        <3>6. QED
            BY <3>4, <3>5
    <2>3. CASE UNCHANGED vars
        BY <2>1, <2>3 DEF vars, IInv, NoClobber, IsApplied
    <2>4. QED
        BY <2>1, <2>2, <2>3 DEF Next, IInv
<1>3. IInv => NoClobber
    BY DEF IInv
<1>4. QED
    BY <1>1, <1>2, <1>3, PTL DEF Spec
=============================================================================
