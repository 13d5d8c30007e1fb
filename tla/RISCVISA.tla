------------------------------ MODULE RISCVISA ------------------------------
(***************************************************************************)
(* Reference definitions from the RISC-V ISA manual, independent of the   *)
(* backend's code: where each immediate's bits sit in the instruction     *)
(* word, and the range each PC-relative immediate can reach.  The         *)
(* properties of RISCVFixupProperties compare the backend's output with   *)
(* these layouts.                                                         *)
(***************************************************************************)
EXTENDS Integers

(* Instruction bits hi..lo hold immediate bits from base upwards. *)
Field(lo, hi, base) == {<<lo + j, base + j>> : j \in 0 .. hi - lo}

(* ImmLayout(k): the <<instruction bit, immediate bit>> pairs of the      *)
(* instruction format a fixup kind patches.  For the U-type (hi20) forms  *)
(* the immediate is the 20-bit upper part; for data it is the datum.      *)
ImmLayout(k) ==
    CASE k = "fixup_riscv_jal" ->            \* J-type
            {<<31, 20>>} \cup Field(21, 30, 1) \cup {<<20, 11>>} \cup Field(12, 19, 12)
      [] k = "fixup_riscv_branch" ->         \* B-type
            {<<31, 12>>} \cup Field(25, 30, 5) \cup Field(8, 11, 1) \cup {<<7, 11>>}
      [] k = "fixup_riscv_rvc_jump" ->       \* CJ-type
            {<<12, 11>>, <<11, 4>>} \cup Field(9, 10, 8)
              \cup {<<8, 10>>, <<7, 6>>, <<6, 7>>} \cup Field(3, 5, 1) \cup {<<2, 5>>}
      [] k = "fixup_riscv_rvc_branch" ->     \* CB-type
            {<<12, 8>>} \cup Field(10, 11, 3) \cup Field(5, 6, 6)
              \cup Field(3, 4, 1) \cup {<<2, 5>>}
      [] k = "fixup_riscv_lo12_i" -> Field(20, 31, 0)                   \* I-type
      [] k = "fixup_riscv_lo12_s" -> Field(25, 31, 5) \cup Field(7, 11, 0) \* S-type
      [] k \in {"fixup_riscv_hi20", "fixup_riscv_pcrel_hi20"} -> Field(12, 31, 0)
      [] k = "FK_Data_1" -> Field(0, 7, 0)
      [] k = "FK_Data_2" -> Field(0, 15, 0)
      [] k = "FK_Data_4" -> Field(0, 31, 0)
      [] k = "FK_Data_8" -> Field(0, 63, 0)

(* Signed width of the byte offset a PC-relative instruction encodes      *)
(* (its lowest bit is implicitly 0, so the offset must be even).          *)
PCRelWidth(k) ==
    CASE k = "fixup_riscv_jal"        -> 21
      [] k = "fixup_riscv_branch"     -> 13
      [] k = "fixup_riscv_rvc_jump"   -> 12
      [] k = "fixup_riscv_rvc_branch" -> 9
PCRelKinds == {"fixup_riscv_jal", "fixup_riscv_branch",
               "fixup_riscv_rvc_jump", "fixup_riscv_rvc_branch"}

(* The low 12 bits of v, sign-extended: what addi / sw add to the upper   *)
(* part.                                                                  *)
Lo12(v) == LET l == v % 4096 IN IF l >= 2048 THEN l - 4096 ELSE l

(* The 20-bit upper part U with (U << 12) + Lo12(v) = v (mod 2^32): what  *)
(* lui / auipc must hold so that the pair reconstructs v.                 *)
Hi20(v) == ((v - Lo12(v)) \div 4096) % 1048576
=============================================================================
