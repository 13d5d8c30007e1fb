------------------------- MODULE MCRISCVAsmBackend -------------------------
(***************************************************************************)
(* Fragments for model checking the RISC-V backend's applyFixup.          *)
(***************************************************************************)
EXTENDS RISCVFixupProperties

(* jal ra; beq ra,sp; auipc t0; addi t0,t0; sw t0,(t1) *)
MCFixups32 ==
    << [kind |-> "fixup_riscv_jal",        offset |-> 0],
       [kind |-> "fixup_riscv_branch",     offset |-> 4],
       [kind |-> "fixup_riscv_pcrel_hi20", offset |-> 8],
       [kind |-> "fixup_riscv_lo12_i",     offset |-> 12],
       [kind |-> "fixup_riscv_lo12_s",     offset |-> 16] >>
MCDataSize32 == 20
(* 0: the early return; 2050: bit 11 set (the hi20 rounding), in range of *)
(* jal and branch; -4098: beyond branch's 13 bits; 1048576 = 2^20: beyond *)
(* jal's 21 bits; -4097: odd and beyond branch's range.                   *)
MCValues32 == {0, 2050, -4098, 1048576, -4097}

(* c.j; c.beqz s0; lui t0; .word *)
MCFixupsRVC ==
    << [kind |-> "fixup_riscv_rvc_jump",   offset |-> 0],
       [kind |-> "fixup_riscv_rvc_branch", offset |-> 2],
       [kind |-> "fixup_riscv_hi20",       offset |-> 4],
       [kind |-> "FK_Data_4",              offset |-> 8] >>
MCDataSizeRVC == 12
(* -254 and 254: the ends of c.beqz's range; -2048, 2046: the ends of     *)
(* c.j's range; 64: bit 6 without bit 7; 2050 is beyond both; 3 is odd. *)
MCValuesRVC == {0, -254, 254, 64, -2048, 2046, 2050, 3}

(* .byte; .half; .quad: the data directives, the .byte last but one and  *)
(* the .quad at the end of the fragment.                                  *)
MCFixupsData ==
    << [kind |-> "FK_Data_2", offset |-> 0],
       [kind |-> "FK_Data_1", offset |-> 2],
       [kind |-> "FK_Data_8", offset |-> 3] >>
MCDataSizeData == 11
(* -1: a negative difference of labels; 200 fits a byte; 70000 fits no   *)
(* byte or half-word.                                                     *)
MCValuesData == {0, -1, 200, 70000}
=============================================================================
