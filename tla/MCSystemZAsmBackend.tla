------------------------ MODULE MCSystemZAsmBackend ------------------------
(***************************************************************************)
(* A fragment for model checking the SystemZ backend's applyFixup.        *)
(***************************************************************************)
EXTENDS SystemZFixupProperties

(* j (brc 15) at 0; a TLS call marker at 4; jg (brcl 15) at 4; .quad at  *)
(* 10; a .short whose second byte lies past the 19-byte fragment.         *)
MCFixups ==
    << [kind |-> "FK_390_PC16DBL",  offset |-> 2],
       [kind |-> "FK_390_TLS_CALL", offset |-> 4],
       [kind |-> "FK_390_PC32DBL",  offset |-> 6],
       [kind |-> "FK_Data_8",       offset |-> 10],
       [kind |-> "FK_Data_2",       offset |-> 18] >>
MCDataSize == 19
(* 0; 6 and -6: short backward and forward branches; -3: odd, halved     *)
(* towards zero; 65538: even, one halfword past brc's range; -70000: out  *)
(* of brc's and of a .short's range, within brcl's.                       *)
MCValues == {0, 6, -6, -3, 65538, -70000}
=============================================================================
