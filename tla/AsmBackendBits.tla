--------------------------- MODULE AsmBackendBits ---------------------------
(***************************************************************************)
(* The integer arithmetic the assembler backends' fixup code performs on   *)
(* a uint64_t Value.  A Value is represented by a mathematical integer v   *)
(* with Value = v mod 2^64 (two's complement for a negative v); then       *)
(* v \div 2^k and v % 2^n are exactly the code's unsigned shifts and       *)
(* masks, negative v included.                                             *)
(***************************************************************************)
EXTENDS Integers

(* (Value >> k) & (2^n - 1) *)
Bits(v, k, n) == (v \div 2^k) % 2^n

(* isInt<N>(Value): the value, read as int64_t, fits N signed bits. *)
IsInt(n, v) == -(2^(n - 1)) <= v /\ v < 2^(n - 1)

(* a | b on two bytes. *)
OrByte(a, b) ==
    LET Or(j) == IF Bits(a, j, 1) = 1 \/ Bits(b, j, 1) = 1 THEN 2^j ELSE 0
    IN  Or(0) + Or(1) + Or(2) + Or(3) + Or(4) + Or(5) + Or(6) + Or(7)

(* Bit m of the two's complement integer x, for |x| < 2^30: the bits from *)
(* 30 upwards are copies of the sign.                                     *)
ImmBit(x, m) == IF m >= 30 THEN (IF x < 0 THEN 1 ELSE 0) ELSE Bits(x, m, 1)
=============================================================================
