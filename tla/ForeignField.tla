----------------------------- MODULE ForeignField -----------------------------
(***************************************************************************)
(* Arithmetic of one prime field, as src/runtime/src/built-ins.ts writes   *)
(* it: sums and differences are brought back into range by a comparison    *)
(* instead of a remainder, on the assumption that both operands are in     *)
(* range.  The file repeats the block for every field; each copy is an     *)
(* INSTANCE of this module in BuiltIns.                                    *)
(***************************************************************************)
EXTENDS Integers

CONSTANT Modulus

(* Mutant: the sum that equals the modulus stays. *)
AddKeepingModulus(x, y) == IF x + y <= Modulus THEN x + y ELSE x + y - Modulus

Add(x, y) == IF x + y < Modulus THEN x + y ELSE x + y - Modulus

Neg(x) == IF x = 0 THEN x ELSE Modulus - x

Sub(x, y) == IF x - y >= 0 THEN x - y ELSE x - y + Modulus

Mul(x, y) == (x * y) % Modulus

(* Throws for zero; the inverse itself is the library's. *)
Invertible(x) == x # 0

Inv(x) == CHOOSE y \in 1 .. Modulus - 1 : (x * y) % Modulus = 1
================================================================================
