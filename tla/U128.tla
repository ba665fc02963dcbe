-------------------------------- MODULE U128 --------------------------------
(* Amounts are u128 in every program, and a checked operation that leaves   *)
(* the range ends the instruction.                                         *)
EXTENDS Integers

CONSTANT U128_MAX   \* the largest amount

ASSUME U128Assumption == U128_MAX \in Nat

Amount == 0 .. U128_MAX

(* The result of a checked addition or multiplication exists.              *)
Fits(n) == n <= U128_MAX

=============================================================================
