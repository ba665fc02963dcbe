--------------------------------- MODULE F64 ---------------------------------
(***************************************************************************)
(* IEEE 754 doubles that are not negative, in which the front ends compute  *)
(* prices.  A double is written as the number of smallest doubles it is     *)
(* made of: 2^-1074 is 1.  The doubles are then the multiples h * p of a     *)
(* step p, a power of two, with h at most F64_EXACT = 2^53, and an          *)
(* operation returns the double nearest to the exact result, the one with   *)
(* the even h of two that are as near.                                     *)
(***************************************************************************)
EXTENDS AmmMath

CONSTANTS
    F64_EXACT,  \* 2^53: integers up to this are exact
    F64_ONE,    \* 2^1074: 1.0
    F64_STEPS   \* powers of two, 1 to 2^2045: the distances of neighbours

(* The largest double is beyond every product of two amounts.              *)
ASSUME F64Assumption ==
    /\ F64_STEPS \subseteq Nat \ {0}
    /\ {1, F64_EXACT, F64_ONE} \subseteq F64_STEPS
    /\ \A p \in F64_STEPS : p # 1 => \E half \in F64_STEPS : p = 2 * half
    /\ \A p \in F64_STEPS : p <= F64_ONE => \E k \in F64_STEPS : F64_ONE = k * p
    /\ F64_EXACT >= 256
    /\ F64_ONE >= 2 * F64_EXACT
    /\ \E q \in F64_STEPS :
          /\ U128_MAX <= q * F64_EXACT
          /\ \E p \in F64_STEPS : 4 * q * U128_MAX * F64_ONE <= p

(* n/d to the nearest integer, to the even one of two.                      *)
HalfEven(n, d) ==
    LET low == n \div d
        rest == n % d
    IN  IF 2 * rest < d \/ (2 * rest = d /\ low % 2 = 0) THEN low ELSE low + 1

(* The distance of the doubles around n/d.                                 *)
Step(n, d) ==
    LET above == CeilDiv(n, d)
    IN  CHOOSE p \in F64_STEPS :
            /\ above <= p * F64_EXACT
            /\ p # 1 => above > (p \div 2) * F64_EXACT

(* The double nearest to n/d.                                              *)
Nearest(n, d) == LET p == Step(n, d) IN HalfEven(n, d * p) * p

(* An integer as a double, and the operations.                             *)
AsDouble(n) == Nearest(n * F64_ONE, 1)

FAdd(x, y) == Nearest(x + y, 1)
FSub(x, y) == Nearest(x - y, 1)
FMul(x, y) == Nearest(x * y, F64_ONE)
FDiv(x, y) == Nearest(x * F64_ONE, y)

Floor(x) == x \div F64_ONE

=============================================================================
