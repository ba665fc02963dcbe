------------------------------- MODULE AmmMath -------------------------------
(***************************************************************************)
(* The integer arithmetic of the constant-product pool: swap pricing in    *)
(* both directions, the amounts of a liquidity deposit and withdrawal and   *)
(* the initial LP supply.  Amounts are u128 in the program.  A checked      *)
(* operation that overflows aborts the instruction, so every formula has a  *)
(* companion "Fits" or "Ok" predicate that collects the checks made on the  *)
(* way.                                                                     *)
(***************************************************************************)
EXTENDS U128

CONSTANTS
    FEE_BPS_DENOMINATOR,  \* 10_000 in the program
    MINIMUM_LIQUIDITY,    \* 1_000 in the program
    FEE_TIERS             \* {1, 5, 30, 100} in the program

ASSUME AmmMathAssumption ==
    /\ FEE_BPS_DENOMINATOR \in Nat \ {0}
    /\ MINIMUM_LIQUIDITY \in Nat \ {0}
    /\ FEE_TIERS \subseteq 0 .. (FEE_BPS_DENOMINATOR - 1)

CeilDiv(n, d) == (n + d - 1) \div d

Least(x, y) == IF x <= y THEN x ELSE y

(* A counter kept with saturating_add.                                     *)
SaturatingAdd(x, y) == Least(x + y, U128_MAX)

(* u128::isqrt: r is the largest number whose square is at most n.         *)
IsISqrt(r, n) == r * r <= n /\ n < (r + 1) * (r + 1)

-----------------------------------------------------------------------------
(* Exact input: the fee is taken off the input, the rest moves along the   *)
(* curve, and the output is rounded down.                                  *)

(* Variant: the fee is recorded but not taken.                             *)
WholeIn(amount, fee) == amount

EffectiveIn(amount, fee) ==
    (amount * (FEE_BPS_DENOMINATOR - fee)) \div FEE_BPS_DENOMINATOR

ExactInputOut(reserve_in, reserve_out, fee, amount) ==
    (reserve_out * EffectiveIn(amount, fee))
        \div (reserve_in + EffectiveIn(amount, fee))

ExactInputOk(reserve_in, reserve_out, fee, amount) ==
    /\ Fits(amount * (FEE_BPS_DENOMINATOR - fee))
    /\ EffectiveIn(amount, fee) # 0
    /\ Fits(reserve_out * EffectiveIn(amount, fee))
    /\ Fits(reserve_in + EffectiveIn(amount, fee))
    /\ ExactInputOut(reserve_in, reserve_out, fee, amount) # 0

(* Exact output: the least effective input that buys amount_out, lifted    *)
(* back to the gross input, both rounded up.                               *)

EffectiveInFor(reserve_in, reserve_out, amount_out) ==
    CeilDiv(reserve_in * amount_out, reserve_out - amount_out)

(* Variant: the gross input is rounded down.                               *)
ExactOutputInFloor(reserve_in, reserve_out, fee, amount_out) ==
    (EffectiveInFor(reserve_in, reserve_out, amount_out) * FEE_BPS_DENOMINATOR)
        \div (FEE_BPS_DENOMINATOR - fee)

ExactOutputIn(reserve_in, reserve_out, fee, amount_out) ==
    CeilDiv(EffectiveInFor(reserve_in, reserve_out, amount_out)
                * FEE_BPS_DENOMINATOR,
            FEE_BPS_DENOMINATOR - fee)

ExactOutputOk(reserve_in, reserve_out, amount_out) ==
    /\ amount_out # 0
    /\ amount_out < reserve_out
    /\ Fits(reserve_in * amount_out)
    /\ Fits(EffectiveInFor(reserve_in, reserve_out, amount_out)
                * FEE_BPS_DENOMINATOR)

(* The fee added to cum_fees: the input less its effective part.  The      *)
(* product is a plain *, which wraps in the release guest.                 *)
RecordedFee(amount, fee) ==
    IF amount = 0 THEN 0
    ELSE (amount - ((amount * (FEE_BPS_DENOMINATOR - fee)) % (U128_MAX + 1))
                       \div FEE_BPS_DENOMINATOR) % (U128_MAX + 1)

-----------------------------------------------------------------------------
(* Liquidity.  A share of the pool is part/whole; every share is rounded   *)
(* down.                                                                   *)

(* Variant: rounded in favour of the one who takes.                        *)
ShareRoundedUp(amount, part, whole) == CeilDiv(amount * part, whole)

Share(amount, part, whole) == (amount * part) \div whole

(* Tokens that match max_other at the pool's price, capped by the user's   *)
(* maximum.                                                                *)
ActualDeposit(reserve_own, reserve_other, max_own, max_other) ==
    Least(Share(reserve_own, max_other, reserve_other), max_own)

LpMinted(supply, reserve_a, reserve_b, deposit_a, deposit_b) ==
    Least(Share(supply, deposit_a, reserve_a), Share(supply, deposit_b, reserve_b))

=============================================================================
