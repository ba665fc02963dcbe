------------------------- MODULE ArithmeticTheorems -------------------------
(***************************************************************************)
(* Bounds on the pool's arithmetic, for every amount: each rounding goes    *)
(* against the one who takes from the pool.  And sums over finite sets, of  *)
(* balances for the most part: their laws, by induction over the subsets.   *)
(***************************************************************************)
EXTENDS AmmMath, FiniteSetsExt, FiniteSetTheorems, TLAPS

(* Integer division rounds down: the only facts about it used below.       *)
LEMMA DivFacts ==
    ASSUME NEW n \in Nat, NEW d \in Nat \ {0}
    PROVE  /\ n \div d \in Nat
           /\ (n \div d) * d <= n
           /\ n < (n \div d) * d + d
  BY Z3

(* A remainder is below its divisor, for a negative dividend too.          *)
LEMMA ModFacts ==
    ASSUME NEW x \in Int, NEW m \in Nat \ {0}
    PROVE  /\ x % m \in Nat
           /\ x % m < m
  OBVIOUS

(* What is below the divisor is its own remainder.                         *)
LEMMA SmallMod ==
    ASSUME NEW x \in Nat, NEW m \in Nat \ {0}, x < m
    PROVE  x % m = x
  OBVIOUS

(* CeilDiv rounds up.                                                      *)
LEMMA CeilDivFacts ==
    ASSUME NEW n \in Nat, NEW d \in Nat \ {0}
    PROVE  /\ CeilDiv(n, d) \in Nat
           /\ CeilDiv(n, d) * d >= n
<1> DEFINE q == (n + d - 1) \div d
<1>1. n + d - 1 \in Nat
  OBVIOUS
<1>2. q \in Nat /\ n + d - 1 < q * d + d
  BY <1>1, DivFacts
<1> HIDE DEF q
<1>3. q * d \in Nat
  BY <1>2
<1>4. q * d >= n
  BY <1>2, <1>3
<1> QED
  BY <1>2, <1>4 DEF q, CeilDiv

(* Multiplication is monotone: used to compare products.                   *)
LEMMA MulMonotone ==
    ASSUME NEW x \in Nat, NEW y \in Nat, NEW k \in Nat, x <= y
    PROVE  x * k <= y * k
  BY Z3

(* A product with a smaller factor on each side is smaller.                *)
LEMMA MulMonotone2 ==
    ASSUME NEW a \in Nat, NEW b \in Nat, NEW c \in Nat, NEW d \in Nat,
           a <= c, b <= d
    PROVE  a * b <= c * d
<1>1. a * b <= c * b
  BY MulMonotone
<1>2. b * c <= d * c
  BY MulMonotone
<1> QED
  BY <1>1, <1>2

(* A strictly positive common factor cancels.                              *)
LEMMA MulCancel ==
    ASSUME NEW x \in Nat, NEW y \in Nat, NEW k \in Nat \ {0}, x * k < y * k
    PROVE  x < y
<1>1. CASE y <= x
  <2>1. y * k <= x * k
    BY <1>1, MulMonotone
  <2> QED
    BY <2>1
<1> QED
  BY <1>1

(* So does it where the two may be equal.                                  *)
LEMMA MulCancelLeq ==
    ASSUME NEW x \in Nat, NEW y \in Nat, NEW k \in Nat \ {0}, x * k <= y * k
    PROVE  x <= y
<1>1. CASE y < x
  <2>1. (y + 1) * k <= x * k
    BY <1>1, MulMonotone
  <2>2. (y + 1) * k = y * k + k /\ y * k \in Nat /\ x * k \in Nat
    OBVIOUS
  <2> QED
    BY <2>1, <2>2
<1> QED
  BY <1>1

-----------------------------------------------------------------------------
(* A share rounds down, and a proper part of the pool is less than all.    *)
LEMMA ShareFacts ==
    ASSUME NEW amount \in Nat, NEW part \in Nat, NEW whole \in Nat \ {0}
    PROVE  /\ Share(amount, part, whole) \in Nat
           /\ Share(amount, part, whole) * whole <= amount * part
           /\ (part < whole /\ amount > 0) => Share(amount, part, whole) < amount
<1> DEFINE q == (amount * part) \div whole
<1>1. amount * part \in Nat
  OBVIOUS
<1>2. q \in Nat /\ q * whole <= amount * part
  BY <1>1, DivFacts
<1> HIDE DEF q
<1>3. ASSUME part < whole, amount > 0
      PROVE  q < amount
  <2>1. part * amount < whole * amount
    BY <1>3, Z3
  <2>2. q * whole < amount * whole
    BY <2>1, <1>2
  <2> QED
    BY <2>2, <1>2, MulCancel
<1> QED
  BY <1>2, <1>3 DEF q, Share

(* The input moves along the curve only after the fee: never more than the  *)
(* amount paid.                                                            *)
LEMMA EffectiveInFacts ==
    ASSUME NEW amount \in Nat, NEW fee \in FEE_TIERS
    PROVE  /\ EffectiveIn(amount, fee) \in Nat
           /\ EffectiveIn(amount, fee) <= amount
<1> DEFINE D == FEE_BPS_DENOMINATOR
           q == (amount * (D - fee)) \div D
<1>1. D \in Nat \ {0} /\ fee \in Nat /\ fee < D /\ D - fee \in Nat
  BY AmmMathAssumption, U128Assumption
<1> HIDE DEF D
<1>2. amount * (D - fee) \in Nat /\ amount * (D - fee) <= amount * D
  <2>1. (D - fee) * amount <= D * amount
    BY <1>1, MulMonotone
  <2> QED
    BY <2>1, <1>1
<1>3. q \in Nat /\ q * D <= amount * (D - fee)
  BY <1>1, <1>2, DivFacts
<1> HIDE DEF q
<1>4. ~(amount < q)
  <2> SUFFICES ASSUME amount < q PROVE FALSE
    OBVIOUS
  <2>1. amount + 1 <= q
    BY <1>3
  <2>2. (amount + 1) * D <= q * D
    BY <2>1, <1>1, <1>3, MulMonotone
  <2>3. amount * D + D <= amount * D
    BY <2>2, <1>3, <1>2, <1>1
  <2> QED
    BY <2>3, <1>1
<1> QED
  BY <1>3, <1>4 DEF q, D, EffectiveIn

(* An exact-input swap pays out less than the reserve and keeps the product *)
(* of the reserves, even counting the effective input only.                *)
LEMMA ExactInputFacts ==
    ASSUME NEW reserve_in \in Nat \ {0}, NEW reserve_out \in Nat \ {0},
           NEW fee \in FEE_TIERS, NEW amount \in Nat
    PROVE  LET eff == EffectiveIn(amount, fee)
               out == ExactInputOut(reserve_in, reserve_out, fee, amount)
           IN  /\ out \in Nat
               /\ out < reserve_out
               /\ (reserve_in + eff) * (reserve_out - out)
                       >= reserve_in * reserve_out
<1> DEFINE eff == EffectiveIn(amount, fee)
           out == (reserve_out * eff) \div (reserve_in + eff)
<1>1. eff \in Nat /\ eff <= amount
  BY EffectiveInFacts
<1> HIDE DEF eff
<1>2. reserve_out * eff \in Nat /\ reserve_in + eff \in Nat \ {0}
  BY <1>1
<1>3. out \in Nat /\ out * (reserve_in + eff) <= reserve_out * eff
  BY <1>2, DivFacts
<1> HIDE DEF out
<1>4. out < reserve_out
  <2>1. eff * reserve_out < (reserve_in + eff) * reserve_out
    BY <1>1, Z3
  <2>2. out * (reserve_in + eff) < reserve_out * (reserve_in + eff)
    BY <2>1, <1>3, <1>1
  <2> QED
    BY <2>2, <1>2, <1>3, MulCancel
<1>5. (reserve_in + eff) * (reserve_out - out)
        = (reserve_in + eff) * reserve_out - out * (reserve_in + eff)
  BY <1>1, <1>3
<1>6. (reserve_in + eff) * reserve_out = reserve_in * reserve_out + reserve_out * eff
  BY <1>1
<1>7. (reserve_in + eff) * (reserve_out - out) >= reserve_in * reserve_out
  BY <1>1, <1>3, <1>5, <1>6
<1> QED
  BY <1>3, <1>4, <1>7 DEF eff, out, ExactInputOut

(* An exact-output swap charges at least the effective input that keeps the *)
(* product of the reserves.                                                *)
LEMMA ExactOutputFacts ==
    ASSUME NEW reserve_in \in Nat, NEW reserve_out \in Nat, NEW fee \in FEE_TIERS,
           NEW amount_out \in Nat, amount_out < reserve_out
    PROVE  LET deposit == ExactOutputIn(reserve_in, reserve_out, fee, amount_out)
               eff == EffectiveInFor(reserve_in, reserve_out, amount_out)
           IN  /\ deposit \in Nat
               /\ eff \in Nat
               /\ eff <= deposit
               /\ (reserve_in + eff) * (reserve_out - amount_out)
                       >= reserve_in * reserve_out
<1> DEFINE D == FEE_BPS_DENOMINATOR
           eff == CeilDiv(reserve_in * amount_out, reserve_out - amount_out)
           deposit == CeilDiv(eff * D, D - fee)
<1>1. D \in Nat \ {0} /\ fee \in Nat /\ D - fee \in Nat \ {0} /\ D - fee <= D
  BY AmmMathAssumption, U128Assumption
<1> HIDE DEF D
<1>2. reserve_in * amount_out \in Nat /\ reserve_out - amount_out \in Nat \ {0}
  OBVIOUS
<1>3. eff \in Nat /\ eff * (reserve_out - amount_out) >= reserve_in * amount_out
  BY <1>2, CeilDivFacts
<1> HIDE DEF eff
<1>4. eff * D \in Nat
  BY <1>1, <1>3
<1>5. deposit \in Nat /\ deposit * (D - fee) >= eff * D
  BY <1>1, <1>4, CeilDivFacts
<1> HIDE DEF deposit
<1>6. eff <= deposit
  <2> SUFFICES ASSUME deposit + 1 <= eff PROVE FALSE
    BY <1>3, <1>5
  <2>1. (deposit + 1) * D <= eff * D
    BY <1>1, <1>3, <1>5, MulMonotone
  <2>2. (D - fee) * deposit <= D * deposit
    BY <1>1, <1>5, MulMonotone
  <2>3. eff * D <= D * deposit
    BY <2>2, <1>1, <1>4, <1>5
  <2>4. deposit * D + D <= deposit * D
    BY <2>1, <2>3, <1>1, <1>4, <1>5
  <2> QED
    BY <2>4, <1>1, <1>5
<1>7. (reserve_in + eff) * (reserve_out - amount_out)
        = reserve_in * reserve_out - reserve_in * amount_out
            + eff * (reserve_out - amount_out)
  BY <1>3
<1>8. (reserve_in + eff) * (reserve_out - amount_out) >= reserve_in * reserve_out
  BY <1>7, <1>3
<1> QED
  BY <1>3, <1>5, <1>6, <1>8 DEF deposit, eff, D, ExactOutputIn, EffectiveInFor

(* The recorded fee is an amount, wrapped product or not.                  *)
LEMMA RecordedFeeFacts ==
    ASSUME NEW amount \in Nat, NEW fee \in FEE_TIERS
    PROVE  RecordedFee(amount, fee) \in 0 .. U128_MAX
<1>1. U128_MAX + 1 \in Nat \ {0}
  BY AmmMathAssumption, U128Assumption
<1> DEFINE x == amount - ((amount * (FEE_BPS_DENOMINATOR - fee)) % (U128_MAX + 1))
                             \div FEE_BPS_DENOMINATOR
<1>2. FEE_BPS_DENOMINATOR \in Nat \ {0} /\ FEE_BPS_DENOMINATOR - fee \in Nat
  BY AmmMathAssumption, U128Assumption
<1>3. amount * (FEE_BPS_DENOMINATOR - fee) \in Nat
  BY <1>2
<1>4. (amount * (FEE_BPS_DENOMINATOR - fee)) % (U128_MAX + 1) \in Nat
  BY <1>1, <1>3, ModFacts
<1>5. x \in Int
  BY <1>2, <1>4, DivFacts
<1> HIDE DEF x
<1>6. x % (U128_MAX + 1) \in Nat /\ x % (U128_MAX + 1) < U128_MAX + 1
  BY <1>1, <1>5, ModFacts
<1>7. x % (U128_MAX + 1) \in 0 .. U128_MAX
  BY <1>6, AmmMathAssumption, U128Assumption
<1>8. CASE amount = 0
  BY <1>8, AmmMathAssumption, U128Assumption DEF RecordedFee
<1>9. CASE amount # 0
  BY <1>9, <1>7, Zenon DEF x, RecordedFee
<1> QED
  BY <1>8, <1>9

-----------------------------------------------------------------------------
(* If each reserve keeps up with the supply, so does their product.        *)
LEMMA ProductKeepsUp ==
    ASSUME NEW a \in Nat, NEW b \in Nat, NEW s \in Nat,
           NEW a2 \in Nat, NEW b2 \in Nat, NEW s2 \in Nat,
           a2 * s >= a * s2, b2 * s >= b * s2
    PROVE  a2 * b2 * s * s >= a * b * s2 * s2
<1>1. a2 * s \in Nat /\ b2 * s \in Nat /\ a * s2 \in Nat /\ b * s2 \in Nat
  OBVIOUS
<1>2. (a * s2) * (b * s2) <= (a2 * s) * (b2 * s)
  BY <1>1, MulMonotone2
<1>3. a2 * b2 * s * s = (a2 * s) * (b2 * s)
  BY Z3
<1>4. a * b * s2 * s2 = (a * s2) * (b * s2)
  BY Z3
<1> QED
  BY <1>2, <1>3, <1>4

(* A deposit that mints at most its share, and a withdrawal of at most its  *)
(* share, keep a reserve up with the supply.                               *)
LEMMA DepositKeepsUp ==
    ASSUME NEW r \in Nat, NEW s \in Nat, NEW deposit \in Nat, NEW lp \in Nat,
           lp * r <= s * deposit
    PROVE  (r + deposit) * s >= r * (s + lp)
<1>1. (r + deposit) * s = r * s + s * deposit
  OBVIOUS
<1>2. r * (s + lp) = r * s + lp * r
  OBVIOUS
<1> QED
  BY <1>1, <1>2

(* A withdrawal rounded down does not lower a share.                       *)
LEMMA WithdrawalKeepsUp ==
    ASSUME NEW r \in Nat, NEW s \in Nat, NEW w \in Nat, NEW lp \in Nat,
           w * s <= r * lp
    PROVE  (r - w) * s >= r * (s - lp)
<1>1. (r - w) * s = r * s - w * s
  OBVIOUS
<1>2. r * (s - lp) = r * s - r * lp
  OBVIOUS
<1> QED
  BY <1>1, <1>2

(* The LP minted is at most the share of each deposit.                     *)
LEMMA LpMintedFacts ==
    ASSUME NEW supply \in Nat, NEW ra \in Nat \ {0}, NEW rb \in Nat \ {0},
           NEW da \in Nat, NEW db \in Nat
    PROVE  /\ LpMinted(supply, ra, rb, da, db) \in Nat
           /\ LpMinted(supply, ra, rb, da, db) * ra <= supply * da
           /\ LpMinted(supply, ra, rb, da, db) * rb <= supply * db
<1> DEFINE lp == LpMinted(supply, ra, rb, da, db)
           sa == Share(supply, da, ra)
           sb == Share(supply, db, rb)
<1>1. sa \in Nat /\ sa * ra <= supply * da /\ sb \in Nat /\ sb * rb <= supply * db
  BY ShareFacts
<1>2. lp \in {sa, sb} /\ lp <= sa /\ lp <= sb
  BY <1>1 DEF LpMinted, Least
<1> HIDE DEF lp, sa, sb
<1>3. lp \in Nat /\ lp * ra <= sa * ra /\ lp * rb <= sb * rb
  BY <1>1, <1>2, MulMonotone
<1>4. lp \in Nat /\ lp * ra <= supply * da /\ lp * rb <= supply * db
  BY <1>1, <1>3
<1> QED
  BY <1>4 DEF lp

(* An input whose product with the fee fits a u128 records its exact fee.  *)
LEMMA RecordedFeeExact ==
    ASSUME NEW amount \in Nat, NEW fee \in FEE_TIERS,
           amount <= U128_MAX,
           Fits(amount * (FEE_BPS_DENOMINATOR - fee))
    PROVE  RecordedFee(amount, fee) = amount - EffectiveIn(amount, fee)
<1> DEFINE p == amount * (FEE_BPS_DENOMINATOR - fee)
<1>1. FEE_BPS_DENOMINATOR \in Nat \ {0} /\ FEE_BPS_DENOMINATOR - fee \in Nat
      /\ U128_MAX \in Nat
  BY AmmMathAssumption, U128Assumption
<1>2. p \in Nat /\ p < U128_MAX + 1
  BY <1>1 DEF Fits
<1>3. /\ EffectiveIn(amount, fee) = p \div FEE_BPS_DENOMINATOR
      /\ EffectiveIn(amount, fee) \in Nat /\ EffectiveIn(amount, fee) <= amount
  BY EffectiveInFacts DEF EffectiveIn
<1>4. p % (U128_MAX + 1) = p
  BY <1>1, <1>2, SmallMod
<1>5. (amount - EffectiveIn(amount, fee)) % (U128_MAX + 1)
        = amount - EffectiveIn(amount, fee)
  BY <1>1, <1>3, SmallMod
<1>6. CASE amount = 0
  BY <1>3, <1>6 DEF RecordedFee
<1>7. CASE amount # 0
  <2>1. RecordedFee(amount, fee)
          = (amount - (p % (U128_MAX + 1)) \div FEE_BPS_DENOMINATOR) % (U128_MAX + 1)
    BY <1>7, Zenon DEF RecordedFee
  <2> QED
    BY <2>1, <1>3, <1>4, <1>5
<1> QED
  BY <1>6, <1>7

(* Paying in more than the effective input only adds to the product.        *)
LEMMA ProductGrows ==
    ASSUME NEW ra \in Nat, NEW rb \in Nat, NEW eff \in Nat, NEW paid \in Nat,
           NEW out \in Nat, eff <= paid, out <= rb,
           (ra + eff) * (rb - out) >= ra * rb
    PROVE  (ra + paid) * (rb - out) >= ra * rb
<1>1. rb - out \in Nat /\ ra + eff \in Nat /\ ra + paid \in Nat
  OBVIOUS
<1>2. (ra + eff) * (rb - out) <= (ra + paid) * (rb - out)
  BY <1>1, MulMonotone
<1>3. ra * rb \in Nat /\ (ra + eff) * (rb - out) \in Nat /\ (ra + paid) * (rb - out) \in Nat
  BY <1>1
<1> QED
  BY <1>2, <1>3

-----------------------------------------------------------------------------
(* The two quotes agree.  Each rounded division is one side of a Galois     *)
(* connection with a multiplication; chaining four of them takes an output  *)
(* amount to the least input that buys it.                                 *)

(* A quotient rounded down as a threshold.                                 *)
LEMMA DivAtLeast ==
    ASSUME NEW n \in Nat, NEW d \in Nat \ {0}, NEW k \in Nat
    PROVE  n \div d >= k <=> n >= k * d
<1> DEFINE q == n \div d
<1>1. q \in Nat /\ q * d <= n /\ n < q * d + d
  BY DivFacts
<1> HIDE DEF q
<1>2. ASSUME q >= k PROVE n >= k * d
  <2>1. k * d <= q * d
    BY <1>1, <1>2, MulMonotone
  <2>2. k * d \in Nat /\ q * d \in Nat
    BY <1>1
  <2> QED
    BY <1>1, <2>1, <2>2
<1>3. ASSUME n >= k * d PROVE q >= k
  <2>1. (q + 1) * d = q * d + d
    BY <1>1
  <2>2. k * d \in Nat /\ q * d \in Nat
    BY <1>1
  <2>3. k * d < (q + 1) * d
    BY <1>1, <1>3, <2>1, <2>2
  <2>4. k < q + 1
    BY <1>1, <2>3, MulCancel
  <2> QED
    BY <1>1, <2>4
<1> QED
  BY <1>2, <1>3 DEF q

(* A quotient rounded up as a threshold.                                   *)
LEMMA CeilDivAtMost ==
    ASSUME NEW n \in Nat, NEW d \in Nat \ {0}, NEW k \in Nat
    PROVE  CeilDiv(n, d) <= k <=> n <= k * d
<1>1. n + d - 1 \in Nat
  OBVIOUS
<1>2. (n + d - 1) \div d >= k + 1 <=> n + d - 1 >= (k + 1) * d
  BY <1>1, DivAtLeast
<1>3. (k + 1) * d = k * d + d /\ k * d \in Nat
  OBVIOUS
<1>4. CeilDiv(n, d) \in Nat
  BY CeilDivFacts
<1>5. CeilDiv(n, d) >= k + 1 <=> n >= k * d + 1
  BY <1>2, <1>3 DEF CeilDiv
<1> QED
  BY <1>3, <1>4, <1>5

(* What an exact output is charged is the least input that buys it.        *)
LEMMA ChargeIsThreshold ==
    ASSUME NEW reserve_in \in Nat \ {0}, NEW reserve_out \in Nat, NEW fee \in FEE_TIERS,
           NEW amount_out \in Nat, amount_out < reserve_out, NEW amount \in Nat
    PROVE  ExactInputOut(reserve_in, reserve_out, fee, amount) >= amount_out
             <=> amount >= ExactOutputIn(reserve_in, reserve_out, fee, amount_out)
<1> DEFINE D == FEE_BPS_DENOMINATOR
           eff == EffectiveIn(amount, fee)
           least == EffectiveInFor(reserve_in, reserve_out, amount_out)
           kept == reserve_out - amount_out
<1>1. D \in Nat \ {0} /\ fee \in Nat /\ D - fee \in Nat \ {0}
  BY AmmMathAssumption, U128Assumption
<1>2. eff \in Nat /\ kept \in Nat \ {0} /\ reserve_in * amount_out \in Nat
  BY EffectiveInFacts
<1>3. least \in Nat
  BY <1>2, CeilDivFacts DEF EffectiveInFor
<1>4. ExactInputOut(reserve_in, reserve_out, fee, amount) >= amount_out
        <=> reserve_out * eff >= amount_out * (reserve_in + eff)
  <2>1. reserve_out * eff \in Nat /\ reserve_in + eff \in Nat \ {0}
    BY <1>2
  <2> QED
    BY <2>1, DivAtLeast DEF ExactInputOut
<1>5. reserve_out * eff >= amount_out * (reserve_in + eff)
        <=> reserve_in * amount_out <= eff * kept
  <2>1. eff * kept = reserve_out * eff - amount_out * eff
    BY <1>2
  <2>2. amount_out * (reserve_in + eff) = reserve_in * amount_out + amount_out * eff
    BY <1>2
  <2>3. amount_out * eff \in Nat /\ reserve_out * eff \in Nat
    BY <1>2
  <2> QED
    BY <1>2, <2>1, <2>2, <2>3
<1>6. reserve_in * amount_out <= eff * kept <=> least <= eff
  BY <1>2, CeilDivAtMost DEF EffectiveInFor
<1>7. eff >= least <=> amount * (D - fee) >= least * D
  <2>1. amount * (D - fee) \in Nat
    BY <1>1
  <2> QED
    BY <1>1, <1>3, <2>1, DivAtLeast DEF EffectiveIn
<1>8. amount * (D - fee) >= least * D
        <=> amount >= ExactOutputIn(reserve_in, reserve_out, fee, amount_out)
  <2>1. least * D \in Nat /\ amount * (D - fee) \in Nat
    BY <1>1, <1>3
  <2>2. CeilDiv(least * D, D - fee) <= amount <=> least * D <= amount * (D - fee)
    BY <1>1, <2>1, CeilDivAtMost
  <2>3. CeilDiv(least * D, D - fee) \in Nat
    BY <1>1, <2>1, CeilDivFacts
  <2> QED
    BY <2>1, <2>2, <2>3 DEF ExactOutputIn
<1>9. eff >= least <=> least <= eff
  BY <1>2, <1>3
<1> QED
  BY <1>4, <1>5, <1>6, <1>7, <1>8, <1>9

-----------------------------------------------------------------------------
(* Sums over finite sets.                                                  *)

(* The sum of f over a set.                                                *)
Total(f, S) == MapThenSumSet(LAMBDA x : f[x], S)

(* The element that a fold takes first.                                    *)
Pick(s) == CHOOSE x \in s : TRUE

(* It is an element.                                                       *)
LEMMA PickIn == ASSUME NEW s, s # {} PROVE Pick(s) \in s
BY DEF Pick

(* Induction over the subsets of a finite set: inclusion is well founded.  *)
LEMMA SubsetInduction ==
    ASSUME NEW S, IsFiniteSet(S), NEW Good,
           \A T \in SUBSET S : (\A U \in SUBSET T : U # T => U \in Good) => T \in Good
    PROVE  \A T \in SUBSET S : T \in Good
<1> DEFINE Bad == {T \in SUBSET S : T \notin Good}
<1>1. IsWellFoundedOn(StrictSubsetOrdering(S), SUBSET S)
    BY FS_StrictSubsetOrderingWellFounded, FS_FiniteSubsetsOfFinite
<1>2. SUFFICES ASSUME Bad # {} PROVE FALSE
    OBVIOUS
<1>3. PICK T \in Bad : \A U \in Bad : <<U, T>> \notin StrictSubsetOrdering(S)
    <2> HIDE DEF Bad
    <2>1. Bad \subseteq SUBSET S
        BY DEF Bad
    <2> QED
        BY <1>1, <1>2, <2>1, WFMin
<1>4. ASSUME NEW U \in SUBSET T, U # T PROVE U \in Good
    <2>1. <<U, T>> \in StrictSubsetOrdering(S)
        BY <1>4 DEF StrictSubsetOrdering
    <2> QED
        BY <1>3, <2>1
<1> QED
    BY <1>4

(* One unfolding of the recursive function behind a sum, at s.             *)
Unfolds(g, f, s) == g[s] = IF s = {} THEN 0 ELSE f[Pick(s)] + g[s \ {Pick(s)}]

(* The small subsets.                                                      *)
UpTo(S, n) == {s \in SUBSET S : Cardinality(s) <= n}

(* There is a function that gives every subset its sum: it is built up     *)
(* from the small subsets to the large ones.                              *)
LEMMA PartialSums ==
    ASSUME NEW S, IsFiniteSet(S), NEW f, \A x \in S : f[x] \in Int
    PROVE  \E g \in [SUBSET S -> Int] : \A s \in SUBSET S : Unfolds(g, f, s)
<1> DEFINE Summed(T) == \E g \in [UpTo(S, Cardinality(T)) -> Int] :
                            \A s \in UpTo(S, Cardinality(T)) : Unfolds(g, f, s)
           Good == {T \in SUBSET S : Summed(T)}
<1>1. ASSUME NEW T \in SUBSET S, \A U \in SUBSET T : U # T => U \in Good
      PROVE  T \in Good
    <2> DEFINE n == Cardinality(T)
    <2>0. IsFiniteSet(T) /\ n \in Nat
        BY FS_Subset, FS_CardinalityType
    <2>1. CASE T = {}
        <3> DEFINE g == [s \in UpTo(S, n) |-> 0]
        <3>1. n = 0
            BY <2>1, FS_EmptySet
        <3>2. \A s \in UpTo(S, n) : s = {}
            BY <3>1, FS_EmptySet, FS_Subset, FS_CardinalityType DEF UpTo
        <3>3. \A s \in UpTo(S, n) : Unfolds(g, f, s)
            BY <3>2 DEF Unfolds
        <3> QED
            BY <3>3
    <2>2. CASE T # {}
        <3> DEFINE U == T \ {Pick(T)}
        <3>1. U \in SUBSET T /\ U # T /\ Cardinality(U) = n - 1
            BY <2>0, <2>2, PickIn, FS_RemoveElement
        <3>2. PICK g \in [UpTo(S, n - 1) -> Int] :
                    \A s \in UpTo(S, n - 1) : Unfolds(g, f, s)
            BY <1>1, <3>1
        <3> DEFINE h == [s \in UpTo(S, n) |->
                            IF s = {} THEN 0 ELSE f[Pick(s)] + g[s \ {Pick(s)}]]
        <3>3. ASSUME NEW s \in UpTo(S, n), s # {}
              PROVE  s \ {Pick(s)} \in UpTo(S, n - 1) /\ Pick(s) \in S
            <4>1. IsFiniteSet(s) /\ Cardinality(s) \in Nat
                BY FS_Subset, FS_CardinalityType DEF UpTo
            <4>2. Cardinality(s \ {Pick(s)}) = Cardinality(s) - 1
                BY <3>3, <4>1, PickIn, FS_RemoveElement
            <4> QED
                BY <2>0, <3>3, <4>1, <4>2, PickIn DEF UpTo
        <3>4. h \in [UpTo(S, n) -> Int]
            BY <3>3
        <3>5. \A s \in UpTo(S, n - 1) : s \in UpTo(S, n) /\ h[s] = g[s]
            <4> TAKE s \in UpTo(S, n - 1)
            <4>1. s \in UpTo(S, n)
                BY <2>0, FS_Subset, FS_CardinalityType DEF UpTo
            <4> QED
                BY <3>2, <4>1 DEF Unfolds
        <3>6. \A s \in UpTo(S, n) : Unfolds(h, f, s)
            BY <3>3, <3>5 DEF Unfolds
        <3> QED
            BY <3>4, <3>6
    <2> QED
        BY <2>1, <2>2
<1>2. S \in Good
    <2> HIDE DEF Good
    <2> QED
        BY <1>1, SubsetInduction
<1>3. UpTo(S, Cardinality(S)) = SUBSET S
    BY FS_Subset DEF UpTo
<1> QED
    BY <1>2, <1>3

(* The recursive function by which a fold is defined.                      *)
IsIter(g, f, S) ==
    g = [s \in SUBSET S |-> IF s = {} THEN 0 ELSE f[Pick(s)] + g[s \ {Pick(s)}]]
Iter(f, S) == CHOOSE g : IsIter(g, f, S)

(* A sum is its value.                                                     *)
LEMMA TotalIsIter ==
   ASSUME NEW f, NEW S
   PROVE  Total(f, S) = Iter(f, S)[S]
BY DEF Total, MapThenSumSet, MapThenFoldSet, IsIter, Iter, Pick

(* It unfolds as it is written.                                            *)
LEMMA IterSums ==
    ASSUME NEW S, IsFiniteSet(S), NEW f, \A x \in S : f[x] \in Int
    PROVE  \A s \in SUBSET S : Unfolds(Iter(f, S), f, s)
<1>1. PICK g \in [SUBSET S -> Int] : \A s \in SUBSET S : Unfolds(g, f, s)
    BY PartialSums
<1>2. IsIter(g, f, S)
    BY <1>1 DEF IsIter, Unfolds
<1>3. IsIter(Iter(f, S), f, S)
    BY <1>2 DEF Iter
<1> QED
    BY <1>3 DEF IsIter, Unfolds

(* Sums over subsets do not depend on the set they were begun in.          *)
LEMMA IterAgrees ==
    ASSUME NEW S, IsFiniteSet(S), NEW f, \A x \in S : f[x] \in Int, NEW R \in SUBSET S
    PROVE  \A s \in SUBSET R : Iter(f, R)[s] = Iter(f, S)[s] /\ Iter(f, R)[s] \in Int
<1> DEFINE Good == {s \in SUBSET R : Iter(f, R)[s] = Iter(f, S)[s] /\ Iter(f, R)[s] \in Int}
<1>1. IsFiniteSet(R)
    BY FS_Subset
<1>2. /\ \A s \in SUBSET S : Unfolds(Iter(f, S), f, s)
      /\ \A s \in SUBSET R : Unfolds(Iter(f, R), f, s)
    BY <1>1, IterSums
<1>3. ASSUME NEW T \in SUBSET R, \A U \in SUBSET T : U # T => U \in Good
      PROVE  T \in Good
    <2>0. /\ Unfolds(Iter(f, S), f, T)
          /\ Unfolds(Iter(f, R), f, T)
        BY <1>2
    <2>1. CASE T = {}
        BY <2>0, <2>1 DEF Unfolds
    <2>2. CASE T # {}
        <3>1. T \ {Pick(T)} \in Good /\ f[Pick(T)] \in Int
            BY <1>3, <2>2, PickIn
        <3> QED
            BY <2>0, <2>2, <3>1 DEF Unfolds
    <2> QED
        BY <2>1, <2>2
<1>4. \A T \in SUBSET R : T \in Good
    <2> HIDE DEF Good
    <2> QED
        BY <1>1, <1>3, SubsetInduction
<1> QED
    BY <1>4

(* Nothing sums to zero.                                                   *)
LEMMA TotalEmpty == ASSUME NEW f PROVE Total(f, {}) = 0
<1>1. Unfolds(Iter(f, {}), f, {})
    BY FS_EmptySet, IterSums
<1> QED
    BY <1>1, TotalIsIter DEF Unfolds

(* A sum unfolds.                                                          *)
LEMMA TotalStep ==
    ASSUME NEW S, IsFiniteSet(S), NEW f, \A x \in S : f[x] \in Int, S # {}
    PROVE  Total(f, S) = f[Pick(S)] + Total(f, S \ {Pick(S)})
<1>1. Iter(f, S)[S] = f[Pick(S)] + Iter(f, S)[S \ {Pick(S)}]
    BY IterSums DEF Unfolds
<1>2. Iter(f, S \ {Pick(S)})[S \ {Pick(S)}] = Iter(f, S)[S \ {Pick(S)}]
    BY IterAgrees
<1> QED
    BY <1>1, <1>2, TotalIsIter

(* A sum of integers is an integer.                                        *)
LEMMA TotalInt ==
    ASSUME NEW S, IsFiniteSet(S), NEW f, \A x \in S : f[x] \in Int
    PROVE  Total(f, S) \in Int
BY IterAgrees, TotalIsIter

(* A sum does not depend on the order in which it is taken.                *)
LEMMA TotalRemove ==
    ASSUME NEW S, IsFiniteSet(S), NEW f, \A x \in S : f[x] \in Int, NEW x \in S
    PROVE  Total(f, S) = f[x] + Total(f, S \ {x})
<1> DEFINE Good == {T \in SUBSET S : \A y \in T : Total(f, T) = f[y] + Total(f, T \ {y})}
<1>1. ASSUME NEW T \in SUBSET S, \A U \in SUBSET T : U # T => U \in Good
      PROVE  T \in Good
    <2> SUFFICES ASSUME NEW y \in T PROVE Total(f, T) = f[y] + Total(f, T \ {y})
        OBVIOUS
    <2> DEFINE z == Pick(T)
    <2>1. IsFiniteSet(T)
        BY FS_Subset
    <2>2. z \in T
        BY PickIn
    <2>3. Total(f, T) = f[z] + Total(f, T \ {z})
        BY <2>1, TotalStep
    <2>4. CASE y = z
        BY <2>3, <2>4
    <2>5. CASE y # z
        <3>1. Total(f, T \ {z}) = f[y] + Total(f, (T \ {z}) \ {y})
            BY <1>1, <2>2, <2>5
        <3>2. Total(f, T \ {y}) = f[z] + Total(f, (T \ {y}) \ {z})
            BY <1>1, <2>2, <2>5
        <3>3. (T \ {z}) \ {y} = (T \ {y}) \ {z}
            OBVIOUS
        <3>4. Total(f, (T \ {z}) \ {y}) \in Int
            BY <2>1, FS_Subset, TotalInt
        <3>5. f[y] \in Int /\ f[z] \in Int
            BY <2>2
        <3>6. Total(f, T \ {y}) = f[z] + Total(f, (T \ {z}) \ {y})
            BY <3>2, <3>3
        <3> HIDE DEF z, Good
        <3> QED
            BY <2>3, <3>1, <3>4, <3>5, <3>6
    <2> QED
        BY <2>4, <2>5
<1>2. S \in Good
    <2> HIDE DEF Good
    <2> QED
        BY <1>1, SubsetInduction
<1> QED
    BY <1>2

(* It depends on the summands only.                                        *)
LEMMA TotalSame ==
    ASSUME NEW S, IsFiniteSet(S), NEW f, NEW g,
           \A x \in S : f[x] \in Int /\ g[x] = f[x]
    PROVE  Total(g, S) = Total(f, S)
<1> DEFINE Good == {T \in SUBSET S : Total(g, T) = Total(f, T)}
<1>1. ASSUME NEW T \in SUBSET S, \A U \in SUBSET T : U # T => U \in Good
      PROVE  T \in Good
    <2>1. CASE T = {}
        BY <2>1, TotalEmpty
    <2>2. CASE T # {}
        <3>1. PICK x : x \in T
            BY <2>2
        <3>2. Total(f, T) = f[x] + Total(f, T \ {x})
            BY <3>1, FS_Subset, TotalRemove
        <3>3. Total(g, T) = g[x] + Total(g, T \ {x})
            BY <3>1, FS_Subset, TotalRemove
        <3> QED
            BY <1>1, <3>1, <3>2, <3>3
    <2> QED
        BY <2>1, <2>2
<1>2. S \in Good
    <2> HIDE DEF Good
    <2> QED
        BY <1>1, SubsetInduction
<1> QED
    BY <1>2

(* One summand changes, and the sum by as much.                            *)
LEMMA TotalChange ==
    ASSUME NEW S, IsFiniteSet(S), NEW f, NEW g, NEW x \in S,
           \A y \in S : f[y] \in Int, g[x] \in Int,
           \A y \in S \ {x} : g[y] = f[y]
    PROVE  Total(g, S) = Total(f, S) + g[x] - f[x]
<1>1. Total(f, S) = f[x] + Total(f, S \ {x})
    BY TotalRemove
<1>2. Total(g, S) = g[x] + Total(g, S \ {x})
    BY TotalRemove
<1>3. IsFiniteSet(S \ {x}) /\ Total(f, S \ {x}) \in Int
    BY FS_Subset, TotalInt
<1>4. Total(g, S \ {x}) = Total(f, S \ {x})
    BY <1>3, TotalSame
<1> QED
    BY <1>1, <1>2, <1>3, <1>4

(* Zeros sum to zero.                                                      *)
LEMMA TotalZero ==
    ASSUME NEW S, IsFiniteSet(S), NEW f, \A x \in S : f[x] = 0
    PROVE  Total(f, S) = 0
<1> DEFINE Good == {T \in SUBSET S : Total(f, T) = 0}
<1>1. ASSUME NEW T \in SUBSET S, \A U \in SUBSET T : U # T => U \in Good
      PROVE  T \in Good
    <2>1. CASE T = {}
        BY <2>1, TotalEmpty
    <2>2. CASE T # {}
        <3>1. PICK x : x \in T
            BY <2>2
        <3>2. Total(f, T) = f[x] + Total(f, T \ {x})
            BY <3>1, FS_Subset, TotalRemove
        <3> QED
            BY <1>1, <3>1, <3>2
    <2> QED
        BY <2>1, <2>2
<1>2. S \in Good
    <2> HIDE DEF Good
    <2> QED
        BY <1>1, SubsetInduction
<1> QED
    BY <1>2

(* What adds nothing may be left out.                                      *)
LEMMA TotalSupport ==
    ASSUME NEW S, IsFiniteSet(S), NEW R \in SUBSET S, NEW f, NEW g,
           \A x \in R : f[x] \in Int /\ g[x] = f[x],
           \A x \in S \ R : g[x] = 0
    PROVE  Total(g, S) = Total(f, R)
<1> DEFINE Good == {T \in SUBSET S : Total(g, T) = Total(f, T \cap R)}
<1>0. \A T \in SUBSET S : IsFiniteSet(T) /\ IsFiniteSet(T \cap R) /\ \A x \in T : g[x] \in Int
    BY FS_Subset
<1>1. ASSUME NEW T \in SUBSET S, \A U \in SUBSET T : U # T => U \in Good
      PROVE  T \in Good
    <2>1. CASE T = {}
        <3>1. T \cap R = {}
            BY <2>1
        <3> QED
            BY <2>1, <3>1, TotalEmpty
    <2>2. CASE T # {}
        <3>1. PICK x : x \in T
            BY <2>2
        <3>2. Total(g, T) = g[x] + Total(g, T \ {x})
            BY <1>0, <3>1, TotalRemove
        <3>3. Total(g, T \ {x}) = Total(f, (T \ {x}) \cap R) /\ Total(g, T \ {x}) \in Int
            BY <1>0, <1>1, <3>1, TotalInt
        <3>4. CASE x \in R
            <4>1. x \in T \cap R /\ (T \ {x}) \cap R = (T \cap R) \ {x}
                BY <3>1, <3>4
            <4>2. Total(f, T \cap R) = f[x] + Total(f, (T \cap R) \ {x})
                BY <1>0, <4>1, TotalRemove
            <4> QED
                BY <3>2, <3>3, <3>4, <4>1, <4>2
        <3>5. CASE x \notin R
            <4>1. (T \ {x}) \cap R = T \cap R /\ g[x] = 0
                BY <3>1, <3>5
            <4>2. Total(g, T \ {x}) = Total(f, T \cap R)
                BY <3>3, <4>1
            <4>3. Total(g, T) = Total(g, T \ {x})
                BY <3>2, <3>3, <4>1
            <4> QED
                BY <4>2, <4>3
        <3> QED
            BY <3>4, <3>5
    <2> QED
        BY <2>1, <2>2
<1>2. S \in Good
    <2> HIDE DEF Good
    <2> QED
        BY <1>1, SubsetInduction
<1>3. S \cap R = R
    OBVIOUS
<1> QED
    BY <1>2, <1>3

(* Of natural numbers, a part of the sum is not more than the sum.         *)
LEMMA TotalPart ==
    ASSUME NEW S, IsFiniteSet(S), NEW f, \A x \in S : f[x] \in Nat, NEW R \in SUBSET S
    PROVE  Total(f, R) \in Nat /\ Total(f, R) <= Total(f, S)
<1> DEFINE Good == {T \in SUBSET S : \A U \in SUBSET T :
                        Total(f, U) \in Nat /\ Total(f, U) <= Total(f, T)}
<1>1. ASSUME NEW T \in SUBSET S, \A U \in SUBSET T : U # T => U \in Good
      PROVE  T \in Good
    <2>1. CASE T = {}
        BY <2>1, TotalEmpty
    <2>2. CASE T # {}
        <3>1. PICK x : x \in T
            BY <2>2
        <3>2. Total(f, T) = f[x] + Total(f, T \ {x})
            BY <3>1, FS_Subset, TotalRemove
        <3>3. T \ {x} \in Good
            BY <1>1, <3>1
        <3>4. Total(f, T) \in Nat
            BY <3>1, <3>2, <3>3
        <3> SUFFICES ASSUME NEW U \in SUBSET T, U # T
                     PROVE  Total(f, U) \in Nat /\ Total(f, U) <= Total(f, T)
            BY <3>4
        <3>5. PICK y : y \in T \ U
            OBVIOUS
        <3>6. Total(f, T) = f[y] + Total(f, T \ {y})
            <4>1. IsFiniteSet(T) /\ (\A z \in T : f[z] \in Int) /\ y \in T
                BY <3>5, FS_Subset
            <4> QED
                BY <4>1, TotalRemove
        <3>7. T \ {y} \in Good /\ U \in SUBSET (T \ {y})
            BY <1>1, <3>5
        <3>8. Total(f, T \ {y}) \in Nat /\ Total(f, U) \in Nat /\ Total(f, U) <= Total(f, T \ {y})
            BY <3>7
        <3> QED
            BY <3>5, <3>6, <3>8
    <2> QED
        BY <2>1, <2>2
<1>2. S \in Good
    <2> HIDE DEF Good
    <2> QED
        BY <1>1, SubsetInduction
<1> QED
    BY <1>2

-----------------------------------------------------------------------------
(* Square roots.                                                           *)

(* Every amount has one rounded square root, and it is an amount.           *)
LEMMA ISqrtFacts ==
    ASSUME NEW n \in Amount
    PROVE  /\ \E r \in Amount : IsISqrt(r, n)
           /\ \A r \in Nat, s \in Nat : IsISqrt(r, n) /\ IsISqrt(s, n) => r = s
<1> DEFINE Above == {k \in Nat : n < k * k}
           less == OpToRel(<, Nat)
<1>1. n \in Nat /\ n <= U128_MAX /\ U128_MAX \in Nat
    BY U128Assumption DEF Amount
<1>2. n + 1 \in Above
    <2>1. (n + 1) * (n + 1) = n * n + 2 * n + 1 /\ n * n \in Nat
        BY <1>1
    <2> QED
        BY <1>1, <2>1
<1>3. IsWellFoundedOn(less, Nat)
    BY NatLessThanWellFounded
<1>4. \A j \in Nat, k \in Nat : <<j, k>> \in less <=> j < k
    BY DEF OpToRel
<1> HIDE DEF less
<1>5. PICK k \in Above : \A j \in Above : <<j, k>> \notin less
    <2>1. Above \subseteq Nat /\ Above # {}
        BY <1>2
    <2> HIDE DEF Above
    <2> QED
        BY <1>3, <2>1, WFMin
<1>6. k \in Nat /\ n < k * k /\ k > 0
    BY <1>1, <1>5
<1>7. k - 1 \in Nat /\ (k - 1) * (k - 1) <= n
    <2>1. k - 1 \in Nat /\ k - 1 < k
        BY <1>6
    <2>2. k - 1 \notin Above
        BY <1>4, <1>5, <1>6, <2>1
    <2>3. ~(n < (k - 1) * (k - 1)) /\ (k - 1) * (k - 1) \in Nat
        BY <2>1, <2>2
    <2> QED
        BY <1>1, <2>1, <2>3
<1>8. IsISqrt(k - 1, n)
    BY <1>6, <1>7 DEF IsISqrt
<1>9. k - 1 \in Amount
    <2>1. k - 1 <= (k - 1) * (k - 1)
        <3>1. k - 1 = 0 \/ k - 1 >= 1
            BY <1>7
        <3> QED
            BY <1>7, <3>1, MulMonotone
    <2> QED
        BY <1>1, <1>7, <2>1 DEF Amount
<1>10. ASSUME NEW r \in Nat, NEW s \in Nat, r * r <= n, n < (s + 1) * (s + 1)
       PROVE  r <= s
    <2> SUFFICES ASSUME s < r PROVE FALSE
        OBVIOUS
    <2>1. s + 1 \in Nat /\ s + 1 <= r
        OBVIOUS
    <2>2. (s + 1) * (s + 1) <= r * r
        BY <2>1, MulMonotone2
    <2>3. (s + 1) * (s + 1) \in Nat /\ r * r \in Nat
        OBVIOUS
    <2> QED
        BY <1>1, <1>10, <2>2, <2>3
<1>11. ASSUME NEW r \in Nat, NEW s \in Nat, IsISqrt(r, n), IsISqrt(s, n)
       PROVE  r = s
    <2>1. r <= s /\ s <= r
        BY <1>10, <1>11 DEF IsISqrt
    <2> QED
        BY <2>1
<1> QED
    BY <1>8, <1>9, <1>11
=============================================================================
