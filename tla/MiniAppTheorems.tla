-------------------------- MODULE MiniAppTheorems ---------------------------
(***************************************************************************)
(* Proofs about the mini-app: the swap card, for every pool, amount, tier,   *)
(* slippage and precision of the doubles it computes in, and the job pump,  *)
(* for any number of clicks, any time of the failsafe and a bridge that may *)
(* or may not give up.                                                     *)
(***************************************************************************)
EXTENDS SwapCard, JobPump, ArithmeticTheorems

-----------------------------------------------------------------------------
(* The swap card.  The quote that is left when the timer has run out is for *)
(* what the card shows, and the bound taken off a quote is neither below    *)
(* what the slippage allows nor beyond reach.                               *)

-----------------------------------------------------------------------------
(* Doubles.  An operation is off by one part in F64_EXACT.  The parts of a  *)
(* formula add up: the curve is within 12 of what it would be over the      *)
(* reals, a bound of the card within 17 and one of the CLI within 3, all of *)
(* them within the 32 of Drift.                                            *)

(* The constants of the doubles are natural numbers.                       *)
LEMMA F64Facts ==
    /\ F64_EXACT \in Nat /\ F64_EXACT >= 256
    /\ F64_ONE \in Nat /\ F64_ONE >= 2 * F64_EXACT
    /\ \A p \in F64_STEPS : p \in Nat \ {0}
    /\ U128_MAX \in Nat
  BY F64Assumption, U128Assumption

(* Rounding to the nearest integer is off by half at most.                 *)
LEMMA HalfEvenFacts ==
    ASSUME NEW n \in Nat, NEW d \in Nat \ {0}
    PROVE  /\ HalfEven(n, d) \in Nat
           /\ 2 * (HalfEven(n, d) * d) <= 2 * n + d
           /\ 2 * n <= 2 * (HalfEven(n, d) * d) + d
<1> DEFINE low == n \div d
           rest == n % d
<1>1. low \in Nat /\ rest \in Nat /\ rest < d /\ n = low * d + rest
  BY Z3
<1>2. \/ HalfEven(n, d) = low /\ 2 * rest <= d
      \/ HalfEven(n, d) = low + 1 /\ 2 * rest >= d
  <2> HIDE DEF low, rest
  <2>1. HalfEven(n, d) = IF 2 * rest < d \/ (2 * rest = d /\ low % 2 = 0) THEN low ELSE low + 1
    BY DEF HalfEven, low, rest
  <2> QED
    BY <2>1, <1>1
<1> HIDE DEF low, rest
<1>3. low * d \in Nat /\ (low + 1) * d = low * d + d
  BY <1>1
<1> QED
  BY <1>1, <1>2, <1>3

(* What the model computes is no more than this, in smallest doubles.       *)
Top == 4 * U128_MAX * U128_MAX * F64_ONE

(* There is a double of that size.                                         *)
LEMMA TopIsDouble ==
    /\ Top \in Nat
    /\ \E p \in F64_STEPS : Top <= p * F64_EXACT
<1> DEFINE U == U128_MAX
           E == F64_EXACT
           O == F64_ONE
<1>1. U \in Nat /\ E \in Nat /\ O \in Nat
  BY F64Facts
<1>2. PICK q \in F64_STEPS, p \in F64_STEPS : U <= q * E /\ 4 * q * U * O <= p
  BY F64Assumption
<1>3. q \in Nat /\ p \in Nat
  BY F64Facts
<1> HIDE DEF U, E, O
<1>4. 4 * U * O \in Nat /\ q * E \in Nat
  BY <1>1, <1>3
<1>5. U * (4 * U * O) <= (q * E) * (4 * U * O)
  BY <1>1, <1>2, <1>4, MulMonotone
<1>6. (4 * q * U * O) * E <= p * E
  <2>1. 4 * q * U * O \in Nat
    BY <1>1, <1>3
  <2> QED
    BY <2>1, <1>1, <1>2, <1>3, MulMonotone
<1>7. Top = U * (4 * U * O) /\ (q * E) * (4 * U * O) = (4 * q * U * O) * E
  BY <1>1, <1>3, Z3 DEF Top, U, O
<1>8. U * (4 * U * O) \in Nat /\ (q * E) * (4 * U * O) \in Nat /\ p * E \in Nat
  BY <1>1, <1>3, <1>4
<1>9. Top \in Nat /\ Top <= p * E
  BY <1>5, <1>6, <1>7, <1>8
<1> QED
  BY <1>9 DEF E

(* The step of a result is the least that reaches it.                       *)
LEMMA StepFacts ==
    ASSUME NEW n \in Nat, NEW d \in Nat \ {0}, n <= d * Top
    PROVE  /\ Step(n, d) \in F64_STEPS
           /\ n <= d * (Step(n, d) * F64_EXACT)
           /\ Step(n, d) # 1 => d * (Step(n, d) * F64_EXACT) < 2 * n
<1> DEFINE E == F64_EXACT
           above == CeilDiv(n, d)
           Reaches == {p \in F64_STEPS : above <= p * E}
           Fit(p) == above <= p * E /\ (p # 1 => above > (p \div 2) * E)
           less == OpToRel(<, Nat)
<1>1. E \in Nat /\ above \in Nat /\ \A p \in F64_STEPS : p \in Nat \ {0}
  BY F64Facts, CeilDivFacts
<1>2. \A k \in Nat : above <= k <=> n <= k * d
  BY CeilDivAtMost
<1>3. Reaches # {}
  <2>1. PICK p \in F64_STEPS : Top \in Nat /\ Top <= p * E
    BY TopIsDouble
  <2>2. Top * d <= (p * E) * d
    BY <2>1, <1>1, MulMonotone
  <2>3. p * E \in Nat /\ Top * d = d * Top /\ (p * E) * d \in Nat /\ d * Top \in Nat
    BY <2>1, <1>1
  <2>4. n <= (p * E) * d
    BY <2>2, <2>3
  <2>5. above <= p * E
    BY <2>3, <2>4, <1>2
  <2> QED
    BY <2>5
<1>4. PICK p \in Reaches : \A q \in Reaches : <<q, p>> \notin less
  <2>1. Reaches \subseteq Nat
    BY <1>1
  <2>2. IsWellFoundedOn(less, Nat)
    BY NatLessThanWellFounded
  <2> HIDE DEF Reaches, less
  <2> QED
    BY <1>3, <2>1, <2>2, WFMin
<1>5. \A j \in Nat, k \in Nat : <<j, k>> \in less <=> j < k
  BY DEF OpToRel
<1> HIDE DEF less, above
<1>6. p \in F64_STEPS /\ p \in Nat \ {0} /\ above <= p * E
  BY <1>1, <1>4
<1>7. ASSUME p # 1
      PROVE  above > (p \div 2) * E
  <2>1. PICK half \in F64_STEPS : p = 2 * half
    BY <1>6, <1>7, F64Assumption
  <2>2. half \in Nat \ {0} /\ half < p /\ p \div 2 = half
    BY <2>1, <1>1
  <2>3. half \notin Reaches
    BY <2>1, <2>2, <1>4, <1>5, <1>6
  <2>4. ~(above <= half * E) /\ half * E \in Nat
    BY <2>1, <2>2, <2>3, <1>1
  <2> QED
    BY <2>2, <2>4, <1>1
<1>8. Step(n, d) \in F64_STEPS /\ Fit(Step(n, d))
  <2>1. Fit(p)
    BY <1>6, <1>7
  <2>2. Step(n, d) = CHOOSE x \in F64_STEPS : Fit(x)
    BY DEF Step, above
  <2> HIDE DEF Fit
  <2> QED
    BY <2>1, <2>2, <1>6
<1> DEFINE s == Step(n, d)
<1> HIDE DEF s
<1>9. s \in F64_STEPS /\ s \in Nat \ {0} /\ s * E \in Nat
  BY <1>1, <1>8 DEF s
<1>10. n <= (s * E) * d
  BY <1>2, <1>8, <1>9 DEF s
<1>11. ASSUME s # 1
       PROVE  d * (s * E) < 2 * n
  <2>1. PICK half \in F64_STEPS : s = 2 * half
    BY <1>9, <1>11, F64Assumption
  <2>2. half \in Nat \ {0} /\ s \div 2 = half /\ half * E \in Nat
    BY <2>1, <1>1
  <2>3. ~(above <= half * E)
    BY <2>2, <1>1, <1>8, <1>11 DEF s
  <2>4. ~(n <= (half * E) * d)
    BY <2>2, <2>3, <1>2
  <2>5. d * (s * E) = 2 * ((half * E) * d)
    BY <2>1, <2>2, <1>1, Z3
  <2>6. (half * E) * d \in Nat
    BY <2>2
  <2> QED
    BY <2>4, <2>5, <2>6
<1>12. (s * E) * d = d * (s * E)
  BY <1>9
<1> QED
  BY <1>9, <1>10, <1>11, <1>12 DEF s, E

(* The nearest double is off by a part in 2 * F64_EXACT, or by half of the   *)
(* smallest double.                                                        *)
LEMMA NearestFacts ==
    ASSUME NEW n \in Nat, NEW d \in Nat \ {0}, n <= d * Top
    PROVE  LET y == Nearest(n, d)
               E == F64_EXACT
           IN  /\ y \in Nat
               /\ \E off \in {2 * n, d * E} :
                     /\ 2 * (E * (y * d)) <= 2 * (E * n) + off
                     /\ 2 * (E * n) <= 2 * (E * (y * d)) + off
<1> DEFINE E == F64_EXACT
           p == Step(n, d)
           h == HalfEven(n, d * p)
           y == Nearest(n, d)
<1>1. E \in Nat /\ p \in Nat \ {0} /\ (p # 1 => d * (p * E) < 2 * n)
  BY F64Facts, StepFacts
<1> HIDE DEF p
<1>2. d * p \in Nat \ {0}
  <2>1. d * p \in Nat
    BY <1>1
  <2>2. d * p # 0
    BY <1>1, Z3
  <2> QED
    BY <2>1, <2>2
<1>3. /\ h \in Nat
      /\ 2 * (h * (d * p)) <= 2 * n + d * p
      /\ 2 * n <= 2 * (h * (d * p)) + d * p
  BY <1>2, HalfEvenFacts
<1>4. y = h * p
  BY DEF Nearest, p
<1> HIDE DEF h, y
<1>5. y \in Nat /\ h * (d * p) = y * d
  BY <1>1, <1>3, <1>4, Z3
<1> DEFINE yd == y * d
           dp == d * p
<1>6. yd \in Nat /\ dp \in Nat /\ 2 * yd <= 2 * n + dp /\ 2 * n <= 2 * yd + dp
  BY <1>2, <1>3, <1>5
<1>7. dp * E \in Nat /\ dp * E = d * (p * E)
  BY <1>1, Z3
<1> HIDE DEF yd, dp
<1>8. /\ 2 * (E * yd) <= 2 * (E * n) + dp * E
      /\ 2 * (E * n) <= 2 * (E * yd) + dp * E
  <2>1. (2 * yd) * E <= (2 * n + dp) * E
    BY <1>1, <1>6, MulMonotone
  <2>2. (2 * n) * E <= (2 * yd + dp) * E
    BY <1>1, <1>6, MulMonotone
  <2>3. /\ (2 * yd) * E = 2 * (E * yd) /\ (2 * n + dp) * E = 2 * (E * n) + dp * E
        /\ (2 * n) * E = 2 * (E * n) /\ (2 * yd + dp) * E = 2 * (E * yd) + dp * E
    BY <1>1, <1>6, Z3
  <2> QED
    BY <2>1, <2>2, <2>3
<1>9. E * yd \in Nat /\ E * n \in Nat
  BY <1>1, <1>6
<1>10. CASE p = 1
  <2>1. dp * E = d * E
    BY <1>10 DEF dp
  <2>2. /\ 2 * (E * yd) <= 2 * (E * n) + d * E
        /\ 2 * (E * n) <= 2 * (E * yd) + d * E
    BY <2>1, <1>8
  <2> QED
    BY <2>2, <1>5 DEF yd, y, E
<1>11. CASE p # 1
  <2>1. dp * E <= 2 * n
    BY <1>1, <1>7, <1>11
  <2>2. /\ 2 * (E * yd) <= 2 * (E * n) + 2 * n
        /\ 2 * (E * n) <= 2 * (E * yd) + 2 * n
    BY <2>1, <1>7, <1>8, <1>9
  <2> QED
    BY <2>2, <1>5 DEF yd, y, E
<1> QED
  BY <1>10, <1>11

(* What is at most 1.0 stays at most 1.0.                                   *)
LEMMA NearestAtMostOne ==
    ASSUME NEW n \in Nat, NEW d \in Nat \ {0}, n <= d * Top, n <= F64_ONE * d
    PROVE  Nearest(n, d) <= F64_ONE
<1> DEFINE E == F64_EXACT
           O == F64_ONE
           p == Step(n, d)
           h == HalfEven(n, d * p)
<1>1. E \in Nat /\ E >= 256 /\ O \in Nat /\ O >= 2 * E
  BY F64Facts
<1>2. p \in F64_STEPS /\ p \in Nat \ {0} /\ (p # 1 => d * (p * E) < 2 * n)
  BY F64Facts, StepFacts
<1>3. Nearest(n, d) = h * p
  BY DEF Nearest
<1> HIDE DEF E, O, p
<1>4. p <= O
  <2>1. CASE p = 1
    BY <2>1, <1>1
  <2>2. CASE p # 1
    <3>1. (p * E) * d < (2 * O) * d
      <4>1. (p * E) * d = d * (p * E) /\ (2 * O) * d = 2 * (O * d)
        BY <1>1, <1>2, Z3
      <4>2. d * (p * E) \in Nat /\ O * d \in Nat
        BY <1>1, <1>2
      <4> QED
        BY <4>1, <4>2, <1>2, <2>2 DEF O
    <3>2. p * E < 2 * O
      <4>1. p * E \in Nat /\ 2 * O \in Nat
        BY <1>1, <1>2
      <4> QED
        BY <4>1, <3>1, MulCancel
    <3>3. p * 2 <= p * E
      <4>1. 2 * p <= E * p
        BY <1>1, <1>2, MulMonotone
      <4> QED
        BY <4>1, <1>1, <1>2
    <3> QED
      BY <3>2, <3>3, <1>1, <1>2
  <2> QED
    BY <2>1, <2>2
<1>5. PICK k \in F64_STEPS : O = k * p
  BY <1>2, <1>4, F64Assumption DEF O
<1>6. k \in Nat
  BY F64Facts
<1>7. d * p \in Nat \ {0} /\ n <= k * (d * p)
  <2>1. d * p \in Nat /\ O * d = k * (d * p)
    BY <1>2, <1>5, <1>6, Z3
  <2>2. d * p # 0
    BY <1>2, Z3
  <2> QED
    BY <2>1, <2>2 DEF O
<1>8. h \in Nat /\ h <= k
  <2> DEFINE e == d * p
  <2>1. e \in Nat \ {0} /\ n <= k * e
    BY <1>7
  <2>2. h \in Nat /\ 2 * (h * e) <= 2 * n + e
    BY <1>7, HalfEvenFacts
  <2> HIDE DEF e, h
  <2>3. (2 * h) * e < (2 * k + 2) * e
    <3>1. (2 * h) * e = 2 * (h * e) /\ (2 * k + 2) * e = 2 * (k * e) + 2 * e
      BY <2>1, <2>2, <1>6, Z3
    <3>2. h * e \in Nat /\ k * e \in Nat
      BY <2>1, <2>2, <1>6
    <3> QED
      BY <3>1, <3>2, <2>1, <2>2
  <2>4. 2 * h < 2 * k + 2
    <3>1. 2 * h \in Nat /\ 2 * k + 2 \in Nat
      BY <2>2, <1>6
    <3> QED
      BY <3>1, <2>1, <2>3, MulCancel
  <2> QED
    BY <2>2, <2>4, <1>6
<1> HIDE DEF h
<1>9. h * p <= k * p
  BY <1>2, <1>6, <1>8, MulMonotone
<1> QED
  BY <1>3, <1>5, <1>9 DEF O

-----------------------------------------------------------------------------
(* How far two amounts may be apart: each is at most the other, but for k   *)
(* parts in F64_EXACT.                                                     *)
Below(x, y, k) == x * (F64_EXACT - k) <= y * F64_EXACT
Near(x, y, k) == Below(x, y, k) /\ Below(y, x, k)

(* Parts add up.                                                           *)
LEMMA BelowTrans ==
    ASSUME NEW x \in Nat, NEW y \in Nat, NEW z \in Nat, NEW k \in Nat, NEW l \in Nat,
           k + l <= F64_EXACT, Below(x, y, k), Below(y, z, l)
    PROVE  Below(x, z, k + l)
<1> DEFINE E == F64_EXACT
           ek == E - k
           el == E - l
           ekl == E - (k + l)
<1>1. E \in Nat \ {0} /\ ek \in Nat /\ el \in Nat /\ ekl \in Nat
  BY F64Facts
<1>2. x * ek <= y * E /\ y * el <= z * E
  BY DEF Below
<1>3. ekl * E <= ek * el
  <2>1. ek * el = ekl * E + k * l
    BY <1>1, Z3
  <2>2. k * l \in Nat /\ ekl * E \in Nat
    BY <1>1
  <2> QED
    BY <2>1, <2>2
<1> HIDE DEF E, ek, el, ekl
<1>4. (x * ek) * el <= (y * E) * el
  <2>1. x * ek \in Nat /\ y * E \in Nat
    BY <1>1
  <2> QED
    BY <2>1, <1>1, <1>2, MulMonotone
<1>5. (y * el) * E <= (z * E) * E
  <2>1. y * el \in Nat /\ z * E \in Nat
    BY <1>1
  <2> QED
    BY <2>1, <1>1, <1>2, MulMonotone
<1>6. (ekl * E) * x <= (ek * el) * x
  <2>1. ekl * E \in Nat /\ ek * el \in Nat
    BY <1>1
  <2> QED
    BY <2>1, <1>3, MulMonotone
<1>7. (x * ekl) * E <= (z * E) * E
  <2>1. /\ (x * ek) * el = (ek * el) * x /\ (y * E) * el = (y * el) * E
        /\ (ekl * E) * x = (x * ekl) * E
    BY <1>1, Z3
  <2>2. (ek * el) * x \in Nat /\ (y * el) * E \in Nat /\ (z * E) * E \in Nat
        /\ (x * ekl) * E \in Nat
    BY <1>1
  <2> QED
    BY <2>1, <2>2, <1>4, <1>5, <1>6
<1>8. x * ekl <= z * E
  <2>1. x * ekl \in Nat /\ z * E \in Nat
    BY <1>1
  <2> QED
    BY <2>1, <1>1, <1>7, MulCancelLeq
<1> QED
  BY <1>8 DEF Below, E, ekl

(* A common factor does not matter.                                        *)
LEMMA BelowScale ==
    ASSUME NEW x \in Nat, NEW y \in Nat, NEW k \in Nat, NEW c \in Nat,
           k <= F64_EXACT, Below(x, y, k)
    PROVE  Below(x * c, y * c, k)
<1> DEFINE E == F64_EXACT
           ek == E - k
<1>1. E \in Nat /\ ek \in Nat /\ x * ek <= y * E
  BY F64Facts DEF Below
<1> HIDE DEF E, ek
<1>2. x * ek \in Nat /\ y * E \in Nat
  BY <1>1
<1>3. (x * ek) * c <= (y * E) * c
  BY <1>1, <1>2, MulMonotone
<1>4. (x * ek) * c = (x * c) * ek /\ (y * E) * c = (y * c) * E
  BY <1>1, Z3
<1>5. (x * c) * ek <= (y * c) * E
  BY <1>3, <1>4
<1> QED
  BY <1>5 DEF Below, E, ek

(* Nor does a positive one that is taken out.                              *)
LEMMA BelowCancel ==
    ASSUME NEW x \in Nat, NEW y \in Nat, NEW k \in Nat, NEW c \in Nat \ {0},
           k <= F64_EXACT, Below(x * c, y * c, k)
    PROVE  Below(x, y, k)
<1> DEFINE E == F64_EXACT
           ek == E - k
<1>1. E \in Nat /\ ek \in Nat /\ (x * c) * ek <= (y * c) * E
  BY F64Facts DEF Below
<1> HIDE DEF E, ek
<1>2. x * ek \in Nat /\ y * E \in Nat
  BY <1>1
<1>3. (x * ek) * c = (x * c) * ek /\ (y * E) * c = (y * c) * E
  BY <1>1, Z3
<1>4. (x * ek) * c <= (y * E) * c
  BY <1>1, <1>3
<1>5. x * ek <= y * E
  BY <1>2, <1>4, MulCancelLeq
<1> QED
  BY <1>5 DEF Below, E, ek

(* Sums, and more parts.                                                   *)
LEMMA BelowSum ==
    ASSUME NEW x \in Nat, NEW y \in Nat, NEW v \in Nat, NEW w \in Nat, NEW k \in Nat,
           k <= F64_EXACT, Below(x, y, k), Below(v, w, k)
    PROVE  Below(x + v, y + w, k)
<1> DEFINE E == F64_EXACT
           ek == E - k
<1>1. E \in Nat /\ ek \in Nat /\ x * ek <= y * E /\ v * ek <= w * E
  BY F64Facts DEF Below
<1> HIDE DEF E, ek
<1>2. (x + v) * ek = x * ek + v * ek /\ (y + w) * E = y * E + w * E
  BY <1>1
<1>3. x * ek \in Nat /\ v * ek \in Nat /\ y * E \in Nat /\ w * E \in Nat
  BY <1>1
<1>4. (x + v) * ek <= (y + w) * E
  BY <1>1, <1>2, <1>3
<1> QED
  BY <1>4 DEF Below, E, ek

(* What is below but for some parts is below but for more.                 *)
LEMMA BelowMore ==
    ASSUME NEW x \in Nat, NEW y \in Nat, NEW k \in Nat, NEW l \in Nat,
           k <= l, l <= F64_EXACT, Below(x, y, k)
    PROVE  Below(x, y, l)
<1> DEFINE E == F64_EXACT
           ek == E - k
           el == E - l
<1>1. E \in Nat /\ ek \in Nat /\ el \in Nat /\ el <= ek /\ x * ek <= y * E
  BY F64Facts DEF Below
<1> HIDE DEF E, ek, el
<1>2. el * x <= ek * x
  BY <1>1, MulMonotone
<1>3. el * x = x * el /\ ek * x = x * ek /\ x * el \in Nat /\ x * ek \in Nat /\ y * E \in Nat
  BY <1>1
<1>4. x * el <= y * E
  BY <1>1, <1>2, <1>3
<1> QED
  BY <1>4 DEF Below, E, el

(* What is at most an amount is below it without any.                      *)
LEMMA BelowAtMost ==
    ASSUME NEW x \in Nat, NEW y \in Nat, x <= y
    PROVE  Below(x, y, 0)
<1>1. x * F64_EXACT <= y * F64_EXACT
  BY F64Facts, MulMonotone
<1>2. F64_EXACT - 0 = F64_EXACT
  BY F64Facts
<1> QED
  BY <1>1, <1>2 DEF Below

(* Products.                                                               *)
LEMMA BelowProduct ==
    ASSUME NEW x \in Nat, NEW y \in Nat, NEW v \in Nat, NEW w \in Nat,
           NEW k \in Nat, NEW l \in Nat, k + l <= F64_EXACT, Below(x, y, k), Below(v, w, l)
    PROVE  Below(x * v, y * w, k + l)
<1>1. k <= F64_EXACT /\ l <= F64_EXACT
  BY F64Facts
<1>2. Below(x * v, y * v, k)
  BY <1>1, BelowScale
<1>3. Below(v * y, w * y, l)
  BY <1>1, BelowScale
<1>4. v * y = y * v /\ w * y = y * w /\ x * v \in Nat /\ y * v \in Nat /\ y * w \in Nat
  OBVIOUS
<1>5. Below(y * v, y * w, l)
  BY <1>3, <1>4
<1> QED
  BY <1>2, <1>4, <1>5, BelowTrans

(* Few parts are less than an eighth.                                       *)
LEMMA BelowHalf ==
    ASSUME NEW v \in Nat, NEW w \in Nat, NEW k \in 0 .. 17, Below(v, w, k)
    PROVE  7 * v <= 8 * w
<1> DEFINE E == F64_EXACT
           e == E - k
<1>1. E \in Nat \ {0} /\ e \in Nat /\ 7 * E <= 8 * e /\ v * e <= w * E
  BY F64Facts DEF Below
<1> HIDE DEF E, e
<1>2. (7 * E) * v <= (8 * e) * v
  BY <1>1, MulMonotone
<1>3. (8 * e) * v = 8 * (v * e) /\ (7 * E) * v = (7 * v) * E /\ (8 * w) * E = 8 * (w * E)
  BY <1>1, Z3
<1>4. v * e \in Nat /\ w * E \in Nat /\ (7 * v) * E \in Nat
  BY <1>1
<1>5. (7 * v) * E <= (8 * w) * E
  BY <1>1, <1>2, <1>3, <1>4
<1> QED
  BY <1>1, <1>5, MulCancelLeq

(* The same, of both sides.                                                *)
LEMMA NearTrans ==
    ASSUME NEW x \in Nat, NEW y \in Nat, NEW z \in Nat, NEW k \in Nat, NEW l \in Nat,
           k + l <= F64_EXACT, Near(x, y, k), Near(y, z, l)
    PROVE  Near(x, z, k + l)
<1>1. Below(x, z, k + l)
  BY BelowTrans DEF Near
<1>2. l + k <= F64_EXACT /\ l + k = k + l
  OBVIOUS
<1>3. Below(z, x, l + k)
  BY <1>2, BelowTrans DEF Near
<1> QED
  BY <1>1, <1>2, <1>3 DEF Near

(* A common factor of both.                                                *)
LEMMA NearScale ==
    ASSUME NEW x \in Nat, NEW y \in Nat, NEW k \in Nat, NEW c \in Nat,
           k <= F64_EXACT, Near(x, y, k)
    PROVE  Near(x * c, y * c, k)
  BY BelowScale DEF Near

(* One that is taken out.                                                  *)
LEMMA NearCancel ==
    ASSUME NEW x \in Nat, NEW y \in Nat, NEW k \in Nat, NEW c \in Nat \ {0},
           k <= F64_EXACT, Near(x * c, y * c, k)
    PROVE  Near(x, y, k)
  BY BelowCancel DEF Near

(* Sums.                                                                   *)
LEMMA NearSum ==
    ASSUME NEW x \in Nat, NEW y \in Nat, NEW v \in Nat, NEW w \in Nat, NEW k \in Nat,
           k <= F64_EXACT, Near(x, y, k), Near(v, w, k)
    PROVE  Near(x + v, y + w, k)
  BY BelowSum DEF Near

(* More parts.                                                             *)
LEMMA NearMore ==
    ASSUME NEW x \in Nat, NEW y \in Nat, NEW k \in Nat, NEW l \in Nat,
           k <= l, l <= F64_EXACT, Near(x, y, k)
    PROVE  Near(x, y, l)
  BY BelowMore DEF Near

(* Products.                                                               *)
LEMMA NearProduct ==
    ASSUME NEW x \in Nat, NEW y \in Nat, NEW v \in Nat, NEW w \in Nat,
           NEW k \in Nat, NEW l \in Nat, k + l <= F64_EXACT, Near(x, y, k), Near(v, w, l)
    PROVE  Near(x * v, y * w, k + l)
  BY BelowProduct DEF Near

(* Two amounts that are near are within an eighth of each other.           *)
LEMMA AtLeastHalf ==
    ASSUME NEW x \in Nat, NEW y \in Nat, NEW k \in 0 .. 17, Near(x, y, k)
    PROVE  7 * x <= 8 * y /\ 7 * y <= 8 * x
  BY BelowHalf DEF Near

(* A result that is not tiny is rounded by one part.                       *)
LEMMA NearRound ==
    ASSUME NEW n \in Nat, NEW d \in Nat \ {0}, n <= d * Top, d * F64_EXACT <= 2 * n
    PROVE  Near(n, Nearest(n, d) * d, 1)
<1> DEFINE E == F64_EXACT
           y == Nearest(n, d)
           yd == y * d
<1>1. E \in Nat /\ E >= 256
  BY F64Facts
<1>2. PICK off \in {2 * n, d * E} :
         /\ 2 * (E * yd) <= 2 * (E * n) + off
         /\ 2 * (E * n) <= 2 * (E * yd) + off
  BY NearestFacts
<1>3. y \in Nat /\ yd \in Nat
  <2>1. y \in Nat
    BY NearestFacts
  <2> HIDE DEF y
  <2> QED
    BY <2>1
<1>4. off <= 2 * n
  BY <1>2
<1> HIDE DEF yd
<1>5. off \in Nat
  BY <1>1, <1>2
<1> DEFINE en == E * n
           ey == E * yd
<1>6. en \in Nat /\ ey \in Nat /\ ey <= en + n /\ en <= ey + n
  BY <1>1, <1>2, <1>3, <1>4, <1>5
<1>7. n * (E - 1) = en - n /\ yd * (E - 1) = ey - yd
  BY <1>1, <1>3
<1>8. yd * E = ey /\ n * E = en
  BY <1>1, <1>3
<1> HIDE DEF en, ey
<1>9. n * (E - 1) <= yd * E
  BY <1>6, <1>7, <1>8
<1>10. yd * (E - 1) <= n * E
  <2>1. CASE yd >= n
    BY <2>1, <1>3, <1>6, <1>7, <1>8
  <2>2. CASE yd < n
    <3>1. yd * E <= n * E
      BY <2>2, <1>1, <1>3, MulMonotone
    <3> QED
      BY <3>1, <1>3, <1>6, <1>7, <1>8
  <2> QED
    BY <2>1, <2>2, <1>3
<1> QED
  BY <1>9, <1>10 DEF Near, Below, E, yd, y

(* Amounts there are, so that the largest is not 0.                         *)
LEMMA TopFacts ==
    /\ U128_MAX \in Nat \ {0}
    /\ Top \in Nat
    /\ \A n \in Nat : n <= 4 * U128_MAX => n * F64_ONE <= Top
    /\ F64_ONE <= Top
<1> DEFINE U == U128_MAX
           O == F64_ONE
<1>1. U \in Nat \ {0}
  <2>1. InitialCard.amount \in 1 .. U
    BY SwapCardAssumption
  <2> QED
    BY <2>1, F64Facts
<1>2. O \in Nat /\ Top = (4 * U * U) * O
  BY F64Facts DEF Top
<1>3. Top \in Nat
  BY <1>1, <1>2
<1> HIDE DEF U, O
<1>4. 4 * U <= 4 * U * U
  <2>1. 1 * (4 * U) <= U * (4 * U)
    BY <1>1, MulMonotone
  <2> QED
    BY <2>1, <1>1
<1>5. ASSUME NEW n \in Nat, n <= 4 * U
      PROVE  n * O <= Top
  <2>1. n <= 4 * U * U /\ 4 * U * U \in Nat
    BY <1>1, <1>4, <1>5
  <2> QED
    BY <2>1, <1>2, MulMonotone
<1>6. O <= Top
  <2>1. 1 <= 4 * U
    BY <1>1
  <2>2. 1 * O <= Top
    BY <2>1, <1>5
  <2> QED
    BY <2>2, <1>2
<1> QED
  BY <1>1, <1>3, <1>5, <1>6 DEF U, O

(* Amounts that differ by a part.                                          *)
LEMMA NearWithin ==
    ASSUME NEW x \in Nat, NEW y \in Nat,
           F64_EXACT * y <= F64_EXACT * x + x, F64_EXACT * x <= F64_EXACT * y + x
    PROVE  Near(x, y, 1)
<1> DEFINE E == F64_EXACT
           ex == E * x
           ey == E * y
<1>1. E \in Nat /\ E >= 256
  BY F64Facts
<1>2. ex \in Nat /\ ey \in Nat /\ ey <= ex + x /\ ex <= ey + x
  BY <1>1
<1>3. x * (E - 1) = ex - x /\ y * (E - 1) = ey - y /\ y * E = ey /\ x * E = ex
  BY <1>1
<1> HIDE DEF ex, ey
<1>4. x * (E - 1) <= y * E
  BY <1>2, <1>3
<1>5. y * (E - 1) <= x * E
  <2>1. CASE y >= x
    BY <2>1, <1>2, <1>3
  <2>2. CASE y < x
    <3>1. y * E <= x * E
      BY <2>2, <1>1, MulMonotone
    <3> QED
      BY <3>1, <1>2, <1>3
  <2> QED
    BY <2>1, <2>2
<1> QED
  BY <1>4, <1>5 DEF Near, Below, E

(* An integer as a double.                                                 *)
LEMMA AsDoubleFacts ==
    ASSUME NEW n \in 0 .. U128_MAX
    PROVE  /\ AsDouble(n) \in Nat
           /\ Near(n * F64_ONE, AsDouble(n), 1)
<1> DEFINE E == F64_EXACT
           O == F64_ONE
           y == Nearest(n * O, 1)
<1>1. n \in Nat /\ n <= 4 * U128_MAX /\ n * O \in Nat
  BY TopFacts, F64Facts
<1>2. n * O <= 1 * Top
  BY <1>1, TopFacts
<1>3. E \in Nat /\ E >= 256 /\ O \in Nat /\ O >= 2 * E
  BY F64Facts
<1>4. y \in Nat /\ y * 1 = y
  <2>1. y \in Nat
    BY <1>1, <1>2, NearestFacts
  <2> HIDE DEF y
  <2> QED
    BY <2>1
<1>5. CASE n = 0
  <2>1. PICK off \in {2 * (n * O), 1 * E} : 2 * (E * (y * 1)) <= 2 * (E * (n * O)) + off
    BY <1>1, <1>2, NearestFacts
  <2> HIDE DEF y
  <2>2. E * y \in Nat /\ 2 * (E * y) <= E
    BY <2>1, <1>3, <1>4, <1>5
  <2>3. y = 0
    <3>1. CASE y >= 1
      <4>1. 1 * E <= y * E
        BY <3>1, <1>3, <1>4, MulMonotone
      <4> QED
        BY <4>1, <2>2, <1>3, <1>4
    <3> QED
      BY <3>1, <1>4
  <2>4. n * O = 0 /\ E * y = 0
    BY <2>3, <1>3, <1>5
  <2>5. Near(n * O, y, 1)
    BY <2>3, <2>4, <1>3, NearWithin
  <2> QED
    BY <2>5, <1>4 DEF AsDouble, y
<1>6. CASE n # 0
  <2>1. 1 * O <= n * O
    BY <1>1, <1>3, <1>6, MulMonotone
  <2>2. 1 * E <= 2 * (n * O)
    BY <2>1, <1>1, <1>3
  <2>3. Near(n * O, y * 1, 1)
    BY <2>2, <1>1, <1>2, NearRound
  <2> QED
    BY <2>3, <1>4 DEF AsDouble, y
<1> QED
  BY <1>5, <1>6

(* What is left of 1.0, for a share of at most 1.0.                         *)
LEMMA ComplementFacts ==
    ASSUME NEW n \in Nat, NEW d \in Nat \ {0}, n <= d * F64_ONE
    PROVE  LET f == Nearest(n, d)
               g == FSub(F64_ONE, f)
           IN  /\ f \in Nat /\ f <= F64_ONE
               /\ g \in Nat /\ g <= F64_ONE
               /\ F64_EXACT * (d * F64_ONE - n) <= F64_EXACT * (g * d) + 2 * (d * F64_ONE)
               /\ 2 * n <= d * F64_ONE => Near(d * F64_ONE - n, g * d, 2)
<1> DEFINE E == F64_EXACT
           O == F64_ONE
           f == Nearest(n, d)
           g == FSub(O, f)
           dO == d * O
           fd == f * d
<1>1. E \in Nat /\ E >= 256 /\ O \in Nat /\ O >= 2 * E /\ Top \in Nat /\ O <= Top
  BY F64Facts, TopFacts
<1>2. dO \in Nat /\ dO <= d * Top /\ d * E \in Nat /\ d * E <= dO
  <2>1. O * d <= Top * d /\ E * d <= O * d
    BY <1>1, MulMonotone
  <2> QED
    BY <2>1, <1>1
<1>3. n <= d * Top /\ n <= O * d
  <2>1. d * Top \in Nat /\ O * d = dO
    BY <1>1
  <2> QED
    BY <2>1, <1>2
<1>4. f \in Nat /\ f <= O
  <2>1. f \in Nat
    BY <1>3, NearestFacts
  <2>2. f <= O
    BY <1>3, NearestAtMostOne
  <2> QED
    BY <2>1, <2>2
<1>5. PICK off \in {2 * n, d * E} :
         2 * (E * fd) <= 2 * (E * n) + off /\ 2 * (E * n) <= 2 * (E * fd) + off
  BY <1>3, NearestFacts
<1>6. off \in Nat /\ off <= 2 * dO /\ (2 * n <= dO => off <= dO)
  BY <1>1, <1>2, <1>5
<1> DEFINE c == O - f
<1>7. c \in Nat /\ c <= O /\ c <= 1 * Top /\ c <= O * 1 /\ g = Nearest(c, 1)
  <2>1. g = Nearest(c, 1)
    BY DEF FSub
  <2> HIDE DEF f, g
  <2> QED
    BY <2>1, <1>1, <1>4
<1> HIDE DEF f, c
<1>8. g \in Nat /\ g <= O /\ g * 1 = g
  <2>1. g \in Nat
    BY <1>7, NearestFacts
  <2>2. g <= O
    BY <1>7, NearestAtMostOne
  <2> HIDE DEF g
  <2> QED
    BY <2>1, <2>2
<1>9. PICK offg \in {2 * c, 1 * E} :
         2 * (E * c) <= 2 * (E * (g * 1)) + offg
  BY <1>7, NearestFacts
<1> HIDE DEF g
<1>10. offg \in Nat /\ offg <= 2 * O /\ E * c \in Nat /\ E * g \in Nat
  BY <1>1, <1>7, <1>8, <1>9
<1>11. E * c <= E * g + O
  BY <1>1, <1>8, <1>9, <1>10
<1>12. c * d = dO - fd /\ fd \in Nat /\ fd <= dO
  <2>1. f * d <= O * d
    BY <1>1, <1>4, MulMonotone
  <2>2. (O - f) * d = O * d - f * d
    BY <1>1, <1>4
  <2> QED
    BY <2>1, <2>2, <1>1, <1>4 DEF c
<1> HIDE DEF dO, fd
<1> DEFINE efd == E * fd
           en == E * n
           edO == E * dO
           ecd == E * (c * d)
           egd == E * (g * d)
<1>13. efd \in Nat /\ en \in Nat /\ edO \in Nat /\ egd \in Nat /\ ecd = edO - efd
       /\ E * (dO - n) = edO - en
  BY <1>1, <1>2, <1>7, <1>8, <1>12
<1>14. ecd <= egd + dO
  <2>1. (E * c) * d <= (E * g + O) * d
    BY <1>10, <1>11, <1>1, MulMonotone
  <2>2. (E * c) * d = ecd /\ (E * g + O) * d = egd + dO
    BY <1>1, <1>7, <1>8, Z3 DEF dO
  <2> QED
    BY <2>1, <2>2
<1>15. efd <= en + dO
  BY <1>2, <1>5, <1>6, <1>13
<1>16. E * (dO - n) <= egd + 2 * dO
  BY <1>2, <1>13, <1>14, <1>15
<1>17. ASSUME 2 * n <= dO
       PROVE  Near(dO - n, g * d, 2)
  <2> DEFINE t == dO - n
  <2>1. t \in Nat /\ dO <= 2 * t
    BY <1>2, <1>17
  <2>2. 2 * efd <= 2 * en + dO /\ 2 * en <= 2 * efd + dO
    BY <1>2, <1>5, <1>6, <1>13, <1>17
  <2>3. E * (c * d) <= E * t + t /\ E * t <= E * (c * d) + t
    <3>1. ecd = edO - efd /\ E * t = edO - en
      BY <1>13
    <3> HIDE DEF t, ecd, edO, efd, en
    <3>2. ecd <= E * t + t /\ E * t <= ecd + t
      BY <3>1, <2>1, <2>2, <1>2, <1>13
    <3> QED
      BY <3>2 DEF ecd
  <2>4. c * d \in Nat
    BY <1>7
  <2> HIDE DEF t
  <2>5. Near(t, c * d, 1)
    BY <2>1, <2>3, <2>4, NearWithin
  <2>6. 1 * E <= 2 * c
    <3>1. 2 * efd <= edO + dO
      <4>1. 2 * en <= edO
        <5>1. (2 * n) * E <= dO * E
          BY <1>1, <1>2, <1>17, MulMonotone
        <5>2. (2 * n) * E = 2 * en /\ dO * E = edO
          BY <1>1, <1>2
        <5> QED
          BY <5>1, <5>2
      <4> QED
        BY <4>1, <2>2, <1>2, <1>13
    <3>2. edO <= 2 * ecd + dO
      BY <3>1, <1>2, <1>13
    <3>3. (O * (E - 1)) * d <= (2 * (E * c)) * d
      <4>1. (O * (E - 1)) * d = edO - dO
        BY <1>1, Z3 DEF dO
      <4>2. (2 * (E * c)) * d = 2 * ecd
        BY <1>1, <1>7, Z3
      <4>3. ecd \in Nat
        BY <1>1, <1>7
      <4> QED
        BY <4>1, <4>2, <4>3, <3>2, <1>2, <1>13
    <3>4. O * (E - 1) <= 2 * (E * c)
      <4> DEFINE p == O * (E - 1)
                 q == 2 * (E * c)
      <4>1. p \in Nat /\ q \in Nat /\ p * d <= q * d
        BY <3>3, <1>1, <1>7
      <4> HIDE DEF p, q
      <4>2. p <= q
        BY <4>1, MulCancelLeq
      <4> QED
        BY <4>2 DEF p, q
    <3>5. (2 * E) * (E - 1) <= O * (E - 1)
      BY <1>1, MulMonotone
    <3>6. (E - 1) * E <= c * E
      BY <3>4, <3>5, <1>1, <1>7
    <3>7. E - 1 <= c
      BY <3>6, <1>1, <1>7, MulCancelLeq
    <3> QED
      BY <3>7, <1>1, <1>7
  <2>7. Near(c, g * 1, 1)
    BY <2>6, <1>7, NearRound
  <2>8. Near(c * d, g * d, 1)
    BY <2>7, <1>1, <1>7, <1>8, NearScale
  <2>9. g * d \in Nat /\ 1 + 1 <= E
    BY <1>1, <1>8
  <2>10. Near(t, g * d, 1 + 1)
    BY <2>1, <2>4, <2>5, <2>8, <2>9, NearTrans
  <2> QED
    BY <2>10 DEF t
<1> QED
  BY <1>4, <1>8, <1>16, <1>17 DEF f, g, dO

(* A product of doubles.                                                   *)
LEMMA NearMul ==
    ASSUME NEW x \in Nat, NEW y \in Nat, x * y <= F64_ONE * Top,
           F64_ONE * F64_EXACT <= 2 * (x * y)
    PROVE  FMul(x, y) \in Nat /\ Near(x * y, FMul(x, y) * F64_ONE, 1)
<1>1. x * y \in Nat /\ F64_ONE \in Nat \ {0}
  BY F64Facts
<1>2. FMul(x, y) = Nearest(x * y, F64_ONE)
  BY DEF FMul
<1> DEFINE n == x * y
<1>3. n \in Nat /\ n <= F64_ONE * Top /\ F64_ONE * F64_EXACT <= 2 * n
  BY <1>1
<1> HIDE DEF n
<1>4. Nearest(n, F64_ONE) \in Nat /\ Near(n, Nearest(n, F64_ONE) * F64_ONE, 1)
  BY <1>1, <1>3, NearestFacts, NearRound
<1> QED
  BY <1>2, <1>4 DEF n

(* The product of two doubles that are not small is not tiny.               *)
LEMMA NotTiny ==
    ASSUME NEW x \in Nat, NEW y \in Nat, 7 * F64_ONE <= 8 * x, 7 * F64_ONE <= 16 * y
    PROVE  F64_ONE * F64_EXACT <= 2 * (x * y)
<1> DEFINE O == F64_ONE
           E == F64_EXACT
<1>1. O \in Nat /\ E \in Nat /\ O >= 2 * E
  BY F64Facts
<1> HIDE DEF O, E
<1>2. (7 * O) * (7 * O) <= (8 * x) * (16 * y)
  <2>1. 7 * O <= 8 * x /\ 7 * O <= 16 * y
    BY DEF O
  <2> QED
    BY <2>1, <1>1, MulMonotone2
<1>3. (7 * O) * (7 * O) = 49 * (O * O) /\ (8 * x) * (16 * y) = 128 * (x * y)
  BY <1>1, Z3
<1>4. (2 * E) * O <= O * O
  BY <1>1, MulMonotone
<1>5. (2 * E) * O = 2 * (O * E) /\ O * E \in Nat /\ x * y \in Nat /\ O * O \in Nat
  BY <1>1
<1>6. O * E <= 2 * (x * y)
  BY <1>2, <1>3, <1>4, <1>5
<1> QED
  BY <1>6 DEF O, E

(* The input after the fee.                                                *)
EffectiveDouble(amount, fee) ==
    FMul(AsDouble(amount),
         FSub(F64_ONE, FDiv(fee * F64_ONE, FEE_BPS_DENOMINATOR * F64_ONE)))

(* It is near to the exact one.                                            *)
LEMMA EffectiveDoubleFacts ==
    ASSUME NEW amount \in 1 .. U128_MAX, NEW fee \in FEE_TIERS
    PROVE  LET e == EffectiveDouble(amount, fee)
               D == FEE_BPS_DENOMINATOR
           IN  /\ e \in Nat
               /\ Near(e * D, (amount * (D - fee)) * F64_ONE, 4)
<1> DEFINE D == FEE_BPS_DENOMINATOR
           O == F64_ONE
           E == F64_EXACT
           a == AsDouble(amount)
           g == FSub(O, FDiv(fee * O, D * O))
           e == EffectiveDouble(amount, fee)
<1>1. /\ D \in Nat \ {0} /\ fee \in Nat /\ D - fee \in Nat /\ 2 * fee <= D
      /\ O \in Nat \ {0} /\ E \in Nat /\ E >= 256 /\ O >= 2 * E /\ amount \in Nat \ {0}
      /\ Top \in Nat
  BY AmmMathAssumption, U128Assumption, SwapCardAssumption, F64Facts, TopFacts
<1>2. a \in Nat /\ Near(amount * O, a, 1)
  BY AsDoubleFacts
<1>3. g \in Nat /\ g <= O /\ Near((D - fee) * O, g * D, 2)
  <2> DEFINE n == (fee * O) * O
             d == D * O
             gn == FSub(O, Nearest(n, d))
  <2>1. n \in Nat /\ d \in Nat \ {0}
    <3>1. d # 0
      BY <1>1, Z3
    <3> QED
      BY <3>1, <1>1
  <2>2. 2 * n <= d * O /\ n <= d * O /\ d * O - n = ((D - fee) * O) * O
    <3>1. (2 * fee) * (O * O) <= D * (O * O)
      <4>1. 2 * fee \in Nat /\ O * O \in Nat
        BY <1>1
      <4> QED
        BY <4>1, <1>1, MulMonotone
    <3>2. (2 * fee) * (O * O) = 2 * n /\ D * (O * O) = d * O
      BY <1>1, Z3
    <3>3. d * O - n = ((D - fee) * O) * O
      BY <1>1, Z3
    <3>4. d * O \in Nat
      BY <2>1, <1>1
    <3> QED
      BY <3>1, <3>2, <3>3, <3>4, <2>1
  <2> HIDE DEF n, d
  <2>3. gn \in Nat /\ gn <= O /\ Near(d * O - n, gn * d, 2)
    BY <2>1, <2>2, ComplementFacts
  <2>4. g = gn
    BY DEF FDiv, n, d
  <2> HIDE DEF g, gn
  <2>5. gn * d = (gn * D) * O
    BY <1>1, <2>3, Z3 DEF d
  <2>6. gn * D \in Nat /\ (D - fee) * O \in Nat /\ 2 <= E
    BY <1>1, <2>3
  <2>7. Near(((D - fee) * O) * O, (gn * D) * O, 2)
    BY <2>2, <2>3, <2>5
  <2>8. Near((D - fee) * O, gn * D, 2)
    BY <2>6, <2>7, <1>1, NearCancel
  <2> QED
    BY <2>3, <2>4, <2>8
<1>4. e = FMul(a, g)
  BY DEF EffectiveDouble
<1> HIDE DEF a, g, e, D, O, E
<1>5. 7 * (amount * O) <= 8 * a /\ 7 * a <= 8 * (amount * O)
  <2>1. amount * O \in Nat
    BY <1>1
  <2> QED
    BY <2>1, <1>2, AtLeastHalf
<1>6. 7 * ((D - fee) * O) <= 8 * (g * D)
  <2>1. (D - fee) * O \in Nat /\ g * D \in Nat
    BY <1>1, <1>3
  <2> QED
    BY <2>1, <1>3, AtLeastHalf
<1>7. a * g <= O * Top
  <2>1. a <= 2 * (amount * O)
    BY <1>5, <1>1, <1>2
  <2>2. (2 * amount) * O <= Top
    <3>1. 2 * amount <= 4 * U128_MAX
      BY TopFacts
    <3> QED
      BY <3>1, <1>1, TopFacts DEF O
  <2>3. a <= Top
    BY <2>1, <2>2, <1>1, <1>2
  <2>4. a * g <= Top * O
    BY <2>3, <1>1, <1>2, <1>3, MulMonotone2
  <2> QED
    BY <2>4, <1>1
<1>8. O * E <= 2 * (a * g)
  <2>1. 7 * O <= 8 * a
    <3>1. 1 * O <= amount * O
      BY <1>1, MulMonotone
    <3>2. amount * O \in Nat
      BY <1>1
    <3> QED
      BY <3>1, <3>2, <1>1, <1>2, <1>5
  <2>2. 7 * O <= 16 * g
    <3>1. D <= 2 * (D - fee)
      BY <1>1
    <3>2. (7 * D) * O <= (14 * (D - fee)) * O
      <4>1. 7 * D <= 14 * (D - fee)
        BY <3>1, <1>1
      <4> QED
        BY <4>1, <1>1, MulMonotone
    <3>3. (14 * (D - fee)) * O = 2 * (7 * ((D - fee) * O)) /\ (7 * D) * O = (7 * O) * D
      BY <1>1, Z3
    <3>4. (16 * g) * D = 2 * (8 * (g * D))
      BY <1>1, <1>3, Z3
    <3>5. g * D \in Nat /\ (D - fee) * O \in Nat
      BY <1>1, <1>3
    <3>6. (7 * O) * D <= (16 * g) * D
      <4> DEFINE x == (D - fee) * O
                 y == g * D
                 l == (7 * O) * D
                 r == (16 * g) * D
                 ll == (7 * D) * O
                 m == (14 * (D - fee)) * O
      <4>1. x \in Nat /\ y \in Nat /\ 7 * x <= 8 * y /\ ll <= m /\ m = 2 * (7 * x)
            /\ ll = l /\ r = 2 * (8 * y) /\ l \in Nat
        BY <3>2, <3>3, <3>4, <3>5, <1>1, <1>6
      <4> HIDE DEF x, y, l, r, ll, m
      <4>2. l <= r
        BY <4>1
      <4> QED
        BY <4>2 DEF l, r
    <3> QED
      BY <3>6, <1>1, <1>3, MulCancelLeq
  <2> QED
    BY <2>1, <2>2, <1>2, <1>3, NotTiny DEF O, E
<1>9. e \in Nat /\ Near(a * g, e * O, 1)
  BY <1>2, <1>3, <1>4, <1>7, <1>8, NearMul DEF O, E
<1> DEFINE num == amount * (D - fee)
<1>10. num \in Nat
  BY <1>1
<1>11. Near(e * O, a * g, 1)
  BY <1>9 DEF Near
<1>12. Near((e * O) * D, (a * g) * D, 1)
  <2>1. e * O \in Nat /\ a * g \in Nat /\ 1 <= F64_EXACT
    BY <1>1, <1>2, <1>3, <1>9 DEF E
  <2> QED
    BY <2>1, <1>1, <1>11, NearScale
<1>13. Near((a * g) * D, ((D - fee) * O) * a, 2)
  <2>1. (D - fee) * O \in Nat /\ g * D \in Nat /\ 2 <= F64_EXACT
    BY <1>1, <1>3 DEF E
  <2>2. Near(((D - fee) * O) * a, (g * D) * a, 2)
    BY <2>1, <1>2, <1>3, NearScale
  <2>3. (g * D) * a = (a * g) * D
    BY <1>1, <1>2, <1>3, Z3
  <2> QED
    BY <2>2, <2>3 DEF Near
<1>14. Near(((D - fee) * O) * a, (num * O) * O, 1)
  <2>1. (D - fee) * O \in Nat /\ amount * O \in Nat /\ 1 <= F64_EXACT
    BY <1>1 DEF E
  <2>2. Near(a, amount * O, 1)
    BY <1>2 DEF Near
  <2>3. Near(a * ((D - fee) * O), (amount * O) * ((D - fee) * O), 1)
    BY <2>1, <2>2, <1>2, NearScale
  <2>4. a * ((D - fee) * O) = ((D - fee) * O) * a
        /\ (amount * O) * ((D - fee) * O) = (num * O) * O
    BY <1>1, <1>2, Z3
  <2> QED
    BY <2>3, <2>4
<1>15. Near((e * D) * O, (num * O) * O, 4)
  <2>1. (e * O) * D \in Nat /\ (a * g) * D \in Nat /\ ((D - fee) * O) * a \in Nat
        /\ (num * O) * O \in Nat /\ 1 + 2 <= F64_EXACT /\ 3 + 1 <= F64_EXACT
    BY <1>1, <1>2, <1>3, <1>9, <1>10 DEF E
  <2>2. Near((e * O) * D, ((D - fee) * O) * a, 1 + 2)
    BY <2>1, <1>12, <1>13, NearTrans
  <2>3. Near((e * O) * D, (num * O) * O, 3 + 1)
    BY <2>1, <2>2, <1>14, NearTrans
  <2>4. (e * O) * D = (e * D) * O
    BY <1>1, <1>9, Z3
  <2> QED
    BY <2>3, <2>4
<1>16. Near(e * D, num * O, 4)
  <2>1. e * D \in Nat /\ num * O \in Nat /\ 4 <= F64_EXACT
    BY <1>1, <1>9, <1>10 DEF E
  <2> QED
    BY <2>1, <1>1, <1>15, NearCancel
<1> QED
  BY <1>9, <1>16 DEF e, D, O

(* The numerator and the denominator of the curve.                          *)
Num(amount, fee) == amount * (FEE_BPS_DENOMINATOR - fee)
Den(in, amount, fee) == in * FEE_BPS_DENOMINATOR + Num(amount, fee)

(* Both are positive, and the first is at most the second.                 *)
LEMMA NumFacts ==
    ASSUME NEW in \in 1 .. U128_MAX, NEW amount \in 1 .. U128_MAX, NEW fee \in FEE_TIERS
    PROVE  /\ FEE_BPS_DENOMINATOR \in Nat \ {0}
           /\ Num(amount, fee) \in Nat /\ Den(in, amount, fee) \in Nat \ {0}
           /\ FEE_BPS_DENOMINATOR <= 2 * Num(amount, fee)
           /\ Num(amount, fee) <= amount * FEE_BPS_DENOMINATOR
           /\ Num(amount, fee) <= Den(in, amount, fee)
           /\ Den(in, amount, fee) = in * FEE_BPS_DENOMINATOR + Num(amount, fee)
<1> DEFINE D == FEE_BPS_DENOMINATOR
           num == amount * (D - fee)
<1>1. /\ D \in Nat \ {0} /\ fee \in Nat /\ D - fee \in Nat /\ 2 * fee <= D
      /\ amount \in Nat \ {0} /\ in \in Nat \ {0}
  BY AmmMathAssumption, U128Assumption, SwapCardAssumption, F64Facts
<1> HIDE DEF D
<1>2. D <= 2 * num
  <2>1. 1 * (D - fee) <= num
    BY <1>1, MulMonotone
  <2>2. num \in Nat
    BY <1>1
  <2> QED
    BY <2>1, <2>2, <1>1
<1>3. num <= amount * D
  <2>1. (D - fee) * amount <= D * amount
    BY <1>1, MulMonotone
  <2>2. (D - fee) * amount = num /\ D * amount = amount * D
    BY <1>1
  <2> QED
    BY <2>1, <2>2
<1>4. num \in Nat /\ in * D \in Nat \ {0}
  <2>1. in * D # 0
    BY <1>1, Z3
  <2> QED
    BY <2>1, <1>1
<1> HIDE DEF num
<1>5. in * D + num \in Nat \ {0} /\ num <= in * D + num
  BY <1>4
<1> QED
  BY <1>1, <1>2, <1>3, <1>4, <1>5 DEF Num, Den, D, num

(* The output reserve times the input after the fee.                        *)
LEMMA CurveNumerator ==
    ASSUME NEW out \in 1 .. U128_MAX, NEW amount \in 1 .. U128_MAX, NEW fee \in FEE_TIERS
    PROVE  LET m == FMul(AsDouble(out), EffectiveDouble(amount, fee))
           IN  /\ m \in Nat
               /\ Near(m * FEE_BPS_DENOMINATOR, (out * Num(amount, fee)) * F64_ONE, 6)
<1> DEFINE D == FEE_BPS_DENOMINATOR
           O == F64_ONE
           E == F64_EXACT
           num == Num(amount, fee)
           ro == AsDouble(out)
           e == EffectiveDouble(amount, fee)
           m == FMul(ro, e)
<1>1. /\ D \in Nat \ {0} /\ num \in Nat /\ D <= 2 * num /\ num <= amount * D
      /\ O \in Nat \ {0} /\ E \in Nat /\ E >= 256 /\ O >= 2 * E
      /\ out \in Nat \ {0} /\ amount \in Nat \ {0} /\ U128_MAX \in Nat
      /\ out <= U128_MAX /\ amount <= U128_MAX /\ Top \in Nat
  BY NumFacts, F64Facts, TopFacts
<1>2. ro \in Nat /\ Near(out * O, ro, 1) /\ Near(ro, out * O, 1)
  <2>1. out \in 0 .. U128_MAX
    BY <1>1
  <2> QED
    BY <2>1, AsDoubleFacts DEF Near
<1>3. e \in Nat /\ Near(e * D, num * O, 4) /\ Near(num * O, e * D, 4)
  <2>1. num = amount * (D - fee)
    BY DEF Num
  <2> HIDE DEF num, e
  <2>2. e \in Nat /\ Near(e * D, num * O, 4)
    BY <2>1, EffectiveDoubleFacts DEF e
  <2> QED
    BY <2>2 DEF Near
<1> HIDE DEF num, ro, e, m, D, O, E
<1>4. 7 * (out * O) <= 8 * ro /\ 7 * ro <= 8 * (out * O)
  <2>1. out * O \in Nat
    BY <1>1
  <2> QED
    BY <2>1, <1>2, AtLeastHalf
<1>5. 7 * (num * O) <= 8 * (e * D) /\ 7 * (e * D) <= 8 * (num * O)
  <2>1. e * D \in Nat /\ num * O \in Nat
    BY <1>1, <1>3
  <2> QED
    BY <2>1, <1>3, AtLeastHalf
<1>6. ro <= 2 * (out * O)
  BY <1>4, <1>1, <1>2
<1>7. e <= 2 * (amount * O)
  <2> DEFINE ed == e * D
             no == num * O
             ao == amount * O
             aod == ao * D
  <2>1. ed \in Nat /\ no \in Nat /\ ao \in Nat /\ aod \in Nat /\ 7 * ed <= 8 * no
    BY <1>1, <1>3, <1>5
  <2>2. no <= aod
    <3>1. num * O <= (amount * D) * O
      <4>1. amount * D \in Nat
        BY <1>1
      <4> QED
        BY <4>1, <1>1, MulMonotone
    <3>2. (amount * D) * O = aod
      BY <1>1, Z3
    <3> QED
      BY <3>1, <3>2
  <2>3. ed <= 2 * aod
    <3> HIDE DEF ed, no, aod
    <3> QED
      BY <2>1, <2>2
  <2>4. 2 * aod = (2 * ao) * D
    BY <2>1, <1>1, Z3
  <2> QED
    BY <2>1, <2>3, <2>4, <1>1, <1>3, MulCancelLeq
<1>8. ro * e <= O * Top
  <2> DEFINE p == 2 * (out * O)
             r == 2 * (amount * O)
             oa == out * amount
             uu == U128_MAX * U128_MAX
  <2>1. ro * e <= p * r
    <3>1. p \in Nat /\ r \in Nat /\ ro <= p /\ e <= r
      BY <1>1, <1>6, <1>7
    <3> HIDE DEF p, r
    <3> QED
      BY <3>1, <1>2, <1>3, MulMonotone2
  <2>2. oa <= uu
    BY <1>1, MulMonotone2
  <2>3. p * r = (4 * oa) * (O * O)
    BY <1>1, Z3
  <2>4. (4 * oa) * (O * O) <= (4 * uu) * (O * O)
    <3>1. 4 * oa \in Nat /\ 4 * uu \in Nat /\ O * O \in Nat /\ 4 * oa <= 4 * uu
      BY <1>1, <2>2
    <3> QED
      BY <3>1, MulMonotone
  <2>5. (4 * uu) * (O * O) = O * Top
    <3>1. Top = 4 * U128_MAX * U128_MAX * O
      BY DEF Top, O
    <3> QED
      BY <3>1, <1>1, Z3
  <2>6. ro * e \in Nat /\ p * r \in Nat /\ O * Top \in Nat
    BY <1>1, <1>2, <1>3
  <2> QED
    BY <2>1, <2>3, <2>4, <2>5, <2>6
<1>9. O * E <= 2 * (ro * e)
  <2>1. 7 * O <= 8 * ro
    <3>1. 1 * O <= out * O
      BY <1>1, MulMonotone
    <3>2. out * O \in Nat
      BY <1>1
    <3> QED
      BY <3>1, <3>2, <1>1, <1>2, <1>4
  <2>2. 7 * O <= 16 * e
    <3> DEFINE do == D * O
               no == num * O
               ed == e * D
    <3>1. do \in Nat /\ no \in Nat /\ ed \in Nat /\ 7 * no <= 8 * ed
      BY <1>1, <1>3, <1>5
    <3>2. do <= 2 * no
      <4>1. D * O <= (2 * num) * O
        BY <1>1, MulMonotone
      <4>2. (2 * num) * O = 2 * no
        BY <1>1
      <4> QED
        BY <4>1, <4>2
    <3>3. 7 * do <= 16 * ed
      <4> HIDE DEF do, no, ed
      <4> QED
        BY <3>1, <3>2
    <3>4. 7 * do = (7 * O) * D /\ 16 * ed = (16 * e) * D
      BY <1>1, <1>3, Z3
    <3> QED
      BY <3>3, <3>4, <1>1, <1>3, MulCancelLeq
  <2> QED
    BY <2>1, <2>2, <1>2, <1>3, NotTiny DEF O, E
<1>10. m \in Nat /\ Near(m * O, ro * e, 1)
  <2>1. m \in Nat /\ Near(ro * e, m * O, 1)
    BY <1>2, <1>3, <1>8, <1>9, NearMul DEF O, E, m
  <2> QED
    BY <2>1 DEF Near
<1>11. Near((m * O) * D, (ro * e) * D, 1)
  <2>1. m * O \in Nat /\ ro * e \in Nat /\ 1 <= F64_EXACT
    BY <1>1, <1>2, <1>3, <1>10 DEF E
  <2> QED
    BY <2>1, <1>1, <1>10, NearScale
<1>12. Near(ro * (e * D), (out * O) * (num * O), 1 + 4)
  <2>1. e * D \in Nat /\ num * O \in Nat /\ out * O \in Nat /\ 1 + 4 <= F64_EXACT
    BY <1>1, <1>3 DEF E
  <2> QED
    BY <2>1, <1>2, <1>3, NearProduct
<1>13. Near((m * D) * O, ((out * num) * O) * O, 6)
  <2>1. (ro * e) * D = ro * (e * D) /\ (m * O) * D = (m * D) * O
        /\ (out * O) * (num * O) = ((out * num) * O) * O
    BY <1>1, <1>2, <1>3, <1>10, Z3
  <2>2. (m * D) * O \in Nat /\ ro * (e * D) \in Nat /\ ((out * num) * O) * O \in Nat
        /\ 1 + 5 <= F64_EXACT /\ 1 + 5 = 6 /\ 1 + 4 = 5
    BY <1>1, <1>2, <1>3, <1>10 DEF E
  <2>3. Near((m * D) * O, ro * (e * D), 1) /\ Near(ro * (e * D), ((out * num) * O) * O, 5)
    BY <2>1, <2>2, <1>11, <1>12
  <2>4. Near((m * D) * O, ((out * num) * O) * O, 1 + 5)
    BY <2>2, <2>3, NearTrans
  <2> QED
    BY <2>2, <2>4
<1>14. Near(m * D, (out * num) * O, 6)
  <2>1. m * D \in Nat /\ (out * num) * O \in Nat /\ 6 <= F64_EXACT
    BY <1>1, <1>10 DEF E
  <2> QED
    BY <2>1, <1>1, <1>13, NearCancel
<1> QED
  BY <1>10, <1>14 DEF m, ro, e, D, O, num

(* The input reserve with it.                                              *)
LEMMA CurveDenominator ==
    ASSUME NEW in \in 1 .. U128_MAX, NEW amount \in 1 .. U128_MAX, NEW fee \in FEE_TIERS
    PROVE  LET s == FAdd(AsDouble(in), EffectiveDouble(amount, fee))
           IN  /\ s \in Nat \ {0}
               /\ Near(s * FEE_BPS_DENOMINATOR, Den(in, amount, fee) * F64_ONE, 5)
<1> DEFINE D == FEE_BPS_DENOMINATOR
           O == F64_ONE
           E == F64_EXACT
           num == Num(amount, fee)
           den == Den(in, amount, fee)
           ri == AsDouble(in)
           e == EffectiveDouble(amount, fee)
           s == FAdd(ri, e)
<1>1. /\ D \in Nat \ {0} /\ num \in Nat /\ den \in Nat \ {0} /\ den = in * D + num
      /\ num <= amount * D
      /\ O \in Nat \ {0} /\ E \in Nat /\ E >= 256 /\ O >= 2 * E
      /\ in \in Nat \ {0} /\ amount \in Nat \ {0} /\ U128_MAX \in Nat
      /\ in <= U128_MAX /\ amount <= U128_MAX /\ Top \in Nat
  BY NumFacts, F64Facts, TopFacts
<1>2. ri \in Nat /\ Near(in * O, ri, 1) /\ Near(ri, in * O, 1)
  <2>1. in \in 0 .. U128_MAX
    BY <1>1
  <2> QED
    BY <2>1, AsDoubleFacts DEF Near
<1>3. e \in Nat /\ Near(e * D, num * O, 4)
  <2>1. num = amount * (D - fee)
    BY DEF Num
  <2> HIDE DEF num, e
  <2>2. e \in Nat /\ Near(e * D, num * O, 4)
    BY <2>1, EffectiveDoubleFacts DEF e
  <2> QED
    BY <2>2 DEF Near
<1>4. s = Nearest(ri + e, 1)
  BY DEF FAdd
<1> HIDE DEF num, den, ri, e, s, D, O, E
<1>5. 7 * (in * O) <= 8 * ri /\ 7 * ri <= 8 * (in * O)
  <2>1. in * O \in Nat
    BY <1>1
  <2> QED
    BY <2>1, <1>2, AtLeastHalf
<1>6. 7 * (e * D) <= 8 * (num * O)
  <2>1. e * D \in Nat /\ num * O \in Nat
    BY <1>1, <1>3
  <2> QED
    BY <2>1, <1>3, AtLeastHalf
<1>7. e <= 2 * (amount * O)
  <2> DEFINE ed == e * D
             no == num * O
             ao == amount * O
             aod == ao * D
  <2>1. ed \in Nat /\ no \in Nat /\ ao \in Nat /\ aod \in Nat /\ 7 * ed <= 8 * no
    BY <1>1, <1>3, <1>6
  <2>2. no <= aod
    <3>1. num * O <= (amount * D) * O
      <4>1. amount * D \in Nat
        BY <1>1
      <4> QED
        BY <4>1, <1>1, MulMonotone
    <3>2. (amount * D) * O = aod
      BY <1>1, Z3
    <3> QED
      BY <3>1, <3>2
  <2>3. ed <= 2 * aod
    <3> HIDE DEF ed, no, aod
    <3> QED
      BY <2>1, <2>2
  <2>4. 2 * aod = (2 * ao) * D
    BY <2>1, <1>1, Z3
  <2> QED
    BY <2>1, <2>3, <2>4, <1>1, <1>3, MulCancelLeq
<1> DEFINE n == ri + e
<1>8. n \in Nat /\ n <= 1 * Top
  <2>1. (2 * in + 2 * amount) * O <= Top
    <3>1. 2 * in + 2 * amount \in Nat /\ 2 * in + 2 * amount <= 4 * U128_MAX
      BY <1>1
    <3> QED
      BY <3>1, TopFacts DEF O
  <2>2. (2 * in + 2 * amount) * O = 2 * (in * O) + 2 * (amount * O)
    BY <1>1
  <2>3. in * O \in Nat /\ amount * O \in Nat
    BY <1>1
  <2> QED
    BY <2>1, <2>2, <2>3, <1>1, <1>2, <1>3, <1>5, <1>7
<1>9. 1 * E <= 2 * n
  <2>1. 1 * O <= in * O
    BY <1>1, MulMonotone
  <2>2. in * O \in Nat
    BY <1>1
  <2> QED
    BY <2>1, <2>2, <1>1, <1>2, <1>3, <1>5
<1>10. s \in Nat /\ Near(s, n, 1)
  <2> HIDE DEF n
  <2>1. s = Nearest(n, 1)
    BY <1>4 DEF n
  <2>2. Nearest(n, 1) \in Nat
    BY <1>8, NearestFacts
  <2>3. Near(n, Nearest(n, 1) * 1, 1)
    BY <1>8, <1>9, NearRound DEF E
  <2>4. s * 1 = s
    BY <2>1, <2>2
  <2> QED
    BY <2>1, <2>2, <2>3, <2>4 DEF Near
<1>11. Near(n * D, den * O, 4)
  <2>1. Near(ri * D, (in * O) * D, 1)
    <3>1. in * O \in Nat /\ 1 <= F64_EXACT
      BY <1>1 DEF E
    <3> QED
      BY <3>1, <1>1, <1>2, NearScale
  <2>2. ri * D \in Nat /\ (in * O) * D \in Nat /\ e * D \in Nat /\ num * O \in Nat
        /\ 1 <= 4 /\ 4 <= F64_EXACT
    BY <1>1, <1>2, <1>3 DEF E
  <2>3. Near(ri * D, (in * O) * D, 4)
    BY <2>1, <2>2, NearMore
  <2>4. Near(ri * D + e * D, (in * O) * D + num * O, 4)
    BY <2>2, <2>3, <1>3, NearSum
  <2>5. ri * D + e * D = n * D /\ (in * O) * D + num * O = den * O
    BY <1>1, <1>2, <1>3, Z3
  <2> QED
    BY <2>4, <2>5
<1> HIDE DEF n
<1>12. Near(s * D, den * O, 5)
  <2>1. Near(s * D, n * D, 1)
    <3>1. 1 <= F64_EXACT
      BY <1>1 DEF E
    <3> QED
      BY <3>1, <1>1, <1>8, <1>10, NearScale
  <2>2. s * D \in Nat /\ n * D \in Nat /\ den * O \in Nat /\ 1 + 4 <= F64_EXACT /\ 1 + 4 = 5
    BY <1>1, <1>8, <1>10 DEF E
  <2>3. Near(s * D, den * O, 1 + 4)
    BY <2>1, <2>2, <1>11, NearTrans
  <2> QED
    BY <2>2, <2>3
<1>13. s # 0
  <2>1. s * D \in Nat /\ den * O \in Nat /\ den * O # 0
    <3>1. den * O # 0
      BY <1>1, Z3
    <3> QED
      BY <3>1, <1>1, <1>10
  <2>2. 7 * (den * O) <= 8 * (s * D)
    BY <2>1, <1>12, AtLeastHalf
  <2>3. CASE s = 0
    <3>1. s * D = 0
      BY <2>3, <1>1
    <3> QED
      BY <3>1, <2>1, <2>2
  <2> QED
    BY <2>3
<1> QED
  BY <1>10, <1>12, <1>13 DEF s, ri, e, D, O, den

(* The curve in doubles is near to the curve, unless it is close to 0.      *)
LEMMA CurveFacts ==
    ASSUME NEW in \in 1 .. U128_MAX, NEW out \in 1 .. U128_MAX,
           NEW amount \in 1 .. U128_MAX, NEW fee \in FEE_TIERS
    PROVE  LET q == Curve(in, out, amount, fee)
               num == Num(amount, fee)
               den == Den(in, amount, fee)
           IN  /\ q \in Nat
               /\ \/ Near(q * den, (out * num) * F64_ONE, 12)
                  \/ q <= F64_EXACT /\ out * num < den
<1> DEFINE D == FEE_BPS_DENOMINATOR
           O == F64_ONE
           E == F64_EXACT
           num == Num(amount, fee)
           den == Den(in, amount, fee)
           e == EffectiveDouble(amount, fee)
           m == FMul(AsDouble(out), e)
           s == FAdd(AsDouble(in), e)
           q == Curve(in, out, amount, fee)
           on == out * num
<1>1. /\ D \in Nat \ {0} /\ num \in Nat /\ den \in Nat \ {0} /\ num <= den
      /\ O \in Nat \ {0} /\ E \in Nat /\ E >= 256 /\ O >= 2 * E
      /\ out \in Nat \ {0} /\ out <= U128_MAX /\ U128_MAX \in Nat /\ Top \in Nat
  BY NumFacts, F64Facts, TopFacts
<1>2. m \in Nat /\ Near(m * D, on * O, 6)
  BY CurveNumerator
<1>3. s \in Nat \ {0} /\ Near(s * D, den * O, 5)
  BY CurveDenominator
<1>4. q = Nearest(m * O, s)
  BY DEF Curve, FDiv, EffectiveDouble
<1>5. on \in Nat
  BY <1>1
<1> HIDE DEF D, O, E, num, den, e, m, s, q
<1>6. Near(m * den, on * s, 11)
  <2> DEFINE c == O * D
  <2>1. c \in Nat \ {0}
    <3>1. c # 0
      BY <1>1, Z3
    <3> QED
      BY <3>1, <1>1
  <2>2. m * D \in Nat /\ on * O \in Nat /\ s * D \in Nat /\ den * O \in Nat /\ 6 + 5 <= F64_EXACT
    BY <1>1, <1>2, <1>3, <1>5 DEF E
  <2>3. Near(den * O, s * D, 5)
    BY <1>3 DEF Near
  <2>4. Near((m * D) * (den * O), (on * O) * (s * D), 6 + 5)
    BY <2>2, <2>3, <1>2, NearProduct
  <2>5. (m * D) * (den * O) = (m * den) * c /\ (on * O) * (s * D) = (on * s) * c
    BY <1>1, <1>2, <1>3, <1>5, Z3
  <2>6. m * den \in Nat /\ on * s \in Nat /\ 11 <= F64_EXACT /\ 6 + 5 = 11
    BY <1>1, <1>2, <1>3, <1>5 DEF E
  <2> HIDE DEF c, on
  <2>7. Near((m * den) * c, (on * s) * c, 11)
    BY <2>4, <2>5, <2>6
  <2> QED
    BY <2>1, <2>6, <2>7, NearCancel
<1> DEFINE md == m * den
           ons == on * s
           mo == m * O
<1>7. md \in Nat /\ ons \in Nat /\ mo \in Nat /\ 7 * md <= 8 * ons /\ 7 * ons <= 8 * md
  <2>1. md \in Nat /\ ons \in Nat /\ mo \in Nat
    BY <1>1, <1>2, <1>3, <1>5
  <2> HIDE DEF md, ons, on, mo
  <2>2. Near(md, ons, 11)
    BY <1>6 DEF md, ons
  <2> QED
    BY <2>1, <2>2, AtLeastHalf
<1>8. m <= 2 * (out * s)
  <2>1. on * s <= (out * s) * den
    <3>1. num * (out * s) <= den * (out * s)
      <4>1. out * s \in Nat
        BY <1>1, <1>3
      <4> QED
        BY <4>1, <1>1, MulMonotone
    <3>2. num * (out * s) = on * s /\ den * (out * s) = (out * s) * den
      BY <1>1, <1>3, Z3
    <3> QED
      BY <3>1, <3>2
  <2>2. (out * s) * den \in Nat /\ (2 * (out * s)) * den = 2 * ((out * s) * den)
    BY <1>1, <1>3
  <2>3. md <= (2 * (out * s)) * den
    <3> DEFINE x == (out * s) * den
    <3>1. x \in Nat /\ ons <= x
      BY <2>1, <2>2
    <3> HIDE DEF md, ons, x
    <3>2. md <= 2 * x
      BY <3>1, <1>7
    <3> QED
      BY <3>2, <2>2 DEF x
  <2>4. 2 * (out * s) \in Nat
    BY <1>1, <1>3
  <2> QED
    BY <2>3, <2>4, <1>1, <1>2, MulCancelLeq
<1>9. mo <= s * Top
  <2>1. (2 * out) * O <= Top
    <3>1. 2 * out \in Nat /\ 2 * out <= 4 * U128_MAX
      BY <1>1
    <3> QED
      BY <3>1, TopFacts DEF O
  <2>2. m * O <= (2 * (out * s)) * O
    <3>1. 2 * (out * s) \in Nat
      BY <1>1, <1>3
    <3> QED
      BY <3>1, <1>1, <1>2, <1>8, MulMonotone
  <2>3. (2 * (out * s)) * O = ((2 * out) * O) * s
    BY <1>1, <1>3, Z3
  <2>4. ((2 * out) * O) * s <= Top * s
    <3>1. (2 * out) * O \in Nat
      BY <1>1
    <3> QED
      BY <3>1, <2>1, <1>1, <1>3, MulMonotone
  <2>5. Top * s = s * Top /\ Top * s \in Nat /\ ((2 * out) * O) * s \in Nat
    BY <1>1, <1>3
  <2> QED
    BY <2>2, <2>3, <2>4, <2>5, <1>7
<1>10. q \in Nat
  <2> HIDE DEF mo
  <2>1. Nearest(mo, s) \in Nat
    BY <1>3, <1>7, <1>9, NearestFacts
  <2> QED
    BY <2>1, <1>4 DEF mo
<1>11. CASE s * E <= 2 * mo
  <2>1. Near(mo, q * s, 1)
    <3> HIDE DEF mo
    <3>1. Near(mo, Nearest(mo, s) * s, 1)
      BY <1>3, <1>7, <1>9, <1>11, NearRound DEF E
    <3> QED
      BY <3>1, <1>4 DEF mo
  <2>2. Near((q * s) * den, mo * den, 1)
    <3>1. q * s \in Nat /\ 1 <= F64_EXACT
      BY <1>1, <1>3, <1>10 DEF E
    <3>2. Near(q * s, mo, 1)
      BY <2>1 DEF Near
    <3> HIDE DEF mo
    <3> QED
      BY <3>1, <3>2, <1>1, <1>7, NearScale
  <2>3. Near(md * O, ons * O, 11)
    <3>1. 11 <= F64_EXACT /\ Near(md, ons, 11)
      BY <1>1, <1>6 DEF E
    <3> HIDE DEF md, ons
    <3> QED
      BY <3>1, <1>1, <1>7, NearScale
  <2>4. (q * s) * den = (q * den) * s /\ mo * den = md * O /\ ons * O = (on * O) * s
    BY <1>1, <1>2, <1>3, <1>5, <1>10, Z3
  <2>5. (q * den) * s \in Nat /\ md * O \in Nat /\ (on * O) * s \in Nat /\ q * den \in Nat
        /\ on * O \in Nat /\ 1 + 11 <= F64_EXACT /\ 1 + 11 = 12 /\ 12 <= F64_EXACT
    BY <1>1, <1>2, <1>3, <1>5, <1>7, <1>10 DEF E
  <2> HIDE DEF mo, md, ons, on
  <2>6. Near((q * den) * s, md * O, 1) /\ Near(md * O, (on * O) * s, 11)
    BY <2>2, <2>3, <2>4
  <2>7. Near((q * den) * s, (on * O) * s, 1 + 11)
    BY <2>5, <2>6, NearTrans
  <2>8. Near((q * den) * s, (on * O) * s, 12)
    BY <2>5, <2>7
  <2>9. Near(q * den, on * O, 12)
    BY <2>5, <2>8, <1>3, NearCancel
  <2> QED
    BY <2>9, <1>10 DEF q, den, on, num, O
<1>12. CASE 2 * mo < s * E
  <2> DEFINE qs == q * s
             se == s * E
  <2>1. qs \in Nat /\ se \in Nat
    BY <1>1, <1>3, <1>10
  <2>2. 2 * (E * qs) <= 2 * (E * mo) + se
    <3> HIDE DEF mo
    <3>1. PICK off \in {2 * mo, s * E} : 2 * (E * (Nearest(mo, s) * s)) <= 2 * (E * mo) + off
      BY <1>3, <1>7, <1>9, NearestFacts DEF E
    <3>2. off <= se /\ off \in Nat
      BY <3>1, <2>1, <1>7, <1>12
    <3>3. E * mo \in Nat
      BY <1>1, <1>7
    <3>4. Nearest(mo, s) * s = qs
      BY <1>4 DEF mo
    <3> HIDE DEF qs, se
    <3>5. 2 * (E * qs) <= 2 * (E * mo) + off
      BY <3>1, <3>4
    <3>6. E * qs \in Nat
      BY <2>1, <1>1
    <3> QED
      BY <3>2, <3>3, <3>5, <3>6, <2>1
  <2>3. 2 * (E * mo) <= E * se
    <3>1. (2 * mo) * E <= se * E
      <4> HIDE DEF mo
      <4> QED
        BY <1>1, <1>7, <1>12, <2>1, MulMonotone
    <3>2. (2 * mo) * E = 2 * (E * mo) /\ se * E = E * se
      BY <1>1, <1>7, <2>1
    <3> QED
      BY <3>1, <3>2
  <2>4. (2 * q) * se <= (E + 1) * se
    <3>1. (2 * q) * se = 2 * (E * qs) /\ (E + 1) * se = E * se + se
      BY <1>1, <1>3, <1>10, Z3
    <3>2. E * qs \in Nat /\ E * mo \in Nat /\ E * se \in Nat
      BY <1>1, <1>7, <2>1
    <3> HIDE DEF qs, se, mo
    <3> QED
      BY <3>1, <3>2, <2>1, <2>2, <2>3
  <2>5. 2 * q <= E + 1
    <3>1. se # 0
      BY <1>1, <1>3, Z3
    <3>2. 2 * q \in Nat /\ E + 1 \in Nat
      BY <1>1, <1>10
    <3> HIDE DEF se
    <3> QED
      BY <3>1, <3>2, <2>1, <2>4, MulCancelLeq
  <2>6. q <= E
    BY <2>5, <1>1, <1>10
  <2>7. on < den
    <3> DEFINE k == s * O
               onk == on * k
               dk == den * k
    <3>1. k \in Nat \ {0}
      <4>1. k # 0
        BY <1>1, <1>3, Z3
      <4> QED
        BY <4>1, <1>1, <1>3
    <3>2. onk \in Nat /\ dk \in Nat \ {0}
      <4>1. dk # 0
        BY <3>1, <1>1, Z3
      <4> QED
        BY <4>1, <3>1, <1>1, <1>5
    <3>3. 7 * onk <= 8 * (mo * den)
      <4>1. (7 * ons) * O <= (8 * md) * O
        <5> HIDE DEF ons, md
        <5> QED
          BY <1>1, <1>7, MulMonotone
      <4>2. (7 * ons) * O = 7 * onk /\ (8 * md) * O = 8 * (mo * den)
        BY <1>1, <1>2, <1>3, <1>5, Z3
      <4> QED
        BY <4>1, <4>2
    <3>4. 2 * (mo * den) <= se * den
      <4>1. (2 * mo) * den <= se * den
        <5> HIDE DEF mo, se
        <5>1. 2 * mo <= se
          BY <1>7, <1>12, <2>1 DEF se
        <5> QED
          BY <5>1, <1>1, <1>7, <2>1, MulMonotone
      <4>2. (2 * mo) * den = 2 * (mo * den)
        BY <1>1, <1>7, Z3
      <4> QED
        BY <4>1, <4>2
    <3>5. 2 * (se * den) <= dk
      <4>1. (2 * E) * (s * den) <= O * (s * den)
        <5>1. s * den \in Nat
          BY <1>1, <1>3
        <5> QED
          BY <5>1, <1>1, MulMonotone
      <4>2. (2 * E) * (s * den) = 2 * (se * den) /\ O * (s * den) = dk
        BY <1>1, <1>3, Z3
      <4> QED
        BY <4>1, <4>2
    <3>6. mo * den \in Nat /\ se * den \in Nat
      BY <1>1, <1>7, <2>1
    <3>7. onk < dk
      <4> DEFINE x == mo * den
                 y == se * den
      <4>1. x \in Nat /\ y \in Nat /\ 7 * onk <= 8 * x /\ 2 * x <= y /\ 2 * y <= dk
        BY <3>3, <3>4, <3>5, <3>6
      <4> HIDE DEF onk, dk, x, y
      <4> QED
        BY <4>1, <3>2
    <3> HIDE DEF on, k
    <3> QED
      BY <3>1, <3>7, <1>1, <1>5, MulCancel
  <2> QED
    BY <2>6, <2>7, <1>10 DEF q, den, on, num, E
<1>13. s * E \in Nat
  BY <1>1, <1>3
<1> QED
  BY <1>7, <1>11, <1>12, <1>13

(* What is rounded is no more than a part above, or close to 0.             *)
LEMMA NearestBelow ==
    ASSUME NEW n \in Nat, NEW d \in Nat \ {0}, n <= d * Top
    PROVE  /\ Nearest(n, d) \in Nat
           /\ Below(Nearest(n, d) * d, n, 1) \/ Nearest(n, d) <= F64_EXACT
<1> DEFINE E == F64_EXACT
           y == Nearest(n, d)
           yd == y * d
           de == d * E
<1>1. E \in Nat /\ E >= 256 /\ y \in Nat
  BY F64Facts, NearestFacts
<1>2. CASE de <= 2 * n
  BY <1>1, <1>2, NearRound DEF Near
<1>3. CASE 2 * n < de
  <2>1. PICK off \in {2 * n, d * E} : 2 * (E * yd) <= 2 * (E * n) + off
    BY NearestFacts
  <2> HIDE DEF y
  <2>2. yd \in Nat /\ de \in Nat /\ de # 0
    <3>1. de # 0
      BY <1>1, Z3
    <3> QED
      BY <3>1, <1>1
  <2>3. off <= de /\ off \in Nat
    BY <2>1, <2>2, <1>3
  <2>4. 2 * (E * n) <= E * de
    <3>1. (2 * n) * E <= de * E
      BY <1>1, <1>3, <2>2, MulMonotone
    <3>2. (2 * n) * E = 2 * (E * n) /\ de * E = E * de
      BY <1>1, <2>2
    <3> QED
      BY <3>1, <3>2
  <2>5. (2 * y) * de <= (E + 1) * de
    <3>1. (2 * y) * de = 2 * (E * yd) /\ (E + 1) * de = E * de + de
      BY <1>1, Z3
    <3>2. E * yd \in Nat /\ E * n \in Nat /\ E * de \in Nat
      BY <1>1, <2>2
    <3> HIDE DEF yd, de
    <3> QED
      BY <3>1, <3>2, <2>1, <2>2, <2>3, <2>4
  <2>6. 2 * y <= E + 1
    <3>1. 2 * y \in Nat /\ E + 1 \in Nat
      BY <1>1
    <3> HIDE DEF de
    <3> QED
      BY <3>1, <2>2, <2>5, MulCancelLeq
  <2> QED
    BY <2>6, <1>1 DEF y
<1>4. de \in Nat
  BY <1>1
<1> QED
  BY <1>1, <1>2, <1>3, <1>4

(* What the program pays, on the curve.                                     *)
LEMMA PaidOnCurve ==
    ASSUME NEW in \in 1 .. U128_MAX, NEW out \in 1 .. U128_MAX, NEW fee \in FEE_TIERS,
           NEW amount \in 1 .. U128_MAX
    PROVE  LET F == ExactInputOut(in, out, fee, amount)
           IN  F \in Nat /\ F < out /\ F * Den(in, amount, fee) <= out * Num(amount, fee)
<1> DEFINE D == FEE_BPS_DENOMINATOR
           num == Num(amount, fee)
           e == EffectiveIn(amount, fee)
           F == ExactInputOut(in, out, fee, amount)
           den == Den(in, amount, fee)
<1>1. /\ D \in Nat \ {0} /\ num \in Nat /\ den \in Nat \ {0} /\ den = in * D + num
      /\ in \in Nat \ {0} /\ out \in Nat \ {0} /\ amount \in Nat
  BY NumFacts, F64Facts
<1>2. e \in Nat /\ e * D <= num
  <2>1. e = num \div D
    BY DEF EffectiveIn, Num
  <2> HIDE DEF num, e
  <2> QED
    BY <2>1, <1>1, DivFacts
<1>3. F \in Nat /\ F < out /\ F * (in + e) <= out * e
  <2>1. F \in Nat /\ F < out
    BY <1>1, ExactInputFacts
  <2>2. F = (out * e) \div (in + e)
    BY DEF ExactInputOut
  <2> HIDE DEF F, e
  <2>3. out * e \in Nat /\ in + e \in Nat \ {0}
    BY <1>1, <1>2
  <2> QED
    BY <2>1, <2>2, <2>3, DivFacts
<1> HIDE DEF D, num, e, F, den
<1>4. F * in <= (out - F) * e
  BY <1>1, <1>2, <1>3
<1>5. (F * in) * D <= ((out - F) * e) * D
  <2>1. F * in \in Nat /\ (out - F) * e \in Nat
    BY <1>1, <1>2, <1>3
  <2> QED
    BY <2>1, <1>1, <1>4, MulMonotone
<1>6. (e * D) * (out - F) <= num * (out - F)
  <2>1. e * D \in Nat /\ out - F \in Nat
    BY <1>1, <1>2, <1>3
  <2> QED
    BY <2>1, <1>1, <1>2, MulMonotone
<1>7. F * (in * D) <= (out - F) * num
  <2>1. ((out - F) * e) * D = (e * D) * (out - F)
    BY <1>1, <1>2, <1>3, Z3
  <2>2. (F * in) * D = F * (in * D)
    BY <1>1, <1>3, Z3
  <2>3. num * (out - F) = (out - F) * num
    BY <1>1, <1>3
  <2>4. F * (in * D) \in Nat /\ (e * D) * (out - F) \in Nat /\ num * (out - F) \in Nat
    BY <1>1, <1>2, <1>3
  <2> QED
    BY <2>1, <2>2, <2>3, <2>4, <1>5, <1>6
<1>8. F * den <= out * num
  <2>1. (out - F) * num = out * num - F * num
    BY <1>1, <1>3
  <2>2. F * den = F * (in * D) + F * num
    BY <1>1, <1>3
  <2>3. F * num \in Nat /\ out * num \in Nat /\ F * (in * D) \in Nat
    BY <1>1, <1>3
  <2> QED
    BY <2>1, <2>2, <2>3, <1>7
<1> QED
  BY <1>3, <1>8 DEF F, den, num

(* One unit of effective input more is beyond it.                           *)
LEMMA OneMoreOffCurve ==
    ASSUME NEW in \in 1 .. U128_MAX, NEW out \in 1 .. U128_MAX, NEW fee \in FEE_TIERS,
           NEW amount \in 1 .. U128_MAX
    PROVE  LET one == EffectiveIn(amount, fee) + 1
               K == CeilDiv(out * one, in + one)
           IN  /\ K \in Nat /\ K <= out
               /\ out * Num(amount, fee) <= K * Den(in, amount, fee)
<1> DEFINE D == FEE_BPS_DENOMINATOR
           num == Num(amount, fee)
           one == EffectiveIn(amount, fee) + 1
           K == CeilDiv(out * one, in + one)
           den == Den(in, amount, fee)
<1>1. /\ D \in Nat \ {0} /\ num \in Nat /\ den \in Nat \ {0} /\ den = in * D + num
      /\ in \in Nat \ {0} /\ out \in Nat \ {0} /\ amount \in Nat
  BY NumFacts, F64Facts
<1>2. one \in Nat \ {0} /\ num <= one * D
  <2> DEFINE e == EffectiveIn(amount, fee)
  <2>1. e = num \div D
    BY DEF EffectiveIn, Num
  <2> HIDE DEF num, e
  <2>2. e \in Nat /\ num < e * D + D
    BY <2>1, <1>1, DivFacts
  <2>3. (e + 1) * D = e * D + D
    BY <2>2, <1>1
  <2>4. e * D + D \in Nat
    BY <2>2, <1>1
  <2> QED
    BY <2>2, <2>3, <2>4, <1>1 DEF e
<1> HIDE DEF num, one, den
<1>3. K \in Nat /\ K * (in + one) >= out * one /\ K <= out
  <2>1. out * one \in Nat /\ in + one \in Nat \ {0}
    BY <1>1, <1>2
  <2>2. out * one <= out * (in + one)
    <3>1. one * out <= (in + one) * out
      BY <1>1, <1>2, MulMonotone
    <3> QED
      BY <3>1, <1>1, <1>2
  <2> QED
    BY <2>1, <2>2, <1>1, CeilDivFacts, CeilDivAtMost
<1> HIDE DEF D, K
<1>4. (out - K) * one <= K * in
  BY <1>1, <1>2, <1>3
<1>5. ((out - K) * one) * D <= (K * in) * D
  <2>1. (out - K) * one \in Nat /\ K * in \in Nat
    BY <1>1, <1>2, <1>3
  <2> QED
    BY <2>1, <1>1, <1>4, MulMonotone
<1>6. num * (out - K) <= (one * D) * (out - K)
  <2>1. one * D \in Nat /\ out - K \in Nat
    BY <1>1, <1>2, <1>3
  <2> QED
    BY <2>1, <1>1, <1>2, MulMonotone
<1>7. (out - K) * num <= K * (in * D)
  <2>1. ((out - K) * one) * D = (one * D) * (out - K)
    BY <1>1, <1>2, <1>3, Z3
  <2>2. (K * in) * D = K * (in * D)
    BY <1>1, <1>3, Z3
  <2>3. num * (out - K) = (out - K) * num
    BY <1>1, <1>3
  <2>4. K * (in * D) \in Nat /\ (one * D) * (out - K) \in Nat /\ num * (out - K) \in Nat
    BY <1>1, <1>2, <1>3
  <2> QED
    BY <2>1, <2>2, <2>3, <2>4, <1>5, <1>6
<1>8. out * num <= K * den
  <2>1. (out - K) * num = out * num - K * num
    BY <1>1, <1>3
  <2>2. K * den = K * (in * D) + K * num
    BY <1>1, <1>3
  <2>3. K * num \in Nat /\ out * num \in Nat /\ K * (in * D) \in Nat
    BY <1>1, <1>3
  <2> QED
    BY <2>1, <2>2, <2>3, <1>7
<1> QED
  BY <1>3, <1>8 DEF K, den, num, one

(* So the curve in doubles is below the one, and above the other.           *)
LEMMA CurveBounds ==
    ASSUME NEW in \in 1 .. U128_MAX, NEW out \in 1 .. U128_MAX,
           NEW amount \in 1 .. U128_MAX, NEW fee \in FEE_TIERS
    PROVE  LET q == Curve(in, out, amount, fee)
               F == ExactInputOut(in, out, fee, amount)
               one == EffectiveIn(amount, fee) + 1
               K == AtLeastOne(CeilDiv(out * one, in + one))
           IN  /\ q \in Nat /\ F \in Nat /\ K \in 1 .. U128_MAX
               /\ Below(q, K * F64_ONE, 12)
               /\ F # 0 => Below(F * F64_ONE, q, 12)
<1> DEFINE O == F64_ONE
           E == F64_EXACT
           q == Curve(in, out, amount, fee)
           F == ExactInputOut(in, out, fee, amount)
           one == EffectiveIn(amount, fee) + 1
           C == CeilDiv(out * one, in + one)
           K == AtLeastOne(C)
           on == out * Num(amount, fee)
           den == Den(in, amount, fee)
<1>1. /\ O \in Nat /\ E \in Nat /\ E >= 256 /\ O >= 2 * E /\ den \in Nat \ {0}
      /\ on \in Nat /\ out \in Nat \ {0} /\ out <= U128_MAX /\ U128_MAX \in Nat
  BY NumFacts, F64Facts
<1>2. q \in Nat /\ (Near(q * den, on * O, 12) \/ (q <= E /\ on < den))
  BY CurveFacts
<1>3. F \in Nat /\ F * den <= on
  BY PaidOnCurve
<1>4. C \in Nat /\ C <= out /\ on <= C * den
  BY OneMoreOffCurve
<1> HIDE DEF O, E, q, F, one, C, on, den
<1>5. K \in 1 .. U128_MAX /\ C <= K /\ K \in Nat
  BY <1>1, <1>4 DEF AtLeastOne
<1> HIDE DEF K
<1>6. on * O <= (K * O) * den
  <2>1. C * den <= K * den
    BY <1>1, <1>4, <1>5, MulMonotone
  <2>2. C * den \in Nat /\ K * den \in Nat
    BY <1>1, <1>4, <1>5
  <2>3. on * O <= (K * den) * O
    <3>1. on <= K * den
      BY <2>1, <2>2, <1>1, <1>4
    <3> QED
      BY <3>1, <2>2, <1>1, MulMonotone
  <2>4. (K * den) * O = (K * O) * den
    BY <1>1, <1>5, Z3
  <2> QED
    BY <2>3, <2>4
<1>7. (F * O) * den <= on * O
  <2>1. F * den \in Nat
    BY <1>1, <1>3
  <2>2. (F * den) * O <= on * O
    BY <2>1, <1>1, <1>3, MulMonotone
  <2>3. (F * den) * O = (F * O) * den
    BY <1>1, <1>3, Z3
  <2> QED
    BY <2>2, <2>3
<1>8. /\ q * den \in Nat /\ on * O \in Nat /\ (K * O) * den \in Nat /\ (F * O) * den \in Nat
      /\ K * O \in Nat /\ F * O \in Nat
      /\ 12 + 0 <= F64_EXACT /\ 0 + 12 <= F64_EXACT /\ 12 <= F64_EXACT
      /\ 12 + 0 = 12 /\ 0 + 12 = 12
  BY <1>1, <1>2, <1>3, <1>5 DEF E
<1>9. Below(q, K * O, 12)
  <2>1. CASE Near(q * den, on * O, 12)
    <3>1. Below(q * den, on * O, 12)
      BY <2>1 DEF Near
    <3>2. Below(on * O, (K * O) * den, 0)
      BY <1>6, <1>8, BelowAtMost
    <3>3. Below(q * den, (K * O) * den, 12 + 0)
      BY <3>1, <3>2, <1>8, BelowTrans
    <3>4. Below(q * den, (K * O) * den, 12)
      BY <3>3, <1>8
    <3> QED
      BY <3>4, <1>1, <1>2, <1>8, BelowCancel
  <2>2. CASE q <= E
    <3>1. q <= K * O
      <4>1. 1 * O <= K * O
        BY <1>1, <1>5, MulMonotone
      <4> QED
        BY <4>1, <2>2, <1>1, <1>2, <1>8
    <3>2. Below(q, K * O, 0)
      BY <3>1, <1>2, <1>8, BelowAtMost
    <3> QED
      BY <3>2, <1>2, <1>8, BelowMore
  <2> QED
    BY <2>1, <2>2, <1>2
<1>10. ASSUME F # 0
       PROVE  Below(F * O, q, 12)
  <2>1. ~(on < den)
    <3>1. 1 * den <= F * den
      BY <1>1, <1>3, <1>10, MulMonotone
    <3>2. F * den \in Nat
      BY <1>1, <1>3
    <3> QED
      BY <3>1, <3>2, <1>1, <1>3
  <2>2. Below(on * O, q * den, 12)
    BY <2>1, <1>2 DEF Near
  <2>3. Below((F * O) * den, on * O, 0)
    BY <1>7, <1>8, BelowAtMost
  <2>4. Below((F * O) * den, q * den, 0 + 12)
    BY <2>2, <2>3, <1>8, BelowTrans
  <2>5. Below((F * O) * den, q * den, 12)
    BY <2>4, <1>8
  <2> QED
    BY <2>5, <1>1, <1>2, <1>8, BelowCancel
<1> QED
  BY <1>2, <1>3, <1>5, <1>9, <1>10 DEF q, F, K, C, one, O

(* The drift is what 32 parts come to, rounded down.                       *)
LEMMA DriftFacts ==
    ASSUME NEW n \in Nat
    PROVE  Drift(n) \in Nat /\ 32 * n < (Drift(n) + 1) * F64_EXACT
<1> DEFINE E == F64_EXACT
           m == 32 * n
           r == m \div E
<1>1. E \in Nat \ {0} /\ m \in Nat
  BY F64Facts
<1>2. Drift(n) = r
  BY DEF Drift
<1> HIDE DEF m, E
<1>3. r \in Nat /\ m < r * E + E
  BY <1>1, DivFacts
<1>4. (r + 1) * E = r * E + E
  BY <1>1, <1>3
<1> QED
  BY <1>2, <1>3, <1>4 DEF m, E

(* The share that is kept.                                                 *)
LEMMA KeptFacts ==
    ASSUME NEW slip \in 0 .. (100 * F64_ONE - 1)
    PROVE  LET u == Kept(slip)
               all == 100 * F64_ONE
           IN  /\ u \in Nat /\ u <= F64_ONE
               /\ F64_EXACT * ((all - slip) * F64_ONE)
                    <= F64_EXACT * (u * all) + 2 * (all * F64_ONE)
               /\ 2 * slip <= all => Near((all - slip) * F64_ONE, u * all, 2)
<1> DEFINE O == F64_ONE
           all == 100 * O
           n == slip * O
           ao == all * O
           g == FSub(O, Nearest(n, all))
<1>1. O \in Nat \ {0} /\ slip \in Nat /\ slip < all /\ all \in Nat \ {0}
  BY F64Facts
<1>2. Kept(slip) = g
  BY DEF Kept, FDiv
<1>3. n \in Nat /\ ao \in Nat /\ ao - n = (all - slip) * O
  <2> HIDE DEF all
  <2> QED
    BY <1>1
<1>4. n <= ao /\ (2 * slip <= all => 2 * n <= ao)
  <2> HIDE DEF all
  <2>1. slip * O <= all * O
    BY <1>1, MulMonotone
  <2>2. ASSUME 2 * slip <= all PROVE 2 * n <= ao
    <3>1. (2 * slip) * O <= all * O
      BY <1>1, <2>2, MulMonotone
    <3>2. (2 * slip) * O = 2 * n
      BY <1>1
    <3> QED
      BY <3>1, <3>2
  <2> QED
    BY <2>1, <2>2
<1> HIDE DEF n, all
<1>5. /\ g \in Nat /\ g <= O
      /\ F64_EXACT * (ao - n) <= F64_EXACT * (g * all) + 2 * ao
      /\ 2 * n <= ao => Near(ao - n, g * all, 2)
  BY <1>1, <1>3, <1>4, ComplementFacts
<1> HIDE DEF ao, g
<1>6. /\ F64_EXACT * ((all - slip) * O) <= F64_EXACT * (g * all) + 2 * ao
      /\ 2 * slip <= all => Near((all - slip) * O, g * all, 2)
  BY <1>3, <1>4, <1>5
<1> QED
  BY <1>2, <1>5, <1>6 DEF O, all, ao

(* The quote as it is printed.                                              *)
LEMMA PrintedFacts ==
    ASSUME NEW q \in Nat
    PROVE  LET k == Printed(q)
           IN  /\ k \in Nat
               /\ 4 * (k * F64_ONE) <= 4 * (q * QUOTE_UNIT) + 2 * F64_ONE
               /\ 4 * (q * QUOTE_UNIT) <= 4 * (k * F64_ONE) + 2 * F64_ONE
<1> DEFINE O == F64_ONE
           U == QUOTE_UNIT
           n == 2 * q * U + O
           d == 2 * O
           k == n \div d
<1>1. O \in Nat \ {0} /\ U \in Nat /\ U >= 2
  BY F64Facts, SwapCardAssumption
<1>2. n \in Nat /\ d \in Nat \ {0} /\ n = 2 * (q * U) + O
  BY <1>1
<1>3. Printed(q) = k
  BY DEF Printed
<1> HIDE DEF n, d
<1>4. k \in Nat /\ k * d <= n /\ n < k * d + d
  BY <1>2, DivFacts
<1>5. k * d = 2 * (k * O) /\ d = 2 * O
  BY <1>1, <1>4 DEF d
<1> HIDE DEF k
<1>6. k * O \in Nat /\ q * U \in Nat
  BY <1>1, <1>4
<1> QED
  BY <1>1, <1>2, <1>3, <1>4, <1>5, <1>6 DEF O, U

(* The quote read again as a double.                                        *)
ReadBack(k) == Nearest(k * F64_ONE, QUOTE_UNIT)

(* It is a double of the model, and little above the curve.                *)
LEMMA ReadBackInRange ==
    ASSUME NEW q \in Nat, NEW K \in 1 .. U128_MAX, Below(q, K * F64_ONE, 12)
    PROVE  LET k == Printed(q)
           IN  /\ k \in Nat /\ k * F64_ONE \in Nat
               /\ k * F64_ONE <= QUOTE_UNIT * Top
               /\ Below(4 * (k * F64_ONE), (4 * K + 1) * (QUOTE_UNIT * F64_ONE), 12)
<1> DEFINE O == F64_ONE
           U == QUOTE_UNIT
           E == F64_EXACT
           k == Printed(q)
           kO == k * O
           qU == q * U
           uO == U * O
           KO == K * O
<1>1. O \in Nat \ {0} /\ U \in Nat /\ U >= 2 /\ E \in Nat /\ E >= 256 /\ O >= 2 * E
      /\ K \in Nat \ {0} /\ Top \in Nat
  BY F64Facts, SwapCardAssumption, TopFacts
<1>2. k \in Nat /\ 4 * kO <= 4 * qU + 2 * O
  BY PrintedFacts
<1> HIDE DEF O, U, E, k
<1>3. kO \in Nat /\ qU \in Nat /\ uO \in Nat /\ KO \in Nat /\ 2 * O <= uO
  <2>1. 2 * O <= U * O
    BY <1>1, MulMonotone
  <2> QED
    BY <2>1, <1>1, <1>2
<1>4. Below(4 * kO, (4 * K + 1) * uO, 12)
  <2>1. Below(qU, KO * U, 12)
    <3>1. 12 <= F64_EXACT
      BY <1>1 DEF E
    <3>2. Below(q, KO, 12)
      BY DEF KO, O
    <3> HIDE DEF KO
    <3> QED
      BY <3>1, <3>2, <1>1, <1>3, BelowScale
  <2>2. Below(4 * qU, 4 * (KO * U), 12)
    <3>1. 12 <= F64_EXACT /\ KO * U \in Nat
      BY <1>1, <1>3 DEF E
    <3> DEFINE KOU == KO * U
    <3> HIDE DEF qU, KO, KOU
    <3>2. Below(qU * 4, KOU * 4, 12)
      BY <3>1, <2>1, <1>3, BelowScale DEF KOU
    <3>3. qU * 4 = 4 * qU /\ KOU * 4 = 4 * KOU
      BY <3>1, <1>3 DEF KOU
    <3> QED
      BY <3>2, <3>3 DEF KOU
  <2>3. Below(2 * O, uO, 12)
    <3>1. Below(2 * O, uO, 0)
      <4>1. 2 * O \in Nat
        BY <1>1
      <4> QED
        BY <4>1, <1>3, BelowAtMost
    <3>2. 0 <= 12 /\ 12 <= F64_EXACT /\ 2 * O \in Nat
      BY <1>1 DEF E
    <3> HIDE DEF uO
    <3> QED
      BY <3>1, <3>2, <1>3, BelowMore
  <2>4. Below(4 * qU + 2 * O, 4 * (KO * U) + uO, 12)
    <3>1. 12 <= F64_EXACT /\ 4 * qU \in Nat /\ 4 * (KO * U) \in Nat /\ 2 * O \in Nat
      BY <1>1, <1>3 DEF E
    <3> QED
      BY <3>1, <2>2, <2>3, <1>3, BelowSum
  <2>5. 4 * (KO * U) + uO = (4 * K + 1) * uO
    BY <1>1, Z3
  <2>6. Below(4 * kO, 4 * qU + 2 * O, 0)
    <3>1. 4 * kO \in Nat /\ 4 * qU + 2 * O \in Nat
      BY <1>1, <1>3
    <3> QED
      BY <3>1, <1>2, BelowAtMost
  <2>7. Below(4 * kO, (4 * K + 1) * uO, 0 + 12)
    <3> DEFINE x == 4 * kO
               y == 4 * qU + 2 * O
               z == (4 * K + 1) * uO
    <3>1. x \in Nat /\ y \in Nat /\ z \in Nat /\ 0 + 12 <= F64_EXACT
      BY <1>1, <1>3 DEF E
    <3>2. Below(x, y, 0) /\ Below(y, z, 12)
      BY <2>4, <2>5, <2>6
    <3> HIDE DEF x, y, z
    <3>3. Below(x, z, 0 + 12)
      BY <3>1, <3>2, BelowTrans
    <3> QED
      BY <3>3 DEF x, z
  <2> QED
    BY <2>7
<1>5. kO <= U * Top
  <2>1. q <= 2 * KO
    <3> DEFINE x == E - 12
    <3>1. x \in Nat \ {0} /\ E <= 2 * x /\ q * x <= KO * E
      BY <1>1 DEF Below, E, KO, O
    <3> HIDE DEF x, KO
    <3>2. E * KO <= (2 * x) * KO
      BY <3>1, <1>1, <1>3, MulMonotone
    <3>3. q * x <= (2 * KO) * x
      <4>1. E * KO = KO * E /\ (2 * x) * KO = (2 * KO) * x /\ KO * E \in Nat
            /\ (2 * KO) * x \in Nat /\ q * x \in Nat
        BY <3>1, <1>1, <1>3, Z3
      <4> QED
        BY <4>1, <3>1, <3>2
    <3> QED
      BY <3>1, <3>3, <1>3, MulCancelLeq
  <2>2. qU <= (2 * KO) * U
    <3> HIDE DEF KO
    <3> QED
      BY <2>1, <1>1, <1>3, MulMonotone
  <2>3. kO <= (2 * KO) * U + uO
    <3>1. (2 * KO) * U \in Nat
      BY <1>1, <1>3
    <3> HIDE DEF kO, qU, uO, KO
    <3> QED
      BY <3>1, <2>2, <1>1, <1>2, <1>3
  <2>4. (2 * KO) * U + uO = U * ((2 * K + 1) * O)
    BY <1>1, Z3
  <2>5. (2 * K + 1) * O <= Top
    <3>1. 2 * K + 1 \in Nat /\ 2 * K + 1 <= 4 * U128_MAX
      BY <1>1, TopFacts
    <3> QED
      BY <3>1, TopFacts DEF O
  <2>6. ((2 * K + 1) * O) * U <= Top * U
    <3>1. (2 * K + 1) * O \in Nat
      BY <1>1
    <3> QED
      BY <3>1, <2>5, <1>1, MulMonotone
  <2>7. U * ((2 * K + 1) * O) = ((2 * K + 1) * O) * U /\ U * Top = Top * U
        /\ U * Top \in Nat /\ U * ((2 * K + 1) * O) \in Nat
    BY <1>1
  <2> QED
    BY <2>3, <2>4, <2>6, <2>7, <1>3
<1> QED
  BY <1>2, <1>3, <1>4, <1>5 DEF k, O, U

(* So is what is read.                                                     *)
LEMMA ReadBackAbove ==
    ASSUME NEW q \in Nat, NEW K \in 1 .. U128_MAX, Below(q, K * F64_ONE, 12)
    PROVE  LET o == ReadBack(Printed(q))
           IN  /\ o \in Nat /\ o <= Top
               /\ Below(4 * o, (4 * K + 1) * F64_ONE, 13)
<1> DEFINE O == F64_ONE
           U == QUOTE_UNIT
           E == F64_EXACT
           kO == Printed(q) * O
           o == ReadBack(Printed(q))
           t == (4 * K + 1) * O
<1>1. O \in Nat \ {0} /\ U \in Nat \ {0} /\ E \in Nat /\ E >= 256 /\ O >= 2 * E
      /\ K \in Nat \ {0} /\ Top \in Nat /\ t \in Nat
  BY F64Facts, SwapCardAssumption, TopFacts
<1>2. kO \in Nat /\ kO <= U * Top /\ Below(4 * kO, (4 * K + 1) * (U * O), 12)
  BY ReadBackInRange
<1>3. o = Nearest(kO, U)
  BY DEF ReadBack
<1> HIDE DEF O, U, E, kO
<1>4. o \in Nat /\ (Below(o * U, kO, 1) \/ o <= E)
  <2> HIDE DEF o
  <2> QED
    BY <1>1, <1>2, <1>3, NearestBelow DEF E
<1> HIDE DEF o
<1>5. Below(4 * o, t, 13)
  <2>1. CASE Below(o * U, kO, 1)
    <3> DEFINE x == (4 * o) * U
               y == 4 * kO
               z == t * U
    <3>1. x \in Nat /\ y \in Nat /\ z \in Nat /\ o * U \in Nat /\ 4 * o \in Nat
          /\ 1 <= F64_EXACT /\ 1 + 12 <= F64_EXACT /\ 13 <= F64_EXACT /\ 1 + 12 = 13
      BY <1>1, <1>2, <1>4 DEF E
    <3>2. Below((o * U) * 4, kO * 4, 1)
      BY <2>1, <3>1, <1>2, BelowScale
    <3>3. (o * U) * 4 = x /\ kO * 4 = y /\ (4 * K + 1) * (U * O) = z
      BY <1>1, <1>2, <1>4, Z3
    <3>4. Below(x, y, 1) /\ Below(y, z, 12)
      BY <3>2, <3>3, <1>2
    <3> HIDE DEF x, y, z
    <3>5. Below(x, z, 1 + 12)
      BY <3>1, <3>4, BelowTrans
    <3>6. Below((4 * o) * U, t * U, 13)
      BY <3>1, <3>5 DEF x, z
    <3> HIDE DEF t
    <3> QED
      BY <3>1, <3>6, <1>1, BelowCancel
  <2>2. CASE o <= E
    <3>1. 4 * o <= t /\ 4 * o \in Nat
      <4>1. 5 * O <= t
        <5>1. 5 * O <= (4 * K + 1) * O
          BY <1>1, MulMonotone
        <5> QED
          BY <5>1
      <4> QED
        BY <4>1, <2>2, <1>1, <1>4
    <3>2. Below(4 * o, t, 0)
      BY <3>1, <1>1, BelowAtMost
    <3>3. 0 <= 13 /\ 13 <= F64_EXACT
      BY <1>1 DEF E
    <3> HIDE DEF t
    <3> QED
      BY <3>1, <3>2, <3>3, <1>1, BelowMore
  <2> QED
    BY <2>1, <2>2, <1>4
<1>6. o <= Top
  <2> DEFINE x == E - 13
  <2>1. x \in Nat \ {0} /\ E <= 2 * x /\ (4 * o) * x <= t * E
    BY <1>1, <1>5 DEF Below, E
  <2> HIDE DEF x, t
  <2>2. E * t <= (2 * x) * t
    BY <2>1, <1>1, MulMonotone
  <2>3. (2 * o) * x <= t * x
    <3>1. E * t = t * E /\ (2 * x) * t = 2 * (t * x) /\ (4 * o) * x = 2 * ((2 * o) * x)
      BY <2>1, <1>1, <1>4, Z3
    <3>2. t * E \in Nat /\ t * x \in Nat /\ (2 * o) * x \in Nat
      BY <2>1, <1>1, <1>4
    <3> QED
      BY <3>1, <3>2, <2>1, <2>2
  <2>4. 2 * o <= t
    <3>1. 2 * o \in Nat
      BY <1>4
    <3> QED
      BY <3>1, <2>1, <2>3, <1>1, MulCancelLeq
  <2>5. (3 * K) * O <= Top
    <3>1. 3 * K \in Nat /\ 3 * K <= 4 * U128_MAX
      BY <1>1, TopFacts
    <3> QED
      BY <3>1, TopFacts DEF O
  <2>6. t <= 2 * ((3 * K) * O)
    <3>1. (4 * K + 1) * O <= (6 * K) * O
      BY <1>1, MulMonotone
    <3>2. (6 * K) * O = 2 * ((3 * K) * O)
      BY <1>1, Z3
    <3> QED
      BY <3>1, <3>2 DEF t
  <2>7. (3 * K) * O \in Nat
    BY <1>1
  <2> QED
    BY <2>4, <2>5, <2>6, <2>7, <1>1, <1>4
<1> QED
  BY <1>4, <1>5, <1>6 DEF o, O

(* A bound from above in doubles is one within the drift.                   *)
LEMMA WithinDrift ==
    ASSUME NEW n \in Nat, NEW K \in Nat, Below(4 * n, 4 * K + 1, 15)
    PROVE  n <= K + Drift(K)
<1> DEFINE E == F64_EXACT
           D == Drift(K)
           DE == (D + 1) * E
<1>1. E \in Nat /\ E >= 256 /\ (4 * n) * (E - 15) <= (4 * K + 1) * E
  BY F64Facts DEF Below
<1>2. D \in Nat /\ 32 * K < DE /\ DE \in Nat
  <2>1. D \in Nat /\ 32 * K < DE
    BY DriftFacts
  <2> HIDE DEF D
  <2> QED
    BY <2>1, <1>1
<1> HIDE DEF E, D
<1>3. CASE n > K + D
  <2>1. (4 * (K + 1 + D)) * (E - 15) <= (4 * n) * (E - 15)
    <3>1. 4 * (K + 1 + D) \in Nat /\ 4 * n \in Nat /\ E - 15 \in Nat /\ 4 * (K + 1 + D) <= 4 * n
      BY <1>1, <1>2, <1>3
    <3> QED
      BY <3>1, MulMonotone
  <2> DEFINE KE == K * E
  <2>2. (4 * (K + 1 + D)) * (E - 15) = 4 * KE + 4 * DE - 60 * K - 60 * (D + 1)
    BY <1>1, <1>2, Z3
  <2>3. (4 * K + 1) * E = 4 * KE + E
    BY <1>1, Z3
  <2>4. 256 * (D + 1) <= DE
    <3>1. 256 * (D + 1) <= E * (D + 1)
      BY <1>1, <1>2, MulMonotone
    <3> QED
      BY <3>1, <1>1, <1>2
  <2>5. E <= DE
    <3>1. 1 * E <= (D + 1) * E
      BY <1>1, <1>2, MulMonotone
    <3> QED
      BY <3>1, <1>1
  <2>6. KE \in Nat /\ (4 * n) * (E - 15) \in Nat
    BY <1>1
  <2> DEFINE x == (4 * n) * (E - 15)
  <2>7. 4 * KE + 4 * DE - 60 * K - 60 * (D + 1) <= x /\ x <= 4 * KE + E /\ x \in Nat
    BY <2>1, <2>2, <2>3, <2>6, <1>1
  <2> HIDE DEF KE, DE, x
  <2> QED
    BY <2>4, <2>5, <2>6, <2>7, <1>1, <1>2
<1> QED
  BY <1>2, <1>3 DEF D

(* At most half is taken off.                                              *)
Taken(slip) == Least(50 * F64_ONE, slip)

(* It is a share, and not more than the user allows.                       *)
LEMMA TakenFacts ==
    ASSUME NEW slip \in 0 .. (100 * F64_ONE - 1)
    PROVE  /\ Taken(slip) \in 0 .. (100 * F64_ONE - 1)
           /\ 2 * Taken(slip) <= 100 * F64_ONE
           /\ Taken(slip) <= slip
<1>1. F64_ONE \in Nat /\ F64_ONE >= 512 /\ slip \in Nat
  BY F64Facts
<1> DEFINE O == F64_ONE
<1> HIDE DEF O
<1> QED
  BY <1>1 DEF Taken, Least

(* What a share of a double floors to.                                      *)
LEMMA FloorFacts ==
    ASSUME NEW v \in Nat
    PROVE  Floor(v) \in Nat /\ Floor(v) * F64_ONE <= v /\ v < (Floor(v) + 1) * F64_ONE
<1> DEFINE O == F64_ONE
           m == v \div O
<1>1. O \in Nat \ {0}
  BY F64Facts
<1>2. Floor(v) = m
  BY DEF Floor
<1> HIDE DEF O
<1>3. m \in Nat /\ m * O <= v /\ v < m * O + O
  BY <1>1, DivFacts
<1> HIDE DEF m
<1>4. (m + 1) * O = m * O + O
  BY <1>1, <1>3
<1> QED
  BY <1>2, <1>3, <1>4 DEF O

(* A share of a double is not above it by more than a part, once floored.   *)
LEMMA ShareBelow ==
    ASSUME NEW x \in Nat, x <= Top, NEW u \in Nat, u <= F64_ONE
    PROVE  /\ FMul(x, u) \in Nat
           /\ Below(FMul(x, u), x, 1) \/ FMul(x, u) <= F64_EXACT
<1> DEFINE O == F64_ONE
           n == x * u
           v == FMul(x, u)
<1>1. O \in Nat \ {0} /\ Top \in Nat /\ n \in Nat /\ 1 <= F64_EXACT /\ F64_EXACT \in Nat
  BY F64Facts, TopFacts
<1>2. v = Nearest(n, O)
  BY DEF FMul
<1> HIDE DEF O, v
<1>3. n <= x * O /\ x * O \in Nat
  <2>1. u * x <= O * x
    BY <1>1, MulMonotone DEF O
  <2> QED
    BY <2>1, <1>1
<1>4. n <= O * Top
  <2>1. x * O <= Top * O
    BY <1>1, MulMonotone
  <2> QED
    BY <2>1, <1>1, <1>3
<1> HIDE DEF n
<1>5. v \in Nat /\ (Below(v * O, n, 1) \/ v <= F64_EXACT)
  BY <1>1, <1>2, <1>4, NearestBelow
<1>6. ASSUME Below(v * O, n, 1)
      PROVE  Below(v, x, 1)
  <2>1. Below(n, x * O, 0)
    BY <1>1, <1>3, BelowAtMost
  <2>2. v * O \in Nat /\ 1 + 0 <= F64_EXACT /\ 1 + 0 = 1
    BY <1>1, <1>5
  <2>3. Below(v * O, x * O, 1 + 0)
    BY <2>1, <2>2, <1>1, <1>3, <1>6, BelowTrans
  <2>4. Below(v * O, x * O, 1)
    BY <2>2, <2>3
  <2> QED
    BY <2>4, <1>1, <1>5, BelowCancel
<1> QED
  BY <1>5, <1>6 DEF v

(* The digits of an integral double.                                        *)
LEMMA DigitsFacts ==
    ASSUME NEW m \in Nat, NEW n \in Digits(m)
    PROVE  n \in Nat /\ Near(n, m, 1)
<1>1. n \in 0 .. U128_MAX /\ AsDouble(n) = m * F64_ONE
  <2>1. n \in 0 .. JS_PLAIN /\ JS_PLAIN \in 0 .. U128_MAX /\ AsDouble(n) = m * F64_ONE
    BY SwapCardAssumption DEF Digits
  <2> QED
    BY <2>1, F64Facts
<1>2. Near(n * F64_ONE, m * F64_ONE, 1)
  BY <1>1, AsDoubleFacts
<1>3. n \in Nat /\ F64_ONE \in Nat \ {0} /\ 1 <= F64_EXACT
  BY <1>1, F64Facts
<1> QED
  BY <1>2, <1>3, NearCancel

(* The card asks for no more than the curve gives for a unit more.           *)
LEMMA CardBoundAbove ==
    ASSUME NEW q \in Nat, NEW K \in 1 .. U128_MAX, Below(q, K * F64_ONE, 12),
           NEW slip \in 0 .. (100 * F64_ONE - 1),
           NEW n \in Digits(AtLeastOne(LessSlippage(slip, Printed(q))))
    PROVE  n \in Nat /\ n <= K + Drift(K)
<1> DEFINE O == F64_ONE
           E == F64_EXACT
           o == ReadBack(Printed(q))
           u == Kept(Taken(slip))
           v == FMul(o, u)
           m == Floor(v)
           b == AtLeastOne(m)
           t == 4 * K + 1
<1>1. O \in Nat \ {0} /\ E \in Nat /\ E >= 256 /\ O >= 2 * E /\ K \in Nat \ {0}
      /\ t \in Nat /\ t >= 5
  BY F64Facts
<1>2. o \in Nat /\ o <= Top /\ Below(4 * o, t * O, 13)
  BY ReadBackAbove
<1>3. u \in Nat /\ u <= O
  BY TakenFacts, KeptFacts
<1>4. n \in Digits(b)
  BY DEF LessSlippage, ReadBack, Taken
<1> HIDE DEF O, E, o, u, v, m, b, t
<1>5. v \in Nat /\ (Below(v, o, 1) \/ v <= E)
  BY <1>2, <1>3, ShareBelow DEF O, E, v
<1>6. m \in Nat /\ m * O <= v
  BY <1>5, FloorFacts DEF m, O
<1>7. /\ 4 * m \in Nat /\ 4 * v \in Nat /\ 4 * o \in Nat /\ t * O \in Nat /\ (4 * m) * O \in Nat
      /\ 4 <= F64_EXACT /\ 1 <= F64_EXACT /\ 1 + 13 <= F64_EXACT /\ 1 + 13 = 14
      /\ 0 + 14 <= F64_EXACT /\ 0 + 14 = 14 /\ 14 <= F64_EXACT
      /\ 1 + 14 <= F64_EXACT /\ 1 + 14 = 15 /\ 0 <= 14
  BY <1>1, <1>2, <1>5, <1>6 DEF E
<1>8. Below(4 * m, t, 14)
  <2>1. CASE Below(v, o, 1)
    <3>1. Below(v * 4, o * 4, 1)
      BY <2>1, <1>2, <1>5, <1>7, BelowScale
    <3>2. v * 4 = 4 * v /\ o * 4 = 4 * o
      BY <1>2, <1>5
    <3>3. Below(4 * v, 4 * o, 1)
      BY <3>1, <3>2
    <3>4. Below(4 * v, t * O, 1 + 13)
      BY <3>3, <1>2, <1>7, BelowTrans
    <3>5. Below((4 * m) * O, 4 * v, 0)
      <4>1. (4 * m) * O <= 4 * v
        <5>1. (4 * m) * O = 4 * (m * O) /\ m * O \in Nat
          BY <1>1, <1>6
        <5> QED
          BY <5>1, <1>5, <1>6
      <4> QED
        BY <4>1, <1>7, BelowAtMost
    <3>6. Below((4 * m) * O, t * O, 0 + 14)
      BY <3>4, <3>5, <1>7, BelowTrans
    <3>7. Below((4 * m) * O, t * O, 14)
      BY <3>6, <1>7
    <3> QED
      BY <3>7, <1>1, <1>7, BelowCancel
  <2>2. CASE v <= E
    <3>1. m = 0
      <4>1. CASE m >= 1
        <5>1. 1 * O <= m * O
          BY <4>1, <1>1, <1>6, MulMonotone
        <5>2. m * O \in Nat
          BY <1>1, <1>6
        <5> QED
          BY <5>1, <5>2, <2>2, <1>1, <1>5, <1>6
      <4> QED
        BY <4>1, <1>6
    <3>2. 4 * m <= t
      BY <3>1, <1>1
    <3>3. Below(4 * m, t, 0)
      BY <3>2, <1>1, <1>7, BelowAtMost
    <3> QED
      BY <3>3, <1>1, <1>7, BelowMore
  <2> QED
    BY <2>1, <2>2, <1>5
<1>9. b \in Nat /\ Below(4 * b, t, 14)
  <2>1. CASE m < 1
    <3>1. b = 1 /\ 4 * b = 4 /\ 4 * b <= t /\ 4 * b \in Nat
      BY <2>1, <1>1 DEF b, AtLeastOne
    <3>2. Below(4 * b, t, 0)
      BY <3>1, <1>1, BelowAtMost
    <3> QED
      BY <3>1, <3>2, <1>1, <1>7, BelowMore
  <2>2. CASE ~(m < 1)
    BY <2>2, <1>6, <1>8 DEF b, AtLeastOne
  <2> QED
    BY <2>1, <2>2
<1>10. n \in Nat /\ Below(n, b, 1)
  BY <1>4, <1>9, DigitsFacts DEF Near
<1>11. Below(4 * n, t, 15)
  <2>1. Below(n * 4, b * 4, 1)
    BY <1>7, <1>9, <1>10, BelowScale
  <2>2. n * 4 = 4 * n /\ b * 4 = 4 * b /\ 4 * n \in Nat /\ 4 * b \in Nat
    BY <1>9, <1>10
  <2>3. Below(4 * n, 4 * b, 1)
    BY <2>1, <2>2
  <2>4. Below(4 * n, t, 1 + 14)
    BY <2>2, <2>3, <1>1, <1>7, <1>9, BelowTrans
  <2> QED
    BY <2>4, <1>7
<1>12. Below(4 * n, 4 * K + 1, 15)
  BY <1>11 DEF t
<1> QED
  BY <1>10, <1>12, WithinDrift

(* A bound from below in doubles falls short by the drift, and a unit.       *)
LEMMA ShortByDrift ==
    ASSUME NEW P \in Nat, NEW F \in Nat, P <= F, NEW n \in Nat, Below(4 * P, 4 * n + 5, 17)
    PROVE  n >= P - 1 - Drift(F)
<1> DEFINE E == F64_EXACT
           D == Drift(F)
           DE == (D + 1) * E
<1>1. E \in Nat /\ E >= 256 /\ (4 * P) * (E - 17) <= (4 * n + 5) * E
  BY F64Facts DEF Below
<1>2. D \in Nat /\ 32 * F < DE /\ DE \in Nat
  <2>1. D \in Nat /\ 32 * F < DE
    BY DriftFacts
  <2> HIDE DEF D
  <2> QED
    BY <2>1, <1>1
<1> HIDE DEF E, D
<1>3. CASE n < P - 1 - D
  <2> DEFINE PE == P * E
  <2>1. (4 * n + 5) * E <= (4 * P - 3 - 4 * D) * E
    <3>1. 4 * n + 5 \in Nat /\ 4 * P - 3 - 4 * D \in Nat /\ 4 * n + 5 <= 4 * P - 3 - 4 * D
      BY <1>2, <1>3
    <3> QED
      BY <3>1, <1>1, MulMonotone
  <2>2. (4 * P - 3 - 4 * D) * E = 4 * PE + E - 4 * DE
    BY <1>1, <1>2, Z3
  <2>3. (4 * P) * (E - 17) = 4 * PE - 68 * P
    BY <1>1, Z3
  <2>4. E <= DE
    <3>1. 1 * E <= (D + 1) * E
      BY <1>1, <1>2, MulMonotone
    <3> QED
      BY <3>1, <1>1
  <2>5. PE \in Nat /\ (4 * n + 5) * E \in Nat
    BY <1>1
  <2> DEFINE x == (4 * n + 5) * E
  <2>6. 4 * PE - 68 * P <= x /\ x <= 4 * PE + E - 4 * DE /\ x \in Nat
    BY <2>1, <2>2, <2>3, <2>5, <1>1
  <2> HIDE DEF PE, DE, x
  <2> QED
    BY <2>4, <2>5, <2>6, <1>1, <1>2
<1> QED
  BY <1>2, <1>3 DEF D

(* The share of a quote that is promised.                                   *)
LEMMA PromisedFacts ==
    ASSUME NEW F \in Nat, NEW slip \in 0 .. (100 * F64_ONE - 1)
    PROVE  LET all == 100 * F64_ONE
               P == (F * (all - slip)) \div all
           IN  P \in Nat /\ P <= F /\ P * all <= F * (all - slip)
<1> DEFINE all == 100 * F64_ONE
           n == F * (all - slip)
           P == n \div all
<1>1. all \in Nat \ {0} /\ slip \in Nat /\ slip < all
  BY F64Facts
<1> HIDE DEF all
<1>2. n \in Nat /\ n <= F * all
  <2>1. (all - slip) * F <= all * F
    BY <1>1, MulMonotone
  <2> QED
    BY <2>1, <1>1
<1> HIDE DEF n
<1>3. P \in Nat /\ P * all <= n
  BY <1>1, <1>2, DivFacts
<1> HIDE DEF P
<1>4. P * all <= F * all
  <2>1. P * all \in Nat /\ F * all \in Nat
    BY <1>1, <1>3
  <2> QED
    BY <2>1, <1>2, <1>3
<1>5. P <= F
  BY <1>1, <1>3, <1>4, MulCancelLeq
<1> QED
  BY <1>3, <1>5 DEF P, n, all

(* The quote, as the card reads it back, falls short by a quarter at most.   *)
LEMMA ReadBackBelow ==
    ASSUME NEW q \in Nat, NEW K \in 1 .. U128_MAX, Below(q, K * F64_ONE, 12),
           NEW F \in Nat \ {0}, Below(F * F64_ONE, q, 12)
    PROVE  LET o == ReadBack(Printed(q))
           IN  /\ Below((4 * F) * F64_ONE, 4 * o + F64_ONE, 13)
               /\ 5 * F64_ONE <= 8 * o
<1> DEFINE O == F64_ONE
           U == QUOTE_UNIT
           E == F64_EXACT
           k == Printed(q)
           kO == k * O
           qU == q * U
           uO == U * O
           FO == F * O
           o == ReadBack(k)
           FUO == (4 * F) * uO
<1>1. O \in Nat \ {0} /\ U \in Nat /\ U >= 2 /\ U \in Nat \ {0} /\ E \in Nat /\ E >= 256
      /\ O >= 2 * E /\ 1 <= F64_EXACT /\ 12 <= F64_EXACT /\ 12 + 0 <= F64_EXACT
      /\ 12 + 1 <= F64_EXACT /\ 13 <= F64_EXACT /\ 12 + 0 = 12 /\ 12 + 1 = 13
  BY F64Facts, SwapCardAssumption
<1>2. k \in Nat /\ 4 * qU <= 4 * kO + 2 * O
  BY PrintedFacts
<1>3. kO \in Nat /\ kO <= U * Top
  BY ReadBackInRange
<1>4. o = Nearest(kO, U)
  BY DEF ReadBack
<1>5. o \in Nat
  BY ReadBackAbove
<1>6. Below(FO, q, 12)
  OBVIOUS
<1> HIDE DEF O, U, E, k, o, kO
<1>7. qU \in Nat /\ uO \in Nat /\ FO \in Nat /\ FUO \in Nat /\ 2 * O <= uO
  <2>1. 2 * O <= U * O
    BY <1>1, MulMonotone
  <2>2. uO \in Nat
    BY <1>1
  <2> HIDE DEF uO
  <2> QED
    BY <2>1, <2>2, <1>1 DEF uO
<1>8. Below(FUO, 4 * kO + uO, 12)
  <2>1. Below(FO * (4 * U), q * (4 * U), 12)
    <3>1. 4 * U \in Nat
      BY <1>1
    <3> HIDE DEF FO
    <3> QED
      BY <3>1, <1>1, <1>6, <1>7, BelowScale
  <2>2. FO * (4 * U) = FUO /\ q * (4 * U) = 4 * qU
    BY <1>1, Z3
  <2>3. 4 * qU <= 4 * kO + uO /\ 4 * qU \in Nat /\ 4 * kO + uO \in Nat
    <3> HIDE DEF qU, uO
    <3> QED
      BY <1>1, <1>2, <1>3, <1>7
  <2> HIDE DEF qU, uO, FUO
  <2>4. Below(4 * qU, 4 * kO + uO, 0)
    BY <2>3, BelowAtMost
  <2>5. Below(FUO, 4 * qU, 12)
    BY <2>1, <2>2
  <2>6. Below(FUO, 4 * kO + uO, 12 + 0)
    BY <2>3, <2>4, <2>5, <1>1, <1>7, BelowTrans
  <2> QED
    BY <2>6, <1>1
<1>9. 4 * uO <= FUO
  <2>1. 4 * uO <= (4 * F) * uO
    <3> HIDE DEF uO
    <3> QED
      BY <1>7, MulMonotone
  <2> QED
    BY <2>1
<1>10. 5 * uO <= 8 * kO
  <2>1. 4 * kO + uO \in Nat
    BY <1>3, <1>7
  <2> HIDE DEF uO, FUO
  <2>2. 7 * FUO <= 8 * (4 * kO + uO)
    BY <2>1, <1>7, <1>8, BelowHalf
  <2> QED
    BY <2>2, <1>3, <1>7, <1>9
<1>11. U * E <= 2 * kO
  <2>1. (2 * E) * U <= O * U
    BY <1>1, MulMonotone
  <2>2. (2 * E) * U = 2 * (U * E) /\ O * U = uO /\ U * E \in Nat
    BY <1>1
  <2> HIDE DEF uO
  <2> QED
    BY <2>1, <2>2, <1>3, <1>7, <1>10
<1>12. Below(kO, o * U, 1)
  <2> HIDE DEF o
  <2>1. Near(kO, Nearest(kO, U) * U, 1)
    BY <1>1, <1>3, <1>11, NearRound DEF E
  <2> QED
    BY <2>1, <1>4 DEF Near
<1>13. Below((4 * F) * O, 4 * o + O, 13)
  <2> DEFINE x == 4 * kO + uO
             y == 4 * (o * U) + uO
  <2>1. o * U \in Nat /\ x \in Nat /\ y \in Nat /\ kO * 4 = 4 * kO /\ (o * U) * 4 = 4 * (o * U)
    BY <1>1, <1>3, <1>5, <1>7
  <2>2. Below(4 * kO, 4 * (o * U), 1)
    <3>1. Below(kO * 4, (o * U) * 4, 1)
      BY <2>1, <1>1, <1>3, <1>12, BelowScale
    <3> QED
      BY <3>1, <2>1
  <2>3. Below(uO, uO, 1)
    <3>1. Below(uO, uO, 0)
      BY <1>7, BelowAtMost
    <3> HIDE DEF uO
    <3> QED
      BY <3>1, <1>1, <1>7, BelowMore
  <2>4. Below(x, y, 1)
    <3>1. 4 * kO \in Nat /\ 4 * (o * U) \in Nat
      BY <2>1, <1>3
    <3> QED
      BY <3>1, <2>2, <2>3, <1>1, <1>7, BelowSum
  <2>5. Below(FUO, y, 12 + 1)
    <3>1. Below(FUO, x, 12)
      BY <1>8
    <3> HIDE DEF x, y, FUO
    <3> QED
      BY <3>1, <2>1, <2>4, <1>1, <1>7, BelowTrans
  <2>6. FUO = ((4 * F) * O) * U /\ y = (4 * o + O) * U
    BY <1>1, <1>5, Z3
  <2>7. Below(((4 * F) * O) * U, (4 * o + O) * U, 13)
    BY <2>5, <2>6, <1>1
  <2>8. (4 * F) * O \in Nat /\ 4 * o + O \in Nat
    BY <1>1, <1>5
  <2> QED
    BY <2>7, <2>8, <1>1, BelowCancel
<1>14. 5 * O <= 8 * o
  <2>1. (4 * F) * O \in Nat /\ 4 * o + O \in Nat
    BY <1>1, <1>5
  <2>2. 7 * ((4 * F) * O) <= 8 * (4 * o + O)
    BY <2>1, <1>13, BelowHalf
  <2>3. 4 * O <= (4 * F) * O
    BY <1>1, MulMonotone
  <2> QED
    BY <2>1, <2>2, <2>3, <1>1, <1>5
<1> QED
  BY <1>13, <1>14 DEF o, k, O

(* The share of it that is kept.                                            *)
LEMMA KeptShareBelow ==
    ASSUME NEW o \in Nat, o <= Top, 5 * F64_ONE <= 8 * o,
           NEW F \in Nat \ {0}, Below((4 * F) * F64_ONE, 4 * o + F64_ONE, 13),
           NEW slip \in 0 .. (100 * F64_ONE - 1)
    PROVE  LET m == Floor(FMul(o, Kept(Taken(slip))))
               all == 100 * F64_ONE
           IN  /\ m \in Nat
               /\ Below((4 * F) * (all - slip), (4 * m + 5) * all, 16)
<1> DEFINE O == F64_ONE
           E == F64_EXACT
           all == 100 * O
           s == Taken(slip)
           w == all - s
           u == Kept(s)
           v == FMul(o, u)
           m == Floor(v)
           ou == o * u
           n == m + 1
<1>1. /\ O \in Nat \ {0} /\ E \in Nat /\ E >= 256 /\ O >= 2 * E
      /\ all \in Nat \ {0} /\ slip \in Nat /\ slip < all /\ Top \in Nat
      /\ 1 <= F64_EXACT /\ 13 + 2 <= F64_EXACT /\ 13 + 2 = 15 /\ 15 + 1 <= F64_EXACT
      /\ 15 + 1 = 16 /\ 16 <= F64_EXACT /\ 16 + 0 <= F64_EXACT /\ 16 + 0 = 16
      /\ 0 + 16 <= F64_EXACT /\ 0 + 16 = 16
  BY F64Facts, TopFacts
<1>2. s \in 0 .. (100 * F64_ONE - 1) /\ 2 * s <= all /\ s <= slip
  BY TakenFacts
<1>3. u \in Nat /\ u <= O /\ Near(w * O, u * all, 2)
  <2> HIDE DEF s
  <2> QED
    BY <1>2, KeptFacts
<1>4. Below((4 * F) * O, 4 * o + O, 13) /\ 5 * O <= 8 * o
  OBVIOUS
<1> HIDE DEF O, E, all, s, u, v
<1>5. w \in Nat /\ all <= 2 * w /\ all - slip <= w /\ all - slip \in Nat
  BY <1>1, <1>2 DEF O, all
<1> HIDE DEF w, m, ou
<1>6. 7 * O <= 16 * u
  <2>1. w * O \in Nat /\ u * all \in Nat
    BY <1>1, <1>3, <1>5
  <2>2. 7 * (w * O) <= 8 * (u * all)
    BY <2>1, <1>3, BelowHalf DEF Near
  <2>3. all * O <= (2 * w) * O
    BY <1>1, <1>5, MulMonotone
  <2>4. (2 * w) * O = 2 * (w * O) /\ (7 * O) * all = 7 * (all * O)
        /\ (16 * u) * all = 2 * (8 * (u * all)) /\ all * O \in Nat
    BY <1>1, <1>3, <1>5, Z3
  <2>5. (7 * O) * all <= (16 * u) * all
    <3> DEFINE x == w * O
               y == u * all
               z == all * O
               l == (7 * O) * all
               r == (16 * u) * all
               t == (2 * w) * O
    <3>1. x \in Nat /\ y \in Nat /\ z \in Nat /\ 7 * x <= 8 * y /\ z <= t /\ t = 2 * x
          /\ l = 7 * z /\ r = 2 * (8 * y)
      BY <2>1, <2>2, <2>3, <2>4
    <3> HIDE DEF x, y, z, l, r, t
    <3>2. l <= r
      BY <3>1
    <3> QED
      BY <3>2 DEF l, r
  <2>6. 7 * O \in Nat /\ 16 * u \in Nat
    BY <1>1, <1>3
  <2> QED
    BY <2>5, <2>6, <1>1, MulCancelLeq
<1>7. ou \in Nat /\ O * E <= 2 * ou
  <2>1. (5 * O) * (7 * O) <= (8 * o) * (16 * u)
    <3>1. 5 * O \in Nat /\ 7 * O \in Nat /\ 8 * o \in Nat /\ 16 * u \in Nat
      BY <1>1, <1>3
    <3> QED
      BY <3>1, <1>4, <1>6, MulMonotone2
  <2>2. (5 * O) * (7 * O) = 35 * (O * O) /\ (8 * o) * (16 * u) = 128 * ou
    BY <1>1, <1>3, Z3 DEF ou
  <2>3. (2 * E) * O <= O * O
    BY <1>1, MulMonotone
  <2>4. (2 * E) * O = 2 * (O * E) /\ O * E \in Nat /\ ou \in Nat /\ O * O \in Nat
    BY <1>1, <1>3 DEF ou
  <2> QED
    BY <2>1, <2>2, <2>3, <2>4
<1>8. ou <= O * Top
  <2>1. o * u <= Top * O
    BY <1>1, <1>3, MulMonotone2
  <2> QED
    BY <2>1, <1>1 DEF ou
<1>9. v \in Nat /\ Below(ou, v * O, 1)
  BY <1>3, <1>7, <1>8, NearMul DEF Near, O, E, v, ou
<1>10. m \in Nat /\ v < (m + 1) * O /\ n \in Nat
  BY <1>9, FloorFacts DEF m, O
<1> HIDE DEF n
<1> DEFINE oO == O * u
           x1 == ((4 * F) * O) * (w * O)
           x2 == (4 * o + O) * (u * all)
           x3 == (4 * ou + oO) * all
           x4 == (4 * (v * O) + oO) * all
<1>11. /\ (4 * F) * O \in Nat /\ 4 * o + O \in Nat /\ w * O \in Nat /\ u * all \in Nat
       /\ oO \in Nat /\ 4 * ou + oO \in Nat /\ 4 * (v * O) + oO \in Nat
       /\ 4 * ou \in Nat /\ 4 * (v * O) \in Nat /\ v * O \in Nat
       /\ x1 \in Nat /\ x2 \in Nat /\ x3 \in Nat /\ x4 \in Nat
  <2>1. /\ (4 * F) * O \in Nat /\ 4 * o + O \in Nat /\ w * O \in Nat /\ u * all \in Nat
        /\ oO \in Nat /\ 4 * ou + oO \in Nat /\ 4 * (v * O) + oO \in Nat
        /\ 4 * ou \in Nat /\ 4 * (v * O) \in Nat /\ v * O \in Nat
    BY <1>1, <1>3, <1>5, <1>7, <1>9
  <2> QED
    BY <2>1, <1>1
<1>12. Below(x1, x2, 15)
  <2>1. Below(w * O, u * all, 2)
    BY <1>3 DEF Near
  <2>2. Below(x1, x2, 13 + 2)
    BY <2>1, <1>1, <1>4, <1>11, BelowProduct
  <2> QED
    BY <2>2, <1>1
<1>13. x2 = x3
  BY <1>1, <1>3, Z3 DEF ou
<1>14. Below(x3, x4, 1)
  <2>1. Below(4 * ou, 4 * (v * O), 1)
    <3>1. Below(ou * 4, (v * O) * 4, 1)
      BY <1>1, <1>7, <1>9, <1>11, BelowScale
    <3>2. ou * 4 = 4 * ou /\ (v * O) * 4 = 4 * (v * O)
      BY <1>7, <1>11
    <3> QED
      BY <3>1, <3>2
  <2>2. Below(oO, oO, 1)
    <3>1. Below(oO, oO, 0)
      BY <1>11, BelowAtMost
    <3> HIDE DEF oO
    <3> QED
      BY <3>1, <1>1, <1>11, BelowMore
  <2>3. Below(4 * ou + oO, 4 * (v * O) + oO, 1)
    BY <2>1, <2>2, <1>1, <1>11, BelowSum
  <2> QED
    BY <2>3, <1>1, <1>11, BelowScale
<1>15. Below(x1, x4, 16)
  <2>1. Below(x1, x3, 15)
    BY <1>12, <1>13
  <2> HIDE DEF x1, x3, x4
  <2>2. Below(x1, x4, 15 + 1)
    BY <2>1, <1>1, <1>11, <1>14, BelowTrans
  <2> QED
    BY <2>2, <1>1
<1> DEFINE y1 == ((4 * F) * w) * O
           y2 == (4 * v + u) * all
           y3 == ((4 * m + 5) * O) * all
<1>16. Below(y1, y2, 16)
  <2>1. x1 = y1 * O /\ x4 = y2 * O
    BY <1>1, <1>3, <1>5, <1>9, Z3
  <2>2. Below(y1 * O, y2 * O, 16)
    BY <2>1, <1>15
  <2>3. y1 \in Nat /\ y2 \in Nat
    BY <1>1, <1>3, <1>5, <1>9
  <2> HIDE DEF y1, y2
  <2> QED
    BY <2>2, <2>3, <1>1, BelowCancel
<1>17. Below(y1, y3, 16)
  <2>1. 4 * v + u <= (4 * m + 5) * O
    <3>1. (4 * m + 5) * O = 4 * ((m + 1) * O) + O /\ (m + 1) * O \in Nat
      BY <1>1, <1>10
    <3> QED
      BY <3>1, <1>1, <1>3, <1>9, <1>10
  <2>2. 4 * v + u \in Nat /\ (4 * m + 5) * O \in Nat
    BY <1>1, <1>3, <1>9, <1>10
  <2>3. y2 <= y3
    BY <2>1, <2>2, <1>1, MulMonotone
  <2>4. y1 \in Nat /\ y2 \in Nat /\ y3 \in Nat
    BY <2>2, <1>1, <1>5
  <2> HIDE DEF y1, y2, y3
  <2>5. Below(y2, y3, 0)
    BY <2>3, <2>4, BelowAtMost
  <2>6. Below(y1, y3, 16 + 0)
    BY <2>4, <2>5, <1>1, <1>16, BelowTrans
  <2> QED
    BY <2>6, <1>1
<1>18. Below((4 * F) * w, (4 * m + 5) * all, 16)
  <2>1. y3 = ((4 * m + 5) * all) * O
    BY <1>1, <1>10, Z3
  <2>2. (4 * F) * w \in Nat /\ (4 * m + 5) * all \in Nat
    BY <1>1, <1>5, <1>10
  <2>3. Below(((4 * F) * w) * O, ((4 * m + 5) * all) * O, 16)
    BY <2>1, <1>17
  <2> QED
    BY <2>2, <2>3, <1>1, BelowCancel
<1>19. Below((4 * F) * (all - slip), (4 * m + 5) * all, 16)
  <2>1. (4 * F) * (all - slip) <= (4 * F) * w
    <3>1. (all - slip) * (4 * F) <= w * (4 * F)
      <4>1. 4 * F \in Nat
        OBVIOUS
      <4> QED
        BY <4>1, <1>5, MulMonotone
    <3>2. (all - slip) * (4 * F) = (4 * F) * (all - slip) /\ w * (4 * F) = (4 * F) * w
      BY <1>5
    <3> QED
      BY <3>1, <3>2
  <2>2. (4 * F) * w \in Nat /\ (4 * m + 5) * all \in Nat /\ (4 * F) * (all - slip) \in Nat
    BY <1>1, <1>5, <1>10
  <2>3. Below((4 * F) * (all - slip), (4 * F) * w, 0)
    BY <2>1, <2>2, BelowAtMost
  <2>4. Below((4 * F) * (all - slip), (4 * m + 5) * all, 0 + 16)
    BY <2>2, <2>3, <1>1, <1>18, BelowTrans
  <2> QED
    BY <2>4, <1>1
<1> QED
  BY <1>10, <1>19 DEF m, v, u, s, all, O

(* The card asks for what is promised, but for a unit and the drift.        *)
LEMMA CardBoundBelow ==
    ASSUME NEW q \in Nat, NEW K \in 1 .. U128_MAX, Below(q, K * F64_ONE, 12),
           NEW F \in Nat, F # 0 => Below(F * F64_ONE, q, 12),
           NEW slip \in 0 .. (100 * F64_ONE - 1),
           NEW n \in Digits(AtLeastOne(LessSlippage(slip, Printed(q))))
    PROVE  LET all == 100 * F64_ONE
               P == (F * (all - slip)) \div all
           IN  n \in Nat /\ n >= P - 1 - Drift(F)
<1> DEFINE all == 100 * F64_ONE
           P == (F * (all - slip)) \div all
           o == ReadBack(Printed(q))
           m == Floor(FMul(o, Kept(Taken(slip))))
           b == AtLeastOne(m)
<1>1. P \in Nat /\ P <= F /\ P * all <= F * (all - slip)
  BY PromisedFacts
<1>2. n \in Digits(b)
  BY DEF LessSlippage, ReadBack, Taken
<1>3. all \in Nat \ {0} /\ slip \in Nat /\ slip < all /\ all - slip \in Nat
      /\ 0 + 16 <= F64_EXACT /\ 16 <= F64_EXACT /\ 0 + 16 = 16 /\ 1 <= F64_EXACT
      /\ 16 + 1 <= F64_EXACT /\ 16 + 1 = 17 /\ 0 + 1 <= F64_EXACT /\ 0 + 1 = 1
  BY F64Facts
<1>4. o \in Nat /\ o <= Top
  BY ReadBackAbove
<1>5. m \in Nat /\ b \in Nat /\ m <= b
  <2>1. FMul(o, Kept(Taken(slip))) \in Nat
    <3>1. Kept(Taken(slip)) \in Nat /\ Kept(Taken(slip)) <= F64_ONE
      BY TakenFacts, KeptFacts
    <3> HIDE DEF o
    <3> QED
      BY <3>1, <1>4, ShareBelow
  <2>2. m \in Nat
    BY <2>1, FloorFacts
  <2> HIDE DEF m
  <2> QED
    BY <2>2 DEF AtLeastOne
<1>6. n \in Nat /\ Below(b, n, 1)
  <2> HIDE DEF b
  <2> QED
    BY <1>2, <1>5, DigitsFacts DEF Near
<1> HIDE DEF P
<1>7. ASSUME F = 0 PROVE n >= P - 1 - Drift(F)
  <2>1. Drift(F) \in Nat
    BY DriftFacts
  <2> QED
    BY <2>1, <1>1, <1>6, <1>7
<1>8. ASSUME F # 0 PROVE n >= P - 1 - Drift(F)
  <2>1. Below((4 * F) * F64_ONE, 4 * o + F64_ONE, 13) /\ 5 * F64_ONE <= 8 * o
    BY <1>8, ReadBackBelow
  <2>2. Below((4 * F) * (all - slip), (4 * m + 5) * all, 16)
    <3> HIDE DEF o
    <3> QED
      BY <2>1, <1>4, <1>8, KeptShareBelow
  <2> HIDE DEF all, m, b, o
  <2> DEFINE x == (4 * P) * all
             y == (4 * F) * (all - slip)
             z == (4 * m + 5) * all
  <2>3. x \in Nat /\ y \in Nat /\ z \in Nat
    BY <1>1, <1>3, <1>5
  <2>4. x <= y
    <3>1. x = 4 * (P * all) /\ y = 4 * (F * (all - slip)) /\ P * all \in Nat
          /\ F * (all - slip) \in Nat
      BY <1>1, <1>3, Z3
    <3> HIDE DEF x, y
    <3> QED
      BY <3>1, <1>1
  <2>5. Below(4 * P, 4 * m + 5, 16)
    <3>1. Below(x, y, 0) /\ Below(y, z, 16)
      BY <2>2, <2>3, <2>4, BelowAtMost
    <3> HIDE DEF x, y, z
    <3>2. Below(x, z, 0 + 16)
      BY <3>1, <2>3, <1>3, BelowTrans
    <3>3. Below((4 * P) * all, (4 * m + 5) * all, 16) /\ 4 * P \in Nat /\ 4 * m + 5 \in Nat
      BY <3>2, <1>1, <1>3, <1>5 DEF x, z
    <3> QED
      BY <3>3, <1>3, BelowCancel
  <2>6. Below(4 * m + 5, 4 * n + 5, 1)
    <3>1. Below(b * 4, n * 4, 1)
      BY <1>3, <1>5, <1>6, BelowScale
    <3>2. b * 4 = 4 * b /\ n * 4 = 4 * n /\ 4 * b \in Nat /\ 4 * n \in Nat /\ 5 \in Nat
      BY <1>5, <1>6
    <3>3. Below(5, 5, 1)
      <4>1. Below(5, 5, 0)
        BY BelowAtMost
      <4> QED
        BY <4>1, <1>3, BelowMore
    <3>4. Below(4 * b + 5, 4 * n + 5, 1)
      <4>1. Below(4 * b, 4 * n, 1)
        BY <3>1, <3>2
      <4> QED
        BY <4>1, <3>2, <3>3, <1>3, BelowSum
    <3>5. 4 * m + 5 <= 4 * b + 5 /\ 4 * m + 5 \in Nat /\ 4 * b + 5 \in Nat /\ 4 * n + 5 \in Nat
      BY <1>5, <1>6
    <3>6. Below(4 * m + 5, 4 * b + 5, 0)
      BY <3>5, BelowAtMost
    <3>7. Below(4 * m + 5, 4 * n + 5, 0 + 1)
      BY <3>4, <3>5, <3>6, <1>3, BelowTrans
    <3> QED
      BY <3>7, <1>3
  <2>7. Below(4 * P, 4 * n + 5, 17)
    <3>1. 4 * P \in Nat /\ 4 * m + 5 \in Nat /\ 4 * n + 5 \in Nat
      BY <1>1, <1>5, <1>6
    <3>2. Below(4 * P, 4 * n + 5, 16 + 1)
      BY <3>1, <2>5, <2>6, <1>3, BelowTrans
    <3> QED
      BY <3>2, <1>3
  <2> QED
    BY <2>7, <1>1, <1>6, ShortByDrift
<1> QED
  BY <1>6, <1>7, <1>8 DEF P, all

(* The bound of the CLI, before it saturates.                               *)
CliBound(q, slip) == Floor(FMul(AsDouble(q), Kept(slip)))

(* A quote of the CLI as a double is near to the quote.                    *)
LEMMA CliInRange ==
    ASSUME NEW q \in 0 .. U128_MAX
    PROVE  /\ AsDouble(q) \in Nat /\ AsDouble(q) <= Top
           /\ Near(q * F64_ONE, AsDouble(q), 1)
<1> DEFINE O == F64_ONE
           a == AsDouble(q)
<1>1. O \in Nat \ {0} /\ q \in Nat /\ Top \in Nat /\ q * O \in Nat
  BY F64Facts, TopFacts
<1>2. a \in Nat /\ Near(q * O, a, 1)
  BY AsDoubleFacts
<1> HIDE DEF a, O
<1>3. 7 * a <= 8 * (q * O)
  BY <1>1, <1>2, AtLeastHalf
<1>4. (2 * q) * O <= Top
  <2>1. 2 * q \in Nat /\ 2 * q <= 4 * U128_MAX
    BY TopFacts
  <2> QED
    BY <2>1, TopFacts DEF O
<1>5. (2 * q) * O = 2 * (q * O)
  BY <1>1
<1>6. a <= Top
  BY <1>1, <1>2, <1>3, <1>4, <1>5
<1> QED
  BY <1>2, <1>6 DEF a, O

(* It exceeds what the pool could pay by the drift at most.                *)
LEMMA CliBoundAbove ==
    ASSUME NEW q \in 0 .. U128_MAX, NEW F \in Nat, q <= F,
           NEW slip \in 0 .. (100 * F64_ONE - 1)
    PROVE  CliBound(q, slip) \in Nat /\ CliBound(q, slip) <= F + Drift(F)
<1> DEFINE O == F64_ONE
           E == F64_EXACT
           a == AsDouble(q)
           u == Kept(slip)
           v == FMul(a, u)
           m == Floor(v)
<1>1. /\ O \in Nat \ {0} /\ E \in Nat /\ E >= 256 /\ O >= 2 * E /\ q \in Nat
      /\ 1 + 1 <= F64_EXACT /\ 1 + 1 = 2 /\ 0 + 2 <= F64_EXACT /\ 0 + 2 = 2
      /\ 2 <= F64_EXACT /\ 2 + 0 <= F64_EXACT /\ 2 + 0 = 2 /\ 15 <= F64_EXACT
  BY F64Facts
<1>2. a \in Nat /\ a <= Top /\ Below(a, q * O, 1)
  BY CliInRange DEF Near
<1>3. u \in Nat /\ u <= O
  BY KeptFacts
<1> HIDE DEF a, u, v, m, O, E
<1>4. v \in Nat /\ (Below(v, a, 1) \/ v <= E)
  BY <1>2, <1>3, ShareBelow DEF v, O, E
<1>5. m \in Nat /\ m * O <= v
  BY <1>4, FloorFacts DEF m, O
<1>6. q * O \in Nat /\ m * O \in Nat
  BY <1>1, <1>5
<1>7. Below(m, q, 2)
  <2>1. CASE Below(v, a, 1)
    <3>1. Below(v, q * O, 1 + 1)
      BY <2>1, <1>1, <1>2, <1>4, <1>6, BelowTrans
    <3>2. Below(m * O, v, 0)
      BY <1>4, <1>5, <1>6, BelowAtMost
    <3>3. Below(v, q * O, 2)
      BY <3>1, <1>1
    <3>4. Below(m * O, q * O, 0 + 2)
      BY <3>2, <3>3, <1>1, <1>4, <1>6, BelowTrans
    <3>5. Below(m * O, q * O, 2)
      BY <3>4, <1>1
    <3> QED
      BY <3>5, <1>1, <1>5, BelowCancel
  <2>2. CASE v <= E
    <3>1. m = 0
      <4>1. CASE m >= 1
        <5>1. 1 * O <= m * O
          BY <4>1, <1>1, <1>5, MulMonotone
        <5> QED
          BY <5>1, <2>2, <1>1, <1>4, <1>5, <1>6
      <4> QED
        BY <4>1, <1>5
    <3>2. Below(m, q, 0)
      BY <3>1, <1>1, BelowAtMost
    <3> QED
      BY <3>2, <1>1, <1>5, BelowMore
  <2> QED
    BY <2>1, <2>2, <1>4
<1>8. Below(4 * m, 4 * F + 1, 15)
  <2>1. Below(m * 4, q * 4, 2)
    BY <1>1, <1>5, <1>7, BelowScale
  <2>2. m * 4 = 4 * m /\ 4 * m \in Nat /\ q * 4 \in Nat /\ 4 * F + 1 \in Nat
        /\ q * 4 <= 4 * F + 1
    BY <1>1, <1>5
  <2>3. Below(q * 4, 4 * F + 1, 0)
    BY <2>2, BelowAtMost
  <2>4. Below(4 * m, q * 4, 2)
    BY <2>1, <2>2
  <2>5. Below(4 * m, 4 * F + 1, 2 + 0)
    BY <2>2, <2>3, <2>4, <1>1, BelowTrans
  <2>6. Below(4 * m, 4 * F + 1, 2)
    BY <2>5, <1>1
  <2> QED
    BY <2>2, <2>6, <1>1, BelowMore
<1>9. m <= F + Drift(F)
  BY <1>5, <1>8, WithinDrift
<1> QED
  BY <1>5, <1>9 DEF CliBound, m, v, a, u

(* It falls short of what is promised by the drift and a unit at most.     *)
LEMMA CliBoundBelow ==
    ASSUME NEW q \in 0 .. U128_MAX, NEW slip \in 0 .. (100 * F64_ONE - 1)
    PROVE  LET all == 100 * F64_ONE
               P == (q * (all - slip)) \div all
           IN  CliBound(q, slip) >= P - 1 - Drift(q)
<1> DEFINE O == F64_ONE
           E == F64_EXACT
           W == 100 * O
           w == W - slip
           P == (q * w) \div W
           D == Drift(q)
           a == AsDouble(q)
           u == Kept(slip)
           v == FMul(a, u)
           m == Floor(v)
           Ew == E * w
           x == Ew - 3 * W
<1>1. /\ O \in Nat \ {0} /\ E \in Nat \ {0} /\ E >= 256 /\ O >= 2 * E /\ q \in Nat
      /\ W \in Nat \ {0} /\ slip \in Nat /\ slip < W /\ w \in Nat /\ w <= W /\ Top \in Nat
  BY F64Facts, TopFacts
<1>2. a \in Nat /\ a <= Top /\ (q * O) * (E - 1) <= a * E /\ a * (E - 1) <= (q * O) * E
  BY CliInRange DEF Near, Below
<1>3. u \in Nat /\ u <= O /\ E * (w * O) <= E * (u * W) + 2 * (W * O)
  BY KeptFacts
<1>4. P \in Nat /\ P <= q /\ P * W <= q * w
  BY PromisedFacts
<1>5. D \in Nat /\ 32 * q < (D + 1) * E
  BY DriftFacts
<1> DEFINE n == a * u
<1>6. n \in Nat /\ n <= O * Top /\ n <= a * O
  <2>1. a * u <= Top * O
    <3> HIDE DEF a, u
    <3> QED
      BY <1>1, <1>2, <1>3, MulMonotone2
  <2>2. u * a <= O * a
    <3> HIDE DEF a, u
    <3> QED
      BY <1>1, <1>2, <1>3, MulMonotone
  <2> HIDE DEF a, u
  <2> QED
    BY <2>1, <2>2, <1>1, <1>2, <1>3
<1>7. v = Nearest(n, O)
  BY DEF FMul
<1> HIDE DEF O, W, w, P, D, a, u, v, m, n, E, Ew
<1>8. v \in Nat /\ E * n <= E * (v * O) + n + O * E
  <2>1. PICK off \in {2 * n, O * E} : 2 * (E * n) <= 2 * (E * (Nearest(n, O) * O)) + off
    BY <1>1, <1>6, NearestFacts DEF E
  <2>2. v \in Nat
    BY <1>1, <1>6, <1>7, NearestFacts
  <2>3. 2 * (E * n) <= 2 * (E * (v * O)) + off
    BY <2>1, <1>7
  <2>4. O * E \in Nat /\ E * n \in Nat /\ E * (v * O) \in Nat
    BY <1>1, <1>6, <2>2
  <2>5. off \in Nat /\ off <= 2 * n + 2 * (O * E)
    BY <2>1, <2>4, <1>6
  <2> QED
    BY <2>2, <2>3, <2>4, <2>5, <1>6
<1>9. m \in Nat /\ v < (m + 1) * O
  BY <1>8, FloorFacts DEF m, O
(* E * w * a <= E * W * (m + 1) * O + 3 * a * W *)
<1>10. (a * Ew) <= (E * W) * ((m + 1) * O) + 3 * (a * W)
  <2> DEFINE aO == a * O
  <2>1. E * n <= E * (v * O) + aO + O * E
    <3>1. aO \in Nat /\ E * n \in Nat /\ E * (v * O) \in Nat /\ O * E \in Nat /\ n <= aO
      BY <1>1, <1>2, <1>6, <1>8
    <3> HIDE DEF aO
    <3> QED
      BY <3>1, <1>6, <1>8
  <2>2. (E * n) * W <= (E * (v * O) + aO + O * E) * W
    <3>1. E * n \in Nat /\ E * (v * O) + aO + O * E \in Nat
      BY <1>1, <1>2, <1>6, <1>8
    <3> QED
      BY <3>1, <2>1, <1>1, MulMonotone
  <2>3. (E * (w * O)) * a <= (E * (u * W) + 2 * (W * O)) * a
    <3>1. E * (w * O) \in Nat /\ E * (u * W) + 2 * (W * O) \in Nat
      BY <1>1, <1>3
    <3> QED
      BY <3>1, <1>2, <1>3, MulMonotone
  <2> DEFINE l == (a * Ew) * O
             r == (E * n) * W
             y == (a * W) * O
             z == ((E * W) * v) * O
             e == (E * W) * O
  <2>4. /\ l \in Nat /\ r \in Nat /\ y \in Nat /\ z \in Nat /\ e \in Nat
    BY <1>1, <1>2, <1>6, <1>8 DEF Ew
  <2>5. (E * (w * O)) * a = l
    BY <1>1, <1>2, Z3 DEF Ew
  <2>6. (E * (u * W) + 2 * (W * O)) * a = r + 2 * y
    BY <1>1, <1>2, <1>3, Z3 DEF n
  <2>7. (E * (v * O) + aO + O * E) * W = z + y + e
    BY <1>1, <1>2, <1>8, Z3
  <2>8. l <= z + e + 3 * y
    <3>1. l <= r + 2 * y /\ r <= z + y + e
      BY <2>2, <2>3, <2>5, <2>6, <2>7
    <3> HIDE DEF l, r, y, z, e
    <3> QED
      BY <3>1, <2>4
  <2> DEFINE p == a * Ew
             s == (E * W) * (v + 1) + 3 * (a * W)
  <2>9. z + e + 3 * y = s * O
    BY <1>1, <1>2, <1>8, Z3
  <2>10. p \in Nat /\ s \in Nat /\ p * O <= s * O
    BY <2>8, <2>9, <1>1, <1>2, <1>8 DEF Ew
  <2>11. p <= s
    <3> HIDE DEF p, s
    <3> QED
      BY <2>10, <1>1, MulCancelLeq
  <2>12. (v + 1) * (E * W) <= ((m + 1) * O) * (E * W)
    <3>1. v + 1 \in Nat /\ (m + 1) * O \in Nat /\ E * W \in Nat
      BY <1>1, <1>8, <1>9
    <3>2. v + 1 <= (m + 1) * O
      BY <3>1, <1>8, <1>9
    <3> QED
      BY <3>1, <3>2, MulMonotone
  <2>13. (v + 1) * (E * W) = (E * W) * (v + 1)
         /\ ((m + 1) * O) * (E * W) = (E * W) * ((m + 1) * O)
         /\ (E * W) * (v + 1) \in Nat /\ (E * W) * ((m + 1) * O) \in Nat /\ a * W \in Nat
    BY <1>1, <1>2, <1>8, <1>9
  <2> DEFINE c1 == (E * W) * (v + 1)
             c2 == (E * W) * ((m + 1) * O)
             c3 == a * W
  <2>14. c1 \in Nat /\ c2 \in Nat /\ c3 \in Nat /\ c1 <= c2 /\ p <= c1 + 3 * c3
    BY <2>11, <2>12, <2>13
  <2> HIDE DEF c1, c2, c3, p
  <2>15. p <= c2 + 3 * c3
    BY <2>10, <2>14
  <2> QED
    BY <2>15 DEF p, c2, c3
(* E * P <= E * (m + 1) + 4 * q *)
<1>11. E * P <= E * (m + 1) + 4 * q
  <2>1. Ew \in Nat /\ a * Ew \in Nat /\ a * W \in Nat
    BY <1>1, <1>2 DEF Ew
  <2>2. (P * W) * E <= q * Ew
    <3>1. (P * W) * E <= (q * w) * E
      <4>1. P * W \in Nat /\ q * w \in Nat
        BY <1>1, <1>4
      <4> QED
        BY <4>1, <1>1, <1>4, MulMonotone
    <3>2. (q * w) * E = q * Ew
      BY <1>1, Z3 DEF Ew
    <3> QED
      BY <3>1, <3>2
  <2> DEFINE l == E * P
             r == E * (m + 1) + 4 * q
  <2>3. l \in Nat /\ r \in Nat
    BY <1>1, <1>4, <1>9
  <2>4. l * W <= r * W
    <3> DEFINE qEw == q * Ew
               qW == q * W
               EW == (E * W) * (m + 1)
    <3>1. qEw \in Nat /\ qW \in Nat /\ EW \in Nat
      BY <2>1, <1>1, <1>9
    <3>2. l * W = (P * W) * E /\ r * W = EW + 4 * qW
      BY <1>1, <1>4, <1>9, Z3
    <3>3. qEw <= EW + 4 * qW
      <4>1. CASE Ew <= 3 * W
        <5>1. Ew * q <= (3 * W) * q
          <6>1. 3 * W \in Nat
            BY <1>1
          <6> QED
            BY <6>1, <4>1, <2>1, <1>1, MulMonotone
        <5>2. Ew * q = qEw /\ (3 * W) * q = 3 * qW
          BY <2>1, <1>1, Z3
        <5> QED
          BY <5>1, <5>2, <3>1
      <4>2. CASE Ew > 3 * W
        <5>1. x \in Nat /\ a * x = a * Ew - 3 * (a * W)
          <6>1. x \in Nat
            BY <4>2, <2>1, <1>1
          <6>2. a * (Ew - 3 * W) = a * Ew - 3 * (a * W)
            BY <2>1, <1>1, <1>2, Z3
          <6> QED
            BY <6>1, <6>2
        <5>2. a * x <= EW * O
          <6>1. (E * W) * ((m + 1) * O) = EW * O
            BY <1>1, <1>9, Z3
          <6> DEFINE f == a * Ew
                     g == a * W
                     h == EW * O
                     i == a * x
          <6>2. f \in Nat /\ g \in Nat /\ h \in Nat /\ i = f - 3 * g /\ f <= h + 3 * g
            BY <6>1, <5>1, <2>1, <3>1, <1>1, <1>10
          <6> HIDE DEF f, g, h, i
          <6>3. i <= h
            BY <6>2
          <6> QED
            BY <6>3 DEF i, h
        <5>3. ((q * O) * (E - 1)) * x <= (a * E) * x
          <6>1. (q * O) * (E - 1) \in Nat /\ a * E \in Nat
            BY <1>1, <1>2
          <6> QED
            BY <6>1, <5>1, <1>2, MulMonotone
        <5>4. (a * x) * E <= (EW * O) * E
          <6>1. a * x \in Nat /\ EW * O \in Nat
            BY <5>1, <3>1, <1>1, <1>2
          <6> QED
            BY <6>1, <5>2, <1>1, MulMonotone
        <5>5. (q * (E - 1)) * x <= EW * E
          <6> HIDE DEF x, EW
          <6>1. ((q * O) * (E - 1)) * x = ((q * (E - 1)) * x) * O /\ (a * E) * x = (a * x) * E
                /\ (EW * O) * E = (EW * E) * O
            BY <5>1, <3>1, <1>1, <1>2, Z3
          <6>2. (q * (E - 1)) * x \in Nat /\ EW * E \in Nat /\ (a * x) * E \in Nat
                /\ ((q * (E - 1)) * x) * O \in Nat /\ (EW * E) * O \in Nat
            BY <5>1, <3>1, <1>1, <1>2
          <6>3. ((q * (E - 1)) * x) * O <= (EW * E) * O
            BY <6>1, <6>2, <5>3, <5>4
          <6> QED
            BY <6>2, <6>3, <1>1, MulCancelLeq
        <5>6. (q * (E - 1)) * x = qEw * E - qEw - 3 * (qW * E) + 3 * qW
          <6>1. (q * (E - 1)) * (Ew - 3 * W) = qEw * E - qEw - 3 * (qW * E) + 3 * qW
            BY <2>1, <1>1, Z3
          <6> QED
            BY <6>1
        <5>7. qEw <= qW * E
          <6>1. w * (q * E) <= W * (q * E)
            <7>1. q * E \in Nat
              BY <1>1
            <7> QED
              BY <7>1, <1>1, MulMonotone
          <6>2. w * (q * E) = qEw /\ W * (q * E) = qW * E
            BY <1>1, Z3 DEF Ew
          <6> QED
            BY <6>1, <6>2
        <5>8. qEw * E <= (EW + 4 * qW) * E
          <6>1. (EW + 4 * qW) * E = EW * E + 4 * (qW * E)
            BY <3>1, <1>1
          <6> DEFINE f == qEw * E
                     g == qW * E
                     h == EW * E
                     i == (q * (E - 1)) * x
          <6>2. f \in Nat /\ g \in Nat /\ h \in Nat /\ i = f - qEw - 3 * g + 3 * qW
                /\ i <= h /\ qEw <= g
            BY <5>5, <5>6, <5>7, <3>1, <1>1
          <6> HIDE DEF f, g, h, i, qEw, qW
          <6>3. f <= h + 4 * g
            BY <6>2, <3>1
          <6> QED
            BY <6>1, <6>3 DEF f, g, h
        <5>9. EW + 4 * qW \in Nat
          BY <3>1
        <5> HIDE DEF qEw, EW, qW
        <5> QED
          BY <5>8, <5>9, <3>1, <1>1, MulCancelLeq
      <4>3. 3 * W \in Nat
        BY <1>1
      <4> QED
        BY <4>1, <4>2, <4>3, <2>1
    <3> DEFINE lw == l * W
               rw == r * W
    <3>4. lw <= qEw /\ lw \in Nat /\ rw = EW + 4 * qW
      <4>1. lw \in Nat
        BY <2>3, <1>1
      <4> QED
        BY <4>1, <2>2, <3>2
    <3> HIDE DEF lw, rw, qEw, qW, EW
    <3>5. lw <= rw
      BY <3>1, <3>3, <3>4
    <3> QED
      BY <3>5 DEF lw, rw
  <2> HIDE DEF l, r
  <2>5. l <= r
    BY <2>3, <2>4, <1>1, MulCancelLeq
  <2> QED
    BY <2>5 DEF l, r
<1>12. m >= P - 1 - D
  <2>1. CASE m < P - 1 - D
    <3>1. (m + 1) * E <= (P - 1 - D) * E
      <4>1. m + 1 \in Nat /\ P - 1 - D \in Nat /\ m + 1 <= P - 1 - D
        BY <2>1, <1>4, <1>5, <1>9
      <4> QED
        BY <4>1, <1>1, MulMonotone
    <3>2. (P - 1 - D) * E = E * P - (D + 1) * E /\ (m + 1) * E = E * (m + 1)
      BY <1>1, <1>4, <1>5, <1>9
    <3>3. E * P \in Nat /\ (D + 1) * E \in Nat /\ E * (m + 1) \in Nat
      BY <1>1, <1>4, <1>5, <1>9
    <3> QED
      BY <3>1, <3>2, <3>3, <1>1, <1>5, <1>11
  <2> QED
    BY <2>1, <1>4, <1>5, <1>9
<1> QED
  BY <1>12 DEF CliBound, m, v, a, u, P, w, W, D, O

-----------------------------------------------------------------------------
(* What holds of the pools, the card, its quote and the orders.             *)

Reserve == 1 .. U128_MAX
Reserves == [Token -> Reserve]
Pool == [a : Token, reserve : Reserves]
Seen == [in : Reserve, out : Reserve]

PoolsOK ==
    /\ pools = [fee \in FEE_TIERS |-> pools[fee]]
    /\ \A fee \in FEE_TIERS : Exists(fee) => pools[fee] \in Pool

CardOK == card \in Request /\ avail \subseteq FEE_TIERS

PaidFor(seen, r) == ExactInputOut(seen.in, seen.out, r.fee, r.amount)
OneUnitMore(seen, r) ==
    LET one == EffectiveIn(r.amount, r.fee) + 1
    IN  CeilDiv(seen.out * one, seen.in + one)

CurveOf(seen, r) == Curve(seen.in, seen.out, r.amount, r.fee)

QuoteOK ==
    Quoted =>
        /\ quote.of \in Request
        /\ quote.seen \in Seen
        /\ quote.out \in Nat
        /\ ~quote.reversed => quote.out = Printed(CurveOf(quote.seen, quote.of))

(* The bound of an order is within the slippage of what the pool paid, and   *)
(* the pool could pay it, but for the drift of doubles.                     *)
HighEnough(o) == o.min >= Promised(o) - 1 - Drift(Fair(o))

BoundFits(o) ==
    /\ o.by = "card" /\ o.basis = "fits" =>
          HighEnough(o) /\ o.min <= OneMore(o) + Drift(OneMore(o))
    /\ o.by = "cli" =>
          /\ Exact(o) => HighEnough(o)
          /\ Fits(o.seen.in + EffectiveIn(o.amount, o.fee))
                => o.min <= Fair(o) + Drift(Fair(o))

OrderOK(o) ==
    /\ o.by \in {"card", "cli"}
    /\ o.pay \in Token /\ o.amount \in Amounts /\ o.fee \in FEE_TIERS
    /\ o.slip \in Slips /\ o.min \in Nat
    /\ o.seen \in Seen
    /\ BoundFits(o)

OrdersOK == \A o \in orders : OrderOK(o)

IInv == PoolsOK /\ CardOK /\ QuoteOK /\ OrdersOK /\ QuoteFitsRequest

-----------------------------------------------------------------------------
(* Amounts are in range.                                                   *)
LEMMA AmountFacts ==
    /\ \A n \in Amounts : n \in Nat \ {0} /\ n \in 1 .. U128_MAX
    /\ \A slip \in Slips : slip \in 0 .. (100 * F64_ONE - 1)
    /\ \A n \in Reserve : n \in Nat \ {0}
<1>1. \A n \in Reserve : n \in Nat \ {0}
  BY F64Facts DEF Reserve
<1>2. \A n \in Amounts : n \in Reserve
  BY SwapCardAssumption DEF Reserve
<1>3. \A slip \in Slips : slip \in 0 .. (100 * F64_ONE - 1)
  BY SwapCardAssumption
<1> QED
  BY <1>1, <1>2, <1>3 DEF Reserve

(* The two tokens are apart.                                               *)
LEMMA TokenFacts ==
    ASSUME NEW t \in Token
    PROVE  /\ Other(t) \in Token /\ Other(t) # t /\ Other(Other(t)) = t
           /\ Token = {t, Other(t)}
  BY DEF Token, Other

(* A request is of its type.                                               *)
LEMMA RequestFacts ==
    ASSUME NEW r \in Request
    PROVE  r.pay \in Token /\ r.amount \in Nat \ {0} /\ r.fee \in FEE_TIERS
           /\ r.amount \in Amounts /\ r.amount \in 1 .. U128_MAX
<1>1. r.pay \in Token /\ r.amount \in Amounts /\ r.fee \in FEE_TIERS
  BY DEF Request
<1> QED
  BY <1>1, AmountFacts

(* The legs of a pool are its reserves.                                    *)
LEMMA LegsFacts ==
    ASSUME NEW pay \in Token, NEW fee \in FEE_TIERS, PoolsOK, Exists(fee),
           NEW r, r.pay = pay, r.fee = fee
    PROVE  /\ Legs(r) = [in |-> pools[fee].reserve[pay],
                         out |-> pools[fee].reserve[Other(pay)]]
           /\ Legs(r) \in Seen
           /\ Legs(r).in \in Nat \ {0} /\ Legs(r).out \in Nat \ {0}
           /\ Legs(r).out \in 1 .. U128_MAX
<1>1. pools[fee].reserve \in [Token -> Reserve]
  BY DEF PoolsOK, Pool, Reserves
<1>2. Other(pay) \in Token
  BY TokenFacts
<1>3. pools[fee].reserve[pay] \in Reserve /\ pools[fee].reserve[Other(pay)] \in Reserve
  BY <1>1, <1>2
<1>4. Legs(r) = [in |-> pools[fee].reserve[pay], out |-> pools[fee].reserve[Other(pay)]]
  BY DEF Legs
<1>5. Legs(r).in \in Reserve /\ Legs(r).out \in Reserve
  BY <1>3, <1>4
<1> QED
  BY <1>3, <1>4, <1>5, AmountFacts DEF Seen, Reserve

(* A pool is only found where there is one.                                *)
LEMMA FoundExists ==
    ASSUME NEW fee \in FEE_TIERS, NEW found \in FindPool(fee)
    PROVE  /\ found \in {"payIsA", "payIsB", "null"}
           /\ found # "null" => Exists(fee)
<1>1. \A p \in Probe(fee) : p = FALSE \/ Exists(fee)
  BY Zenon DEF Probe
<1>2. PICK first \in Probe(fee) :
         found \in IF first THEN {"payIsA"}
                   ELSE {IF second THEN "payIsB" ELSE "null" : second \in Probe(fee)}
  BY Zenon DEF FindPool
<1>3. CASE first
  BY <1>1, <1>2, <1>3
<1>4. CASE ~first
  <2>1. PICK second \in Probe(fee) : found = IF second THEN "payIsB" ELSE "null"
    BY <1>2, <1>4, Zenon
  <2>2. CASE second
    BY <2>1, <2>2, <1>1
  <2>3. CASE ~second
    BY <2>1, <2>3
  <2> QED
    BY <2>2, <2>3, Zenon
<1> QED
  BY <1>3, <1>4, Zenon

(* A quote that is not reversed is for the legs of the request.              *)
LEMMA QuoteOfFacts ==
    ASSUME NEW r \in Request, PoolsOK, Exists(r.fee),
           NEW found \in {"payIsA", "payIsB"}
    PROVE  /\ QuoteOf(r, found).of = r
           /\ QuoteOf(r, found).seen = Legs(r)
           /\ QuoteOf(r, found).out \in Nat
           /\ ~QuoteOf(r, found).reversed =>
                QuoteOf(r, found).out = Printed(CurveOf(Legs(r), r))
<1> DEFINE direction == IF found = "payIsA" THEN 0 ELSE 1
           pool == pools[r.fee]
           q == QuoteOf(r, found)
           in == IF direction = 0 THEN ReserveA(pool) ELSE ReserveB(pool)
           out == IF direction = 0 THEN ReserveB(pool) ELSE ReserveA(pool)
<1>1. r.pay \in Token /\ r.amount \in 1 .. U128_MAX /\ r.fee \in FEE_TIERS
  BY RequestFacts
<1>2. pool.a \in Token /\ pool.reserve \in [Token -> Reserve]
  BY <1>1 DEF PoolsOK, Pool, Reserves
<1>3. ReserveA(pool) \in Reserve /\ ReserveB(pool) \in Reserve
  BY <1>2, TokenFacts DEF ReserveA, ReserveB
<1>4. q.of = r /\ q.seen = Legs(r) /\ q.out = QuoteFor(pool, direction, r.amount, r.fee)
      /\ q.reversed = ((direction = 0) # (pool.a = r.pay))
  BY DEF QuoteOf
<1>5. q.out = Printed(Curve(in, out, r.amount, r.fee))
  BY <1>4 DEF QuoteFor
<1>6. in \in 1 .. U128_MAX /\ out \in 1 .. U128_MAX
  BY <1>3 DEF Reserve
<1>7. Legs(r) = [in |-> pool.reserve[r.pay], out |-> pool.reserve[Other(r.pay)]]
  BY <1>1, LegsFacts
<1>8. ASSUME ~q.reversed
      PROVE  in = Legs(r).in /\ out = Legs(r).out
  <2>1. (direction = 0) <=> (pool.a = r.pay)
    BY <1>4, <1>8
  <2>2. CASE pool.a = r.pay
    <3>1. direction = 0
      BY <2>1, <2>2
    <3> HIDE DEF direction
    <3>2. in = pool.reserve[r.pay] /\ out = pool.reserve[Other(r.pay)]
      BY <3>1, <2>2 DEF ReserveA, ReserveB
    <3> QED
      BY <3>2, <1>7
  <2>3. CASE pool.a # r.pay
    <3>1. direction # 0
      BY <2>1, <2>3
    <3>2. pool.a = Other(r.pay) /\ Other(pool.a) = r.pay
      BY <2>3, <1>1, <1>2, TokenFacts
    <3> HIDE DEF direction
    <3>3. in = pool.reserve[r.pay] /\ out = pool.reserve[Other(r.pay)]
      BY <3>1, <3>2 DEF ReserveA, ReserveB
    <3> QED
      BY <3>3, <1>7
  <2> QED
    BY <2>2, <2>3
<1> HIDE DEF in, out, q
<1>9. q.out \in Nat
  <2>1. Curve(in, out, r.amount, r.fee) \in Nat
    BY <1>1, <1>6, CurveBounds
  <2> QED
    BY <2>1, <1>5, PrintedFacts
<1> QED
  BY <1>4, <1>5, <1>8, <1>9 DEF q, CurveOf

(* The card has been read anew: QuoteOK of the state after.                *)
LEMMA UpdateQuoteFacts ==
    ASSUME PoolsOK, CardOK, UpdateQuote
    PROVE  /\ QuoteOK'
           /\ quote' # NoQuote => quote'.of = card
<1>1. card \in Request /\ card.fee \in FEE_TIERS
  BY RequestFacts DEF CardOK
<1>2. PICK found \in FindPool(card.fee) :
         \/ found = "null" /\ quote' = NoQuote
         \/ found # "null" /\ quote' = QuoteOf(card, found)
         \/ found # "null" /\ BRIDGE_TIMES_OUT /\ quote' = NoQuote
  BY DEF UpdateQuote
<1>3. CASE quote' = NoQuote
  BY <1>3 DEF QuoteOK, Quoted
<1>4. CASE found # "null" /\ quote' = QuoteOf(card, found)
  <2>1. found \in {"payIsA", "payIsB"} /\ Exists(card.fee)
    BY <1>1, <1>4, FoundExists
  <2>2. Legs(card) \in Seen
    BY <1>1, <2>1, RequestFacts, LegsFacts
  <2>3. /\ quote'.of = card
        /\ quote'.seen = Legs(card)
        /\ quote'.out \in Nat
        /\ ~quote'.reversed => quote'.out = Printed(CurveOf(quote'.seen, card))
    BY <1>1, <1>4, <2>1, QuoteOfFacts
  <2> QED
    BY <2>2, <2>3, <1>1 DEF QuoteOK
<1> QED
  BY <1>2, <1>3, <1>4

-----------------------------------------------------------------------------
(* A swap leaves both reserves positive, and pays out what it quotes.        *)
LEMMA SwapKeepsPools ==
    ASSUME NEW r, r.pay \in Token, r.amount \in Nat, r.fee \in FEE_TIERS,
           NEW min, PoolsOK, Accepted(r, min), SwapOn(r)
    PROVE  /\ PoolsOK'
           /\ Out(r) \in Nat
           /\ pools[r.fee].reserve[Other(r.pay)] - pools'[r.fee].reserve[Other(r.pay)]
                = Out(r)
<1> DEFINE p == r.pay
           old == pools[r.fee].reserve
           new == [old EXCEPT ![p] = @ + r.amount, ![Other(p)] = @ - Out(r)]
<1>1. Exists(r.fee) /\ pools[r.fee] \in Pool /\ old \in [Token -> Reserve]
  BY DEF Accepted, PoolsOK, Pool, Reserves
<1>2. Other(p) \in Token /\ Other(p) # p /\ Token = {p, Other(p)}
  BY TokenFacts
<1>3. /\ Legs(r) = [in |-> old[p], out |-> old[Other(p)]]
      /\ old[p] \in Nat \ {0} /\ old[Other(p)] \in Nat \ {0}
      /\ old[p] + r.amount <= U128_MAX /\ old[Other(p)] <= U128_MAX
  <2>1. /\ Legs(r) = [in |-> old[p], out |-> old[Other(p)]]
        /\ Legs(r).in \in Nat \ {0} /\ Legs(r).out \in Nat \ {0}
        /\ Legs(r).out \in 1 .. U128_MAX
    BY <1>1, <1>2, LegsFacts
  <2>2. Legs(r).in + r.amount <= U128_MAX
    BY DEF Accepted, Fits
  <2> HIDE DEF old
  <2> QED
    BY <2>1, <2>2
<1>4. Out(r) \in Nat /\ Out(r) < old[Other(p)]
  <2>1. Out(r) = ExactInputOut(old[p], old[Other(p)], r.fee, r.amount)
    BY <1>3 DEF Out
  <2> QED
    BY <2>1, <1>3, ExactInputFacts
<1>5. /\ new \in Reserves /\ new[Other(p)] = old[Other(p)] - Out(r)
  <2>1. new = [t \in Token |-> IF t = Other(p) THEN old[t] - Out(r)
                               ELSE IF t = p THEN old[t] + r.amount ELSE old[t]]
    BY <1>1, <1>2
  <2> HIDE DEF new, old
  <2>2. old[p] + r.amount \in Reserve /\ old[Other(p)] - Out(r) \in Reserve
    BY <1>3, <1>4, F64Facts DEF Reserve
  <2> QED
    BY <2>1, <2>2, <1>2 DEF Reserves
<1>6. pools' = [pools EXCEPT ![r.fee].reserve = new]
  BY DEF SwapOn
<1>7. [pools[r.fee] EXCEPT !.reserve = new] \in Pool
      /\ [pools[r.fee] EXCEPT !.reserve = new].reserve = new
  <2> HIDE DEF new, old
  <2> QED
    BY <1>1, <1>5 DEF Pool
<1> HIDE DEF new, old
<1>8. /\ pools' = [fee \in FEE_TIERS |-> pools'[fee]]
      /\ pools'[r.fee] = [pools[r.fee] EXCEPT !.reserve = new]
      /\ \A fee \in FEE_TIERS : fee # r.fee => pools'[fee] = pools[fee]
  BY <1>6 DEF PoolsOK
<1>9. PoolsOK'
  BY <1>7, <1>8 DEF PoolsOK, Exists
<1>10. old[Other(p)] - new[Other(p)] = Out(r)
  BY <1>3, <1>4, <1>5
<1> QED
  BY <1>4, <1>7, <1>8, <1>9, <1>10 DEF old, new

(* A pool that is created is a pool.                                       *)
LEMMA CreateKeepsPools ==
    ASSUME PoolsOK, OthersCreate
    PROVE  PoolsOK'
<1>1. PICK fee \in FEE_TIERS, a \in Token, deposit \in Deposits :
         pools' = [pools EXCEPT ![fee] = Created(a, deposit)]
  BY DEF OthersCreate
<1>2. Created(a, deposit) \in Pool
  <2>1. deposit.own \in Reserve /\ deposit.other \in Reserve
    BY SwapCardAssumption DEF Reserve
  <2> QED
    BY <2>1 DEF Created, Pool, Reserves
<1>3. /\ pools' = [f \in FEE_TIERS |-> pools'[f]]
      /\ pools'[fee] = Created(a, deposit)
      /\ \A f \in FEE_TIERS : f # fee => pools'[f] = pools[f]
  BY <1>1 DEF PoolsOK
<1> QED
  BY <1>2, <1>3 DEF PoolsOK, Exists

-----------------------------------------------------------------------------
(* An order from the card.                                                 *)
LEMMA ClickedOrder ==
    ASSUME PoolsOK, CardOK, QuoteOK, TRUE \in Found(card.fee), NEW slip \in Slips,
           NEW min \in Digits(MinRecv(slip))
    PROVE  OrderOK(Order("card", card, slip, min,
                         IF Quoted THEN quote.seen ELSE Legs(card), Basis))
<1> DEFINE seen == IF Quoted THEN quote.seen ELSE Legs(card)
           o == Order("card", card, slip, min, seen, Basis)
<1>1. card \in Request /\ card.pay \in Token /\ card.amount \in Amounts /\ card.fee \in FEE_TIERS
      /\ card.amount \in 1 .. U128_MAX
  BY RequestFacts DEF CardOK
<1>2. Exists(card.fee)
  <2>1. PICK found \in FindPool(card.fee) : found # "null"
    BY Zenon DEF Found
  <2> QED
    BY <2>1, <1>1, FoundExists
<1>3. seen \in Seen
  BY <1>1, <1>2, LegsFacts DEF QuoteOK
<1>4. slip \in 0 .. (100 * F64_ONE - 1)
  BY AmountFacts
<1>5. min \in Nat
  <2>1. min \in 0 .. JS_PLAIN /\ JS_PLAIN \in 0 .. U128_MAX
    BY SwapCardAssumption DEF Digits
  <2> QED
    BY <2>1, F64Facts
<1>6. /\ o.by = "card" /\ o.pay = card.pay /\ o.amount = card.amount /\ o.fee = card.fee
      /\ o.slip = slip /\ o.min = min /\ o.seen = seen /\ o.basis = Basis
  BY DEF Order
<1> DEFINE F == PaidFor(seen, card)
           K == AtLeastOne(OneUnitMore(seen, card))
           all == 100 * F64_ONE
           P == (F * (all - slip)) \div all
<1> HIDE DEF o
<1>7. Fair(o) = F /\ OneMore(o) = K /\ Promised(o) = P
  <2>1. Fair(o) = F /\ OneMore(o) = K
    BY <1>6 DEF Fair, PaidFor, OneMore, OneUnitMore
  <2> QED
    BY <1>6, <2>1 DEF Promised
<1>8. ASSUME Basis = "fits"
      PROVE  min >= P - 1 - Drift(F) /\ min <= K + Drift(K)
  <2>1. Quoted /\ quote.of = card /\ ~quote.reversed
    <3>1. CASE ~Quoted
      BY <1>8, <3>1 DEF Basis
    <3>2. CASE Quoted /\ quote.of # card
      BY <1>8, <3>2 DEF Basis
    <3>3. CASE Quoted /\ quote.of = card /\ quote.reversed
      BY <1>8, <3>3 DEF Basis
    <3> QED
      BY <3>1, <3>2, <3>3
  <2> DEFINE q == CurveOf(seen, card)
  <2>2. seen = quote.seen /\ quote.out = Printed(q)
    BY <2>1 DEF QuoteOK
  <2>3. min \in Digits(AtLeastOne(LessSlippage(slip, Printed(q))))
    BY <2>1, <2>2 DEF MinRecv
  <2> HIDE DEF seen
  <2>4. seen.in \in 1 .. U128_MAX /\ seen.out \in 1 .. U128_MAX
    BY <1>3 DEF Seen, Reserve
  <2>5. /\ q \in Nat /\ F \in Nat /\ K \in 1 .. U128_MAX
        /\ Below(q, K * F64_ONE, 12)
        /\ F # 0 => Below(F * F64_ONE, q, 12)
    BY <2>4, <1>1, CurveBounds DEF CurveOf, PaidFor, OneUnitMore
  <2> HIDE DEF q, F, K
  <2>6. min <= K + Drift(K)
    BY <2>3, <2>5, <1>4, CardBoundAbove
  <2>7. min >= P - 1 - Drift(F)
    BY <2>3, <2>5, <1>4, CardBoundBelow
  <2> QED
    BY <2>6, <2>7
<1> HIDE DEF seen, F, K, P
<1>9. BoundFits(o)
  BY <1>6, <1>7, <1>8 DEF BoundFits, HighEnough
<1> QED
  BY <1>1, <1>3, <1>5, <1>6, <1>9 DEF o, seen, OrderOK

(* An order from the CLI.                                                  *)
LEMMA CliLegsFacts ==
    ASSUME PoolsOK, NEW r \in Request, Exists(r.fee)
    PROVE  CliLegs(r) = Legs(r)
<1>1. r.pay \in Token /\ r.fee \in FEE_TIERS
  BY RequestFacts
<1>2. pools[r.fee].a \in Token
  BY <1>1 DEF PoolsOK, Pool
<1>3. CASE pools[r.fee].a = r.pay
  BY <1>3 DEF CliLegs, Legs, ReserveA, ReserveB
<1>4. CASE pools[r.fee].a # r.pay
  <2>1. pools[r.fee].a = Other(r.pay) /\ Other(pools[r.fee].a) = r.pay
    BY <1>1, <1>2, <1>4, TokenFacts
  <2> QED
    BY <2>1, <1>4 DEF CliLegs, Legs, ReserveA, ReserveB
<1> QED
  BY <1>3, <1>4

(* Along the curve, more input never brings less.                          *)
LEMMA CurveMonotone ==
    ASSUME NEW in \in Nat \ {0}, NEW out \in Nat, NEW less \in Nat, NEW more \in Nat,
           less <= more
    PROVE  (out * less) \div (in + less) <= (out * more) \div (in + more)
<1> DEFINE q == (out * less) \div (in + less)
<1>1. out * less \in Nat /\ in + less \in Nat \ {0}
      /\ out * more \in Nat /\ in + more \in Nat \ {0}
  OBVIOUS
<1>2. q \in Nat /\ q * (in + less) <= out * less
  BY <1>1, DivFacts
<1> HIDE DEF q
<1>3. q <= out
  <2>1. CASE less = 0
    <3>1. q * in <= 0
      BY <1>2, <2>1
    <3>2. q * in >= q
      BY <1>2, Z3
    <3>3. q * in \in Nat
      BY <1>2
    <3> QED
      BY <1>2, <3>1, <3>2, <3>3
  <2>2. CASE less # 0
    <3>1. q * less <= q * (in + less)
      <4>1. less * q <= (in + less) * q
        BY <1>2, MulMonotone
      <4> QED
        BY <4>1, <1>2
    <3>2. q * less <= out * less
      <4>1. q * less \in Nat /\ q * (in + less) \in Nat
        BY <1>2
      <4> QED
        BY <4>1, <3>1, <1>1, <1>2
    <3>3. ~(out * less < q * less)
      BY <3>2, <1>1, <1>2
    <3> QED
      BY <3>3, <2>2, <1>2, MulCancel
  <2> QED
    BY <2>1, <2>2
<1>4. q * in <= (out - q) * less
  <2>1. q * (in + less) = q * in + q * less /\ (out - q) * less = out * less - q * less
    BY <1>2
  <2>2. q * in \in Nat /\ q * less \in Nat
    BY <1>2
  <2> QED
    BY <2>1, <2>2, <1>1, <1>2
<1>5. less * (out - q) <= more * (out - q)
  BY <1>2, <1>3, MulMonotone
<1>6. q * (in + more) <= out * more
  <2>1. q * (in + more) = q * in + q * more /\ more * (out - q) = out * more - q * more
    BY <1>2
  <2>2. q * in \in Nat /\ q * more \in Nat /\ (out - q) * less = less * (out - q)
        /\ less * (out - q) \in Nat /\ more * (out - q) \in Nat
    BY <1>2, <1>3
  <2> QED
    BY <2>1, <2>2, <1>1, <1>4, <1>5
<1> DEFINE n == out * more
           d == in + more
<1> HIDE DEF n, d
<1>7. n \div d >= q
  BY <1>1, <1>2, <1>6, DivAtLeast DEF n, d
<1>8. n \div d \in Nat
  BY <1>1, DivFacts DEF n, d
<1> QED
  BY <1>2, <1>7, <1>8 DEF n, d, q

(* The CLI quotes what the program pays, or less when a product saturates.   *)
LEMMA CliQuoteFacts ==
    ASSUME PoolsOK, NEW r \in Request, Exists(r.fee)
    PROVE  LET eff == EffectiveIn(r.amount, r.fee)
               paid == PaidFor(Legs(r), r)
           IN  /\ CliQuote(r) \in 0 .. U128_MAX
               /\ (/\ Fits(r.amount * (FEE_BPS_DENOMINATOR - r.fee))
                   /\ Fits(Legs(r).out * eff)
                   /\ Fits(Legs(r).in + eff)) => CliQuote(r) = paid
               /\ Fits(Legs(r).in + eff) => CliQuote(r) <= paid
<1> DEFINE D == FEE_BPS_DENOMINATOR
           num == r.amount * (D - r.fee)
           eff == EffectiveIn(r.amount, r.fee)
           sat == Least(num, U128_MAX)
           e == sat \div D
           in == Legs(r).in
           out == Legs(r).out
           den == Least(in + e, U128_MAX)
           top == Least(out * e, U128_MAX)
<1>1. r.pay \in Token /\ r.amount \in Nat /\ r.fee \in FEE_TIERS
  BY RequestFacts
<1>2. D \in Nat \ {0} /\ D - r.fee \in Nat /\ U128_MAX \in Nat
  <2>1. \A fee \in FEE_TIERS : D - fee \in Nat
    BY AmmMathAssumption, U128Assumption
  <2> QED
    BY <2>1, <1>1, AmmMathAssumption, U128Assumption
<1>3. in \in Nat \ {0} /\ out \in Nat \ {0}
  BY <1>1, LegsFacts
<1>4. num \in Nat /\ sat \in Nat /\ sat <= num
  <2>1. num \in Nat
    BY <1>1, <1>2
  <2> QED
    BY <2>1, <1>2 DEF Least
<1>5. CliQuote(r) = IF den = 0 THEN 0 ELSE top \div den
  <2>1. CliLegs(r) = Legs(r)
    BY CliLegsFacts
  <2> QED
    BY <2>1, Zenon DEF CliQuote, SaturatingMul, SaturatingAdd
<1>6. PaidFor(Legs(r), r) = (out * eff) \div (in + eff) /\ eff = num \div D
  BY DEF PaidFor, ExactInputOut, EffectiveIn
<1> HIDE DEF D, num, sat, in, out
<1>7. e \in Nat /\ e <= num \div D /\ num \div D \in Nat
  <2>1. e \in Nat /\ num \div D \in Nat
    BY <1>2, <1>4, DivFacts
  <2>2. e * D <= sat
    BY <1>2, <1>4, DivFacts
  <2>3. e * D <= num
    <3>1. e * D \in Nat
      BY <2>1, <1>2
    <3> QED
      BY <2>2, <3>1, <1>4
  <2>4. num \div D >= e
    BY <2>1, <2>3, <1>2, <1>4, DivAtLeast
  <2> QED
    BY <2>1, <2>4
<1>8. eff \in Nat /\ e <= eff
  BY <1>6, <1>7
<1>9. Fits(num) => e = eff
  <2>1. Fits(num) => sat = num
    BY <1>4 DEF sat, Fits, Least
  <2> QED
    BY <2>1, <1>6
<1> HIDE DEF e, eff
<1>10. out * e \in Nat /\ in + e \in Nat \ {0} /\ out * eff \in Nat /\ in + eff \in Nat \ {0}
  BY <1>3, <1>8, <1>7
<1>11. /\ den \in Nat /\ top \in Nat /\ top <= out * e /\ top <= U128_MAX
       /\ Fits(in + eff) => den = in + e
       /\ Fits(out * eff) /\ e = eff => top = out * e
  BY <1>2, <1>3, <1>7, <1>8, <1>10 DEF Least, Fits
<1> HIDE DEF den, top
<1>12. CliQuote(r) \in 0 .. U128_MAX
  <2>1. CASE den = 0
    BY <2>1, <1>2, <1>5
  <2>2. CASE den # 0
    <3>1. top \div den \in Nat /\ (top \div den) * den <= top
      BY <2>2, <1>11, DivFacts
    <3>2. 1 * (top \div den) <= den * (top \div den)
      BY <2>2, <3>1, <1>11, MulMonotone
    <3>3. top \div den <= top
      <4> DEFINE t == top \div den
      <4>1. t \in Nat /\ t * den <= top /\ 1 * t <= den * t
        BY <3>1, <3>2
      <4> HIDE DEF t
      <4>2. t * den = den * t /\ den * t \in Nat
        BY <4>1, <1>11
      <4>3. t <= top
        BY <4>1, <4>2, <1>11
      <4> QED
        BY <4>3 DEF t
    <3> QED
      BY <2>2, <3>1, <3>3, <1>2, <1>5, <1>11
  <2> QED
    BY <2>1, <2>2
<1>13. ASSUME Fits(in + eff)
       PROVE  /\ CliQuote(r) <= (out * eff) \div (in + eff)
              /\ Fits(num) /\ Fits(out * eff) => CliQuote(r) = (out * eff) \div (in + eff)
  <2> DEFINE d == in + e
             m == out * e
  <2>1. CliQuote(r) = top \div d /\ d \in Nat \ {0} /\ m \in Nat
    BY <1>5, <1>10, <1>11, <1>13
  <2>2. m \div d <= (out * eff) \div (in + eff)
    BY <1>3, <1>7, <1>8, CurveMonotone
  <2>3. top \div d <= m \div d
    <3> HIDE DEF m, d
    <3>1. top \div d \in Nat /\ m \div d \in Nat /\ (top \div d) * d <= top
      BY <2>1, <1>11, DivFacts
    <3>2. (top \div d) * d \in Nat /\ top <= m
      BY <3>1, <2>1, <1>11 DEF m
    <3>3. m \div d >= top \div d
      BY <3>1, <3>2, <2>1, <1>11, DivAtLeast
    <3> QED
      BY <3>1, <3>3
  <2>4. m \div d \in Nat /\ top \div d \in Nat /\ (out * eff) \div (in + eff) \in Nat
    <3> HIDE DEF m, d
    <3>1. m \div d \in Nat /\ top \div d \in Nat
      BY <2>1, <1>11, DivFacts
    <3> QED
      BY <3>1, <1>10, DivFacts
  <2>5. ASSUME Fits(num), Fits(out * eff)
        PROVE  top \div d = (out * eff) \div (in + eff)
    BY <2>5, <1>9, <1>11
  <2> HIDE DEF m, d
  <2> QED
    BY <2>1, <2>2, <2>3, <2>4, <2>5
<1> QED
  BY <1>6, <1>12, <1>13 DEF D, num, in, out, eff

(* What the command line sends is an order.                                *)
LEMMA CliOrder ==
    ASSUME PoolsOK, NEW r \in Request, Exists(r.fee), NEW slip \in Slips
    PROVE  OrderOK(Order("cli", r, slip, CliMinOut(r, slip), Legs(r), "fits"))
<1> DEFINE o == Order("cli", r, slip, CliMinOut(r, slip), Legs(r), "fits")
           q == CliQuote(r)
           F == PaidFor(Legs(r), r)
           m == CliBound(q, slip)
           all == 100 * F64_ONE
           P == (F * (all - slip)) \div all
<1>1. r.pay \in Token /\ r.amount \in Amounts /\ r.fee \in FEE_TIERS /\ r.amount \in Nat
  BY RequestFacts
<1>2. Legs(r) \in Seen
  BY <1>1, LegsFacts
<1>3. slip \in 0 .. (100 * F64_ONE - 1)
  BY AmountFacts
<1>4. /\ o.by = "cli" /\ o.pay = r.pay /\ o.amount = r.amount /\ o.fee = r.fee
      /\ o.slip = slip /\ o.min = Least(m, U128_MAX) /\ o.seen = Legs(r) /\ o.basis = "fits"
  BY DEF Order, CliMinOut, CliBound
<1> HIDE DEF o
<1>5. /\ q \in 0 .. U128_MAX
      /\ Exact(o) => q = F
      /\ Fits(o.seen.in + EffectiveIn(o.amount, o.fee)) => q <= F
      /\ Fair(o) = F /\ Promised(o) = P
  <2>1. Fair(o) = F
    BY <1>4 DEF Fair, PaidFor
  <2>2. Promised(o) = P
    BY <2>1, <1>4 DEF Promised
  <2> QED
    BY <2>1, <2>2, <1>4, CliQuoteFacts DEF Exact
<1>6. F \in Nat
  <2>1. Legs(r).in \in Nat \ {0} /\ Legs(r).out \in Nat \ {0}
    BY <1>1, LegsFacts
  <2> QED
    BY <2>1, <1>1, ExactInputFacts DEF PaidFor
<1> HIDE DEF q, F, m
<1>7. m \in Nat /\ q \in Nat /\ U128_MAX \in Nat /\ Drift(F) \in Nat /\ P \in Nat /\ P <= F
  <2>1. q \in Nat
    BY <1>5
  <2>2. m \in Nat
    BY <2>1, <1>3, <1>5, CliBoundAbove DEF m
  <2> HIDE DEF P
  <2> QED
    BY <2>1, <2>2, <1>3, <1>6, DriftFacts, PromisedFacts, F64Facts DEF P
<1>8. ASSUME Exact(o)
      PROVE  HighEnough(o)
  <2>1. q = F
    BY <1>5, <1>8
  <2>2. m >= P - 1 - Drift(F)
    BY <2>1, <1>3, <1>5, CliBoundBelow DEF m
  <2>3. F <= U128_MAX
    BY <2>1, <1>5
  <2> HIDE DEF P
  <2>4. Least(m, U128_MAX) >= P - 1 - Drift(F)
    BY <2>2, <2>3, <1>6, <1>7 DEF Least
  <2> QED
    BY <2>4, <1>4, <1>5 DEF HighEnough
<1>9. ASSUME Fits(o.seen.in + EffectiveIn(o.amount, o.fee))
      PROVE  o.min <= Fair(o) + Drift(Fair(o))
  <2>1. q <= F
    BY <1>5, <1>9
  <2>2. m <= F + Drift(F)
    BY <2>1, <1>3, <1>5, <1>6, CliBoundAbove DEF m
  <2>3. Least(m, U128_MAX) <= F + Drift(F)
    BY <2>2, <1>6, <1>7 DEF Least
  <2> QED
    BY <2>3, <1>4, <1>5
<1>10. BoundFits(o)
  BY <1>4, <1>8, <1>9 DEF BoundFits
<1>11. o.min \in Nat
  BY <1>4, <1>7 DEF Least
<1> QED
  BY <1>1, <1>2, <1>4, <1>10, <1>11 DEF OrderOK, o

-----------------------------------------------------------------------------
(* The invariant holds when the card is loaded.                            *)
LEMMA InitHolds == Init => IInv
<1> SUFFICES ASSUME Init PROVE IInv
  OBVIOUS
<1>1. PICK a \in Token, deposit \in Deposits :
         pools = [fee \in FEE_TIERS |->
                     IF fee \in InitialFees THEN Created(a, deposit) ELSE NoPool]
  BY DEF Init
<1>2. Created(a, deposit) \in Pool
  <2>1. deposit.own \in Reserve /\ deposit.other \in Reserve
    BY SwapCardAssumption DEF Reserve
  <2> QED
    BY <2>1 DEF Created, Pool, Reserves
<1>3. PoolsOK
  BY <1>1, <1>2 DEF PoolsOK, Exists
<1>4. CardOK
  BY SwapCardAssumption DEF Init, CardOK, Request, Token
<1>5. QuoteOK /\ OrdersOK /\ QuoteFitsRequest
  BY DEF Init, QuoteOK, Quoted, OrdersOK, QuoteFitsRequest
<1> QED
  BY <1>3, <1>4, <1>5 DEF IInv

(* The edits.                                                              *)
LEMMA EditsKeepCard ==
    ASSUME CardOK,
           \/ EditAmount \/ Flip \/ PickToken \/ PickFee \/ LoadDev \/ InitRefresh
    PROVE  CardOK'
<1>1. card \in [pay : Token, amount : Amounts, fee : FEE_TIERS] /\ avail \subseteq FEE_TIERS
      /\ card.pay \in Token
  BY DEF CardOK, Request
<1>2. AvailEvaluated => avail' \subseteq FEE_TIERS
  BY DEF AvailEvaluated
<1>3. CASE EditAmount
  BY <1>1, <1>3 DEF EditAmount, CardOK, Request
<1>4. CASE Flip
  BY <1>1, <1>2, <1>4, TokenFacts DEF Flip, CardOK, Request
<1>5. CASE PickToken
  BY <1>1, <1>2, <1>5, TokenFacts DEF PickToken, CardOK, Request
<1>6. CASE PickFee
  BY <1>1, <1>6 DEF PickFee, CardOK, Request
<1>7. CASE LoadDev
  BY <1>1, <1>2, <1>7 DEF LoadDev, CardOK, Request
<1>8. CASE InitRefresh
  BY <1>1, <1>2, <1>8 DEF InitRefresh, CardOK, Request
<1> QED
  BY <1>3, <1>4, <1>5, <1>6, <1>7, <1>8

(* The quote is for the card unless the timer runs.                         *)
LEMMA StepKeepsQuoteFit ==
    ASSUME IInv, [Next]_vars
    PROVE  QuoteFitsRequest'
<1>1. PoolsOK /\ CardOK /\ QuoteFitsRequest
  BY DEF IInv
<1>2. CASE EditAmount \/ Flip \/ PickToken \/ PickFee \/ LoadDev
  BY <1>2 DEF EditAmount, Flip, PickToken, PickFee, LoadDev, Restarted, QuoteFitsRequest
<1>3. CASE InitRefresh
  <2>1. PICK fee \in FEE_TIERS :
           card' = [card EXCEPT !.fee = fee] /\ timer' = (timer \/ fee # card.fee)
    BY <1>3 DEF InitRefresh
  <2>2. quote' = quote
    BY <1>3 DEF InitRefresh, chainVars
  <2>3. fee = card.fee => card' = card
    BY <1>1, <2>1 DEF CardOK, Request
  <2> QED
    BY <1>1, <2>1, <2>2, <2>3 DEF QuoteFitsRequest, Quoted
<1>4. CASE QuoteTimer \/ Refresh
  <2>1. UpdateQuote /\ card' = card
    BY <1>4 DEF QuoteTimer, Refresh
  <2> QED
    BY <1>1, <2>1, UpdateQuoteFacts DEF QuoteFitsRequest, Quoted
<1>5. CASE Click \/ CliSwap \/ Include \/ Drop \/ OthersSwap \/ OthersCreate \/ UNCHANGED vars
  <2>1. UNCHANGED cardVars
    BY <1>5 DEF Click, CliSwap, Include, Drop, OthersSwap, OthersCreate, vars
  <2> QED
    BY <1>1, <2>1 DEF QuoteFitsRequest, Quoted, cardVars
<1> QED
  BY <1>2, <1>3, <1>4, <1>5 DEF Next

(* Every step of the card, the command line and the chain keeps it.        *)
LEMMA StepKeepsInvariant == IInv /\ [Next]_vars => IInv'
<1> SUFFICES ASSUME IInv, [Next]_vars PROVE IInv'
  OBVIOUS
<1> USE DEF chainVars, cardVars
<1>1. PoolsOK /\ CardOK /\ QuoteOK /\ OrdersOK
  BY DEF IInv
<1>2. QuoteFitsRequest'
  BY StepKeepsQuoteFit
<1>3. CASE EditAmount \/ Flip \/ PickToken \/ PickFee \/ InitRefresh
  <2>1. CardOK'
    BY <1>1, <1>3, EditsKeepCard
  <2>2. UNCHANGED <<pools, orders, quote>>
    BY <1>3 DEF EditAmount, Flip, PickToken, PickFee, InitRefresh
  <2> QED
    BY <1>1, <1>2, <2>1, <2>2
       DEF IInv, PoolsOK, Exists, QuoteOK, Quoted, OrdersOK
<1>4. CASE LoadDev \/ QuoteTimer \/ Refresh
  <2>1. CardOK'
    <3>1. CASE LoadDev
      BY <1>1, <3>1, EditsKeepCard
    <3>2. CASE QuoteTimer \/ Refresh
      BY <1>1, <3>2 DEF QuoteTimer, Refresh, CardOK
    <3> QED
      BY <1>4, <3>1, <3>2
  <2>2. UNCHANGED <<pools, orders>> /\ UpdateQuote
    BY <1>4 DEF LoadDev, QuoteTimer, Refresh
  <2>3. QuoteOK'
    BY <1>1, <2>2, UpdateQuoteFacts
  <2> QED
    BY <1>1, <1>2, <2>1, <2>2, <2>3 DEF IInv, PoolsOK, Exists, OrdersOK
<1>5. CASE Click
  <2>1. PICK slip \in Slips : \E min \in Digits(MinRecv(slip)) :
           orders' = {Order("card", card, slip, min,
                            IF Quoted THEN quote.seen ELSE Legs(card), Basis)}
    BY <1>5 DEF Click
  <2> PICK min \in Digits(MinRecv(slip)) :
           orders' = {Order("card", card, slip, min,
                            IF Quoted THEN quote.seen ELSE Legs(card), Basis)}
    BY <2>1
  <2>2. OrdersOK'
    <3>1. TRUE \in Found(card.fee)
      BY <1>5 DEF Click
    <3> QED
      BY <1>1, <2>1, <3>1, ClickedOrder DEF OrdersOK
  <2>3. UNCHANGED <<pools, card, avail, quote>>
    BY <1>5 DEF Click
  <2> QED
    BY <1>1, <1>2, <2>2, <2>3 DEF IInv, PoolsOK, Exists, CardOK, QuoteOK, Quoted
<1>6. CASE CliSwap
  <2>1. PICK r \in Request, slip \in Slips :
           /\ Exists(r.fee)
           /\ orders' = {Order("cli", r, slip, CliMinOut(r, slip), Legs(r), "fits")}
    BY <1>6 DEF CliSwap
  <2>2. OrdersOK'
    BY <1>1, <2>1, CliOrder DEF OrdersOK
  <2>3. UNCHANGED <<pools, card, avail, quote>>
    BY <1>6 DEF CliSwap
  <2> QED
    BY <1>1, <1>2, <2>2, <2>3 DEF IInv, PoolsOK, Exists, CardOK, QuoteOK, Quoted
<1>7. CASE Include \/ Drop \/ OthersSwap \/ OthersCreate \/ UNCHANGED vars
  <2>1. PoolsOK'
    <3>1. CASE Include
      <4>1. PICK o \in orders : Accepted(o, o.min) /\ SwapOn(o)
        BY <3>1 DEF Include
      <4>2. o.pay \in Token /\ o.amount \in Nat /\ o.fee \in FEE_TIERS
        BY <1>1, AmountFacts DEF OrdersOK, OrderOK
      <4> QED
        BY <1>1, <4>1, <4>2, SwapKeepsPools
    <3>2. CASE OthersSwap
      <4>1. PICK r \in Request : Accepted(r, 0) /\ SwapOn(r)
        BY <3>2 DEF OthersSwap
      <4>2. r.pay \in Token /\ r.amount \in Nat /\ r.fee \in FEE_TIERS
        BY RequestFacts
      <4> QED
        BY <1>1, <4>1, <4>2, SwapKeepsPools
    <3>3. CASE OthersCreate
      BY <1>1, <3>3, CreateKeepsPools
    <3>4. CASE Drop \/ UNCHANGED vars
      <4>1. pools' = pools
        BY <3>4 DEF Drop, vars
      <4> QED
        BY <1>1, <4>1 DEF PoolsOK, Exists
    <3> QED
      BY <1>7, <3>1, <3>2, <3>3, <3>4
  <2>2. orders' \subseteq orders
    BY <1>7 DEF Include, Drop, OthersSwap, OthersCreate, vars
  <2>3. UNCHANGED <<card, avail, quote>>
    BY <1>7 DEF Include, Drop, OthersSwap, OthersCreate, vars
  <2>4. OrdersOK'
    BY <1>1, <2>2 DEF OrdersOK
  <2> QED
    BY <1>1, <1>2, <2>1, <2>3, <2>4 DEF IInv, CardOK, QuoteOK, Quoted
<1> QED
  BY <1>3, <1>4, <1>5, <1>6, <1>7 DEF Next

(* A quote that is shown belongs to the request on the card unless the     *)
(* timer runs, and every order remembers what it was computed from, under  *)
(* any edits and replies (src/mini-app).                                   *)
THEOREM SwapCardInvariant == Spec => []IInv
  BY InitHolds, StepKeepsInvariant, PTL DEF Spec

-----------------------------------------------------------------------------
(* Whatever the user edits, the bridge answers and the bindings do, a quote  *)
(* outlives the timer only for the request on the card.                     *)
THEOREM QuoteAlwaysFits == Spec => []QuoteFitsRequest
<1>1. IInv => QuoteFitsRequest
  BY DEF IInv
<1> QED
  BY <1>1, SwapCardInvariant, PTL

(* No bound is beyond what the pool could have paid, but for the drift of     *)
(* doubles, for every reserve and amount, whatever the precision of a double  *)
(* and the saturating products of the CLI included.                         *)
THEOREM BoundsReachable == Spec => []BoundReachable
<1>1. IInv => BoundReachable
  BY DEF IInv, OrdersOK, OrderOK, BoundFits, BoundReachable
<1> QED
  BY <1>1, SwapCardInvariant, PTL

(* An included swap that was quoted for what it is brings the quoted price    *)
(* less the slippage, to a unit and the drift of doubles, whatever the pool   *)
(* went through in between.                                                *)
THEOREM SlippageAlwaysHonoured == Spec => SlippageHonoured
<1> DEFINE Honoured(o) ==
             (o \notin orders' /\ pools'[o.fee] # pools[o.fee])
               => \/ o.by = "card" /\ o.basis # "fits"
                  \/ o.by = "cli" /\ ~Exact(o)
                  \/ pools[o.fee].reserve[Other(o.pay)] - pools'[o.fee].reserve[Other(o.pay)]
                        >= Promised(o) - 1 - Drift(Fair(o))
<1>1. ASSUME IInv, [Next]_vars, NEW o \in orders
      PROVE  Honoured(o)
  <2> SUFFICES ASSUME o \notin orders', pools'[o.fee] # pools[o.fee],
                      ~(o.by = "card" /\ o.basis # "fits"), ~(o.by = "cli" /\ ~Exact(o))
               PROVE  pools[o.fee].reserve[Other(o.pay)] - pools'[o.fee].reserve[Other(o.pay)]
                        >= Promised(o) - 1 - Drift(Fair(o))
    OBVIOUS
  <2> USE DEF chainVars, cardVars
  <2>1. PoolsOK /\ OrderOK(o)
    BY <1>1 DEF IInv, OrdersOK
  <2>2. Include
    BY <1>1 DEF Next, EditAmount, Flip, PickToken, PickFee, LoadDev, InitRefresh,
                QuoteTimer, Refresh, Click, CliSwap, Drop, OthersSwap, OthersCreate, vars
  <2>3. Accepted(o, o.min) /\ SwapOn(o)
    BY <2>2 DEF Include
  <2>4. o.pay \in Token /\ o.amount \in Nat /\ o.fee \in FEE_TIERS
    BY <2>1, AmountFacts DEF OrderOK
  <2>5. /\ Out(o) \in Nat
        /\ pools[o.fee].reserve[Other(o.pay)] - pools'[o.fee].reserve[Other(o.pay)] = Out(o)
    BY <2>1, <2>3, <2>4, SwapKeepsPools
  <2>6. Out(o) >= o.min
    BY <2>3 DEF Accepted
  <2>7. o.min >= Promised(o) - 1 - Drift(Fair(o)) /\ o.min \in Nat
    BY <2>1 DEF OrderOK, BoundFits, HighEnough
  <2>8. Promised(o) \in Nat /\ Drift(Fair(o)) \in Nat
    <3>1. o.seen.in \in Nat \ {0} /\ o.seen.out \in Nat \ {0}
          /\ o.slip \in 0 .. (100 * F64_ONE - 1)
      BY <2>1, AmountFacts DEF OrderOK, Seen
    <3>2. Fair(o) \in Nat
      BY <3>1, <2>4, ExactInputFacts DEF Fair
    <3> QED
      BY <3>1, <3>2, PromisedFacts, DriftFacts DEF Promised
  <2> QED
    BY <2>5, <2>6, <2>7, <2>8
<1>2. IInv /\ [Next]_vars => [\A o \in orders : Honoured(o)]_vars
  BY <1>1
<1> QED
  BY <1>2, SwapCardInvariant, PTL DEF Spec, SlippageHonoured

-----------------------------------------------------------------------------
(* The job pump.  That results belong follows from the pump's own           *)
(* bookkeeping.  That operations do not overlap takes an argument about     *)
(* time: while a job is polled, the polls so far and the intervals left to  *)
(* the failsafe add up to MAX_ATTEMPTS at most, so that the poll never      *)
(* gives up before the failsafe does.                                       *)

Newest == Len(kind)

UiOK ==
    /\ kind \in Seq({"job", "call"})
    /\ failsafe \in 0 .. Off
    /\ finished \subseteq 1 .. Newest

HistoryEntry == [act : Nat, got : Nat]
JobEntry == [of : Nat \ {0}, done : BOOLEAN]

HistoryOK ==
    /\ history \in Seq(HistoryEntry)
    /\ \A i \in 1 .. Len(history) : history[i].act \in finished

QueueOK ==
    /\ queue \in Seq(Nat)
    /\ \A i \in 1 .. Len(queue) : queue[i] <= Newest

PluginOK ==
    /\ replies \subseteq 1 .. Newest
    /\ \A act \in replies : kind[act] = "call"
    /\ registry \in Seq(JobEntry)
    /\ \A j \in 1 .. Len(registry) : registry[j].of <= Newest

(* The job that is polled is the one of the action that waits for it.       *)
PollOK ==
    /\ pending \in [job : Nat, act : Nat]
    /\ attempts \in Nat
    /\ poll \in {"off", "set", "due"}
    /\ pending.act # NoAction =>
          /\ pending.act <= Newest
          /\ pending.job \in 1 .. Len(registry)
          /\ registry[pending.job].of = pending.act

Bookkeeping == UiOK /\ HistoryOK /\ QueueOK /\ PluginOK /\ PollOK /\ ResultsBelong

-----------------------------------------------------------------------------
(* Until a wait is given up, whatever the plugin still has to do is the      *)
(* newest action, and the UI is busy with it.                               *)

QueuedIsNewest ==
    \A i \in 1 .. Len(queue) : queue[i] # Sync =>
        /\ queue[i] = Newest
        /\ busy /\ kind[Newest] = "call"
        /\ Newest \notin finished \cup replies
        /\ \A j \in 1 .. Len(queue) : queue[j] = queue[i] => j = i

AnsweredIsNewest ==
    \A act \in replies \ finished : act = Newest /\ busy

RunningIsPolled ==
    \A j \in 1 .. Len(registry) : ~registry[j].done => pending.act # NoAction /\ j = pending.job

PolledIsNewest ==
    pending.act # NoAction =>
        /\ pending.act = Newest
        /\ busy /\ kind[Newest] = "job"
        /\ Newest \notin finished
        /\ failsafe <= MAX_ATTEMPTS
        /\ \/ poll = "set" /\ attempts + failsafe <= MAX_ATTEMPTS
           \/ poll = "due" /\ attempts + failsafe < MAX_ATTEMPTS

Orderly == QueuedIsNewest /\ AnsweredIsNewest /\ RunningIsPolled /\ PolledIsNewest

PumpInv == Bookkeeping /\ (gave_up \/ Orderly)

-----------------------------------------------------------------------------
(* The bookkeeping.                                                        *)

(* The jobs in the registry are actions.                                   *)
LEMMA JobsAreEntries ==
    ASSUME registry \in Seq(JobEntry)
    PROVE  \A j \in 1 .. Len(registry) :
              registry[j] \in JobEntry /\ registry[j].of \in Nat \ {0}
<1>1. \A j \in 1 .. Len(registry) : registry[j] \in JobEntry
    OBVIOUS
<1> QED
    BY <1>1 DEF JobEntry

(* So is what has been recorded.                                           *)
LEMMA HistoryIsEntries ==
    ASSUME history \in Seq(HistoryEntry)
    PROVE  \A i \in 1 .. Len(history) :
              history[i].act \in Nat /\ history[i].got \in Nat
<1>1. \A i \in 1 .. Len(history) : history[i] \in HistoryEntry
    OBVIOUS
<1> QED
    BY <1>1 DEF HistoryEntry

(* The first answer an action gets is recorded; a later one is ignored.     *)
LEMMA OnResultKeeps ==
    ASSUME Bookkeeping, NEW act \in 1 .. Newest, NEW got \in {act, Nothing},
           OnResult(act, got), UNCHANGED kind
    PROVE  UiOK' /\ HistoryOK' /\ QueueOK' /\ ResultsBelong'
<1>1. CASE act \in finished /\ UNCHANGED <<finished, history, busy, failsafe, queue>>
    BY <1>1 DEF Bookkeeping, UiOK, HistoryOK, QueueOK, ResultsBelong, Newest
<1>2. CASE act \notin finished /\ Record(act, got)
    <2>1. UiOK'
        BY <1>2, JobPumpAssumption DEF Bookkeeping, UiOK, Record, Newest, Off
    <2>2. /\ history' = Append(history, [act |-> act, got |-> got])
          /\ history \in Seq(HistoryEntry)
          /\ [act |-> act, got |-> got] \in HistoryEntry
        BY <1>2 DEF Bookkeeping, HistoryOK, HistoryEntry, Record, Nothing, UiOK, Newest
    <2>3. /\ history' \in Seq(HistoryEntry)
          /\ Len(history') = Len(history) + 1
          /\ history'[Len(history) + 1] = [act |-> act, got |-> got]
          /\ \A i \in 1 .. Len(history) : history'[i] = history[i]
        BY <2>2
    <2>4. HistoryOK'
        BY <1>2, <2>3 DEF Bookkeeping, HistoryOK, Record
    <2>5. \A i \in 1 .. Len(history) : history[i].act # act
        BY <1>2 DEF Bookkeeping, HistoryOK
    <2>6. ResultsBelong'
        <3>1. \A i \in 1 .. Len(history') : history'[i].got \in {history'[i].act, Nothing}
            BY <2>3 DEF Bookkeeping, HistoryOK, ResultsBelong
        <3>2. \A i, j \in 1 .. Len(history') : i # j => history'[i].act # history'[j].act
            BY <2>3, <2>5 DEF Bookkeeping, HistoryOK, ResultsBelong
        <3> QED
            BY <3>1, <3>2 DEF ResultsBelong
    <2>7. QueueOK'
        BY <1>2 DEF Bookkeeping, QueueOK, Record, Sync, Newest, UiOK
    <2> QED
        BY <2>1, <2>4, <2>6, <2>7
<1> QED
    BY <1>1, <1>2 DEF OnResult

(* Beginning an action adds it.                                            *)
LEMMA BeginKeeps ==
    ASSUME Bookkeeping, NEW k \in {"job", "call"}, Begin(k)
    PROVE  /\ kind' \in Seq({"job", "call"})
           /\ Newest' = Newest + 1
           /\ Newest \in Nat
           /\ kind'[Newest + 1] = k
           /\ \A act \in 1 .. Newest : kind'[act] = kind[act]
           /\ ~busy
BY DEF Bookkeeping, UiOK, Begin, Newest

(* A job that is started is booked; so is what each of the steps below     *)
(* does.                                                                   *)
LEMMA RunJobBooks == ASSUME Bookkeeping, RunJob PROVE Bookkeeping'
<1>1. /\ kind' \in Seq({"job", "call"})
      /\ Newest' = Newest + 1
      /\ Newest \in Nat
      /\ kind'[Newest + 1] = "job"
      /\ \A act \in 1 .. Newest : kind'[act] = kind[act]
      /\ ~busy
    BY BeginKeeps DEF RunJob
<1>2. UiOK'
    BY <1>1, JobPumpAssumption DEF RunJob, Bookkeeping, UiOK, Off
<1>3. HistoryOK' /\ ResultsBelong'
    BY DEF RunJob, Bookkeeping, HistoryOK, ResultsBelong
<1>4. QueueOK'
    BY <1>1 DEF RunJob, Bookkeeping, QueueOK
<1>5. /\ registry' = Append(registry, [of |-> Newest + 1, done |-> FALSE])
      /\ pending' = [job |-> Len(registry) + 1, act |-> Newest + 1]
      /\ registry' \in Seq(JobEntry)
      /\ Len(registry') = Len(registry) + 1
      /\ Len(registry) \in Nat
      /\ registry'[Len(registry) + 1] = [of |-> Newest + 1, done |-> FALSE]
      /\ \A j \in 1 .. Len(registry) : registry'[j] = registry[j]
    <2>1. /\ registry' = Append(registry, [of |-> Newest + 1, done |-> FALSE])
          /\ pending' = [job |-> Len(registry) + 1, act |-> Newest + 1]
        BY DEF RunJob, Spawned, Newest
    <2>2. [of |-> Newest + 1, done |-> FALSE] \in JobEntry
        BY <1>1 DEF JobEntry
    <2>3. registry \in Seq(JobEntry)
        BY DEF Bookkeeping, PluginOK
    <2> QED
        BY <2>1, <2>2, <2>3
<1>6. PluginOK'
    <2>1. \A act \in replies' : act \in 1 .. Newest' /\ kind'[act] = "call"
        BY <1>1 DEF RunJob, Bookkeeping, PluginOK
    <2>2. \A j \in 1 .. Len(registry') : registry'[j].of <= Newest'
        <3>1. \A j \in 1 .. Len(registry) : registry[j].of \in Nat /\ registry[j].of <= Newest
            BY JobsAreEntries DEF Bookkeeping, PluginOK
        <3> QED
            BY <1>1, <1>5, <3>1
    <2> QED
        BY <1>5, <2>1, <2>2 DEF PluginOK
<1>7. PollOK'
    BY <1>1, <1>5 DEF RunJob, ResetAttempts, Bookkeeping, PollOK
<1> QED
    BY <1>2, <1>3, <1>4, <1>6, <1>7 DEF Bookkeeping

(* A start the bridge gives up on.                                         *)
LEMMA RunJobUnansweredBooks == ASSUME Bookkeeping, RunJobUnanswered PROVE Bookkeeping'
<1>1. /\ kind' \in Seq({"job", "call"})
      /\ Newest' = Newest + 1
      /\ Newest \in Nat
      /\ kind'[Newest + 1] = "job"
      /\ \A act \in 1 .. Newest : kind'[act] = kind[act]
      /\ ~busy
    BY BeginKeeps DEF RunJobUnanswered
<1>2. UiOK'
    <2>1. finished' = finished \cup {Newest + 1} /\ failsafe' = Off'
        BY DEF RunJobUnanswered, Newest, Off
    <2>2. \A act \in finished' : act \in 1 .. Newest'
        BY <1>1, <2>1 DEF Bookkeeping, UiOK
    <2>3. Off' \in 0 .. Off'
        BY JobPumpAssumption DEF Off
    <2> QED
        BY <1>1, <2>1, <2>2, <2>3 DEF UiOK
<1>3. /\ history' = Append(history, [act |-> Newest + 1, got |-> Nothing])
      /\ finished' = finished \cup {Newest + 1}
      /\ Newest + 1 \notin finished
      /\ [act |-> Newest + 1, got |-> Nothing] \in HistoryEntry
    BY <1>1 DEF RunJobUnanswered, Bookkeeping, UiOK, HistoryEntry, Newest, Nothing
<1>4. /\ history' \in Seq(HistoryEntry)
      /\ Len(history') = Len(history) + 1
      /\ Len(history) \in Nat
      /\ history'[Len(history) + 1] = [act |-> Newest + 1, got |-> Nothing]
      /\ \A i \in 1 .. Len(history) : history'[i] = history[i]
    BY <1>3 DEF Bookkeeping, HistoryOK
<1>5. HistoryOK'
    BY <1>3, <1>4 DEF Bookkeeping, HistoryOK
<1>6. ResultsBelong'
    BY <1>3, <1>4 DEF Bookkeeping, HistoryOK, ResultsBelong
<1>7. QueueOK'
    <2>1. queue' = Append(queue, Newest + 1)
        BY DEF RunJobUnanswered, Newest
    <2> QED
        BY <1>1, <2>1 DEF Bookkeeping, QueueOK
<1>8. PluginOK' /\ PollOK'
    <2>1. \A act \in replies' : act \in 1 .. Newest' /\ kind'[act] = "call"
        BY SMTT(30), <1>1 DEF RunJobUnanswered, Bookkeeping, PluginOK
    <2>2. \A j \in 1 .. Len(registry') : registry'[j].of <= Newest'
        <3>1. \A j \in 1 .. Len(registry) : registry[j].of \in Nat /\ registry[j].of <= Newest
            BY JobsAreEntries DEF Bookkeeping, PluginOK
        <3> QED
            BY <1>1, <3>1 DEF RunJobUnanswered
    <2>3. PluginOK'
        BY <2>1, <2>2 DEF RunJobUnanswered, Bookkeeping, PluginOK
    <2>4. PollOK'
        BY <1>1 DEF RunJobUnanswered, Bookkeeping, PollOK, pumpVars
    <2> QED
        BY <2>3, <2>4
<1> QED
    BY <1>2, <1>5, <1>6, <1>7, <1>8 DEF Bookkeeping

(* A call.                                                                 *)
LEMMA RunCallBooks == ASSUME Bookkeeping, RunCall PROVE Bookkeeping'
<1>1. /\ kind' \in Seq({"job", "call"})
      /\ Newest' = Newest + 1
      /\ Newest \in Nat
      /\ kind'[Newest + 1] = "call"
      /\ \A act \in 1 .. Newest : kind'[act] = kind[act]
      /\ ~busy
    BY BeginKeeps DEF RunCall
<1>2. UiOK'
    BY <1>1, JobPumpAssumption DEF RunCall, Bookkeeping, UiOK, Off
<1>3. HistoryOK' /\ ResultsBelong'
    BY DEF RunCall, Bookkeeping, HistoryOK, ResultsBelong
<1>4. QueueOK'
    <2>1. queue' = Append(queue, Newest + 1)
        BY DEF RunCall, Newest
    <2> QED
        BY <1>1, <2>1 DEF Bookkeeping, QueueOK
<1>5. PluginOK' /\ PollOK'
    <2>1. \A act \in replies' : act \in 1 .. Newest' /\ kind'[act] = "call"
        <3>1. \A act \in replies : act \in 1 .. Newest /\ kind[act] = "call"
            BY DEF Bookkeeping, PluginOK
        <3>2. replies' = replies
            BY DEF RunCall
        <3> QED
            BY <1>1, <3>1, <3>2
    <2>2. \A j \in 1 .. Len(registry') : registry'[j].of <= Newest'
        <3>1. \A j \in 1 .. Len(registry) : registry[j].of \in Nat /\ registry[j].of <= Newest
            BY JobsAreEntries DEF Bookkeeping, PluginOK
        <3> QED
            BY <1>1, <3>1 DEF RunCall
    <2>3. PluginOK'
        BY <2>1, <2>2 DEF RunCall, Bookkeeping, PluginOK
    <2>4. PollOK'
        BY <1>1 DEF RunCall, Bookkeeping, PollOK, pumpVars
    <2> QED
        BY <2>3, <2>4
<1> QED
    BY <1>2, <1>3, <1>4, <1>5 DEF Bookkeeping

(* An answer that arrives.                                                 *)
LEMMA ReplyBooks ==
    ASSUME Bookkeeping, NEW act \in 1 .. Newest, Reply(act)
    PROVE  Bookkeeping'
<1>1. UiOK' /\ HistoryOK' /\ QueueOK' /\ ResultsBelong'
    BY OnResultKeeps DEF Reply
<1>2. PluginOK' /\ PollOK'
    BY DEF Reply, Bookkeeping, PluginOK, PollOK, pumpVars, Newest
<1> QED
    BY <1>1, <1>2 DEF Bookkeeping

(* A call given up.                                                        *)
LEMMA BridgeTimeoutBooks ==
    ASSUME Bookkeeping, NEW act \in 1 .. Newest, BridgeTimeout(act)
    PROVE  Bookkeeping'
<1>1. UiOK' /\ HistoryOK' /\ QueueOK' /\ ResultsBelong'
    BY OnResultKeeps DEF BridgeTimeout
<1>2. PluginOK' /\ PollOK'
    BY DEF BridgeTimeout, Bookkeeping, PluginOK, PollOK, pumpVars, Newest
<1> QED
    BY <1>1, <1>2 DEF Bookkeeping

(* A poll.                                                                 *)
LEMMA PollBooks == ASSUME Bookkeeping, Poll PROVE Bookkeeping'
<1>1. /\ pending.act \in 1 .. Newest
      /\ attempts' \in Nat
      /\ UNCHANGED <<kind, replies, registry>>
    <2>1. Newest \in Nat
        BY DEF Bookkeeping, UiOK, Newest
    <2> QED
        BY <2>1 DEF Poll, Bookkeeping, PollOK, NoAction
<1>2. PluginOK'
    BY <1>1 DEF Bookkeeping, PluginOK, Newest
<1>3. CASE PollAgain
    BY <1>1, <1>2, <1>3
       DEF PollAgain, Bookkeeping, UiOK, HistoryOK, QueueOK, ResultsBelong, PollOK, Newest
<1>4. ASSUME NEW got \in {pending.act, Nothing}, PollEnds(got)
      PROVE  Bookkeeping'
    <2>1. UiOK' /\ HistoryOK' /\ QueueOK' /\ ResultsBelong'
        BY <1>1, <1>4, OnResultKeeps DEF PollEnds
    <2>2. PollOK'
        BY <1>1, <1>4 DEF PollEnds, Bookkeeping, PollOK, NoAction, Newest
    <2> QED
        BY <1>2, <2>1, <2>2 DEF Bookkeeping
<1>5. registry[PolledJob].of = pending.act
    BY DEF Poll, Bookkeeping, PollOK, PolledJob
<1> QED
    BY <1>3, <1>4, <1>5 DEF Poll

(* The timers.                                                             *)
LEMMA TimerBooks == ASSUME Bookkeeping, Failsafe \/ Tick PROVE Bookkeeping'
<1>1. CASE Failsafe
    <2>1. failsafe' \in 0 .. Off'
        BY <1>1, JobPumpAssumption DEF Failsafe, Off
    <2> QED
        BY <1>1, <2>1
           DEF Failsafe, Bookkeeping, UiOK, HistoryOK, QueueOK, PluginOK, PollOK,
               ResultsBelong, pumpVars, pluginVars, Newest
<1>2. CASE Tick
    BY <1>2, JobPumpAssumption
       DEF Tick, Bookkeeping, UiOK, HistoryOK, QueueOK, PluginOK, PollOK, ResultsBelong,
           pluginVars, Newest, Off
<1> QED
    BY <1>1, <1>2

(* What is served was the first in the queue, and the others move up.       *)
LEMMA Served ==
    ASSUME QueueOK, Serve
    PROVE  /\ Head(queue) = queue[1] /\ Head(queue) \in 0 .. Newest
           /\ 1 \in 1 .. Len(queue)
           /\ queue' \in Seq(Nat)
           /\ Len(queue') = Len(queue) - 1
           /\ \A i \in 1 .. Len(queue') : i + 1 \in 1 .. Len(queue) /\ queue'[i] = queue[i + 1]
BY DEF QueueOK, Serve

(* The plugin takes a call.                                                *)
LEMMA ServeBooks == ASSUME Bookkeeping, Serve PROVE Bookkeeping'
<1> DEFINE act == Head(queue)
<1>1. QueueOK'
    BY Served DEF Bookkeeping, QueueOK, Serve, Newest
<1>2. UiOK' /\ HistoryOK' /\ ResultsBelong'
    BY DEF Serve, Bookkeeping, UiOK, HistoryOK, ResultsBelong, Newest
<1>3. act \in 0 .. Newest /\ Newest' = Newest /\ kind' = kind
    BY Served DEF Bookkeeping, Serve, Newest
<1>4. CASE act = Sync /\ UNCHANGED <<replies, registry>>
    BY <1>1, <1>2, <1>3, <1>4 DEF Serve, Bookkeeping, PluginOK, PollOK, pumpVars
<1>5. CASE act # Sync /\ registry' = Spawned(act) /\ UNCHANGED replies
    <2>1. /\ registry' \in Seq(JobEntry)
          /\ Len(registry') = Len(registry) + 1
          /\ Len(registry) \in Nat
          /\ registry'[Len(registry) + 1].of = act
          /\ \A j \in 1 .. Len(registry) : registry'[j] = registry[j]
        <3>1. registry' = Append(registry, [of |-> act, done |-> FALSE])
            BY <1>5 DEF Spawned
        <3>2. [of |-> act, done |-> FALSE] \in JobEntry
            BY <1>3, <1>5 DEF JobEntry, Sync, Bookkeeping, UiOK, Newest
        <3>3. registry \in Seq(JobEntry)
            BY DEF Bookkeeping, PluginOK
        <3> HIDE DEF act
        <3> QED
            BY <3>1, <3>2, <3>3
    <2>2. PluginOK'
        BY <1>3, <1>5, <2>1 DEF Bookkeeping, PluginOK
    <2>3. PollOK'
        BY <1>3, <2>1 DEF Serve, Bookkeeping, PollOK, pumpVars
    <2> QED
        BY <1>1, <1>2, <2>2, <2>3 DEF Bookkeeping
<1>6. CASE act # Sync /\ kind[act] = "call" /\ replies' = replies \cup {act} /\ UNCHANGED registry
    <2>1. act \in 1 .. Newest
        BY <1>3, <1>6 DEF Sync, Bookkeeping, UiOK, Newest
    <2>2. PluginOK'
        BY <1>3, <1>6, <2>1 DEF Bookkeeping, PluginOK
    <2>3. PollOK'
        BY <1>3, <1>6 DEF Serve, Bookkeeping, PollOK, pumpVars
    <2> QED
        BY <1>1, <1>2, <2>2, <2>3 DEF Bookkeeping
<1> QED
    BY <1>4, <1>5, <1>6 DEF Serve

(* A job ends.                                                             *)
LEMMA JobDoneBooks ==
    ASSUME Bookkeeping, NEW job \in 1 .. Len(registry), JobDone(job)
    PROVE  Bookkeeping'
<1>1. /\ registry' \in Seq(JobEntry)
      /\ Len(registry') = Len(registry)
      /\ \A j \in 1 .. Len(registry) : registry'[j].of = registry[j].of
    <2>1. registry \in Seq(JobEntry) /\ registry[job] \in JobEntry
        BY JobsAreEntries DEF Bookkeeping, PluginOK
    <2>2. registry' = [registry EXCEPT ![job] = [registry[job] EXCEPT !.done = TRUE]]
        BY DEF JobDone
    <2>3. /\ [registry[job] EXCEPT !.done = TRUE] \in JobEntry
          /\ [registry[job] EXCEPT !.done = TRUE].of = registry[job].of
        BY <2>1 DEF JobEntry
    <2> QED
        BY <2>1, <2>2, <2>3
<1> QED
    BY <1>1
       DEF JobDone, Bookkeeping, UiOK, HistoryOK, QueueOK, PluginOK, PollOK, ResultsBelong,
           pumpVars, Newest

(* Every step keeps the books.                                             *)
LEMMA BookkeepingStep == ASSUME Bookkeeping, [PumpNext]_jobPumpVars PROVE Bookkeeping'
<1>1. CASE \E act \in 1 .. Newest : Reply(act) \/ BridgeTimeout(act)
    BY <1>1, ReplyBooks, BridgeTimeoutBooks
<1>2. CASE \E job \in 1 .. Len(registry) : JobDone(job)
    BY <1>2, JobDoneBooks
<1>3. CASE UNCHANGED jobPumpVars
    BY <1>3
       DEF jobPumpVars, Bookkeeping, UiOK, HistoryOK, QueueOK, PluginOK, PollOK, ResultsBelong,
           pumpVars, pluginVars, Newest
<1> QED
    BY <1>1, <1>2, <1>3, RunJobBooks, RunJobUnansweredBooks, RunCallBooks, PollBooks,
       TimerBooks, ServeBooks
       DEF PumpNext, Newest

(* They start empty.                                                       *)
LEMMA InitBooks == PumpInit => Bookkeeping
BY JobPumpAssumption
   DEF PumpInit, Bookkeeping, UiOK, HistoryOK, QueueOK, PluginOK, PollOK, ResultsBelong, NoJob,
       NoAction, Off, Newest

(* Every action is told one result, its own, however many jobs, timeouts     *)
(* and late answers there are.                                              *)
THEOREM ResultsAlwaysBelong == PumpSpec => []ResultsBelong
<1>1. Bookkeeping /\ [PumpNext]_jobPumpVars => Bookkeeping'
    BY BookkeepingStep
<1>2. Bookkeeping => ResultsBelong
    BY DEF Bookkeeping
<1> QED
    BY <1>1, <1>2, InitBooks, PTL DEF PumpSpec

-----------------------------------------------------------------------------
(* One at a time.                                                          *)

(* What an idle UI has asked for has ended.                                 *)
LEMMA IdleIsQuiet ==
    ASSUME Bookkeeping, Orderly, ~busy
    PROVE  /\ \A i \in 1 .. Len(queue) : queue[i] = Sync
           /\ replies \subseteq finished
           /\ pending.act = NoAction
           /\ \A j \in 1 .. Len(registry) : registry[j].done
BY DEF Orderly, QueuedIsNewest, AnsweredIsNewest, RunningIsPolled, PolledIsNewest

(* A job is started only when nothing is in flight.                        *)
LEMMA RunJobOrderly == ASSUME Bookkeeping, Orderly, RunJob PROVE Orderly'
<1>1. /\ Newest' = Newest + 1
      /\ Newest \in Nat
      /\ kind'[Newest + 1] = "job"
      /\ ~busy
    BY BeginKeeps DEF RunJob
<1>2. QueuedIsNewest'
    BY DEF RunJob, Answered, QueuedIsNewest
<1>3. AnsweredIsNewest'
    BY <1>1, IdleIsQuiet DEF RunJob, AnsweredIsNewest
<1>4. RunningIsPolled'
    <2>1. /\ registry' = Append(registry, [of |-> Newest + 1, done |-> FALSE])
          /\ pending' = [job |-> Len(registry) + 1, act |-> Newest + 1]
        BY DEF RunJob, Spawned, Newest
    <2>2. registry \in Seq(JobEntry)
        BY DEF Bookkeeping, PluginOK
    <2>3. \A j \in 1 .. Len(registry') :
              j = Len(registry) + 1 \/ (j \in 1 .. Len(registry) /\ registry'[j] = registry[j])
        BY <2>1, <2>2
    <2> QED
        BY <1>1, <2>1, <2>3, IdleIsQuiet DEF RunningIsPolled, NoAction
<1>5. PolledIsNewest'
    <2>1. pending'.act = Newest + 1 /\ Newest + 1 \notin finished /\ finished' = finished
        BY <1>1 DEF RunJob, Bookkeeping, UiOK, Newest
    <2>2. busy' /\ failsafe' = MAX_ATTEMPTS /\ attempts' = 0 /\ poll' = "set"
        BY DEF RunJob, ResetAttempts
    <2> QED
        BY <1>1, <2>1, <2>2, JobPumpAssumption DEF PolledIsNewest
<1> QED
    BY <1>2, <1>3, <1>4, <1>5 DEF Orderly

(* So is a call.                                                           *)
LEMMA RunCallOrderly == ASSUME Bookkeeping, Orderly, RunCall PROVE Orderly'
<1>1. /\ Newest' = Newest + 1
      /\ Newest \in Nat
      /\ kind'[Newest + 1] = "call"
      /\ ~busy
    BY BeginKeeps DEF RunCall
<1>2. QueuedIsNewest'
    <2>1. queue' = Append(queue, Newest + 1) /\ queue \in Seq(Nat)
        BY DEF RunCall, Newest, Bookkeeping, QueueOK
    <2>2. \A i \in 1 .. Len(queue') :
              \/ i = Len(queue) + 1 /\ queue'[i] = Newest + 1
              \/ i \in 1 .. Len(queue) /\ queue'[i] = Sync
        BY <1>1, <2>1, IdleIsQuiet
    <2>3. Newest + 1 \notin finished \cup replies
        BY <1>1 DEF Bookkeeping, UiOK, PluginOK
    <2>4. busy' /\ finished' = finished /\ replies' = replies
        BY DEF RunCall
    <2> QED
        BY <1>1, <2>2, <2>3, <2>4 DEF QueuedIsNewest, Sync
<1>3. AnsweredIsNewest'
    BY <1>1, IdleIsQuiet DEF RunCall, AnsweredIsNewest
<1>4. RunningIsPolled' /\ PolledIsNewest'
    BY <1>1, IdleIsQuiet DEF RunCall, RunningIsPolled, PolledIsNewest, pumpVars
<1> QED
    BY <1>2, <1>3, <1>4 DEF Orderly

(* A first answer is the newest action's; after it the plugin has nothing    *)
(* left to do but sync.                                                     *)
LEMMA ReplyOrderly ==
    ASSUME Bookkeeping, Orderly, NEW act \in 1 .. Newest, Reply(act)
    PROVE  Orderly'
<1>1. CASE act \in finished /\ UNCHANGED <<finished, history, busy, failsafe, queue>>
    BY <1>1
       DEF Reply, Orderly, QueuedIsNewest, AnsweredIsNewest, RunningIsPolled, PolledIsNewest,
           pumpVars, Newest
<1>2. CASE act \notin finished /\ Record(act, act)
    <2>1. act = Newest /\ kind[act] = "call"
        BY <1>2 DEF Reply, Orderly, AnsweredIsNewest, Bookkeeping, PluginOK
    <2>2. pending.act = NoAction
        BY <2>1 DEF Orderly, PolledIsNewest
    <2>3. \A i \in 1 .. Len(queue) : queue[i] = Sync
        BY <2>1 DEF Reply, Orderly, QueuedIsNewest
    <2>4. queue' = Append(queue, Sync) /\ queue \in Seq(Nat)
        BY <1>2 DEF Record, Nothing, Bookkeeping, QueueOK
    <2>5. \A i \in 1 .. Len(queue') : queue'[i] = Sync
        BY <2>3, <2>4
    <2>6. AnsweredIsNewest'
        BY <1>2, <2>1 DEF Reply, Record, Orderly, AnsweredIsNewest
    <2>7. RunningIsPolled' /\ PolledIsNewest'
        BY <2>2 DEF Reply, Orderly, RunningIsPolled, PolledIsNewest, pumpVars
    <2> QED
        BY <2>5, <2>6, <2>7 DEF Orderly, QueuedIsNewest
<1> QED
    BY <1>1, <1>2 DEF Reply, OnResult

(* The poll never outlasts the failsafe, and it ends when the job has.       *)
LEMMA PollOrderly ==
    ASSUME Bookkeeping, Orderly, Poll, ~gave_up'
    PROVE  Orderly'
<1>1. /\ pending.act = Newest /\ pending.act # NoAction
      /\ busy /\ kind[Newest] = "job" /\ Newest \notin finished
      /\ failsafe \in 0 .. MAX_ATTEMPTS
      /\ attempts + failsafe < MAX_ATTEMPTS
    BY DEF Poll, Orderly, PolledIsNewest, Bookkeeping, UiOK
<1>2. attempts' = attempts + 1 /\ attempts' <= MAX_ATTEMPTS
    BY <1>1, JobPumpAssumption DEF Poll, Bookkeeping, PollOK
<1>3. /\ queue = <<>>
      /\ UNCHANGED <<kind, replies, registry>>
      /\ \/ registry[pending.job].done /\ PollEnds(pending.act)
         \/ ~registry[pending.job].done /\ PollAgain
    BY <1>1, <1>2, JobPumpAssumption
       DEF Poll, Answered, PolledJob, Bookkeeping, PollOK
<1>4. replies \subseteq finished
    BY <1>1 DEF Orderly, AnsweredIsNewest, Bookkeeping, PluginOK
<1>5. CASE registry[pending.job].done /\ PollEnds(pending.act)
    <2>1. pending'.act = NoAction /\ Record(pending.act, pending.act)
        BY <1>1, <1>5 DEF PollEnds, OnResult, Bookkeeping, PollOK
    <2>2. queue' = Append(<<>>, Sync) /\ finished \subseteq finished'
        BY <1>1, <1>3, <2>1 DEF Record, NoAction, Nothing
    <2>3. \A i \in 1 .. Len(queue') : queue'[i] = Sync
        BY <2>2 DEF Sync
    <2>4. AnsweredIsNewest'
        BY <1>3, <1>4, <2>2 DEF AnsweredIsNewest
    <2>5. RunningIsPolled'
        BY <1>3, <1>5 DEF Orderly, RunningIsPolled
    <2> QED
        BY <2>1, <2>3, <2>4, <2>5 DEF Orderly, QueuedIsNewest, PolledIsNewest
<1>6. CASE PollAgain
    <2>1. QueuedIsNewest' /\ AnsweredIsNewest' /\ RunningIsPolled'
        BY <1>3, <1>6
           DEF PollAgain, Orderly, QueuedIsNewest, AnsweredIsNewest, RunningIsPolled, Newest
    <2>2. PolledIsNewest'
        BY <1>1, <1>2, <1>3, <1>6, JobPumpAssumption
           DEF PollAgain, PolledIsNewest, Newest, Bookkeeping, PollOK
    <2> QED
        BY <2>1, <2>2 DEF Orderly
<1> QED
    BY <1>3, <1>5, <1>6

(* The failsafe gives up.                                                  *)
LEMMA FailsafeOrderly ==
    ASSUME Bookkeeping, Orderly, Failsafe, ~gave_up'
    PROVE  Orderly'
<1>1. ~busy
    BY DEF Failsafe
<1> QED
    BY <1>1, IdleIsQuiet
       DEF Failsafe, Orderly, QueuedIsNewest, AnsweredIsNewest, RunningIsPolled,
           PolledIsNewest, pumpVars, pluginVars, Newest

(* Time passes.                                                            *)
LEMMA TickOrderly == ASSUME Bookkeeping, Orderly, Tick PROVE Orderly'
<1>1. QueuedIsNewest' /\ AnsweredIsNewest' /\ RunningIsPolled'
    BY DEF Tick, Orderly, QueuedIsNewest, AnsweredIsNewest, RunningIsPolled, pluginVars,
           Newest
<1>2. PolledIsNewest'
    BY JobPumpAssumption
       DEF Tick, Orderly, PolledIsNewest, Bookkeeping, UiOK, PollOK, Off, Newest
<1> QED
    BY <1>1, <1>2 DEF Orderly

(* The plugin takes a call.                                                *)
LEMMA ServeOrderly == ASSUME Bookkeeping, Orderly, Serve PROVE Orderly'
<1> DEFINE act == Head(queue)
<1>1. /\ act = queue[1] /\ 1 \in 1 .. Len(queue)
      /\ Len(queue') \in Nat
      /\ \A i \in 1 .. Len(queue') : i + 1 \in 1 .. Len(queue) /\ queue'[i] = queue[i + 1]
    BY Served DEF Bookkeeping
<1>2. UNCHANGED <<kind, busy, failsafe, finished, pending, attempts, poll>>
    BY DEF Serve, pumpVars
<1>3. CASE act = Sync /\ UNCHANGED <<replies, registry>>
    <2>1. QueuedIsNewest'
        <3> SUFFICES ASSUME NEW i \in 1 .. Len(queue'), queue'[i] # Sync
                     PROVE  /\ queue'[i] = Newest
                            /\ busy /\ kind[Newest] = "call"
                            /\ Newest \notin finished \cup replies
                            /\ \A j \in 1 .. Len(queue') : queue'[j] = queue'[i] => j = i
            BY <1>2, <1>3 DEF QueuedIsNewest, Newest
        <3>1. /\ queue[i + 1] = Newest
              /\ busy /\ kind[Newest] = "call"
              /\ Newest \notin finished \cup replies
              /\ \A j \in 1 .. Len(queue) : queue[j] = queue[i + 1] => j = i + 1
            BY <1>1 DEF Orderly, QueuedIsNewest
        <3>2. ASSUME NEW j \in 1 .. Len(queue'), queue'[j] = queue'[i]
              PROVE  j = i
            <4>1. j + 1 = i + 1
                BY <1>1, <3>1, <3>2
            <4> QED
                BY <1>1, <4>1
        <3> QED
            BY <1>1, <3>1, <3>2
    <2> QED
        BY <1>2, <1>3, <2>1
           DEF Orderly, AnsweredIsNewest, RunningIsPolled, PolledIsNewest, Newest
<1>4. CASE act # Sync
    <2>1. /\ act = Newest /\ busy /\ kind[Newest] = "call"
          /\ \A j \in 1 .. Len(queue) : queue[j] = act => j = 1
          /\ \A j \in 1 .. Len(queue) : queue[j] \in {Sync, act}
        BY <1>1, <1>4 DEF Orderly, QueuedIsNewest
    <2>2. replies' = replies \cup {act} /\ UNCHANGED registry
        BY <1>4, <2>1 DEF Serve
    <2>3. \A i \in 1 .. Len(queue') : queue'[i] = Sync
        BY <1>1, <2>1
    <2> QED
        BY <1>2, <2>1, <2>2, <2>3
           DEF Orderly, QueuedIsNewest, AnsweredIsNewest, RunningIsPolled, PolledIsNewest,
               Newest
<1> QED
    BY <1>3, <1>4 DEF Serve

(* A job ends.                                                             *)
LEMMA JobDoneOrderly ==
    ASSUME Bookkeeping, Orderly, NEW job \in 1 .. Len(registry), JobDone(job)
    PROVE  Orderly'
<1>1. RunningIsPolled'
    BY DEF JobDone, Orderly, RunningIsPolled, Bookkeeping, PluginOK, pumpVars
<1> QED
    BY <1>1
       DEF JobDone, Orderly, QueuedIsNewest, AnsweredIsNewest, PolledIsNewest, pumpVars, Newest

(* Every step keeps the order.                                             *)
LEMMA OrderlyStep ==
    ASSUME Bookkeeping, gave_up \/ Orderly, [PumpNext]_jobPumpVars
    PROVE  gave_up' \/ Orderly'
<1>1. gave_up => gave_up'
    BY DEF PumpNext, RunJob, RunJobUnanswered, RunCall, Reply, BridgeTimeout, Poll, Failsafe,
           Tick, Serve, JobDone, jobPumpVars
<1> SUFFICES ASSUME Orderly, ~gave_up' PROVE Orderly'
    BY <1>1
<1>2. CASE \E act \in 1 .. Newest : Reply(act) \/ BridgeTimeout(act)
    BY <1>2, ReplyOrderly DEF BridgeTimeout
<1>3. CASE \E job \in 1 .. Len(registry) : JobDone(job)
    BY <1>3, JobDoneOrderly
<1>4. CASE UNCHANGED jobPumpVars
    BY <1>4
       DEF jobPumpVars, Orderly, QueuedIsNewest, AnsweredIsNewest, RunningIsPolled, PolledIsNewest,
           pumpVars, pluginVars, Newest
<1>5. CASE RunJobUnanswered
    BY <1>5 DEF RunJobUnanswered
<1> QED
    BY <1>2, <1>3, <1>4, <1>5, RunJobOrderly, RunCallOrderly, PollOrderly, FailsafeOrderly,
       TickOrderly, ServeOrderly
       DEF PumpNext, Newest

(* "double-submits are blocked", for as long as no wait is given up: by the   *)
(* bridge, or by the failsafe on an operation that still runs.               *)
THEOREM OneAtATime == PumpSpec => []OneInFlightUntilGivenUp
<1>1. PumpInit => PumpInv
    <2>1. PumpInit => Orderly
        BY DEF PumpInit, Orderly, QueuedIsNewest, AnsweredIsNewest, RunningIsPolled,
               PolledIsNewest, NoJob, NoAction
    <2> QED
        BY <2>1, InitBooks DEF PumpInv
<1>2. PumpInv /\ [PumpNext]_jobPumpVars => PumpInv'
    BY BookkeepingStep, OrderlyStep DEF PumpInv
<1>3. PumpInv => OneInFlightUntilGivenUp
    <2> SUFFICES ASSUME Bookkeeping, Orderly PROVE Cardinality(InFlight) <= 1
        BY DEF PumpInv, OneInFlightUntilGivenUp, OneInFlight
    <2>1. InFlight \subseteq {Newest}
        BY DEF InFlight, Orderly, QueuedIsNewest, RunningIsPolled, PolledIsNewest,
               Bookkeeping, PollOK, Sync, Newest
    <2>2. IsFiniteSet({Newest}) /\ Cardinality({Newest}) = 1
        BY FS_Singleton
    <2> QED
        BY <2>1, <2>2, FS_Subset
<1> QED
    BY <1>1, <1>2, <1>3, PTL DEF PumpSpec

=============================================================================
