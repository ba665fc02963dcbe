----------------------------- MODULE AmmTheorems -----------------------------
(***************************************************************************)
(* The safety of the pool for every set of users, every bound of the        *)
(* amounts, every fee table and every clock.                               *)
(***************************************************************************)
EXTENDS AmmSafety, ArithmeticTheorems, SequenceTheorems

Ledger == [Token -> [Holder -> Amount]]

(* The constants, as the proofs below use them.                            *)
LEMMA Constants ==
    /\ U128_MAX \in Nat
    /\ MINIMUM_LIQUIDITY \in Nat \ {0}
    /\ FEE_TIERS \subseteq Nat
    /\ Amounts \subseteq Amount
    /\ Users \subseteq Holder
    /\ "vault" \in Holder /\ "lock" \in Holder
    /\ \A u \in Users : u # "vault" /\ u # "lock"
  BY AmmMathAssumption, U128Assumption, AmmAssumption DEF Holder

(* Amounts are in range.                                                   *)
LEMMA AmountsAreNat == \A n \in Amounts : n \in Nat /\ n \in Amount
  BY Constants DEF Amount

(* The three tokens are apart.                                             *)
LEMMA Tokens == /\ "A" \in Token /\ "B" \in Token /\ "LP" \in Token
                /\ "A" # "B" /\ "A" # "LP" /\ "B" # "LP"
  BY DEF Token, Side

-----------------------------------------------------------------------------
(* The ledger operations, one holding at a time.                           *)

(* A transfer changes two rows' entries.                                   *)
LEMMA MovedFacts ==
    ASSUME NEW ledger \in Ledger, NEW token \in Token,
           NEW from \in Holder, NEW to \in Holder, NEW amount \in Nat,
           from # to,
           ledger[token][from] >= amount,
           Fits(ledger[token][to] + amount)
    PROVE  LET after == Moved(ledger, token, from, to, amount)
           IN  /\ after \in Ledger
               /\ after[token][from] = ledger[token][from] - amount
               /\ after[token][to] = ledger[token][to] + amount
               /\ \A h \in Holder \ {from, to} : after[token][h] = ledger[token][h]
               /\ \A t \in Token \ {token} : after[t] = ledger[t]
<1> DEFINE row == [ledger[token] EXCEPT ![from] = @ - amount, ![to] = @ + amount]
<1>1. ledger[token] \in [Holder -> Amount]
  BY DEF Ledger
<1>2. ledger[token][from] - amount \in Amount /\ ledger[token][to] + amount \in Amount
  BY <1>1, Constants DEF Amount, Fits
<1>3. row \in [Holder -> Amount]
  BY <1>1, <1>2
<1>4. Moved(ledger, token, from, to, amount) = [ledger EXCEPT ![token] = row]
  BY DEF Moved, Ledger
<1> QED
  BY <1>1, <1>3, <1>4 DEF Ledger

(* A mint changes one.                                                     *)
LEMMA CreditedFacts ==
    ASSUME NEW ledger \in Ledger, NEW token \in Token,
           NEW to \in Holder, NEW amount \in Nat,
           Fits(ledger[token][to] + amount)
    PROVE  LET after == Credited(ledger, token, to, amount)
           IN  /\ after \in Ledger
               /\ after[token][to] = ledger[token][to] + amount
               /\ \A h \in Holder \ {to} : after[token][h] = ledger[token][h]
               /\ \A t \in Token \ {token} : after[t] = ledger[t]
<1>1. ledger[token] \in [Holder -> Amount]
  BY DEF Ledger
<1>2. ledger[token][to] + amount \in Amount
  BY <1>1, Constants DEF Amount, Fits
<1> QED
  BY <1>1, <1>2 DEF Credited, Ledger

(* A burn changes one.                                                     *)
LEMMA DebitedFacts ==
    ASSUME NEW ledger \in Ledger, NEW token \in Token,
           NEW from \in Holder, NEW amount \in Nat,
           ledger[token][from] >= amount
    PROVE  LET after == Debited(ledger, token, from, amount)
           IN  /\ after \in Ledger
               /\ after[token][from] = ledger[token][from] - amount
               /\ \A h \in Holder \ {from} : after[token][h] = ledger[token][h]
               /\ \A t \in Token \ {token} : after[t] = ledger[t]
<1>1. ledger[token] \in [Holder -> Amount]
  BY DEF Ledger
<1>2. ledger[token][from] - amount \in Amount
  BY <1>1, Constants DEF Amount
<1> QED
  BY <1>1, <1>2 DEF Debited, Ledger

-----------------------------------------------------------------------------
(* An empty side makes the product nothing.                                *)
LEMMA ZeroProduct == \A b, s \in Nat : 0 * b * s * s = 0
  BY Z3

(* A product of amounts is a number.                                       *)
LEMMA NatProduct == \A x, y \in Nat : x * y \in Nat
  OBVIOUS

(* Whatever branch oracle_update takes, its fields stay well typed.        *)
LEMMA OracleTyped ==
    ASSUME AmmTypeOK, TickOracle
    PROVE  /\ price_cum_last' \in [Side -> Nat]
           /\ block_ts_last' \in Nat
           /\ obs' \in Seq(Oracle!Observation)
<1>1. Oracle!ClockArg \in Nat
  BY DEF AmmTypeOK, Oracle!ClockArg
<1>2. CASE UNCHANGED oracleVars
  BY <1>2 DEF AmmTypeOK, oracleVars
<1>3. CASE Oracle!Rebase(Oracle!ClockArg)
  BY <1>1, <1>3 DEF AmmTypeOK, Oracle!Rebase
<1>4. CASE /\ \A s \in Side : reserve[s] # 0
           /\ Oracle!ClockArg > block_ts_last
           /\ Oracle!Accumulate(Oracle!ClockArg)
  <2> DEFINE now == Oracle!ClockArg
             entry == [ts |-> now, cum |-> price_cum_last']
             ring == Append(obs, entry)
  <2>1. Q64 * Q64 \in Nat \ {0}
    BY AmmAssumption, Z3
  <2>2. ASSUME NEW s \in Side
        PROVE  (price_cum_last[s] + Oracle!Price(s) * (now - block_ts_last))
                    % (Q64 * Q64) \in Nat
    <3>1. reserve[Oracle!Other(s)] * Q64 \in Nat /\ reserve[s] \in Nat \ {0}
      BY SMTT(30), <1>4, AmmAssumption, Constants
         DEF AmmTypeOK, Side, Oracle!Other, Amount
    <3>2. Oracle!Price(s) \in Nat
      BY <3>1, DivFacts DEF Oracle!Price
    <3>3. now - block_ts_last \in Nat
      BY <1>1, <1>4 DEF AmmTypeOK
    <3>4. Oracle!Price(s) * (now - block_ts_last) \in Nat
      BY <3>2, <3>3, NatProduct
    <3>5. price_cum_last[s] \in Nat
      BY DEF AmmTypeOK
    <3> QED
      BY <3>4, <3>5, <2>1, ModFacts
  <2>3. price_cum_last' \in [Side -> Nat]
    BY <1>4, <2>2 DEF Oracle!Accumulate, Oracle!Side, Side
  <2>4. entry \in Oracle!Observation
    BY <1>1, <2>3 DEF Oracle!Observation, Oracle!Side, Side
  <2>5. /\ ring \in Seq(Oracle!Observation)
        /\ Len(ring) \in Nat
        /\ \A i \in 1 .. Len(ring) : ring[i] \in Oracle!Observation
    <3>1. ring \in Seq(Oracle!Observation)
      BY <2>4, AppendProperties DEF AmmTypeOK
    <3> QED
      BY <3>1, ElementOfSeq, LenProperties
  <2>6. obs' = Oracle!Newest(ring)
    BY <1>4 DEF Oracle!Accumulate
  <2> HIDE DEF ring
  <2>7. Oracle!Newest(ring) \in Seq(Oracle!Observation)
    <3>1. ORACLE_RING_CAP \in Nat
      BY AmmAssumption
    <3>2. CASE Len(ring) > ORACLE_RING_CAP
      <4>1. \A i \in Len(ring) - ORACLE_RING_CAP + 1 .. Len(ring) :
                ring[i] \in Oracle!Observation
        BY <2>5, <3>1, <3>2
      <4>2. SubSeq(ring, Len(ring) - ORACLE_RING_CAP + 1, Len(ring))
                \in Seq(Oracle!Observation)
        BY <4>1, <2>5, <3>1, SubSeqProperties
      <4> QED
        BY <4>2, <3>2 DEF Oracle!Newest
    <3>3. CASE ~(Len(ring) > ORACLE_RING_CAP)
      BY <3>3, <2>5 DEF Oracle!Newest
    <3> QED
      BY <3>2, <3>3
  <2> QED
    BY <1>1, <1>4, <2>3, <2>6, <2>7 DEF Oracle!Accumulate
<1> QED
  BY <1>2, <1>3, <1>4
     DEF TickOracle, Oracle!OracleUpdate, Oracle!oracleVars, oracleVars, Oracle!Side, Side

-----------------------------------------------------------------------------
(* A completed swap: the deposit goes to one vault and one reserve, the     *)
(* withdrawal leaves the others.                                           *)
LEMMA SwapPreserves ==
    ASSUME AmmInv, SwapSetup,
           NEW payer \in Users, NEW recipient \in Users, NEW s \in Side,
           NEW deposit \in Nat, NEW withdraw \in Nat,
           withdraw < reserve[Other(s)],
           (reserve[s] + deposit) * (reserve[Other(s)] - withdraw)
                >= reserve[s] * reserve[Other(s)],
           SwapTransfers(payer, recipient, s, deposit, withdraw),
           ApplySwapToPoolDef(s, deposit, withdraw),
           UNCHANGED <<pool_exists, fees, liquidity_pool_supply, clock>>,
           TickOracle \/ UNCHANGED oracleVars
    PROVE  AmmInv' /\ LpShareKept /\ MovedTogether
<1> DEFINE o == Other(s)
           first == Moved(balance, s, payer, "vault", deposit)
           second == Moved(first, o, "vault", recipient, withdraw)
<1>1. /\ o \in Side /\ o # s /\ Side = {s, o}
      /\ s \in Token /\ o \in Token /\ "LP" \in Token
      /\ s # "LP" /\ o # "LP"
  BY DEF Other, Side, Token
<1>2. balance \in Ledger
  BY DEF AmmInv, AmmTypeOK, Ledger
<1>3. /\ balance[s][payer] >= deposit
      /\ Fits(balance[s]["vault"] + deposit)
      /\ balance[o]["vault"] >= withdraw
      /\ Fits(balance[o][recipient] + withdraw)
  BY DEF SwapTransfers, CanMove
<1>4. /\ first \in Ledger
      /\ first[s]["vault"] = balance[s]["vault"] + deposit
      /\ \A t \in Token \ {s} : first[t] = balance[t]
  BY <1>1, <1>2, <1>3, Constants, MovedFacts
<1> HIDE DEF first
<1>5. /\ second \in Ledger
      /\ second[o]["vault"] = first[o]["vault"] - withdraw
      /\ \A t \in Token \ {o} : second[t] = first[t]
  BY <1>1, <1>3, <1>4, Constants, MovedFacts
<1>6. balance' = second
  BY DEF SwapTransfers, first
<1> HIDE DEF second
<1>7. /\ balance' \in Ledger
      /\ balance'[s]["vault"] = balance[s]["vault"] + deposit
      /\ balance'[o]["vault"] = balance[o]["vault"] - withdraw
      /\ balance'["LP"] = balance["LP"]
  BY <1>1, <1>4, <1>5, <1>6
<1>8. /\ reserve[s] \in Amount /\ reserve[o] \in Amount
      /\ balance[s]["vault"] \in Amount /\ balance[o]["vault"] \in Amount
  BY <1>1, Constants DEF AmmInv, AmmTypeOK, Holder
<1>9. /\ reserve' \in [Side -> Amount]
      /\ reserve'[s] = reserve[s] + deposit
      /\ reserve'[o] = reserve[o] - withdraw
  <2>1. reserve[s] + deposit \in Amount /\ reserve[o] - withdraw \in Amount
    BY <1>8, Constants DEF ApplySwapToPoolDef, Fits, Amount
  <2> QED
    BY <2>1, <1>1 DEF ApplySwapToPoolDef, AmmInv, AmmTypeOK
<1>10. cum_volume' \in [Side -> Amount]
  <2>1. \A t \in Side : cum_volume[t] \in Amount
    BY DEF AmmInv, AmmTypeOK
  <2>2. \A t \in Side : SaturatingAdd(cum_volume[t],
                             IF t = s THEN deposit ELSE withdraw) \in Amount
    BY <2>1, Constants DEF SaturatingAdd, Least, Amount
  <2> QED
    BY <2>2 DEF ApplySwapToPoolDef
<1>11. cum_fees' \in [Side -> Amount]
  <2>1. pool_exists
    BY DEF SwapSetup
  <2>2. RecordedFee(deposit, fees) \in Amount
    BY <2>1, RecordedFeeFacts DEF AmmInv, Amount
  <2>3. cum_fees[s] \in Amount
    BY DEF AmmInv, AmmTypeOK
  <2>4. SaturatingAdd(cum_fees[s], RecordedFee(deposit, fees)) \in Amount
    BY <2>2, <2>3, Constants DEF SaturatingAdd, Least, Amount
  <2> QED
    BY <2>4 DEF ApplySwapToPoolDef, AmmInv, AmmTypeOK
<1>12. /\ price_cum_last' \in [Side -> Nat]
       /\ block_ts_last' \in Nat
       /\ obs' \in Seq(Oracle!Observation)
  BY OracleTyped DEF AmmInv, AmmTypeOK, oracleVars
<1>13. lp_total_supply' = lp_total_supply
  BY DEF SwapTransfers
<1>14. AmmTypeOK'
  BY <1>7, <1>9, <1>10, <1>11, <1>12, <1>13 DEF AmmInv, AmmTypeOK, Ledger
<1>15. VaultCoversReserves'
  <2>1. balance[s]["vault"] >= reserve[s] /\ balance[o]["vault"] >= reserve[o]
    BY <1>1 DEF SwapSetup, VaultsCoverReserves
  <2> QED
    BY <2>1, <1>1, <1>7, <1>8, <1>9
       DEF VaultCoversReserves, VaultsCoverReserves, Amount
<1>16. PoolStaysFunded'
  <2>1. reserve[s] > 0
    BY DEF SwapSetup, AmmInv, PoolStaysFunded
  <2> QED
    BY <2>1, <1>1, <1>7, <1>8, <1>9, <1>13
       DEF AmmInv, PoolStaysFunded, Amount, SwapSetup
<1>17. LpShareKept
  <2> DEFINE k == liquidity_pool_supply
             x == reserve["A"] * reserve["B"]
             y == reserve'["A"] * reserve'["B"]
  <2>1. k \in Nat /\ liquidity_pool_supply' = k
    BY Constants DEF AmmInv, AmmTypeOK, Amount
  <2>2. /\ reserve["A"] \in Nat /\ reserve["B"] \in Nat
        /\ reserve'["A"] \in Nat /\ reserve'["B"] \in Nat
    BY <1>9, Constants DEF AmmInv, AmmTypeOK, Amount, Side
  <2>5. x <= y
    <3>1. reserve'[s] * reserve'[o] >= reserve[s] * reserve[o]
      BY <1>9
    <3>2. CASE s = "A"
      BY <3>1, <3>2 DEF Other
    <3>3. CASE s = "B"
      BY <3>1, <3>3, <2>2 DEF Other
    <3> QED
      BY <3>2, <3>3 DEF Side
  <2>6. x \in Nat /\ y \in Nat
    BY <2>2, NatProduct
  <2> HIDE DEF k, x, y
  <2>7. x * k <= y * k /\ x * k \in Nat /\ y * k \in Nat
    BY <2>1, <2>5, <2>6, MulMonotone, NatProduct
  <2>8. (x * k) * k <= (y * k) * k
    BY <2>1, <2>7, MulMonotone
  <2> QED
    BY <2>1, <2>8 DEF LpShareKept, k, x, y
<1>18. MovedTogether
  <2> DEFINE Same(t) ==
          reserve'[t] - reserve[t] = balance'[t]["vault"] - balance[t]["vault"]
  <2>1. /\ reserve[s] \in Int /\ reserve[o] \in Int
        /\ balance[s]["vault"] \in Int /\ balance[o]["vault"] \in Int
    BY <1>8, Constants DEF Amount
  <2>2. Same(s) /\ Same(o)
    BY <2>1, <1>7, <1>9
  <2> QED
    BY <2>1, <2>2, <1>1 DEF MovedTogether
<1> QED
  BY <1>7, <1>14, <1>15, <1>16, <1>17, <1>18 DEF AmmInv, SwapSetup

(* The invariant holds before the pool is made.                            *)
LEMMA InitInv == Init => AmmInv
<1> SUFFICES ASSUME Init PROVE AmmInv
  OBVIOUS
<1>1. 0 \in Amount
  BY Constants DEF Amount
<1>2. balance \in [Token -> [Holder -> Amount]]
  BY <1>1, AmmAssumption DEF Init, Holder
<1>3. obs \in Seq(Oracle!Observation)
  BY DEF Init
<1>4. AmmTypeOK
  BY <1>1, <1>2, <1>3 DEF Init, AmmTypeOK
<1> QED
  BY <1>4 DEF Init, AmmInv, VaultCoversReserves, PoolStaysFunded, Token, Side

(* Creating the pool keeps the invariant, and so does each of the handlers *)
(* below.                                                                  *)
LEMMA NewDefinitionPreserves ==
    ASSUME AmmInv, NEW user \in Users, NEW amount_a \in Amounts,
           NEW amount_b \in Amounts, NEW tier \in FEE_TIERS,
           NewDefinition(user, amount_a, amount_b, tier)
    PROVE  AmmInv' /\ LpShareKept /\ MovedTogether
<1>1. PICK initial_lp \in Amount :
        /\ initial_lp > MINIMUM_LIQUIDITY
        /\ liquidity_pool_supply' = initial_lp
        /\ lp_total_supply' = initial_lp
        /\ balance' =
              LpLocked(Moved(Moved(balance, "A", user, "vault", amount_a),
                             "B", user, "vault", amount_b),
                       user, initial_lp)
  BY DEF NewDefinition
<1> DEFINE l1 == Moved(balance, "A", user, "vault", amount_a)
           l2 == Moved(l1, "B", user, "vault", amount_b)
           l3 == Credited(l2, "LP", "lock", MINIMUM_LIQUIDITY)
           l4 == Credited(l3, "LP", user, initial_lp - MINIMUM_LIQUIDITY)
<1>2. /\ "A" \in Token /\ "B" \in Token /\ "LP" \in Token
      /\ balance \in Ledger
      /\ amount_a \in Nat \ {0} /\ amount_b \in Nat \ {0}
      /\ amount_a \in Amount /\ amount_b \in Amount
      /\ \A h \in Holder : balance["LP"][h] = 0
      /\ user \in Holder /\ user # "vault" /\ user # "lock"
      /\ "vault" \in Holder /\ "lock" \in Holder
  <2>1. amount_a # 0 /\ amount_b # 0 /\ ~pool_exists
    BY DEF NewDefinition
  <2>2. amount_a \in Amount /\ amount_b \in Amount
    BY Constants
  <2>3. balance \in Ledger /\ \A h \in Holder : balance["LP"][h] = 0
    BY <2>1 DEF AmmInv, AmmTypeOK, Ledger
  <2> QED
    BY <2>1, <2>2, <2>3, Constants DEF Token, Side, Amount
<1>3. /\ l1 \in Ledger
      /\ l1["A"]["vault"] = balance["A"]["vault"] + amount_a
      /\ l1["B"] = balance["B"] /\ l1["LP"] = balance["LP"]
  <2>1. balance["A"][user] >= amount_a /\ Fits(balance["A"]["vault"] + amount_a)
    BY DEF NewDefinition, CanMove
  <2>2. balance \in Ledger /\ "A" \in Token /\ user \in Holder /\ "vault" \in Holder
        /\ amount_a \in Nat /\ user # "vault"
    BY <1>2
  <2>3. /\ l1 \in Ledger
        /\ l1["A"]["vault"] = balance["A"]["vault"] + amount_a
        /\ \A t \in Token \ {"A"} : l1[t] = balance[t]
    BY <2>1, <2>2, MovedFacts
  <2> HIDE DEF l1
  <2> QED
    BY <2>3, <1>2
<1> HIDE DEF l1
<1>4. /\ l2 \in Ledger
      /\ l2["B"]["vault"] = balance["B"]["vault"] + amount_b
      /\ l2["A"] = l1["A"] /\ l2["LP"] = balance["LP"]
  <2>1. l1["B"][user] >= amount_b /\ Fits(l1["B"]["vault"] + amount_b)
    BY <1>3 DEF NewDefinition, CanMove
  <2>2. l1 \in Ledger /\ "B" \in Token /\ user \in Holder /\ "vault" \in Holder
        /\ amount_b \in Nat /\ user # "vault"
    BY <1>2, <1>3
  <2>3. /\ l2 \in Ledger
        /\ l2["B"]["vault"] = l1["B"]["vault"] + amount_b
        /\ \A t \in Token \ {"B"} : l2[t] = l1[t]
    BY <2>1, <2>2, MovedFacts
  <2> HIDE DEF l2
  <2> QED
    BY <2>3, <1>2, <1>3
<1> HIDE DEF l2
<1>5. /\ l3 \in Ledger
      /\ l3["LP"]["lock"] = MINIMUM_LIQUIDITY
      /\ l3["LP"][user] = 0
      /\ l3["A"] = l1["A"] /\ l3["B"] = l2["B"]
  <2>1. Fits(l2["LP"]["lock"] + MINIMUM_LIQUIDITY)
    BY <1>1, <1>2, <1>4, Constants DEF Fits, Amount
  <2>2. MINIMUM_LIQUIDITY \in Nat /\ l2 \in Ledger /\ "LP" \in Token /\ "lock" \in Holder
    BY <1>2, <1>4, Constants
  <2>3. /\ l3 \in Ledger
        /\ l3["LP"]["lock"] = l2["LP"]["lock"] + MINIMUM_LIQUIDITY
        /\ \A h \in Holder \ {"lock"} : l3["LP"][h] = l2["LP"][h]
        /\ \A t \in Token \ {"LP"} : l3[t] = l2[t]
    BY <2>1, <2>2, CreditedFacts
  <2> HIDE DEF l3
  <2> QED
    BY <2>2, <2>3, <1>2, <1>4
<1> HIDE DEF l3
<1>6. /\ l4 \in Ledger
      /\ l4["LP"]["lock"] = MINIMUM_LIQUIDITY
      /\ l4["A"] = l1["A"] /\ l4["B"] = l2["B"]
  <2>1. initial_lp - MINIMUM_LIQUIDITY \in Nat
    BY <1>1, Constants DEF Amount
  <2>2. Fits(l3["LP"][user] + (initial_lp - MINIMUM_LIQUIDITY))
    BY <1>1, <1>5, <2>1, Constants DEF Fits, Amount
  <2>3. l3 \in Ledger /\ "LP" \in Token /\ user \in Holder
    BY <1>2, <1>5
  <2>4. /\ l4 \in Ledger
        /\ \A h \in Holder \ {user} : l4["LP"][h] = l3["LP"][h]
        /\ \A t \in Token \ {"LP"} : l4[t] = l3[t]
    BY <2>1, <2>2, <2>3, CreditedFacts
  <2> HIDE DEF l4
  <2> QED
    BY <2>4, <1>2, <1>5
<1>7. balance' = l4
  BY <1>1 DEF LpLocked, l1, l2, l3
<1> HIDE DEF l4
<1>8. reserve' \in [Side -> Amount] /\ reserve'["A"] = amount_a /\ reserve'["B"] = amount_b
  BY <1>2 DEF NewDefinition, Side
<1>9. AmmTypeOK'
  <2>1. 0 \in Amount
    BY Constants DEF Amount
  <2>2. Oracle!ClockArg \in Nat
    BY DEF AmmInv, AmmTypeOK, Oracle!ClockArg
  <2> QED
    BY <1>1, <1>6, <1>7, <1>8, <2>1, <2>2
       DEF NewDefinition, AmmInv, AmmTypeOK, Ledger
<1>10. VaultCoversReserves'
  BY <1>2, <1>3, <1>4, <1>6, <1>7, <1>8, Constants
     DEF VaultCoversReserves, VaultsCoverReserves, Side, Ledger, Amount
<1>11. PoolStaysFunded'
  BY <1>1, <1>2, <1>6, <1>7, <1>8, Constants DEF PoolStaysFunded, Side, Amount
<1>12. reserve["A"] = 0 /\ reserve["B"] = 0
  BY DEF AmmInv, NewDefinition, Side
<1>13. LpShareKept
  <2>1. /\ reserve'["A"] \in Nat /\ reserve'["B"] \in Nat
        /\ liquidity_pool_supply \in Nat /\ liquidity_pool_supply' \in Nat
    BY <1>1, <1>2, <1>8, Constants DEF AmmInv, AmmTypeOK, Amount
  <2>2. reserve["A"] * reserve["B"] * liquidity_pool_supply' * liquidity_pool_supply' = 0
    BY <1>12, <2>1, ZeroProduct
  <2>3. reserve'["A"] * reserve'["B"] * liquidity_pool_supply * liquidity_pool_supply \in Nat
    BY <2>1, NatProduct
  <2> QED
    BY <2>2, <2>3 DEF LpShareKept
<1>14. MovedTogether
  <2>1. balance["A"]["vault"] \in Nat /\ balance["B"]["vault"] \in Nat
    BY <1>2, Constants DEF Ledger, Amount
  <2>2. /\ balance'["A"]["vault"] = balance["A"]["vault"] + amount_a
        /\ balance'["B"]["vault"] = balance["B"]["vault"] + amount_b
    BY <1>3, <1>4, <1>6, <1>7
  <2> QED
    BY <2>1, <2>2, <1>2, <1>8, <1>12 DEF MovedTogether, Side
<1> QED
  BY <1>9, <1>10, <1>11, <1>13, <1>14 DEF AmmInv, NewDefinition

(* What a deposit step needs of its two amounts and of the LP it mints.     *)
LEMMA AddLiquidityPreserves ==
    ASSUME AmmInv, NEW payer \in Users, NEW recipient \in Recipients("LP"),
           NEW max_a \in Amounts, NEW max_b \in Amounts, NEW min_lp \in Limits,
           AddLiquidity(payer, recipient, max_a, max_b, min_lp)
    PROVE  AmmInv' /\ LpShareKept /\ MovedTogether
<1> DEFINE da == ActualDeposit(reserve["A"], reserve["B"], max_a, max_b)
           db == ActualDeposit(reserve["B"], reserve["A"], max_b, max_a)
           lp == LpMinted(liquidity_pool_supply, reserve["A"], reserve["B"], da, db)
           l1 == Moved(balance, "A", payer, "vault", da)
           l2 == Moved(l1, "B", payer, "vault", db)
           l3 == Credited(l2, "LP", recipient, lp)
<1>1. /\ pool_exists
      /\ Fits(reserve["A"] + da) /\ Fits(reserve["B"] + db)
      /\ Fits(liquidity_pool_supply + lp)
      /\ Fits(lp_total_supply + lp)
      /\ Fits(balance["LP"][recipient] + lp)
      /\ CanMove("A", payer, "vault", da) /\ CanMove("B", payer, "vault", db)
      /\ liquidity_pool_supply' = liquidity_pool_supply + lp
      /\ lp_total_supply' = lp_total_supply + lp
      /\ reserve' = [s \in Side |-> reserve[s] + IF s = "A" THEN da ELSE db]
      /\ balance' = l3
      /\ TickOracle
      /\ UNCHANGED <<pool_exists, fees, counterVars, clock>>
  BY DEF AddLiquidity, Side
<1>2. /\ reserve["A"] \in Nat \ {0} /\ reserve["B"] \in Nat \ {0}
      /\ liquidity_pool_supply \in Nat /\ lp_total_supply \in Nat
      /\ max_a \in Nat /\ max_b \in Nat
  <2>1. reserve \in [Side -> Amount] /\ \A s \in Side : reserve[s] > 0
    BY <1>1 DEF AmmInv, AmmTypeOK, PoolStaysFunded
  <2>2. liquidity_pool_supply \in Nat /\ lp_total_supply \in Nat
    BY Constants DEF AmmInv, AmmTypeOK, Amount
  <2> QED
    BY <2>1, <2>2, AmountsAreNat, Constants DEF Side, Amount
<1>3. da \in Nat /\ db \in Nat
  BY <1>2, ShareFacts DEF ActualDeposit, Least
<1> HIDE DEF da, db
<1>4. /\ lp \in Nat
      /\ lp * reserve["A"] <= liquidity_pool_supply * da
      /\ lp * reserve["B"] <= liquidity_pool_supply * db
  BY <1>2, <1>3, LpMintedFacts
<1> HIDE DEF lp
<1>5. /\ "A" \in Token /\ "B" \in Token /\ "LP" \in Token
      /\ balance \in Ledger
      /\ payer \in Holder /\ payer # "vault" /\ payer # "lock"
      /\ recipient \in Holder
      /\ "vault" \in Holder /\ "lock" \in Holder
  BY Constants DEF AmmInv, AmmTypeOK, Ledger, Token, Side, Recipients
<1>6. /\ l1 \in Ledger
      /\ l1["A"]["vault"] = balance["A"]["vault"] + da
      /\ l1["B"] = balance["B"] /\ l1["LP"] = balance["LP"]
  <2>1. balance["A"][payer] >= da /\ Fits(balance["A"]["vault"] + da)
    BY <1>1 DEF CanMove
  <2>2. /\ l1 \in Ledger
        /\ l1["A"]["vault"] = balance["A"]["vault"] + da
        /\ \A t \in Token \ {"A"} : l1[t] = balance[t]
    BY <2>1, <1>3, <1>5, MovedFacts
  <2> HIDE DEF l1
  <2> QED
    BY <2>2, <1>5
<1> HIDE DEF l1
<1>7. /\ l2 \in Ledger
      /\ l2["B"]["vault"] = balance["B"]["vault"] + db
      /\ l2["A"] = l1["A"] /\ l2["LP"] = balance["LP"]
  <2>1. l1["B"][payer] >= db /\ Fits(l1["B"]["vault"] + db)
    BY <1>1, <1>6 DEF CanMove
  <2>2. /\ l2 \in Ledger
        /\ l2["B"]["vault"] = l1["B"]["vault"] + db
        /\ \A t \in Token \ {"B"} : l2[t] = l1[t]
    BY <2>1, <1>3, <1>5, <1>6, MovedFacts
  <2> HIDE DEF l2
  <2> QED
    BY <2>2, <1>5, <1>6
<1> HIDE DEF l2
<1>8. /\ l3 \in Ledger
      /\ l3["LP"]["lock"] >= balance["LP"]["lock"]
      /\ l3["A"] = l1["A"] /\ l3["B"] = l2["B"]
  <2>1. /\ l3 \in Ledger
        /\ l3["LP"][recipient] = balance["LP"][recipient] + lp
        /\ \A h \in Holder \ {recipient} : l3["LP"][h] = balance["LP"][h]
        /\ l3["A"] = l1["A"] /\ l3["B"] = l2["B"]
    <3>1. Fits(l2["LP"][recipient] + lp)
      BY <1>1, <1>7
    <3>2. /\ l3 \in Ledger
          /\ l3["LP"][recipient] = l2["LP"][recipient] + lp
          /\ \A h \in Holder \ {recipient} : l3["LP"][h] = l2["LP"][h]
          /\ \A t \in Token \ {"LP"} : l3[t] = l2[t]
      BY <3>1, <1>4, <1>5, <1>7, CreditedFacts
    <3> HIDE DEF l3
    <3> QED
      BY <3>2, <1>5, <1>7
  <2>2. balance["LP"]["lock"] \in Nat
    BY <1>5, Constants DEF Ledger, Amount
  <2> QED
    BY <2>1, <2>2, <1>4, <1>5
<1> HIDE DEF l3
<1>9. /\ reserve' \in [Side -> Amount]
      /\ reserve'["A"] = reserve["A"] + da /\ reserve'["B"] = reserve["B"] + db
      /\ liquidity_pool_supply' \in Amount /\ lp_total_supply' \in Amount
  BY <1>1, <1>2, <1>3, <1>4, Constants DEF Fits, Amount, Side
<1>10. AmmTypeOK'
  BY <1>1, <1>8, <1>9, OracleTyped DEF AmmInv, AmmTypeOK, Ledger, counterVars
<1>11. VaultCoversReserves'
  <2>1. /\ balance["A"]["vault"] >= reserve["A"] /\ balance["B"]["vault"] >= reserve["B"]
        /\ balance["A"]["vault"] \in Nat /\ balance["B"]["vault"] \in Nat
    BY <1>1, <1>5, Constants
       DEF AmmInv, VaultCoversReserves, VaultsCoverReserves, Side, Ledger, Amount
  <2> QED
    BY <2>1, <1>1, <1>2, <1>3, <1>6, <1>7, <1>8, <1>9
       DEF VaultCoversReserves, VaultsCoverReserves, Side
<1>12. PoolStaysFunded'
  <2>1. balance["LP"]["lock"] \in Nat /\ l3["LP"]["lock"] \in Nat
    BY <1>5, <1>8, Constants DEF Ledger, Amount
  <2> QED
    BY <2>1, <1>1, <1>2, <1>3, <1>4, <1>8, <1>9, Constants
       DEF AmmInv, PoolStaysFunded, Side
<1>13. LpShareKept
  <2>1. /\ reserve'["A"] * liquidity_pool_supply >= reserve["A"] * liquidity_pool_supply'
        /\ reserve'["B"] * liquidity_pool_supply >= reserve["B"] * liquidity_pool_supply'
    BY <1>1, <1>2, <1>3, <1>4, <1>9, DepositKeepsUp
  <2> QED
    BY <2>1, <1>1, <1>2, <1>3, <1>4, <1>9, ProductKeepsUp DEF LpShareKept
<1>14. MovedTogether
  <2>1. balance["A"]["vault"] \in Nat /\ balance["B"]["vault"] \in Nat
    BY <1>5, Constants DEF Ledger, Amount
  <2>2. /\ balance'["A"]["vault"] = balance["A"]["vault"] + da
        /\ balance'["B"]["vault"] = balance["B"]["vault"] + db
    BY <1>1, <1>6, <1>7, <1>8
  <2> QED
    BY <2>1, <2>2, <1>2, <1>3, <1>9 DEF MovedTogether, Side
<1> QED
  BY <1>1, <1>10, <1>11, <1>12, <1>13, <1>14 DEF AmmInv

(* Liquidity taken out, rounded down.                                      *)
LEMMA RemoveLiquidityPreserves ==
    ASSUME AmmInv, NEW user \in Users, NEW recipient \in Users,
           NEW amount \in Amounts, NEW min_a \in Limits, NEW min_b \in Limits,
           RemoveLiquidity(user, recipient, amount, min_a, min_b)
    PROVE  AmmInv' /\ LpShareKept /\ MovedTogether
<1> DEFINE wa == Share(reserve["A"], amount, liquidity_pool_supply)
           wb == Share(reserve["B"], amount, liquidity_pool_supply)
           l1 == Moved(balance, "A", "vault", recipient, wa)
           l2 == Moved(l1, "B", "vault", recipient, wb)
           l3 == Debited(l2, "LP", user, amount)
<1>1. /\ pool_exists
      /\ amount <= balance["LP"][user]
      /\ amount <= liquidity_pool_supply - MINIMUM_LIQUIDITY
      /\ lp_total_supply >= amount
      /\ CanMove("A", "vault", recipient, wa) /\ CanMove("B", "vault", recipient, wb)
      /\ liquidity_pool_supply' = liquidity_pool_supply - amount
      /\ lp_total_supply' = lp_total_supply - amount
      /\ reserve' = [s \in Side |-> reserve[s]
                        - Share(reserve[s], amount, liquidity_pool_supply)]
      /\ balance' = l3
      /\ TickOracle
      /\ UNCHANGED <<pool_exists, fees, counterVars, clock>>
  BY DEF RemoveLiquidity, Side
<1>2. /\ reserve["A"] \in Nat \ {0} /\ reserve["B"] \in Nat \ {0}
      /\ reserve["A"] \in Amount /\ reserve["B"] \in Amount
      /\ liquidity_pool_supply \in Nat \ {0} /\ lp_total_supply \in Amount
      /\ liquidity_pool_supply \in Amount
      /\ amount \in Nat
  BY SMTT(30), <1>1, Constants DEF AmmInv, AmmTypeOK, PoolStaysFunded, Side, Amount
<1>3. amount < liquidity_pool_supply
  BY <1>1, <1>2, Constants
<1>4. /\ wa \in Nat /\ wa < reserve["A"]
      /\ wb \in Nat /\ wb < reserve["B"]
      /\ wa * liquidity_pool_supply <= reserve["A"] * amount
      /\ wb * liquidity_pool_supply <= reserve["B"] * amount
  <2>1. reserve["A"] > 0 /\ reserve["B"] > 0
    BY <1>2
  <2>2. /\ wa \in Nat /\ wa < reserve["A"]
        /\ wa * liquidity_pool_supply <= reserve["A"] * amount
    BY <2>1, <1>2, <1>3, ShareFacts
  <2>3. /\ wb \in Nat /\ wb < reserve["B"]
        /\ wb * liquidity_pool_supply <= reserve["B"] * amount
    BY <2>1, <1>2, <1>3, ShareFacts
  <2> QED
    BY <2>2, <2>3
<1>5. /\ reserve' \in [Side -> Amount]
      /\ reserve'["A"] = reserve["A"] - wa /\ reserve'["B"] = reserve["B"] - wb
      /\ liquidity_pool_supply' \in Amount /\ lp_total_supply' \in Amount
  BY <1>1, <1>2, <1>3, <1>4, Constants DEF Amount, Side
<1> HIDE DEF wa, wb
<1>6. /\ "A" \in Token /\ "B" \in Token /\ "LP" \in Token
      /\ balance \in Ledger
      /\ user \in Holder /\ user # "lock"
      /\ recipient \in Holder /\ recipient # "vault"
      /\ "vault" \in Holder /\ "lock" \in Holder
  BY Constants DEF AmmInv, AmmTypeOK, Ledger, Token, Side
<1>7. /\ l1 \in Ledger
      /\ l1["A"]["vault"] = balance["A"]["vault"] - wa
      /\ l1["B"] = balance["B"] /\ l1["LP"] = balance["LP"]
  <2>1. balance["A"]["vault"] >= wa /\ Fits(balance["A"][recipient] + wa)
    BY <1>1 DEF CanMove
  <2>2. /\ l1 \in Ledger
        /\ l1["A"]["vault"] = balance["A"]["vault"] - wa
        /\ \A t \in Token \ {"A"} : l1[t] = balance[t]
    BY <2>1, <1>4, <1>6, MovedFacts
  <2> HIDE DEF l1
  <2> QED
    BY <2>2, <1>6
<1> HIDE DEF l1
<1>8. /\ l2 \in Ledger
      /\ l2["B"]["vault"] = balance["B"]["vault"] - wb
      /\ l2["A"] = l1["A"] /\ l2["LP"] = balance["LP"]
  <2>1. l1["B"]["vault"] >= wb /\ Fits(l1["B"][recipient] + wb)
    BY <1>1, <1>7 DEF CanMove
  <2>2. /\ l2 \in Ledger
        /\ l2["B"]["vault"] = l1["B"]["vault"] - wb
        /\ \A t \in Token \ {"B"} : l2[t] = l1[t]
    BY <2>1, <1>4, <1>6, <1>7, MovedFacts
  <2> HIDE DEF l2
  <2> QED
    BY <2>2, <1>6, <1>7
<1> HIDE DEF l2
<1>9. /\ l3 \in Ledger
      /\ l3["LP"]["lock"] = balance["LP"]["lock"]
      /\ l3["A"] = l1["A"] /\ l3["B"] = l2["B"]
  <2>1. balance["LP"][user] \in Nat
    BY <1>6, Constants DEF Ledger, Amount
  <2>2. amount \in Nat /\ l2["LP"][user] >= amount
    BY <1>1, <1>2, <1>8
  <2>3. l2 \in Ledger /\ "LP" \in Token /\ user \in Holder
    BY <1>6, <1>8
  <2>4. /\ l3 \in Ledger
        /\ \A h \in Holder \ {user} : l3["LP"][h] = l2["LP"][h]
        /\ \A t \in Token \ {"LP"} : l3[t] = l2[t]
    BY <2>2, <2>3, DebitedFacts
  <2> HIDE DEF l3
  <2> QED
    BY <2>4, <1>6, <1>8
<1> HIDE DEF l3
<1>10. AmmTypeOK'
  BY <1>1, <1>5, <1>9, OracleTyped DEF AmmInv, AmmTypeOK, Ledger, counterVars
<1>11. VaultCoversReserves'
  <2>1. /\ balance["A"]["vault"] >= reserve["A"] /\ balance["B"]["vault"] >= reserve["B"]
        /\ balance["A"]["vault"] \in Nat /\ balance["B"]["vault"] \in Nat
    BY <1>1, <1>6, Constants
       DEF AmmInv, VaultCoversReserves, VaultsCoverReserves, Side, Ledger, Amount
  <2> QED
    BY <2>1, <1>1, <1>2, <1>4, <1>5, <1>7, <1>8, <1>9
       DEF VaultCoversReserves, VaultsCoverReserves, Side
<1>12. PoolStaysFunded'
  BY <1>1, <1>2, <1>3, <1>4, <1>5, <1>9, Constants
     DEF AmmInv, PoolStaysFunded, Side, Amount
<1>13. LpShareKept
  <2>1. /\ reserve'["A"] * liquidity_pool_supply >= reserve["A"] * liquidity_pool_supply'
        /\ reserve'["B"] * liquidity_pool_supply >= reserve["B"] * liquidity_pool_supply'
    BY <1>1, <1>2, <1>4, <1>5, WithdrawalKeepsUp
  <2> QED
    BY <2>1, <1>1, <1>2, <1>3, <1>4, <1>5, ProductKeepsUp DEF LpShareKept
<1>14. MovedTogether
  <2>1. balance["A"]["vault"] \in Nat /\ balance["B"]["vault"] \in Nat
    BY <1>6, Constants DEF Ledger, Amount
  <2>2. /\ balance'["A"]["vault"] = balance["A"]["vault"] - wa
        /\ balance'["B"]["vault"] = balance["B"]["vault"] - wb
    BY <1>1, <1>7, <1>8, <1>9
  <2> QED
    BY <2>1, <2>2, <1>2, <1>4, <1>5 DEF MovedTogether, Side
<1> QED
  BY <1>1, <1>10, <1>11, <1>12, <1>13, <1>14 DEF AmmInv

(* A swap of an exact input, with or without the oracle's update.          *)
LEMMA ExactInputPreserves ==
    ASSUME AmmInv, NEW payer \in Users, NEW recipient \in Users, NEW s \in Side,
           NEW n \in Amounts, NEW limit \in Limits,
           ExactInput(payer, recipient, s, n, limit),
           TickOracle \/ UNCHANGED oracleVars
    PROVE  AmmInv' /\ LpShareKept /\ MovedTogether
<1> DEFINE out == ExactInputOut(reserve[s], reserve[Other(s)], fees, n)
           eff == EffectiveIn(n, fees)
<1>1. /\ pool_exists /\ SwapSetup
      /\ SwapTransfers(payer, recipient, s, n, out)
      /\ ApplySwapToPoolDef(s, n, out)
      /\ UNCHANGED <<pool_exists, fees, liquidity_pool_supply, clock>>
  BY DEF ExactInput, SwapSetup
<1>2. /\ reserve[s] \in Nat \ {0} /\ reserve[Other(s)] \in Nat \ {0}
      /\ fees \in FEE_TIERS /\ n \in Nat
  BY SMTT(30), <1>1, AmountsAreNat, Constants
     DEF AmmInv, AmmTypeOK, PoolStaysFunded, Other, Side, Amount
<1>3. /\ out \in Nat /\ out < reserve[Other(s)]
      /\ (reserve[s] + eff) * (reserve[Other(s)] - out) >= reserve[s] * reserve[Other(s)]
  BY <1>2, ExactInputFacts
<1>4. eff \in Nat /\ eff <= n
  BY <1>2, EffectiveInFacts
<1> HIDE DEF out, eff
<1>5. (reserve[s] + n) * (reserve[Other(s)] - out) >= reserve[s] * reserve[Other(s)]
  BY <1>2, <1>3, <1>4, ProductGrows
<1> QED
  BY <1>1, <1>2, <1>3, <1>5, SwapPreserves

(* A swap for an exact output.                                             *)
LEMMA SwapExactOutputPreserves ==
    ASSUME AmmInv, NEW payer \in Users, NEW recipient \in Users, NEW s \in Side,
           NEW n \in Amounts, NEW limit \in Limits,
           SwapExactOutput(payer, recipient, s, n, limit)
    PROVE  AmmInv' /\ LpShareKept /\ MovedTogether
<1> DEFINE deposit == ExactOutputIn(reserve[s], reserve[Other(s)], fees, n)
           eff == EffectiveInFor(reserve[s], reserve[Other(s)], n)
<1>1. /\ pool_exists /\ SwapSetup
      /\ n < reserve[Other(s)]
      /\ SwapTransfers(payer, recipient, s, deposit, n)
      /\ ApplySwapToPoolDef(s, deposit, n)
      /\ TickOracle
      /\ UNCHANGED <<pool_exists, fees, liquidity_pool_supply, clock>>
  BY DEF SwapExactOutput, SwapSetup, ExactOutputOk
<1>2. /\ reserve[s] \in Nat /\ reserve[Other(s)] \in Nat
      /\ fees \in FEE_TIERS /\ n \in Nat
  BY <1>1, AmountsAreNat, Constants DEF AmmInv, AmmTypeOK, Other, Side, Amount
<1>3. /\ deposit \in Nat /\ eff \in Nat /\ eff <= deposit
      /\ (reserve[s] + eff) * (reserve[Other(s)] - n) >= reserve[s] * reserve[Other(s)]
  BY <1>1, <1>2, ExactOutputFacts
<1> HIDE DEF deposit, eff
<1>4. (reserve[s] + deposit) * (reserve[Other(s)] - n) >= reserve[s] * reserve[Other(s)]
  BY <1>1, <1>2, <1>3, ProductGrows
<1> QED
  BY <1>1, <1>2, <1>3, <1>4, SwapPreserves

(* Steps that leave the pool account alone keep the value of a share.       *)
LEMMA SameReserves ==
    ASSUME AmmInv, UNCHANGED <<reserve, liquidity_pool_supply>>
    PROVE  LpShareKept
<1>1. /\ reserve["A"] \in Nat /\ reserve["B"] \in Nat /\ liquidity_pool_supply \in Nat
  BY Constants DEF AmmInv, AmmTypeOK, Side, Amount
<1>2. reserve["A"] * reserve["B"] * liquidity_pool_supply * liquidity_pool_supply \in Nat
  BY <1>1, NatProduct
<1> QED
  BY <1>2 DEF LpShareKept

(* Reserves brought up to the vaults.                                      *)
LEMMA SyncReservesPreserves ==
    ASSUME AmmInv, SyncReserves
    PROVE  AmmInv' /\ LpShareKept /\ MovedTogether
<1>1. /\ pool_exists /\ VaultsCoverReserves
      /\ reserve' = [s \in Side |-> balance[s]["vault"]]
      /\ TickOracle
      /\ UNCHANGED <<pool_exists, fees, liquidity_pool_supply, counterVars,
                      ledgerVars, clock>>
  BY DEF SyncReserves, SwapSetup
<1>2. \A s \in Side : balance[s]["vault"] \in Amount
  BY Constants DEF AmmInv, AmmTypeOK, Token
<1>3. AmmTypeOK'
  BY <1>1, <1>2, OracleTyped DEF AmmInv, AmmTypeOK, counterVars, ledgerVars
<1>4. VaultCoversReserves'
  BY <1>1, <1>2, Constants
     DEF VaultCoversReserves, VaultsCoverReserves, ledgerVars, Amount
<1>5. PoolStaysFunded'
  BY <1>1, <1>2, Constants
     DEF AmmInv, AmmTypeOK, PoolStaysFunded, VaultsCoverReserves, ledgerVars, Amount
<1>6. /\ \A t \in Side : reserve[t] \in Nat /\ reserve'[t] \in Nat
      /\ \A t \in Side : reserve'[t] >= reserve[t]
      /\ liquidity_pool_supply \in Nat /\ liquidity_pool_supply' = liquidity_pool_supply
  BY <1>1, <1>2, Constants DEF AmmInv, AmmTypeOK, VaultsCoverReserves, Amount
<1>7. LpShareKept
  <2>1. \A t \in Side : reserve'[t] * liquidity_pool_supply
                            >= reserve[t] * liquidity_pool_supply'
    BY <1>6, MulMonotone
  <2> QED
    BY <2>1, <1>6, ProductKeepsUp DEF LpShareKept, Side
<1>8. MovedTogether
  <2>1. \A t \in Side : /\ balance'[t]["vault"] = balance[t]["vault"]
                        /\ reserve'[t] = balance[t]["vault"]
    BY <1>1 DEF ledgerVars
  <2> QED
    BY <2>1, <1>2, Constants DEF MovedTogether, Amount
<1> QED
  BY <1>1, <1>3, <1>4, <1>5, <1>7, <1>8 DEF AmmInv, ledgerVars

(* Transfers past the program, to a vault for one.                         *)
LEMMA TokenTransferPreserves ==
    ASSUME AmmInv, NEW token \in Token, NEW from \in Users, NEW to \in Holder,
           NEW n \in Amounts, TokenTransfer(token, from, to, n)
    PROVE  AmmInv' /\ LpShareKept /\ MovedTogether
<1>1. /\ from # to /\ CanMove(token, from, to, n)
      /\ balance' = Moved(balance, token, from, to, n)
      /\ UNCHANGED <<pool_exists, fees, reserve, liquidity_pool_supply,
                      counterVars, oracleVars, lp_total_supply, clock>>
  BY DEF TokenTransfer
<1>2. /\ balance \in Ledger /\ n \in Nat /\ from \in Holder
      /\ from # "vault" /\ from # "lock"
      /\ "A" \in Token /\ "B" \in Token /\ "LP" \in Token
  BY Constants, AmountsAreNat, Tokens DEF AmmInv, AmmTypeOK, Ledger
<1>3. /\ balance' \in Ledger
      /\ balance'[token][from] = balance[token][from] - n
      /\ balance'[token][to] = balance[token][to] + n
      /\ \A h \in Holder \ {from, to} : balance'[token][h] = balance[token][h]
      /\ \A t \in Token \ {token} : balance'[t] = balance[t]
  BY <1>1, <1>2, MovedFacts DEF CanMove
<1>4. \A t \in Token, h \in Holder : balance[t][h] \in Nat /\ balance'[t][h] \in Nat
  BY <1>2, <1>3, Constants DEF Ledger, Amount
<1>5. \A t \in Token, h \in {"vault", "lock"} : balance'[t][h] >= balance[t][h]
  BY <1>2, <1>3, <1>4, Constants
<1>6. AmmTypeOK'
  BY <1>1, <1>3 DEF AmmInv, AmmTypeOK, Ledger, counterVars, oracleVars
<1>7. VaultCoversReserves'
  <2>1. \A s \in Side : /\ reserve[s] \in Nat
                        /\ balance[s]["vault"] \in Nat
                        /\ balance'[s]["vault"] \in Nat
                        /\ balance'[s]["vault"] >= balance[s]["vault"]
    BY <1>4, <1>5, Constants DEF AmmInv, AmmTypeOK, Token, Amount
  <2> QED
    BY <2>1, <1>1 DEF AmmInv, VaultCoversReserves, VaultsCoverReserves
<1>8. PoolStaysFunded'
  BY <1>1, <1>2, <1>4, <1>5, Constants DEF AmmInv, PoolStaysFunded
<1>9. ~pool_exists' => \A h \in Holder : balance'["LP"][h] = 0
  <2> SUFFICES ASSUME ~pool_exists, NEW h \in Holder
               PROVE  balance'["LP"][h] = 0
    BY <1>1
  <2>1. \A g \in Holder : balance["LP"][g] = 0
    BY DEF AmmInv
  <2>2. CASE token = "LP"
    <3>1. n = 0
      BY <2>1, <2>2, <1>1, <1>2 DEF CanMove
    <3> QED
      BY <3>1, <2>1, <2>2, <1>2, <1>3
  <2>3. CASE token # "LP"
    BY <2>1, <2>3, <1>2, <1>3
  <2> QED
    BY <2>2, <2>3
<1>10. LpShareKept
  BY <1>1, SameReserves
<1>11. MovedTogether
  <2>1. \A s \in Side : /\ reserve'[s] = reserve[s] /\ reserve[s] \in Nat
                        /\ balance[s]["vault"] \in Nat
                        /\ balance'[s]["vault"] \in Nat
                        /\ balance'[s]["vault"] >= balance[s]["vault"]
    BY <1>1, <1>4, <1>5, Constants DEF AmmInv, AmmTypeOK, Token, Amount
  <2> QED
    BY <2>1 DEF MovedTogether
<1> QED
  BY <1>1, <1>6, <1>7, <1>8, <1>9, <1>10, <1>11 DEF AmmInv

(* LP burnt past the program.                                              *)
LEMMA BurnLpPreserves ==
    ASSUME AmmInv, NEW user \in Users, NEW n \in Amounts, BurnLp(user, n)
    PROVE  AmmInv' /\ LpShareKept /\ MovedTogether
<1>1. /\ pool_exists
      /\ balance["LP"][user] >= n
      /\ lp_total_supply >= n
      /\ lp_total_supply' = lp_total_supply - n
      /\ balance' = Debited(balance, "LP", user, n)
      /\ UNCHANGED <<pool_exists, fees, reserve, liquidity_pool_supply,
                      counterVars, oracleVars, clock>>
  BY DEF BurnLp
<1>2. /\ balance \in Ledger /\ n \in Nat /\ user \in Holder /\ user # "lock"
      /\ "A" \in Token /\ "B" \in Token /\ "LP" \in Token
      /\ "A" # "LP" /\ "B" # "LP"
  BY Constants, AmountsAreNat, Tokens DEF AmmInv, AmmTypeOK, Ledger
<1>3. /\ balance' \in Ledger
      /\ balance'["LP"]["lock"] = balance["LP"]["lock"]
      /\ balance'["A"] = balance["A"] /\ balance'["B"] = balance["B"]
  BY <1>1, <1>2, Constants, DebitedFacts
<1>4. lp_total_supply' \in Amount /\ lp_total_supply' <= lp_total_supply
  BY <1>1, <1>2, Constants DEF AmmInv, AmmTypeOK, Amount
<1>5. AmmTypeOK'
  BY <1>1, <1>3, <1>4 DEF AmmInv, AmmTypeOK, Ledger, counterVars, oracleVars
<1>6. VaultCoversReserves'
  BY <1>1, <1>3 DEF AmmInv, VaultCoversReserves, VaultsCoverReserves, Side
<1>7. PoolStaysFunded'
  <2>1. liquidity_pool_supply \in Nat /\ lp_total_supply \in Nat /\ lp_total_supply' \in Nat
    BY <1>4, Constants DEF AmmInv, AmmTypeOK, Amount
  <2> QED
    BY <2>1, <1>1, <1>3, <1>4 DEF AmmInv, PoolStaysFunded
<1>8. LpShareKept
  BY <1>1, SameReserves
<1>9. MovedTogether
  <2>1. \A s \in Side : /\ reserve[s] \in Nat
                        /\ balance[s]["vault"] \in Nat
    BY Constants DEF AmmInv, AmmTypeOK, Token, Amount
  <2>2. \A s \in Side : /\ reserve'[s] = reserve[s]
                        /\ balance'[s]["vault"] = balance[s]["vault"]
    BY <1>1, <1>3 DEF Side
  <2> QED
    BY <2>1, <2>2 DEF MovedTogether
<1> QED
  BY <1>1, <1>5, <1>6, <1>7, <1>8, <1>9 DEF AmmInv

-----------------------------------------------------------------------------
(* The invariant is inductive, and every step keeps the two promises on     *)
(* steps: one case per action of Next.                                     *)
LEMMA NextPreserves ==
    AmmInv /\ [Next]_vars => AmmInv' /\ LpShareKept /\ MovedTogether
<1> SUFFICES ASSUME AmmInv, [Next]_vars
             PROVE  AmmInv' /\ LpShareKept /\ MovedTogether
  OBVIOUS
<1>1. ASSUME UNCHANGED <<reserve, liquidity_pool_supply, balance>>
      PROVE  LpShareKept /\ MovedTogether
  <2>1. LpShareKept
    BY <1>1, SameReserves
  <2>2. \A s \in Side : reserve[s] \in Int /\ balance[s]["vault"] \in Int
    BY Constants DEF AmmInv, AmmTypeOK, Token, Amount
  <2> QED
    BY <1>1, <2>1, <2>2 DEF MovedTogether
<1>2. CASE AdvanceClock
  <2>1. /\ clock' = clock + 1
        /\ UNCHANGED <<pool_exists, fees, reserve, liquidity_pool_supply,
                        counterVars, oracleVars, ledgerVars>>
    BY <1>2 DEF AdvanceClock
  <2>2. AmmInv'
    BY <2>1 DEF AmmInv, AmmTypeOK, VaultCoversReserves, VaultsCoverReserves,
                PoolStaysFunded, counterVars, oracleVars, ledgerVars
  <2> QED
    BY <1>1, <2>1, <2>2 DEF ledgerVars
<1>3. CASE DoNewDefinition
  BY <1>3, NewDefinitionPreserves DEF DoNewDefinition
<1>4. CASE DoAddLiquidity
  BY <1>4, AddLiquidityPreserves DEF DoAddLiquidity
<1>5. CASE DoRemoveLiquidity
  BY <1>5, RemoveLiquidityPreserves DEF DoRemoveLiquidity
<1>6. CASE DoSwapExactInput
  BY <1>6, ExactInputPreserves DEF DoSwapExactInput, SwapExactInput
<1>7. CASE DoSwapExactInputCircuit
  BY <1>7, ExactInputPreserves DEF DoSwapExactInputCircuit, SwapExactInputCircuit
<1>8. CASE DoSwapExactOutput
  BY <1>8, SwapExactOutputPreserves DEF DoSwapExactOutput
<1>9. CASE SyncReserves
  BY <1>9, SyncReservesPreserves
<1>10. CASE DoTokenTransfer
  BY <1>10, TokenTransferPreserves DEF DoTokenTransfer
<1>11. CASE DoBurnLp
  BY <1>11, BurnLpPreserves DEF DoBurnLp
<1>12. CASE UNCHANGED vars
  <2>1. AmmInv'
    BY <1>12 DEF vars, AmmInv, AmmTypeOK, VaultCoversReserves, VaultsCoverReserves,
                 PoolStaysFunded, counterVars, oracleVars, ledgerVars
  <2> QED
    BY <1>1, <1>12, <2>1 DEF vars, ledgerVars
<1> QED
  BY <1>2, <1>3, <1>4, <1>5, <1>6, <1>7, <1>8, <1>9, <1>10, <1>11, <1>12 DEF Next

(* The inductive invariant holds in every reachable state.                 *)
THEOREM AmmInvariant == Spec => []AmmInv
<1>1. Init => AmmInv
  BY InitInv
<1>2. AmmInv /\ [Next]_vars => AmmInv'
  BY NextPreserves
<1> QED
  BY <1>1, <1>2, PTL DEF Spec

(* No stored amount leaves the u128 range, whatever the users do.          *)
THEOREM TypeCorrect == Spec => []AmmTypeOK
<1>1. AmmInv => AmmTypeOK
  BY DEF AmmInv
<1> QED
  BY <1>1, AmmInvariant, PTL

(* The vaults cover the reserves in every reachable state.                 *)
THEOREM VaultsAlwaysCover == Spec => []VaultCoversReserves
<1>1. AmmInv => VaultCoversReserves
  BY DEF AmmInv
<1> QED
  BY <1>1, AmmInvariant, PTL

(* A pool never loses its reserves nor its locked minimum.                 *)
THEOREM PoolAlwaysFunded == Spec => []PoolStaysFunded
<1>1. AmmInv => PoolStaysFunded
  BY DEF AmmInv
<1> QED
  BY <1>1, AmmInvariant, PTL

(* The charge of an exact-output swap is the least input that buys it.      *)
THEOREM QuotesAlwaysAgree == Spec => []QuotesAgree
<1>1. ASSUME AmmInv, pool_exists, NEW s \in Side,
             NEW amount_out \in 1 .. (reserve[Other(s)] - 1)
      PROVE  ChargeIsLeast(s, amount_out)
  <2> DEFINE r_in == reserve[s]
             r_out == reserve[Other(s)]
             charge == ExactOutputIn(r_in, r_out, fees, amount_out)
             bought(n) == ExactInputOut(r_in, r_out, fees, n)
  <2>1. r_in \in Nat \ {0} /\ r_out \in Nat \ {0} /\ fees \in FEE_TIERS
    BY <1>1 DEF AmmInv, AmmTypeOK, PoolStaysFunded, Amount, Side, Other
  <2>2. amount_out \in Nat /\ amount_out > 0 /\ amount_out < r_out
    BY <2>1
  <2>3. charge \in Nat
    BY <2>1, <2>2, ExactOutputFacts
  <2>4. \A n \in Nat : bought(n) >= amount_out <=> n >= charge
    BY <2>1, <2>2, ChargeIsThreshold
  <2>5. \A n \in Nat : bought(n) \in Nat
    BY <2>1, ExactInputFacts
  <2>6. bought(0) = 0
    <3>1. EffectiveIn(0, fees) = 0
      BY <2>1, EffectiveInFacts
    <3> QED
      BY <2>1, <3>1 DEF ExactInputOut
  <2> HIDE DEF charge, bought
  <2>7. charge > 0
    BY <2>2, <2>3, <2>4, <2>6
  <2>8. bought(charge) >= amount_out
    BY <2>3, <2>4
  <2>9. charge - 1 \in Nat /\ ~(bought(charge - 1) >= amount_out)
    BY <2>3, <2>4, <2>7
  <2>10. bought(charge - 1) < amount_out
    BY <2>2, <2>5, <2>9
  <2> QED
    BY <2>7, <2>8, <2>10 DEF ChargeIsLeast, charge, bought
<1>2. AmmInv => QuotesAgree
  BY <1>1 DEF QuotesAgree
<1> QED
  BY <1>2, AmmInvariant, PTL

(* No step makes an LP unit worth less.                                    *)
THEOREM LpShareNeverDiluted == Spec => LpShareValue
<1>1. AmmInv /\ [Next]_vars => [LpShareKept]_vars
  BY NextPreserves
<1> QED
  BY <1>1, AmmInvariant, PTL DEF Spec, LpShareValue

(* Vaults and reserves move together but for gifts and syncs.              *)
THEOREM LedgerAlwaysFollows == Spec => LedgerFollowsPool
<1>1. AmmInv /\ [Next]_vars => [MovedTogether]_vars
  BY NextPreserves
<1> QED
  BY <1>1, AmmInvariant, PTL DEF Spec, LedgerFollowsPool

-----------------------------------------------------------------------------
(* The pool's steps, as the oracle's specification sees them.              *)
LEMMA OracleStep == AmmInv /\ AmmInv' /\ [Next]_vars => [Oracle!Next]_(Oracle!vars)
<1> SUFFICES ASSUME AmmInv, AmmInv', [Next]_vars
             PROVE  [Oracle!Next]_(Oracle!vars)
  OBVIOUS
<1> USE DEF Oracle!Side, Side, Oracle!oracleVars, oracleVars
<1>1. reserve' \in [Side -> Nat]
  BY Constants DEF AmmInv, AmmTypeOK, Amount
<1>2. ASSUME pool_exists, TickOracle, UNCHANGED <<pool_exists, clock>>
      PROVE  Oracle!Mutate
  BY <1>1, <1>2 DEF TickOracle, Oracle!Mutate
<1>3. ASSUME pool_exists, UNCHANGED oracleVars, UNCHANGED <<pool_exists, clock>>
      PROVE  Oracle!MutateWithoutOracle
  BY <1>1, <1>3 DEF Oracle!MutateWithoutOracle
<1>4. CASE AdvanceClock
  BY <1>4 DEF AdvanceClock, Oracle!Next, Oracle!AdvanceClock
<1>5. CASE DoNewDefinition
  <2>1. PICK user \in Users, amount_a \in Amounts, amount_b \in Amounts,
             tier \in FEE_TIERS : NewDefinition(user, amount_a, amount_b, tier)
    BY <1>5 DEF DoNewDefinition
  <2>2. \A s \in Side : reserve'[s] \in Nat \ {0}
    BY <2>1, AmountsAreNat DEF NewDefinition
  <2>3. reserve' \in [Side -> Nat \ {0}]
    BY <1>1, <2>2
  <2> QED
    BY <2>1, <2>3 DEF NewDefinition, Oracle!Next, Oracle!Create
<1>6. CASE DoAddLiquidity
  BY <1>2, <1>6 DEF DoAddLiquidity, AddLiquidity, Oracle!Next
<1>7. CASE DoRemoveLiquidity
  BY <1>2, <1>7 DEF DoRemoveLiquidity, RemoveLiquidity, Oracle!Next
<1>8. CASE DoSwapExactInput
  BY <1>2, <1>8 DEF DoSwapExactInput, SwapExactInput, ExactInput, SwapSetup, Oracle!Next
<1>9. CASE DoSwapExactInputCircuit
  BY <1>3, <1>9 DEF DoSwapExactInputCircuit, SwapExactInputCircuit, ExactInput,
                    SwapSetup, Oracle!Next
<1>10. CASE DoSwapExactOutput
  BY <1>2, <1>10 DEF DoSwapExactOutput, SwapExactOutput, SwapSetup, Oracle!Next
<1>11. CASE SyncReserves
  BY <1>2, <1>11 DEF SyncReserves, SwapSetup, Oracle!Next
<1>12. CASE DoTokenTransfer
  BY <1>12 DEF DoTokenTransfer, TokenTransfer, Oracle!vars
<1>13. CASE DoBurnLp
  BY <1>13 DEF DoBurnLp, BurnLp, Oracle!vars
<1>14. CASE UNCHANGED vars
  BY <1>14 DEF vars, Oracle!vars
<1> QED
  BY <1>4, <1>5, <1>6, <1>7, <1>8, <1>9, <1>10, <1>11, <1>12, <1>13, <1>14 DEF Next

(* The pool implements the oracle's specification.                         *)
THEOREM ImplementsOracle == Spec => OracleSpec
<1>1. Init => Oracle!Init
  BY DEF Init, Oracle!Init, Oracle!Side, Side
<1>2. AmmInv /\ AmmInv' /\ [Next]_vars => [Oracle!Next]_(Oracle!vars)
  BY OracleStep
<1> QED
  BY <1>1, <1>2, AmmInvariant, PTL DEF Spec, OracleSpec, Oracle!Spec

-----------------------------------------------------------------------------
(* The recorded fee of an exact-input swap is all of what the trade did not *)
(* move along the curve.                                                   *)
LEMMA ExactInputKeepsFee ==
    ASSUME AmmInv, AmmInv', NEW payer \in Users, NEW recipient \in Users,
           NEW s \in Side, NEW n \in Amounts, NEW limit \in Limits,
           ExactInput(payer, recipient, s, n, limit)
    PROVE  FeeKept
<1> DEFINE o == Other(s)
           out == ExactInputOut(reserve[s], reserve[o], fees, n)
           eff == EffectiveIn(n, fees)
           fee == RecordedFee(n, fees)
<1>1. /\ pool_exists
      /\ Fits(n * (FEE_BPS_DENOMINATOR - fees))
      /\ reserve' = [reserve EXCEPT ![s] = @ + n, ![o] = @ - out]
      /\ cum_fees' = [cum_fees EXCEPT ![s] = SaturatingAdd(@, fee)]
  BY DEF ExactInput, SwapSetup, ExactInputOk, ApplySwapToPoolDef
<1>2. /\ o \in Side /\ o # s /\ Side = {s, o}
      /\ reserve[s] \in Nat \ {0} /\ reserve[o] \in Nat \ {0}
      /\ fees \in FEE_TIERS /\ n \in Nat /\ n <= U128_MAX
      /\ cum_fees[s] \in Nat
  <2>1. o \in Side /\ o # s /\ Side = {s, o}
    BY DEF Other, Side
  <2>2. reserve \in [Side -> Amount] /\ cum_fees \in [Side -> Amount]
    BY DEF AmmInv, AmmTypeOK
  <2>3. fees \in FEE_TIERS /\ \A t \in Side : reserve[t] > 0
    BY <1>1 DEF AmmInv, PoolStaysFunded
  <2> QED
    BY <2>1, <2>2, <2>3, AmountsAreNat, Constants DEF Amount
<1>3. /\ out \in Nat /\ out < reserve[o]
      /\ (reserve[s] + eff) * (reserve[o] - out) >= reserve[s] * reserve[o]
  BY <1>2, ExactInputFacts
<1>4. eff \in Nat /\ eff <= n /\ fee = n - eff
  BY <1>1, <1>2, EffectiveInFacts, RecordedFeeExact
<1> HIDE DEF out, eff, fee, o
<1>5. reserve'[s] = reserve[s] + n /\ reserve'[o] = reserve[o] - out
  BY <1>1, <1>2 DEF AmmInv, AmmTypeOK
<1>6. cum_fees'[s] = SaturatingAdd(cum_fees[s], fee)
  BY <1>1, <1>2 DEF AmmInv, AmmTypeOK
<1>7. ~(reserve'[o] > reserve[o])
  BY <1>2, <1>3, <1>5
<1>8. ASSUME cum_fees'[s] < U128_MAX
      PROVE  (reserve'[s] - (cum_fees'[s] - cum_fees[s])) * reserve'[o]
                 >= reserve[s] * reserve[o]
  <2>1. cum_fees'[s] = cum_fees[s] + (n - eff)
    BY <1>2, <1>4, <1>6, <1>8, Constants DEF SaturatingAdd, Least
  <2>2. reserve'[s] - (cum_fees'[s] - cum_fees[s]) = reserve[s] + eff
    BY <2>1, <1>2, <1>4, <1>5
  <2> QED
    BY <2>2, <1>3, <1>5
<1>9. Other(s) = o
  BY DEF o
<1> QED
  BY <1>2, <1>7, <1>8, <1>9 DEF FeeKept

(* The whole recorded fee of an exact-input swap stays with the providers.  *)
THEOREM FeesAlwaysAccrue == Spec => FeeAccruesToReserves
<1> DEFINE FeeStep == FeeKept \/ ~(DoSwapExactInput \/ DoSwapExactInputCircuit)
<1>1. AmmInv /\ AmmInv' /\ [Next]_vars => [FeeStep]_vars
  <2> SUFFICES ASSUME AmmInv, AmmInv', DoSwapExactInput \/ DoSwapExactInputCircuit
               PROVE  FeeKept
    OBVIOUS
  <2> QED
    BY ExactInputKeepsFee
       DEF DoSwapExactInput, DoSwapExactInputCircuit, SwapExactInput, SwapExactInputCircuit
<1> QED
  BY <1>1, AmmInvariant, PTL DEF Spec, FeeAccruesToReserves

-----------------------------------------------------------------------------
(* The oracle never runs ahead of the clock.                               *)
OracleBehindClock == block_ts_last <= clock

(* An oracle update stamps the clock.                                      *)
LEMMA TickBehindClock ==
    ASSUME AmmTypeOK, OracleBehindClock, TickOracle, UNCHANGED clock
    PROVE  /\ OracleBehindClock'
           /\ USES_CLOCK => block_ts_last' = clock
<1>1. /\ block_ts_last \in Nat /\ clock \in Nat
      /\ Oracle!ClockArg = IF USES_CLOCK THEN clock ELSE 0
  BY DEF AmmTypeOK, Oracle!ClockArg
<1>2. \/ block_ts_last' = block_ts_last /\ Oracle!ClockArg <= block_ts_last
      \/ block_ts_last' = Oracle!ClockArg
  BY DEF TickOracle, Oracle!OracleUpdate, Oracle!Rebase, Oracle!Accumulate,
         Oracle!oracleVars
<1> QED
  BY <1>1, <1>2 DEF OracleBehindClock

(* The oracle is never ahead of the clock, which only moves on.            *)
LEMMA BehindClockInvariant == Spec => []OracleBehindClock
<1>1. Init => OracleBehindClock
  BY DEF Init, OracleBehindClock
<1>2. AmmInv /\ OracleBehindClock /\ [Next]_vars => OracleBehindClock'
  <2> SUFFICES ASSUME AmmInv, OracleBehindClock, [Next]_vars
               PROVE  OracleBehindClock'
    OBVIOUS
  <2>1. AmmTypeOK /\ block_ts_last \in Nat /\ clock \in Nat
    BY DEF AmmInv, AmmTypeOK
  <2>2. ASSUME TickOracle, UNCHANGED clock PROVE OracleBehindClock'
    BY <2>1, <2>2, TickBehindClock
  <2>3. ASSUME UNCHANGED oracleVars, clock' >= clock, clock' \in Nat
        PROVE  OracleBehindClock'
    BY <2>1, <2>3 DEF OracleBehindClock, oracleVars
  <2>4. CASE AdvanceClock
    BY <2>1, <2>3, <2>4 DEF AdvanceClock
  <2>5. CASE DoNewDefinition
    BY <2>1, <2>5 DEF DoNewDefinition, NewDefinition, OracleBehindClock, Oracle!ClockArg
  <2>6. CASE DoAddLiquidity
    BY <2>2, <2>6 DEF DoAddLiquidity, AddLiquidity
  <2>7. CASE DoRemoveLiquidity
    BY <2>2, <2>7 DEF DoRemoveLiquidity, RemoveLiquidity
  <2>8. CASE DoSwapExactInput
    BY <2>2, <2>8 DEF DoSwapExactInput, SwapExactInput, ExactInput
  <2>9. CASE DoSwapExactInputCircuit
    BY <2>1, <2>3, <2>9 DEF DoSwapExactInputCircuit, SwapExactInputCircuit, ExactInput
  <2>10. CASE DoSwapExactOutput
    BY <2>2, <2>10 DEF DoSwapExactOutput, SwapExactOutput
  <2>11. CASE SyncReserves
    BY <2>2, <2>11 DEF SyncReserves
  <2>12. CASE DoTokenTransfer
    BY <2>1, <2>3, <2>12 DEF DoTokenTransfer, TokenTransfer
  <2>13. CASE DoBurnLp
    BY <2>1, <2>3, <2>13 DEF DoBurnLp, BurnLp
  <2>14. CASE UNCHANGED vars
    BY <2>1, <2>3, <2>14 DEF vars
  <2> QED
    BY <2>4, <2>5, <2>6, <2>7, <2>8, <2>9, <2>10, <2>11, <2>12, <2>13, <2>14 DEF Next
<1> QED
  BY <1>1, <1>2, AmmInvariant, PTL DEF Spec

(* In the deployment that reads the clock, every public exact-input swap    *)
(* leaves the oracle at the clock, whatever came before it.                *)
THEOREM PublicSwapsTick ==
    ASSUME USES_CLOCK
    PROVE  Spec => PublicSwapTicks
<1> DEFINE TickStep == block_ts_last' = clock \/ ~DoSwapExactInput
<1>1. AmmInv /\ OracleBehindClock /\ [Next]_vars => [TickStep]_vars
  <2> SUFFICES ASSUME AmmInv, OracleBehindClock, DoSwapExactInput
               PROVE  block_ts_last' = clock
    OBVIOUS
  <2>1. AmmTypeOK /\ TickOracle /\ UNCHANGED clock
    BY DEF AmmInv, DoSwapExactInput, SwapExactInput, ExactInput
  <2> QED
    BY <2>1, TickBehindClock
<1> QED
  BY <1>1, AmmInvariant, BehindClockInvariant, PTL DEF Spec, PublicSwapTicks

-----------------------------------------------------------------------------
(* The LP that exists: what the holders have adds up to the total supply,   *)
(* so that what users can bring back is bounded by what the pool counts.    *)

LpHeld == Total(balance["LP"], Holder)
LpAccounted == LpHeld = lp_total_supply

LpRow == [Holder -> Int]

(* The sum of the LP holdings is over a finite set.                        *)
LEMMA HoldersAreFinite == IsFiniteSet(Holder)
<1>1. IsFiniteSet(Users \cup {"vault"})
  BY AmmAssumption, FS_AddElement
<1>2. IsFiniteSet((Users \cup {"vault"}) \cup {"lock"})
  BY <1>1, FS_AddElement
<1>3. Holder = (Users \cup {"vault"}) \cup {"lock"}
  BY DEF Holder
<1> QED
  BY <1>2, <1>3

(* It is a number.                                                         *)
LEMMA LpHeldTyped ==
    ASSUME AmmTypeOK
    PROVE  balance["LP"] \in LpRow /\ LpHeld \in Int /\ lp_total_supply \in Int
<1>1. balance["LP"] \in LpRow
  BY Constants, Tokens DEF AmmTypeOK, LpRow, Amount
<1>2. \A h \in Holder : balance["LP"][h] \in Int
  BY <1>1 DEF LpRow
<1> QED
  BY <1>1, <1>2, HoldersAreFinite, TotalInt, Constants DEF AmmTypeOK, LpHeld, Amount

(* One holding changes.                                                    *)
LEMMA LpHeldChanges ==
    ASSUME NEW f \in LpRow, NEW g \in LpRow, NEW h \in Holder,
           \A k \in Holder \ {h} : g[k] = f[k]
    PROVE  /\ Total(g, Holder) = Total(f, Holder) + g[h] - f[h]
           /\ Total(f, Holder) \in Int
<1>1. (\A k \in Holder : f[k] \in Int) /\ g[h] \in Int
  BY DEF LpRow
<1> QED
  BY <1>1, HoldersAreFinite, TotalChange, TotalInt

(* Moves of A and B leave the LP holdings alone.                           *)
LEMMA LpUntouched ==
    ASSUME NEW ledger, "LP" \in DOMAIN ledger, NEW token, token # "LP",
           NEW from, NEW to, NEW amount
    PROVE  /\ "LP" \in DOMAIN Moved(ledger, token, from, to, amount)
           /\ Moved(ledger, token, from, to, amount)["LP"] = ledger["LP"]
BY DEF Moved

(* Two transfers of other tokens leave the LP ledger.                      *)
LEMMA LpUntouchedTwice ==
    ASSUME NEW ledger, "LP" \in DOMAIN ledger,
           NEW token, token # "LP", NEW from, NEW to, NEW amount,
           NEW token2, token2 # "LP", NEW from2, NEW to2, NEW amount2
    PROVE  LET after == Moved(Moved(ledger, token, from, to, amount),
                              token2, from2, to2, amount2)
           IN  "LP" \in DOMAIN after /\ after["LP"] = ledger["LP"]
<1> DEFINE l1 == Moved(ledger, token, from, to, amount)
<1>1. "LP" \in DOMAIN l1 /\ l1["LP"] = ledger["LP"]
  BY LpUntouched
<1> HIDE DEF l1
<1>2. /\ "LP" \in DOMAIN Moved(l1, token2, from2, to2, amount2)
      /\ Moved(l1, token2, from2, to2, amount2)["LP"] = l1["LP"]
  BY <1>1, LpUntouched
<1> QED
  BY <1>1, <1>2 DEF l1

(* A swap moves no LP.                                                     *)
LEMMA SwapKeepsLp ==
    ASSUME AmmInv, LpAccounted, NEW payer, NEW recipient, NEW s \in Side,
           NEW deposit, NEW withdraw,
           SwapTransfers(payer, recipient, s, deposit, withdraw)
    PROVE  LpAccounted'
<1>1. "LP" \in DOMAIN balance /\ s # "LP" /\ Other(s) # "LP"
  BY Tokens DEF AmmInv, AmmTypeOK, Side, Other
<1>2. balance'["LP"] = balance["LP"]
  BY <1>1, LpUntouchedTwice DEF SwapTransfers
<1>3. lp_total_supply' = lp_total_supply
  BY DEF SwapTransfers
<1> QED
  BY <1>2, <1>3 DEF LpAccounted, LpHeld

(* The pool's creation mints the minimum and the rest.                      *)
LEMMA NewDefinitionMints ==
    ASSUME AmmInv, AmmInv', LpAccounted, NEW user \in Users,
           NEW amount_a \in Amounts, NEW amount_b \in Amounts, NEW tier \in FEE_TIERS,
           NewDefinition(user, amount_a, amount_b, tier)
    PROVE  LpAccounted'
<1> DEFINE l2 == Moved(Moved(balance, "A", user, "vault", amount_a),
                       "B", user, "vault", amount_b)
           l3 == Credited(l2, "LP", "lock", MINIMUM_LIQUIDITY)
<1>1. PICK initial_lp \in Amount :
        /\ lp_total_supply' = initial_lp
        /\ balance' = Credited(l3, "LP", user, initial_lp - MINIMUM_LIQUIDITY)
  BY DEF NewDefinition, LpLocked
<1>2. "LP" \in DOMAIN l2 /\ l2["LP"] = balance["LP"]
  <2>1. "LP" \in DOMAIN balance /\ "A" # "LP" /\ "B" # "LP"
    BY Tokens DEF AmmInv, AmmTypeOK
  <2> QED
    BY <2>1, LpUntouchedTwice
<1>3. /\ \A h \in Holder : balance["LP"][h] = 0
      /\ balance["LP"] \in LpRow
      /\ user \in Holder /\ "lock" \in Holder /\ user # "lock"
      /\ MINIMUM_LIQUIDITY \in Int /\ initial_lp \in Int
  BY LpHeldTyped, Constants DEF AmmInv, NewDefinition, Amount
<1> HIDE DEF l2
<1>4. /\ "LP" \in DOMAIN l3 /\ l3["LP"] \in LpRow
      /\ l3["LP"]["lock"] = MINIMUM_LIQUIDITY
      /\ \A h \in Holder \ {"lock"} : l3["LP"][h] = balance["LP"][h]
  BY <1>2, <1>3 DEF Credited, LpRow
<1> HIDE DEF l3
<1>5. /\ balance'["LP"] \in LpRow
      /\ balance'["LP"][user] = initial_lp - MINIMUM_LIQUIDITY
      /\ \A h \in Holder \ {user} : balance'["LP"][h] = l3["LP"][h]
  BY <1>1, <1>3, <1>4 DEF Credited, LpRow
<1>6. /\ Total(l3["LP"], Holder)
             = Total(balance["LP"], Holder) + l3["LP"]["lock"] - balance["LP"]["lock"]
      /\ Total(balance["LP"], Holder) \in Int
  BY <1>3, <1>4, LpHeldChanges
<1>7. Total(balance'["LP"], Holder)
          = Total(l3["LP"], Holder) + balance'["LP"][user] - l3["LP"][user]
  BY <1>3, <1>4, <1>5, LpHeldChanges
<1>8. Total(balance["LP"], Holder) = 0
  BY <1>3, HoldersAreFinite, TotalZero
<1>9. Total(balance'["LP"], Holder) = initial_lp
  BY <1>3, <1>4, <1>5, <1>6, <1>7, <1>8
<1> QED
  BY <1>1, <1>9 DEF LpAccounted, LpHeld

(* A deposit mints the same LP in the ledger and in the supply.             *)
LEMMA AddLiquidityMints ==
    ASSUME AmmInv, AmmInv', LpAccounted,
           NEW payer \in Users, NEW recipient \in Recipients("LP"),
           NEW max_a \in Amounts, NEW max_b \in Amounts, NEW min_lp \in Limits,
           AddLiquidity(payer, recipient, max_a, max_b, min_lp)
    PROVE  LpAccounted'
<1> DEFINE da == ActualDeposit(reserve["A"], reserve["B"], max_a, max_b)
           db == ActualDeposit(reserve["B"], reserve["A"], max_b, max_a)
           lp == LpMinted(liquidity_pool_supply, reserve["A"], reserve["B"], da, db)
           l2 == Moved(Moved(balance, "A", payer, "vault", da), "B", payer, "vault", db)
<1>1. /\ pool_exists
      /\ lp_total_supply' = lp_total_supply + lp
      /\ balance' = Credited(l2, "LP", recipient, lp)
  BY DEF AddLiquidity, Side
<1>2. /\ reserve["A"] \in Nat \ {0} /\ reserve["B"] \in Nat \ {0}
      /\ liquidity_pool_supply \in Nat /\ max_a \in Nat /\ max_b \in Nat
  <2>1. reserve \in [Side -> Amount] /\ \A s \in Side : reserve[s] > 0
    BY <1>1 DEF AmmInv, AmmTypeOK, PoolStaysFunded
  <2>2. liquidity_pool_supply \in Nat
    BY Constants DEF AmmInv, AmmTypeOK, Amount
  <2> QED
    BY <2>1, <2>2, AmountsAreNat, Constants DEF Side, Amount
<1>3. da \in Nat /\ db \in Nat
  BY <1>2, ShareFacts DEF ActualDeposit, Least
<1>4. "LP" \in DOMAIN l2 /\ l2["LP"] = balance["LP"]
  <2>1. "LP" \in DOMAIN balance /\ "A" # "LP" /\ "B" # "LP"
    BY Tokens DEF AmmInv, AmmTypeOK
  <2> QED
    BY <2>1, LpUntouchedTwice
<1> HIDE DEF da, db, l2
<1>5. lp \in Nat
  BY <1>2, <1>3, LpMintedFacts
<1> HIDE DEF lp
<1>6. recipient \in Holder
  BY Constants DEF Recipients
<1>7. balance["LP"] \in LpRow /\ balance'["LP"] \in LpRow
      /\ LpHeld \in Int /\ lp_total_supply \in Int
  <2>1. balance["LP"] \in LpRow /\ LpHeld \in Int /\ lp_total_supply \in Int
    BY LpHeldTyped DEF AmmInv
  <2>2. balance'["LP"] \in [Holder -> Amount]
    BY Tokens DEF AmmInv, AmmTypeOK
  <2> QED
    BY <2>1, <2>2, Constants DEF LpRow, Amount
<1>8. /\ balance'["LP"][recipient] = balance["LP"][recipient] + lp
      /\ \A h \in Holder \ {recipient} : balance'["LP"][h] = balance["LP"][h]
  BY <1>1, <1>4, <1>5, <1>6, <1>7 DEF Credited, LpRow
<1>9. Total(balance'["LP"], Holder)
          = Total(balance["LP"], Holder) + balance'["LP"][recipient] - balance["LP"][recipient]
  BY <1>6, <1>7, <1>8, LpHeldChanges
<1>10. balance["LP"][recipient] \in Int
  BY <1>6, <1>7 DEF LpRow
<1> QED
  BY <1>1, <1>5, <1>7, <1>8, <1>9, <1>10 DEF LpAccounted, LpHeld

(* A debit of LP, by a withdrawal or by a burn beside the pool.             *)
LEMMA DebitKeepsAccounts ==
    ASSUME AmmInv, LpAccounted, NEW ledger, "LP" \in DOMAIN ledger,
           ledger["LP"] = balance["LP"], NEW user \in Holder, NEW amount \in Nat,
           balance' = Debited(ledger, "LP", user, amount),
           lp_total_supply' = lp_total_supply - amount
    PROVE  LpAccounted'
<1>1. balance["LP"] \in LpRow /\ LpHeld \in Int /\ lp_total_supply \in Int
  BY LpHeldTyped DEF AmmInv
<1>2. /\ balance'["LP"] \in LpRow
      /\ balance'["LP"][user] = balance["LP"][user] - amount
      /\ \A h \in Holder \ {user} : balance'["LP"][h] = balance["LP"][h]
  BY <1>1 DEF Debited, LpRow
<1>3. Total(balance'["LP"], Holder)
          = Total(balance["LP"], Holder) + balance'["LP"][user] - balance["LP"][user]
  BY <1>1, <1>2, LpHeldChanges
<1>4. balance["LP"][user] \in Int
  BY <1>1 DEF LpRow
<1> QED
  BY <1>1, <1>2, <1>3, <1>4 DEF LpAccounted, LpHeld

(* A removal takes the same off the holder and the supply.                 *)
LEMMA RemoveLiquidityBurns ==
    ASSUME AmmInv, LpAccounted, NEW user \in Users, NEW recipient \in Users,
           NEW amount \in Amounts, NEW min_a \in Limits, NEW min_b \in Limits,
           RemoveLiquidity(user, recipient, amount, min_a, min_b)
    PROVE  LpAccounted'
<1> DEFINE withdraw == [s \in Side |-> Share(reserve[s], amount, liquidity_pool_supply)]
           l2 == Moved(Moved(balance, "A", "vault", recipient, withdraw["A"]),
                       "B", "vault", recipient, withdraw["B"])
<1>1. balance' = Debited(l2, "LP", user, amount) /\ lp_total_supply' = lp_total_supply - amount
  BY DEF RemoveLiquidity
<1>2. "LP" \in DOMAIN l2 /\ l2["LP"] = balance["LP"]
  <2>1. "LP" \in DOMAIN balance /\ "A" # "LP" /\ "B" # "LP"
    BY Tokens DEF AmmInv, AmmTypeOK
  <2> QED
    BY <2>1, LpUntouchedTwice
<1>3. user \in Holder /\ amount \in Nat
  BY Constants, AmountsAreNat
<1> HIDE DEF l2
<1> QED
  BY <1>1, <1>2, <1>3, DebitKeepsAccounts

(* A transfer takes from one holding what it gives to another.              *)
LEMMA TransferKeepsAccounts ==
    ASSUME AmmInv, LpAccounted, NEW token \in Token, NEW from \in Users, NEW to \in Holder,
           NEW n \in Amounts, TokenTransfer(token, from, to, n)
    PROVE  LpAccounted'
<1>1. /\ from # to /\ balance' = Moved(balance, token, from, to, n)
      /\ lp_total_supply' = lp_total_supply
      /\ "LP" \in DOMAIN balance
  BY Tokens DEF TokenTransfer, AmmInv, AmmTypeOK
<1>2. CASE token # "LP"
  BY <1>1, <1>2, LpUntouched DEF LpAccounted, LpHeld
<1>3. CASE token = "LP"
  <2> DEFINE row == balance["LP"]
             mid == [row EXCEPT ![from] = @ - n]
  <2>1. row \in LpRow /\ LpHeld \in Int /\ lp_total_supply \in Int
    BY LpHeldTyped DEF AmmInv
  <2>2. from \in Holder /\ n \in Int
    BY Constants, AmountsAreNat
  <2>3. balance'["LP"] = [row EXCEPT ![from] = @ - n, ![to] = @ + n]
    BY <1>1, <1>3 DEF Moved
  <2>4. /\ mid \in LpRow /\ mid[from] = row[from] - n /\ mid[to] = row[to]
        /\ \A h \in Holder \ {from} : mid[h] = row[h]
    BY <1>1, <2>1, <2>2 DEF LpRow
  <2>5. /\ balance'["LP"] \in LpRow /\ balance'["LP"][to] = row[to] + n
        /\ \A h \in Holder \ {to} : balance'["LP"][h] = mid[h]
    BY <1>1, <2>1, <2>2, <2>3 DEF LpRow
  <2>6. row[from] \in Int /\ row[to] \in Int
    BY <2>1, <2>2 DEF LpRow
  <2>7. Total(row, Holder) = LpHeld
    BY DEF LpHeld
  <2> HIDE DEF mid, row
  <2>8. Total(mid, Holder) = Total(row, Holder) + mid[from] - row[from]
    BY <2>1, <2>2, <2>4, LpHeldChanges
  <2>9. Total(balance'["LP"], Holder) = Total(mid, Holder) + balance'["LP"][to] - mid[to]
    BY <2>4, <2>5, LpHeldChanges
  <2>10. Total(balance'["LP"], Holder) = LpHeld
    BY <2>1, <2>2, <2>4, <2>5, <2>6, <2>7, <2>8, <2>9
  <2> QED
    BY <1>1, <2>10 DEF LpAccounted, LpHeld
<1> QED
  BY <1>2, <1>3

(* The accounts of the LP token are kept by every step.                     *)
LEMMA LpStep ==
    ASSUME AmmInv, AmmInv', LpAccounted, [Next]_vars
    PROVE  LpAccounted'
<1>1. ASSUME UNCHANGED ledgerVars PROVE LpAccounted'
  BY <1>1 DEF ledgerVars, LpAccounted, LpHeld
<1>2. CASE AdvanceClock
  BY <1>1, <1>2 DEF AdvanceClock
<1>3. CASE DoNewDefinition
  BY <1>3, NewDefinitionMints DEF DoNewDefinition
<1>4. CASE DoAddLiquidity
  BY <1>4, AddLiquidityMints DEF DoAddLiquidity
<1>5. CASE DoRemoveLiquidity
  BY <1>5, RemoveLiquidityBurns DEF DoRemoveLiquidity
<1>6. CASE DoSwapExactInput
  BY <1>6, SwapKeepsLp DEF DoSwapExactInput, SwapExactInput, ExactInput
<1>7. CASE DoSwapExactInputCircuit
  BY <1>7, SwapKeepsLp DEF DoSwapExactInputCircuit, SwapExactInputCircuit, ExactInput
<1>8. CASE DoSwapExactOutput
  BY <1>8, SwapKeepsLp DEF DoSwapExactOutput, SwapExactOutput
<1>9. CASE SyncReserves
  BY <1>1, <1>9 DEF SyncReserves
<1>10. CASE DoTokenTransfer
  BY <1>10, TransferKeepsAccounts DEF DoTokenTransfer
<1>11. CASE DoBurnLp
  <2> PICK user \in Users, n \in Amounts : BurnLp(user, n)
    BY <1>11 DEF DoBurnLp
  <2>1. /\ balance' = Debited(balance, "LP", user, n)
        /\ lp_total_supply' = lp_total_supply - n
        /\ user \in Holder /\ n \in Nat /\ "LP" \in DOMAIN balance
    BY Constants, AmountsAreNat, Tokens DEF BurnLp, AmmInv, AmmTypeOK
  <2> QED
    BY <2>1, DebitKeepsAccounts
<1>12. CASE UNCHANGED vars
  BY <1>1, <1>12 DEF vars
<1> QED
  BY <1>2, <1>3, <1>4, <1>5, <1>6, <1>7, <1>8, <1>9, <1>10, <1>11, <1>12 DEF Next

(* Whatever the users do, every LP unit that exists is in some holding.     *)
LEMMA LpAlwaysAccounted == Spec => []LpAccounted
<1>1. Init => LpAccounted
  <2> SUFFICES ASSUME Init PROVE LpAccounted
    OBVIOUS
  <2>1. \A h \in Holder : balance["LP"][h] = 0
    BY Tokens DEF Init, Side
  <2> QED
    BY <2>1, HoldersAreFinite, TotalZero DEF Init, LpAccounted, LpHeld
<1>2. AmmInv /\ AmmInv' /\ LpAccounted /\ [Next]_vars => LpAccounted'
  BY LpStep
<1> QED
  BY <1>1, <1>2, AmmInvariant, PTL DEF Spec

(* The users together never hold more LP than the pool can redeem above its *)
(* locked minimum: none of remove_liquidity's refusals for the minimum's     *)
(* sake can meet an LP holder, however many withdraw and in what order.     *)
THEOREM ExitsNeverBlocked == Spec => []ExitNeverBlocked
<1>1. AmmInv /\ LpAccounted => ExitNeverBlocked
  <2> SUFFICES ASSUME AmmInv, LpAccounted, pool_exists PROVE ExitNeverBlocked
    BY DEF ExitNeverBlocked
  <2> DEFINE lp == balance["LP"]
             rest == Holder \ {"lock"}
  <2>1. /\ MapThenSumSet(LAMBDA u : balance["LP"][u], Users) = Total(lp, Users)
        /\ MapThenSumSet(LAMBDA h : balance["LP"][h], Holder) = Total(lp, Holder)
    BY DEF Total
  <2>2. Total(lp, Holder) = lp_total_supply
    BY DEF LpAccounted, LpHeld
  <2>3. \A h \in Holder : lp[h] \in Nat /\ lp[h] \in Int
    BY Constants, Tokens DEF AmmInv, AmmTypeOK, Amount
  <2>4. /\ lp["lock"] >= MINIMUM_LIQUIDITY
        /\ liquidity_pool_supply >= lp_total_supply
    BY DEF AmmInv, PoolStaysFunded
  <2>5. "lock" \in Holder /\ Users \in SUBSET rest /\ rest \in SUBSET Holder
    BY Constants
  <2> HIDE DEF lp
  <2>6. Total(lp, Holder) = lp["lock"] + Total(lp, rest)
    BY <2>3, <2>5, HoldersAreFinite, TotalRemove
  <2>7. Total(lp, rest) \in Int
    BY <2>3, <2>5, HoldersAreFinite, FS_Subset, TotalInt
  <2>8. Total(lp, Users) \in Nat /\ Total(lp, Users) <= Total(lp, rest)
    BY <2>3, <2>5, HoldersAreFinite, FS_Subset, TotalPart
  <2>9. /\ lp["lock"] \in Int /\ MINIMUM_LIQUIDITY \in Int
        /\ liquidity_pool_supply \in Int /\ lp_total_supply \in Int
    BY <2>3, <2>5, Constants DEF AmmInv, AmmTypeOK, Amount
  <2>10. Total(lp, Users) <= liquidity_pool_supply - MINIMUM_LIQUIDITY
    BY <2>2, <2>4, <2>6, <2>7, <2>8, <2>9
  <2> QED
    BY <2>1, <2>2, <2>10 DEF ExitNeverBlocked
<1> QED
  BY <1>1, AmmInvariant, LpAlwaysAccounted, PTL

=============================================================================
