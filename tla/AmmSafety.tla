------------------------------ MODULE AmmSafety ------------------------------
(***************************************************************************)
(* What the pool promises its traders, its liquidity providers and the      *)
(* readers of its oracle.                                                  *)
(***************************************************************************)
EXTENDS Amm, FiniteSetsExt

(* Every stored amount is a u128: no checked operation lets one overflow or *)
(* underflow, and the accumulators wrap.                                   *)
AmmTypeOK ==
    /\ pool_exists \in BOOLEAN
    /\ fees \in FEE_TIERS \cup {0}
    /\ reserve \in [Side -> Amount]
    /\ liquidity_pool_supply \in Amount
    /\ cum_volume \in [Side -> Amount]
    /\ cum_fees \in [Side -> Amount]
    /\ price_cum_last \in [Side -> Nat]
    /\ block_ts_last \in Nat
    /\ obs \in Seq(Oracle!Observation)
    /\ balance \in [Token -> [Holder -> Amount]]
    /\ lp_total_supply \in Amount
    /\ clock \in Nat

(* The vaults can always pay out the reserves that swaps are priced with,   *)
(* however liquidity moves, swaps, syncs and gifts interleave, so that      *)
(* validate_swap_setup never locks a pool that was sound.                  *)
VaultCoversReserves == pool_exists => VaultsCoverReserves

(* A pool that exists is never drained: both reserves stay positive, so     *)
(* that no division by a reserve can fail, and the locked minimum stays in  *)
(* the lock holding and in the supply.  The supply the pool divides by is   *)
(* never below the LP that exists; holders who burn LP behind the pool's    *)
(* back only make it larger.                                               *)
PoolStaysFunded ==
    pool_exists =>
        /\ \A s \in Side : reserve[s] > 0
        /\ balance["LP"]["lock"] >= MINIMUM_LIQUIDITY
        /\ liquidity_pool_supply >= MINIMUM_LIQUIDITY
        /\ liquidity_pool_supply >= lp_total_supply

(* The inductive strengthening: what a pool that exists needs of its fee    *)
(* tier to price a swap, and that before the pool exists nothing is in it.  *)
AmmInv ==
    /\ AmmTypeOK
    /\ VaultCoversReserves
    /\ PoolStaysFunded
    /\ pool_exists => fees \in FEE_TIERS
    /\ ~pool_exists => /\ \A h \in Holder : balance["LP"][h] = 0
                       /\ \A s \in Side : reserve[s] = 0

(* remove_liquidity's three refusals that protect the locked floor never    *)
(* hit an LP holder: "honest flows should never reach the permanent lock".  *)
(* All the LP that users hold together is the unlocked supply at most.     *)
ExitNeverBlocked ==
    pool_exists =>
        /\ MapThenSumSet(LAMBDA u : balance["LP"][u], Users)
              <= liquidity_pool_supply - MINIMUM_LIQUIDITY
        /\ MapThenSumSet(LAMBDA h : balance["LP"][h], Holder) = lp_total_supply

(* No step makes an LP unit worth less: the product of the reserves per     *)
(* squared unit of supply never falls.  Every rounding in swaps, deposits   *)
(* and withdrawals favours those who stay in.                              *)
LpShareKept ==
    reserve'["A"] * reserve'["B"] * liquidity_pool_supply * liquidity_pool_supply
      >= reserve["A"] * reserve["B"] * liquidity_pool_supply' * liquidity_pool_supply'
LpShareValue == [][LpShareKept]_vars

(* An exact-input swap leaves the pool at least the product it had after     *)
(* setting the recorded fee aside: the whole fee in cum_fees accrues to the *)
(* reserves, and the trade itself never eats into it.                      *)
FeeKept ==
    \A s \in Side :
        (cum_fees'[s] < U128_MAX /\ reserve'[s] > reserve[s]) =>
            (reserve'[s] - (cum_fees'[s] - cum_fees[s])) * reserve'[Other(s)]
                >= reserve[s] * reserve[Other(s)]
FeeAccruesToReserves ==
    [][FeeKept \/ ~(DoSwapExactInput \/ DoSwapExactInputCircuit)]_vars

(* An exact-output swap charges the least input that buys the amount: given  *)
(* to an exact-input swap in the same pool, the charge buys at least as     *)
(* much, and one unit less does not.  The two formulas round in opposite    *)
(* directions, twice each.                                                 *)
ChargeIsLeast(s, amount_out) ==
    LET bought(n) == ExactInputOut(reserve[s], reserve[Other(s)], fees, n)
        charge == ExactOutputIn(reserve[s], reserve[Other(s)], fees, amount_out)
    IN  /\ charge > 0
        /\ bought(charge) >= amount_out
        /\ bought(charge - 1) < amount_out
QuotesAgree ==
    pool_exists =>
        \A s \in Side : \A amount_out \in 1 .. (reserve[Other(s)] - 1) :
            ChargeIsLeast(s, amount_out)

(* Reserve and vault move by the same amount, so that no fee or rounding    *)
(* stays in a vault as a surplus the next sync would hand out.  A vault     *)
(* alone only grows, by a gift, and a reserve alone only catches up with    *)
(* its vault, by sync_reserves.                                            *)
MovedTogether ==
    \A s \in Side :
        LET moved == reserve'[s] - reserve[s]
            paid == balance'[s]["vault"] - balance[s]["vault"]
        IN  \/ moved = paid
            \/ moved = 0 /\ paid > 0
            \/ paid = 0 /\ reserve'[s] = balance[s]["vault"]
LedgerFollowsPool == [][MovedTogether]_vars

(* A public exact-input swap brings the oracle up to the clock.            *)
PublicSwapTicks == [][block_ts_last' = clock \/ ~DoSwapExactInput]_vars

(* The pool implements the oracle's specification.                         *)
OracleSpec == Oracle!Spec

=============================================================================
