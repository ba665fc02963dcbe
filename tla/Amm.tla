--------------------------------- MODULE Amm ---------------------------------
(***************************************************************************)
(* One constant-product pool of the amm program, with the token ledger it   *)
(* moves and the on-chain clock.  A transaction is atomic on the sequencer: *)
(* an instruction whose checks all pass applies its own account writes and  *)
(* its chained token calls together, and any panic, its own or a chained    *)
(* call's, reverts everything.  An action is therefore a whole instruction, *)
(* and its guards are the checks of the handler and of the calls it chains. *)
(*                                                                         *)
(* USES_CLOCK = FALSE is the amm_v2 deployment, which runs the same         *)
(* handlers with 0 for the clock.                                          *)
(***************************************************************************)
EXTENDS AmmMath, Sequences, FiniteSets

CONSTANTS
    Users,            \* owners of token holdings
    InitialBalance,   \* what each user holds of A and of B
    Q64,              \* the oracle's constants, see PoolOracle
    ORACLE_RING_CAP,
    USES_CLOCK,
    MaxClock,
    Amounts,          \* amounts a transaction may name
    Limits            \* min_amount_* and max_amount_* a transaction may name

VARIABLES
    pool_exists,            \* the pool account holds a PoolDefinition
    fees,                   \* its fee tier, in basis points
    reserve,                \* reserve_a, reserve_b
    liquidity_pool_supply,  \* LP supply as the pool counts it
    cum_volume,             \* cum_volume_a, cum_volume_b
    cum_fees,               \* cum_fees_a, cum_fees_b
    price_cum_last,         \* the oracle, see PoolOracle
    block_ts_last,
    obs,
    balance,                \* token holdings: token -> holder -> amount
    lp_total_supply,        \* total_supply of the LP token definition
    clock                   \* timestamp in the clock account

oracleVars == <<price_cum_last, block_ts_last, obs>>
counterVars == <<cum_volume, cum_fees>>
ledgerVars == <<balance, lp_total_supply>>
vars == <<pool_exists, fees, reserve, liquidity_pool_supply, counterVars,
          oracleVars, ledgerVars, clock>>

Oracle == INSTANCE PoolOracle WITH ReserveValues <- Nat

(* Variant: the timestamp advances, the interval is not accumulated.       *)
TickWithoutAccumulating == Oracle!Rebase(Oracle!ClockArg)

(* Every public handler accumulates at the reserves it found.              *)
TickOracle == Oracle!OracleUpdate(Oracle!ClockArg)

Side == {"A", "B"}
Other(s) == IF s = "A" THEN "B" ELSE "A"

Token == Side \cup {"LP"}
Holder == Users \cup {"vault", "lock"}

ASSUME AmmAssumption ==
    /\ Q64 \in Nat \ {0}
    /\ ORACLE_RING_CAP \in Nat \ {0}
    /\ USES_CLOCK \in BOOLEAN
    /\ MaxClock \in Nat
    /\ IsFiniteSet(Users)
    /\ {"vault", "lock"} \cap Users = {}
    /\ InitialBalance \in [Users -> [Side -> Amount]]
    /\ Amounts \subseteq Amount
    /\ Limits \subseteq Amount

-----------------------------------------------------------------------------
(* The token ledger: token::Transfer.  A holding accepts its own token      *)
(* only, and only users and, through the pool's seeds, the vaults may send. *)

(* Variant: the sender's checked_sub as a plain subtraction.               *)
CanMoveUnchecked(token, from, to, amount) == Fits(balance[token][to] + amount)

CanMove(token, from, to, amount) ==
    /\ balance[token][from] >= amount
    /\ Fits(balance[token][to] + amount)

Moved(ledger, token, from, to, amount) ==
    [ledger EXCEPT ![token][from] = @ - amount, ![token][to] = @ + amount]

Credited(ledger, token, to, amount) ==
    [ledger EXCEPT ![token][to] = @ + amount]

(* Variant: the chained token::Burn is forgotten.                           *)
NotDebited(ledger, token, from, amount) == ledger

Debited(ledger, token, from, amount) ==
    [ledger EXCEPT ![token][from] = @ - amount]

(* Holdings a token may be sent to: the lock is an LP holding and the       *)
(* vaults hold A and B.                                                    *)
Recipients(token) == Users \cup (IF token = "LP" THEN {"lock"} ELSE {"vault"})

-----------------------------------------------------------------------------
(* validate_swap_setup and the same checks in the other handlers.          *)

VaultsCoverReserves == \A s \in Side : balance[s]["vault"] >= reserve[s]

SwapSetup ==
    /\ pool_exists
    /\ liquidity_pool_supply >= MINIMUM_LIQUIDITY
    /\ VaultsCoverReserves

(* Variants: the outgoing reserve is left alone; the fee stays out of the  *)
(* reserve, as a surplus of the vault.                                     *)
ApplySwapOneSided(s, deposit, withdraw) ==
    /\ Fits(reserve[s] + deposit)
    /\ reserve' = [reserve EXCEPT ![s] = @ + deposit]
    /\ UNCHANGED counterVars

ApplySwapNetOfFee(s, deposit, withdraw) ==
    /\ Fits(reserve[s] + deposit)
    /\ reserve[Other(s)] >= withdraw
    /\ reserve' = [reserve EXCEPT ![s] = @ + deposit - RecordedFee(deposit, fees),
                                  ![Other(s)] = @ - withdraw]
    /\ UNCHANGED counterVars

(* apply_swap_to_pool_def: `deposit` of token s comes in, `withdraw` of the *)
(* other goes out.  The fee stays in the reserve.                          *)
ApplySwapToPoolDef(s, deposit, withdraw) ==
    /\ Fits(reserve[s] + deposit)
    /\ reserve[Other(s)] >= withdraw
    /\ reserve' = [reserve EXCEPT ![s] = @ + deposit,
                                  ![Other(s)] = @ - withdraw]
    /\ cum_volume' = [t \in Side |->
                        SaturatingAdd(cum_volume[t],
                                      IF t = s THEN deposit ELSE withdraw)]
    /\ cum_fees' = [cum_fees EXCEPT
                        ![s] = SaturatingAdd(@, RecordedFee(deposit, fees))]

SwapTransfers(payer, recipient, s, deposit, withdraw) ==
    /\ CanMove(s, payer, "vault", deposit)
    /\ CanMove(Other(s), "vault", recipient, withdraw)
    /\ balance' = Moved(Moved(balance, s, payer, "vault", deposit),
                        Other(s), "vault", recipient, withdraw)
    /\ UNCHANGED lp_total_supply

(* swap_logic and its caller, without the oracle update.                   *)
ExactInput(payer, recipient, s, swap_amount_in, min_amount_out) ==
    LET out == ExactInputOut(reserve[s], reserve[Other(s)], fees, swap_amount_in)
    IN  /\ SwapSetup
        /\ ExactInputOk(reserve[s], reserve[Other(s)], fees, swap_amount_in)
        /\ min_amount_out <= out
        /\ SwapTransfers(payer, recipient, s, swap_amount_in, out)
        /\ ApplySwapToPoolDef(s, swap_amount_in, out)
        /\ UNCHANGED <<pool_exists, fees, liquidity_pool_supply, clock>>

-----------------------------------------------------------------------------
Init ==
    /\ pool_exists = FALSE
    /\ fees = 0
    /\ reserve = [s \in Side |-> 0]
    /\ liquidity_pool_supply = 0
    /\ cum_volume = [s \in Side |-> 0]
    /\ cum_fees = [s \in Side |-> 0]
    /\ price_cum_last = [s \in Side |-> 0]
    /\ block_ts_last = 0
    /\ obs = <<>>
    /\ balance = [t \in Token |-> [h \in Holder |->
                    IF t \in Side /\ h \in Users THEN InitialBalance[h][t] ELSE 0]]
    /\ lp_total_supply = 0
    /\ clock = 0

AdvanceClock ==
    /\ clock < MaxClock
    /\ clock' = clock + 1
    /\ UNCHANGED <<pool_exists, fees, reserve, liquidity_pool_supply,
                   counterVars, oracleVars, ledgerVars>>

(* Variant: the first provider gets the whole supply.                      *)
LpUnlocked(ledger, user, initial_lp) == Credited(ledger, "LP", user, initial_lp)

(* The LP definition is created with the locked minimum, the rest of the    *)
(* integer square root of the product is minted to the user.               *)
LpLocked(ledger, user, initial_lp) ==
    Credited(Credited(ledger, "LP", "lock", MINIMUM_LIQUIDITY),
             "LP", user, initial_lp - MINIMUM_LIQUIDITY)

NewDefinition(user, amount_a, amount_b, tier) ==
    /\ ~pool_exists
    /\ amount_a # 0
    /\ amount_b # 0
    /\ tier \in FEE_TIERS
    /\ Fits(amount_a * amount_b)
    /\ CanMove("A", user, "vault", amount_a)
    /\ CanMove("B", user, "vault", amount_b)
    /\ \E initial_lp \in Amount :
        /\ IsISqrt(initial_lp, amount_a * amount_b)
        /\ initial_lp > MINIMUM_LIQUIDITY
        /\ liquidity_pool_supply' = initial_lp
        /\ lp_total_supply' = initial_lp
        /\ balance' =
              LpLocked(Moved(Moved(balance, "A", user, "vault", amount_a),
                             "B", user, "vault", amount_b),
                       user, initial_lp)
    /\ pool_exists' = TRUE
    /\ fees' = tier
    /\ reserve' = [s \in Side |-> IF s = "A" THEN amount_a ELSE amount_b]
    /\ cum_volume' = [s \in Side |-> 0]
    /\ cum_fees' = [s \in Side |-> 0]
    /\ price_cum_last' = [s \in Side |-> 0]
    /\ block_ts_last' = Oracle!ClockArg
    /\ obs' = <<>>
    /\ UNCHANGED clock

(* The deposit is the largest, within the user's maxima, at the pool's      *)
(* price; the LP minted is the smaller share of the two.                   *)
AddLiquidity(payer, recipient, max_a, max_b, min_lp) ==
    LET deposit == [s \in Side |->
                      IF s = "A"
                      THEN ActualDeposit(reserve["A"], reserve["B"], max_a, max_b)
                      ELSE ActualDeposit(reserve["B"], reserve["A"], max_b, max_a)]
        delta_lp == LpMinted(liquidity_pool_supply, reserve["A"], reserve["B"],
                             deposit["A"], deposit["B"])
    IN  /\ pool_exists
        /\ max_a # 0
        /\ max_b # 0
        /\ VaultsCoverReserves
        /\ \A s \in Side : reserve[s] # 0
        /\ Fits(reserve["A"] * max_b)
        /\ Fits(reserve["B"] * max_a)
        /\ \A s \in Side : /\ deposit[s] # 0
                           /\ Fits(liquidity_pool_supply * deposit[s])
                           /\ Fits(reserve[s] + deposit[s])
        /\ delta_lp # 0
        /\ delta_lp >= min_lp
        /\ Fits(liquidity_pool_supply + delta_lp)
        /\ Fits(lp_total_supply + delta_lp)
        /\ Fits(balance["LP"][recipient] + delta_lp)
        /\ \A s \in Side : CanMove(s, payer, "vault", deposit[s])
        /\ TickOracle
        /\ liquidity_pool_supply' = liquidity_pool_supply + delta_lp
        /\ lp_total_supply' = lp_total_supply + delta_lp
        /\ reserve' = [s \in Side |-> reserve[s] + deposit[s]]
        /\ balance' =
              Credited(Moved(Moved(balance, "A", payer, "vault", deposit["A"]),
                             "B", payer, "vault", deposit["B"]),
                       "LP", recipient, delta_lp)
        /\ UNCHANGED <<pool_exists, fees, counterVars, clock>>

RemoveLiquidity(user, recipient, amount, min_a, min_b) ==
    LET withdraw == [s \in Side |->
                       Share(reserve[s], amount, liquidity_pool_supply)]
    IN  /\ pool_exists
        /\ amount # 0
        /\ min_a # 0
        /\ min_b # 0
        /\ balance["LP"][user] <= liquidity_pool_supply
        /\ liquidity_pool_supply > MINIMUM_LIQUIDITY
        /\ amount <= balance["LP"][user]
        /\ amount <= liquidity_pool_supply - MINIMUM_LIQUIDITY
        /\ \A s \in Side : Fits(reserve[s] * amount)
        /\ withdraw["A"] >= min_a
        /\ withdraw["B"] >= min_b
        /\ lp_total_supply >= amount
        /\ \A s \in Side : CanMove(s, "vault", recipient, withdraw[s])
        /\ TickOracle
        /\ liquidity_pool_supply' = liquidity_pool_supply - amount
        /\ lp_total_supply' = lp_total_supply - amount
        /\ reserve' = [s \in Side |-> reserve[s] - withdraw[s]]
        /\ balance' =
              Debited(Moved(Moved(balance, "A", "vault", recipient, withdraw["A"]),
                            "B", "vault", recipient, withdraw["B"]),
                      "LP", user, amount)
        /\ UNCHANGED <<pool_exists, fees, counterVars, clock>>

SwapExactInput(payer, recipient, s, swap_amount_in, min_amount_out) ==
    /\ ExactInput(payer, recipient, s, swap_amount_in, min_amount_out)
    /\ TickOracle

(* The variant that privacy transactions chain: no clock, no oracle.       *)
SwapExactInputCircuit(payer, recipient, s, swap_amount_in, min_amount_out) ==
    /\ ExactInput(payer, recipient, s, swap_amount_in, min_amount_out)
    /\ UNCHANGED oracleVars

SwapExactOutput(payer, recipient, s, exact_amount_out, max_amount_in) ==
    LET deposit == ExactOutputIn(reserve[s], reserve[Other(s)], fees,
                                 exact_amount_out)
    IN  /\ SwapSetup
        /\ ExactOutputOk(reserve[s], reserve[Other(s)], exact_amount_out)
        /\ deposit <= max_amount_in
        /\ SwapTransfers(payer, recipient, s, deposit, exact_amount_out)
        /\ TickOracle
        /\ ApplySwapToPoolDef(s, deposit, exact_amount_out)
        /\ UNCHANGED <<pool_exists, fees, liquidity_pool_supply, clock>>

(* Anyone may let the pool count what was sent to its vaults.              *)
SyncReserves ==
    /\ SwapSetup
    /\ TickOracle
    /\ reserve' = [s \in Side |-> balance[s]["vault"]]
    /\ UNCHANGED <<pool_exists, fees, liquidity_pool_supply, counterVars,
                   ledgerVars, clock>>

(* Token instructions that users send on their own and the pool never sees: *)
(* token::Transfer, to a vault or the lock too, and token::Burn of LP.  The *)
(* vaults and the lock exist once the pool does.                           *)
TokenTransfer(token, from, to, amount) ==
    /\ from # to
    /\ to \in Recipients(token)
    /\ to \notin Users => pool_exists
    /\ CanMove(token, from, to, amount)
    /\ balance' = Moved(balance, token, from, to, amount)
    /\ UNCHANGED <<pool_exists, fees, reserve, liquidity_pool_supply,
                   counterVars, oracleVars, lp_total_supply, clock>>

BurnLp(user, amount) ==
    /\ pool_exists
    /\ balance["LP"][user] >= amount
    /\ lp_total_supply >= amount
    /\ lp_total_supply' = lp_total_supply - amount
    /\ balance' = Debited(balance, "LP", user, amount)
    /\ UNCHANGED <<pool_exists, fees, reserve, liquidity_pool_supply,
                   counterVars, oracleVars, clock>>

-----------------------------------------------------------------------------
DoNewDefinition ==
    \E user \in Users, amount_a, amount_b \in Amounts, tier \in FEE_TIERS :
        NewDefinition(user, amount_a, amount_b, tier)

DoAddLiquidity ==
    \E payer \in Users, recipient \in Recipients("LP"),
       max_a, max_b \in Amounts, min_lp \in Limits :
        AddLiquidity(payer, recipient, max_a, max_b, min_lp)

DoRemoveLiquidity ==
    \E user, recipient \in Users, amount \in Amounts, min_a, min_b \in Limits :
        RemoveLiquidity(user, recipient, amount, min_a, min_b)

DoSwapExactInput ==
    \E payer, recipient \in Users, s \in Side, n \in Amounts, limit \in Limits :
        SwapExactInput(payer, recipient, s, n, limit)

DoSwapExactInputCircuit ==
    \E payer, recipient \in Users, s \in Side, n \in Amounts, limit \in Limits :
        SwapExactInputCircuit(payer, recipient, s, n, limit)

DoSwapExactOutput ==
    \E payer, recipient \in Users, s \in Side, n \in Amounts, limit \in Limits :
        SwapExactOutput(payer, recipient, s, n, limit)

DoTokenTransfer ==
    \E token \in Token, from \in Users, to \in Holder, n \in Amounts :
        TokenTransfer(token, from, to, n)

DoBurnLp == \E user \in Users, n \in Amounts : BurnLp(user, n)

Next ==
    \/ AdvanceClock
    \/ DoNewDefinition
    \/ DoAddLiquidity
    \/ DoRemoveLiquidity
    \/ DoSwapExactInput
    \/ DoSwapExactInputCircuit
    \/ DoSwapExactOutput
    \/ SyncReserves
    \/ DoTokenTransfer
    \/ DoBurnLp

Spec == Init /\ [][Next]_vars

=============================================================================
