----------------------------- MODULE SwapLedger -----------------------------
(***************************************************************************)
(* The accounts a chained swap touches and what it promises: one user's     *)
(* holdings and native balance, the user's single-use holdings, one pool of *)
(* a token against WLEZ with its vaults, and the vault and the definition   *)
(* of WLEZ.  AtomicSpec is the promise: the ledger changes by whole swaps   *)
(* between the user and the pool, that leave the single-use holdings as     *)
(* they were, and by what others do.                                       *)
(***************************************************************************)
EXTENDS AmmMath

CONSTANTS
    WLEZ_SIDE,      \* the pool's side that is WLEZ
    FEES,           \* the pool's fee tier
    InitialLedger,
    Amounts,        \* amounts a swap may name
    Limits,         \* min_amount_out a swap may name
    OthersAmounts   \* amounts of what others do

VARIABLE ledger     \* account -> balance, supply or pool definition

Side == {"A", "B"}
Other(s) == IF s = "A" THEN "B" ELSE "A"

User   == [A |-> "user_holding_a", B |-> "user_holding_b"]
Single == [A |-> "a_holding_a", B |-> "a_holding_b"]
Vault  == [A |-> "vault_a", B |-> "vault_b"]

Wlez == {"wlez_vault", "wlez_definition"}
Balance == Wlez \cup {"user_native"}
             \cup UNION {{User[s], Single[s], Vault[s]} : s \in Side}
Account == Balance \cup {"pool"}

PoolDefinition ==
    [reserve : [Side -> Amount], cum_volume : [Side -> Amount], cum_fees : [Side -> Amount]]

IsLedger(l) ==
    /\ DOMAIN l = Account
    /\ \A a \in Balance : l[a] \in Amount
    /\ l["pool"] \in PoolDefinition

(* The WLEZ held in the accounts above.                                    *)
Circulating(l) == l[User[WLEZ_SIDE]] + l[Single[WLEZ_SIDE]] + l[Vault[WLEZ_SIDE]]

(* The vaults can pay the reserves and every WLEZ there is.                 *)
Solvent(l) ==
    /\ \A s \in Side : l[Vault[s]] >= l["pool"].reserve[s]
    /\ l["wlez_vault"] >= l["wlez_definition"]
    /\ l["wlez_definition"] >= Circulating(l)

ASSUME SwapLedgerAssumption ==
    /\ WLEZ_SIDE \in Side
    /\ FEES \in FEE_TIERS
    /\ IsLedger(InitialLedger)
    /\ Solvent(InitialLedger)
    /\ Amounts \subseteq Amount
    /\ Limits \subseteq Amount
    /\ OthersAmounts \subseteq Amount \ {0}

-----------------------------------------------------------------------------
(* Pricing, on the definition of a pool.                                   *)

Out(pool, s, amount) ==
    ExactInputOut(pool.reserve[s], pool.reserve[Other(s)], FEES, amount)

Quote(pool, s, amount, limit) ==
    /\ ExactInputOk(pool.reserve[s], pool.reserve[Other(s)], FEES, amount)
    /\ Out(pool, s, amount) >= limit

CanApply(pool, s, deposit, withdraw) ==
    /\ Fits(pool.reserve[s] + deposit)
    /\ pool.reserve[Other(s)] >= withdraw

Applied(pool, s, deposit, withdraw) ==
    [reserve |-> [pool.reserve EXCEPT ![s] = @ + deposit,
                                      ![Other(s)] = @ - withdraw],
     cum_volume |-> [t \in Side |->
                        SaturatingAdd(pool.cum_volume[t],
                                      IF t = s THEN deposit ELSE withdraw)],
     cum_fees |-> [pool.cum_fees EXCEPT
                        ![s] = SaturatingAdd(@, RecordedFee(deposit, FEES))]]

-----------------------------------------------------------------------------
(* Whole swaps.                                                            *)

(* The pool's part of a swap, on a ledger.                                 *)
Swapped(l, s, amount, out) ==
    [l EXCEPT !["pool"] = Applied(@, s, amount, out),
              ![Vault[s]] = @ + amount,
              ![Vault[Other(s)]] = @ - out]

(* `amount` of LEZ is wrapped for somebody, or unwrapped.                   *)
Wrapped(l, amount) ==
    [l EXCEPT !["wlez_vault"] = @ + amount, !["wlez_definition"] = @ + amount]
Unwrapped(l, amount) ==
    [l EXCEPT !["wlez_vault"] = @ - amount, !["wlez_definition"] = @ - amount]

TokenSwap(s, amount, out) ==
    ledger' = [Swapped(ledger, s, amount, out) EXCEPT
                  ![User[s]] = @ - amount, ![User[Other(s)]] = @ + out]

NativeInSwap(amount, out) ==
    ledger' = [Wrapped(Swapped(ledger, WLEZ_SIDE, amount, out), amount) EXCEPT
                  !["user_native"] = @ - amount, ![User[Other(WLEZ_SIDE)]] = @ + out]

NativeOutSwap(amount, out) ==
    ledger' = [Unwrapped(Swapped(ledger, Other(WLEZ_SIDE), amount, out), out) EXCEPT
                  ![User[Other(WLEZ_SIDE)]] = @ - amount, !["user_native"] = @ + out]

WholeSwap ==
    \E s \in Side, amount \in Amounts :
        LET out == Out(ledger["pool"], s, amount)
        IN  \/ TokenSwap(s, amount, out)
            \/ s = WLEZ_SIDE /\ NativeInSwap(amount, out)
            \/ s # WLEZ_SIDE /\ NativeOutSwap(amount, out)

-----------------------------------------------------------------------------
(* What others do in the meantime: trade in the pool, give to any public    *)
(* holding, wrap and unwrap.  Their own balances are not modelled; WLEZ     *)
(* they spend is in the supply.                                            *)

OthersHave(s, amount) ==
    s = WLEZ_SIDE => Circulating(ledger) + amount <= ledger["wlez_definition"]

OthersSwap ==
    \E s \in Side, amount \in OthersAmounts :
        LET out == Out(ledger["pool"], s, amount)
        IN  /\ OthersHave(s, amount)
            /\ Quote(ledger["pool"], s, amount, 0)
            /\ CanApply(ledger["pool"], s, amount, out)
            /\ Fits(ledger[Vault[s]] + amount)
            /\ ledger[Vault[Other(s)]] >= out
            /\ ledger' = Swapped(ledger, s, amount, out)

OthersGive ==
    \E s \in Side, amount \in OthersAmounts : \E a \in {Vault[s], Single[s]} :
        /\ OthersHave(s, amount)
        /\ Fits(ledger[a] + amount)
        /\ ledger' = [ledger EXCEPT ![a] = @ + amount]

OthersWrap ==
    \E amount \in OthersAmounts :
        /\ \A a \in Wlez : Fits(ledger[a] + amount)
        /\ ledger' = Wrapped(ledger, amount)

OthersUnwrap ==
    \E amount \in OthersAmounts :
        /\ OthersHave(WLEZ_SIDE, amount)
        /\ \A a \in Wlez : ledger[a] >= amount
        /\ ledger' = Unwrapped(ledger, amount)

OthersStep == OthersSwap \/ OthersGive \/ OthersWrap \/ OthersUnwrap

AtomicInit == ledger = InitialLedger
AtomicSpec == AtomicInit /\ [][WholeSwap \/ OthersStep]_ledger

=============================================================================
