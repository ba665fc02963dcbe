-------------------------------- MODULE Wlez --------------------------------
(***************************************************************************)
(* The WLEZ program: native LEZ escrowed in a vault, one for one against    *)
(* tokens of the WLEZ definition, so that the pools can trade it.           *)
(*                                                                         *)
(* Wrap and Unwrap are atomic with the calls they chain.  Two instructions  *)
(* of other programs reach the same accounts: a native transfer to the     *)
(* vault, which needs no consent of the receiver, and token::Burn, which    *)
(* any holder may call on a holding without asking for the LEZ back.        *)
(* The programs that Initialize pins are the real ones.                    *)
(***************************************************************************)
EXTENDS U128, FiniteSetsExt

CONSTANTS
    Users,
    InitialNative,  \* native LEZ of each user
    LezAmounts      \* amounts an instruction may name

ASSUME WlezAssumption ==
    /\ InitialNative \in [Users -> Amount]
    /\ LezAmounts \subseteq Amount

(* What all users have together.                                           *)
Held(f) == MapThenSumSet(LAMBDA u : f[u], Users)

(* There are finitely many accounts, and LEZ in all is a u128.             *)
ASSUME LezAssumption == IsFiniteSet(Users) /\ Held(InitialNative) \in Amount

VARIABLES
    initialised,    \* the vault and the WLEZ definition are claimed
    vault,          \* native balance of the vault
    total_supply,   \* of the WLEZ definition
    user_native,    \* native balances of the users
    user_holding,   \* WLEZ balances of the users
    holding_exists  \* users with an initialised WLEZ holding

wlezVars == <<initialised, vault, total_supply, user_native, user_holding, holding_exists>>

WlezInit ==
    /\ initialised = FALSE
    /\ vault = 0
    /\ total_supply = 0
    /\ user_native = InitialNative
    /\ user_holding = [u \in Users |-> 0]
    /\ holding_exists = {}

(* A first call claims the vault and creates the definition with supply 0;  *)
(* every later one is a no-op.                                             *)
Initialize ==
    \/ /\ initialised
       /\ UNCHANGED wlezVars
    \/ /\ ~initialised
       /\ initialised' = TRUE
       /\ total_supply' = 0
       /\ UNCHANGED <<vault, user_native, user_holding, holding_exists>>

(* token::InitializeAccount for the WLEZ definition.                       *)
CreateHolding(u) ==
    /\ initialised
    /\ u \notin holding_exists
    /\ holding_exists' = holding_exists \cup {u}
    /\ UNCHANGED <<initialised, vault, total_supply, user_native, user_holding>>

(* Variant: the WLEZ is minted and the vault credited, u is not debited.    *)
WrapUnpaid(u, to, amount) ==
    /\ initialised
    /\ amount # 0
    /\ to \in holding_exists
    /\ Fits(vault + amount)
    /\ Fits(user_holding[to] + amount)
    /\ Fits(total_supply + amount)
    /\ vault' = vault + amount
    /\ user_holding' = [user_holding EXCEPT ![to] = @ + amount]
    /\ total_supply' = total_supply + amount
    /\ UNCHANGED <<initialised, user_native, holding_exists>>

(* Native transfer u -> vault, then Mint to `to`.                          *)
Wrap(u, to, amount) ==
    /\ initialised
    /\ amount # 0
    /\ to \in holding_exists
    /\ user_native[u] >= amount
    /\ Fits(vault + amount)
    /\ Fits(user_holding[to] + amount)
    /\ Fits(total_supply + amount)
    /\ user_native' = [user_native EXCEPT ![u] = @ - amount]
    /\ vault' = vault + amount
    /\ user_holding' = [user_holding EXCEPT ![to] = @ + amount]
    /\ total_supply' = total_supply + amount
    /\ UNCHANGED <<initialised, holding_exists>>

(* Variant: the chained Burn is forgotten.                                 *)
UnwrapUnburnt(u, to, amount) ==
    /\ initialised
    /\ amount # 0
    /\ u \in holding_exists
    /\ vault >= amount
    /\ Fits(user_native[to] + amount)
    /\ vault' = vault - amount
    /\ user_native' = [user_native EXCEPT ![to] = @ + amount]
    /\ UNCHANGED <<initialised, total_supply, user_holding, holding_exists>>

(* The vault and the native account are written directly, then Burn.       *)
Unwrap(u, to, amount) ==
    /\ initialised
    /\ amount # 0
    /\ u \in holding_exists
    /\ vault >= amount
    /\ Fits(user_native[to] + amount)
    /\ user_holding[u] >= amount
    /\ total_supply >= amount
    /\ vault' = vault - amount
    /\ user_native' = [user_native EXCEPT ![to] = @ + amount]
    /\ user_holding' = [user_holding EXCEPT ![u] = @ - amount]
    /\ total_supply' = total_supply - amount
    /\ UNCHANGED <<initialised, holding_exists>>

TransferToVault(u, amount) ==
    /\ initialised
    /\ user_native[u] >= amount
    /\ Fits(vault + amount)
    /\ user_native' = [user_native EXCEPT ![u] = @ - amount]
    /\ vault' = vault + amount
    /\ UNCHANGED <<initialised, total_supply, user_holding, holding_exists>>

TransferWlez(from, to, amount) ==
    /\ from # to
    /\ {from, to} \subseteq holding_exists
    /\ user_holding[from] >= amount
    /\ Fits(user_holding[to] + amount)
    /\ user_holding' = [user_holding EXCEPT ![from] = @ - amount, ![to] = @ + amount]
    /\ UNCHANGED <<initialised, vault, total_supply, user_native, holding_exists>>

BurnWlez(u, amount) ==
    /\ u \in holding_exists
    /\ user_holding[u] >= amount
    /\ total_supply >= amount
    /\ user_holding' = [user_holding EXCEPT ![u] = @ - amount]
    /\ total_supply' = total_supply - amount
    /\ UNCHANGED <<initialised, vault, user_native, holding_exists>>

WlezNext ==
    \/ Initialize
    \/ \E u \in Users : CreateHolding(u)
    \/ \E u, to \in Users, amount \in LezAmounts :
        \/ Wrap(u, to, amount)
        \/ Unwrap(u, to, amount)
        \/ TransferWlez(u, to, amount)
    \/ \E u \in Users, amount \in LezAmounts :
        \/ TransferToVault(u, amount)
        \/ BurnWlez(u, amount)

WlezSpec == WlezInit /\ [][WlezNext]_wlezVars

-----------------------------------------------------------------------------
(* Properties *)

WlezTypeOK ==
    /\ initialised \in BOOLEAN
    /\ vault \in Amount
    /\ total_supply \in Amount
    /\ user_native \in [Users -> Amount]
    /\ user_holding \in [Users -> Amount]
    /\ holding_exists \subseteq Users

(* Every WLEZ is backed: the vault can redeem the whole supply, whatever is *)
(* given to the vault or burnt on the side.                                *)
VaultBacksSupply == vault >= total_supply

(* No holder is ever stuck: what all holders have together is the supply,   *)
(* so that unwrap's checks on the vault, the supply and the receiver's      *)
(* balance cannot refuse an amount the holder has.                         *)
AlwaysRedeemable ==
    /\ Held(user_holding) = total_supply
    /\ \A u, to \in Users : user_holding[u] > 0 =>
        /\ vault >= user_holding[u]
        /\ u \in holding_exists
        /\ Fits(user_native[to] + user_holding[u])

(* LEZ is neither made nor lost: wrapping moves it to the vault and back.   *)
NativeConserved == vault + Held(user_native) = Held(InitialNative)

=============================================================================
