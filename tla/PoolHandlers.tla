---------------------------- MODULE PoolHandlers -----------------------------
(***************************************************************************)
(* What the programs do with a call as it arrives: a list of accounts in    *)
(* fixed positions, who signed, and amounts that belong to positions.  The  *)
(* handlers know a pool by its own order of legs and compare the vaults     *)
(* they are given with it; which of the caller's holdings goes with which   *)
(* leg they take from the position.  `p` is the pool they are shown, `b`    *)
(* the balances, `c` the call.                                             *)
(*                                                                         *)
(* The vaults hold what the pool counts (module Amm shows they never hold   *)
(* less).  WLEZ is wrapped LEZ, one to one (module Wlez), so that a native  *)
(* account is written as one more holding of WLEZ.                          *)
(***************************************************************************)
EXTENDS AmmMath, Sequences

CONSTANTS
    Tokens,   \* the pool's two token definitions
    WLEZ,     \* the one that is wrapped LEZ
    FEES      \* the pool's fee tier

ASSUME PoolHandlersAssumption ==
    /\ \E t, u \in Tokens : t # u /\ Tokens = {t, u}
    /\ WLEZ \in Tokens
    /\ FEES \in FEE_TIERS
    /\ "LP" \notin Tokens

Other(t) == CHOOSE u \in Tokens : u # t

(* Holdings of the user: public accounts with a key, associated token       *)
(* accounts of the owner, private notes, single-use public accounts and the *)
(* native account.                                                         *)
Holding ==
    [kind : {"key", "ata", "note"}, token : Tokens \cup {"LP"}]
        \cup [kind : {"once"}, token : Tokens]
        \cup [kind : {"native"}, token : {WLEZ}]

Of(kind, token) == [kind |-> kind, token |-> token]

Owner == Of("owner", "none")   \* signs for the associated token accounts

Absent == -1   \* the balance of an account that was never initialised

NoPool == [exists |-> FALSE, legs |-> <<>>, reserve |-> [t \in Tokens |-> 0],
           supply |-> 0, ata_pinned |-> FALSE]

-----------------------------------------------------------------------------
(* Chained token calls.                                                    *)

(* Who may spend: a signer, or through the ATA program the owner.           *)
Authorised(c, h) ==
    IF c.via = "ata" THEN h.kind = "ata" /\ Owner \in c.signers
    ELSE h \in c.signers

CanPay(c, b, h, token, amount) ==
    h.token = token /\ b[h] >= amount /\ Authorised(c, h)

(* A fresh account has to be claimed by its own signature.                  *)
CanGet(c, b, h, token) ==
    h.token = token /\ (b[h] = Absent => h \in c.signers)

Pays(b, h, amount) == [b EXCEPT ![h] = @ - amount]
Gets(b, h, amount) == [b EXCEPT ![h] = IF @ = Absent THEN amount ELSE @ + amount]

-----------------------------------------------------------------------------
(* Swaps.                                                                  *)

Priced(p, c) ==
    LET r_in == p.reserve[c.in]
        r_out == p.reserve[Other(c.in)]
    IN  \/ /\ c.op = "swap_in"
           /\ ExactInputOk(r_in, r_out, FEES, c.amount)
           /\ c.limit <= ExactInputOut(r_in, r_out, FEES, c.amount)
        \/ /\ c.op = "swap_out"
           /\ ExactOutputOk(r_in, r_out, c.amount)
           /\ ExactOutputIn(r_in, r_out, FEES, c.amount) <= c.limit

Deposit(p, c) ==
    IF c.op = "swap_in" THEN c.amount
    ELSE ExactOutputIn(p.reserve[c.in], p.reserve[Other(c.in)], FEES, c.amount)

Withdraw(p, c) ==
    IF c.op = "swap_out" THEN c.amount
    ELSE ExactInputOut(p.reserve[c.in], p.reserve[Other(c.in)], FEES, c.amount)

(* The holding a handler pairs with a token: the one in the leg's position, *)
(* except in the native swaps, whose list names the incoming side first.    *)
UserLeg(p, c, token) ==
    IF c.via = "native" THEN c.users[IF token = c.in THEN 1 ELSE 2]
    ELSE c.users[CHOOSE i \in 1 .. 2 : p.legs[i] = token]

(* Disposable swaps pass through the single-use holdings.                   *)
Through(c) == c.via \in {"once", "native"}
Payer(p, c) == IF Through(c) THEN c.ends[1] ELSE UserLeg(p, c, c.in)
Payee(p, c) == IF Through(c) THEN c.ends[2] ELSE UserLeg(p, c, Other(c.in))

(* What every handler of an existing pool looks at first.                   *)
PoolAccountsMatch(p, b, c) ==
    /\ p.exists
    /\ c.vaults = p.legs
    /\ c.via = "ata" => p.ata_pinned
    /\ \A i \in 1 .. 2 : b[c.users[i]] # Absent

SwapOk(p, b, c) ==
    /\ PoolAccountsMatch(p, b, c)
    /\ p.supply >= MINIMUM_LIQUIDITY
    /\ Priced(p, c)
    /\ \A t \in Tokens : UserLeg(p, c, t).token = t
    /\ Through(c) => \A i \in 1 .. 2 : c.users[i] \in c.signers
    /\ CanPay(c, b, Payer(p, c), c.in, Deposit(p, c))
    /\ CanGet(c, b, Payee(p, c), Other(c.in))
    /\ Fits(p.reserve[c.in] + Deposit(p, c))

SwapDone(p, b, c) ==
    [pool |-> [p EXCEPT !.reserve[c.in] = @ + Deposit(p, c),
                        !.reserve[Other(c.in)] = @ - Withdraw(p, c)],
     bal |-> Gets(Pays(b, Payer(p, c), Deposit(p, c)), Payee(p, c), Withdraw(p, c))]

-----------------------------------------------------------------------------
(* Liquidity.  i is a position; 3 - i the other.                            *)

ReserveAt(p, i) == p.reserve[p.legs[i]]

DepositAt(p, c, i) ==
    ActualDeposit(ReserveAt(p, i), ReserveAt(p, 3 - i), c.caps[i], c.caps[3 - i])

LpFor(p, c) ==
    LpMinted(p.supply, ReserveAt(p, 1), ReserveAt(p, 2),
             DepositAt(p, c, 1), DepositAt(p, c, 2))

AddOk(p, b, c) ==
    /\ PoolAccountsMatch(p, b, c)
    /\ c.via = "ata" => b[c.lp] # Absent
    /\ \A i \in 1 .. 2 :
        /\ c.caps[i] # 0
        /\ ReserveAt(p, i) # 0
        /\ Fits(ReserveAt(p, i) * c.caps[3 - i])
        /\ DepositAt(p, c, i) # 0
        /\ Fits(p.supply * DepositAt(p, c, i))
        /\ Fits(ReserveAt(p, i) + DepositAt(p, c, i))
        /\ CanPay(c, b, c.users[i], p.legs[i], DepositAt(p, c, i))
    /\ LpFor(p, c) # 0
    /\ LpFor(p, c) >= c.limit
    /\ Fits(p.supply + LpFor(p, c))
    /\ CanGet(c, b, c.lp, "LP")

AddDone(p, b, c) ==
    [pool |-> [p EXCEPT
        !.reserve = [t \in Tokens |->
                       @[t] + DepositAt(p, c, CHOOSE i \in 1 .. 2 : p.legs[i] = t)],
        !.supply = @ + LpFor(p, c)],
     bal |-> Gets(Pays(Pays(b, c.users[1], DepositAt(p, c, 1)),
                       c.users[2], DepositAt(p, c, 2)),
                  c.lp, LpFor(p, c))]

WithdrawAt(p, c, i) == Share(ReserveAt(p, i), c.amount, p.supply)

RemoveOk(p, b, c) ==
    /\ PoolAccountsMatch(p, b, c)
    /\ b[c.lp] <= p.supply
    /\ p.supply > MINIMUM_LIQUIDITY
    /\ c.amount <= p.supply - MINIMUM_LIQUIDITY
    /\ CanPay(c, b, c.lp, "LP", c.amount)
    /\ \A i \in 1 .. 2 :
        /\ c.caps[i] # 0
        /\ Fits(ReserveAt(p, i) * c.amount)
        /\ WithdrawAt(p, c, i) >= c.caps[i]
        /\ CanGet(c, b, c.users[i], p.legs[i])

RemoveDone(p, b, c) ==
    [pool |-> [p EXCEPT
        !.reserve = [t \in Tokens |->
                       @[t] - WithdrawAt(p, c, CHOOSE i \in 1 .. 2 : p.legs[i] = t)],
        !.supply = @ - c.amount],
     bal |-> Gets(Gets(Pays(b, c.lp, c.amount), c.users[1], WithdrawAt(p, c, 1)),
                  c.users[2], WithdrawAt(p, c, 2))]

(* A pool takes the order of legs of the call that creates it.  The deposits *)
(* are signed for in every variant; amm_v2 creates the LP account of the    *)
(* owner on the way.                                                       *)
InitialLp(c) == CHOOSE n \in 0 .. U128_MAX : IsISqrt(n, c.caps[1] * c.caps[2])

NewOk(p, b, c) ==
    /\ ~p.exists
    /\ c.vaults = <<c.users[1].token, c.users[2].token>>
    /\ c.users[1].token # c.users[2].token
    /\ Fits(c.caps[1] * c.caps[2])
    /\ InitialLp(c) > MINIMUM_LIQUIDITY
    /\ \A i \in 1 .. 2 : /\ c.caps[i] # 0
                         /\ c.users[i] \in c.signers
                         /\ b[c.users[i]] >= c.caps[i]
    /\ c.lp \in c.signers \/ c.via = "ata"

NewDone(p, b, c) ==
    [pool |-> [exists |-> TRUE, legs |-> c.vaults,
               reserve |-> [t \in Tokens |->
                              c.caps[CHOOSE i \in 1 .. 2 : c.vaults[i] = t]],
               supply |-> InitialLp(c), ata_pinned |-> c.pin],
     bal |-> Gets(Pays(Pays(b, c.users[1], c.caps[1]), c.users[2], c.caps[2]),
                  c.lp, InitialLp(c) - MINIMUM_LIQUIDITY)]

-----------------------------------------------------------------------------
(* The token, ATA and WLEZ programs called directly.                        *)

TransferOk(b, c) ==
    /\ c.via \in {"ata", "wlez"} => b[c.ends[2]] # Absent
    /\ CanPay(c, b, c.ends[1], c.in, c.amount)
    /\ CanGet(c, b, c.ends[2], c.in)

TransferDone(p, b, c) ==
    [pool |-> p, bal |-> Gets(Pays(b, c.ends[1], c.amount), c.ends[2], c.amount)]

(* The definition has to exist.  The ATA program creates an account without *)
(* the account's signature and leaves one that exists as it is.             *)
InitOk(p, b, c) ==
    /\ c.in = "LP" => p.exists
    /\ \/ c.via = "ata"
       \/ b[c.ends[1]] = Absent /\ c.ends[1] \in c.signers

InitDone(p, b, c) ==
    [pool |-> p, bal |-> IF b[c.ends[1]] = Absent THEN [b EXCEPT ![c.ends[1]] = 0] ELSE b]

-----------------------------------------------------------------------------
HandlerOk(p, b, c) ==
    \/ c.op \in {"swap_in", "swap_out"} /\ SwapOk(p, b, c)
    \/ c.op = "add" /\ AddOk(p, b, c)
    \/ c.op = "remove" /\ RemoveOk(p, b, c)
    \/ c.op = "new" /\ NewOk(p, b, c)
    \/ c.op = "transfer" /\ TransferOk(b, c)
    \/ c.op = "init" /\ InitOk(p, b, c)

After(p, b, c) ==
    CASE c.op \in {"swap_in", "swap_out"} -> SwapDone(p, b, c)
      [] c.op = "add" -> AddDone(p, b, c)
      [] c.op = "remove" -> RemoveDone(p, b, c)
      [] c.op = "new" -> NewDone(p, b, c)
      [] c.op = "transfer" -> TransferDone(p, b, c)
      [] c.op = "init" -> InitDone(p, b, c)

=============================================================================
