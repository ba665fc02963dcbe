------------------------------ MODULE FfiCalls -------------------------------
(***************************************************************************)
(* The entry points of the FFI in front of one pool.  A caller names the    *)
(* two tokens in whatever order it likes, with amounts and limits in that   *)
(* order; the programs know the pool by the order of its creator.  Every    *)
(* entry point reads what it needs from the chain, puts accounts, amounts   *)
(* and signers in their positions, and sends one transaction.  It waits for *)
(* a while and then reports a failure, whether or not the transaction is    *)
(* still on its way, so that calls may overlap; and between the reading and *)
(* the inclusion others trade, create the pool, and blocks pass.           *)
(*                                                                         *)
(* An entry point that returns an error before it sends anything is an      *)
(* action that is not enabled.                                             *)
(***************************************************************************)
EXTENDS PoolHandlers, SequencesExt, Functions

CONSTANTS
    Worlds,             \* pools and balances to begin with
    SwapRequests,       \* what callers ask for
    LiquidityRequests,
    TransferAmounts,
    OthersAmounts,      \* amounts others trade
    MaxCalls, MaxInFlight, MaxOthers, MaxClock   \* bounds

(* The two tokens in some order (no pool has an address for a token with    *)
(* itself), and what a caller may ask for.                                 *)
Orders == {o \in Tokens \X Tokens : o[1] # o[2]}
Request == [pair : Orders, in : Tokens, amount : Amount, limit : Amount,
            caps : Amount \X Amount]

(* A pool that exists.  It is never drained, and the lock is never burned.  *)
PoolDefinition ==
    [exists : {TRUE}, legs : Orders, reserve : [Tokens -> Amount \ {0}],
     supply : MINIMUM_LIQUIDITY .. U128_MAX, ata_pinned : BOOLEAN]

(* What holdings b have of a token.                                         *)
UnitsIn(b, h) == IF b[h] = Absent THEN 0 ELSE b[h]
OfToken(t) == {h \in Holding : h.token = t}
Outside(b, t) ==
    LET units == [h \in Holding |-> UnitsIn(b, h)]
    IN  MapThenSumSet(LAMBDA h : units[h], OfToken(t))

ASSUME FfiAssumption ==
    /\ {MaxCalls, MaxInFlight, MaxOthers, MaxClock} \subseteq Nat
    /\ SwapRequests \cup LiquidityRequests \subseteq Request
    /\ TransferAmounts \cup OthersAmounts \subseteq Amount

(* As module Amm leaves them: the LP of the user is part of the supply.     *)
ASSUME WorldsAssumption ==
    \A w \in Worlds : /\ w.pool \in PoolDefinition \cup {NoPool}
                      /\ w.bal \in [Holding -> Amount \cup {Absent}]
                      /\ Outside(w.bal, "LP") <= w.pool.supply

VARIABLES
    program,   \* the deployment in use: "amm" or "amm_v2"
    pool,      \* its pool account
    bal,       \* the user's holdings
    nonce,     \* of the user's accounts
    clock,     \* the clock account
    sent,      \* calls on their way, oldest first
    calls,     \* calls made so far
    others     \* steps of others so far

chainVars == <<pool, bal, nonce, clock>>
vars == <<program, chainVars, sent, calls, others>>

Init ==
    /\ program \in {"amm", "amm_v2"}
    /\ \E w \in Worlds : pool = w.pool /\ bal = w.bal
    /\ nonce = [h \in Holding \cup {Owner} |-> 0]
    /\ clock = 0
    /\ sent = <<>>
    /\ calls = 0
    /\ others = 0

-----------------------------------------------------------------------------
(* Building a call.                                                        *)

(* The caller's order, holdings of one kind.                                *)
AsGiven(r, kind) ==
    [vaults |-> r.pair, users |-> <<Of(kind, r.pair[1]), Of(kind, r.pair[2])>>,
     caps |-> r.caps]

NeedsLegFlip(r) == pool.legs[1] # r.pair[1]

(* Variants: the amounts keep the caller's order; the flip is left out.     *)
AlignedButAmounts(r, kind) ==
    LET legs == AsGiven(r, kind)
    IN  IF NeedsLegFlip(r)
        THEN [vaults |-> Reverse(legs.vaults), users |-> Reverse(legs.users),
              caps |-> legs.caps]
        ELSE legs
NotAligned(r, kind) == AsGiven(r, kind)

(* Vaults, holdings and amounts in the pool's order.                        *)
Aligned(r, kind) ==
    LET legs == AsGiven(r, kind)
    IN  IF NeedsLegFlip(r)
        THEN [vaults |-> Reverse(legs.vaults), users |-> Reverse(legs.users),
              caps |-> Reverse(legs.caps)]
        ELSE legs

(* The native swaps flip the vaults only: their holdings are named.         *)
VaultsAligned(r, kind) ==
    [AsGiven(r, kind) EXCEPT !.vaults = IF NeedsLegFlip(r) THEN Reverse(@) ELSE @]

Call(r, entry, op, via, legs) ==
    [entry |-> entry, req |-> r, op |-> op, via |-> via, in |-> r.in,
     amount |-> r.amount, limit |-> r.limit, pin |-> FALSE,
     vaults |-> legs.vaults, users |-> legs.users, caps |-> legs.caps,
     lp |-> Of("none", "none"), ends |-> <<>>,
     signers |-> {}, nonces |-> <<>>,
     private |-> FALSE, pins |-> {}, held |-> <<>>, pool |-> NoPool, clock |-> 0]

WithLp(c, kind) == [c EXCEPT !.lp = Of(kind, "LP")]
Between(c, from, to) == [c EXCEPT !.ends = <<from, to>>]
PinningAta(c) == [c EXCEPT !.pin = TRUE]

Send(c) ==
    /\ calls < MaxCalls
    /\ Len(sent) < MaxInFlight
    /\ sent' = Append(sent, c)
    /\ calls' = calls + 1
    /\ UNCHANGED <<program, chainVars, others>>

(* finalize: the nonces of the signers, as they are now.                    *)
Finalize(c, signers) ==
    Send([c EXCEPT !.signers = signers, !.nonces = Restrict(nonce, signers)])

(* The accounts of a call that are the user's.  In a privacy transaction    *)
(* the wallet authorises them all, and the proof is about the notes and the *)
(* public accounts as they are now; `pins` names the program accounts that  *)
(* are in the list.                                                        *)
Mine(c) == (Range(c.users) \cup Range(c.ends) \cup {c.lp}) \cap Holding

Prove(c, pins) ==
    Send([c EXCEPT !.signers = Mine(c), !.nonces = Restrict(nonce, Mine(c)),
                   !.private = TRUE, !.pins = pins, !.held = Restrict(bal, Mine(c)),
                   !.pool = IF "pool" \in pins THEN pool ELSE NoPool,
                   !.clock = IF "clock" \in pins THEN clock ELSE 0])

(* prep reads the definitions of both tokens from the caller's holdings.    *)
Prep(r, kind) == \A i \in 1 .. 2 : bal[Of(kind, r.pair[i])] # Absent

(* The pre-checks of the private entry points.                             *)
Covers(h, amount) == bal[h] >= amount

-----------------------------------------------------------------------------
(* amm, holdings with keys.                                                *)

Key(token) == Of("key", token)
Note(token) == Of("note", token)
Ata(token) == Of("ata", token)
Keys(r) == {Key(r.pair[1]), Key(r.pair[2])}

ldex_amm_new_pool(r) ==
    /\ program = "amm"
    /\ Prep(r, "key")
    /\ Finalize(WithLp(Call(r, "new_pool", "new", "token", AsGiven(r, "key")), "key"),
                Keys(r) \cup {Key("LP")})

ldex_amm_new_pool_ata(r) ==
    /\ program = "amm"
    /\ Prep(r, "key")
    /\ Finalize(PinningAta(WithLp(Call(r, "new_pool_ata", "new", "token",
                                       AsGiven(r, "key")), "key")),
                Keys(r) \cup {Key("LP")})

ldex_amm_swap_exact_in(r) ==
    /\ program = "amm"
    /\ Prep(r, "key")
    /\ Finalize(Call(r, "swap_exact_in", "swap_in", "token", AsGiven(r, "key")),
                {Key(r.in)})

ldex_amm_swap_exact_out(r) ==
    /\ program = "amm"
    /\ Prep(r, "key")
    /\ Finalize(Call(r, "swap_exact_out", "swap_out", "token", AsGiven(r, "key")),
                {Key(r.in)})

ldex_amm_add_liquidity(r) ==
    /\ program = "amm"
    /\ Prep(r, "key")
    /\ Finalize(WithLp(Call(r, "add_liquidity", "add", "token", AsGiven(r, "key")), "key"),
                Keys(r))

ldex_amm_remove_liquidity(r) ==
    /\ program = "amm"
    /\ Prep(r, "key")
    /\ Finalize(WithLp(Call(r, "remove_liquidity", "remove", "token",
                            AsGiven(r, "key")), "key"),
                {Key("LP")})

(* amm, associated token accounts.  They are derived, prep reads them, and  *)
(* the pool is read for its order; the owner signs.                         *)

AtaReady(r, deployment) == program = deployment /\ Prep(r, "ata") /\ pool.exists

ldex_amm_swap_exact_in_ata(r) ==
    /\ AtaReady(r, "amm")
    /\ Finalize(Call(r, "swap_exact_in_ata", "swap_in", "ata", Aligned(r, "ata")), {Owner})

ldex_amm_swap_exact_out_ata(r) ==
    /\ AtaReady(r, "amm")
    /\ Finalize(Call(r, "swap_exact_out_ata", "swap_out", "ata", Aligned(r, "ata")), {Owner})

ldex_amm_add_liquidity_ata(r) ==
    /\ AtaReady(r, "amm")
    /\ Finalize(WithLp(Call(r, "add_liquidity_ata", "add", "ata", Aligned(r, "ata")), "ata"),
                {Owner})

(* The plain instruction, which knows of no owner.                          *)
ldex_amm_remove_liquidity_ata(r) ==
    /\ AtaReady(r, "amm")
    /\ Finalize(WithLp(Call(r, "remove_liquidity_ata", "remove", "token",
                            Aligned(r, "ata")), "ata"),
                {Owner})

(* amm, private notes.                                                     *)

ldex_amm_private_swap_exact_in(r) ==
    /\ program = "amm"
    /\ pool.exists
    /\ Covers(Note(r.in), r.amount)
    /\ Prove(Call(r, "private_swap_exact_in", "swap_in", "token", Aligned(r, "note")),
             {"pool"})

ldex_amm_private_add_liquidity(r) ==
    /\ program = "amm"
    /\ pool.exists
    /\ \A i \in 1 .. 2 : Covers(Note(r.pair[i]), r.caps[i])
    /\ Prove(WithLp(Call(r, "private_add_liquidity", "add", "token", Aligned(r, "note")),
                    "note"),
             {"pool", "clock"})

ldex_amm_private_remove_liquidity(r) ==
    /\ program = "amm"
    /\ pool.exists
    /\ Covers(Note("LP"), r.amount)
    /\ Prove(WithLp(Call(r, "private_remove_liquidity", "remove", "token",
                         Aligned(r, "note")), "note"),
             {"pool", "clock"})

(* The router: single-use holdings and vaults in the caller's order.        *)
ldex_amm_disposable_swap_exact_in(r) ==
    /\ program = "amm"
    /\ Covers(Note(r.in), r.amount)
    /\ Prove(Between(Call(r, "disposable_swap_exact_in", "swap_in", "once",
                          AsGiven(r, "once")),
                     Note(r.in), Note(Other(r.in))),
             {"pool"})

-----------------------------------------------------------------------------
(* amm_v2, holdings with keys.                                             *)

KeyReady(r) == program = "amm_v2" /\ Prep(r, "key") /\ pool.exists

ldex_amm_v2_new_pool(r) ==
    /\ program = "amm_v2"
    /\ Prep(r, "key")
    /\ Finalize(WithLp(Call(r, "v2_new_pool", "new", "token", AsGiven(r, "key")), "key"),
                Keys(r) \cup {Key("LP")})

ldex_amm_v2_new_pool_ata(r) ==
    /\ program = "amm_v2"
    /\ Prep(r, "key")
    /\ Finalize(PinningAta(WithLp(Call(r, "v2_new_pool_ata", "new", "ata",
                                       AsGiven(r, "key")), "ata")),
                Keys(r))

ldex_amm_v2_swap_exact_in(r) ==
    /\ KeyReady(r)
    /\ Finalize(Call(r, "v2_swap_exact_in", "swap_in", "token", Aligned(r, "key")),
                {Key(r.in)})

(* Variant: only the first of the two depositors signs.                     *)
AddSignedOnce(r) ==
    /\ KeyReady(r)
    /\ Finalize(WithLp(Call(r, "v2_add_liquidity", "add", "token", Aligned(r, "key")), "key"),
                {Key(r.pair[1])})

ldex_amm_v2_add_liquidity(r) ==
    /\ KeyReady(r)
    /\ Finalize(WithLp(Call(r, "v2_add_liquidity", "add", "token", Aligned(r, "key")), "key"),
                Keys(r))

ldex_amm_v2_remove_liquidity(r) ==
    /\ KeyReady(r)
    /\ Finalize(WithLp(Call(r, "v2_remove_liquidity", "remove", "token",
                            Aligned(r, "key")), "key"),
                {Key("LP")})

(* amm_v2, associated token accounts.                                      *)

ldex_amm_v2_swap_exact_in_ata(r) ==
    /\ AtaReady(r, "amm_v2")
    /\ Finalize(Call(r, "v2_swap_exact_in_ata", "swap_in", "ata", Aligned(r, "ata")), {Owner})

ldex_amm_v2_swap_exact_out_ata(r) ==
    /\ AtaReady(r, "amm_v2")
    /\ Finalize(Call(r, "v2_swap_exact_out_ata", "swap_out", "ata", Aligned(r, "ata")), {Owner})

ldex_amm_v2_add_liquidity_ata(r) ==
    /\ AtaReady(r, "amm_v2")
    /\ Finalize(WithLp(Call(r, "v2_add_liquidity_ata", "add", "ata", Aligned(r, "ata")), "ata"),
                {Owner})

ldex_amm_v2_remove_liquidity_ata(r) ==
    /\ AtaReady(r, "amm_v2")
    /\ Finalize(WithLp(Call(r, "v2_remove_liquidity_ata", "remove", "ata",
                            Aligned(r, "ata")), "ata"),
                {Owner})

(* amm_v2, private notes: no clock in the list.                            *)

ldex_amm_v2_private_swap_exact_in(r) ==
    /\ program = "amm_v2"
    /\ pool.exists
    /\ Covers(Note(r.in), r.amount)
    /\ Prove(Call(r, "v2_private_swap_exact_in", "swap_in", "token", Aligned(r, "note")),
             {"pool"})

ldex_amm_v2_private_add_liquidity(r) ==
    /\ program = "amm_v2"
    /\ pool.exists
    /\ \A i \in 1 .. 2 : Covers(Note(r.pair[i]), r.caps[i])
    /\ Prove(WithLp(Call(r, "v2_private_add_liquidity", "add", "token", Aligned(r, "note")),
                    "note"),
             {"pool"})

ldex_amm_v2_private_remove_liquidity(r) ==
    /\ program = "amm_v2"
    /\ pool.exists
    /\ Covers(Note("LP"), r.amount)
    /\ Prove(WithLp(Call(r, "v2_private_remove_liquidity", "remove", "token",
                         Aligned(r, "note")), "note"),
             {"pool"})

(* amm_v2, swaps through single-use holdings in one proof.                  *)

ldex_amm_v2_disposable_swap_inproof(r) ==
    /\ program = "amm_v2"
    /\ pool.exists
    /\ Covers(Note(r.in), r.amount)
    /\ Prove(Between(Call(r, "v2_disposable_swap_inproof", "swap_in", "once",
                          Aligned(r, "once")),
                     Note(r.in), Note(Other(r.in))),
             {"pool"})

(* The pair is always looked up as the token that comes in, the other.      *)
InFirst(r) == r.pair[1] = r.in

ldex_amm_v2_disposable_swap_native_in(r) ==
    /\ program = "amm_v2"
    /\ pool.exists
    /\ r.in = WLEZ /\ InFirst(r)
    /\ Covers(Of("native", WLEZ), r.amount)
    /\ Prove(Between(Call(r, "v2_disposable_swap_native_in", "swap_in", "native",
                          VaultsAligned(r, "once")),
                     Of("native", WLEZ), Note(Other(WLEZ))),
             {"pool"})

ldex_amm_v2_disposable_swap_native_out(r) ==
    /\ program = "amm_v2"
    /\ pool.exists
    /\ r.in # WLEZ /\ InFirst(r)
    /\ Covers(Note(r.in), r.amount)
    /\ Prove(Between(Call(r, "v2_disposable_swap_native_out", "swap_in", "native",
                          VaultsAligned(r, "once")),
                     Note(r.in), Of("native", WLEZ)),
             {"pool"})

-----------------------------------------------------------------------------
(* Holdings.                                                               *)

Plain(token, amount) ==
    [pair |-> <<>>, in |-> token, amount |-> amount, limit |-> 0, caps |-> <<>>]
NoLegs == [vaults |-> <<>>, users |-> <<>>, caps |-> <<>>]
Moving(entry, via, token, amount, from, to) ==
    Between(Call(Plain(token, amount), entry, "transfer", via, NoLegs), from, to)
Creating(entry, via, h) ==
    Between(Call(Plain(h.token, 0), entry, "init", via, NoLegs), h, h)

ldex_amm_init_token_holding(h) ==
    /\ h.kind \in {"key", "once"}
    /\ Finalize(Creating("init_token_holding", "token", h), {h})

ldex_ata_create(token) ==
    Finalize(Creating("ata_create", "ata", Ata(token)), {Owner})

ldex_ata_transfer(token, amount) ==
    Finalize(Moving("ata_transfer", "ata", token, amount, Ata(token), Key(token)), {Owner})

ldex_token_shield(token, amount) ==
    Prove(Moving("token_shield", "token", token, amount, Key(token), Note(token)), {})

ldex_token_deshield(token, amount) ==
    Prove(Moving("token_deshield", "token", token, amount, Note(token), Key(token)), {})

ldex_wlez_wrap(amount) ==
    Finalize(Moving("wlez_wrap", "wlez", WLEZ, amount, Of("native", WLEZ), Key(WLEZ)),
             {Of("native", WLEZ)})

ldex_wlez_unwrap(amount) ==
    Finalize(Moving("wlez_unwrap", "wlez", WLEZ, amount, Key(WLEZ), Of("native", WLEZ)),
             {Key(WLEZ)})

-----------------------------------------------------------------------------
(* The chain.                                                              *)

(* Variant: the pool may have changed.                                     *)
CurrentButPool(c) ==
    /\ \A h \in c.signers : nonce[h] = c.nonces[h]
    /\ \A h \in DOMAIN c.held : bal[h] = c.held[h]
    /\ "clock" \in c.pins => clock = c.clock

(* A signature is good for one nonce, and a proof for the accounts it was   *)
(* made on.                                                                *)
Current(c) ==
    /\ \A h \in c.signers : nonce[h] = c.nonces[h]
    /\ \A h \in DOMAIN c.held : bal[h] = c.held[h]
    /\ "pool" \in c.pins => pool = c.pool
    /\ "clock" \in c.pins => clock = c.clock

(* A proof was made on the pool it was shown, and so is what it writes.     *)
PoolFor(c) == IF "pool" \in c.pins THEN c.pool ELSE pool

Accepted(c) == Current(c) /\ HandlerOk(PoolFor(c), bal, c)

Include(i) ==
    LET c == sent[i]
        after == After(PoolFor(c), bal, c)
    IN  /\ Accepted(c)
        /\ pool' = after.pool
        /\ bal' = after.bal
        /\ nonce' = [h \in DOMAIN nonce |-> nonce[h] + (IF h \in c.signers THEN 1 ELSE 0)]
        /\ sent' = RemoveAt(sent, i)
        /\ UNCHANGED <<program, clock, calls, others>>

(* Refused, or lost.                                                       *)
Drop(i) ==
    /\ sent' = RemoveAt(sent, i)
    /\ UNCHANGED <<program, chainVars, calls, others>>

(* Another user trades.                                                    *)
OthersSwap ==
    \E t \in Tokens, amount \in OthersAmounts :
        /\ pool.exists
        /\ ExactInputOk(pool.reserve[t], pool.reserve[Other(t)], FEES, amount)
        /\ Fits(pool.reserve[t] + amount)
        /\ pool' = [pool EXCEPT
              !.reserve[t] = @ + amount,
              !.reserve[Other(t)] = @ - ExactInputOut(pool.reserve[t],
                                          pool.reserve[Other(t)], FEES, amount)]

(* Another user creates the pool, in either order, with or without ATAs.    *)
OthersCreate ==
    \E w \in Worlds :
        /\ ~pool.exists
        /\ w.pool.exists
        /\ pool' = w.pool

Others ==
    /\ others < MaxOthers
    /\ OthersSwap \/ OthersCreate
    /\ others' = others + 1
    /\ UNCHANGED <<program, bal, nonce, clock, sent, calls>>

Tick ==
    /\ clock < MaxClock
    /\ clock' = clock + 1
    /\ UNCHANGED <<program, pool, bal, nonce, sent, calls, others>>

-----------------------------------------------------------------------------
Swap(r) ==
    \/ ldex_amm_swap_exact_in(r)
    \/ ldex_amm_swap_exact_out(r)
    \/ ldex_amm_swap_exact_in_ata(r)
    \/ ldex_amm_swap_exact_out_ata(r)
    \/ ldex_amm_private_swap_exact_in(r)
    \/ ldex_amm_disposable_swap_exact_in(r)
    \/ ldex_amm_v2_swap_exact_in(r)
    \/ ldex_amm_v2_swap_exact_in_ata(r)
    \/ ldex_amm_v2_swap_exact_out_ata(r)
    \/ ldex_amm_v2_private_swap_exact_in(r)
    \/ ldex_amm_v2_disposable_swap_inproof(r)
    \/ ldex_amm_v2_disposable_swap_native_in(r)
    \/ ldex_amm_v2_disposable_swap_native_out(r)

Liquidity(r) ==
    \/ ldex_amm_new_pool(r)
    \/ ldex_amm_new_pool_ata(r)
    \/ ldex_amm_add_liquidity(r)
    \/ ldex_amm_remove_liquidity(r)
    \/ ldex_amm_add_liquidity_ata(r)
    \/ ldex_amm_remove_liquidity_ata(r)
    \/ ldex_amm_private_add_liquidity(r)
    \/ ldex_amm_private_remove_liquidity(r)
    \/ ldex_amm_v2_new_pool(r)
    \/ ldex_amm_v2_new_pool_ata(r)
    \/ ldex_amm_v2_add_liquidity(r)
    \/ ldex_amm_v2_remove_liquidity(r)
    \/ ldex_amm_v2_add_liquidity_ata(r)
    \/ ldex_amm_v2_remove_liquidity_ata(r)
    \/ ldex_amm_v2_private_add_liquidity(r)
    \/ ldex_amm_v2_private_remove_liquidity(r)

Next ==
    \/ \E r \in SwapRequests : Swap(r)
    \/ \E r \in LiquidityRequests : Liquidity(r)
    \/ \E h \in Holding : ldex_amm_init_token_holding(h)
    \/ \E t \in Tokens \cup {"LP"} : ldex_ata_create(t)
    \/ \E t \in Tokens, n \in TransferAmounts :
        \/ ldex_ata_transfer(t, n)
        \/ ldex_token_shield(t, n)
        \/ ldex_token_deshield(t, n)
    \/ \E n \in TransferAmounts : ldex_wlez_wrap(n) \/ ldex_wlez_unwrap(n)
    \/ \E i \in DOMAIN sent : Include(i) \/ Drop(i)
    \/ Others
    \/ Tick

Spec == Init /\ [][Next]_vars

=============================================================================
