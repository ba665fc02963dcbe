------------------------------ MODULE FfiSafety ------------------------------
(***************************************************************************)
(* What a caller of the FFI may rely on.  Here a request is read as the     *)
(* caller means it: amounts, limits and holdings belong to tokens, not to   *)
(* positions, whatever order the pool has its legs in.                     *)
(***************************************************************************)
EXTENDS FfiCalls

-----------------------------------------------------------------------------
(* The caller's reading of a request.                                      *)

(* The kind of holding an entry point works with.                           *)
KindOf(c) ==
    CASE c.entry \in {"swap_exact_in_ata", "swap_exact_out_ata", "add_liquidity_ata",
                      "remove_liquidity_ata", "v2_swap_exact_in_ata",
                      "v2_swap_exact_out_ata", "v2_add_liquidity_ata",
                      "v2_remove_liquidity_ata"} -> "ata"
      [] c.private -> "note"
      [] OTHER -> "key"

(* Where the caller's own units of a token are, or go.                      *)
OwnedAt(c, token) ==
    IF c.via = "native" /\ token = WLEZ THEN Of("native", WLEZ)
    ELSE IF c.entry = "v2_new_pool_ata" /\ token = "LP" THEN Of("ata", "LP")
    ELSE Of(KindOf(c), token)

CapOf(c, token) == c.req.caps[CHOOSE i \in 1 .. 2 : c.req.pair[i] = token]

DepositOf(c, token) ==
    ActualDeposit(pool.reserve[token], pool.reserve[Other(token)],
                  CapOf(c, token), CapOf(c, Other(token)))

LpOf(c) ==
    LET t == c.req.pair[1]
        u == c.req.pair[2]
    IN  LpMinted(pool.supply, pool.reserve[t], pool.reserve[u],
                 DepositOf(c, t), DepositOf(c, u))

ShareOf(c, token) == Share(pool.reserve[token], c.req.amount, pool.supply)

Has(c, token, amount) == bal[OwnedAt(c, token)] >= amount
Open(c, token) == bal[OwnedAt(c, token)] # Absent

(* Entry points that expect the two tokens in the order the pool was made   *)
(* with.                                                                   *)
PoolOrderOnly ==
    {"swap_exact_in", "swap_exact_out", "add_liquidity", "remove_liquidity",
     "disposable_swap_exact_in"}

PoolServes(c) ==
    /\ pool.exists
    /\ c.entry \in PoolOrderOnly => pool.legs = c.req.pair
    /\ KindOf(c) = "ata" => pool.ata_pinned

SwapServes(c) ==
    /\ PoolServes(c)
    /\ Priced(pool, c)
    /\ Has(c, c.req.in, Deposit(pool, c))
    /\ Fits(pool.reserve[c.req.in] + Deposit(pool, c))
    /\ IF Through(c) THEN \A t \in Tokens : bal[Of("once", t)] # Absent
       ELSE \A t \in Tokens : Open(c, t)

AddServes(c) ==
    /\ PoolServes(c)
    /\ \A t \in Tokens :
        /\ CapOf(c, t) > 0
        /\ Fits(pool.reserve[t] * CapOf(c, Other(t)))
        /\ DepositOf(c, t) > 0
        /\ Fits(pool.supply * DepositOf(c, t))
        /\ Fits(pool.reserve[t] + DepositOf(c, t))
        /\ Has(c, t, DepositOf(c, t))
    /\ LpOf(c) > 0
    /\ LpOf(c) >= c.req.limit
    /\ Fits(pool.supply + LpOf(c))
    /\ c.private \/ Open(c, "LP")

RemoveServes(c) ==
    /\ PoolServes(c)
    /\ Has(c, "LP", c.req.amount)
    /\ c.req.amount <= pool.supply - MINIMUM_LIQUIDITY
    /\ \A t \in Tokens :
        /\ Fits(pool.reserve[t] * c.req.amount)
        /\ CapOf(c, t) > 0
        /\ ShareOf(c, t) >= CapOf(c, t)
        /\ Open(c, t)

NewServes(c) ==
    /\ ~pool.exists
    /\ Fits(c.req.caps[1] * c.req.caps[2])
    /\ \E lp \in MINIMUM_LIQUIDITY + 1 .. U128_MAX :
          IsISqrt(lp, c.req.caps[1] * c.req.caps[2])
    /\ \A t \in Tokens : CapOf(c, t) > 0 /\ Has(c, t, CapOf(c, t))

TransferServes(c) ==
    /\ bal[c.ends[1]] >= c.amount
    /\ c.entry \in {"ata_transfer", "wlez_wrap", "wlez_unwrap"} => bal[c.ends[2]] # Absent

InitServes(c) ==
    /\ c.in = "LP" => pool.exists
    /\ c.entry = "init_token_holding" => bal[c.ends[1]] = Absent

Serves(c) ==
    CASE c.op \in {"swap_in", "swap_out"} -> SwapServes(c)
      [] c.op = "add" -> AddServes(c)
      [] c.op = "remove" -> RemoveServes(c)
      [] c.op = "new" -> NewServes(c)
      [] c.op = "transfer" -> TransferServes(c)
      [] c.op = "init" -> InitServes(c)

(* Whatever the pool's order of legs and whoever created it, a call that is *)
(* up to date is accepted exactly when what the caller meant can be done:   *)
(* no holding is paired with the wrong leg, no amount with the wrong        *)
(* holding, no signature is missing (the alignment before every call of     *)
(* submit.rs).                                                             *)
ServedAsAsked ==
    \A c \in ToSet(sent) :
        (Current(c) /\ c.entry # "remove_liquidity_ata")
            => (HandlerOk(PoolFor(c), bal, c) <=> Serves(c))

-----------------------------------------------------------------------------
Units(h) == UnitsIn(bal, h)
Gained(h) == Units(h)' - Units(h)

TokensOf(c) ==
    IF c.op \in {"add", "remove", "new"} THEN Tokens \cup {"LP"} ELSE Tokens
Touched(c) ==
    IF c.op \in {"transfer", "init"} THEN ToSet(c.ends)
    ELSE {OwnedAt(c, t) : t \in TokensOf(c)}

WithinBounds(c) ==
    LET got(t) == Gained(OwnedAt(c, t))
    IN  CASE c.op = "swap_in" -> /\ got(c.req.in) = -c.req.amount
                                 /\ got(Other(c.req.in)) >= c.req.limit
          [] c.op = "swap_out" -> /\ -got(c.req.in) <= c.req.limit
                                  /\ got(Other(c.req.in)) = c.req.amount
          [] c.op = "add" -> /\ \A t \in Tokens : -got(t) <= CapOf(c, t)
                             /\ got("LP") >= c.req.limit
          [] c.op = "remove" -> /\ \A t \in Tokens : got(t) >= CapOf(c, t)
                                /\ got("LP") = -c.req.amount
          [] c.op = "new" -> \A t \in Tokens : got(t) = -CapOf(c, t)
          [] c.op = "transfer" -> /\ Gained(c.ends[1]) = -c.amount
                                  /\ Gained(c.ends[2]) = c.amount
          [] c.op = "init" -> Gained(c.ends[1]) = 0

Executed(c) == \E i \in DOMAIN sent : sent[i] = c /\ Include(i)

(* However late a call is included and whatever happened before it, the     *)
(* caller pays no more of a token and gets no less of it than was named for *)
(* that token, and no other holding changes.                               *)
BoundsHonoured ==
    [][\A c \in ToSet(sent) : Executed(c) =>
          /\ WithinBounds(c)
          /\ \A h \in Holding \ Touched(c) : bal'[h] = bal[h]]_vars

Circulating(t) == Outside(bal, t)

(* What a call takes from the caller the pool gains, and the reverse: a     *)
(* pool account proved on an earlier state never replaces what others have  *)
(* done to it meanwhile.                                                   *)
NothingOverwritten ==
    [][\A c \in ToSet(sent) : Executed(c) =>
          /\ \A t \in Tokens :
                Circulating(t)' + pool'.reserve[t] = Circulating(t) + pool.reserve[t]
          /\ pool.exists =>
                Circulating("LP")' - pool'.supply = Circulating("LP") - pool.supply]_vars

=============================================================================
