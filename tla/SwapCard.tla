------------------------------ MODULE SwapCard ------------------------------
(***************************************************************************)
(* What a swap is told to accept.  A front end quotes a request on a pool    *)
(* it has read, takes the slippage off the quote, and sends the rest as the  *)
(* least output of the swap, which meets the pool as it is by then.         *)
(*                                                                         *)
(* The swap card of the mini-app quotes while the user edits: every edit    *)
(* restarts a timer, whose end reads the pool through the bridge.  The       *)
(* bridge may give up on any read.  The CLI reads the pool and sends at     *)
(* once.  Both find a pool by its two tokens and have to find out which of   *)
(* them the pool counts as its token A, which is up to its creator.         *)
(***************************************************************************)
EXTENDS F64

CONSTANTS
    QUOTE_UNIT,       \* a quote is printed in parts of this: 10^4, four decimals
    JS_PLAIN,         \* 10^21: String() prints smaller numbers as plain digits
    Amounts,          \* amounts a request may name
    Slips,            \* slippage tolerances, doubles, in percent
    Deposits,         \* [own, other] amounts a pool may be created with
    InitialFees,      \* tiers that have a pool from the start
    InitialCard,      \* what the card shows when it is loaded
    BRIDGE_TIMES_OUT, \* the bridge may give up on a call
    MaxEdits,         \* bound on the user's edits
    MaxMoves          \* bound on the transactions that change a pool

ASSUME SwapCardAssumption ==
    /\ QUOTE_UNIT \in Nat /\ QUOTE_UNIT >= 2
    /\ JS_PLAIN \in 0 .. U128_MAX
    /\ \A fee \in FEE_TIERS : 2 * fee <= FEE_BPS_DENOMINATOR
    /\ Amounts \subseteq 1 .. U128_MAX
    /\ Slips \subseteq 0 .. (100 * F64_ONE - 1)
    /\ Deposits \subseteq [own : 1 .. U128_MAX, other : 1 .. U128_MAX]
    /\ InitialFees \subseteq FEE_TIERS
    /\ InitialCard \in [pay : {"X", "Y"}, amount : Amounts, fee : FEE_TIERS]
    /\ BRIDGE_TIMES_OUT \in BOOLEAN
    /\ MaxEdits \in Nat
    /\ MaxMoves \in Nat

VARIABLES
    pools,    \* fee tier -> the pool of the two tokens, or NoPool
    card,     \* the request on the card: tokA pays, amtIn, selFee
    timer,    \* quoteTimer is running
    avail,    \* availFeesList, as last evaluated
    has_pool, \* pairHasPoolProp, as last evaluated
    quote,    \* root.quoteOut, with what it was asked for and of which pool
    orders,   \* swaps sent and not yet decided
    edits, moves

chainVars == <<pools, orders, moves>>
cardVars == <<card, timer, avail, has_pool, quote, edits>>
vars == <<chainVars, cardVars>>

Token == {"X", "Y"}
Other(t) == IF t = "X" THEN "Y" ELSE "X"

Request == [pay : Token, amount : Amounts, fee : FEE_TIERS]

NoPool == [a |-> "none"]

(* A pool as created: token a is its token A.                              *)
Created(a, deposit) ==
    [a |-> a,
     reserve |-> [t \in Token |-> IF t = a THEN deposit.own ELSE deposit.other]]

Exists(fee) == pools[fee] # NoPool

ReserveA(pool) == pool.reserve[pool.a]
ReserveB(pool) == pool.reserve[Other(pool.a)]

(* The reserves a request trades against.                                  *)
Legs(r) == [in |-> pools[r.fee].reserve[r.pay], out |-> pools[r.fee].reserve[Other(r.pay)]]

NoQuote == [out |-> 0]
Quoted == quote # NoQuote

-----------------------------------------------------------------------------
(* Finding the pool and quoting.                                           *)

(* The answers of a probe: the pool, or nothing, whatever there is.        *)
Probe(fee) ==
    (IF Exists(fee) THEN {TRUE} ELSE {FALSE})
        \cup (IF BRIDGE_TIMES_OUT THEN {FALSE} ELSE {})

(* findPool asks for the tokens in the card's order, then the other way     *)
(* round.  The address of a pool is the same for both, so that the first    *)
(* answer decides; the second probe is answered where the first was not.    *)
FindPool(fee) ==
    UNION {IF first THEN {"payIsA"}
           ELSE {IF second THEN "payIsB" ELSE "null" : second \in Probe(fee)}
              : first \in Probe(fee)}

Found(fee) == {found # "null" : found \in FindPool(fee)}

(* A double to the nearest part, as QString::number prints it.             *)
Printed(x) == (2 * x * QUOTE_UNIT + F64_ONE) \div (2 * F64_ONE)

(* The output of the curve, every operation in doubles.                     *)
Curve(in, out, amount, fee) ==
    LET rate  == FDiv(fee * F64_ONE, FEE_BPS_DENOMINATOR * F64_ONE)
        effIn == FMul(AsDouble(amount), FSub(F64_ONE, rate))
    IN  FDiv(FMul(AsDouble(out), effIn), FAdd(AsDouble(in), effIn))

QuoteFor(pool, direction, amount, fee) ==
    IF direction = 0
    THEN Printed(Curve(ReserveA(pool), ReserveB(pool), amount, fee))
    ELSE Printed(Curve(ReserveB(pool), ReserveA(pool), amount, fee))

QuoteOf(r, found) ==
    LET direction == IF found = "payIsA" THEN 0 ELSE 1
        pool == pools[r.fee]
    IN  [out |-> QuoteFor(pool, direction, r.amount, r.fee),
         of |-> r,
         seen |-> Legs(r),
         reversed |-> (direction = 0) # (pool.a = r.pay)]

(* Variant: when the pool is not found the old quote stays.                 *)
UpdateQuoteIfFound ==
    \E found \in FindPool(card.fee) :
        quote' = IF found = "null" THEN quote ELSE QuoteOf(card, found)

UpdateQuote ==
    \E found \in FindPool(card.fee) :
        \/ found = "null" /\ quote' = NoQuote
        \/ found # "null" /\ quote' = QuoteOf(card, found)
        \/ found # "null" /\ BRIDGE_TIMES_OUT /\ quote' = NoQuote

-----------------------------------------------------------------------------
(* Edits.                                                                  *)

Edited == edits < MaxEdits /\ edits' = edits + 1

Restarted == timer' = TRUE

(* The bindings, read anew: on a change of the pair, and on one of the tier. *)
AvailEvaluated ==
    avail' \in {{f \in FEE_TIERS : here[f]} : here \in
                    {h \in [FEE_TIERS -> BOOLEAN] : \A f \in FEE_TIERS : h[f] \in Found(f)}}

HasPoolEvaluated == has_pool' \in Found(card'.fee)

(* A tier that is not there any more gives way to the first that is.        *)
StillAvailable(fee) ==
    IF avail' = {} \/ card.fee \in avail'
    THEN fee = card.fee
    ELSE fee \in avail' /\ \A f \in avail' : fee <= f

EditAmount ==
    /\ Edited
    /\ \E amount \in Amounts : card' = [card EXCEPT !.amount = amount]
    /\ Restarted
    /\ UNCHANGED <<chainVars, avail, has_pool, quote>>

Flip ==
    /\ Edited
    /\ card' = [card EXCEPT !.pay = Other(@)]
    /\ AvailEvaluated
    /\ HasPoolEvaluated
    /\ Restarted
    /\ UNCHANGED <<chainVars, quote>>

(* setPick: picking the token of the other side turns the pair round.        *)
PickToken ==
    /\ Edited
    /\ AvailEvaluated
    /\ \E fee \in FEE_TIERS :
          /\ StillAvailable(fee)
          /\ card' = [card EXCEPT !.pay = Other(@), !.fee = fee]
    /\ HasPoolEvaluated
    /\ Restarted
    /\ UNCHANGED <<chainVars, quote>>

(* loadDev: the quote is asked for before the tier is corrected.            *)
LoadDev ==
    /\ Edited
    /\ AvailEvaluated
    /\ UpdateQuote
    /\ \E fee \in FEE_TIERS :
          /\ StillAvailable(fee)
          /\ card' = [card EXCEPT !.fee = fee]
    /\ HasPoolEvaluated
    /\ Restarted
    /\ UNCHANGED chainVars

(* initRefreshTimer, after the setup is loaded.                             *)
InitRefresh ==
    /\ Edited
    /\ AvailEvaluated
    /\ \E fee \in FEE_TIERS :
          /\ StillAvailable(fee)
          /\ card' = [card EXCEPT !.fee = fee]
          /\ timer' = (timer \/ fee # card.fee)
    /\ HasPoolEvaluated
    /\ UNCHANGED <<chainVars, quote>>

PickFee ==
    /\ Edited
    /\ \E fee \in avail : card' = [card EXCEPT !.fee = fee]
    /\ HasPoolEvaluated
    /\ Restarted
    /\ UNCHANGED <<chainVars, avail, quote>>

QuoteTimer ==
    /\ timer
    /\ timer' = FALSE
    /\ UpdateQuote
    /\ UNCHANGED <<chainVars, card, avail, has_pool, edits>>

(* refresh(), after a result, a confirmation, or by its button.            *)
Refresh ==
    /\ UpdateQuote
    /\ UNCHANGED <<chainVars, card, timer, avail, has_pool, edits>>

-----------------------------------------------------------------------------
(* Sending.                                                                *)

AtLeastOne(n) == IF n < 1 THEN 1 ELSE n

(* What is left of a share of 1.0 when a slippage is taken off it.          *)
Kept(slip) == FSub(F64_ONE, FDiv(slip, 100 * F64_ONE))

(* The parts are read as a double again.                                   *)
LessSlippage(slip, parts) ==
    Floor(FMul(Nearest(parts * F64_ONE, QUOTE_UNIT), Kept(Least(50 * F64_ONE, slip))))

MinRecv(slip) == IF Quoted THEN AtLeastOne(LessSlippage(slip, quote.out)) ELSE 1

(* String() of an integral double: digits that read as that double again.   *)
(* An exponent, from JS_PLAIN on, is refused by the plugin's parseU128.     *)
Digits(m) ==
    {n \in 0 .. JS_PLAIN : m < JS_PLAIN /\ AsDouble(n) = m * F64_ONE}

(* How the bound of an order came about: on a quote that was for it, for an  *)
(* earlier state of the card, for the wrong legs, or on none.               *)
Basis ==
    CASE ~Quoted -> "none"
      [] Quoted /\ quote.of # card -> "edited"
      [] Quoted /\ quote.of = card /\ quote.reversed -> "reversed"
      [] Quoted /\ quote.of = card /\ ~quote.reversed -> "fits"

Order(by, r, slip, min, seen, basis) ==
    [by |-> by, pay |-> r.pay, amount |-> r.amount, fee |-> r.fee, slip |-> slip,
     min |-> min, seen |-> seen, basis |-> basis]

(* The failsafe may have cleared busy while an earlier order is pending      *)
(* (see JobPump), so that it does not keep the user from sending.           *)
Click ==
    /\ orders = {}
    /\ has_pool
    /\ TRUE \in Found(card.fee)
    /\ \E slip \in Slips : \E min \in Digits(MinRecv(slip)) :
          orders' = {Order("card", card, slip, min,
                           IF Quoted THEN quote.seen ELSE Legs(card), Basis)}
    /\ UNCHANGED <<pools, moves, cardVars>>

(* Variant: the CLI takes the order of its arguments for the pool's.        *)
CliLegsAsAsked(r) ==
    [in |-> ReserveA(pools[r.fee]), out |-> ReserveB(pools[r.fee])]

(* cmd_swap: token_a_def of the answer says which reserve is paid into.     *)
CliLegs(r) ==
    IF pools[r.fee].a = r.pay
    THEN [in |-> ReserveA(pools[r.fee]), out |-> ReserveB(pools[r.fee])]
    ELSE [in |-> ReserveB(pools[r.fee]), out |-> ReserveA(pools[r.fee])]

SaturatingMul(x, y) == Least(x * y, U128_MAX)

CliQuote(r) ==
    LET legs == CliLegs(r)
        eff  == SaturatingMul(r.amount, FEE_BPS_DENOMINATOR - r.fee)
                    \div FEE_BPS_DENOMINATOR
        den  == SaturatingAdd(legs.in, eff)
    IN  IF den = 0 THEN 0 ELSE SaturatingMul(legs.out, eff) \div den

(* Variant: the slippage is added.                                         *)
CliMinOutAbove(r, slip) ==
    Least(Floor(FMul(AsDouble(CliQuote(r)),
                     FAdd(F64_ONE, FDiv(slip, 100 * F64_ONE)))), U128_MAX)

(* As a double, times the share that is kept, and back: the conversion to    *)
(* u128 saturates.                                                         *)
CliMinOut(r, slip) ==
    Least(Floor(FMul(AsDouble(CliQuote(r)), Kept(slip))), U128_MAX)

CliSwap ==
    /\ orders = {}
    /\ \E r \in Request, slip \in Slips :
          /\ Exists(r.fee)
          /\ orders' = {Order("cli", r, slip, CliMinOut(r, slip), Legs(r), "fits")}
    /\ UNCHANGED <<pools, moves, cardVars>>

-----------------------------------------------------------------------------
(* The pool program.                                                       *)

Moved == moves < MaxMoves /\ moves' = moves + 1

Out(r) == ExactInputOut(Legs(r).in, Legs(r).out, r.fee, r.amount)

(* Variant: the program does not look at the least output.                  *)
AcceptedAtAnyPrice(r, min) ==
    /\ Exists(r.fee)
    /\ ExactInputOk(Legs(r).in, Legs(r).out, r.fee, r.amount)
    /\ Fits(Legs(r).in + r.amount)

Accepted(r, min) ==
    /\ Exists(r.fee)
    /\ ExactInputOk(Legs(r).in, Legs(r).out, r.fee, r.amount)
    /\ Fits(Legs(r).in + r.amount)
    /\ Out(r) >= min

SwapOn(r) ==
    LET before == pools[r.fee].reserve
        after  == [before EXCEPT ![r.pay] = @ + r.amount, ![Other(r.pay)] = @ - Out(r)]
    IN  pools' = [pools EXCEPT ![r.fee].reserve = after]

Include ==
    /\ Moved
    /\ \E o \in orders :
          /\ Accepted(o, o.min)
          /\ SwapOn(o)
          /\ orders' = orders \ {o}
    /\ UNCHANGED cardVars

(* The order is refused, or lost.                                          *)
Drop ==
    /\ \E o \in orders : orders' = orders \ {o}
    /\ UNCHANGED <<pools, moves, cardVars>>

OthersSwap ==
    /\ Moved
    /\ \E r \in Request : Accepted(r, 0) /\ SwapOn(r)
    /\ UNCHANGED <<orders, cardVars>>

OthersCreate ==
    /\ Moved
    /\ \E fee \in FEE_TIERS, a \in Token, deposit \in Deposits :
          /\ ~Exists(fee)
          /\ pools' = [pools EXCEPT ![fee] = Created(a, deposit)]
    /\ UNCHANGED <<orders, cardVars>>

-----------------------------------------------------------------------------
Init ==
    /\ \E a \in Token, deposit \in Deposits :
          pools = [fee \in FEE_TIERS |->
                      IF fee \in InitialFees THEN Created(a, deposit) ELSE NoPool]
    /\ card = InitialCard
    /\ timer = TRUE
    /\ avail = {fee \in FEE_TIERS : Exists(fee)}
    /\ has_pool = Exists(card.fee)
    /\ quote = NoQuote
    /\ orders = {}
    /\ edits = 0
    /\ moves = 0

Next ==
    \/ EditAmount \/ Flip \/ PickToken \/ PickFee \/ LoadDev \/ InitRefresh
    \/ QuoteTimer \/ Refresh
    \/ Click \/ CliSwap
    \/ Include \/ Drop \/ OthersSwap \/ OthersCreate

Spec == Init /\ [][Next]_vars

-----------------------------------------------------------------------------
(* Safety.                                                                 *)

(* Once the timer has run out, the quote on the card is one for what the     *)
(* card shows, or there is none: in whatever order the user edits, the      *)
(* bridge gives up and the bindings fall back to another tier.              *)
QuoteFitsRequest == timer \/ ~Quoted \/ quote.of = card

(* What the pool paid when the quote was made, and what one unit of input   *)
(* more would have brought, rounded up.                                     *)
Fair(o) == ExactInputOut(o.seen.in, o.seen.out, o.fee, o.amount)

OneMore(o) ==
    LET eff == EffectiveIn(o.amount, o.fee) + 1
    IN  AtLeastOne(CeilDiv(o.seen.out * eff, o.seen.in + eff))

(* The quote of the CLI did not saturate.                                   *)
Exact(o) ==
    /\ Fits(o.amount * (FEE_BPS_DENOMINATOR - o.fee))
    /\ Fits(o.seen.out * EffectiveIn(o.amount, o.fee))
    /\ Fits(o.seen.in + EffectiveIn(o.amount, o.fee))

(* What doubles may be off in an output of n, rounded down: nothing below   *)
(* 2^48.                                                                   *)
Drift(n) == (32 * n) \div F64_EXACT

(* What the pool paid at the quote, less the slippage.                      *)
Promised(o) == (Fair(o) * (100 * F64_ONE - o.slip)) \div (100 * F64_ONE)

(* Whatever happened to the pool since, a swap that is included brings what  *)
(* the pool paid at the quote, less the slippage, to the unit that a product *)
(* of doubles may fall short of an integer by, and the drift.  A swap from   *)
(* the card may be sent before its quote is there, without one, or on one    *)
(* for the other direction of a pool that counts its legs the other way.     *)
SlippageHonoured ==
    [][\A o \in orders :
          (o \notin orders' /\ pools'[o.fee] # pools[o.fee])
            => \/ o.by = "card" /\ o.basis # "fits"
               \/ o.by = "cli" /\ ~Exact(o)
               \/ pools[o.fee].reserve[Other(o.pay)] - pools'[o.fee].reserve[Other(o.pay)]
                     >= Promised(o) - 1 - Drift(Fair(o))]_vars

(* A swap does not ask for what the pool could not have paid, but for the     *)
(* drift: the CLI for no more than the very output, unless the reserve       *)
(* overflows, which the program refuses; the card, which does not round the  *)
(* effective input, for no more than one unit of input more would have       *)
(* bought.                                                                 *)
BoundReachable ==
    \A o \in orders :
        \/ /\ o.by = "cli"
           /\ Fits(o.seen.in + EffectiveIn(o.amount, o.fee))
                => o.min <= Fair(o) + Drift(Fair(o))
        \/ /\ o.by = "card"
           /\ o.basis = "fits" => o.min <= OneMore(o) + Drift(OneMore(o))

(* "`pa`/`pb` are the def ids in the pool's actual a/b orientation - the     *)
(* swap direction needs that": what the card shows is the curve's output     *)
(* for the token that is paid.                                             *)
QuoteIsForPaidLeg ==
    Quoted =>
        quote.out = Printed(Curve(quote.seen.in, quote.seen.out,
                                  quote.of.amount, quote.of.fee))

=============================================================================
