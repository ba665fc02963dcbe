----------------------------- MODULE FfiTheorems -----------------------------
(***************************************************************************)
(* The calls of the FFI for every request, every pool and every balance,    *)
(* any number of calls on their way and any moves of others.                *)
(***************************************************************************)
EXTENDS FfiSafety, ArithmeticTheorems, SequenceTheorems

(* Each position of a call belongs to one token: its vault, the caller's    *)
(* holding and the caller's amount are all of that token.                   *)
Paired(c) ==
    /\ c.vaults \in Orders
    /\ c.users \in Holding \X Holding
    /\ c.caps \in Amount \X Amount
    /\ \A i \in 1 .. 2 : /\ c.users[i] = OwnedAt(c, c.vaults[i])
                         /\ c.caps[i] = CapOf(c, c.vaults[i])

FromRequest(c) ==
    /\ c.req \in Request
    /\ c.in = c.req.in /\ c.amount = c.req.amount /\ c.limit = c.req.limit

AtaEntry(c) == KindOf(c) = "ata" <=> c.via = "ata"

(* The accounts of a swap through single-use holdings.                      *)
PassedThrough(c) ==
    /\ c.vaults \in Orders
    /\ c.ends = <<OwnedAt(c, c.in), OwnedAt(c, Other(c.in))>>
    /\ c.users = IF c.via = "native"
                 THEN <<Of("once", c.in), Of("once", Other(c.in))>>
                 ELSE <<Of("once", c.vaults[1]), Of("once", c.vaults[2])>>
    /\ {c.ends[1], c.ends[2], c.users[1], c.users[2]} \subseteq c.signers

BuiltSwap(c) ==
    /\ c.op \in {"swap_in", "swap_out"}
    /\ FromRequest(c)
    /\ AtaEntry(c)
    /\ IF Through(c) THEN PassedThrough(c)
       ELSE Paired(c) /\ Authorised(c, OwnedAt(c, c.in))

BuiltAdd(c) ==
    /\ c.op = "add"
    /\ FromRequest(c)
    /\ AtaEntry(c)
    /\ Paired(c)
    /\ \A t \in Tokens : Authorised(c, OwnedAt(c, t))
    /\ c.lp = OwnedAt(c, "LP")
    /\ c.private => c.via # "ata" /\ c.lp \in c.signers
    /\ ~c.private => c.lp \notin c.signers

BuiltRemove(c) ==
    /\ c.op = "remove"
    /\ FromRequest(c)
    /\ Paired(c)
    /\ c.lp = OwnedAt(c, "LP")
    /\ c.entry # "remove_liquidity_ata" => AtaEntry(c) /\ Authorised(c, c.lp)

BuiltNew(c) ==
    /\ c.op = "new"
    /\ FromRequest(c)
    /\ Paired(c)
    /\ c.vaults = c.req.pair
    /\ c.pin \in BOOLEAN
    /\ {c.users[1], c.users[2]} \subseteq c.signers
    /\ c.lp = OwnedAt(c, "LP")
    /\ c.lp \in c.signers \/ c.via = "ata"

(* The calls that move one token between two holdings.                      *)
BuiltTransfer(c) ==
    /\ c.op = "transfer"
    /\ c.in \in Tokens /\ c.amount \in Amount
    /\ c.ends \in Holding \X Holding
    /\ c.ends[1] # c.ends[2] /\ c.ends[1].token = c.in /\ c.ends[2].token = c.in
    /\ Authorised(c, c.ends[1])
    /\ c.via \in {"ata", "wlez"} <=> c.entry \in {"ata_transfer", "wlez_wrap", "wlez_unwrap"}
    /\ c.via \notin {"ata", "wlez"} => c.ends[2] \in c.signers

BuiltInit(c) ==
    /\ c.op = "init"
    /\ c.ends \in Holding \X Holding
    /\ c.ends[1] = c.ends[2]
    /\ c.in = c.ends[1].token
    /\ c.via = "ata" <=> c.entry # "init_token_holding"
    /\ c.via # "ata" => c.ends[1] \in c.signers

(* What every entry point builds, whatever the state it is called in.       *)
Built(c) ==
    BuiltSwap(c) \/ BuiltAdd(c) \/ BuiltRemove(c) \/ BuiltNew(c) \/ BuiltTransfer(c)
        \/ BuiltInit(c)

(* The vaults of a call that is aligned are in the order of the pool, which *)
(* never changes.                                                          *)
InOrder(c) ==
    c.op \in {"swap_in", "swap_out", "add", "remove"} =>
        IF c.entry \in PoolOrderOnly THEN c.vaults = c.req.pair
        ELSE pool.exists /\ c.vaults = pool.legs

LedgerOK ==
    /\ pool \in PoolDefinition \cup {NoPool}
    /\ bal \in [Holding -> Nat \cup {Absent}]

LpBacked == Outside(bal, "LP") <= pool.supply

CallsBuilt == \A c \in ToSet(sent) : Built(c) /\ InOrder(c)

(* The inductive invariant.                                                *)
FfiInv == LedgerOK /\ LpBacked /\ CallsBuilt /\ sent \in Seq(ToSet(sent))

-----------------------------------------------------------------------------
(* Tokens, holdings and orders of the legs.                                *)

(* There are two tokens, and LP is neither.                                *)
LEMMA TwoTokens ==
    ASSUME NEW t \in Tokens
    PROVE  /\ Other(t) \in Tokens /\ Other(t) # t
           /\ Tokens = {t, Other(t)}
           /\ Other(Other(t)) = t
           /\ t # "LP"
<1>1. PICK u \in Tokens, v \in Tokens : u # v /\ Tokens = {u, v}
  BY PoolHandlersAssumption
<1>2. \E w \in Tokens : w # t
  BY <1>1
<1>3. Other(t) \in Tokens /\ Other(t) # t
  BY <1>2 DEF Other
<1>4. Tokens = {t, Other(t)}
  BY <1>1, <1>3
<1>5. Other(Other(t)) \in Tokens /\ Other(Other(t)) # Other(t)
  BY <1>3 DEF Other
<1> QED
  BY <1>3, <1>4, <1>5, PoolHandlersAssumption

(* An order of the legs has each token in one position.                    *)
LEMMA OrderFacts ==
    ASSUME NEW o \in Orders
    PROVE  /\ o[1] \in Tokens /\ o[2] \in Tokens /\ o[2] = Other(o[1]) /\ o[1] = Other(o[2])
           /\ Tokens = {o[1], o[2]}
           /\ o = <<o[1], o[2]>> /\ DOMAIN o = 1 .. 2 /\ Len(o) = 2
<1>1. o[1] \in Tokens /\ o[2] \in Tokens /\ o[1] # o[2] /\ o = <<o[1], o[2]>>
  BY DEF Orders
<1>2. Tokens = {o[1], o[2]} /\ o[2] = Other(o[1]) /\ o[1] = Other(o[2])
  BY <1>1, TwoTokens
<1>3. DOMAIN o = 1 .. 2 /\ Len(o) = 2
  BY <1>1
<1> QED
  BY <1>1, <1>2, <1>3

(* The position of a token.                                                *)
At(o, t) == CHOOSE i \in 1 .. 2 : o[i] = t

(* It is where the token is.                                               *)
LEMMA Position ==
    ASSUME NEW o \in Orders, NEW t \in Tokens
    PROVE  /\ At(o, t) \in 1 .. 2 /\ o[At(o, t)] = t
           /\ \A i \in 1 .. 2 : o[i] = t => i = At(o, t)
           /\ At(o, Other(t)) = 3 - At(o, t)
<1>1. \A u \in Tokens : \E i \in 1 .. 2 : o[i] = u
  BY OrderFacts
<1>2. \A u \in Tokens : At(o, u) \in 1 .. 2 /\ o[At(o, u)] = u
  BY <1>1 DEF At
<1>3. o[1] # o[2]
  BY DEF Orders
<1>4. Other(t) \in Tokens /\ Other(t) # t
  BY TwoTokens
<1>5. At(o, t) # At(o, Other(t))
  BY <1>2, <1>4
<1> QED
  BY <1>2, <1>3, <1>4, <1>5

(* Turning an order round.                                                 *)
LEMMA ReversedPair ==
    ASSUME NEW x, NEW y
    PROVE  Reverse(<<x, y>>) = <<y, x>>
BY DEF Reverse

(* Holdings.                                                               *)
LEMMA HoldingFacts ==
    /\ \A k \in {"key", "ata", "note"}, t \in Tokens \cup {"LP"} : Of(k, t) \in Holding
    /\ \A t \in Tokens : Of("once", t) \in Holding
    /\ Of("native", WLEZ) \in Holding
    /\ \A k, t : Of(k, t).kind = k /\ Of(k, t).token = t
    /\ Owner \notin Holding /\ Of("none", "none") \notin Holding
<1>1. \A k \in {"key", "ata", "note"}, t \in Tokens \cup {"LP"} : Of(k, t) \in Holding
  BY DEF Of, Holding
<1>2. /\ \A t \in Tokens : Of("once", t) \in Holding
      /\ Of("native", WLEZ) \in Holding
  BY DEF Of, Holding
<1>3. \A k, t : Of(k, t).kind = k /\ Of(k, t).token = t
  BY DEF Of
<1>4. \A h \in Holding : h.kind \in {"key", "ata", "note", "once", "native"}
  BY DEF Holding
<1> QED
  BY <1>1, <1>2, <1>3, <1>4 DEF Owner

(* A holding is known by its kind and its token.                           *)
LEMMA HoldingIs ==
    ASSUME NEW h \in Holding
    PROVE  /\ h = Of(h.kind, h.token)
           /\ h.kind \in {"key", "ata", "note", "once", "native"}
           /\ h.token \in Tokens \cup {"LP"}
BY PoolHandlersAssumption DEF Holding, Of

(* Where the caller's own units are is a holding of the token.              *)
LEMMA OwnedFacts ==
    ASSUME NEW c, NEW t \in Tokens \cup {"LP"}
    PROVE  OwnedAt(c, t) \in Holding /\ OwnedAt(c, t).token = t
<1>1. KindOf(c) \in {"key", "ata", "note"}
  BY DEF KindOf
<1> QED
  BY <1>1, HoldingFacts DEF OwnedAt

(* There are finitely many holdings of a token.                            *)
LEMMA FiniteHoldings ==
    ASSUME NEW t
    PROVE  IsFiniteSet(OfToken(t))
<1> DEFINE All == {Of("key", t), Of("ata", t), Of("note", t), Of("once", t), Of("native", t)}
<1>1. IsFiniteSet(All)
  <2>1. IsFiniteSet({Of("key", t)})
    BY FS_Singleton
  <2>2. IsFiniteSet({Of("key", t), Of("ata", t)})
    <3>1. {Of("key", t), Of("ata", t)} = {Of("key", t)} \cup {Of("ata", t)}
      OBVIOUS
    <3> QED
      BY <3>1, <2>1, FS_AddElement
  <2>3. IsFiniteSet({Of("key", t), Of("ata", t), Of("note", t)})
    <3>1. {Of("key", t), Of("ata", t), Of("note", t)} = {Of("key", t), Of("ata", t)} \cup {Of("note", t)}
      OBVIOUS
    <3> QED
      BY <3>1, <2>2, FS_AddElement
  <2>4. IsFiniteSet({Of("key", t), Of("ata", t), Of("note", t), Of("once", t)})
    <3>1. {Of("key", t), Of("ata", t), Of("note", t), Of("once", t)}
            = {Of("key", t), Of("ata", t), Of("note", t)} \cup {Of("once", t)}
      OBVIOUS
    <3> QED
      BY <3>1, <2>3, FS_AddElement
  <2>5. All = {Of("key", t), Of("ata", t), Of("note", t), Of("once", t)} \cup {Of("native", t)}
    OBVIOUS
  <2> QED
    BY <2>4, <2>5, FS_AddElement
<1>2. OfToken(t) \subseteq All
  BY HoldingIs DEF OfToken
<1> QED
  BY <1>1, <1>2, FS_Subset
-----------------------------------------------------------------------------
(* Building a call.                                                        *)

Fields == {"entry", "req", "op", "via", "in", "amount", "limit", "pin", "vaults", "users", "caps",
           "lp", "ends", "signers", "nonces", "private", "pins", "held", "pool", "clock"}

(* d is c but for the fields S.                                            *)
Like(d, c, S) == DOMAIN d = Fields /\ \A f \in Fields \ S : d[f] = c[f]

(* The record that is begun with.                                          *)
LEMMA CallFields ==
    ASSUME NEW r, NEW entry, NEW op, NEW via, NEW legs, NEW c, c = Call(r, entry, op, via, legs)
    PROVE  /\ DOMAIN c = Fields
           /\ c.entry = entry /\ c.req = r /\ c.op = op /\ c.via = via /\ c.in = r.in
           /\ c.amount = r.amount /\ c.limit = r.limit /\ c.vaults = legs.vaults
           /\ c.users = legs.users /\ c.caps = legs.caps /\ ~c.private
           /\ c.lp = Of("none", "none") /\ c.ends = <<>>
BY DEF Call, Fields

(* It pins the associated accounts or does not.                            *)
LEMMA CallPin ==
    ASSUME NEW r, NEW entry, NEW op, NEW via, NEW legs, NEW c, c = Call(r, entry, op, via, legs)
    PROVE  c.pin \in BOOLEAN
BY DEF Call

(* The LP holding is put in.                                               *)
LEMMA WithLpFields ==
    ASSUME NEW c, DOMAIN c = Fields, NEW kind, NEW d, d = WithLp(c, kind)
    PROVE  Like(d, c, {"lp"}) /\ d.lp = Of(kind, "LP")
BY DEF WithLp, Like, Fields

(* The two ends of the way are put in.                                     *)
LEMMA BetweenFields ==
    ASSUME NEW c, DOMAIN c = Fields, NEW from, NEW to, NEW d, d = Between(c, from, to)
    PROVE  Like(d, c, {"ends"}) /\ d.ends = <<from, to>>
BY DEF Between, Like, Fields

(* The pool is to know the associated accounts.                            *)
LEMMA PinningFields ==
    ASSUME NEW c, DOMAIN c = Fields, NEW d, d = PinningAta(c)
    PROVE  Like(d, c, {"pin"}) /\ d.pin \in BOOLEAN
BY DEF PinningAta, Like, Fields

(* A call that is sent is one more on its way.                             *)
LEMMA Sent ==
    ASSUME FfiInv, NEW c, Send(c), Built(c), InOrder(c)
    PROVE  FfiInv'
<1>1. /\ sent' = Append(sent, c) /\ pool' = pool /\ bal' = bal
      /\ sent \in Seq(ToSet(sent))
  BY DEF Send, chainVars, FfiInv
<1>2. ToSet(sent') = ToSet(sent) \cup {c} /\ sent' \in Seq(ToSet(sent) \cup {c})
  <2>1. sent \in Seq(ToSet(sent) \cup {c})
    BY <1>1, SeqMonotonic
  <2>2. sent' \in Seq(ToSet(sent) \cup {c}) /\ Len(sent') = Len(sent) + 1
        /\ \A i \in 1 .. Len(sent) : sent'[i] = sent[i]
        /\ sent'[Len(sent) + 1] = c
    BY <1>1, <2>1, AppendProperties
  <2>3. Len(sent) \in Nat /\ DOMAIN sent = 1 .. Len(sent) /\ DOMAIN sent' = 1 .. Len(sent')
    BY <2>1, <2>2, LenProperties
  <2> QED
    BY <2>2, <2>3 DEF ToSet
<1>3. CallsBuilt'
  <2> SUFFICES ASSUME NEW d \in ToSet(sent') PROVE Built(d)' /\ InOrder(d)'
    BY DEF CallsBuilt
  <2>1. Built(d) /\ InOrder(d)
    BY <1>2 DEF FfiInv, CallsBuilt
  <2> QED
    BY <1>1, <2>1 DEF InOrder, Built, BuiltSwap, BuiltAdd, BuiltRemove, BuiltNew, BuiltTransfer, BuiltInit
<1> QED
  BY <1>1, <1>2, <1>3 DEF FfiInv, LedgerOK, LpBacked

(* A signed call keeps the invariant if what is built is as it should be,    *)
(* whatever the nonces.                                                    *)
LEMMA Finalized ==
    ASSUME FfiInv, NEW c0, DOMAIN c0 = Fields, NEW S, Finalize(c0, S),
           \A c : Like(c, c0, {"signers", "nonces"}) /\ c.signers = S => Built(c) /\ InOrder(c)
    PROVE  FfiInv'
<1> DEFINE c == [c0 EXCEPT !.signers = S, !.nonces = Restrict(nonce, S)]
<1>1. Send(c)
  BY DEF Finalize
<1>2. Like(c, c0, {"signers", "nonces"}) /\ c.signers = S
  BY DEF Like, Fields
<1> HIDE DEF c
<1>3. Built(c) /\ InOrder(c)
  BY <1>2
<1> QED
  BY <1>1, <1>3, Sent

(* And a proved one.                                                       *)
LEMMA Proved ==
    ASSUME FfiInv, NEW c0, DOMAIN c0 = Fields, NEW pins, Prove(c0, pins),
           \A c : /\ Like(c, c0, {"signers", "nonces", "private", "pins", "held", "pool", "clock"})
                  /\ c.signers = Mine(c0) /\ c.private
                  => Built(c) /\ InOrder(c)
    PROVE  FfiInv'
<1> DEFINE c == [c0 EXCEPT !.signers = Mine(c0), !.nonces = Restrict(nonce, Mine(c0)),
                   !.private = TRUE, !.pins = pins, !.held = Restrict(bal, Mine(c0)),
                   !.pool = IF "pool" \in pins THEN pool ELSE NoPool,
                   !.clock = IF "clock" \in pins THEN clock ELSE 0]
<1>1. Send(c)
  BY DEF Prove
<1>2. /\ Like(c, c0, {"signers", "nonces", "private", "pins", "held", "pool", "clock"})
      /\ c.signers = Mine(c0) /\ c.private
  BY DEF Like, Fields
<1> HIDE DEF c
<1>3. Built(c) /\ InOrder(c)
  BY <1>2
<1> QED
  BY <1>1, <1>3, Sent

(* Legs that pair, of one kind of holding.                                 *)
LegsOf(legs, r, kind) ==
    /\ legs.vaults \in Orders
    /\ legs.users = <<Of(kind, legs.vaults[1]), Of(kind, legs.vaults[2])>>
    /\ legs.caps \in Amount \X Amount
    /\ \A i \in 1 .. 2 : legs.caps[i] = r.caps[At(r.pair, legs.vaults[i])]

(* Legs whose vaults are in the order the entry point is to send.           *)
GoodLegs(legs, r, kind, entry) ==
    /\ LegsOf(legs, r, kind)
    /\ IF entry \in PoolOrderOnly THEN legs.vaults = r.pair
       ELSE pool.exists /\ legs.vaults = pool.legs

(* A pool that exists is not NoPool.                                       *)
LEMMA PoolThatExists ==
    ASSUME LedgerOK
    PROVE  /\ pool.exists => /\ pool \in PoolDefinition
                             /\ pool.legs \in Orders
           /\ ~pool.exists => pool = NoPool
<1>1. pool \in PoolDefinition => pool.exists /\ pool.legs \in Orders
  BY DEF PoolDefinition
<1>2. ~NoPool.exists
  BY DEF NoPool
<1> QED
  BY <1>1, <1>2 DEF LedgerOK

(* The caller's order pairs.                                               *)
LEMMA GivenLegs ==
    ASSUME NEW r \in Request, NEW kind
    PROVE  LegsOf(AsGiven(r, kind), r, kind) /\ AsGiven(r, kind).vaults = r.pair
<1>1. r.pair \in Orders /\ r.caps \in Amount \X Amount
  BY DEF Request
<1>2. \A i \in 1 .. 2 : At(r.pair, r.pair[i]) = i
  BY <1>1, Position, OrderFacts
<1> QED
  BY <1>1, <1>2 DEF AsGiven, LegsOf

(* So does the pool's, after the alignment.                                *)
LEMMA AlignedLegs ==
    ASSUME LedgerOK, pool.exists, NEW r \in Request, NEW kind
    PROVE  LegsOf(Aligned(r, kind), r, kind) /\ Aligned(r, kind).vaults = pool.legs
<1>1. r.pair \in Orders /\ r.caps \in Amount \X Amount
  BY DEF Request
<1>2. pool.legs \in Orders
  BY PoolThatExists
<1>3. CASE NeedsLegFlip(r)
  <2>1. pool.legs[1] = r.pair[2] /\ pool.legs[2] = r.pair[1]
    BY <1>1, <1>2, <1>3, OrderFacts DEF NeedsLegFlip
  <2>2. pool.legs = <<r.pair[2], r.pair[1]>>
    BY <1>2, <2>1, OrderFacts
  <2>3. r.pair = <<r.pair[1], r.pair[2]>> /\ r.caps = <<r.caps[1], r.caps[2]>>
    BY <1>1, OrderFacts
  <2>4. Reverse(r.pair) = pool.legs /\ Reverse(r.caps) = <<r.caps[2], r.caps[1]>>
    BY <2>2, <2>3, ReversedPair
  <2>5. At(r.pair, r.pair[1]) = 1 /\ At(r.pair, r.pair[2]) = 2
    BY <1>1, Position, OrderFacts
  <2>6. Reverse(<<Of(kind, r.pair[1]), Of(kind, r.pair[2])>>)
          = <<Of(kind, pool.legs[1]), Of(kind, pool.legs[2])>>
    BY <2>1, ReversedPair
  <2>7. /\ Aligned(r, kind).vaults = pool.legs
        /\ Aligned(r, kind).users = <<Of(kind, pool.legs[1]), Of(kind, pool.legs[2])>>
        /\ Aligned(r, kind).caps = <<r.caps[2], r.caps[1]>>
    BY <1>3, <2>4, <2>6 DEF Aligned, AsGiven
  <2> QED
    BY <1>1, <1>2, <2>1, <2>5, <2>7 DEF LegsOf
<1>4. CASE ~NeedsLegFlip(r)
  <2>1. pool.legs = r.pair
    BY <1>1, <1>2, <1>4, OrderFacts DEF NeedsLegFlip
  <2>2. Aligned(r, kind) = AsGiven(r, kind)
    BY <1>4 DEF Aligned
  <2> QED
    BY <2>1, <2>2, GivenLegs
<1> QED
  BY <1>3, <1>4

(* What the entry points that know the pool send, and those that do not.    *)
LEMMA LegsAreGood ==
    ASSUME FfiInv, NEW r \in Request, NEW kind, NEW entry
    PROVE  /\ entry \in PoolOrderOnly => GoodLegs(AsGiven(r, kind), r, kind, entry)
           /\ entry \notin PoolOrderOnly /\ pool.exists
                => GoodLegs(Aligned(r, kind), r, kind, entry)
BY GivenLegs, AlignedLegs DEF GoodLegs, FfiInv

(* The kind of holding is known by the entry point.                        *)
Uses(entry, private, kind) ==
    \A c : c.entry = entry /\ c.private = private => KindOf(c) = kind

(* Then the legs of the call pair.                                         *)
LEMMA LegsPair ==
    ASSUME NEW c, NEW r \in Request, c.req = r, c.via # "native",
           KindOf(c) \in {"key", "ata", "note"}, LegsOf(c, r, KindOf(c))
    PROVE  /\ Paired(c)
           /\ \A t \in Tokens : OwnedAt(c, t) = Of(KindOf(c), t)
           /\ c.entry # "v2_new_pool_ata" => OwnedAt(c, "LP") = Of(KindOf(c), "LP")
           /\ c.entry = "v2_new_pool_ata" => OwnedAt(c, "LP") = Of("ata", "LP")
<1>1. \A t \in Tokens : OwnedAt(c, t) = Of(KindOf(c), t)
  BY PoolHandlersAssumption DEF OwnedAt
<1>2. /\ c.entry # "v2_new_pool_ata" => OwnedAt(c, "LP") = Of(KindOf(c), "LP")
      /\ c.entry = "v2_new_pool_ata" => OwnedAt(c, "LP") = Of("ata", "LP")
  BY DEF OwnedAt
<1>3. c.vaults \in Orders
  BY DEF LegsOf
<1>4. \A i \in 1 .. 2 : CapOf(c, c.vaults[i]) = r.caps[At(r.pair, c.vaults[i])]
  BY DEF CapOf, At
<1>5. c.users \in Holding \X Holding
  BY <1>3, OrderFacts, HoldingFacts DEF LegsOf
<1> QED
  BY <1>1, <1>2, <1>3, <1>4, <1>5, OrderFacts DEF Paired, LegsOf

-----------------------------------------------------------------------------
(* What is built, by the kind of call.                                     *)

(* Swaps out of the caller's own public holdings.                           *)
LEMMA SwapSent ==
    ASSUME FfiInv, NEW r \in Request, NEW entry, NEW op \in {"swap_in", "swap_out"},
           NEW via \in {"token", "ata"}, NEW kind \in {"key", "ata"}, kind = "ata" <=> via = "ata",
           NEW legs, GoodLegs(legs, r, kind, entry), Uses(entry, FALSE, kind),
           NEW S, IF via = "ata" THEN Owner \in S ELSE Of(kind, r.in) \in S,
           Finalize(Call(r, entry, op, via, legs), S)
    PROVE  FfiInv'
<1> DEFINE c0 == Call(r, entry, op, via, legs)
<1>1. DOMAIN c0 = Fields
  BY CallFields
<1>2. ASSUME NEW c, Like(c, c0, {"signers", "nonces"}), c.signers = S
      PROVE  Built(c) /\ InOrder(c)
  <2>1. /\ c.entry = entry /\ c.req = r /\ c.op = op /\ c.via = via /\ c.in = r.in
        /\ c.amount = r.amount /\ c.limit = r.limit /\ c.vaults = legs.vaults
        /\ c.users = legs.users /\ c.caps = legs.caps /\ c.private = FALSE
    BY <1>2, CallFields DEF Like, Fields
  <2>2. KindOf(c) = kind
    BY <2>1 DEF Uses
  <2>3. Paired(c) /\ \A t \in Tokens : OwnedAt(c, t) = Of(kind, t)
    BY <2>1, <2>2, LegsPair DEF LegsOf, GoodLegs
  <2>4. r.in \in Tokens
    BY DEF Request
  <2>5. Authorised(c, OwnedAt(c, c.in))
    BY <1>2, <2>1, <2>3, <2>4, HoldingFacts DEF Authorised
  <2>6. BuiltSwap(c)
    BY <2>1, <2>2, <2>3, <2>5 DEF BuiltSwap, FromRequest, AtaEntry, Through
  <2> QED
    BY <2>1, <2>6 DEF Built, InOrder, GoodLegs
<1> QED
  BY <1>1, <1>2, Finalized

(* What a proof is authorised for.                                         *)
LEMMA MineFacts ==
    ASSUME NEW c
    PROVE  /\ \A h \in Holding : h \in Range(c.users) => h \in Mine(c)
           /\ \A h \in Holding : h \in Range(c.ends) => h \in Mine(c)
           /\ c.lp \in Holding => c.lp \in Mine(c)
BY DEF Mine

(* Swaps out of private notes.                                             *)
LEMMA PrivateSwapSent ==
    ASSUME FfiInv, NEW r \in Request, NEW entry, NEW op \in {"swap_in", "swap_out"},
           NEW legs, GoodLegs(legs, r, "note", entry), Uses(entry, TRUE, "note"),
           NEW pins, Prove(Call(r, entry, op, "token", legs), pins)
    PROVE  FfiInv'
<1> DEFINE c0 == Call(r, entry, op, "token", legs)
<1>1. DOMAIN c0 = Fields
  BY CallFields
<1>2. ASSUME NEW c, Like(c, c0, {"signers", "nonces", "private", "pins", "held", "pool", "clock"}),
             c.signers = Mine(c0), c.private
      PROVE  Built(c) /\ InOrder(c)
  <2>1. /\ c.entry = entry /\ c.req = r /\ c.op = op /\ c.via = "token" /\ c.in = r.in
        /\ c.amount = r.amount /\ c.limit = r.limit /\ c.vaults = legs.vaults
        /\ c.users = legs.users /\ c.caps = legs.caps /\ c0.users = legs.users
    BY <1>2, CallFields DEF Like, Fields
  <2>2. KindOf(c) = "note"
    BY <1>2, <2>1 DEF Uses
  <2>3. Paired(c) /\ \A t \in Tokens : OwnedAt(c, t) = Of("note", t)
    BY <2>1, <2>2, LegsPair DEF LegsOf, GoodLegs
  <2>4. r.in \in Tokens
    BY DEF Request
  <2>5. Of("note", r.in) \in Holding /\ Of("note", r.in) \in Range(c0.users)
    BY <2>1, <2>4, HoldingFacts, OrderFacts DEF GoodLegs, LegsOf, Range
  <2>6. Authorised(c, OwnedAt(c, c.in))
    BY <1>2, <2>1, <2>3, <2>4, <2>5, MineFacts DEF Authorised
  <2>7. BuiltSwap(c)
    BY <2>1, <2>2, <2>3, <2>6 DEF BuiltSwap, FromRequest, AtaEntry, Through
  <2> QED
    BY <2>1, <2>7 DEF Built, InOrder, GoodLegs
<1> QED
  BY <1>1, <1>2, Proved

(* Swaps through single-use holdings.                                      *)
LEMMA ThroughSent ==
    ASSUME FfiInv, NEW r \in Request, NEW entry, NEW via \in {"once", "native"},
           NEW legs, legs.vaults \in Orders,
           legs.users = IF via = "native"
                        THEN <<Of("once", r.in), Of("once", Other(r.in))>>
                        ELSE <<Of("once", legs.vaults[1]), Of("once", legs.vaults[2])>>,
           IF entry \in PoolOrderOnly THEN legs.vaults = r.pair
           ELSE pool.exists /\ legs.vaults = pool.legs,
           Uses(entry, TRUE, "note"),
           NEW from, NEW to, from = IF via = "native" /\ r.in = WLEZ THEN Of("native", WLEZ)
                                    ELSE Of("note", r.in),
           to = IF via = "native" /\ Other(r.in) = WLEZ THEN Of("native", WLEZ)
                ELSE Of("note", Other(r.in)),
           NEW pins, Prove(Between(Call(r, entry, "swap_in", via, legs), from, to), pins)
    PROVE  FfiInv'
<1> DEFINE c1 == Call(r, entry, "swap_in", via, legs)
           c0 == Between(c1, from, to)
<1>1. DOMAIN c1 = Fields
  BY CallFields
<1>2. Like(c0, c1, {"ends"}) /\ c0.ends = <<from, to>>
  BY <1>1, BetweenFields
<1>3. DOMAIN c0 = Fields
  BY <1>2 DEF Like
<1>4. ASSUME NEW c, Like(c, c0, {"signers", "nonces", "private", "pins", "held", "pool", "clock"}),
             c.signers = Mine(c0), c.private
      PROVE  Built(c) /\ InOrder(c)
  <2>0. /\ c0.entry = entry /\ c0.req = r /\ c0.op = "swap_in" /\ c0.via = via /\ c0.in = r.in
        /\ c0.amount = r.amount /\ c0.limit = r.limit /\ c0.vaults = legs.vaults
        /\ c0.users = legs.users
    BY <1>2, CallFields DEF Like, Fields
  <2>1. /\ c.entry = entry /\ c.req = r /\ c.op = "swap_in" /\ c.via = via /\ c.in = r.in
        /\ c.amount = r.amount /\ c.limit = r.limit /\ c.vaults = legs.vaults
        /\ c.users = legs.users /\ c.ends = <<from, to>> /\ c0.users = legs.users
        /\ c0.ends = <<from, to>>
    BY <1>4, <1>2, <2>0 DEF Like, Fields
  <2>2. KindOf(c) = "note"
    BY <1>4, <2>1 DEF Uses
  <2>3. r.in \in Tokens /\ Other(r.in) \in Tokens /\ r.in # "LP" /\ Other(r.in) # "LP"
    BY TwoTokens DEF Request
  <2>4. from = OwnedAt(c, r.in) /\ to = OwnedAt(c, Other(r.in))
    BY <2>1, <2>2, <2>3 DEF OwnedAt
  <2>5. \A i \in 1 .. 2 : c.users[i] \in Holding /\ c.users[i] \in Range(c0.users)
    <3>1. legs.vaults[1] \in Tokens /\ legs.vaults[2] \in Tokens
      BY OrderFacts
    <3>2. DOMAIN legs.users = 1 .. 2 /\ c.users = legs.users
      BY <2>1
    <3>3. legs.users[1] \in Holding /\ legs.users[2] \in Holding
      BY <2>3, <3>1, HoldingFacts
    <3>4. Range(c0.users) = {legs.users[1], legs.users[2]}
      BY <2>1, <3>2 DEF Range
    <3> QED
      BY <3>2, <3>3, <3>4
  <2>6. from \in Holding /\ to \in Holding /\ from \in Range(c0.ends) /\ to \in Range(c0.ends)
    <3>1. Range(c0.ends) = {from, to}
      BY <2>1 DEF Range
    <3>2. from \in Holding /\ to \in Holding
      BY <2>3, <2>4, OwnedFacts
    <3> QED
      BY <3>1, <3>2
  <2>7. {from, to, c.users[1], c.users[2]} \subseteq c.signers
    BY <1>4, <2>5, <2>6, MineFacts
  <2>8. PassedThrough(c)
    BY <2>1, <2>4, <2>7 DEF PassedThrough
  <2>9. BuiltSwap(c)
    BY <2>1, <2>2, <2>8 DEF BuiltSwap, FromRequest, AtaEntry, Through
  <2> QED
    BY <2>1, <2>9 DEF Built, InOrder
<1> QED
  BY <1>3, <1>4, Proved

(* Deposits out of public holdings.                                        *)
LEMMA AddSent ==
    ASSUME FfiInv, NEW r \in Request, NEW entry, entry # "v2_new_pool_ata",
           NEW via \in {"token", "ata"}, NEW kind \in {"key", "ata"}, kind = "ata" <=> via = "ata",
           NEW legs, GoodLegs(legs, r, kind, entry), Uses(entry, FALSE, kind),
           NEW S, S = IF via = "ata" THEN {Owner} ELSE Keys(r),
           Finalize(WithLp(Call(r, entry, "add", via, legs), kind), S)
    PROVE  FfiInv'
<1> DEFINE c1 == Call(r, entry, "add", via, legs)
           c0 == WithLp(c1, kind)
<1>1. DOMAIN c1 = Fields
  BY CallFields
<1>2. Like(c0, c1, {"lp"}) /\ c0.lp = Of(kind, "LP")
  BY <1>1, WithLpFields
<1>3. DOMAIN c0 = Fields
  BY <1>2 DEF Like
<1>4. ASSUME NEW c, Like(c, c0, {"signers", "nonces"}), c.signers = S
      PROVE  Built(c) /\ InOrder(c)
  <2>0. /\ c0.entry = entry /\ c0.req = r /\ c0.op = "add" /\ c0.via = via /\ c0.in = r.in
        /\ c0.amount = r.amount /\ c0.limit = r.limit /\ c0.vaults = legs.vaults
        /\ c0.users = legs.users /\ c0.caps = legs.caps /\ c0.private = FALSE
    BY <1>2, CallFields DEF Like, Fields
  <2>1. /\ c.entry = entry /\ c.req = r /\ c.op = "add" /\ c.via = via /\ c.in = r.in
        /\ c.amount = r.amount /\ c.limit = r.limit /\ c.vaults = legs.vaults
        /\ c.users = legs.users /\ c.caps = legs.caps /\ c.private = FALSE
        /\ c.lp = Of(kind, "LP")
    BY <1>4, <1>2, <2>0 DEF Like, Fields
  <2>2. KindOf(c) = kind
    BY <2>1 DEF Uses
  <2>3. /\ Paired(c) /\ \A t \in Tokens : OwnedAt(c, t) = Of(kind, t)
        /\ c.lp = OwnedAt(c, "LP")
    BY <2>1, <2>2, LegsPair DEF LegsOf, GoodLegs
  <2>4. Tokens = {r.pair[1], r.pair[2]}
    BY OrderFacts DEF Request
  <2>5. \A t \in Tokens : Authorised(c, OwnedAt(c, t))
    BY <1>4, <2>1, <2>3, <2>4, HoldingFacts DEF Authorised, Keys, Key
  <2>6. c.lp \notin c.signers
    <3>1. c.lp # Key(r.pair[1]) /\ c.lp # Key(r.pair[2])
      BY <2>1, <2>4, HoldingFacts, PoolHandlersAssumption DEF Key
    <3>2. c.lp # Owner
      BY <2>1, HoldingFacts DEF Owner
    <3> QED
      BY <1>4, <3>1, <3>2 DEF Keys
  <2>7. BuiltAdd(c)
    BY <2>1, <2>2, <2>3, <2>5, <2>6 DEF BuiltAdd, FromRequest, AtaEntry
  <2> QED
    BY <2>1, <2>7 DEF Built, InOrder, GoodLegs
<1> QED
  BY <1>3, <1>4, Finalized

(* The accounts of a private liquidity call are authorised.                 *)
LEMMA PrivateLegs ==
    ASSUME NEW c, NEW legs, legs.vaults \in Orders, c.users = legs.users, c.lp = Of("note", "LP"),
           legs.users = <<Of("note", legs.vaults[1]), Of("note", legs.vaults[2])>>
    PROVE  /\ \A t \in Tokens : Of("note", t) \in Mine(c)
           /\ c.lp \in Mine(c)
<1>1. Tokens = {legs.vaults[1], legs.vaults[2]}
  BY OrderFacts
<1>2. DOMAIN legs.users = 1 .. 2
  OBVIOUS
<1>3. \A t \in Tokens : Of("note", t) \in Holding /\ Of("note", t) \in Range(c.users)
  BY <1>1, <1>2, HoldingFacts DEF Range
<1>4. c.lp \in Holding
  BY HoldingFacts
<1> QED
  BY <1>3, <1>4, MineFacts

(* Private deposits.                                                       *)
LEMMA PrivateAddSent ==
    ASSUME FfiInv, NEW r \in Request, NEW entry, entry # "v2_new_pool_ata",
           NEW legs, GoodLegs(legs, r, "note", entry), Uses(entry, TRUE, "note"),
           NEW pins, Prove(WithLp(Call(r, entry, "add", "token", legs), "note"), pins)
    PROVE  FfiInv'
<1> DEFINE c1 == Call(r, entry, "add", "token", legs)
           c0 == WithLp(c1, "note")
<1>1. DOMAIN c1 = Fields
  BY CallFields
<1>2. Like(c0, c1, {"lp"}) /\ c0.lp = Of("note", "LP")
  BY <1>1, WithLpFields
<1>3. DOMAIN c0 = Fields
  BY <1>2 DEF Like
<1>4. ASSUME NEW c, Like(c, c0, {"signers", "nonces", "private", "pins", "held", "pool", "clock"}),
             c.signers = Mine(c0), c.private
      PROVE  Built(c) /\ InOrder(c)
  <2>0. /\ c0.entry = entry /\ c0.req = r /\ c0.op = "add" /\ c0.via = "token" /\ c0.in = r.in
        /\ c0.amount = r.amount /\ c0.limit = r.limit /\ c0.vaults = legs.vaults
        /\ c0.users = legs.users /\ c0.caps = legs.caps
    BY <1>2, CallFields DEF Like, Fields
  <2>1. /\ c.entry = entry /\ c.req = r /\ c.op = "add" /\ c.via = "token" /\ c.in = r.in
        /\ c.amount = r.amount /\ c.limit = r.limit /\ c.vaults = legs.vaults
        /\ c.users = legs.users /\ c.caps = legs.caps /\ c.lp = Of("note", "LP")
    BY <1>4, <1>2, <2>0 DEF Like, Fields
  <2>2. KindOf(c) = "note"
    BY <1>4, <2>1 DEF Uses
  <2>3. /\ Paired(c) /\ \A t \in Tokens : OwnedAt(c, t) = Of("note", t)
        /\ c.lp = OwnedAt(c, "LP")
    BY <2>1, <2>2, LegsPair DEF LegsOf, GoodLegs
  <2>4. (\A t \in Tokens : Of("note", t) \in c.signers) /\ c.lp \in c.signers
    BY <1>4, <1>2, <2>0, <2>1, PrivateLegs DEF GoodLegs, LegsOf
  <2>5. BuiltAdd(c)
    BY <1>4, <2>1, <2>2, <2>3, <2>4 DEF BuiltAdd, FromRequest, AtaEntry, Authorised
  <2> QED
    BY <2>1, <2>5 DEF Built, InOrder, GoodLegs
<1> QED
  BY <1>3, <1>4, Proved

(* Withdrawals to public holdings.                                         *)
LEMMA RemoveSent ==
    ASSUME FfiInv, NEW r \in Request, NEW entry, entry # "v2_new_pool_ata",
           NEW via \in {"token", "ata"}, NEW kind \in {"key", "ata"},
           entry # "remove_liquidity_ata" => (kind = "ata" <=> via = "ata"),
           NEW legs, GoodLegs(legs, r, kind, entry), Uses(entry, FALSE, kind),
           NEW S, S = IF kind = "ata" THEN {Owner} ELSE {Key("LP")},
           Finalize(WithLp(Call(r, entry, "remove", via, legs), kind), S)
    PROVE  FfiInv'
<1> DEFINE c1 == Call(r, entry, "remove", via, legs)
           c0 == WithLp(c1, kind)
<1>1. DOMAIN c1 = Fields
  BY CallFields
<1>2. Like(c0, c1, {"lp"}) /\ c0.lp = Of(kind, "LP")
  BY <1>1, WithLpFields
<1>3. DOMAIN c0 = Fields
  BY <1>2 DEF Like
<1>4. ASSUME NEW c, Like(c, c0, {"signers", "nonces"}), c.signers = S
      PROVE  Built(c) /\ InOrder(c)
  <2>0. /\ c0.entry = entry /\ c0.req = r /\ c0.op = "remove" /\ c0.via = via /\ c0.in = r.in
        /\ c0.amount = r.amount /\ c0.limit = r.limit /\ c0.vaults = legs.vaults
        /\ c0.users = legs.users /\ c0.caps = legs.caps /\ c0.private = FALSE
    BY <1>2, CallFields DEF Like, Fields
  <2>1. /\ c.entry = entry /\ c.req = r /\ c.op = "remove" /\ c.via = via /\ c.in = r.in
        /\ c.amount = r.amount /\ c.limit = r.limit /\ c.vaults = legs.vaults
        /\ c.users = legs.users /\ c.caps = legs.caps /\ c.private = FALSE
        /\ c.lp = Of(kind, "LP")
    BY <1>4, <1>2, <2>0 DEF Like, Fields
  <2>2. KindOf(c) = kind
    BY <2>1 DEF Uses
  <2>3. Paired(c) /\ c.lp = OwnedAt(c, "LP")
    BY <2>1, <2>2, LegsPair DEF LegsOf, GoodLegs
  <2>4. entry # "remove_liquidity_ata" => Authorised(c, c.lp)
    BY <1>4, <2>1, HoldingFacts DEF Authorised, Key
  <2>5. BuiltRemove(c)
    BY <2>1, <2>2, <2>3, <2>4 DEF BuiltRemove, FromRequest, AtaEntry
  <2> QED
    BY <2>1, <2>5 DEF Built, InOrder, GoodLegs
<1> QED
  BY <1>3, <1>4, Finalized

(* Private withdrawals.                                                    *)
LEMMA PrivateRemoveSent ==
    ASSUME FfiInv, NEW r \in Request, NEW entry, entry # "v2_new_pool_ata",
           NEW legs, GoodLegs(legs, r, "note", entry), Uses(entry, TRUE, "note"),
           NEW pins, Prove(WithLp(Call(r, entry, "remove", "token", legs), "note"), pins)
    PROVE  FfiInv'
<1> DEFINE c1 == Call(r, entry, "remove", "token", legs)
           c0 == WithLp(c1, "note")
<1>1. DOMAIN c1 = Fields
  BY CallFields
<1>2. Like(c0, c1, {"lp"}) /\ c0.lp = Of("note", "LP")
  BY <1>1, WithLpFields
<1>3. DOMAIN c0 = Fields
  BY <1>2 DEF Like
<1>4. ASSUME NEW c, Like(c, c0, {"signers", "nonces", "private", "pins", "held", "pool", "clock"}),
             c.signers = Mine(c0), c.private
      PROVE  Built(c) /\ InOrder(c)
  <2>0. /\ c0.entry = entry /\ c0.req = r /\ c0.op = "remove" /\ c0.via = "token" /\ c0.in = r.in
        /\ c0.amount = r.amount /\ c0.limit = r.limit /\ c0.vaults = legs.vaults
        /\ c0.users = legs.users /\ c0.caps = legs.caps
    BY <1>2, CallFields DEF Like, Fields
  <2>1. /\ c.entry = entry /\ c.req = r /\ c.op = "remove" /\ c.via = "token" /\ c.in = r.in
        /\ c.amount = r.amount /\ c.limit = r.limit /\ c.vaults = legs.vaults
        /\ c.users = legs.users /\ c.caps = legs.caps /\ c.lp = Of("note", "LP")
    BY <1>4, <1>2, <2>0 DEF Like, Fields
  <2>2. KindOf(c) = "note"
    BY <1>4, <2>1 DEF Uses
  <2>3. Paired(c) /\ c.lp = OwnedAt(c, "LP")
    BY <2>1, <2>2, LegsPair DEF LegsOf, GoodLegs
  <2>4. c.lp \in c.signers
    BY <1>4, <1>2, <2>0, <2>1, PrivateLegs DEF GoodLegs, LegsOf
  <2>5. BuiltRemove(c)
    BY <1>4, <2>1, <2>2, <2>3, <2>4 DEF BuiltRemove, FromRequest, AtaEntry, Authorised
  <2> QED
    BY <2>1, <2>5 DEF Built, InOrder, GoodLegs
<1> QED
  BY <1>3, <1>4, Proved

(* New pools.                                                              *)
LEMMA NewSent ==
    ASSUME FfiInv, NEW r \in Request, NEW entry, NEW via \in {"token", "ata"},
           NEW kind, kind = IF entry = "v2_new_pool_ata" THEN "ata" ELSE "key",
           Uses(entry, FALSE, "key"),
           NEW S, Keys(r) \subseteq S, via = "token" => Of(kind, "LP") \in S,
           \/ Finalize(WithLp(Call(r, entry, "new", via, AsGiven(r, "key")), kind), S)
           \/ Finalize(PinningAta(WithLp(Call(r, entry, "new", via, AsGiven(r, "key")), kind)), S)
    PROVE  FfiInv'
<1> DEFINE c1 == Call(r, entry, "new", via, AsGiven(r, "key"))
           c2 == WithLp(c1, kind)
<1>0. PICK c0 : (c0 = c2 \/ c0 = PinningAta(c2)) /\ Finalize(c0, S)
  OBVIOUS
<1>1. DOMAIN c1 = Fields
  BY CallFields
<1>2. Like(c2, c1, {"lp"}) /\ c2.lp = Of(kind, "LP")
  BY <1>1, WithLpFields
<1>3. DOMAIN c2 = Fields
  BY <1>2 DEF Like
<1>4. Like(c0, c2, {"pin"}) /\ c0.pin \in BOOLEAN
  <2>1. Like(PinningAta(c2), c2, {"pin"}) /\ PinningAta(c2).pin \in BOOLEAN
    BY <1>3, PinningFields
  <2>2. c1.pin \in BOOLEAN
    BY CallPin
  <2>3. Like(c2, c2, {"pin"}) /\ c2.pin = c1.pin
    BY <1>2, <1>3 DEF Like, Fields
  <2> QED
    BY <1>0, <2>1, <2>2, <2>3
<1>5. DOMAIN c0 = Fields
  BY <1>4 DEF Like
<1>6. ASSUME NEW c, Like(c, c0, {"signers", "nonces"}), c.signers = S
      PROVE  Built(c) /\ InOrder(c)
  <2> DEFINE legs == AsGiven(r, "key")
  <2>1. /\ c1.entry = entry /\ c1.req = r /\ c1.op = "new" /\ c1.via = via /\ c1.in = r.in
        /\ c1.amount = r.amount /\ c1.limit = r.limit /\ c1.vaults = legs.vaults
        /\ c1.users = legs.users /\ c1.caps = legs.caps /\ c1.private = FALSE
    BY CallFields
  <2> HIDE DEF legs
  <2>2. /\ c2.entry = entry /\ c2.req = r /\ c2.op = "new" /\ c2.via = via /\ c2.in = r.in
        /\ c2.amount = r.amount /\ c2.limit = r.limit /\ c2.vaults = legs.vaults
        /\ c2.users = legs.users /\ c2.caps = legs.caps /\ c2.private = FALSE
    BY <1>2, <2>1 DEF Like, Fields
  <2> HIDE DEF c2
  <2>3. /\ c0.entry = entry /\ c0.req = r /\ c0.op = "new" /\ c0.via = via /\ c0.in = r.in
        /\ c0.amount = r.amount /\ c0.limit = r.limit /\ c0.vaults = legs.vaults
        /\ c0.users = legs.users /\ c0.caps = legs.caps /\ c0.private = FALSE
        /\ c0.lp = Of(kind, "LP") /\ c0.pin \in BOOLEAN
    BY <1>2, <1>4, <2>2 DEF Like, Fields
  <2>4. /\ c.entry = entry /\ c.req = r /\ c.op = "new" /\ c.via = via /\ c.in = r.in
        /\ c.amount = r.amount /\ c.limit = r.limit /\ c.vaults = legs.vaults
        /\ c.users = legs.users /\ c.caps = legs.caps /\ c.private = FALSE
        /\ c.lp = Of(kind, "LP") /\ c.pin \in BOOLEAN
    BY <1>6, <2>3 DEF Like, Fields
  <2>5. KindOf(c) = "key"
    BY <2>4 DEF Uses
  <2>6. LegsOf(legs, r, "key") /\ legs.vaults = r.pair
    BY GivenLegs DEF legs
  <2>7. /\ Paired(c) /\ \A t \in Tokens : OwnedAt(c, t) = Of("key", t)
        /\ c.lp = OwnedAt(c, "LP")
    BY <2>4, <2>5, <2>6, LegsPair DEF LegsOf
  <2>8. c.users = <<Key(r.pair[1]), Key(r.pair[2])>>
    BY <2>4, <2>6 DEF LegsOf, Key
  <2>9. {c.users[1], c.users[2]} \subseteq c.signers
    BY <1>6, <2>8 DEF Keys
  <2>10. BuiltNew(c)
    BY <1>6, <2>4, <2>6, <2>7, <2>9 DEF BuiltNew, FromRequest
  <2> QED
    BY <2>4, <2>10 DEF Built, InOrder
<1> QED
  BY <1>0, <1>5, <1>6, Finalized

(* A signed move of one token.                                             *)
LEMMA MoveSigned ==
    ASSUME FfiInv, NEW entry, NEW via, NEW token \in Tokens, NEW amount \in Amount,
           NEW from \in Holding, NEW to \in Holding, from # to, from.token = token, to.token = token,
           \/ via = "ata" /\ entry = "ata_transfer"
           \/ via = "wlez" /\ entry \in {"wlez_wrap", "wlez_unwrap"},
           NEW S, via = "ata" => from.kind = "ata" /\ Owner \in S, via # "ata" => from \in S,
           Finalize(Moving(entry, via, token, amount, from, to), S)
    PROVE  FfiInv'
<1> DEFINE c1 == Call(Plain(token, amount), entry, "transfer", via, NoLegs)
           c0 == Moving(entry, via, token, amount, from, to)
<1>1. DOMAIN c1 = Fields /\ c0 = Between(c1, from, to)
  BY CallFields DEF Moving
<1>2. Like(c0, c1, {"ends"}) /\ c0.ends = <<from, to>>
  BY <1>1, BetweenFields
<1>3. DOMAIN c0 = Fields
  BY <1>2 DEF Like
<1>4. /\ c1.entry = entry /\ c1.op = "transfer" /\ c1.via = via /\ c1.in = token
      /\ c1.amount = amount
  BY CallFields DEF Plain
<1> HIDE DEF c1, c0
<1>5. /\ c0.entry = entry /\ c0.op = "transfer" /\ c0.via = via /\ c0.in = token
      /\ c0.amount = amount
  BY <1>2, <1>4 DEF Like, Fields
<1>6. ASSUME NEW c, Like(c, c0, {"signers", "nonces"}), c.signers = S
      PROVE  Built(c) /\ InOrder(c)
  <2>1. /\ c.entry = entry /\ c.op = "transfer" /\ c.via = via /\ c.in = token
        /\ c.amount = amount /\ c.ends = <<from, to>>
    BY <1>2, <1>5, <1>6 DEF Like, Fields
  <2>2. Authorised(c, c.ends[1])
    BY <1>6, <2>1 DEF Authorised
  <2>3. BuiltTransfer(c)
    BY <2>1, <2>2 DEF BuiltTransfer
  <2> QED
    BY <2>1, <2>3 DEF Built, InOrder
<1> QED
  BY <1>3, <1>6, Finalized DEF c0

(* A proved one.                                                           *)
LEMMA MoveProved ==
    ASSUME FfiInv, NEW entry \in {"token_shield", "token_deshield"}, NEW token \in Tokens,
           NEW amount \in Amount, NEW from \in Holding, NEW to \in Holding, from # to,
           from.token = token, to.token = token,
           NEW pins, Prove(Moving(entry, "token", token, amount, from, to), pins)
    PROVE  FfiInv'
<1> DEFINE c1 == Call(Plain(token, amount), entry, "transfer", "token", NoLegs)
           c0 == Moving(entry, "token", token, amount, from, to)
<1>1. DOMAIN c1 = Fields /\ c0 = Between(c1, from, to)
  BY CallFields DEF Moving
<1>2. Like(c0, c1, {"ends"}) /\ c0.ends = <<from, to>>
  BY <1>1, BetweenFields
<1>3. DOMAIN c0 = Fields
  BY <1>2 DEF Like
<1>4. /\ c1.entry = entry /\ c1.op = "transfer" /\ c1.via = "token" /\ c1.in = token
      /\ c1.amount = amount
  BY CallFields DEF Plain
<1> HIDE DEF c1, c0
<1>5. /\ c0.entry = entry /\ c0.op = "transfer" /\ c0.via = "token" /\ c0.in = token
      /\ c0.amount = amount
  BY <1>2, <1>4 DEF Like, Fields
<1>6. ASSUME NEW c, Like(c, c0, {"signers", "nonces", "private", "pins", "held", "pool", "clock"}),
             c.signers = Mine(c0), c.private
      PROVE  Built(c) /\ InOrder(c)
  <2>1. /\ c.entry = entry /\ c.op = "transfer" /\ c.via = "token" /\ c.in = token
        /\ c.amount = amount /\ c.ends = <<from, to>>
    BY <1>2, <1>5, <1>6 DEF Like, Fields
  <2>2. from \in c.signers /\ to \in c.signers
    BY <1>2, <1>6, MineFacts DEF Range
  <2>3. Authorised(c, c.ends[1])
    BY <2>1, <2>2 DEF Authorised
  <2>4. BuiltTransfer(c)
    BY <2>1, <2>2, <2>3 DEF BuiltTransfer
  <2> QED
    BY <2>1, <2>4 DEF Built, InOrder
<1> QED
  BY <1>3, <1>6, Proved DEF c0

(* An account that is opened.                                              *)
LEMMA InitSent ==
    ASSUME FfiInv, NEW entry, NEW via, NEW h \in Holding, NEW S,
           \/ via = "ata" /\ entry # "init_token_holding"
           \/ via = "token" /\ entry = "init_token_holding" /\ h \in S,
           Finalize(Creating(entry, via, h), S)
    PROVE  FfiInv'
<1> DEFINE c1 == Call(Plain(h.token, 0), entry, "init", via, NoLegs)
           c0 == Creating(entry, via, h)
<1>1. DOMAIN c1 = Fields /\ c0 = Between(c1, h, h)
  BY CallFields DEF Creating
<1>2. Like(c0, c1, {"ends"}) /\ c0.ends = <<h, h>>
  BY <1>1, BetweenFields
<1>3. DOMAIN c0 = Fields
  BY <1>2 DEF Like
<1>4. c1.entry = entry /\ c1.op = "init" /\ c1.via = via /\ c1.in = h.token
  BY CallFields DEF Plain
<1> HIDE DEF c1, c0
<1>5. c0.entry = entry /\ c0.op = "init" /\ c0.via = via /\ c0.in = h.token
  BY <1>2, <1>4 DEF Like, Fields
<1>6. ASSUME NEW c, Like(c, c0, {"signers", "nonces"}), c.signers = S
      PROVE  Built(c) /\ InOrder(c)
  <2>1. /\ c.entry = entry /\ c.op = "init" /\ c.via = via /\ c.in = h.token
        /\ c.ends = <<h, h>>
    BY <1>2, <1>5, <1>6 DEF Like, Fields
  <2>2. BuiltInit(c)
    BY <1>6, <2>1 DEF BuiltInit
  <2> QED
    BY <2>1, <2>2 DEF Built, InOrder
<1> QED
  BY <1>3, <1>6, Finalized DEF c0

-----------------------------------------------------------------------------
(* Each entry point keeps the invariant.                                   *)

(* The kind of holding each one works with.                                *)
LEMMA KindFacts ==
    /\ \A entry \in {"swap_exact_in_ata", "swap_exact_out_ata", "add_liquidity_ata",
                     "remove_liquidity_ata", "v2_swap_exact_in_ata", "v2_swap_exact_out_ata",
                     "v2_add_liquidity_ata", "v2_remove_liquidity_ata"} : Uses(entry, FALSE, "ata")
    /\ \A entry \in {"new_pool", "new_pool_ata", "v2_new_pool", "v2_new_pool_ata",
                     "swap_exact_in", "swap_exact_out", "v2_swap_exact_in", "add_liquidity",
                     "v2_add_liquidity", "remove_liquidity", "v2_remove_liquidity"} :
          Uses(entry, FALSE, "key")
    /\ \A entry \in {"private_swap_exact_in", "v2_private_swap_exact_in",
                     "private_add_liquidity", "v2_private_add_liquidity",
                     "private_remove_liquidity", "v2_private_remove_liquidity",
                     "disposable_swap_exact_in", "v2_disposable_swap_inproof",
                     "v2_disposable_swap_native_in", "v2_disposable_swap_native_out"} :
          Uses(entry, TRUE, "note")
BY DEF Uses, KindOf

(* The swaps of public holdings.                                           *)
LEMMA PublicSwapsKeep ==
    ASSUME FfiInv, NEW r \in Request,
           \/ ldex_amm_swap_exact_in(r) \/ ldex_amm_swap_exact_out(r)
           \/ ldex_amm_swap_exact_in_ata(r) \/ ldex_amm_swap_exact_out_ata(r)
           \/ ldex_amm_v2_swap_exact_in(r)
           \/ ldex_amm_v2_swap_exact_in_ata(r) \/ ldex_amm_v2_swap_exact_out_ata(r)
    PROVE  FfiInv'
<1>1. ASSUME ldex_amm_swap_exact_in(r) PROVE FfiInv'
  <2>1. GoodLegs(AsGiven(r, "key"), r, "key", "swap_exact_in")
    BY LegsAreGood DEF PoolOrderOnly
  <2> QED
    BY <1>1, <2>1, KindFacts, SwapSent DEF ldex_amm_swap_exact_in, Key
<1>2. ASSUME ldex_amm_swap_exact_out(r) PROVE FfiInv'
  <2>1. GoodLegs(AsGiven(r, "key"), r, "key", "swap_exact_out")
    BY LegsAreGood DEF PoolOrderOnly
  <2> QED
    BY <1>2, <2>1, KindFacts, SwapSent DEF ldex_amm_swap_exact_out, Key
<1>3. ASSUME ldex_amm_swap_exact_in_ata(r) PROVE FfiInv'
  <2>1. GoodLegs(Aligned(r, "ata"), r, "ata", "swap_exact_in_ata")
    BY <1>3, LegsAreGood DEF PoolOrderOnly, ldex_amm_swap_exact_in_ata, AtaReady
  <2> QED
    BY <1>3, <2>1, KindFacts, SwapSent DEF ldex_amm_swap_exact_in_ata
<1>4. ASSUME ldex_amm_swap_exact_out_ata(r) PROVE FfiInv'
  <2>1. GoodLegs(Aligned(r, "ata"), r, "ata", "swap_exact_out_ata")
    BY <1>4, LegsAreGood DEF PoolOrderOnly, ldex_amm_swap_exact_out_ata, AtaReady
  <2> QED
    BY <1>4, <2>1, KindFacts, SwapSent DEF ldex_amm_swap_exact_out_ata
<1>5. ASSUME ldex_amm_v2_swap_exact_in(r) PROVE FfiInv'
  <2>1. GoodLegs(Aligned(r, "key"), r, "key", "v2_swap_exact_in")
    BY <1>5, LegsAreGood DEF PoolOrderOnly, ldex_amm_v2_swap_exact_in, KeyReady
  <2> QED
    BY <1>5, <2>1, KindFacts, SwapSent DEF ldex_amm_v2_swap_exact_in, Key
<1>6. ASSUME ldex_amm_v2_swap_exact_in_ata(r) PROVE FfiInv'
  <2>1. GoodLegs(Aligned(r, "ata"), r, "ata", "v2_swap_exact_in_ata")
    BY <1>6, LegsAreGood DEF PoolOrderOnly, ldex_amm_v2_swap_exact_in_ata, AtaReady
  <2> QED
    BY <1>6, <2>1, KindFacts, SwapSent DEF ldex_amm_v2_swap_exact_in_ata
<1>7. ASSUME ldex_amm_v2_swap_exact_out_ata(r) PROVE FfiInv'
  <2>1. GoodLegs(Aligned(r, "ata"), r, "ata", "v2_swap_exact_out_ata")
    BY <1>7, LegsAreGood DEF PoolOrderOnly, ldex_amm_v2_swap_exact_out_ata, AtaReady
  <2> QED
    BY <1>7, <2>1, KindFacts, SwapSent DEF ldex_amm_v2_swap_exact_out_ata
<1> QED
  BY <1>1, <1>2, <1>3, <1>4, <1>5, <1>6, <1>7

(* The vaults of the native swaps are turned, their holdings are not.        *)
LEMMA VaultsAlignedFacts ==
    ASSUME LedgerOK, pool.exists, NEW r \in Request, InFirst(r)
    PROVE  /\ VaultsAligned(r, "once").vaults = pool.legs
           /\ VaultsAligned(r, "once").users = <<Of("once", r.in), Of("once", Other(r.in))>>
<1>1. r.pair \in Orders /\ pool.legs \in Orders
  BY PoolThatExists DEF Request
<1>2. r.pair[1] = r.in /\ r.pair[2] = Other(r.in) /\ r.pair = <<r.pair[1], r.pair[2]>>
  BY <1>1, OrderFacts DEF InFirst
<1>3. /\ AsGiven(r, "once").users = <<Of("once", r.in), Of("once", Other(r.in))>>
      /\ AsGiven(r, "once").vaults = r.pair
  BY <1>2 DEF AsGiven
<1>4. CASE NeedsLegFlip(r)
  <2>1. pool.legs = <<r.pair[2], r.pair[1]>>
    BY <1>1, <1>4, OrderFacts DEF NeedsLegFlip
  <2>2. Reverse(r.pair) = pool.legs
    BY <1>2, <2>1, ReversedPair
  <2> QED
    BY <1>3, <1>4, <2>2 DEF VaultsAligned, AsGiven
<1>5. CASE ~NeedsLegFlip(r)
  <2>1. pool.legs = r.pair
    BY <1>1, <1>5, OrderFacts DEF NeedsLegFlip
  <2> QED
    BY <1>3, <1>5, <2>1 DEF VaultsAligned, AsGiven
<1> QED
  BY <1>4, <1>5

(* The private swaps.                                                      *)
LEMMA PrivateSwapsKeep ==
    ASSUME FfiInv, NEW r \in Request,
           \/ ldex_amm_private_swap_exact_in(r) \/ ldex_amm_v2_private_swap_exact_in(r)
           \/ ldex_amm_disposable_swap_exact_in(r) \/ ldex_amm_v2_disposable_swap_inproof(r)
           \/ ldex_amm_v2_disposable_swap_native_in(r)
           \/ ldex_amm_v2_disposable_swap_native_out(r)
    PROVE  FfiInv'
<1>0. r.in \in Tokens /\ Other(r.in) \in Tokens /\ Other(r.in) # r.in /\ LedgerOK
      /\ Other(Other(r.in)) = r.in
  BY TwoTokens DEF Request, FfiInv
<1>1. ASSUME ldex_amm_private_swap_exact_in(r) PROVE FfiInv'
  <2>1. GoodLegs(Aligned(r, "note"), r, "note", "private_swap_exact_in")
    BY <1>1, LegsAreGood DEF PoolOrderOnly, ldex_amm_private_swap_exact_in
  <2> QED
    BY <1>1, <2>1, KindFacts, PrivateSwapSent DEF ldex_amm_private_swap_exact_in
<1>2. ASSUME ldex_amm_v2_private_swap_exact_in(r) PROVE FfiInv'
  <2>1. GoodLegs(Aligned(r, "note"), r, "note", "v2_private_swap_exact_in")
    BY <1>2, LegsAreGood DEF PoolOrderOnly, ldex_amm_v2_private_swap_exact_in
  <2> QED
    BY <1>2, <2>1, KindFacts, PrivateSwapSent DEF ldex_amm_v2_private_swap_exact_in
<1>3. ASSUME ldex_amm_disposable_swap_exact_in(r) PROVE FfiInv'
  <2>1. GoodLegs(AsGiven(r, "once"), r, "once", "disposable_swap_exact_in")
    BY LegsAreGood DEF PoolOrderOnly
  <2>2. /\ AsGiven(r, "once").vaults \in Orders
        /\ AsGiven(r, "once").users = <<Of("once", AsGiven(r, "once").vaults[1]),
                                        Of("once", AsGiven(r, "once").vaults[2])>>
        /\ AsGiven(r, "once").vaults = r.pair
        /\ "disposable_swap_exact_in" \in PoolOrderOnly
    BY <2>1 DEF GoodLegs, LegsOf, PoolOrderOnly
  <2> QED
    BY <1>3, <2>2, KindFacts, ThroughSent DEF ldex_amm_disposable_swap_exact_in, Note
<1>4. ASSUME ldex_amm_v2_disposable_swap_inproof(r) PROVE FfiInv'
  <2>1. GoodLegs(Aligned(r, "once"), r, "once", "v2_disposable_swap_inproof")
    BY <1>4, LegsAreGood DEF PoolOrderOnly, ldex_amm_v2_disposable_swap_inproof
  <2>2. /\ Aligned(r, "once").vaults \in Orders
        /\ Aligned(r, "once").users = <<Of("once", Aligned(r, "once").vaults[1]),
                                        Of("once", Aligned(r, "once").vaults[2])>>
        /\ pool.exists /\ Aligned(r, "once").vaults = pool.legs
        /\ "v2_disposable_swap_inproof" \notin PoolOrderOnly
    BY <2>1 DEF GoodLegs, LegsOf, PoolOrderOnly
  <2> QED
    BY <1>4, <2>2, KindFacts, ThroughSent DEF ldex_amm_v2_disposable_swap_inproof, Note
<1>5. ASSUME ldex_amm_v2_disposable_swap_native_in(r) PROVE FfiInv'
  <2>1. pool.exists /\ r.in = WLEZ /\ InFirst(r)
    BY <1>5 DEF ldex_amm_v2_disposable_swap_native_in
  <2>2. /\ VaultsAligned(r, "once").vaults = pool.legs /\ pool.legs \in Orders
        /\ VaultsAligned(r, "once").users = <<Of("once", r.in), Of("once", Other(r.in))>>
    BY <1>0, <2>1, VaultsAlignedFacts, PoolThatExists
  <2>3. "v2_disposable_swap_native_in" \notin PoolOrderOnly
    BY DEF PoolOrderOnly
  <2>4. Prove(Between(Call(r, "v2_disposable_swap_native_in", "swap_in", "native",
                          VaultsAligned(r, "once")),
                     Of("native", WLEZ), Of("note", Other(r.in))), {"pool"})
    BY <1>5, <2>1 DEF ldex_amm_v2_disposable_swap_native_in, Note
  <2> QED
    BY <1>0, <2>1, <2>2, <2>3, <2>4, KindFacts, ThroughSent
<1>6. ASSUME ldex_amm_v2_disposable_swap_native_out(r) PROVE FfiInv'
  <2>1. pool.exists /\ r.in # WLEZ /\ InFirst(r)
    BY <1>6 DEF ldex_amm_v2_disposable_swap_native_out
  <2>2. /\ VaultsAligned(r, "once").vaults = pool.legs /\ pool.legs \in Orders
        /\ VaultsAligned(r, "once").users = <<Of("once", r.in), Of("once", Other(r.in))>>
    BY <1>0, <2>1, VaultsAlignedFacts, PoolThatExists
  <2>3. "v2_disposable_swap_native_out" \notin PoolOrderOnly
    BY DEF PoolOrderOnly
  <2>4. Other(r.in) = WLEZ
    BY <1>0, <2>1, TwoTokens, PoolHandlersAssumption
  <2>5. Prove(Between(Call(r, "v2_disposable_swap_native_out", "swap_in", "native",
                          VaultsAligned(r, "once")),
                     Of("note", r.in), Of("native", WLEZ)), {"pool"})
    BY <1>6 DEF ldex_amm_v2_disposable_swap_native_out, Note
  <2> QED
    BY <1>0, <2>1, <2>2, <2>3, <2>4, <2>5, KindFacts, ThroughSent
<1> QED
  BY <1>1, <1>2, <1>3, <1>4, <1>5, <1>6

(* Deposits and withdrawals.                                               *)
LEMMA LiquidityKeeps ==
    ASSUME FfiInv, NEW r \in Request,
           \/ ldex_amm_add_liquidity(r) \/ ldex_amm_add_liquidity_ata(r)
           \/ ldex_amm_private_add_liquidity(r) \/ ldex_amm_v2_add_liquidity(r)
           \/ ldex_amm_v2_add_liquidity_ata(r) \/ ldex_amm_v2_private_add_liquidity(r)
           \/ ldex_amm_remove_liquidity(r) \/ ldex_amm_remove_liquidity_ata(r)
           \/ ldex_amm_private_remove_liquidity(r) \/ ldex_amm_v2_remove_liquidity(r)
           \/ ldex_amm_v2_remove_liquidity_ata(r) \/ ldex_amm_v2_private_remove_liquidity(r)
    PROVE  FfiInv'
<1>1. ASSUME ldex_amm_add_liquidity(r) PROVE FfiInv'
  <2>1. GoodLegs(AsGiven(r, "key"), r, "key", "add_liquidity")
    BY LegsAreGood DEF PoolOrderOnly
  <2> QED
    BY <1>1, <2>1, KindFacts, AddSent DEF ldex_amm_add_liquidity
<1>2. ASSUME ldex_amm_add_liquidity_ata(r) PROVE FfiInv'
  <2>1. GoodLegs(Aligned(r, "ata"), r, "ata", "add_liquidity_ata")
    BY <1>2, LegsAreGood DEF PoolOrderOnly, ldex_amm_add_liquidity_ata, AtaReady
  <2> QED
    BY <1>2, <2>1, KindFacts, AddSent DEF ldex_amm_add_liquidity_ata
<1>3. ASSUME ldex_amm_private_add_liquidity(r) PROVE FfiInv'
  <2>1. GoodLegs(Aligned(r, "note"), r, "note", "private_add_liquidity")
    BY <1>3, LegsAreGood DEF PoolOrderOnly, ldex_amm_private_add_liquidity
  <2> QED
    BY <1>3, <2>1, KindFacts, PrivateAddSent DEF ldex_amm_private_add_liquidity
<1>4. ASSUME ldex_amm_v2_add_liquidity(r) PROVE FfiInv'
  <2>1. GoodLegs(Aligned(r, "key"), r, "key", "v2_add_liquidity")
    BY <1>4, LegsAreGood DEF PoolOrderOnly, ldex_amm_v2_add_liquidity, KeyReady
  <2> QED
    BY <1>4, <2>1, KindFacts, AddSent DEF ldex_amm_v2_add_liquidity
<1>5. ASSUME ldex_amm_v2_add_liquidity_ata(r) PROVE FfiInv'
  <2>1. GoodLegs(Aligned(r, "ata"), r, "ata", "v2_add_liquidity_ata")
    BY <1>5, LegsAreGood DEF PoolOrderOnly, ldex_amm_v2_add_liquidity_ata, AtaReady
  <2> QED
    BY <1>5, <2>1, KindFacts, AddSent DEF ldex_amm_v2_add_liquidity_ata
<1>6. ASSUME ldex_amm_v2_private_add_liquidity(r) PROVE FfiInv'
  <2>1. GoodLegs(Aligned(r, "note"), r, "note", "v2_private_add_liquidity")
    BY <1>6, LegsAreGood DEF PoolOrderOnly, ldex_amm_v2_private_add_liquidity
  <2> QED
    BY <1>6, <2>1, KindFacts, PrivateAddSent DEF ldex_amm_v2_private_add_liquidity
<1>7. ASSUME ldex_amm_remove_liquidity(r) PROVE FfiInv'
  <2>1. GoodLegs(AsGiven(r, "key"), r, "key", "remove_liquidity")
    BY LegsAreGood DEF PoolOrderOnly
  <2> QED
    BY <1>7, <2>1, KindFacts, RemoveSent DEF ldex_amm_remove_liquidity
<1>8. ASSUME ldex_amm_remove_liquidity_ata(r) PROVE FfiInv'
  <2>1. GoodLegs(Aligned(r, "ata"), r, "ata", "remove_liquidity_ata")
    BY <1>8, LegsAreGood DEF PoolOrderOnly, ldex_amm_remove_liquidity_ata, AtaReady
  <2> QED
    BY <1>8, <2>1, KindFacts, RemoveSent DEF ldex_amm_remove_liquidity_ata
<1>9. ASSUME ldex_amm_private_remove_liquidity(r) PROVE FfiInv'
  <2>1. GoodLegs(Aligned(r, "note"), r, "note", "private_remove_liquidity")
    BY <1>9, LegsAreGood DEF PoolOrderOnly, ldex_amm_private_remove_liquidity
  <2> QED
    BY <1>9, <2>1, KindFacts, PrivateRemoveSent DEF ldex_amm_private_remove_liquidity
<1>10. ASSUME ldex_amm_v2_remove_liquidity(r) PROVE FfiInv'
  <2>1. GoodLegs(Aligned(r, "key"), r, "key", "v2_remove_liquidity")
    BY <1>10, LegsAreGood DEF PoolOrderOnly, ldex_amm_v2_remove_liquidity, KeyReady
  <2> QED
    BY <1>10, <2>1, KindFacts, RemoveSent DEF ldex_amm_v2_remove_liquidity
<1>11. ASSUME ldex_amm_v2_remove_liquidity_ata(r) PROVE FfiInv'
  <2>1. GoodLegs(Aligned(r, "ata"), r, "ata", "v2_remove_liquidity_ata")
    BY <1>11, LegsAreGood DEF PoolOrderOnly, ldex_amm_v2_remove_liquidity_ata, AtaReady
  <2> QED
    BY <1>11, <2>1, KindFacts, RemoveSent DEF ldex_amm_v2_remove_liquidity_ata
<1>12. ASSUME ldex_amm_v2_private_remove_liquidity(r) PROVE FfiInv'
  <2>1. GoodLegs(Aligned(r, "note"), r, "note", "v2_private_remove_liquidity")
    BY <1>12, LegsAreGood DEF PoolOrderOnly, ldex_amm_v2_private_remove_liquidity
  <2> QED
    BY <1>12, <2>1, KindFacts, PrivateRemoveSent DEF ldex_amm_v2_private_remove_liquidity
<1> QED
  BY <1>1, <1>2, <1>3, <1>4, <1>5, <1>6, <1>7, <1>8, <1>9, <1>10, <1>11, <1>12

(* New pools.                                                              *)
LEMMA NewPoolsKeep ==
    ASSUME FfiInv, NEW r \in Request,
           \/ ldex_amm_new_pool(r) \/ ldex_amm_new_pool_ata(r)
           \/ ldex_amm_v2_new_pool(r) \/ ldex_amm_v2_new_pool_ata(r)
    PROVE  FfiInv'
<1>1. ASSUME ldex_amm_new_pool(r) PROVE FfiInv'
  <2>1. Finalize(WithLp(Call(r, "new_pool", "new", "token", AsGiven(r, "key")), "key"),
                 Keys(r) \cup {Of("key", "LP")})
    BY <1>1 DEF ldex_amm_new_pool, Key
  <2> QED
    BY <2>1, KindFacts, NewSent
<1>2. ASSUME ldex_amm_new_pool_ata(r) PROVE FfiInv'
  <2>1. Finalize(PinningAta(WithLp(Call(r, "new_pool_ata", "new", "token", AsGiven(r, "key")), "key")),
                 Keys(r) \cup {Of("key", "LP")})
    BY <1>2 DEF ldex_amm_new_pool_ata, Key
  <2> QED
    BY <2>1, KindFacts, NewSent
<1>3. ASSUME ldex_amm_v2_new_pool(r) PROVE FfiInv'
  <2>1. Finalize(WithLp(Call(r, "v2_new_pool", "new", "token", AsGiven(r, "key")), "key"),
                 Keys(r) \cup {Of("key", "LP")})
    BY <1>3 DEF ldex_amm_v2_new_pool, Key
  <2> QED
    BY <2>1, KindFacts, NewSent
<1>4. ASSUME ldex_amm_v2_new_pool_ata(r) PROVE FfiInv'
  <2>1. Finalize(PinningAta(WithLp(Call(r, "v2_new_pool_ata", "new", "ata", AsGiven(r, "key")), "ata")),
                 Keys(r))
    BY <1>4 DEF ldex_amm_v2_new_pool_ata, Key
  <2> QED
    BY <2>1, KindFacts, NewSent
<1> QED
  BY <1>1, <1>2, <1>3, <1>4

(* The moves between the caller's own holdings.                            *)
LEMMA MovesKeep ==
    ASSUME FfiInv, NEW t \in Tokens, NEW n \in Amount,
           \/ ldex_ata_transfer(t, n) \/ ldex_token_shield(t, n) \/ ldex_token_deshield(t, n)
           \/ ldex_wlez_wrap(n) \/ ldex_wlez_unwrap(n)
    PROVE  FfiInv'
<1>1. /\ Key(t) \in Holding /\ Note(t) \in Holding /\ Ata(t) \in Holding
      /\ Key(t).kind = "key" /\ Note(t).kind = "note" /\ Ata(t).kind = "ata"
      /\ Key(t).token = t /\ Note(t).token = t /\ Ata(t).token = t
  BY HoldingFacts DEF Key, Note, Ata
<1>2. /\ WLEZ \in Tokens /\ Key(WLEZ) \in Holding /\ Of("native", WLEZ) \in Holding
      /\ Key(WLEZ).token = WLEZ /\ Of("native", WLEZ).token = WLEZ
      /\ Key(WLEZ).kind = "key" /\ Of("native", WLEZ).kind = "native"
  BY HoldingFacts, PoolHandlersAssumption DEF Key
<1>3. CASE ldex_ata_transfer(t, n)
  <2>1. Finalize(Moving("ata_transfer", "ata", t, n, Ata(t), Key(t)), {Owner})
    BY <1>3 DEF ldex_ata_transfer
  <2>2. Ata(t) # Key(t)
    BY <1>1
  <2> QED
    BY <1>1, <2>1, <2>2, MoveSigned
<1>4. CASE ldex_token_shield(t, n)
  BY <1>1, <1>4, MoveProved DEF ldex_token_shield
<1>5. CASE ldex_token_deshield(t, n)
  BY <1>1, <1>5, MoveProved DEF ldex_token_deshield
<1>6. CASE ldex_wlez_wrap(n)
  BY <1>2, <1>6, MoveSigned DEF ldex_wlez_wrap
<1>7. CASE ldex_wlez_unwrap(n)
  BY <1>2, <1>7, MoveSigned DEF ldex_wlez_unwrap
<1> QED
  BY <1>3, <1>4, <1>5, <1>6, <1>7

(* The opening of accounts.                                                *)
LEMMA CreationsKeep ==
    ASSUME FfiInv,
           \/ \E h \in Holding : ldex_amm_init_token_holding(h)
           \/ \E t \in Tokens \cup {"LP"} : ldex_ata_create(t)
    PROVE  FfiInv'
<1>1. ASSUME NEW h \in Holding, ldex_amm_init_token_holding(h) PROVE FfiInv'
  BY <1>1, InitSent DEF ldex_amm_init_token_holding
<1>2. ASSUME NEW t \in Tokens \cup {"LP"}, ldex_ata_create(t) PROVE FfiInv'
  <2>1. Ata(t) \in Holding
    BY HoldingFacts DEF Ata
  <2> QED
    BY <1>2, <2>1, InitSent DEF ldex_ata_create
<1> QED
  BY <1>1, <1>2

-----------------------------------------------------------------------------
(* Paying and receiving.                                                   *)

Balances == [Holding -> Nat \cup {Absent}]

(* A payment.                                                              *)
LEMMA PaysFacts ==
    ASSUME NEW b \in Balances, NEW h \in Holding, NEW n \in Nat, b[h] >= n
    PROVE  /\ Pays(b, h, n) \in Balances
           /\ UnitsIn(Pays(b, h, n), h) = UnitsIn(b, h) - n
           /\ \A g \in Holding \ {h} : Pays(b, h, n)[g] = b[g]
           /\ Pays(b, h, n)[h] # Absent
<1>1. b[h] \in Nat
  BY DEF Balances, Absent
<1>2. Pays(b, h, n)[h] = b[h] - n /\ b[h] - n \in Nat
  BY <1>1 DEF Pays, Balances
<1>3. \A g \in Holding \ {h} : Pays(b, h, n)[g] = b[g]
  BY DEF Pays, Balances
<1>4. Pays(b, h, n) \in Balances
  BY <1>2 DEF Pays, Balances
<1> QED
  BY <1>1, <1>2, <1>3, <1>4 DEF UnitsIn, Absent

(* A receipt.                                                              *)
LEMMA GetsFacts ==
    ASSUME NEW b \in Balances, NEW h \in Holding, NEW n \in Nat
    PROVE  /\ Gets(b, h, n) \in Balances
           /\ UnitsIn(Gets(b, h, n), h) = UnitsIn(b, h) + n
           /\ \A g \in Holding \ {h} : Gets(b, h, n)[g] = b[g]
<1>1. b[h] \in Nat \/ b[h] = Absent
  BY DEF Balances
<1>2. Gets(b, h, n)[h] = UnitsIn(b, h) + n /\ UnitsIn(b, h) \in Nat
  BY <1>1 DEF Gets, Balances, UnitsIn
<1>3. \A g \in Holding \ {h} : Gets(b, h, n)[g] = b[g]
  BY DEF Gets, Balances
<1>4. Gets(b, h, n) \in Balances
  BY <1>2 DEF Gets, Balances
<1> QED
  BY <1>1, <1>2, <1>3, <1>4 DEF UnitsIn, Absent

(* What a holding has is a number.                                         *)
LEMMA UnitsFacts ==
    ASSUME NEW b \in Balances
    PROVE  /\ \A h \in Holding : UnitsIn(b, h) \in Nat
           /\ \A h \in Holding, n \in Nat : b[h] >= n => UnitsIn(b, h) >= n
           /\ \A d \in Balances, h \in Holding : d[h] = b[h] => UnitsIn(d, h) = UnitsIn(b, h)
BY DEF Balances, UnitsIn, Absent

(* One holding pays, another receives.                                      *)
LEMMA PaidAndGot ==
    ASSUME NEW b \in Balances, NEW pay \in Holding, NEW get \in Holding, pay # get,
           NEW n \in Nat, NEW m \in Nat, b[pay] >= n,
           NEW d, d = Gets(Pays(b, pay, n), get, m)
    PROVE  /\ d \in Balances
           /\ UnitsIn(d, pay) = UnitsIn(b, pay) - n
           /\ UnitsIn(d, get) = UnitsIn(b, get) + m
           /\ \A h \in Holding \ {pay, get} : d[h] = b[h]
<1> DEFINE mid == Pays(b, pay, n)
<1>1. /\ mid \in Balances
      /\ UnitsIn(mid, pay) = UnitsIn(b, pay) - n
      /\ \A g \in Holding \ {pay} : mid[g] = b[g]
  BY PaysFacts
<1> HIDE DEF mid
<1>2. d = Gets(mid, get, m)
  BY DEF mid
<1>3. /\ d \in Balances
      /\ UnitsIn(d, get) = UnitsIn(mid, get) + m
      /\ \A g \in Holding \ {get} : d[g] = mid[g]
  <2>1. /\ Gets(mid, get, m) \in Balances
        /\ UnitsIn(Gets(mid, get, m), get) = UnitsIn(mid, get) + m
        /\ \A g \in Holding \ {get} : Gets(mid, get, m)[g] = mid[g]
    BY <1>1, GetsFacts
  <2> QED
    BY <1>2, <2>1
<1>4. UnitsIn(d, pay) = UnitsIn(mid, pay)
  BY <1>1, <1>3, UnitsFacts
<1>5. UnitsIn(mid, get) = UnitsIn(b, get)
  BY <1>1, UnitsFacts
<1> QED
  BY <1>1, <1>3, <1>4, <1>5

(* An included call is run on the pool there is.                           *)
LEMMA PoolIsCurrent ==
    ASSUME NEW c, Current(c)
    PROVE  PoolFor(c) = pool
BY DEF Current, PoolFor

-----------------------------------------------------------------------------
(* What each handler does.                                                 *)

(* Who pays and who is paid in a swap.                                     *)
LEMMA SwapParties ==
    ASSUME NEW c, BuiltSwap(c), NEW p, c.vaults = p.legs
    PROVE  /\ c.in \in Tokens /\ Other(c.in) \in Tokens /\ Other(c.in) # c.in
           /\ Payer(p, c) = OwnedAt(c, c.in)
           /\ Payee(p, c) = OwnedAt(c, Other(c.in))
           /\ \A t \in Tokens : UserLeg(p, c, t) = IF Through(c) THEN Of("once", t) ELSE OwnedAt(c, t)
<1>1. c.in \in Tokens /\ Other(c.in) \in Tokens /\ Other(c.in) # c.in /\ Tokens = {c.in, Other(c.in)}
  BY TwoTokens DEF BuiltSwap, FromRequest, Request
<1>2. c.vaults \in Orders
  BY DEF BuiltSwap, PassedThrough, Paired
<1>3. ASSUME NEW t \in Tokens
      PROVE  UserLeg(p, c, t) = IF Through(c) THEN Of("once", t) ELSE OwnedAt(c, t)
  <2>1. At(c.vaults, t) \in 1 .. 2 /\ c.vaults[At(c.vaults, t)] = t
    BY <1>2, Position
  <2>2. CASE c.via = "native"
    <3>1. c.users = <<Of("once", c.in), Of("once", Other(c.in))>>
      BY <2>2 DEF BuiltSwap, Through, PassedThrough
    <3> QED
      BY <1>1, <2>2, <3>1 DEF UserLeg, Through
  <2>3. CASE c.via # "native"
    <3>1. UserLeg(p, c, t) = c.users[At(c.vaults, t)]
      BY <2>3 DEF UserLeg, At
    <3>2. CASE Through(c)
      <4>1. c.users = <<Of("once", c.vaults[1]), Of("once", c.vaults[2])>>
        BY <2>3, <3>2 DEF BuiltSwap, PassedThrough
      <4> QED
        BY <2>1, <3>1, <3>2, <4>1
    <3>3. CASE ~Through(c)
      BY <2>1, <3>1, <3>3 DEF BuiltSwap, Paired
    <3> QED
      BY <3>2, <3>3
  <2> QED
    BY <2>2, <2>3
<1>4. Through(c) => c.ends[1] = OwnedAt(c, c.in) /\ c.ends[2] = OwnedAt(c, Other(c.in))
  BY DEF BuiltSwap, PassedThrough
<1> QED
  BY <1>1, <1>3, <1>4 DEF Payer, Payee

(* What a swap pays and brings.                                            *)
LEMMA SwapAmounts ==
    ASSUME NEW p \in PoolDefinition, NEW c, c.op \in {"swap_in", "swap_out"}, FromRequest(c),
           Priced(p, c)
    PROVE  /\ Deposit(p, c) \in Nat /\ Withdraw(p, c) \in Nat
           /\ Withdraw(p, c) < p.reserve[Other(c.in)]
           /\ c.op = "swap_in" => Deposit(p, c) = c.req.amount /\ Withdraw(p, c) >= c.req.limit
           /\ c.op = "swap_out" => Deposit(p, c) <= c.req.limit /\ Withdraw(p, c) = c.req.amount
<1>1. /\ c.in \in Tokens /\ Other(c.in) \in Tokens /\ c.amount \in Nat
      /\ c.amount = c.req.amount /\ c.limit = c.req.limit
  BY TwoTokens, U128Assumption DEF FromRequest, Request, Amount
<1>2. p.reserve[c.in] \in Nat \ {0} /\ p.reserve[Other(c.in)] \in Nat \ {0}
  BY <1>1, U128Assumption DEF PoolDefinition, Amount
<1>3. FEES \in FEE_TIERS
  BY PoolHandlersAssumption
<1>4. CASE c.op = "swap_in"
  <2>1. c.limit <= ExactInputOut(p.reserve[c.in], p.reserve[Other(c.in)], FEES, c.amount)
    BY <1>4 DEF Priced
  <2>2. /\ ExactInputOut(p.reserve[c.in], p.reserve[Other(c.in)], FEES, c.amount) \in Nat
        /\ ExactInputOut(p.reserve[c.in], p.reserve[Other(c.in)], FEES, c.amount)
             < p.reserve[Other(c.in)]
    BY <1>1, <1>2, <1>3, ExactInputFacts
  <2>3. c.limit \in Nat
    BY <1>1, U128Assumption DEF FromRequest, Request, Amount
  <2> QED
    BY <1>1, <1>4, <2>1, <2>2, <2>3 DEF Deposit, Withdraw
<1>5. CASE c.op = "swap_out"
  <2>1. /\ ExactOutputIn(p.reserve[c.in], p.reserve[Other(c.in)], FEES, c.amount) <= c.limit
        /\ c.amount < p.reserve[Other(c.in)]
    BY <1>5 DEF Priced, ExactOutputOk
  <2>2. ExactOutputIn(p.reserve[c.in], p.reserve[Other(c.in)], FEES, c.amount) \in Nat
    BY <1>1, <1>2, <1>3, <2>1, ExactOutputFacts
  <2> QED
    BY <1>1, <1>5, <2>1, <2>2 DEF Deposit, Withdraw
<1> QED
  BY <1>4, <1>5

(* A call leaves a pool with the same legs.                                *)
SamePool == pool.exists => pool'.exists /\ pool'.legs = pool.legs

(* What leaves the holdings of a token enters its reserve, and the reverse.  *)
Balanced(c) ==
    /\ LedgerOK'
    /\ SamePool
    /\ WithinBounds(c)
    /\ \A h \in Holding \ Touched(c) : bal'[h] = bal[h]
    /\ c.op \notin {"transfer", "init"} =>
          /\ \A t \in Tokens : Gained(OwnedAt(c, t)) = pool.reserve[t] - pool'.reserve[t]
          /\ IF c.op \in {"swap_in", "swap_out"} THEN pool'.supply = pool.supply
             ELSE Gained(OwnedAt(c, "LP"))
                    = pool'.supply - (IF c.op = "new" THEN MINIMUM_LIQUIDITY ELSE pool.supply)

(* A swap.                                                                 *)
LEMMA SwapBalanced ==
    ASSUME LedgerOK, NEW c, BuiltSwap(c), SwapOk(pool, bal, c),
           pool' = SwapDone(pool, bal, c).pool, bal' = SwapDone(pool, bal, c).bal
    PROVE  Balanced(c)
<1> DEFINE i == c.in
           o == Other(c.in)
           pay == OwnedAt(c, i)
           get == OwnedAt(c, o)
           n == Deposit(pool, c)
           m == Withdraw(pool, c)
<1>1. pool \in PoolDefinition /\ c.vaults = pool.legs /\ pool.exists
  BY PoolThatExists DEF SwapOk, PoolAccountsMatch
<1>2. /\ i \in Tokens /\ o \in Tokens /\ o # i /\ Tokens = {i, o}
      /\ Payer(pool, c) = pay /\ Payee(pool, c) = get
  BY <1>1, SwapParties, TwoTokens
<1>3. /\ n \in Nat /\ m \in Nat /\ m < pool.reserve[o]
      /\ c.op = "swap_in" => n = c.req.amount /\ m >= c.req.limit
      /\ c.op = "swap_out" => n <= c.req.limit /\ m = c.req.amount
  BY <1>1, SwapAmounts DEF BuiltSwap, SwapOk
<1>4. bal[pay] >= n /\ pool.reserve[i] + n <= U128_MAX /\ c.in = c.req.in
      /\ c.op \in {"swap_in", "swap_out"}
  BY <1>2 DEF SwapOk, CanPay, Fits, BuiltSwap, FromRequest
<1>5. pay \in Holding /\ get \in Holding /\ pay # get
  BY <1>2, OwnedFacts
<1>6. /\ bal' = Gets(Pays(bal, pay, n), get, m)
      /\ pool' = [pool EXCEPT !.reserve[i] = @ + n, !.reserve[o] = @ - m]
  BY <1>2 DEF SwapDone
<1> HIDE DEF i, o, pay, get, n, m
<1>7. bal \in Balances
  BY DEF LedgerOK, Balances
<1>8. /\ bal' \in Balances
      /\ UnitsIn(bal', pay) = UnitsIn(bal, pay) - n
      /\ UnitsIn(bal', get) = UnitsIn(bal, get) + m
      /\ \A h \in Holding \ {pay, get} : bal'[h] = bal[h]
  BY <1>3, <1>4, <1>5, <1>6, <1>7, PaidAndGot
<1>9. UnitsIn(bal, pay) \in Nat /\ UnitsIn(bal, get) \in Nat
  BY <1>5, <1>7, UnitsFacts
<1>10. Gained(pay) = 0 - n /\ Gained(get) = m
  BY <1>3, <1>8, <1>9 DEF Gained, Units
<1>11. pool.reserve \in [Tokens -> Amount \ {0}]
  BY <1>1 DEF PoolDefinition
<1>12. /\ pool'.reserve[i] = pool.reserve[i] + n /\ pool'.reserve[o] = pool.reserve[o] - m
       /\ pool'.supply = pool.supply /\ pool'.exists = pool.exists /\ pool'.legs = pool.legs
       /\ pool'.reserve \in [Tokens -> Amount \ {0}]
       /\ pool' \in PoolDefinition
  <2>1. pool.reserve[i] + n \in Amount \ {0} /\ pool.reserve[o] - m \in Amount \ {0}
    BY <1>2, <1>3, <1>4, <1>11, U128Assumption DEF Amount
  <2> DEFINE new == [pool.reserve EXCEPT ![i] = @ + n, ![o] = @ - m]
  <2>2. /\ new \in [Tokens -> Amount \ {0}]
        /\ new[i] = pool.reserve[i] + n /\ new[o] = pool.reserve[o] - m
    BY <1>2, <1>11, <2>1
  <2>3. pool' = [pool EXCEPT !.reserve = new]
    BY <1>1, <1>2, <1>6 DEF PoolDefinition
  <2> HIDE DEF new
  <2> QED
    BY <1>1, <2>2, <2>3 DEF PoolDefinition
<1>13. LedgerOK'
  BY <1>8, <1>12 DEF LedgerOK, Balances
<1>14. Touched(c) = {pay, get}
  BY <1>2, <1>4 DEF Touched, TokensOf, pay, get
<1>15. WithinBounds(c)
  <2>1. Gained(OwnedAt(c, c.req.in)) = 0 - n /\ Gained(OwnedAt(c, Other(c.req.in))) = m
    BY <1>4, <1>10 DEF pay, get, i, o
  <2>2. CASE c.op = "swap_in"
    BY <1>3, <2>1, <2>2 DEF WithinBounds
  <2>3. CASE c.op = "swap_out"
    BY <1>3, <2>1, <2>3 DEF WithinBounds
  <2> QED
    BY <1>4, <2>2, <2>3
<1>16. \A t \in Tokens : Gained(OwnedAt(c, t)) = pool.reserve[t] - pool'.reserve[t]
  <2>1. Gained(pay) = pool.reserve[i] - pool'.reserve[i]
        /\ Gained(get) = pool.reserve[o] - pool'.reserve[o]
    <3>1. pool.reserve[i] \in Int /\ pool.reserve[o] \in Int
      BY <1>2, <1>11 DEF Amount
    <3> QED
      BY <1>3, <1>10, <1>12, <3>1
  <2> QED
    BY <1>2, <2>1 DEF pay, get
<1> QED
  BY <1>1, <1>4, <1>8, <1>12, <1>13, <1>14, <1>15, <1>16 DEF Balanced, SamePool

(* Two holdings pay, a third receives.                                     *)
LEMMA TwoPay ==
    ASSUME NEW b \in Balances, NEW u \in Holding, NEW v \in Holding, NEW l \in Holding,
           u # v, u # l, v # l, NEW x \in Nat, NEW y \in Nat, NEW m \in Nat, b[u] >= x, b[v] >= y,
           NEW d, d = Gets(Pays(Pays(b, u, x), v, y), l, m)
    PROVE  /\ d \in Balances
           /\ UnitsIn(d, u) = UnitsIn(b, u) - x
           /\ UnitsIn(d, v) = UnitsIn(b, v) - y
           /\ UnitsIn(d, l) = UnitsIn(b, l) + m
           /\ \A h \in Holding \ {u, v, l} : d[h] = b[h]
<1> DEFINE mid == Pays(b, u, x)
<1>1. /\ mid \in Balances
      /\ UnitsIn(mid, u) = UnitsIn(b, u) - x
      /\ \A g \in Holding \ {u} : mid[g] = b[g]
  BY PaysFacts
<1> HIDE DEF mid
<1>2. d = Gets(Pays(mid, v, y), l, m) /\ mid[v] >= y
  BY <1>1 DEF mid
<1>3. /\ d \in Balances
      /\ UnitsIn(d, v) = UnitsIn(mid, v) - y
      /\ UnitsIn(d, l) = UnitsIn(mid, l) + m
      /\ \A h \in Holding \ {v, l} : d[h] = mid[h]
  BY <1>1, <1>2, PaidAndGot
<1>4. UnitsIn(d, u) = UnitsIn(mid, u)
  BY <1>1, <1>3, UnitsFacts
<1>5. UnitsIn(mid, v) = UnitsIn(b, v) /\ UnitsIn(mid, l) = UnitsIn(b, l)
  BY <1>1, UnitsFacts
<1> QED
  BY <1>1, <1>3, <1>4, <1>5

(* One holding pays, two others receive.                                   *)
LEMMA TwoGet ==
    ASSUME NEW b \in Balances, NEW u \in Holding, NEW v \in Holding, NEW l \in Holding,
           u # v, u # l, v # l, NEW x \in Nat, NEW y \in Nat, NEW m \in Nat, b[l] >= m,
           NEW d, d = Gets(Gets(Pays(b, l, m), u, x), v, y)
    PROVE  /\ d \in Balances
           /\ UnitsIn(d, u) = UnitsIn(b, u) + x
           /\ UnitsIn(d, v) = UnitsIn(b, v) + y
           /\ UnitsIn(d, l) = UnitsIn(b, l) - m
           /\ \A h \in Holding \ {u, v, l} : d[h] = b[h]
<1> DEFINE mid == Gets(Pays(b, l, m), u, x)
<1>1. /\ mid \in Balances
      /\ UnitsIn(mid, u) = UnitsIn(b, u) + x
      /\ UnitsIn(mid, l) = UnitsIn(b, l) - m
      /\ \A g \in Holding \ {u, l} : mid[g] = b[g]
  BY PaidAndGot
<1> HIDE DEF mid
<1>2. d = Gets(mid, v, y)
  BY DEF mid
<1>3. /\ d \in Balances
      /\ UnitsIn(d, v) = UnitsIn(mid, v) + y
      /\ \A h \in Holding \ {v} : d[h] = mid[h]
  <2>1. /\ Gets(mid, v, y) \in Balances
        /\ UnitsIn(Gets(mid, v, y), v) = UnitsIn(mid, v) + y
        /\ \A h \in Holding \ {v} : Gets(mid, v, y)[h] = mid[h]
    BY <1>1, GetsFacts
  <2> QED
    BY <1>2, <2>1
<1>4. UnitsIn(d, u) = UnitsIn(mid, u) /\ UnitsIn(d, l) = UnitsIn(mid, l)
  BY <1>1, <1>3, UnitsFacts
<1>5. UnitsIn(mid, v) = UnitsIn(b, v)
  BY <1>1, UnitsFacts
<1> QED
  BY <1>1, <1>3, <1>4, <1>5

(* The holdings of a call about liquidity are three.                       *)
LEMMA ThreeHoldings ==
    ASSUME NEW c, Paired(c), c.op \in {"add", "remove", "new"}
    PROVE  LET o == c.vaults
               lp == OwnedAt(c, "LP")
           IN  /\ o \in Orders /\ o[1] \in Tokens /\ o[2] \in Tokens /\ Tokens = {o[1], o[2]}
               /\ c.users[1] \in Holding /\ c.users[2] \in Holding /\ lp \in Holding
               /\ c.users[1] # c.users[2] /\ c.users[1] # lp /\ c.users[2] # lp
               /\ c.users[1] = OwnedAt(c, o[1]) /\ c.users[2] = OwnedAt(c, o[2])
               /\ c.caps[1] = CapOf(c, o[1]) /\ c.caps[2] = CapOf(c, o[2])
               /\ c.caps[1] \in Amount /\ c.caps[2] \in Amount
               /\ Touched(c) = {c.users[1], c.users[2], lp}
<1> DEFINE o == c.vaults
           lp == OwnedAt(c, "LP")
<1>1. /\ o \in Orders /\ o[1] \in Tokens /\ o[2] \in Tokens /\ Tokens = {o[1], o[2]} /\ o[1] # o[2]
  BY OrderFacts DEF Paired, Orders
<1>2. /\ c.users[1] = OwnedAt(c, o[1]) /\ c.users[2] = OwnedAt(c, o[2])
      /\ c.caps[1] = CapOf(c, o[1]) /\ c.caps[2] = CapOf(c, o[2])
      /\ c.caps[1] \in Amount /\ c.caps[2] \in Amount
  BY DEF Paired
<1>3. o[1] # "LP" /\ o[2] # "LP"
  BY <1>1, TwoTokens
<1>4. /\ c.users[1] \in Holding /\ c.users[2] \in Holding /\ lp \in Holding
      /\ c.users[1].token = o[1] /\ c.users[2].token = o[2] /\ lp.token = "LP"
  BY <1>1, <1>2, OwnedFacts
<1>5. Touched(c) = {c.users[1], c.users[2], lp}
  BY <1>1, <1>2 DEF Touched, TokensOf
<1> QED
  BY <1>1, <1>2, <1>3, <1>4, <1>5

(* A deposit is a number and at most its maximum.                          *)
LEMMA DepositFacts ==
    ASSUME NEW own \in Nat, NEW other \in Nat \ {0}, NEW max_own \in Nat, NEW max_other \in Nat
    PROVE  /\ ActualDeposit(own, other, max_own, max_other) \in Nat
           /\ ActualDeposit(own, other, max_own, max_other) <= max_own
<1>1. Share(own, max_other, other) \in Nat
  BY ShareFacts
<1> QED
  BY <1>1 DEF ActualDeposit, Least

(* The reserves of a pool with its legs in some order.                     *)
LEMMA ReserveFacts ==
    ASSUME NEW p \in PoolDefinition
    PROVE  /\ p.legs \in Orders
           /\ \A i \in 1 .. 2 : ReserveAt(p, i) \in Amount \ {0}
           /\ p.supply \in Nat \ {0} /\ p.supply <= U128_MAX
<1>1. p.legs \in Orders /\ p.reserve \in [Tokens -> Amount \ {0}] /\ p.supply \in MINIMUM_LIQUIDITY .. U128_MAX
  BY DEF PoolDefinition
<1>2. p.legs[1] \in Tokens /\ p.legs[2] \in Tokens
  BY <1>1, OrderFacts
<1> QED
  BY <1>1, <1>2, U128Assumption, AmmMathAssumption DEF ReserveAt

(* A deposit.                                                              *)
LEMMA AddBalanced ==
    ASSUME LedgerOK, NEW c, BuiltAdd(c), AddOk(pool, bal, c),
           pool' = AddDone(pool, bal, c).pool, bal' = AddDone(pool, bal, c).bal
    PROVE  Balanced(c)
<1> DEFINE o == pool.legs
           u == c.users[1]
           v == c.users[2]
           x == DepositAt(pool, c, 1)
           y == DepositAt(pool, c, 2)
           m == LpFor(pool, c)
<1>1. pool \in PoolDefinition /\ c.vaults = o /\ pool.exists
  BY PoolThatExists DEF AddOk, PoolAccountsMatch
<1>2. /\ o \in Orders /\ o[1] \in Tokens /\ o[2] \in Tokens /\ Tokens = {o[1], o[2]}
      /\ u \in Holding /\ v \in Holding /\ c.lp \in Holding
      /\ u # v /\ u # c.lp /\ v # c.lp
      /\ u = OwnedAt(c, o[1]) /\ v = OwnedAt(c, o[2]) /\ c.lp = OwnedAt(c, "LP")
      /\ c.caps[1] = CapOf(c, o[1]) /\ c.caps[2] = CapOf(c, o[2])
      /\ c.caps[1] \in Amount /\ c.caps[2] \in Amount
      /\ Touched(c) = {u, v, c.lp}
  BY <1>1, ThreeHoldings DEF BuiltAdd
<1>3. /\ c.op = "add" /\ c.limit = c.req.limit /\ c.limit \in Nat
      /\ \A i \in 1 .. 2 : c.caps[i] \in Nat
  BY <1>2, U128Assumption DEF BuiltAdd, FromRequest, Request, Amount
<1>4. /\ \A i \in 1 .. 2 : ReserveAt(pool, i) \in Nat \ {0}
      /\ pool.supply \in Nat \ {0}
  BY <1>1, ReserveFacts DEF Amount
<1>5. \A i \in 1 .. 2 : DepositAt(pool, c, i) \in Nat /\ DepositAt(pool, c, i) <= c.caps[i]
  <2> TAKE i \in 1 .. 2
  <2>1. 3 - i \in 1 .. 2
    OBVIOUS
  <2>2. /\ ReserveAt(pool, i) \in Nat /\ ReserveAt(pool, 3 - i) \in Nat \ {0}
        /\ c.caps[i] \in Nat /\ c.caps[3 - i] \in Nat
    BY <1>3, <1>4, <2>1
  <2> QED
    BY <2>2, DepositFacts DEF DepositAt
<1>6. m \in Nat
  <2>1. /\ ReserveAt(pool, 1) \in Nat \ {0} /\ ReserveAt(pool, 2) \in Nat \ {0}
        /\ x \in Nat /\ y \in Nat
    BY <1>4, <1>5
  <2> HIDE DEF x, y
  <2>2. LpMinted(pool.supply, ReserveAt(pool, 1), ReserveAt(pool, 2), x, y) \in Nat
    BY <1>4, <2>1, LpMintedFacts
  <2> QED
    BY <2>2 DEF LpFor, x, y
<1>7. /\ bal[u] >= x /\ bal[v] >= y
      /\ m >= c.limit /\ pool.supply + m <= U128_MAX
      /\ ReserveAt(pool, 1) + x <= U128_MAX /\ ReserveAt(pool, 2) + y <= U128_MAX
  BY DEF AddOk, CanPay, Fits
<1>8. bal' = Gets(Pays(Pays(bal, u, x), v, y), c.lp, m)
  BY DEF AddDone
<1>9. pool' = [pool EXCEPT !.reserve = [t \in Tokens |-> pool.reserve[t] + DepositAt(pool, c, At(o, t))],
                           !.supply = pool.supply + m]
  BY <1>1 DEF AddDone, PoolDefinition, At
<1>10. x \in Nat /\ y \in Nat /\ x <= c.caps[1] /\ y <= c.caps[2]
  BY <1>5
<1> HIDE DEF u, v, x, y, m
<1>11. bal \in Balances
  BY DEF LedgerOK, Balances
<1>12. /\ bal' \in Balances
       /\ UnitsIn(bal', u) = UnitsIn(bal, u) - x
       /\ UnitsIn(bal', v) = UnitsIn(bal, v) - y
       /\ UnitsIn(bal', c.lp) = UnitsIn(bal, c.lp) + m
       /\ \A h \in Holding \ {u, v, c.lp} : bal'[h] = bal[h]
  BY <1>2, <1>6, <1>7, <1>8, <1>10, <1>11, TwoPay
<1>13. UnitsIn(bal, u) \in Nat /\ UnitsIn(bal, v) \in Nat /\ UnitsIn(bal, c.lp) \in Nat
  BY <1>2, <1>11, UnitsFacts
<1>14. Gained(u) = 0 - x /\ Gained(v) = 0 - y /\ Gained(c.lp) = m
  <2>1. c.lp' = c.lp /\ u' = u
    OBVIOUS
  <2> QED
    BY <1>6, <1>10, <1>12, <1>13 DEF Gained, Units
<1>15. /\ pool'.reserve \in [Tokens -> Amount \ {0}]
       /\ pool'.reserve[o[1]] = pool.reserve[o[1]] + x
       /\ pool'.reserve[o[2]] = pool.reserve[o[2]] + y
  <2> DEFINE r(t) == pool.reserve[t] + DepositAt(pool, c, At(o, t))
  <2>1. At(o, o[1]) = 1 /\ At(o, o[2]) = 2
    BY <1>2, Position
  <2>2. r(o[1]) = ReserveAt(pool, 1) + x /\ r(o[2]) = ReserveAt(pool, 2) + y
    BY <2>1 DEF ReserveAt, x, y
  <2>3. r(o[1]) \in Amount \ {0} /\ r(o[2]) \in Amount \ {0}
    BY <1>4, <1>7, <1>10, <2>2, U128Assumption DEF Amount
  <2>4. pool'.reserve = [t \in Tokens |-> r(t)]
    BY <1>1, <1>9 DEF PoolDefinition
  <2> HIDE DEF r
  <2>5. \A t \in Tokens : r(t) \in Amount \ {0}
    BY <1>2, <2>3
  <2> QED
    BY <1>2, <2>2, <2>4, <2>5 DEF ReserveAt
<1>16. pool'.supply = pool.supply + m /\ pool'.exists = pool.exists /\ pool'.legs = o
  BY <1>1, <1>9 DEF PoolDefinition
<1>17. pool' \in PoolDefinition
  <2>1. pool.supply + m \in MINIMUM_LIQUIDITY .. U128_MAX
    BY <1>1, <1>4, <1>6, <1>7, U128Assumption, AmmMathAssumption DEF PoolDefinition
  <2> DEFINE new == [t \in Tokens |-> pool.reserve[t] + DepositAt(pool, c, At(o, t))]
  <2>2. pool' = [pool EXCEPT !.reserve = new, !.supply = pool.supply + m]
    BY <1>9
  <2> HIDE DEF new
  <2>3. new \in [Tokens -> Amount \ {0}]
    BY <1>1, <1>15, <2>2 DEF PoolDefinition
  <2> QED
    BY <1>1, <2>1, <2>2, <2>3 DEF PoolDefinition
<1>18. LedgerOK'
  BY <1>12, <1>17 DEF LedgerOK, Balances
<1>19. WithinBounds(c)
  <2>1. \A t \in Tokens : -Gained(OwnedAt(c, t)) <= CapOf(c, t)
    <3>1. -(0 - x) <= c.caps[1] /\ -(0 - y) <= c.caps[2]
      BY <1>3, <1>10
    <3> QED
      BY <1>2, <1>14, <3>1
  <2>2. Gained(OwnedAt(c, "LP")) >= c.req.limit
    BY <1>2, <1>3, <1>7, <1>14
  <2> QED
    BY <1>3, <2>1, <2>2 DEF WithinBounds
<1>20. \A t \in Tokens : Gained(OwnedAt(c, t)) = pool.reserve[t] - pool'.reserve[t]
  <2>1. pool.reserve[o[1]] \in Int /\ pool.reserve[o[2]] \in Int
    BY <1>4 DEF ReserveAt
  <2>2. 0 - x = pool.reserve[o[1]] - pool'.reserve[o[1]] /\ 0 - y = pool.reserve[o[2]] - pool'.reserve[o[2]]
    BY <1>10, <1>15, <2>1
  <2> QED
    BY <1>2, <1>14, <2>2
<1>21. Gained(OwnedAt(c, "LP")) = pool'.supply - pool.supply
  BY <1>2, <1>4, <1>6, <1>14, <1>16
<1> QED
  BY <1>1, <1>2, <1>3, <1>12, <1>16, <1>18, <1>19, <1>20, <1>21 DEF Balanced, SamePool

(* A withdrawal.                                                           *)
LEMMA RemoveBalanced ==
    ASSUME LedgerOK, NEW c, BuiltRemove(c), RemoveOk(pool, bal, c),
           pool' = RemoveDone(pool, bal, c).pool, bal' = RemoveDone(pool, bal, c).bal
    PROVE  Balanced(c)
<1> DEFINE o == pool.legs
           u == c.users[1]
           v == c.users[2]
           x == WithdrawAt(pool, c, 1)
           y == WithdrawAt(pool, c, 2)
           m == c.amount
<1>1. pool \in PoolDefinition /\ c.vaults = o /\ pool.exists
  BY PoolThatExists DEF RemoveOk, PoolAccountsMatch
<1>2. /\ o \in Orders /\ o[1] \in Tokens /\ o[2] \in Tokens /\ Tokens = {o[1], o[2]}
      /\ u \in Holding /\ v \in Holding /\ c.lp \in Holding
      /\ u # v /\ u # c.lp /\ v # c.lp
      /\ u = OwnedAt(c, o[1]) /\ v = OwnedAt(c, o[2]) /\ c.lp = OwnedAt(c, "LP")
      /\ c.caps[1] = CapOf(c, o[1]) /\ c.caps[2] = CapOf(c, o[2])
      /\ c.caps[1] \in Amount /\ c.caps[2] \in Amount
      /\ Touched(c) = {u, v, c.lp}
  BY <1>1, ThreeHoldings DEF BuiltRemove
<1>3. /\ c.op = "remove" /\ m = c.req.amount /\ m \in Nat
      /\ \A i \in 1 .. 2 : c.caps[i] \in Nat
  BY <1>2, U128Assumption DEF BuiltRemove, FromRequest, Request, Amount
<1>4. /\ \A i \in 1 .. 2 : ReserveAt(pool, i) \in Nat \ {0} /\ ReserveAt(pool, i) <= U128_MAX
      /\ pool.supply \in Nat \ {0} /\ pool.supply <= U128_MAX
  BY <1>1, ReserveFacts DEF Amount
<1>5. /\ m <= pool.supply - MINIMUM_LIQUIDITY /\ m < pool.supply
      /\ bal[c.lp] >= m /\ x >= c.caps[1] /\ y >= c.caps[2]
  BY <1>3, <1>4, AmmMathAssumption DEF RemoveOk, CanPay
<1>6. \A i \in 1 .. 2 : WithdrawAt(pool, c, i) \in Nat /\ WithdrawAt(pool, c, i) < ReserveAt(pool, i)
  <2> TAKE i \in 1 .. 2
  <2>1. ReserveAt(pool, i) \in Nat /\ ReserveAt(pool, i) > 0
    BY <1>4
  <2> QED
    BY <1>3, <1>4, <1>5, <2>1, ShareFacts DEF WithdrawAt
<1>7. x \in Nat /\ y \in Nat /\ x < ReserveAt(pool, 1) /\ y < ReserveAt(pool, 2)
  BY <1>6
<1>8. bal' = Gets(Gets(Pays(bal, c.lp, m), u, x), v, y)
  BY DEF RemoveDone
<1>9. pool' = [pool EXCEPT !.reserve = [t \in Tokens |-> pool.reserve[t] - WithdrawAt(pool, c, At(o, t))],
                           !.supply = pool.supply - m]
  BY <1>1 DEF RemoveDone, PoolDefinition, At
<1> HIDE DEF u, v, x, y, m
<1>10. bal \in Balances
  BY DEF LedgerOK, Balances
<1>11. /\ bal' \in Balances
       /\ UnitsIn(bal', u) = UnitsIn(bal, u) + x
       /\ UnitsIn(bal', v) = UnitsIn(bal, v) + y
       /\ UnitsIn(bal', c.lp) = UnitsIn(bal, c.lp) - m
       /\ \A h \in Holding \ {u, v, c.lp} : bal'[h] = bal[h]
  <2>1. /\ u \in Holding /\ v \in Holding /\ c.lp \in Holding /\ u # v /\ u # c.lp /\ v # c.lp
        /\ x \in Nat /\ y \in Nat /\ m \in Nat /\ bal[c.lp] >= m
    BY <1>2, <1>3, <1>5, <1>7
  <2> DEFINE l == c.lp
  <2> HIDE DEF l
  <2>2. l \in Holding /\ u # l /\ v # l /\ bal[l] >= m /\ bal' = Gets(Gets(Pays(bal, l, m), u, x), v, y)
    BY <1>8, <2>1 DEF l
  <2>3. /\ bal' \in Balances
        /\ UnitsIn(bal', u) = UnitsIn(bal, u) + x
        /\ UnitsIn(bal', v) = UnitsIn(bal, v) + y
        /\ UnitsIn(bal', l) = UnitsIn(bal, l) - m
        /\ \A h \in Holding \ {u, v, l} : bal'[h] = bal[h]
    BY <1>10, <2>1, <2>2, TwoGet, SMTT(30)
  <2> QED
    BY <2>3 DEF l
<1>12. UnitsIn(bal, u) \in Nat /\ UnitsIn(bal, v) \in Nat /\ UnitsIn(bal, c.lp) \in Nat
  BY <1>2, <1>10, UnitsFacts
<1>13. Gained(u) = x /\ Gained(v) = y /\ Gained(c.lp) = 0 - m
  <2>1. c.lp' = c.lp /\ u' = u
    OBVIOUS
  <2> QED
    BY <1>3, <1>7, <1>11, <1>12 DEF Gained, Units
<1> DEFINE new == [t \in Tokens |-> pool.reserve[t] - WithdrawAt(pool, c, At(o, t))]
<1>14. /\ new \in [Tokens -> Amount \ {0}]
       /\ new[o[1]] = pool.reserve[o[1]] - x
       /\ new[o[2]] = pool.reserve[o[2]] - y
  <2> DEFINE r(t) == pool.reserve[t] - WithdrawAt(pool, c, At(o, t))
  <2>1. At(o, o[1]) = 1 /\ At(o, o[2]) = 2
    BY <1>2, Position
  <2>2. r(o[1]) = ReserveAt(pool, 1) - x /\ r(o[2]) = ReserveAt(pool, 2) - y
    BY <2>1 DEF ReserveAt, x, y
  <2>3. r(o[1]) \in Amount \ {0} /\ r(o[2]) \in Amount \ {0}
    BY <1>4, <1>7, <2>2, U128Assumption DEF Amount
  <2>4. new = [t \in Tokens |-> r(t)]
    OBVIOUS
  <2> HIDE DEF r, new
  <2>5. \A t \in Tokens : r(t) \in Amount \ {0}
    BY <1>2, <2>3
  <2> QED
    BY <1>2, <2>2, <2>4, <2>5 DEF ReserveAt
<1>15. pool' = [pool EXCEPT !.reserve = new, !.supply = pool.supply - m]
  BY <1>9
<1> HIDE DEF new
<1>16. /\ pool'.supply = pool.supply - m /\ pool'.exists = pool.exists /\ pool'.legs = o
       /\ pool'.reserve = new
       /\ pool' \in PoolDefinition
  <2>1. pool.supply - m \in MINIMUM_LIQUIDITY .. U128_MAX
    BY <1>3, <1>4, <1>5, U128Assumption, AmmMathAssumption
  <2>2. pool \in PoolDefinition /\ pool.legs = o
    BY <1>1
  <2>3. new \in [Tokens -> Amount \ {0}]
    BY <1>14
  <2>4. [pool EXCEPT !.reserve = new, !.supply = pool.supply - m] \in PoolDefinition
    BY <2>1, <2>2, <2>3 DEF PoolDefinition
  <2>5. /\ pool'.supply = pool.supply - m /\ pool'.exists = pool.exists /\ pool'.legs = o
        /\ pool'.reserve = new
    BY <1>15, <2>2 DEF PoolDefinition
  <2> QED
    BY <1>15, <2>4, <2>5
<1>17. LedgerOK'
  BY <1>11, <1>16 DEF LedgerOK, Balances
<1>18. WithinBounds(c)
  <2>1. \A t \in Tokens : Gained(OwnedAt(c, t)) >= CapOf(c, t)
    BY <1>2, <1>5, <1>13
  <2>2. Gained(OwnedAt(c, "LP")) = -c.req.amount
    BY <1>2, <1>3, <1>13
  <2> QED
    BY <1>3, <2>1, <2>2 DEF WithinBounds
<1>19. \A t \in Tokens : Gained(OwnedAt(c, t)) = pool.reserve[t] - pool'.reserve[t]
  <2>1. pool.reserve[o[1]] \in Int /\ pool.reserve[o[2]] \in Int
    BY <1>4 DEF ReserveAt
  <2>2. x = pool.reserve[o[1]] - pool'.reserve[o[1]] /\ y = pool.reserve[o[2]] - pool'.reserve[o[2]]
    BY <1>7, <1>14, <1>16, <2>1
  <2> QED
    BY <1>2, <1>13, <2>2
<1>20. Gained(OwnedAt(c, "LP")) = pool'.supply - pool.supply
  BY <1>2, <1>3, <1>4, <1>13, <1>16
<1> QED
  BY <1>1, <1>2, <1>3, <1>11, <1>16, <1>17, <1>18, <1>19, <1>20 DEF Balanced, SamePool

(* A pool that is created.                                                 *)
LEMMA NewBalanced ==
    ASSUME LedgerOK, NEW c, BuiltNew(c), NewOk(pool, bal, c),
           pool' = NewDone(pool, bal, c).pool, bal' = NewDone(pool, bal, c).bal
    PROVE  Balanced(c)
<1> DEFINE o == c.vaults
           u == c.users[1]
           v == c.users[2]
           x == c.caps[1]
           y == c.caps[2]
           s == InitialLp(c)
           m == s - MINIMUM_LIQUIDITY
<1>1. ~pool.exists /\ pool = NoPool
  BY PoolThatExists DEF NewOk
<1>2. /\ o \in Orders /\ o[1] \in Tokens /\ o[2] \in Tokens /\ Tokens = {o[1], o[2]}
      /\ u \in Holding /\ v \in Holding /\ c.lp \in Holding
      /\ u # v /\ u # c.lp /\ v # c.lp
      /\ u = OwnedAt(c, o[1]) /\ v = OwnedAt(c, o[2]) /\ c.lp = OwnedAt(c, "LP")
      /\ x = CapOf(c, o[1]) /\ y = CapOf(c, o[2])
      /\ x \in Amount /\ y \in Amount
      /\ Touched(c) = {u, v, c.lp}
  BY ThreeHoldings DEF BuiltNew
<1>3. c.op = "new" /\ x \in Nat \ {0} /\ y \in Nat \ {0}
  <2>1. x # 0 /\ y # 0
    BY DEF NewOk
  <2>2. x \in Nat /\ y \in Nat
    BY <1>2, U128Assumption DEF Amount
  <2> QED
    BY <2>1, <2>2 DEF BuiltNew
<1>4. x * y \in Amount
  BY <1>3, U128Assumption DEF NewOk, Fits, Amount
<1>5. s \in Amount
  <2>1. \E r \in Amount : IsISqrt(r, x * y)
    BY <1>4, ISqrtFacts
  <2> QED
    BY <2>1 DEF InitialLp, Amount
<1>6. m \in Nat /\ s >= MINIMUM_LIQUIDITY /\ s \in Nat /\ s <= U128_MAX /\ MINIMUM_LIQUIDITY \in Nat
  <2>1. s > MINIMUM_LIQUIDITY
    BY DEF NewOk
  <2> QED
    BY <1>5, <2>1, U128Assumption, AmmMathAssumption DEF Amount
<1>7. bal[u] >= x /\ bal[v] >= y
  BY DEF NewOk
<1>8. bal' = Gets(Pays(Pays(bal, u, x), v, y), c.lp, m)
  BY DEF NewDone
<1> DEFINE new == [t \in Tokens |-> c.caps[At(o, t)]]
<1>9. pool' = [exists |-> TRUE, legs |-> o, reserve |-> new, supply |-> s, ata_pinned |-> c.pin]
  BY DEF NewDone, At
<1>10. new \in [Tokens -> Amount \ {0}] /\ new[o[1]] = x /\ new[o[2]] = y
  <2>1. At(o, o[1]) = 1 /\ At(o, o[2]) = 2
    BY <1>2, Position
  <2> QED
    BY <1>2, <1>3, <2>1
<1> HIDE DEF o, u, v, x, y, s, m, new
<1>11. bal \in Balances
  BY DEF LedgerOK, Balances
<1>12. /\ bal' \in Balances
       /\ UnitsIn(bal', u) = UnitsIn(bal, u) - x
       /\ UnitsIn(bal', v) = UnitsIn(bal, v) - y
       /\ UnitsIn(bal', c.lp) = UnitsIn(bal, c.lp) + m
       /\ \A h \in Holding \ {u, v, c.lp} : bal'[h] = bal[h]
  <2>1. /\ u \in Holding /\ v \in Holding /\ c.lp \in Holding /\ u # v /\ u # c.lp /\ v # c.lp
        /\ x \in Nat /\ y \in Nat /\ m \in Nat /\ bal[u] >= x /\ bal[v] >= y
    BY <1>2, <1>3, <1>6, <1>7
  <2> QED
    BY <1>8, <1>11, <2>1, TwoPay
<1>13. UnitsIn(bal, u) \in Nat /\ UnitsIn(bal, v) \in Nat /\ UnitsIn(bal, c.lp) \in Nat
  BY <1>2, <1>11, UnitsFacts
<1>14. Gained(u) = 0 - x /\ Gained(v) = 0 - y /\ Gained(c.lp) = m
  <2>1. c.lp' = c.lp /\ u' = u
    OBVIOUS
  <2> QED
    BY <1>3, <1>6, <1>12, <1>13 DEF Gained, Units
<1>15. pool'.supply = s /\ pool'.exists /\ pool'.legs = o /\ pool'.reserve = new
  BY <1>9
<1>16. pool' \in PoolDefinition
  <2>1. s \in MINIMUM_LIQUIDITY .. U128_MAX
    BY <1>6, U128Assumption
  <2>2. c.pin \in BOOLEAN
    BY DEF BuiltNew
  <2> QED
    BY <1>2, <1>9, <1>10, <2>1, <2>2 DEF PoolDefinition
<1>17. LedgerOK'
  BY <1>12, <1>16 DEF LedgerOK, Balances
<1>18. WithinBounds(c)
  <2>1. \A t \in Tokens : Gained(OwnedAt(c, t)) = -CapOf(c, t)
    BY <1>2, <1>3, <1>14
  <2> QED
    BY <1>3, <2>1 DEF WithinBounds
<1>19. \A t \in Tokens : Gained(OwnedAt(c, t)) = pool.reserve[t] - pool'.reserve[t]
  <2>1. pool.reserve[o[1]] = 0 /\ pool.reserve[o[2]] = 0
    BY <1>1, <1>2 DEF NoPool
  <2>2. 0 - x = pool.reserve[o[1]] - pool'.reserve[o[1]] /\ 0 - y = pool.reserve[o[2]] - pool'.reserve[o[2]]
    BY <1>3, <1>10, <1>15, <2>1
  <2> QED
    BY <1>2, <1>14, <2>2
<1>20. Gained(OwnedAt(c, "LP")) = pool'.supply - MINIMUM_LIQUIDITY
  BY <1>2, <1>14, <1>15 DEF m
<1> QED
  BY <1>1, <1>2, <1>3, <1>12, <1>17, <1>18, <1>19, <1>20 DEF Balanced, SamePool

(* A move between two holdings.                                            *)
LEMMA TransferBalanced ==
    ASSUME LedgerOK, NEW c, BuiltTransfer(c), TransferOk(bal, c),
           pool' = TransferDone(pool, bal, c).pool, bal' = TransferDone(pool, bal, c).bal
    PROVE  Balanced(c) /\ pool' = pool
<1> DEFINE u == c.ends[1]
           v == c.ends[2]
           n == c.amount
<1>1. /\ u \in Holding /\ v \in Holding /\ u # v /\ n \in Nat /\ bal[u] >= n /\ c.op = "transfer"
      /\ c.ends = <<u, v>>
  BY U128Assumption DEF BuiltTransfer, TransferOk, CanPay, Amount
<1>2. pool' = pool /\ bal' = Gets(Pays(bal, u, n), v, n)
  BY DEF TransferDone
<1>3. Touched(c) = {u, v}
  BY <1>1 DEF Touched, ToSet
<1> HIDE DEF u, v, n
<1>4. bal \in Balances
  BY DEF LedgerOK, Balances
<1>5. /\ bal' \in Balances
      /\ UnitsIn(bal', u) = UnitsIn(bal, u) - n
      /\ UnitsIn(bal', v) = UnitsIn(bal, v) + n
      /\ \A h \in Holding \ {u, v} : bal'[h] = bal[h]
  BY <1>1, <1>2, <1>4, PaidAndGot
<1>6. UnitsIn(bal, u) \in Nat /\ UnitsIn(bal, v) \in Nat
  BY <1>1, <1>4, UnitsFacts
<1>7. Gained(u) = -n /\ Gained(v) = n
  <2>1. u' = u /\ v' = v
    BY DEF u, v
  <2> QED
    BY <1>1, <1>5, <1>6 DEF Gained, Units
<1>8. WithinBounds(c)
  BY <1>1, <1>7 DEF WithinBounds, u, v, n
<1>9. LedgerOK'
  BY <1>2, <1>5 DEF LedgerOK, Balances
<1> QED
  BY <1>1, <1>2, <1>3, <1>5, <1>8, <1>9 DEF Balanced, SamePool

(* An account that is opened.                                              *)
LEMMA InitBalanced ==
    ASSUME LedgerOK, NEW c, BuiltInit(c),
           pool' = InitDone(pool, bal, c).pool, bal' = InitDone(pool, bal, c).bal
    PROVE  /\ Balanced(c) /\ pool' = pool
           /\ \A h \in Holding : UnitsIn(bal', h) = UnitsIn(bal, h)
<1> DEFINE u == c.ends[1]
<1>1. u \in Holding /\ c.ends[2] = u /\ c.op = "init" /\ c.ends = <<u, u>>
  BY DEF BuiltInit
<1>2. pool' = pool /\ bal' = IF bal[u] = Absent THEN [bal EXCEPT ![u] = 0] ELSE bal
  BY DEF InitDone
<1>3. Touched(c) = {u}
  BY <1>1 DEF Touched, ToSet
<1> HIDE DEF u
<1>4. bal \in Balances
  BY DEF LedgerOK, Balances
<1>5. bal' \in Balances /\ \A h \in Holding \ {u} : bal'[h] = bal[h]
  BY <1>1, <1>2, <1>4 DEF Balances
<1>6. \A h \in Holding : UnitsIn(bal', h) = UnitsIn(bal, h)
  BY <1>1, <1>2, <1>4 DEF UnitsIn, Balances, Absent
<1>7. UnitsIn(bal, u) \in Nat
  BY <1>1, <1>4, UnitsFacts
<1>8. Gained(u) = 0
  <2>1. u' = u
    BY DEF u
  <2> QED
    BY <1>1, <1>6, <1>7 DEF Gained, Units
<1>9. WithinBounds(c)
  BY <1>1, <1>8 DEF WithinBounds, u
<1>10. LedgerOK'
  BY <1>2, <1>5 DEF LedgerOK, Balances
<1> QED
  BY <1>1, <1>2, <1>3, <1>5, <1>6, <1>9, <1>10 DEF Balanced, SamePool

-----------------------------------------------------------------------------
(* Sums over the holdings of a token.                                      *)

(* What is outside as the sum of a function.                               *)
LEMMA OutsideIsTotal ==
    ASSUME NEW b \in Balances, NEW t, NEW units, units = [h \in Holding |-> UnitsIn(b, h)]
    PROVE  /\ Outside(b, t) = Total(units, OfToken(t))
           /\ \A h \in OfToken(t) : units[h] = UnitsIn(b, h) /\ units[h] \in Nat
           /\ IsFiniteSet(OfToken(t))
<1>1. Outside(b, t) = Total(units, OfToken(t))
  BY DEF Outside, Total
<1>2. \A h \in OfToken(t) : h \in Holding
  BY DEF OfToken
<1> QED
  BY <1>1, <1>2, UnitsFacts, FiniteHoldings

(* One holding of the token changes.                                       *)
LEMMA OutsideChange ==
    ASSUME NEW b \in Balances, NEW d \in Balances, NEW t, NEW x \in OfToken(t),
           \A h \in OfToken(t) \ {x} : d[h] = b[h]
    PROVE  /\ Outside(d, t) = Outside(b, t) + UnitsIn(d, x) - UnitsIn(b, x)
           /\ Outside(b, t) \in Nat
<1> DEFINE f == [h \in Holding |-> UnitsIn(b, h)]
           g == [h \in Holding |-> UnitsIn(d, h)]
<1>1. /\ Outside(b, t) = Total(f, OfToken(t))
      /\ \A h \in OfToken(t) : f[h] = UnitsIn(b, h) /\ f[h] \in Nat
      /\ IsFiniteSet(OfToken(t))
  BY OutsideIsTotal
<1>2. /\ Outside(d, t) = Total(g, OfToken(t))
      /\ \A h \in OfToken(t) : g[h] = UnitsIn(d, h) /\ g[h] \in Nat
  BY OutsideIsTotal
<1>3. \A h \in OfToken(t) \ {x} : g[h] = f[h]
  BY <1>1, <1>2 DEF UnitsIn
<1> HIDE DEF f, g
<1>4. Total(g, OfToken(t)) = Total(f, OfToken(t)) + g[x] - f[x]
  BY <1>1, <1>2, <1>3, TotalChange
<1>5. Total(f, OfToken(t)) \in Nat
  BY <1>1, TotalPart
<1> QED
  BY <1>1, <1>2, <1>4, <1>5

(* None changes.                                                           *)
LEMMA OutsideSame ==
    ASSUME NEW b \in Balances, NEW d \in Balances, NEW t,
           \A h \in OfToken(t) : UnitsIn(d, h) = UnitsIn(b, h)
    PROVE  Outside(d, t) = Outside(b, t) /\ Outside(b, t) \in Nat
<1> DEFINE f == [h \in Holding |-> UnitsIn(b, h)]
           g == [h \in Holding |-> UnitsIn(d, h)]
<1>1. /\ Outside(b, t) = Total(f, OfToken(t))
      /\ \A h \in OfToken(t) : f[h] = UnitsIn(b, h) /\ f[h] \in Nat
      /\ IsFiniteSet(OfToken(t))
  BY OutsideIsTotal
<1>2. /\ Outside(d, t) = Total(g, OfToken(t))
      /\ \A h \in OfToken(t) : g[h] = UnitsIn(d, h) /\ g[h] \in Nat
  BY OutsideIsTotal
<1> HIDE DEF f, g
<1>3. Total(g, OfToken(t)) = Total(f, OfToken(t))
  BY <1>1, <1>2, TotalSame
<1>4. Total(f, OfToken(t)) \in Nat
  BY <1>1, TotalPart
<1> QED
  BY <1>1, <1>2, <1>3, <1>4

(* Units move between two holdings of the token.                           *)
LEMMA OutsideMoved ==
    ASSUME NEW b \in Balances, NEW t, NEW x \in OfToken(t), NEW y \in OfToken(t), x # y,
           NEW n \in Nat, b[x] >= n, NEW d, d = Gets(Pays(b, x, n), y, n)
    PROVE  Outside(d, t) = Outside(b, t) /\ Outside(b, t) \in Nat
<1> DEFINE mid == Pays(b, x, n)
<1>1. x \in Holding /\ y \in Holding /\ \A h \in OfToken(t) : h \in Holding
  BY DEF OfToken
<1>2. /\ mid \in Balances
      /\ UnitsIn(mid, x) = UnitsIn(b, x) - n
      /\ \A g \in Holding \ {x} : mid[g] = b[g]
  BY <1>1, PaysFacts
<1> HIDE DEF mid
<1>3. /\ Gets(mid, y, n) \in Balances
      /\ UnitsIn(Gets(mid, y, n), y) = UnitsIn(mid, y) + n
      /\ \A g \in Holding \ {y} : Gets(mid, y, n)[g] = mid[g]
  BY <1>1, <1>2, GetsFacts
<1>4. d = Gets(mid, y, n)
  BY DEF mid
<1>5. /\ Outside(mid, t) = Outside(b, t) + UnitsIn(mid, x) - UnitsIn(b, x)
      /\ Outside(b, t) \in Nat
  BY <1>1, <1>2, OutsideChange
<1>6. /\ Outside(d, t) = Outside(mid, t) + UnitsIn(d, y) - UnitsIn(mid, y)
      /\ Outside(mid, t) \in Nat
  BY <1>1, <1>2, <1>3, <1>4, OutsideChange
<1>7. UnitsIn(b, x) \in Nat /\ UnitsIn(mid, y) \in Nat
  BY <1>1, <1>2, UnitsFacts
<1> QED
  BY <1>2, <1>3, <1>4, <1>5, <1>6, <1>7

(* A call that is run, on the pool there is.                               *)
Ran(c) ==
    /\ HandlerOk(pool, bal, c)
    /\ pool' = After(pool, bal, c).pool
    /\ bal' = After(pool, bal, c).bal

(* What a run adds up to, token by token.                                  *)
Accounted ==
    /\ \A t \in Tokens : Circulating(t)' + pool'.reserve[t] = Circulating(t) + pool.reserve[t]
    /\ pool.exists => Circulating("LP")' - pool'.supply = Circulating("LP") - pool.supply
    /\ LpBacked => LpBacked'

(* Amounts of a pool are numbers.                                          *)
LEMMA PoolNumbers ==
    ASSUME LedgerOK
    PROVE  /\ pool.supply \in Int /\ \A t \in Tokens : pool.reserve[t] \in Int
           /\ MINIMUM_LIQUIDITY \in Nat
<1>1. MINIMUM_LIQUIDITY \in Nat
  BY AmmMathAssumption
<1>2. CASE pool.exists
  <2>1. pool.reserve \in [Tokens -> Amount \ {0}] /\ pool.supply \in MINIMUM_LIQUIDITY .. U128_MAX
    BY <1>2, PoolThatExists DEF PoolDefinition
  <2> QED
    BY <1>1, <2>1 DEF Amount
<1>3. CASE ~pool.exists
  BY <1>1, <1>3, PoolThatExists DEF NoPool
<1> QED
  BY <1>2, <1>3

(* A call on the pool: what the caller's holding of each token gains, the    *)
(* reserve loses.                                                          *)
LEMMA PoolCallAccounted ==
    ASSUME LedgerOK, NEW c, c.op \in {"swap_in", "swap_out", "add", "remove", "new"},
           Balanced(c), c.op # "new" => pool.exists, c.op = "new" => pool = NoPool
    PROVE  Accounted
<1>1. bal \in Balances /\ bal' \in Balances
  BY DEF Balanced, LedgerOK, Balances
<1>2. /\ pool.supply \in Int /\ pool'.supply \in Int /\ MINIMUM_LIQUIDITY \in Nat
      /\ \A t \in Tokens : pool.reserve[t] \in Int /\ pool'.reserve[t] \in Int
  <2>1. LedgerOK'
    BY DEF Balanced
  <2>2. pool'.supply \in Int /\ \A t \in Tokens : pool'.reserve[t] \in Int
    <3>1. pool' \in PoolDefinition \cup {NoPool}
      BY <2>1 DEF LedgerOK
    <3>2. CASE pool' \in PoolDefinition
      BY <3>2, AmmMathAssumption DEF PoolDefinition, Amount
    <3>3. CASE pool' = NoPool
      BY <3>3 DEF NoPool
    <3> QED
      BY <3>1, <3>2, <3>3
  <2> QED
    BY <2>2, PoolNumbers
<1>3. \A t \in TokensOf(c) : OwnedAt(c, t) \in Holding /\ OwnedAt(c, t).token = t
  BY OwnedFacts DEF TokensOf
<1>4. \A h \in Holding : (\A t \in TokensOf(c) : h # OwnedAt(c, t)) => bal'[h] = bal[h]
  <2>1. Touched(c) = {OwnedAt(c, t) : t \in TokensOf(c)}
    BY DEF Touched
  <2>2. \A h \in Holding \ Touched(c) : bal'[h] = bal[h]
    BY DEF Balanced
  <2> QED
    BY <2>1, <2>2
<1>5. ASSUME NEW t \in TokensOf(c)
      PROVE  /\ Outside(bal', t) = Outside(bal, t) + Gained(OwnedAt(c, t))
             /\ Outside(bal, t) \in Nat /\ Gained(OwnedAt(c, t)) \in Int
  <2>1. OwnedAt(c, t) \in OfToken(t)
    BY <1>3 DEF OfToken
  <2>2. \A h \in OfToken(t) \ {OwnedAt(c, t)} : bal'[h] = bal[h]
    BY <1>3, <1>4 DEF OfToken
  <2>3. /\ Outside(bal', t) = Outside(bal, t) + UnitsIn(bal', OwnedAt(c, t)) - UnitsIn(bal, OwnedAt(c, t))
        /\ Outside(bal, t) \in Nat
    BY <1>1, <2>1, <2>2, OutsideChange
  <2>4. UnitsIn(bal', OwnedAt(c, t)) \in Nat /\ UnitsIn(bal, OwnedAt(c, t)) \in Nat
    BY <1>1, <1>3, UnitsFacts
  <2>5. Gained(OwnedAt(c, t)) = UnitsIn(bal', OwnedAt(c, t)) - UnitsIn(bal, OwnedAt(c, t))
    BY DEF Gained, Units
  <2> QED
    BY <2>3, <2>4, <2>5
<1>6. \A t \in Tokens : Circulating(t)' + pool'.reserve[t] = Circulating(t) + pool.reserve[t]
  <2> TAKE t \in Tokens
  <2>1. t \in TokensOf(c)
    BY DEF TokensOf
  <2>2. Gained(OwnedAt(c, t)) = pool.reserve[t] - pool'.reserve[t]
    BY DEF Balanced
  <2> QED
    BY <1>2, <1>5, <2>1, <2>2 DEF Circulating
<1>7. CASE c.op \in {"swap_in", "swap_out"}
  <2>1. pool'.supply = pool.supply
    BY <1>7 DEF Balanced
  <2>2. TokensOf(c) = Tokens
    BY <1>7 DEF TokensOf
  <2>3. \A h \in OfToken("LP") : UnitsIn(bal', h) = UnitsIn(bal, h)
    <3>1. "LP" \notin Tokens
      BY PoolHandlersAssumption
    <3>2. \A h \in OfToken("LP") : bal'[h] = bal[h]
      BY <1>3, <1>4, <2>2, <3>1 DEF OfToken
    <3> QED
      BY <3>2 DEF UnitsIn
  <2>4. Outside(bal', "LP") = Outside(bal, "LP") /\ Outside(bal, "LP") \in Nat
    BY <1>1, <2>3, OutsideSame
  <2> QED
    BY <1>6, <2>1, <2>4 DEF Accounted, Circulating, LpBacked
<1>8. CASE c.op \in {"add", "remove"}
  <2>1. "LP" \in TokensOf(c) /\ pool.exists
    BY <1>8 DEF TokensOf
  <2>2. Gained(OwnedAt(c, "LP")) = pool'.supply - pool.supply
    BY <1>8 DEF Balanced
  <2>3. /\ Outside(bal', "LP") = Outside(bal, "LP") + (pool'.supply - pool.supply)
        /\ Outside(bal, "LP") \in Nat
    BY <1>5, <2>1, <2>2
  <2>4. Circulating("LP")' - pool'.supply = Circulating("LP") - pool.supply
    BY <1>2, <2>3 DEF Circulating
  <2>5. LpBacked => LpBacked'
    BY <1>2, <2>3 DEF LpBacked
  <2> QED
    BY <1>6, <2>4, <2>5 DEF Accounted
<1>9. CASE c.op = "new"
  <2>1. "LP" \in TokensOf(c) /\ pool.supply = 0 /\ ~pool.exists
    BY <1>9 DEF TokensOf, NoPool
  <2>2. Gained(OwnedAt(c, "LP")) = pool'.supply - MINIMUM_LIQUIDITY
    BY <1>9 DEF Balanced
  <2>3. /\ Outside(bal', "LP") = Outside(bal, "LP") + (pool'.supply - MINIMUM_LIQUIDITY)
        /\ Outside(bal, "LP") \in Nat
    BY <1>5, <2>1, <2>2
  <2>4. LpBacked => LpBacked'
    BY <1>2, <2>1, <2>3 DEF LpBacked
  <2> QED
    BY <1>6, <2>1, <2>4 DEF Accounted
<1> QED
  BY <1>7, <1>8, <1>9

(* Any call that is run.                                                   *)
LEMMA RanBalanced ==
    ASSUME LedgerOK, NEW c, Built(c), Ran(c)
    PROVE  Balanced(c) /\ Accounted
<1>1. CASE BuiltSwap(c)
  <2>1. c.op \in {"swap_in", "swap_out"}
    BY <1>1 DEF BuiltSwap
  <2>2. SwapOk(pool, bal, c) /\ After(pool, bal, c) = SwapDone(pool, bal, c)
    BY <2>1 DEF Ran, HandlerOk, After
  <2>3. Balanced(c)
    BY <1>1, <2>2, SwapBalanced DEF Ran
  <2> QED
    BY <2>1, <2>2, <2>3, PoolCallAccounted DEF SwapOk, PoolAccountsMatch
<1>2. CASE BuiltAdd(c)
  <2>1. c.op = "add"
    BY <1>2 DEF BuiltAdd
  <2>2. AddOk(pool, bal, c) /\ After(pool, bal, c) = AddDone(pool, bal, c)
    BY <2>1 DEF Ran, HandlerOk, After
  <2>3. Balanced(c)
    BY <1>2, <2>2, AddBalanced DEF Ran
  <2> QED
    BY <2>1, <2>2, <2>3, PoolCallAccounted DEF AddOk, PoolAccountsMatch
<1>3. CASE BuiltRemove(c)
  <2>1. c.op = "remove"
    BY <1>3 DEF BuiltRemove
  <2>2. RemoveOk(pool, bal, c) /\ After(pool, bal, c) = RemoveDone(pool, bal, c)
    BY <2>1 DEF Ran, HandlerOk, After
  <2>3. Balanced(c)
    BY <1>3, <2>2, RemoveBalanced DEF Ran
  <2> QED
    BY <2>1, <2>2, <2>3, PoolCallAccounted DEF RemoveOk, PoolAccountsMatch
<1>4. CASE BuiltNew(c)
  <2>1. c.op = "new"
    BY <1>4 DEF BuiltNew
  <2>2. NewOk(pool, bal, c) /\ After(pool, bal, c) = NewDone(pool, bal, c)
    BY <2>1 DEF Ran, HandlerOk, After
  <2>3. Balanced(c)
    BY <1>4, <2>2, NewBalanced DEF Ran
  <2>4. pool = NoPool
    BY <2>2, PoolThatExists DEF NewOk
  <2> QED
    BY <2>1, <2>3, <2>4, PoolCallAccounted
<1>5. CASE BuiltTransfer(c)
  <2>1. c.op = "transfer"
    BY <1>5 DEF BuiltTransfer
  <2>2. TransferOk(bal, c) /\ After(pool, bal, c) = TransferDone(pool, bal, c)
    BY <2>1 DEF Ran, HandlerOk, After
  <2>3. Balanced(c) /\ pool' = pool
    BY <1>5, <2>2, TransferBalanced DEF Ran
  <2>4. ASSUME NEW t PROVE Outside(bal', t) = Outside(bal, t)
    <3>1. bal \in Balances /\ bal' \in Balances
      BY <2>3 DEF Balanced, LedgerOK, Balances
    <3>2. /\ c.ends[1] \in Holding /\ c.ends[2] \in Holding /\ c.ends[1] # c.ends[2]
          /\ c.ends[1].token = c.in /\ c.ends[2].token = c.in
          /\ c.amount \in Nat /\ bal[c.ends[1]] >= c.amount
      BY <1>5, <2>2, U128Assumption DEF BuiltTransfer, TransferOk, CanPay, Amount
    <3>3. bal' = Gets(Pays(bal, c.ends[1], c.amount), c.ends[2], c.amount)
      BY <2>2 DEF Ran, TransferDone
    <3>4. CASE t = c.in
      <4>1. c.ends[1] \in OfToken(t) /\ c.ends[2] \in OfToken(t)
        BY <3>2, <3>4 DEF OfToken
      <4> QED
        BY <3>1, <3>2, <3>3, <4>1, OutsideMoved
    <3>5. CASE t # c.in
      <4>1. Touched(c) = {c.ends[1], c.ends[2]}
        <5>1. c.ends = <<c.ends[1], c.ends[2]>>
          BY <1>5 DEF BuiltTransfer
        <5> QED
          BY <2>1, <5>1 DEF Touched, ToSet
      <4>2. \A h \in Holding \ Touched(c) : bal'[h] = bal[h]
        BY <2>3 DEF Balanced
      <4>3. \A h \in OfToken(t) : bal'[h] = bal[h]
        BY <3>2, <3>5, <4>1, <4>2 DEF OfToken
      <4> QED
        BY <3>1, <4>3, OutsideSame DEF UnitsIn
    <3> QED
      BY <3>4, <3>5
  <2> QED
    BY <2>3, <2>4 DEF Accounted, Circulating, LpBacked
<1>6. CASE BuiltInit(c)
  <2>1. c.op = "init"
    BY <1>6 DEF BuiltInit
  <2>2. After(pool, bal, c) = InitDone(pool, bal, c)
    BY <2>1 DEF After
  <2>3. /\ Balanced(c) /\ pool' = pool
        /\ \A h \in Holding : UnitsIn(bal', h) = UnitsIn(bal, h)
    BY <1>6, <2>2, InitBalanced DEF Ran
  <2>4. ASSUME NEW t PROVE Outside(bal', t) = Outside(bal, t)
    <3>1. bal \in Balances /\ bal' \in Balances
      BY <2>3 DEF Balanced, LedgerOK, Balances
    <3> QED
      BY <2>3, <3>1, OutsideSame DEF OfToken
  <2> QED
    BY <2>3, <2>4 DEF Accounted, Circulating, LpBacked
<1> QED
  BY <1>1, <1>2, <1>3, <1>4, <1>5, <1>6 DEF Built

-----------------------------------------------------------------------------
(* The chain keeps the invariant.                                          *)

(* A call leaves the sequence.                                             *)
LEMMA Removed ==
    ASSUME NEW s, s \in Seq(ToSet(s)), NEW i \in DOMAIN s, NEW r, r = RemoveAt(s, i)
    PROVE  ToSet(r) \subseteq ToSet(s) /\ r \in Seq(ToSet(r))
<1>1. Len(s) \in Nat /\ DOMAIN s = 1 .. Len(s) /\ i \in 1 .. Len(s)
  BY LenProperties
<1>2. SubSeq(s, 1, i - 1) \in Seq(ToSet(s)) /\ SubSeq(s, i + 1, Len(s)) \in Seq(ToSet(s))
  BY <1>1, SubSeqProperties
<1>3. r \in Seq(ToSet(s))
  BY <1>2, ConcatProperties DEF RemoveAt
<1>4. DOMAIN r = 1 .. Len(r) /\ Len(r) \in Nat /\ r \in [1 .. Len(r) -> ToSet(s)]
  BY <1>3, LenProperties
<1>5. ToSet(r) \subseteq ToSet(s)
  BY <1>4 DEF ToSet
<1>6. r \in [1 .. Len(r) -> ToSet(r)]
  BY <1>4 DEF ToSet
<1> QED
  BY <1>4, <1>5, <1>6, SeqDef

(* Calls that are still on their way stay in order.                        *)
LEMMA CallsStay ==
    ASSUME CallsBuilt, SamePool, ToSet(sent') \subseteq ToSet(sent)
    PROVE  CallsBuilt'
<1> SUFFICES ASSUME NEW c \in ToSet(sent') PROVE Built(c)' /\ InOrder(c)'
  BY DEF CallsBuilt
<1>1. Built(c) /\ InOrder(c)
  BY DEF CallsBuilt
<1> QED
  BY <1>1 DEF InOrder, SamePool, Built, BuiltSwap, BuiltAdd, BuiltRemove, BuiltNew, BuiltTransfer, BuiltInit

(* What an inclusion runs.                                                 *)
LEMMA IncludeRuns ==
    ASSUME FfiInv, NEW i \in DOMAIN sent, Include(i)
    PROVE  /\ sent[i] \in ToSet(sent) /\ Built(sent[i]) /\ InOrder(sent[i])
           /\ Current(sent[i]) /\ Ran(sent[i])
           /\ sent' = RemoveAt(sent, i)
<1>1. sent[i] \in ToSet(sent)
  BY DEF ToSet
<1>2. Built(sent[i]) /\ InOrder(sent[i])
  BY <1>1 DEF FfiInv, CallsBuilt
<1>3. /\ Current(sent[i]) /\ HandlerOk(PoolFor(sent[i]), bal, sent[i])
      /\ pool' = After(PoolFor(sent[i]), bal, sent[i]).pool
      /\ bal' = After(PoolFor(sent[i]), bal, sent[i]).bal
      /\ sent' = RemoveAt(sent, i)
  BY DEF Include, Accepted
<1>4. PoolFor(sent[i]) = pool
  BY <1>3, PoolIsCurrent
<1> QED
  BY <1>1, <1>2, <1>3, <1>4 DEF Ran

(* An inclusion.                                                           *)
LEMMA IncludeKeeps ==
    ASSUME FfiInv, NEW i \in DOMAIN sent, Include(i)
    PROVE  FfiInv'
<1>1. /\ Built(sent[i]) /\ Ran(sent[i]) /\ sent' = RemoveAt(sent, i)
  BY IncludeRuns
<1>2. LedgerOK' /\ SamePool /\ LpBacked'
  BY <1>1, RanBalanced DEF FfiInv, Balanced, Accounted
<1>3. ToSet(sent') \subseteq ToSet(sent) /\ sent' \in Seq(ToSet(sent'))
  BY <1>1, Removed DEF FfiInv
<1>4. CallsBuilt'
  BY <1>2, <1>3, CallsStay DEF FfiInv
<1> QED
  BY <1>2, <1>3, <1>4 DEF FfiInv

(* A call that is refused or lost.                                         *)
LEMMA DropKeeps ==
    ASSUME FfiInv, NEW i \in DOMAIN sent, Drop(i)
    PROVE  FfiInv'
<1>1. sent' = RemoveAt(sent, i) /\ pool' = pool /\ bal' = bal
  BY DEF Drop, chainVars
<1>2. ToSet(sent') \subseteq ToSet(sent) /\ sent' \in Seq(ToSet(sent'))
  BY <1>1, Removed DEF FfiInv
<1>3. CallsBuilt'
  BY <1>1, <1>2, CallsStay DEF FfiInv, SamePool
<1> QED
  BY <1>1, <1>2, <1>3 DEF FfiInv, LedgerOK, LpBacked

(* Another user's swap.                                                    *)
LEMMA OthersSwapKeeps ==
    ASSUME FfiInv, OthersSwap, bal' = bal, sent' = sent
    PROVE  FfiInv'
<1>1. PICK t \in Tokens, n \in OthersAmounts :
        /\ pool.exists
        /\ Fits(pool.reserve[t] + n)
        /\ pool' = [pool EXCEPT
              !.reserve[t] = @ + n,
              !.reserve[Other(t)] = @ - ExactInputOut(pool.reserve[t],
                                          pool.reserve[Other(t)], FEES, n)]
  BY DEF OthersSwap
<1> DEFINE u == Other(t)
           m == ExactInputOut(pool.reserve[t], pool.reserve[u], FEES, n)
<1>2. pool \in PoolDefinition /\ pool.reserve \in [Tokens -> Amount \ {0}]
  BY <1>1, PoolThatExists DEF FfiInv, PoolDefinition
<1>3. u \in Tokens /\ u # t
  BY TwoTokens
<1>4. n \in Nat
  BY FfiAssumption DEF Amount
<1>5. pool.reserve[t] \in Nat \ {0} /\ pool.reserve[u] \in Nat \ {0} /\ pool.reserve[u] <= U128_MAX
  BY <1>2, <1>3 DEF Amount
<1>6. m \in Nat /\ m < pool.reserve[u]
  BY <1>4, <1>5, ExactInputFacts, PoolHandlersAssumption
<1> HIDE DEF m, u
<1>7. pool' = [pool EXCEPT !.reserve[t] = @ + n, !.reserve[u] = @ - m]
  BY <1>1 DEF m, u
<1> DEFINE new == [pool.reserve EXCEPT ![t] = @ + n, ![u] = @ - m]
<1>8. new \in [Tokens -> Amount \ {0}]
  <2>1. pool.reserve[t] + n \in Amount \ {0} /\ pool.reserve[u] - m \in Amount \ {0}
    BY <1>1, <1>4, <1>5, <1>6, U128Assumption DEF Amount, Fits
  <2> QED
    BY <1>2, <1>3, <2>1
<1>9. pool' = [pool EXCEPT !.reserve = new]
  BY <1>2, <1>3, <1>7 DEF PoolDefinition
<1> HIDE DEF new
<1>10. pool' \in PoolDefinition /\ pool'.supply = pool.supply /\ pool'.exists /\ pool'.legs = pool.legs
  BY <1>2, <1>8, <1>9 DEF PoolDefinition
<1>11. CallsBuilt'
  BY <1>10, CallsStay DEF FfiInv, SamePool
<1> QED
  BY <1>10, <1>11 DEF FfiInv, LedgerOK, LpBacked

(* Another user's pool.                                                    *)
LEMMA OthersCreateKeeps ==
    ASSUME FfiInv, OthersCreate, bal' = bal, sent' = sent
    PROVE  FfiInv'
<1>1. PICK w \in Worlds : ~pool.exists /\ w.pool.exists /\ pool' = w.pool
  BY DEF OthersCreate
<1>2. w.pool \in PoolDefinition
  <2>1. w.pool \in PoolDefinition \cup {NoPool}
    BY WorldsAssumption
  <2> QED
    BY <1>1, <2>1 DEF NoPool
<1>3. Outside(bal, "LP") <= 0
  BY <1>1, PoolThatExists DEF FfiInv, LpBacked, NoPool
<1>4. Outside(bal, "LP") \in Nat
  <2>1. bal \in Balances
    BY DEF FfiInv, LedgerOK, Balances
  <2> QED
    BY <2>1, OutsideSame
<1>5. pool'.supply \in Nat
  BY <1>1, <1>2, ReserveFacts
<1>6. CallsBuilt'
  BY <1>1, CallsStay DEF FfiInv, SamePool
<1> QED
  BY <1>1, <1>2, <1>3, <1>4, <1>5, <1>6 DEF FfiInv, LedgerOK, LpBacked

(* The state to begin with.                                                *)
LEMMA InitKeeps == ASSUME Init PROVE FfiInv
<1>1. PICK w \in Worlds : pool = w.pool /\ bal = w.bal
  BY DEF Init
<1>2. sent = <<>>
  BY DEF Init
<1>3. ToSet(sent) = {} /\ sent \in Seq(ToSet(sent))
  BY <1>2 DEF ToSet
<1>4. LedgerOK /\ LpBacked
  <2>1. /\ w.pool \in PoolDefinition \cup {NoPool}
        /\ w.bal \in [Holding -> Amount \cup {Absent}]
        /\ Outside(w.bal, "LP") <= w.pool.supply
    BY WorldsAssumption
  <2>2. Amount \subseteq Nat
    BY U128Assumption DEF Amount
  <2> QED
    BY <1>1, <2>1, <2>2 DEF LedgerOK, LpBacked
<1> QED
  BY <1>3, <1>4 DEF FfiInv, CallsBuilt

(* Every step keeps the invariant.                                         *)
LEMMA StepKeeps == ASSUME FfiInv, [Next]_vars PROVE FfiInv'
<1>1. ASSUME NEW r \in SwapRequests, Swap(r) PROVE FfiInv'
  <2>1. r \in Request
    BY FfiAssumption
  <2> QED
    BY <1>1, <2>1, PublicSwapsKeep, PrivateSwapsKeep DEF Swap
<1>2. ASSUME NEW r \in LiquidityRequests, Liquidity(r) PROVE FfiInv'
  <2>1. r \in Request
    BY FfiAssumption
  <2> QED
    BY <1>2, <2>1, LiquidityKeeps, NewPoolsKeep DEF Liquidity
<1>3. ASSUME \/ \E h \in Holding : ldex_amm_init_token_holding(h)
             \/ \E t \in Tokens \cup {"LP"} : ldex_ata_create(t)
      PROVE  FfiInv'
  BY <1>3, CreationsKeep
<1>4. ASSUME NEW t \in Tokens, NEW n \in TransferAmounts,
             \/ ldex_ata_transfer(t, n)
             \/ ldex_token_shield(t, n)
             \/ ldex_token_deshield(t, n)
      PROVE  FfiInv'
  <2>1. n \in Amount
    BY FfiAssumption
  <2> QED
    BY <1>4, <2>1, MovesKeep
<1>5. ASSUME NEW n \in TransferAmounts, ldex_wlez_wrap(n) \/ ldex_wlez_unwrap(n) PROVE FfiInv'
  <2>1. n \in Amount /\ WLEZ \in Tokens
    BY FfiAssumption, PoolHandlersAssumption
  <2> QED
    BY <1>5, <2>1, MovesKeep
<1>6. ASSUME NEW i \in DOMAIN sent, Include(i) \/ Drop(i) PROVE FfiInv'
  BY <1>6, IncludeKeeps, DropKeeps
<1>7. CASE Others
  BY <1>7, OthersSwapKeeps, OthersCreateKeeps DEF Others
<1>8. CASE Tick \/ UNCHANGED vars
  <2>1. sent' = sent /\ pool' = pool /\ bal' = bal
    BY <1>8 DEF Tick, vars, chainVars
  <2>2. CallsBuilt'
    BY <2>1, CallsStay DEF FfiInv, SamePool
  <2> QED
    BY <2>1, <2>2 DEF FfiInv, LedgerOK, LpBacked
<1> QED
  BY <1>1, <1>2, <1>3, <1>4, <1>5, <1>6, <1>7, <1>8 DEF Next

(* What is on its way is as the entry points built it, the caller's LP is   *)
(* part of the supply, and every aligned call is in the order of the pool.  *)
THEOREM CallsStayBuilt == Spec => []FfiInv
<1>1. Init => FfiInv
  BY InitKeeps
<1>2. FfiInv /\ [Next]_vars => FfiInv'
  BY StepKeeps
<1> QED
  BY <1>1, <1>2, PTL DEF Spec

(* However late a call is included, its bounds hold and no other holding    *)
(* changes.                                                                *)
THEOREM BoundsAlwaysHonoured == Spec => BoundsHonoured
<1>1. FfiInv /\ [Next]_vars =>
        [\A c \in ToSet(sent) : Executed(c) =>
          /\ WithinBounds(c)
          /\ \A h \in Holding \ Touched(c) : bal'[h] = bal[h]]_vars
  <2> SUFFICES ASSUME FfiInv, NEW c \in ToSet(sent), Executed(c)
               PROVE  /\ WithinBounds(c)
                      /\ \A h \in Holding \ Touched(c) : bal'[h] = bal[h]
    OBVIOUS
  <2>1. PICK i \in DOMAIN sent : sent[i] = c /\ Include(i)
    BY DEF Executed
  <2>2. Built(c) /\ Ran(c)
    BY <2>1, IncludeRuns
  <2> QED
    BY <2>2, RanBalanced DEF FfiInv, Balanced
<1>2. Spec => []FfiInv
  BY CallsStayBuilt
<1> QED
  BY <1>1, <1>2, PTL DEF Spec, BoundsHonoured

(* What a call takes from the caller the pool gains, and the reverse,        *)
(* whatever others did to the pool meanwhile.                              *)
THEOREM NothingIsOverwritten == Spec => NothingOverwritten
<1>1. FfiInv /\ [Next]_vars =>
        [\A c \in ToSet(sent) : Executed(c) =>
          /\ \A t \in Tokens :
                Circulating(t)' + pool'.reserve[t] = Circulating(t) + pool.reserve[t]
          /\ pool.exists =>
                Circulating("LP")' - pool'.supply = Circulating("LP") - pool.supply]_vars
  <2> SUFFICES ASSUME FfiInv, NEW c \in ToSet(sent), Executed(c) PROVE Accounted
    BY DEF Accounted
  <2>1. PICK i \in DOMAIN sent : sent[i] = c /\ Include(i)
    BY DEF Executed
  <2>2. Built(c) /\ Ran(c)
    BY <2>1, IncludeRuns
  <2> QED
    BY <2>2, RanBalanced DEF FfiInv
<1>2. Spec => []FfiInv
  BY CallsStayBuilt
<1> QED
  BY <1>1, <1>2, PTL DEF Spec, NothingOverwritten

-----------------------------------------------------------------------------
(* What the handlers accept is what the caller meant.                      *)

(* The accounts of the pool are right if the pool is the one that serves.    *)
LEMMA PoolMatches ==
    ASSUME NEW c, c.op \in {"swap_in", "swap_out", "add", "remove"}, InOrder(c), AtaEntry(c)
    PROVE  /\ PoolServes(c) <=> /\ pool.exists
                                /\ c.vaults = pool.legs
                                /\ c.via = "ata" => pool.ata_pinned
<1>1. CASE c.entry \in PoolOrderOnly
  <2>1. c.vaults = c.req.pair
    BY <1>1 DEF InOrder
  <2> QED
    BY <1>1, <2>1 DEF PoolServes, AtaEntry
<1>2. CASE c.entry \notin PoolOrderOnly
  <2>1. pool.exists /\ c.vaults = pool.legs
    BY <1>2 DEF InOrder
  <2> QED
    BY <1>2, <2>1 DEF PoolServes, AtaEntry
<1> QED
  BY <1>1, <1>2

(* Swaps.                                                                  *)
LEMMA SwapServed ==
    ASSUME LedgerOK, NEW c, BuiltSwap(c), InOrder(c)
    PROVE  SwapOk(pool, bal, c) <=> SwapServes(c)
<1>1. c.op \in {"swap_in", "swap_out"} /\ AtaEntry(c) /\ c.in = c.req.in
  BY DEF BuiltSwap, FromRequest
<1>2. PoolServes(c) <=> /\ pool.exists
                        /\ c.vaults = pool.legs
                        /\ c.via = "ata" => pool.ata_pinned
  BY <1>1, PoolMatches
<1>3. SUFFICES ASSUME pool.exists, c.vaults = pool.legs
               PROVE  SwapOk(pool, bal, c) <=> SwapServes(c)
  BY <1>2 DEF SwapOk, PoolAccountsMatch, SwapServes
<1> DEFINE i == c.in
           o == Other(c.in)
<1>4. /\ i \in Tokens /\ o \in Tokens /\ o # i /\ Tokens = {i, o}
      /\ Payer(pool, c) = OwnedAt(c, i) /\ Payee(pool, c) = OwnedAt(c, o)
      /\ \A t \in Tokens : UserLeg(pool, c, t) = IF Through(c) THEN Of("once", t) ELSE OwnedAt(c, t)
  BY <1>3, SwapParties, TwoTokens
<1>5. pool.supply >= MINIMUM_LIQUIDITY
  BY <1>3, PoolThatExists, AmmMathAssumption DEF PoolDefinition
<1>6. /\ OwnedAt(c, i).token = i /\ OwnedAt(c, o).token = o
      /\ \A t \in Tokens : UserLeg(pool, c, t).token = t
  BY <1>4, OwnedFacts, HoldingFacts
<1>7. CASE Through(c)
  <2>1. PassedThrough(c)
    BY <1>7 DEF BuiltSwap
  <2>2. c.via # "ata"
    BY <1>7 DEF Through
  <2>3. /\ OwnedAt(c, i) \in c.signers /\ OwnedAt(c, o) \in c.signers
        /\ \A k \in 1 .. 2 : c.users[k] \in c.signers
    BY <2>1 DEF PassedThrough
  <2>4. \/ c.users[1] = Of("once", i) /\ c.users[2] = Of("once", o)
        \/ c.users[1] = Of("once", o) /\ c.users[2] = Of("once", i)
    <3>1. CASE c.via = "native"
      BY <2>1, <3>1 DEF PassedThrough
    <3>2. CASE c.via # "native"
      <4>1. c.vaults \in Orders /\ c.users = <<Of("once", c.vaults[1]), Of("once", c.vaults[2])>>
        BY <2>1, <3>2 DEF PassedThrough
      <4>2. c.vaults[1] # c.vaults[2] /\ c.vaults[1] \in {i, o} /\ c.vaults[2] \in {i, o}
        BY <1>4, <4>1, OrderFacts DEF Orders
      <4> QED
        BY <4>1, <4>2
    <3> QED
      BY <3>1, <3>2
  <2>5. (\A k \in 1 .. 2 : bal[c.users[k]] # Absent)
          <=> (\A t \in Tokens : bal[Of("once", t)] # Absent)
    BY <1>4, <2>4
  <2> QED
    BY <1>1, <1>2, <1>3, <1>4, <1>5, <1>6, <1>7, <2>2, <2>3, <2>5
       DEF SwapOk, PoolAccountsMatch, SwapServes, Has, CanPay, CanGet, Authorised
<1>8. CASE ~Through(c)
  <2>1. Paired(c) /\ Authorised(c, OwnedAt(c, i))
    BY <1>8 DEF BuiltSwap
  <2>2. (\A k \in 1 .. 2 : bal[c.users[k]] # Absent) <=> (\A t \in Tokens : Open(c, t))
    <3>1. Tokens = {c.vaults[1], c.vaults[2]}
      BY <2>1, OrderFacts DEF Paired
    <3>2. c.users[1] = OwnedAt(c, c.vaults[1]) /\ c.users[2] = OwnedAt(c, c.vaults[2])
      BY <2>1 DEF Paired
    <3> QED
      BY <3>1, <3>2 DEF Open
  <2> QED
    BY <1>1, <1>2, <1>3, <1>4, <1>5, <1>6, <1>8, <2>1, <2>2
       DEF SwapOk, PoolAccountsMatch, SwapServes, Has, Open, CanPay, CanGet
<1> QED
  BY <1>7, <1>8

(* The LP of a deposit does not depend on the order of the legs.            *)
LEMMA LpMintedEitherWay ==
    ASSUME NEW s \in Nat, NEW a \in Nat \ {0}, NEW b \in Nat \ {0}, NEW x \in Nat, NEW y \in Nat
    PROVE  LpMinted(s, a, b, x, y) = LpMinted(s, b, a, y, x)
<1>1. Share(s, x, a) \in Nat /\ Share(s, y, b) \in Nat
  BY ShareFacts
<1> QED
  BY <1>1 DEF LpMinted, Least

(* Amounts by position and by token are the same amounts.                  *)
LEMMA ByToken ==
    ASSUME pool \in PoolDefinition, NEW c, Paired(c), c.vaults = pool.legs
    PROVE  \A i \in 1 .. 2 :
              LET t == pool.legs[i]
              IN  /\ t \in Tokens /\ 3 - i \in 1 .. 2 /\ Other(t) = pool.legs[3 - i]
                  /\ ReserveAt(pool, i) = pool.reserve[t]
                  /\ c.caps[i] = CapOf(c, t) /\ c.caps[i] \in Nat
                  /\ c.users[i] = OwnedAt(c, t) /\ OwnedAt(c, t).token = t
                  /\ DepositAt(pool, c, i) = DepositOf(c, t)
                  /\ DepositAt(pool, c, i) \in Nat
                  /\ WithdrawAt(pool, c, i) = Share(pool.reserve[t], c.amount, pool.supply)
<1> TAKE i \in 1 .. 2
<1> DEFINE t == pool.legs[i]
           u == pool.legs[3 - i]
<1>1. pool.legs \in Orders /\ \A k \in 1 .. 2 : ReserveAt(pool, k) \in Nat \ {0}
  BY ReserveFacts DEF Amount
<1>2. t \in Tokens /\ u \in Tokens /\ 3 - i \in 1 .. 2 /\ Other(t) = u
  BY <1>1, OrderFacts
<1>3. ReserveAt(pool, i) = pool.reserve[t] /\ ReserveAt(pool, 3 - i) = pool.reserve[u]
  BY DEF ReserveAt
<1>4. /\ c.caps[i] = CapOf(c, t) /\ c.caps[3 - i] = CapOf(c, u)
      /\ c.users[i] = OwnedAt(c, t)
  BY <1>2 DEF Paired
<1>5. c.caps[i] \in Nat /\ c.caps[3 - i] \in Nat
  <2>1. c.caps \in Amount \X Amount
    BY DEF Paired
  <2>2. c.caps[1] \in Nat /\ c.caps[2] \in Nat
    BY <2>1, U128Assumption DEF Amount
  <2> QED
    BY <2>2
<1>6. OwnedAt(c, t).token = t
  BY <1>2, OwnedFacts
<1> HIDE DEF t, u
<1>7. DepositAt(pool, c, i) = DepositOf(c, t)
  BY <1>2, <1>3, <1>4 DEF DepositAt, DepositOf
<1>8. DepositAt(pool, c, i) \in Nat
  <2>1. ReserveAt(pool, i) \in Nat /\ ReserveAt(pool, 3 - i) \in Nat \ {0}
    BY <1>1, <1>2
  <2> QED
    BY <1>5, <2>1, DepositFacts DEF DepositAt
<1>9. WithdrawAt(pool, c, i) = Share(pool.reserve[t], c.amount, pool.supply)
  BY <1>3 DEF WithdrawAt
<1> QED
  BY <1>2, <1>3, <1>4, <1>5, <1>6, <1>7, <1>8, <1>9 DEF t, u

(* Deposits.                                                               *)
LEMMA AddServed ==
    ASSUME LedgerOK, NEW c, BuiltAdd(c), InOrder(c)
    PROVE  AddOk(pool, bal, c) <=> AddServes(c)
<1>1. /\ c.op = "add" /\ AtaEntry(c) /\ Paired(c) /\ c.limit = c.req.limit
      /\ c.lp = OwnedAt(c, "LP") /\ c.lp.token = "LP"
      /\ \A t \in Tokens : Authorised(c, OwnedAt(c, t))
  BY OwnedFacts DEF BuiltAdd, FromRequest
<1>2. PoolServes(c) <=> /\ pool.exists
                        /\ c.vaults = pool.legs
                        /\ c.via = "ata" => pool.ata_pinned
  BY <1>1, PoolMatches
<1>3. SUFFICES ASSUME pool.exists, c.vaults = pool.legs
               PROVE  AddOk(pool, bal, c) <=> AddServes(c)
  BY <1>2 DEF AddOk, PoolAccountsMatch, AddServes
<1>4. pool \in PoolDefinition
  BY <1>3, PoolThatExists
<1> DEFINE o == pool.legs
<1>5. /\ o \in Orders /\ \A i \in 1 .. 2 : ReserveAt(pool, i) \in Nat \ {0}
      /\ pool.supply \in Nat \ {0}
  BY <1>4, ReserveFacts DEF Amount
<1> DEFINE Right(i) == /\ bal[c.users[i]] # Absent
                       /\ c.caps[i] # 0
                       /\ ReserveAt(pool, i) # 0
                       /\ Fits(ReserveAt(pool, i) * c.caps[3 - i])
                       /\ DepositAt(pool, c, i) # 0
                       /\ Fits(pool.supply * DepositAt(pool, c, i))
                       /\ Fits(ReserveAt(pool, i) + DepositAt(pool, c, i))
                       /\ CanPay(c, bal, c.users[i], o[i], DepositAt(pool, c, i))
           Meant(t) == /\ CapOf(c, t) > 0
                       /\ Fits(pool.reserve[t] * CapOf(c, Other(t)))
                       /\ DepositOf(c, t) > 0
                       /\ Fits(pool.supply * DepositOf(c, t))
                       /\ Fits(pool.reserve[t] + DepositOf(c, t))
                       /\ Has(c, t, DepositOf(c, t))
<1>6. ASSUME NEW i \in 1 .. 2 PROVE Right(i) <=> Meant(o[i])
  <2> DEFINE t == o[i]
             n == DepositAt(pool, c, i)
  <2>1. /\ t \in Tokens /\ 3 - i \in 1 .. 2 /\ Other(t) = o[3 - i]
        /\ ReserveAt(pool, i) = pool.reserve[t]
        /\ c.caps[i] = CapOf(c, t) /\ c.caps[i] \in Nat
        /\ c.users[i] = OwnedAt(c, t) /\ OwnedAt(c, t).token = t
        /\ n = DepositOf(c, t) /\ n \in Nat
    BY <1>1, <1>3, <1>4, ByToken
  <2>2. c.caps[3 - i] = CapOf(c, Other(t))
    BY <1>1, <1>3, <1>4, <2>1, ByToken
  <2>3. Authorised(c, OwnedAt(c, t)) /\ ReserveAt(pool, i) # 0
    BY <1>1, <1>5, <2>1
  <2>4. bal[OwnedAt(c, t)] \in Nat \cup {Absent}
    BY <2>1, OwnedFacts DEF LedgerOK
  <2> HIDE DEF t, n
  <2>5. n # 0 /\ bal[OwnedAt(c, t)] >= n => bal[OwnedAt(c, t)] # Absent
    BY <2>1 DEF Absent
  <2>6. (c.caps[i] # 0 <=> CapOf(c, t) > 0) /\ (n # 0 <=> DepositOf(c, t) > 0)
    BY <2>1
  <2>7. CanPay(c, bal, c.users[i], t, n) <=> Has(c, t, DepositOf(c, t))
    BY <2>1, <2>3 DEF CanPay, Has
  <2>8. Has(c, t, DepositOf(c, t)) /\ n # 0 => bal[c.users[i]] # Absent
    BY <2>1, <2>5 DEF Has
  <2> QED
    BY <2>1, <2>2, <2>3, <2>6, <2>7, <2>8 DEF t, n
<1>7. (\A i \in 1 .. 2 : Right(i)) <=> (\A t \in Tokens : Meant(t))
  <2> HIDE DEF Right, Meant
  <2>1. Tokens = {o[1], o[2]}
    BY <1>5, OrderFacts
  <2> QED
    BY <1>6, <2>1
<1>8. LpFor(pool, c) = LpOf(c) /\ LpFor(pool, c) \in Nat
  <2>1. /\ ReserveAt(pool, 1) = pool.reserve[o[1]] /\ ReserveAt(pool, 2) = pool.reserve[o[2]]
        /\ DepositAt(pool, c, 1) = DepositOf(c, o[1]) /\ DepositAt(pool, c, 1) \in Nat
        /\ DepositAt(pool, c, 2) = DepositOf(c, o[2]) /\ DepositAt(pool, c, 2) \in Nat
        /\ ReserveAt(pool, 1) \in Nat \ {0} /\ ReserveAt(pool, 2) \in Nat \ {0}
    BY <1>1, <1>3, <1>4, <1>5, ByToken
  <2> DEFINE a == pool.reserve[o[1]]
             b == pool.reserve[o[2]]
             x == DepositOf(c, o[1])
             y == DepositOf(c, o[2])
  <2>2. LpFor(pool, c) = LpMinted(pool.supply, a, b, x, y)
    BY <2>1 DEF LpFor
  <2>3. a \in Nat \ {0} /\ b \in Nat \ {0} /\ x \in Nat /\ y \in Nat
    BY <2>1
  <2>4. c.req.pair \in Orders
    BY DEF BuiltAdd, FromRequest, Request
  <2>5. \/ c.req.pair[1] = o[1] /\ c.req.pair[2] = o[2]
        \/ c.req.pair[1] = o[2] /\ c.req.pair[2] = o[1]
    BY <1>5, <2>4, OrderFacts
  <2>6. LpOf(c) = LpMinted(pool.supply, a, b, x, y) \/ LpOf(c) = LpMinted(pool.supply, b, a, y, x)
    BY <2>5 DEF LpOf
  <2> HIDE DEF a, b, x, y
  <2>7. LpMinted(pool.supply, a, b, x, y) = LpMinted(pool.supply, b, a, y, x)
    BY <1>5, <2>3, LpMintedEitherWay
  <2>8. LpMinted(pool.supply, a, b, x, y) \in Nat
    BY <1>5, <2>3, LpMintedFacts
  <2> QED
    BY <2>2, <2>6, <2>7, <2>8
<1>9. LpFor(pool, c) # 0 <=> LpOf(c) > 0
  BY <1>8
<1>10. (CanGet(c, bal, c.lp, "LP") /\ (c.via = "ata" => bal[c.lp] # Absent))
         <=> (c.private \/ Open(c, "LP"))
  <2>1. CASE c.private
    BY <1>1, <2>1 DEF BuiltAdd, CanGet
  <2>2. CASE ~c.private
    BY <1>1, <2>2 DEF BuiltAdd, CanGet, Open
  <2> QED
    BY <2>1, <2>2
<1>11. AddOk(pool, bal, c) <=>
         /\ c.via = "ata" => pool.ata_pinned
         /\ c.via = "ata" => bal[c.lp] # Absent
         /\ \A i \in 1 .. 2 : Right(i)
         /\ LpFor(pool, c) # 0
         /\ LpFor(pool, c) >= c.limit
         /\ Fits(pool.supply + LpFor(pool, c))
         /\ CanGet(c, bal, c.lp, "LP")
  BY <1>3 DEF AddOk, PoolAccountsMatch
<1>12. AddServes(c) <=>
         /\ c.via = "ata" => pool.ata_pinned
         /\ \A t \in Tokens : Meant(t)
         /\ LpOf(c) > 0
         /\ LpOf(c) >= c.req.limit
         /\ Fits(pool.supply + LpOf(c))
         /\ c.private \/ Open(c, "LP")
  BY <1>2, <1>3 DEF AddServes
<1> HIDE DEF Right, Meant
<1> QED
  BY <1>1, <1>7, <1>8, <1>9, <1>10, <1>11, <1>12

(* The caller's LP is part of the supply.                                  *)
LEMMA LpOwned ==
    ASSUME LedgerOK, LpBacked, NEW h \in Holding, h.token = "LP", pool.exists
    PROVE  bal[h] <= pool.supply
<1>1. bal \in Balances /\ h \in OfToken("LP")
  BY DEF LedgerOK, Balances, OfToken
<1> DEFINE f == [g \in Holding |-> UnitsIn(bal, g)]
<1>2. /\ Outside(bal, "LP") = Total(f, OfToken("LP"))
      /\ \A g \in OfToken("LP") : f[g] = UnitsIn(bal, g) /\ f[g] \in Nat
      /\ IsFiniteSet(OfToken("LP"))
  BY <1>1, OutsideIsTotal
<1> HIDE DEF f
<1>3. /\ Total(f, OfToken("LP")) = f[h] + Total(f, OfToken("LP") \ {h})
      /\ Total(f, OfToken("LP") \ {h}) \in Nat
  <2>1. \A g \in OfToken("LP") : f[g] \in Int
    BY <1>2
  <2>2. Total(f, OfToken("LP")) = f[h] + Total(f, OfToken("LP") \ {h})
    BY <1>1, <1>2, <2>1, TotalRemove
  <2>3. OfToken("LP") \ {h} \in SUBSET OfToken("LP")
    OBVIOUS
  <2> QED
    BY <1>2, <2>2, <2>3, TotalPart
<1>4. bal[h] <= UnitsIn(bal, h)
  BY <1>1 DEF UnitsIn, Balances, Absent
<1>5. pool.supply \in Int /\ bal[h] \in Int
  BY <1>1, PoolNumbers DEF Balances, Absent
<1> QED
  BY <1>1, <1>2, <1>3, <1>4, <1>5 DEF LpBacked

(* Withdrawals.                                                            *)
LEMMA RemoveServed ==
    ASSUME LedgerOK, LpBacked, NEW c, BuiltRemove(c), InOrder(c), c.entry # "remove_liquidity_ata"
    PROVE  RemoveOk(pool, bal, c) <=> RemoveServes(c)
<1>1. /\ c.op = "remove" /\ AtaEntry(c) /\ Paired(c) /\ c.amount = c.req.amount /\ c.amount \in Nat
      /\ c.lp = OwnedAt(c, "LP") /\ c.lp \in Holding /\ c.lp.token = "LP"
      /\ Authorised(c, c.lp)
  BY OwnedFacts, U128Assumption DEF BuiltRemove, FromRequest, Request, Amount
<1>2. PoolServes(c) <=> /\ pool.exists
                        /\ c.vaults = pool.legs
                        /\ c.via = "ata" => pool.ata_pinned
  BY <1>1, PoolMatches
<1>3. SUFFICES ASSUME pool.exists, c.vaults = pool.legs
               PROVE  RemoveOk(pool, bal, c) <=> RemoveServes(c)
  BY <1>2 DEF RemoveOk, PoolAccountsMatch, RemoveServes
<1>4. pool \in PoolDefinition
  BY <1>3, PoolThatExists
<1> DEFINE o == pool.legs
<1>5. /\ o \in Orders /\ pool.supply \in Nat \ {0} /\ MINIMUM_LIQUIDITY \in Nat
      /\ \A i \in 1 .. 2 : ReserveAt(pool, i) \in Nat \ {0}
  BY <1>4, ReserveFacts, AmmMathAssumption DEF Amount
<1> DEFINE Right(i) == /\ bal[c.users[i]] # Absent
                       /\ c.caps[i] # 0
                       /\ Fits(ReserveAt(pool, i) * c.amount)
                       /\ WithdrawAt(pool, c, i) >= c.caps[i]
                       /\ CanGet(c, bal, c.users[i], o[i])
           Meant(t) == /\ Fits(pool.reserve[t] * c.req.amount)
                       /\ CapOf(c, t) > 0
                       /\ ShareOf(c, t) >= CapOf(c, t)
                       /\ Open(c, t)
<1>6. ASSUME NEW i \in 1 .. 2 PROVE Right(i) <=> Meant(o[i])
  <2> DEFINE t == o[i]
  <2>1. /\ ReserveAt(pool, i) = pool.reserve[t]
        /\ c.caps[i] = CapOf(c, t) /\ c.caps[i] \in Nat
        /\ c.users[i] = OwnedAt(c, t) /\ OwnedAt(c, t).token = t
        /\ WithdrawAt(pool, c, i) = Share(pool.reserve[t], c.amount, pool.supply)
    BY <1>1, <1>3, <1>4, ByToken
  <2>2. ShareOf(c, t) = WithdrawAt(pool, c, i)
    BY <1>1, <2>1 DEF ShareOf
  <2>3. c.caps[i] # 0 <=> CapOf(c, t) > 0
    BY <2>1
  <2>4. bal[c.users[i]] # Absent <=> Open(c, t)
    BY <2>1 DEF Open
  <2>5. bal[c.users[i]] # Absent => CanGet(c, bal, c.users[i], t)
    BY <2>1 DEF CanGet
  <2> QED
    BY <1>1, <2>1, <2>2, <2>3, <2>4, <2>5
<1>7. (\A i \in 1 .. 2 : Right(i)) <=> (\A t \in Tokens : Meant(t))
  <2> HIDE DEF Right, Meant
  <2>1. Tokens = {o[1], o[2]}
    BY <1>5, OrderFacts
  <2> QED
    BY <1>6, <2>1
<1>8. Right(1) => c.amount > 0
  <2>1. SUFFICES ASSUME c.amount = 0, Right(1) PROVE FALSE
    BY <1>1
  <2>2. WithdrawAt(pool, c, 1) = 0
    BY <1>5, <2>1 DEF WithdrawAt, Share
  <2>3. c.caps[1] \in Nat \ {0}
    BY <1>1, <1>3, <1>4, <2>1, ByToken
  <2> QED
    BY <2>1, <2>2, <2>3
<1>9. bal[c.lp] <= pool.supply
  BY <1>1, <1>3, LpOwned
<1>10. c.amount > 0 /\ c.amount <= pool.supply - MINIMUM_LIQUIDITY => pool.supply > MINIMUM_LIQUIDITY
  BY <1>1, <1>5
<1>11. CanPay(c, bal, c.lp, "LP", c.amount) <=> Has(c, "LP", c.req.amount)
  BY <1>1 DEF CanPay, Has
<1>12. RemoveOk(pool, bal, c) <=>
         /\ c.via = "ata" => pool.ata_pinned
         /\ bal[c.lp] <= pool.supply
         /\ pool.supply > MINIMUM_LIQUIDITY
         /\ c.amount <= pool.supply - MINIMUM_LIQUIDITY
         /\ CanPay(c, bal, c.lp, "LP", c.amount)
         /\ \A i \in 1 .. 2 : Right(i)
  BY <1>3 DEF RemoveOk, PoolAccountsMatch
<1>13. RemoveServes(c) <=>
         /\ c.via = "ata" => pool.ata_pinned
         /\ Has(c, "LP", c.req.amount)
         /\ c.req.amount <= pool.supply - MINIMUM_LIQUIDITY
         /\ \A t \in Tokens : Meant(t)
  BY <1>2, <1>3 DEF RemoveServes
<1> HIDE DEF Right, Meant
<1> QED
  BY <1>1, <1>7, <1>8, <1>9, <1>10, <1>11, <1>12, <1>13

(* New pools.                                                              *)
LEMMA NewServed ==
    ASSUME LedgerOK, NEW c, BuiltNew(c)
    PROVE  NewOk(pool, bal, c) <=> NewServes(c)
<1> DEFINE x == c.caps[1]
           y == c.caps[2]
           o == c.vaults
<1>1. /\ c.op = "new" /\ Paired(c) /\ o = c.req.pair
      /\ c.users[1] \in c.signers /\ c.users[2] \in c.signers
      /\ c.lp \in c.signers \/ c.via = "ata"
  BY DEF BuiltNew
<1>2. /\ o \in Orders /\ o[1] \in Tokens /\ o[2] \in Tokens /\ Tokens = {o[1], o[2]}
      /\ c.users[1] = OwnedAt(c, o[1]) /\ c.users[2] = OwnedAt(c, o[2])
      /\ x = CapOf(c, o[1]) /\ y = CapOf(c, o[2])
      /\ x \in Nat /\ y \in Nat
  BY <1>1, ThreeHoldings, U128Assumption DEF Amount
<1>3. o[1] # o[2] /\ o = <<o[1], o[2]>>
  BY <1>2, OrderFacts DEF Orders
<1>4. c.users[1].token = o[1] /\ c.users[2].token = o[2]
  BY <1>2, OwnedFacts
<1>5. CapOf(c, o[1]) = c.req.caps[1] /\ CapOf(c, o[2]) = c.req.caps[2]
  <2>1. At(o, o[1]) = 1 /\ At(o, o[2]) = 2
    BY <1>2, Position
  <2> QED
    BY <1>1, <2>1 DEF CapOf, At
<1>6. x * y = c.req.caps[1] * c.req.caps[2] /\ x * y \in Nat
  BY <1>2, <1>5
<1>7. Fits(x * y) =>
        (InitialLp(c) > MINIMUM_LIQUIDITY
           <=> \E lp \in MINIMUM_LIQUIDITY + 1 .. U128_MAX : IsISqrt(lp, x * y))
  <2> SUFFICES ASSUME Fits(x * y)
               PROVE  InitialLp(c) > MINIMUM_LIQUIDITY
                        <=> \E lp \in MINIMUM_LIQUIDITY + 1 .. U128_MAX : IsISqrt(lp, x * y)
    OBVIOUS
  <2>1. x * y \in Amount
    BY <1>6, U128Assumption DEF Fits, Amount
  <2>2. InitialLp(c) \in Amount /\ IsISqrt(InitialLp(c), x * y)
    <3>1. \E r \in Amount : IsISqrt(r, x * y)
      BY <2>1, ISqrtFacts
    <3> QED
      BY <3>1 DEF InitialLp, Amount
  <2>3. InitialLp(c) \in Nat /\ InitialLp(c) <= U128_MAX /\ MINIMUM_LIQUIDITY \in Nat /\ U128_MAX \in Nat
    BY <2>2, U128Assumption, AmmMathAssumption DEF Amount
  <2>4. \A lp \in Nat : IsISqrt(lp, x * y) => lp = InitialLp(c)
    BY <2>1, <2>2, <2>3, ISqrtFacts
  <2> HIDE DEF x, y
  <2> QED
    BY <2>2, <2>3, <2>4
<1>8. /\ \A t \in Tokens : CapOf(c, t) > 0 /\ Has(c, t, CapOf(c, t))
      <=> \A i \in 1 .. 2 : c.caps[i] # 0 /\ bal[c.users[i]] >= c.caps[i]
  <2>1. (x # 0 /\ bal[c.users[1]] >= x) <=> (CapOf(c, o[1]) > 0 /\ Has(c, o[1], CapOf(c, o[1])))
    BY <1>2 DEF Has
  <2>2. (y # 0 /\ bal[c.users[2]] >= y) <=> (CapOf(c, o[2]) > 0 /\ Has(c, o[2], CapOf(c, o[2])))
    BY <1>2 DEF Has
  <2> QED
    BY <1>2, <2>1, <2>2
<1>9. NewOk(pool, bal, c) <=>
        /\ ~pool.exists
        /\ Fits(x * y)
        /\ InitialLp(c) > MINIMUM_LIQUIDITY
        /\ \A i \in 1 .. 2 : c.caps[i] # 0 /\ bal[c.users[i]] >= c.caps[i]
  BY <1>1, <1>3, <1>4 DEF NewOk
<1>10. NewServes(c) <=>
        /\ ~pool.exists
        /\ Fits(x * y)
        /\ \E lp \in MINIMUM_LIQUIDITY + 1 .. U128_MAX : IsISqrt(lp, x * y)
        /\ \A t \in Tokens : CapOf(c, t) > 0 /\ Has(c, t, CapOf(c, t))
  BY <1>6 DEF NewServes
<1> QED
  BY <1>7, <1>8, <1>9, <1>10

(* Moves.                                                                  *)
LEMMA TransferServed ==
    ASSUME NEW c, BuiltTransfer(c)
    PROVE  TransferOk(bal, c) <=> TransferServes(c)
<1>1. /\ c.ends[1].token = c.in /\ c.ends[2].token = c.in /\ Authorised(c, c.ends[1])
      /\ c.via \in {"ata", "wlez"} <=> c.entry \in {"ata_transfer", "wlez_wrap", "wlez_unwrap"}
      /\ c.via \notin {"ata", "wlez"} => c.ends[2] \in c.signers
  BY DEF BuiltTransfer
<1>2. CanPay(c, bal, c.ends[1], c.in, c.amount) <=> bal[c.ends[1]] >= c.amount
  BY <1>1 DEF CanPay
<1>3. (c.via \in {"ata", "wlez"} => bal[c.ends[2]] # Absent) => CanGet(c, bal, c.ends[2], c.in)
  BY <1>1 DEF CanGet
<1> QED
  BY <1>1, <1>2, <1>3 DEF TransferOk, TransferServes

(* What is on its way is accepted exactly when what the caller meant can be  *)
(* done.                                                                   *)
LEMMA BuiltServed ==
    ASSUME LedgerOK, LpBacked, NEW c, Built(c), InOrder(c), c.entry # "remove_liquidity_ata"
    PROVE  HandlerOk(pool, bal, c) <=> Serves(c)
<1>1. CASE BuiltSwap(c)
  <2>1. c.op \in {"swap_in", "swap_out"}
    BY <1>1 DEF BuiltSwap
  <2>2. (HandlerOk(pool, bal, c) <=> SwapOk(pool, bal, c)) /\ Serves(c) = SwapServes(c)
    BY <2>1 DEF HandlerOk, Serves
  <2> QED
    BY <1>1, <2>2, SwapServed
<1>2. CASE BuiltAdd(c)
  <2>1. c.op = "add"
    BY <1>2 DEF BuiltAdd
  <2>2. (HandlerOk(pool, bal, c) <=> AddOk(pool, bal, c)) /\ Serves(c) = AddServes(c)
    BY <2>1 DEF HandlerOk, Serves
  <2> QED
    BY <1>2, <2>2, AddServed
<1>3. CASE BuiltRemove(c)
  <2>1. c.op = "remove"
    BY <1>3 DEF BuiltRemove
  <2>2. (HandlerOk(pool, bal, c) <=> RemoveOk(pool, bal, c)) /\ Serves(c) = RemoveServes(c)
    BY <2>1 DEF HandlerOk, Serves
  <2> QED
    BY <1>3, <2>2, RemoveServed
<1>4. CASE BuiltNew(c)
  <2>1. c.op = "new"
    BY <1>4 DEF BuiltNew
  <2>2. (HandlerOk(pool, bal, c) <=> NewOk(pool, bal, c)) /\ Serves(c) = NewServes(c)
    BY <2>1 DEF HandlerOk, Serves
  <2> QED
    BY <1>4, <2>2, NewServed
<1>5. CASE BuiltTransfer(c)
  <2>1. c.op = "transfer"
    BY <1>5 DEF BuiltTransfer
  <2>2. (HandlerOk(pool, bal, c) <=> TransferOk(bal, c)) /\ Serves(c) = TransferServes(c)
    BY <2>1 DEF HandlerOk, Serves
  <2> QED
    BY <1>5, <2>2, TransferServed
<1>6. CASE BuiltInit(c)
  <2>1. c.op = "init"
    BY <1>6 DEF BuiltInit
  <2>2. (HandlerOk(pool, bal, c) <=> InitOk(pool, bal, c)) /\ Serves(c) = InitServes(c)
    BY <2>1 DEF HandlerOk, Serves
  <2>3. InitOk(pool, bal, c) <=> InitServes(c)
    BY <1>6 DEF BuiltInit, InitOk, InitServes
  <2> QED
    BY <2>2, <2>3
<1> QED
  BY <1>1, <1>2, <1>3, <1>4, <1>5, <1>6 DEF Built

(* Whatever the pool's order of legs and whoever created it, a call that is *)
(* up to date is accepted exactly when what the caller meant can be done.    *)
THEOREM AlwaysServedAsAsked == Spec => []ServedAsAsked
<1>1. FfiInv => ServedAsAsked
  <2> SUFFICES ASSUME FfiInv, NEW c \in ToSet(sent), Current(c), c.entry # "remove_liquidity_ata"
               PROVE  HandlerOk(PoolFor(c), bal, c) <=> Serves(c)
    BY DEF ServedAsAsked
  <2>1. Built(c) /\ InOrder(c)
    BY DEF FfiInv, CallsBuilt
  <2>2. PoolFor(c) = pool
    BY PoolIsCurrent
  <2> QED
    BY <2>1, <2>2, BuiltServed DEF FfiInv
<1>2. Spec => []FfiInv
  BY CallsStayBuilt
<1> QED
  BY <1>1, <1>2, PTL
=============================================================================
