------------------------ MODULE ChainedSwapTheorems ------------------------
(***************************************************************************)
(* The swaps that run as a chain of calls, proved on a state that the        *)
(* ledger has left behind: for any number of jobs, every amount, limit,      *)
(* width and behaviour of the others.                                        *)
(*                                                                           *)
(* A proof is described by two numbers: how many of its four transfers have  *)
(* run (k), and whether the AMM's call, which writes the pool and leaves its *)
(* two transfers to be run, has (moved). After(p, s, k, a) is then what each *)
(* account has gained or lost since the state the proof started from, and    *)
(* the calls that are left follow. That state was solvent, so a funded proof *)
(* never aborts; and the check at inclusion makes what it read current, so   *)
(* what it moved is a whole swap of the ledger.                              *)
(***************************************************************************)
EXTENDS ChainedSwapSafety, ArithmeticTheorems, SequenceTheorems

(* The accounts of a swap from side s to the other side.                   *)
LEMMA Names ==
    ASSUME NEW s \in Side
    PROVE  LET o == Other(s)
           IN  /\ o \in Side /\ o # s /\ Other(o) = s /\ \A t \in Side : t = s \/ t = o
               /\ Balance = {User[s], User[o], Single[s], Single[o], Vault[s], Vault[o],
                             "user_native", "wlez_vault", "wlez_definition"}
               /\ Account = Balance \cup {"pool"} /\ "pool" \notin Balance
               /\ PoolAccounts = {"pool", Vault[s], Vault[o], Single[s], Single[o]}
               /\ Wlez = {"wlez_vault", "wlez_definition"}
               /\ WLEZ_SIDE \in Side
<1>1. CASE s = "A"
  BY <1>1, SwapLedgerAssumption DEF Side, Other, Balance, Account, PoolAccounts, Wlez, User, Single, Vault
<1>2. CASE s = "B"
  BY <1>2, SwapLedgerAssumption DEF Side, Other, Balance, Account, PoolAccounts, Wlez, User, Single, Vault
<1> QED
  BY <1>1, <1>2 DEF Side

(* No two of them are the same.                                            *)
LEMMA Distinct ==
    ASSUME NEW s \in Side
    PROVE  LET o == Other(s)
           IN  /\ User[s] \notin {User[o], Single[s], Single[o], Vault[s], Vault[o], "user_native",
                                  "wlez_vault", "wlez_definition", "pool"}
               /\ User[o] \notin {Single[s], Single[o], Vault[s], Vault[o], "user_native",
                                  "wlez_vault", "wlez_definition", "pool"}
               /\ Single[s] \notin {Single[o], Vault[s], Vault[o], "user_native",
                                    "wlez_vault", "wlez_definition", "pool"}
               /\ Single[o] \notin {Vault[s], Vault[o], "user_native",
                                    "wlez_vault", "wlez_definition", "pool"}
               /\ Vault[s] \notin {Vault[o], "user_native", "wlez_vault", "wlez_definition", "pool"}
               /\ Vault[o] \notin {"user_native", "wlez_vault", "wlez_definition", "pool"}
<1>1. CASE s = "A"
  BY <1>1 DEF Side, Other, User, Single, Vault
<1>2. CASE s = "B"
  BY <1>2 DEF Side, Other, User, Single, Vault
<1> QED
  BY <1>1, <1>2 DEF Side

(* The reserves of a pool are amounts.                                     *)
LEMMA PoolType ==
    ASSUME NEW pool \in PoolDefinition, NEW s \in Side
    PROVE  pool.reserve[s] \in Amount /\ pool.reserve[Other(s)] \in Amount
  BY Names DEF PoolDefinition

(* A quote is an amount, and the pool has it.                              *)
LEMMA QuoteFacts ==
    ASSUME NEW pool \in PoolDefinition, NEW s \in Side, NEW amount \in Amount, NEW limit,
           Quote(pool, s, amount, limit)
    PROVE  /\ Out(pool, s, amount) \in Amount \ {0}
           /\ Out(pool, s, amount) <= pool.reserve[Other(s)]
           /\ amount # 0
<1> DEFINE in == pool.reserve[s]
           out == pool.reserve[Other(s)]
           e == EffectiveIn(amount, FEES)
           q == ExactInputOut(in, out, FEES, amount)
<1>1. in \in Nat /\ out \in Nat /\ out <= U128_MAX /\ U128_MAX \in Nat /\ amount \in Nat /\ FEES \in FEE_TIERS
  BY PoolType, SwapLedgerAssumption, U128Assumption DEF Amount
<1>2. e # 0 /\ q # 0
  BY DEF Quote, ExactInputOk
<1>3. e \in Nat /\ e <= amount
  BY <1>1, EffectiveInFacts
<1> HIDE DEF in, out, e
<1>4. q = (out * e) \div (in + e)
  BY DEF ExactInputOut, e
<1> HIDE DEF q
<1>5. /\ out * e \in Nat /\ in + e \in Nat \ {0}
  BY <1>1, <1>2, <1>3
<1>6. q \in Nat /\ q * (in + e) <= out * e
  BY <1>4, <1>5, DivFacts
<1>7. q <= out
  <2> SUFFICES ASSUME out < q PROVE FALSE
    BY <1>1, <1>6
  <2>1. (out + 1) * (in + e) <= q * (in + e)
    BY <1>1, <1>5, <1>6, MulMonotone
  <2>2. (out + 1) * (in + e) = out * in + out * e + in + e /\ out * in \in Nat /\ q * (in + e) \in Nat
    BY <1>1, <1>3, <1>6
  <2> QED
    BY <1>1, <1>2, <1>3, <1>5, <1>6, <2>1, <2>2
<1> QED
  BY <1>1, <1>2, <1>3, <1>6, <1>7 DEF q, out, in, Out, Amount

(* A counter that saturates keeps its width.                               *)
LEMMA SaturatingType == 
    ASSUME NEW x \in Nat, NEW y \in Nat PROVE SaturatingAdd(x, y) \in Amount
  BY U128Assumption DEF SaturatingAdd, Least, Amount

(* The pool after a swap is a pool, with the reserves moved.               *)
LEMMA AppliedFacts ==
    ASSUME NEW pool \in PoolDefinition, NEW s \in Side, NEW deposit \in Amount, NEW withdraw \in Amount,
           CanApply(pool, s, deposit, withdraw)
    PROVE  LET new == Applied(pool, s, deposit, withdraw)
           IN  /\ new \in PoolDefinition
               /\ new.reserve[s] = pool.reserve[s] + deposit
               /\ new.reserve[Other(s)] = pool.reserve[Other(s)] - withdraw
<1> DEFINE o == Other(s)
           new == Applied(pool, s, deposit, withdraw)
           reserve == [pool.reserve EXCEPT ![s] = @ + deposit, ![o] = @ - withdraw]
           volume == [t \in Side |-> SaturatingAdd(pool.cum_volume[t], IF t = s THEN deposit ELSE withdraw)]
           fees == [pool.cum_fees EXCEPT ![s] = SaturatingAdd(@, RecordedFee(deposit, FEES))]
<1>1. o \in Side /\ o # s
  BY Names
<1>2. new = [reserve |-> reserve, cum_volume |-> volume, cum_fees |-> fees]
  BY DEF Applied
<1>3. /\ pool.reserve \in [Side -> Amount] /\ pool.cum_volume \in [Side -> Amount]
      /\ pool.cum_fees \in [Side -> Amount]
  BY DEF PoolDefinition
<1>4. RecordedFee(deposit, FEES) \in Nat
  BY RecordedFeeFacts, SwapLedgerAssumption, U128Assumption DEF Amount
<1>5. /\ reserve \in [Side -> Amount] /\ reserve[s] = pool.reserve[s] + deposit
      /\ reserve[o] = pool.reserve[o] - withdraw
  BY <1>1, <1>3, U128Assumption DEF CanApply, Fits, Amount
<1>6. volume \in [Side -> Amount]
  <2> SUFFICES ASSUME NEW t \in Side
               PROVE  SaturatingAdd(pool.cum_volume[t], IF t = s THEN deposit ELSE withdraw) \in Amount
    OBVIOUS
  <2>1. pool.cum_volume[t] \in Nat /\ (IF t = s THEN deposit ELSE withdraw) \in Nat
    BY <1>3 DEF Amount
  <2> QED
    BY <2>1, SaturatingType
<1>7. fees \in [Side -> Amount]
  <2>1. SaturatingAdd(pool.cum_fees[s], RecordedFee(deposit, FEES)) \in Amount
    <3>1. pool.cum_fees[s] \in Nat
      BY <1>3 DEF Amount
    <3> QED
      BY <1>4, <3>1, SaturatingType
  <2> QED
    BY <1>3, <2>1
<1> HIDE DEF o, new, reserve, volume, fees
<1> QED
  BY <1>2, <1>5, <1>6, <1>7 DEF PoolDefinition, new, o

(* When one sequence is the concatenation of two others.                   *)
LEMMA ConcatIs ==
    ASSUME NEW S, NEW s \in Seq(S), NEW t \in Seq(S), NEW u \in Seq(S),
           Len(u) = Len(s) + Len(t),
           \A i \in 1 .. Len(s) : u[i] = s[i],
           \A i \in 1 .. Len(t) : u[Len(s) + i] = t[i]
    PROVE  s \o t = u
<1>1. /\ s \o t \in Seq(S) /\ Len(s \o t) = Len(s) + Len(t)
      /\ \A i \in 1 .. Len(s) + Len(t) : (s \o t)[i] = IF i <= Len(s) THEN s[i] ELSE t[i - Len(s)]
  BY ConcatProperties
<1>2. ASSUME NEW i \in 1 .. Len(s \o t) PROVE (s \o t)[i] = u[i]
  <2>1. Len(s) \in Nat /\ Len(t) \in Nat
    OBVIOUS
  <2>2. CASE i <= Len(s)
    BY <1>1, <2>1, <2>2
  <2>3. CASE i > Len(s)
    <3>1. i - Len(s) \in 1 .. Len(t) /\ Len(s) + (i - Len(s)) = i
      BY <1>1, <2>1, <2>3
    <3>2. u[Len(s) + (i - Len(s))] = t[i - Len(s)]
      BY <3>1
    <3> QED
      BY <1>1, <2>1, <2>3, <3>1, <3>2
  <2> QED
    BY <1>1, <2>1, <2>2, <2>3
<1> QED
  BY <1>1, <1>2, SeqEqual

(* How the calls of a handler are put together, one shape at a time.       *)
LEMMA Concat11 ==
    ASSUME NEW a, NEW b
    PROVE  <<a>> \o <<b>> = <<a, b>>
<1> DEFINE S == {a, b}
           s == <<a>>
           t == <<b>>
           u == <<a, b>>
<1>1. /\ s \in Seq(S) /\ Len(s) = 1 /\ s[1] = a
      /\ t \in Seq(S) /\ Len(t) = 1 /\ t[1] = b
      /\ u \in Seq(S) /\ Len(u) = 2 /\ u[1] = a /\ u[2] = b
  OBVIOUS
<1> HIDE DEF S, s, t, u
<1>2. Len(u) = Len(s) + Len(t)
  BY <1>1
<1>3. ASSUME NEW i \in 1 .. Len(s) PROVE u[i] = s[i]
  <2>1. i = 1
    BY <1>1
  <2> QED
    BY <1>1, <2>1
<1>4. ASSUME NEW i \in 1 .. Len(t) PROVE u[Len(s) + i] = t[i]
  <2>1. i = 1
    BY <1>1
  <2> QED
    BY <1>1, <2>1
<1>5. s \o t = u
  BY <1>1, <1>2, <1>3, <1>4, ConcatIs
<1> QED
  BY <1>5 DEF s, t, u

(* One call, then two.                                                     *)
LEMMA Concat12 ==
    ASSUME NEW a, NEW b, NEW c
    PROVE  <<a>> \o <<b, c>> = <<a, b, c>>
<1> DEFINE S == {a, b, c}
           s == <<a>>
           t == <<b, c>>
           u == <<a, b, c>>
<1>1. /\ s \in Seq(S) /\ Len(s) = 1 /\ s[1] = a
      /\ t \in Seq(S) /\ Len(t) = 2 /\ t[1] = b /\ t[2] = c
      /\ u \in Seq(S) /\ Len(u) = 3 /\ u[1] = a /\ u[2] = b /\ u[3] = c
  OBVIOUS
<1> HIDE DEF S, s, t, u
<1>2. Len(u) = Len(s) + Len(t)
  BY <1>1
<1>3. ASSUME NEW i \in 1 .. Len(s) PROVE u[i] = s[i]
  <2>1. i = 1
    BY <1>1
  <2> QED
    BY <1>1, <2>1
<1>4. ASSUME NEW i \in 1 .. Len(t) PROVE u[Len(s) + i] = t[i]
  <2>1. i = 1 \/ i = 2
    BY <1>1
  <2> QED
    BY <1>1, <2>1
<1>5. s \o t = u
  BY <1>1, <1>2, <1>3, <1>4, ConcatIs
<1> QED
  BY <1>5 DEF s, t, u

(* Two calls, then one.                                                    *)
LEMMA Concat21 ==
    ASSUME NEW a, NEW b, NEW c
    PROVE  <<a, b>> \o <<c>> = <<a, b, c>>
<1> DEFINE S == {a, b, c}
           s == <<a, b>>
           t == <<c>>
           u == <<a, b, c>>
<1>1. /\ s \in Seq(S) /\ Len(s) = 2 /\ s[1] = a /\ s[2] = b
      /\ t \in Seq(S) /\ Len(t) = 1 /\ t[1] = c
      /\ u \in Seq(S) /\ Len(u) = 3 /\ u[1] = a /\ u[2] = b /\ u[3] = c
  OBVIOUS
<1> HIDE DEF S, s, t, u
<1>2. Len(u) = Len(s) + Len(t)
  BY <1>1
<1>3. ASSUME NEW i \in 1 .. Len(s) PROVE u[i] = s[i]
  <2>1. i = 1 \/ i = 2
    BY <1>1
  <2> QED
    BY <1>1, <2>1
<1>4. ASSUME NEW i \in 1 .. Len(t) PROVE u[Len(s) + i] = t[i]
  <2>1. i = 1
    BY <1>1
  <2> QED
    BY <1>1, <2>1
<1>5. s \o t = u
  BY <1>1, <1>2, <1>3, <1>4, ConcatIs
<1> QED
  BY <1>5 DEF s, t, u

(* Three calls, then one.                                                  *)
LEMMA Concat31 ==
    ASSUME NEW a, NEW b, NEW c, NEW d
    PROVE  <<a, b, c>> \o <<d>> = <<a, b, c, d>>
<1> DEFINE S == {a, b, c, d}
           s == <<a, b, c>>
           t == <<d>>
           u == <<a, b, c, d>>
<1>1. /\ s \in Seq(S) /\ Len(s) = 3 /\ s[1] = a /\ s[2] = b /\ s[3] = c
      /\ t \in Seq(S) /\ Len(t) = 1 /\ t[1] = d
      /\ u \in Seq(S) /\ Len(u) = 4 /\ u[1] = a /\ u[2] = b /\ u[3] = c /\ u[4] = d
  OBVIOUS
<1> HIDE DEF S, s, t, u
<1>2. Len(u) = Len(s) + Len(t)
  BY <1>1
<1>3. ASSUME NEW i \in 1 .. Len(s) PROVE u[i] = s[i]
  <2>1. i = 1 \/ i = 2 \/ i = 3
    BY <1>1
  <2> QED
    BY <1>1, <2>1
<1>4. ASSUME NEW i \in 1 .. Len(t) PROVE u[Len(s) + i] = t[i]
  <2>1. i = 1
    BY <1>1
  <2> QED
    BY <1>1, <2>1
<1>5. s \o t = u
  BY <1>1, <1>2, <1>3, <1>4, ConcatIs
<1> QED
  BY <1>5 DEF s, t, u

-----------------------------------------------------------------------------
(* What a proof is made of: the state it started from, its working copy,   *)
(* the calls that are left and the terms of the swap.                      *)
ProofFields ==
    {"stage", "start", "copy", "calls", "amount", "limit", "from", "to", "accounts"}

(* A proof that pays from side s: from a token account or, when s is the   *)
(* WLEZ side, from the native balance; and to the other side likewise.     *)
Paying(p, s) ==
    /\ p.from \in {User[s], "user_native"}
    /\ p.to \in {User[Other(s)], "user_native"}
    /\ (p.from = "user_native" => s = WLEZ_SIDE)
    /\ (p.to = "user_native" => s # WLEZ_SIDE)

(* What the pool that the proof started from gives for the amount.         *)
OutOf(p, s) == Out(p.start["pool"], s, p.amount)

(* What account a has gained, or lost, when k transfers of the proof have  *)
(* run: the first brings the amount to the user's own account, the next    *)
(* two are the AMM's, the fourth brings the output home.                   *)
After(p, s, k, a) ==
    LET out == OutOf(p, s)
    IN  IF a = p.from THEN IF k >= 1 THEN 0 - p.amount ELSE 0
        ELSE IF a = p.to THEN IF k = 4 THEN out ELSE 0
        ELSE IF a = Single[s] THEN IF k = 1 THEN p.amount ELSE 0
        ELSE IF a = Single[Other(s)] THEN IF k = 3 THEN out ELSE 0
        ELSE IF a = Vault[s] THEN IF k >= 2 THEN p.amount ELSE 0
        ELSE IF a = Vault[Other(s)] THEN IF k >= 3 THEN 0 - out ELSE 0
        ELSE IF a \in Wlez /\ p.from = "user_native" THEN IF k >= 1 THEN p.amount ELSE 0
        ELSE IF a \in Wlez /\ p.to = "user_native" THEN IF k = 4 THEN 0 - out ELSE 0
        ELSE 0

(* The pool of the working copy: the AMM writes it, once, when its call    *)
(* runs.                                                                   *)
PoolAfter(p, s, moved) ==
    IF moved THEN Applied(p.start["pool"], s, p.amount, OutOf(p, s)) ELSE p.start["pool"]

(* The calls of a proof, with what each has been promised of its           *)
(* accounts.                                                               *)
FirstCall(p, s) == IF p.from = "user_native" THEN Wrap(Single[s], p.amount, p.start)
                   ELSE Deshield(s, p.amount, p.start)
LastCall(p, s) == IF p.to = "user_native" THEN Release(OutOf(p, s), p.start)
                  ELSE Reshield(Other(s), OutOf(p, s), p.start)
PayIn(p, s) == Transfer(Single[s], Vault[s], p.amount, Shifted(p.start, Single[s], p.amount))
PayOut(p, s) == Transfer(Vault[Other(s)], Single[Other(s)], OutOf(p, s), p.start)
SwapCall(p, s) == SwapExactInputCircuit(s, p.amount, p.limit, Shifted(p.start, Single[s], p.amount))

(* The calls that are left when k transfers have run, and the AMM's call   *)
(* has (moved) or has not been replaced by its transfers.                  *)
CallsLeft(p, s, k, moved) ==
    IF moved
    THEN CASE k = 0 -> <<FirstCall(p, s), PayIn(p, s), PayOut(p, s), LastCall(p, s)>>
           [] k = 1 -> <<PayIn(p, s), PayOut(p, s), LastCall(p, s)>>
           [] k = 2 -> <<PayOut(p, s), LastCall(p, s)>>
           [] k = 3 -> <<LastCall(p, s)>>
           [] k = 4 -> <<>>
    ELSE IF k = 0 THEN <<FirstCall(p, s), SwapCall(p, s), LastCall(p, s)>>
         ELSE <<SwapCall(p, s), LastCall(p, s)>>

(* What the handler established: the state was a solvent ledger, the pool  *)
(* quoted the amount within the limit, and the accounts the swap touches   *)
(* are declared.                                                           *)
ProofBegan(p, s) ==
    /\ DOMAIN p = ProofFields
    /\ IsLedger(p.start) /\ Solvent(p.start)
    /\ p.amount \in Amounts
    /\ Quote(p.start["pool"], s, p.amount, p.limit)
    /\ Paying(p, s)
    /\ p.accounts = PoolAccounts \cup {p.from, p.to}
                       \cup (IF "user_native" \in {p.from, p.to} THEN Wlez ELSE {})

(* Where a proof that has run k transfers is: the working copy is the      *)
(* state it started from with what those transfers moved.                  *)
ProofAt(p, s, k, moved) ==
    /\ (~moved => k <= 1)
    /\ IsLedger(p.copy)
    /\ p.copy["pool"] = PoolAfter(p, s, moved)
    /\ \A a \in Balance : p.copy[a] = p.start[a] + After(p, s, k, a)
    /\ p.calls = CallsLeft(p, s, k, moved)

ProvingOK(p) ==
    \E s \in Side :
        /\ ProofBegan(p, s)
        /\ \E k \in 0 .. 4, moved \in BOOLEAN : ProofAt(p, s, k, moved)

ProofOK(j) ==
    \/ proof[j] = NoProof
    \/ proof[j] = Over
    \/ proof[j].stage = "proving" /\ ProvingOK(proof[j])
    \/ proof[j].stage = "aborted" /\ ~Funded(j)

(* The inductive invariant. Nothing is said of how the ledger and a        *)
(* proof's start are related: the ledger moves on while the proof is       *)
(* made, and only the check at inclusion brings the two together.          *)
ChainInv ==
    /\ IsLedger(ledger) /\ Solvent(ledger)
    /\ DOMAIN proof = Jobs
    /\ \A j \in Jobs : ProofOK(j)

(* A call finds, after k transfers, what it was promised of its accounts.  *)
Meets(c, p, s, k) ==
    \A x \in DOMAIN c.pre : x \in Balance /\ c.pre[x] = p.start[x] + After(p, s, k, x)

-----------------------------------------------------------------------------
(* What the handler has made sure of.                                      *)
LEMMA BeganFacts ==
    ASSUME NEW p, NEW s \in Side, ProofBegan(p, s)
    PROVE  /\ p.amount \in Amount \ {0} /\ OutOf(p, s) \in Amount \ {0}
           /\ OutOf(p, s) <= p.start["pool"].reserve[Other(s)]
           /\ p.from \in {User[s], "user_native"} /\ p.to \in {User[Other(s)], "user_native"}
           /\ (p.from = "user_native" => s = WLEZ_SIDE)
           /\ (p.to = "user_native" => Other(s) = WLEZ_SIDE)
           /\ p.from # p.to
           /\ DOMAIN p.start = Account /\ p.start["pool"] \in PoolDefinition
           /\ \A a \in Balance : p.start[a] \in Amount
<1>1. /\ DOMAIN p.start = Account /\ p.start["pool"] \in PoolDefinition
      /\ \A a \in Balance : p.start[a] \in Amount
  BY DEF ProofBegan, IsLedger
<1>2. p.amount \in Amount /\ Quote(p.start["pool"], s, p.amount, p.limit)
  BY SwapLedgerAssumption DEF ProofBegan
<1>3. /\ p.amount \in Amount \ {0} /\ OutOf(p, s) \in Amount \ {0}
      /\ OutOf(p, s) <= p.start["pool"].reserve[Other(s)]
  BY <1>1, <1>2, QuoteFacts DEF OutOf
<1>4. /\ p.from \in {User[s], "user_native"} /\ p.to \in {User[Other(s)], "user_native"}
      /\ (p.from = "user_native" => s = WLEZ_SIDE)
      /\ (p.to = "user_native" => s # WLEZ_SIDE)
  BY DEF ProofBegan, Paying
<1>5. s # WLEZ_SIDE => Other(s) = WLEZ_SIDE
  BY Names
<1>6. p.from # p.to
  BY <1>4, Distinct
<1> QED
  BY <1>1, <1>3, <1>4, <1>5, <1>6

(* What a proof owes each account after k of its calls.                    *)
LEMMA AfterIs ==
    ASSUME NEW p, NEW s \in Side, ProofBegan(p, s), NEW k \in 0 .. 4
    PROVE  LET out == OutOf(p, s)
               o == Other(s)
           IN  /\ After(p, s, k, p.from) = IF k >= 1 THEN 0 - p.amount ELSE 0
               /\ After(p, s, k, p.to) = IF k = 4 THEN out ELSE 0
               /\ After(p, s, k, Single[s]) = IF k = 1 THEN p.amount ELSE 0
               /\ After(p, s, k, Single[o]) = IF k = 3 THEN out ELSE 0
               /\ After(p, s, k, Vault[s]) = IF k >= 2 THEN p.amount ELSE 0
               /\ After(p, s, k, Vault[o]) = IF k >= 3 THEN 0 - out ELSE 0
               /\ p.from = "user_native" =>
                     \A a \in Wlez : After(p, s, k, a) = IF k >= 1 THEN p.amount ELSE 0
               /\ p.to = "user_native" =>
                     \A a \in Wlez : After(p, s, k, a) = IF k = 4 THEN 0 - out ELSE 0
               /\ \A a \in Balance \ ({p.from, p.to, Single[s], Single[o], Vault[s], Vault[o]} \cup Wlez) :
                     After(p, s, k, a) = 0
               /\ ("user_native" \notin {p.from, p.to} => \A a \in Wlez : After(p, s, k, a) = 0)
<1>1. /\ p.from \in {User[s], "user_native"} /\ p.to \in {User[Other(s)], "user_native"}
      /\ p.from # p.to
  BY BeganFacts
<1>2. ~(p.from = "user_native" /\ p.to = "user_native")
  BY <1>1
<1>3. Wlez = {"wlez_vault", "wlez_definition"}
  BY DEF Wlez
<1> QED
  BY <1>1, <1>2, <1>3, Distinct DEF After

(* Each call is given the accounts as the calls before it leave them.      *)
LEMMA FirstFields ==
    ASSUME NEW p, NEW s \in Side, ProofBegan(p, s)
    PROVE  LET c == FirstCall(p, s)
           IN  /\ c.op = IF p.from = "user_native" THEN "wrap" ELSE "transfer"
               /\ c.from = p.from /\ c.to = Single[s] /\ c.amount = p.amount
               /\ Meets(c, p, s, 0)
<1> DEFINE c == FirstCall(p, s)
<1>1. \A a \in Balance : p.start[a] + After(p, s, 0, a) = p.start[a]
  <2> SUFFICES ASSUME NEW a \in Balance PROVE p.start[a] + After(p, s, 0, a) = p.start[a]
    OBVIOUS
  <2>1. After(p, s, 0, a) = 0
    BY DEF After
  <2>2. p.start[a] \in Nat
    BY BeganFacts DEF Amount
  <2> QED
    BY <2>1, <2>2
<1>2. CASE p.from = "user_native"
  <2>1. c = [op |-> "wrap", from |-> "user_native", to |-> Single[s], amount |-> p.amount,
             pre |-> [a \in {"user_native", Single[s]} \cup Wlez |-> p.start[a]]]
    BY <1>2 DEF FirstCall, Wrap, Given, Restrict
  <2> QED
    BY <1>1, <1>2, <2>1, Names DEF Meets
<1>3. CASE p.from # "user_native"
  <2>1. p.from = User[s]
    BY <1>3, BeganFacts
  <2>2. c = [op |-> "transfer", from |-> User[s], to |-> Single[s], amount |-> p.amount,
             pre |-> [a \in {User[s], Single[s]} |-> p.start[a]]]
    BY <1>3 DEF FirstCall, Deshield, Transfer, Given, Restrict
  <2> QED
    BY <1>1, <1>3, <2>1, <2>2, Names DEF Meets
<1> QED
  BY <1>2, <1>3

(* The AMM's transfer from the user's account to the vault.                *)
LEMMA PayInFields ==
    ASSUME NEW p, NEW s \in Side, ProofBegan(p, s)
    PROVE  LET c == PayIn(p, s)
           IN  /\ c.op = "transfer"
               /\ c.from = Single[s] /\ c.to = Vault[s] /\ c.amount = p.amount
               /\ Meets(c, p, s, 1)
<1> DEFINE c == PayIn(p, s)
           view == [p.start EXCEPT ![Single[s]] = @ + p.amount]
<1>1. c = [op |-> "transfer", from |-> Single[s], to |-> Vault[s], amount |-> p.amount,
           pre |-> [a \in {Single[s], Vault[s]} |-> view[a]]]
  BY DEF PayIn, Transfer, Given, Restrict, Shifted
<1>2. view[Single[s]] = p.start[Single[s]] + p.amount /\ view[Vault[s]] = p.start[Vault[s]]
  BY BeganFacts, Names, Distinct
<1>3. After(p, s, 1, Single[s]) = p.amount /\ After(p, s, 1, Vault[s]) = 0
  BY AfterIs
<1>4. p.start[Vault[s]] \in Nat
  BY BeganFacts, Names DEF Amount
<1>5. p.start[Vault[s]] + 0 = p.start[Vault[s]]
  BY <1>4
<1> HIDE DEF view
<1> QED
  BY <1>1, <1>2, <1>3, <1>5, Names DEF Meets

(* The AMM's transfer from the other vault to the user's other account.    *)
LEMMA PayOutFields ==
    ASSUME NEW p, NEW s \in Side, ProofBegan(p, s)
    PROVE  LET c == PayOut(p, s)
           IN  /\ c.op = "transfer"
               /\ c.from = Vault[Other(s)] /\ c.to = Single[Other(s)] /\ c.amount = OutOf(p, s)
               /\ Meets(c, p, s, 2)
<1> DEFINE c == PayOut(p, s)
           o == Other(s)
<1>1. c = [op |-> "transfer", from |-> Vault[o], to |-> Single[o], amount |-> OutOf(p, s),
           pre |-> [a \in {Vault[o], Single[o]} |-> p.start[a]]]
  BY DEF PayOut, Transfer, Given, Restrict
<1>2. After(p, s, 2, Single[o]) = 0 /\ After(p, s, 2, Vault[o]) = 0
  BY AfterIs
<1>3. p.start[Vault[o]] \in Nat /\ p.start[Single[o]] \in Nat
  BY BeganFacts, Names DEF Amount
<1>4. p.start[Vault[o]] + 0 = p.start[Vault[o]] /\ p.start[Single[o]] + 0 = p.start[Single[o]]
  BY <1>3
<1> QED
  BY <1>1, <1>2, <1>4, Names DEF Meets

(* The call that brings the output home.                                   *)
LEMMA LastFields ==
    ASSUME NEW p, NEW s \in Side, ProofBegan(p, s)
    PROVE  LET c == LastCall(p, s)
           IN  /\ c.op = IF p.to = "user_native" THEN "unwrap" ELSE "transfer"
               /\ c.from = Single[Other(s)] /\ c.to = p.to /\ c.amount = OutOf(p, s)
               /\ Meets(c, p, s, 3)
<1> DEFINE c == LastCall(p, s)
           o == Other(s)
           out == OutOf(p, s)
           view == [p.start EXCEPT ![Single[o]] = @ + out]
<1>1. After(p, s, 3, Single[o]) = out /\ After(p, s, 3, p.to) = 0
  BY AfterIs
<1>2. /\ view[Single[o]] = p.start[Single[o]] + out /\ view[p.to] = p.start[p.to]
      /\ \A a \in Wlez : view[a] = p.start[a]
  BY BeganFacts, Names, Distinct
<1>3. \A a \in Balance : p.start[a] + 0 = p.start[a]
  <2> SUFFICES ASSUME NEW a \in Balance PROVE p.start[a] + 0 = p.start[a]
    OBVIOUS
  <2>1. p.start[a] \in Nat
    BY BeganFacts DEF Amount
  <2> QED
    BY <2>1
<1>4. p.to \in Balance /\ Single[o] \in Balance /\ Wlez \subseteq Balance
  BY BeganFacts, Names
<1>5. CASE p.to = "user_native"
  <2>1. Single[WLEZ_SIDE] = Single[o]
    BY <1>5, BeganFacts
  <2>2. c = [op |-> "unwrap", from |-> Single[o], to |-> "user_native", amount |-> out,
             pre |-> [a \in {Single[o], "user_native"} \cup Wlez |-> view[a]]]
    BY <1>5, <2>1 DEF LastCall, Release, Unwrap, Given, Restrict, Shifted
  <2>3. \A a \in Wlez : After(p, s, 3, a) = 0
    BY <1>5, AfterIs
  <2> HIDE DEF view
  <2> QED
    BY <1>1, <1>2, <1>3, <1>4, <1>5, <2>2, <2>3 DEF Meets
<1>6. CASE p.to # "user_native"
  <2>1. p.to = User[o]
    BY <1>6, BeganFacts
  <2>2. c = [op |-> "transfer", from |-> Single[o], to |-> User[o], amount |-> out,
             pre |-> [a \in {Single[o], User[o]} |-> view[a]]]
    BY <1>6 DEF LastCall, Reshield, Transfer, Given, Restrict, Shifted
  <2> HIDE DEF view
  <2> QED
    BY <1>1, <1>2, <1>3, <1>4, <1>6, <2>1, <2>2 DEF Meets
<1> QED
  BY <1>5, <1>6

(* The AMM's own call is promised the pool and the accounts it pays.       *)
LEMMA SwapFields ==
    ASSUME NEW p, NEW s \in Side, ProofBegan(p, s)
    PROVE  LET c == SwapCall(p, s)
           IN  /\ c.op = "swap" /\ c.side = s /\ c.limit = p.limit
               /\ c.from = Single[s] /\ c.to = Single[Other(s)] /\ c.amount = p.amount
               /\ DOMAIN c.pre = PoolAccounts
               /\ c.pre["pool"] = p.start["pool"]
               /\ c.pre[Single[s]] = p.start[Single[s]] + p.amount
               /\ c.pre[Vault[s]] = p.start[Vault[s]]
               /\ c.pre[Vault[Other(s)]] = p.start[Vault[Other(s)]]
               /\ c.pre[Single[Other(s)]] = p.start[Single[Other(s)]]
<1> DEFINE c == SwapCall(p, s)
           o == Other(s)
           view == [p.start EXCEPT ![Single[s]] = @ + p.amount]
<1>1. c = [op |-> "swap", from |-> Single[s], to |-> Single[o], amount |-> p.amount,
           side |-> s, limit |-> p.limit, pre |-> [a \in PoolAccounts |-> view[a]]]
  BY DEF SwapCall, SwapExactInputCircuit, Given, Restrict, Shifted
<1>2. /\ view["pool"] = p.start["pool"] /\ view[Single[s]] = p.start[Single[s]] + p.amount
      /\ view[Vault[s]] = p.start[Vault[s]] /\ view[Vault[o]] = p.start[Vault[o]]
      /\ view[Single[o]] = p.start[Single[o]]
  BY BeganFacts, Names, Distinct
<1> HIDE DEF view
<1> QED
  BY <1>1, <1>2, Names

(* Transfer k of a proof: who pays whom, how much, by which call.          *)
Payer(p, s, k) ==
    CASE k = 0 -> p.from
      [] k = 1 -> Single[s]
      [] k = 2 -> Vault[Other(s)]
      [] k = 3 -> Single[Other(s)]
Payee(p, s, k) ==
    CASE k = 0 -> Single[s]
      [] k = 1 -> Vault[s]
      [] k = 2 -> Single[Other(s)]
      [] k = 3 -> p.to
Moved(p, s, k) == IF k <= 1 THEN p.amount ELSE OutOf(p, s)
Op(p, s, k) ==
    IF k = 0 /\ p.from = "user_native" THEN "wrap"
    ELSE IF k = 3 /\ p.to = "user_native" THEN "unwrap"
    ELSE "transfer"
CallAt(p, s, k) ==
    CASE k = 0 -> FirstCall(p, s)
      [] k = 1 -> PayIn(p, s)
      [] k = 2 -> PayOut(p, s)
      [] k = 3 -> LastCall(p, s)

(* The calls by their number.                                              *)
LEMMA CallFields ==
    ASSUME NEW p, NEW s \in Side, ProofBegan(p, s), NEW k \in 0 .. 3
    PROVE  LET c == CallAt(p, s, k)
           IN  /\ c.op = Op(p, s, k) /\ c.from = Payer(p, s, k) /\ c.to = Payee(p, s, k)
               /\ c.amount = Moved(p, s, k)
               /\ Meets(c, p, s, k)
<1>1. CASE k = 0
  BY <1>1, FirstFields DEF CallAt, Op, Payer, Payee, Moved
<1>2. CASE k = 1
  BY <1>2, PayInFields DEF CallAt, Op, Payer, Payee, Moved
<1>3. CASE k = 2
  BY <1>3, PayOutFields DEF CallAt, Op, Payer, Payee, Moved
<1>4. CASE k = 3
  BY <1>4, LastFields DEF CallAt, Op, Payer, Payee, Moved
<1> QED
  BY <1>1, <1>2, <1>3, <1>4

(* The two sides of a transfer are different balances, none of them the    *)
(* wrap's own.                                                             *)
LEMMA Parties ==
    ASSUME NEW p, NEW s \in Side, ProofBegan(p, s), NEW k \in 0 .. 3
    PROVE  /\ Payer(p, s, k) \in Balance \ Wlez /\ Payee(p, s, k) \in Balance \ Wlez
           /\ Payer(p, s, k) # Payee(p, s, k)
           /\ Moved(p, s, k) \in Amount \ {0}
<1>1. /\ p.from \in {User[s], "user_native"} /\ p.to \in {User[Other(s)], "user_native"}
      /\ p.amount \in Amount \ {0} /\ OutOf(p, s) \in Amount \ {0}
  BY BeganFacts
<1>2. k = 0 \/ k = 1 \/ k = 2 \/ k = 3
  OBVIOUS
<1> QED
  BY <1>1, <1>2, Names, Distinct DEF Payer, Payee, Moved

(* One more transfer changes what is owed by what it moves.                *)
LEMMA AfterStep ==
    ASSUME NEW p, NEW s \in Side, ProofBegan(p, s), NEW k \in 0 .. 3, NEW a \in Balance
    PROVE  /\ After(p, s, k, a) \in Int
           /\ After(p, s, k + 1, a) \in Int
           /\ After(p, s, k + 1, a) = After(p, s, k, a) +
              (IF a = Payer(p, s, k) THEN 0 - Moved(p, s, k)
               ELSE IF a = Payee(p, s, k) THEN Moved(p, s, k)
               ELSE IF a \in Wlez /\ Op(p, s, k) = "wrap" THEN Moved(p, s, k)
               ELSE IF a \in Wlez /\ Op(p, s, k) = "unwrap" THEN 0 - Moved(p, s, k)
               ELSE 0)
<1>1. /\ p.from \in {User[s], "user_native"} /\ p.to \in {User[Other(s)], "user_native"}
      /\ p.amount \in Nat /\ OutOf(p, s) \in Nat /\ p.from # p.to
  BY BeganFacts DEF Amount
<1>2. /\ p.from \notin {Single[s], Single[Other(s)], Vault[s], Vault[Other(s)]} \cup Wlez
      /\ p.to \notin {Single[s], Single[Other(s)], Vault[s], Vault[Other(s)]} \cup Wlez
      /\ Single[s] \notin {Single[Other(s)], Vault[s], Vault[Other(s)]} \cup Wlez
      /\ Single[Other(s)] \notin {Vault[s], Vault[Other(s)]} \cup Wlez
      /\ Vault[s] \notin {Vault[Other(s)]} \cup Wlez
      /\ Vault[Other(s)] \notin Wlez
  BY <1>1, Distinct DEF Wlez
<1>3. ~(p.from = "user_native" /\ p.to = "user_native")
  BY <1>1
<1>4. CASE k = 0
  BY <1>1, <1>2, <1>3, <1>4 DEF After, Payer, Payee, Moved, Op
<1>5. CASE k = 1
  BY <1>1, <1>2, <1>3, <1>5 DEF After, Payer, Payee, Moved, Op
<1>6. CASE k = 2
  BY <1>1, <1>2, <1>3, <1>6 DEF After, Payer, Payee, Moved, Op
<1>7. CASE k = 3
  BY <1>1, <1>2, <1>3, <1>7 DEF After, Payer, Payee, Moved, Op
<1> QED
  BY <1>4, <1>5, <1>6, <1>7

(* A payment, a wrap and an unwrap that are covered keep a ledger a        *)
(* ledger.                                                                 *)
LEMMA PaidLedger ==
    ASSUME NEW l, IsLedger(l), NEW from \in Balance, NEW to \in Balance, from # to,
           NEW n \in Amount, l[from] >= n, Fits(l[to] + n)
    PROVE  LET new == [l EXCEPT ![from] = @ - n, ![to] = @ + n]
           IN  /\ IsLedger(new)
               /\ new["pool"] = l["pool"]
               /\ \A a \in Balance : new[a] = l[a] + (IF a = from THEN 0 - n ELSE IF a = to THEN n ELSE 0)
<1> DEFINE new == [l EXCEPT ![from] = @ - n, ![to] = @ + n]
<1>1. /\ DOMAIN l = Account /\ (\A a \in Balance : l[a] \in Amount) /\ l["pool"] \in PoolDefinition
      /\ Balance \subseteq Account /\ "pool" \notin Balance /\ "pool" \in Account
  BY Names DEF IsLedger, Side
<1>2. DOMAIN new = Account /\ new["pool"] = l["pool"]
  BY <1>1
<1>3. ASSUME NEW a \in Balance
      PROVE  /\ new[a] = l[a] + (IF a = from THEN 0 - n ELSE IF a = to THEN n ELSE 0)
             /\ new[a] \in Amount
  <2>1. new[a] = IF a = to THEN l[to] + n ELSE IF a = from THEN l[from] - n ELSE l[a]
    BY <1>1
  <2>2. l[a] \in Nat /\ l[from] \in Nat /\ l[to] \in Nat /\ n \in Nat /\ U128_MAX \in Nat
        /\ l[a] <= U128_MAX /\ l[from] <= U128_MAX
    BY <1>1, U128Assumption DEF Amount
  <2> HIDE DEF new
  <2> QED
    BY <2>1, <2>2 DEF Amount, Fits
<1> HIDE DEF new
<1>4. IsLedger(new)
  BY <1>1, <1>2, <1>3 DEF IsLedger
<1> QED
  BY <1>2, <1>3, <1>4 DEF new

(* A wrap raises the WLEZ vault and supply together.                       *)
LEMMA WrappedLedger ==
    ASSUME NEW l, IsLedger(l), NEW n \in Amount, \A a \in Wlez : Fits(l[a] + n)
    PROVE  /\ IsLedger(Wrapped(l, n))
           /\ Wrapped(l, n)["pool"] = l["pool"]
           /\ \A a \in Balance : Wrapped(l, n)[a] = l[a] + (IF a \in Wlez THEN n ELSE 0)
<1> DEFINE new == Wrapped(l, n)
<1>1. /\ DOMAIN l = Account /\ (\A a \in Balance : l[a] \in Amount) /\ l["pool"] \in PoolDefinition
      /\ Balance \subseteq Account /\ "pool" \notin Balance /\ "pool" \in Account
      /\ Wlez = {"wlez_vault", "wlez_definition"} /\ Wlez \subseteq Balance
  BY Names DEF IsLedger, Side
<1>2. DOMAIN new = Account /\ new["pool"] = l["pool"]
  BY <1>1 DEF Wrapped
<1>3. ASSUME NEW a \in Balance
      PROVE  new[a] = l[a] + (IF a \in Wlez THEN n ELSE 0) /\ new[a] \in Amount
  <2>1. new[a] = IF a \in Wlez THEN l[a] + n ELSE l[a]
    BY <1>1 DEF Wrapped
  <2>2. l[a] \in Nat /\ n \in Nat /\ U128_MAX \in Nat /\ l[a] <= U128_MAX
    BY <1>1, U128Assumption DEF Amount
  <2> HIDE DEF new
  <2> QED
    BY <2>1, <2>2 DEF Amount, Fits
<1> HIDE DEF new
<1>4. IsLedger(new)
  BY <1>1, <1>2, <1>3 DEF IsLedger
<1> QED
  BY <1>2, <1>3, <1>4 DEF new

(* An unwrap lowers them together.                                         *)
LEMMA UnwrappedLedger ==
    ASSUME NEW l, IsLedger(l), NEW n \in Amount, \A a \in Wlez : l[a] >= n
    PROVE  /\ IsLedger(Unwrapped(l, n))
           /\ Unwrapped(l, n)["pool"] = l["pool"]
           /\ \A a \in Balance : Unwrapped(l, n)[a] = l[a] + (IF a \in Wlez THEN 0 - n ELSE 0)
<1> DEFINE new == Unwrapped(l, n)
<1>1. /\ DOMAIN l = Account /\ (\A a \in Balance : l[a] \in Amount) /\ l["pool"] \in PoolDefinition
      /\ Balance \subseteq Account /\ "pool" \notin Balance /\ "pool" \in Account
      /\ Wlez = {"wlez_vault", "wlez_definition"} /\ Wlez \subseteq Balance
  BY Names DEF IsLedger, Side
<1>2. DOMAIN new = Account /\ new["pool"] = l["pool"]
  BY <1>1 DEF Unwrapped
<1>3. ASSUME NEW a \in Balance
      PROVE  new[a] = l[a] + (IF a \in Wlez THEN 0 - n ELSE 0) /\ new[a] \in Amount
  <2>1. new[a] = IF a \in Wlez THEN l[a] - n ELSE l[a]
    BY <1>1 DEF Unwrapped
  <2>2. l[a] \in Nat /\ n \in Nat /\ U128_MAX \in Nat /\ l[a] <= U128_MAX
    BY <1>1, U128Assumption DEF Amount
  <2> HIDE DEF new
  <2> QED
    BY <2>1, <2>2 DEF Amount, Fits
<1> HIDE DEF new
<1>4. IsLedger(new)
  BY <1>1, <1>2, <1>3 DEF IsLedger
<1> QED
  BY <1>2, <1>3, <1>4 DEF new

(* What a call leaves. *)
Result(copy, c) ==
    CASE c.op = "transfer" -> Paid(copy, c)
      [] c.op = "wrap" -> Wrapped(Paid(copy, c), c.amount)
      [] c.op = "unwrap" -> Unwrapped(Paid(copy, c), c.amount)

(* A call that succeeds takes the working copy from what is owed after k   *)
(* calls to what is owed after k + 1.                                      *)
LEMMA CallResult ==
    ASSUME NEW p, NEW s \in Side, ProofBegan(p, s), NEW k \in 0 .. 3,
           IsLedger(p.copy),
           \A a \in Balance : p.copy[a] = p.start[a] + After(p, s, k, a),
           Can(p.copy, CallAt(p, s, k))
    PROVE  LET new == Result(p.copy, CallAt(p, s, k))
           IN  /\ IsLedger(new)
               /\ new["pool"] = p.copy["pool"]
               /\ \A a \in Balance : new[a] = p.start[a] + After(p, s, k + 1, a)
<1> DEFINE c == CallAt(p, s, k)
           from == Payer(p, s, k)
           to == Payee(p, s, k)
           n == Moved(p, s, k)
           paid == [p.copy EXCEPT ![from] = @ - n, ![to] = @ + n]
           new == Result(p.copy, c)
<1>1. c.op = Op(p, s, k) /\ c.from = from /\ c.to = to /\ c.amount = n
  BY CallFields
<1>2. from \in Balance /\ to \in Balance /\ from # to /\ n \in Amount /\ n \in Nat
      /\ from \notin Wlez /\ to \notin Wlez
  BY Parties DEF Amount
<1>3. Paid(p.copy, c) = paid
  BY <1>1 DEF Paid
<1>4. p.copy[from] >= n /\ Fits(p.copy[to] + n)
  <2>1. CASE Op(p, s, k) = "transfer"
    BY <1>1, <2>1 DEF Can, CanTransfer
  <2>2. CASE Op(p, s, k) = "wrap"
    <3>1. from = "user_native"
      BY <2>2 DEF Op, Payer
    <3> QED
      BY <1>1, <2>2, <3>1 DEF Can, CanWrap
  <2>3. CASE Op(p, s, k) = "unwrap"
    <3>1. to = "user_native"
      BY <2>3 DEF Op, Payee
    <3> QED
      BY <1>1, <2>3, <3>1 DEF Can, CanUnwrap
  <2> QED
    BY <2>1, <2>2, <2>3 DEF Op
<1>5. /\ IsLedger(paid) /\ paid["pool"] = p.copy["pool"]
      /\ \A a \in Balance : paid[a] = p.copy[a] + (IF a = from THEN 0 - n ELSE IF a = to THEN n ELSE 0)
  BY <1>2, <1>4, PaidLedger
<1> HIDE DEF paid, c, from, to, n
<1>6. \A a \in Wlez : a \in Balance /\ paid[a] = p.copy[a]
  <2> SUFFICES ASSUME NEW a \in Wlez PROVE a \in Balance /\ paid[a] = p.copy[a]
    OBVIOUS
  <2>1. a \in Balance
    BY DEF Balance
  <2>2. p.copy[a] \in Nat /\ paid[a] = p.copy[a] + 0
    BY <1>2, <1>5, <2>1 DEF IsLedger, Amount
  <2> QED
    BY <2>1, <2>2
<1>7. Op(p, s, k) \in {"transfer", "wrap", "unwrap"}
  BY DEF Op
<1>8. /\ IsLedger(new) /\ new["pool"] = p.copy["pool"]
      /\ \A a \in Balance : new[a] = p.copy[a] +
            (IF a = from THEN 0 - n ELSE IF a = to THEN n
             ELSE IF a \in Wlez /\ Op(p, s, k) = "wrap" THEN n
             ELSE IF a \in Wlez /\ Op(p, s, k) = "unwrap" THEN 0 - n
             ELSE 0)
  <2>1. CASE Op(p, s, k) = "transfer"
    <3>1. new = paid
      BY <1>1, <1>3, <2>1 DEF Result
    <3> HIDE DEF new
    <3> QED
      BY <1>5, <2>1, <3>1
  <2>2. CASE Op(p, s, k) = "wrap"
    <3>1. new = Wrapped(paid, n)
      BY <1>1, <1>3, <2>2 DEF Result
    <3>2. \A a \in Wlez : Fits(paid[a] + n)
      BY <1>1, <1>6, <2>2 DEF Can, CanWrap, c
    <3>3. /\ IsLedger(new) /\ new["pool"] = paid["pool"]
          /\ \A a \in Balance : new[a] = paid[a] + (IF a \in Wlez THEN n ELSE 0)
      BY <1>2, <1>5, <3>1, <3>2, WrappedLedger
    <3> HIDE DEF new
    <3>4. ASSUME NEW a \in Balance
          PROVE  new[a] = p.copy[a] + (IF a = from THEN 0 - n ELSE IF a = to THEN n
                                       ELSE IF a \in Wlez THEN n ELSE 0)
      <4>1. /\ new[a] = paid[a] + (IF a \in Wlez THEN n ELSE 0)
            /\ paid[a] = p.copy[a] + (IF a = from THEN 0 - n ELSE IF a = to THEN n ELSE 0)
            /\ p.copy[a] \in Int
        BY <1>5, <3>3 DEF IsLedger, Amount
      <4> QED
        BY <1>2, <4>1
    <3> QED
      BY <1>5, <2>2, <3>3, <3>4
  <2>3. CASE Op(p, s, k) = "unwrap"
    <3>1. new = Unwrapped(paid, n)
      BY <1>1, <1>3, <2>3 DEF Result
    <3>2. \A a \in Wlez : paid[a] >= n
      BY <1>1, <1>6, <2>3 DEF Can, CanUnwrap, c
    <3>3. /\ IsLedger(new) /\ new["pool"] = paid["pool"]
          /\ \A a \in Balance : new[a] = paid[a] + (IF a \in Wlez THEN 0 - n ELSE 0)
      BY <1>2, <1>5, <3>1, <3>2, UnwrappedLedger
    <3> HIDE DEF new
    <3>4. ASSUME NEW a \in Balance
          PROVE  new[a] = p.copy[a] + (IF a = from THEN 0 - n ELSE IF a = to THEN n
                                       ELSE IF a \in Wlez THEN 0 - n ELSE 0)
      <4>1. /\ new[a] = paid[a] + (IF a \in Wlez THEN 0 - n ELSE 0)
            /\ paid[a] = p.copy[a] + (IF a = from THEN 0 - n ELSE IF a = to THEN n ELSE 0)
            /\ p.copy[a] \in Int
        BY <1>5, <3>3 DEF IsLedger, Amount
      <4> QED
        BY <1>2, <4>1
    <3> QED
      BY <1>5, <2>3, <3>3, <3>4
  <2> QED
    BY <1>7, <2>1, <2>2, <2>3
<1> HIDE DEF new
<1>9. ASSUME NEW a \in Balance PROVE new[a] = p.start[a] + After(p, s, k + 1, a)
  <2>1. /\ After(p, s, k, a) \in Int /\ After(p, s, k + 1, a) \in Int
        /\ After(p, s, k + 1, a) = After(p, s, k, a) +
              (IF a = from THEN 0 - n ELSE IF a = to THEN n
               ELSE IF a \in Wlez /\ Op(p, s, k) = "wrap" THEN n
               ELSE IF a \in Wlez /\ Op(p, s, k) = "unwrap" THEN 0 - n
               ELSE 0)
    BY AfterStep DEF from, to, n
  <2>2. p.start[a] \in Int
    BY BeganFacts DEF Amount
  <2>3. p.copy[a] = p.start[a] + After(p, s, k, a)
    OBVIOUS
  <2> QED
    BY <1>2, <1>8, <2>1, <2>2, <2>3
<1> QED
  BY <1>8, <1>9 DEF new, c

(* The head and the rest of short tuples.                                  *)
LEMMA Popped ==
    ASSUME NEW a, NEW b, NEW c, NEW d
    PROVE  /\ <<a, b, c, d>> # <<>> /\ Head(<<a, b, c, d>>) = a /\ <<>> \o Tail(<<a, b, c, d>>) = <<b, c, d>>
           /\ <<a, b, c>> # <<>> /\ Head(<<a, b, c>>) = a /\ <<>> \o Tail(<<a, b, c>>) = <<b, c>>
           /\ <<a, b>> # <<>> /\ Head(<<a, b>>) = a
           /\ <<>> \o Tail(<<a, b>>) = <<b>> /\ Tail(<<a, b>>) = <<b>>
           /\ <<a>> # <<>> /\ Head(<<a>>) = a /\ <<>> \o Tail(<<a>>) = <<>>
<1>1. <<a, b, c, d>> # <<>> /\ Head(<<a, b, c, d>>) = a /\ <<>> \o Tail(<<a, b, c, d>>) = <<b, c, d>>
  OBVIOUS
<1>2. <<a, b, c>> # <<>> /\ Head(<<a, b, c>>) = a /\ <<>> \o Tail(<<a, b, c>>) = <<b, c>>
  OBVIOUS
<1>3. <<a, b>> # <<>> /\ Head(<<a, b>>) = a /\ <<>> \o Tail(<<a, b>>) = <<b>> /\ Tail(<<a, b>>) = <<b>>
  OBVIOUS
<1>4. <<a>> # <<>> /\ Head(<<a>>) = a /\ <<>> \o Tail(<<a>>) = <<>>
  OBVIOUS
<1> QED
  BY <1>1, <1>2, <1>3, <1>4

(* The next call of a proof, and those that are left when it has run.      *)
LEMMA CallsNext ==
    ASSUME NEW p, NEW s \in Side, NEW k \in 0 .. 3, NEW moved \in BOOLEAN, moved \/ k = 0
    PROVE  LET calls == CallsLeft(p, s, k, moved)
           IN  /\ calls # <<>>
               /\ Head(calls) = CallAt(p, s, k)
               /\ <<>> \o Tail(calls) = CallsLeft(p, s, k + 1, moved)
<1> DEFINE first == FirstCall(p, s)
           in == PayIn(p, s)
           out == PayOut(p, s)
           last == LastCall(p, s)
           swap == SwapCall(p, s)
<1>1. /\ CallsLeft(p, s, 0, TRUE) = <<first, in, out, last>>
      /\ CallsLeft(p, s, 1, TRUE) = <<in, out, last>>
      /\ CallsLeft(p, s, 2, TRUE) = <<out, last>>
      /\ CallsLeft(p, s, 3, TRUE) = <<last>>
      /\ CallsLeft(p, s, 4, TRUE) = <<>>
      /\ CallsLeft(p, s, 0, FALSE) = <<first, swap, last>>
      /\ CallsLeft(p, s, 1, FALSE) = <<swap, last>>
  BY DEF CallsLeft
<1>2. /\ CallAt(p, s, 0) = first /\ CallAt(p, s, 1) = in
      /\ CallAt(p, s, 2) = out /\ CallAt(p, s, 3) = last
  BY DEF CallAt
<1> HIDE DEF first, in, out, last, swap
<1>3. CASE k = 0 /\ moved = TRUE
  <2>1. k + 1 = 1
    BY <1>3
  <2>2. /\ CallsLeft(p, s, k, moved) = <<first, in, out, last>>
        /\ CallsLeft(p, s, k + 1, moved) = <<in, out, last>>
    BY <1>1, <1>3, <2>1, Zenon
  <2>3. /\ <<first, in, out, last>> # <<>> /\ Head(<<first, in, out, last>>) = first
        /\ <<>> \o Tail(<<first, in, out, last>>) = <<in, out, last>>
    BY Popped
  <2>4. CallAt(p, s, k) = first
    BY <1>2, <1>3, Zenon
  <2> QED
    BY <2>2, <2>3, <2>4, Zenon
<1>4. CASE k = 0 /\ moved = FALSE
  <2>1. k + 1 = 1
    BY <1>4
  <2>2. CallsLeft(p, s, k, moved) = <<first, swap, last>> /\ CallsLeft(p, s, k + 1, moved) = <<swap, last>>
    BY <1>1, <1>4, <2>1, Zenon
  <2>3. /\ <<first, swap, last>> # <<>> /\ Head(<<first, swap, last>>) = first
        /\ <<>> \o Tail(<<first, swap, last>>) = <<swap, last>>
    BY Popped
  <2>4. CallAt(p, s, k) = first
    BY <1>2, <1>4, Zenon
  <2> QED
    BY <2>2, <2>3, <2>4, Zenon
<1>5. CASE k = 1 /\ moved = TRUE
  <2>1. k + 1 = 2
    BY <1>5
  <2>2. CallsLeft(p, s, k, moved) = <<in, out, last>> /\ CallsLeft(p, s, k + 1, moved) = <<out, last>>
    BY <1>1, <1>5, <2>1, Zenon
  <2>3. /\ <<in, out, last>> # <<>> /\ Head(<<in, out, last>>) = in
        /\ <<>> \o Tail(<<in, out, last>>) = <<out, last>>
    BY Popped
  <2>4. CallAt(p, s, k) = in
    BY <1>2, <1>5, Zenon
  <2> QED
    BY <2>2, <2>3, <2>4, Zenon
<1>6. CASE k = 2 /\ moved = TRUE
  <2>1. k + 1 = 3
    BY <1>6
  <2>2. CallsLeft(p, s, k, moved) = <<out, last>> /\ CallsLeft(p, s, k + 1, moved) = <<last>>
    BY <1>1, <1>6, <2>1, Zenon
  <2>3. <<out, last>> # <<>> /\ Head(<<out, last>>) = out /\ <<>> \o Tail(<<out, last>>) = <<last>>
    BY Popped
  <2>4. CallAt(p, s, k) = out
    BY <1>2, <1>6, Zenon
  <2> QED
    BY <2>2, <2>3, <2>4, Zenon
<1>7. CASE k = 3 /\ moved = TRUE
  <2>1. k + 1 = 4
    BY <1>7
  <2>2. CallsLeft(p, s, k, moved) = <<last>> /\ CallsLeft(p, s, k + 1, moved) = <<>>
    BY <1>1, <1>7, <2>1, Zenon
  <2>3. <<last>> # <<>> /\ Head(<<last>>) = last /\ <<>> \o Tail(<<last>>) = <<>>
    BY Popped
  <2>4. CallAt(p, s, k) = last
    BY <1>2, <1>7, Zenon
  <2> QED
    BY <2>2, <2>3, <2>4, Zenon
<1>8. \/ k = 0 /\ moved = TRUE
      \/ k = 0 /\ moved = FALSE
      \/ k = 1 /\ moved = TRUE
      \/ k = 2 /\ moved = TRUE
      \/ k = 3 /\ moved = TRUE
  OBVIOUS
<1> QED
  BY <1>3, <1>4, <1>5, <1>6, <1>7, <1>8, Zenon

(* The AMM's own transfers take the place of its call. *)
LEMMA SwapCallNext ==
    ASSUME NEW p, NEW s \in Side
    PROVE  LET calls == CallsLeft(p, s, 1, FALSE)
           IN  /\ calls # <<>>
               /\ Head(calls) = SwapCall(p, s)
               /\ <<PayIn(p, s), PayOut(p, s)>> \o Tail(calls) = CallsLeft(p, s, 1, TRUE)
<1>1. CallsLeft(p, s, 1, FALSE) = <<SwapCall(p, s), LastCall(p, s)>>
  BY DEF CallsLeft
<1>2. CallsLeft(p, s, 1, TRUE) = <<PayIn(p, s), PayOut(p, s), LastCall(p, s)>>
  BY DEF CallsLeft
<1>3. /\ <<SwapCall(p, s), LastCall(p, s)>> # <<>>
      /\ Head(<<SwapCall(p, s), LastCall(p, s)>>) = SwapCall(p, s)
      /\ Tail(<<SwapCall(p, s), LastCall(p, s)>>) = <<LastCall(p, s)>>
  BY Popped
<1>4. <<PayIn(p, s), PayOut(p, s)>> \o <<LastCall(p, s)>> = <<PayIn(p, s), PayOut(p, s), LastCall(p, s)>>
  BY Concat21
<1> QED
  BY <1>1, <1>2, <1>3, <1>4, Zenon

(* Only the working copy and the calls of a proof change. *)
LEMMA SameProof ==
    ASSUME NEW p, NEW q, NEW s \in Side, ProofBegan(p, s),
           DOMAIN q = ProofFields,
           q.start = p.start, q.amount = p.amount, q.limit = p.limit, q.from = p.from, q.to = p.to,
           q.accounts = p.accounts
    PROVE  /\ ProofBegan(q, s)
           /\ \A k \in 0 .. 4, a \in Balance : After(q, s, k, a) = After(p, s, k, a)
           /\ \A moved \in BOOLEAN : PoolAfter(q, s, moved) = PoolAfter(p, s, moved)
           /\ \A k \in 0 .. 4, moved \in BOOLEAN : CallsLeft(q, s, k, moved) = CallsLeft(p, s, k, moved)
<1>1. OutOf(q, s) = OutOf(p, s)
  BY DEF OutOf
<1>2. ProofBegan(q, s)
  BY DEF ProofBegan, Paying
<1>3. \A k \in 0 .. 4, a \in Balance : After(q, s, k, a) = After(p, s, k, a)
  BY <1>1 DEF After
<1>4. \A moved \in BOOLEAN : PoolAfter(q, s, moved) = PoolAfter(p, s, moved)
  BY <1>1 DEF PoolAfter
<1>5. /\ FirstCall(q, s) = FirstCall(p, s) /\ LastCall(q, s) = LastCall(p, s)
      /\ PayIn(q, s) = PayIn(p, s) /\ PayOut(q, s) = PayOut(p, s)
      /\ SwapCall(q, s) = SwapCall(p, s)
  BY <1>1 DEF FirstCall, LastCall, PayIn, PayOut, SwapCall
<1>6. \A k \in 0 .. 4, moved \in BOOLEAN : CallsLeft(q, s, k, moved) = CallsLeft(p, s, k, moved)
  BY <1>5 DEF CallsLeft
<1> QED
  BY <1>2, <1>3, <1>4, <1>6

(* A handler that succeeds leaves a proof that has run none of its calls.  *)
LEMMA BegunOK ==
    ASSUME NEW l, IsLedger(l), Solvent(l), NEW s \in Side, NEW amount \in Amounts, NEW limit,
           Quote(l["pool"], s, amount, limit), NEW moved \in BOOLEAN,
           moved => CanApply(l["pool"], s, amount, Out(l["pool"], s, amount)),
           NEW p,
           p = [stage |-> "proving", start |-> l,
                copy |-> IF moved THEN PoolPost(l, s, amount, Out(l["pool"], s, amount)) ELSE l,
                calls |-> p.calls, amount |-> amount, limit |-> limit, from |-> p.from, to |-> p.to,
                accounts |-> PoolAccounts \cup {p.from, p.to}
                                \cup (IF "user_native" \in {p.from, p.to} THEN Wlez ELSE {})],
           Paying(p, s),
           p.calls = CallsLeft(p, s, 0, moved)
    PROVE  p.stage = "proving" /\ ProvingOK(p)
<1>1. /\ DOMAIN p = ProofFields /\ p.stage = "proving" /\ p.start = l /\ p.amount = amount /\ p.limit = limit
      /\ p.accounts = PoolAccounts \cup {p.from, p.to}
                        \cup (IF "user_native" \in {p.from, p.to} THEN Wlez ELSE {})
      /\ p.copy = IF moved THEN PoolPost(l, s, amount, Out(l["pool"], s, amount)) ELSE l
  BY DEF ProofFields
<1>2. ProofBegan(p, s)
  BY <1>1 DEF ProofBegan
<1>3. OutOf(p, s) = Out(l["pool"], s, amount) /\ OutOf(p, s) \in Amount /\ amount \in Amount
      /\ l["pool"] \in PoolDefinition /\ DOMAIN l = Account /\ \A a \in Balance : l[a] \in Amount
  BY <1>1, <1>2, BeganFacts, SwapLedgerAssumption DEF OutOf
<1>4. IsLedger(p.copy) /\ p.copy["pool"] = PoolAfter(p, s, moved) /\ \A a \in Balance : p.copy[a] = l[a]
  <2>1. CASE moved
    <3>1. p.copy = [l EXCEPT !["pool"] = Applied(l["pool"], s, amount, OutOf(p, s))]
      BY <1>1, <1>3, <2>1 DEF PoolPost
    <3>2. Applied(l["pool"], s, amount, OutOf(p, s)) \in PoolDefinition
      BY <1>3, <2>1, AppliedFacts
    <3>3. PoolAfter(p, s, moved) = Applied(l["pool"], s, amount, OutOf(p, s))
      BY <1>1, <2>1 DEF PoolAfter
    <3> QED
      BY <1>3, <3>1, <3>2, <3>3, Names DEF IsLedger
  <2>2. CASE ~moved
    BY <1>1, <2>2 DEF PoolAfter
  <2> QED
    BY <2>1, <2>2
<1>5. ASSUME NEW a \in Balance PROVE p.copy[a] = p.start[a] + After(p, s, 0, a)
  <2>1. After(p, s, 0, a) = 0
    BY DEF After
  <2>2. l[a] \in Nat
    BY <1>3 DEF Amount
  <2> QED
    BY <1>1, <1>4, <2>1, <2>2
<1>6. ProofAt(p, s, 0, moved)
  BY <1>4, <1>5 DEF ProofAt
<1> QED
  BY <1>1, <1>2, <1>6 DEF ProvingOK

(* One call, two, and one.                                                 *)
LEMMA Concat121 ==
    ASSUME NEW a, NEW b, NEW c, NEW d
    PROVE <<a>> \o <<b, c>> \o <<d>> = <<a, b, c, d>>
<1>1. <<a>> \o <<b, c>> = <<a, b, c>>
  BY Concat12
<1>2. <<a, b, c>> \o <<d>> = <<a, b, c, d>>
  BY Concat31
<1> QED
  BY <1>1, <1>2, Zenon

(* One call, three times.                                                  *)
LEMMA Concat111 ==
    ASSUME NEW a, NEW b, NEW c
    PROVE <<a>> \o <<b>> \o <<c>> = <<a, b, c>>
<1>1. <<a>> \o <<b>> = <<a, b>>
  BY Concat11
<1>2. <<a, b>> \o <<c>> = <<a, b, c>>
  BY Concat21
<1> QED
  BY <1>1, <1>2, Zenon

(* Handlers *)

-----------------------------------------------------------------------------
(* The handlers: each leaves a proof that has run none of its calls.       *)

(* The handlers differ in who moves the pool and in the first and last     *)
(* call.                                                                   *)
LEMMA BeginStarts ==
    ASSUME NEW j \in Jobs, ChainInv, NEW s \in Side, NEW amount \in Amounts, NEW limit,
           NEW post, NEW calls, NEW from, NEW to,
           Begin(j, s, amount, limit, post, calls, from, to),
           from \in {User[s], "user_native"}, to \in {User[Other(s)], "user_native"},
           from = "user_native" => s = WLEZ_SIDE,
           to = "user_native" => s # WLEZ_SIDE,
           NEW moved \in BOOLEAN,
           moved => CanApply(ledger["pool"], s, amount, Out(ledger["pool"], s, amount)),
           post = IF moved THEN PoolPost(ledger, s, amount, Out(ledger["pool"], s, amount)) ELSE ledger,
           \A p : p.start = ledger /\ p.amount = amount /\ p.limit = limit /\ p.from = from /\ p.to = to
                    => calls = CallsLeft(p, s, 0, moved)
    PROVE  ChainInv'
<1> DEFINE p == [stage |-> "proving", start |-> ledger, copy |-> post,
                 calls |-> calls, amount |-> amount, limit |-> limit,
                 from |-> from, to |-> to,
                 accounts |-> PoolAccounts \cup {from, to} \cup
                                (IF "user_native" \in {from, to} THEN Wlez ELSE {})]
<1>1. /\ Quote(ledger["pool"], s, amount, limit)
      /\ proof' = [proof EXCEPT ![j] = p]
      /\ UNCHANGED ledger
  BY DEF Begin
<1>2. /\ p.start = ledger /\ p.amount = amount /\ p.limit = limit /\ p.from = from /\ p.to = to
      /\ p.calls = calls /\ p.copy = post /\ p.stage = "proving"
      /\ p.accounts = PoolAccounts \cup {p.from, p.to}
                                \cup (IF "user_native" \in {p.from, p.to} THEN Wlez ELSE {})
  OBVIOUS
<1>3. p.calls = CallsLeft(p, s, 0, moved)
  BY <1>2
<1>4. Paying(p, s)
  BY <1>2 DEF Paying
<1>5. IsLedger(ledger) /\ Solvent(ledger) /\ DOMAIN proof = Jobs
  BY DEF ChainInv
<1>6. p = [stage |-> "proving", start |-> ledger,
           copy |-> IF moved THEN PoolPost(ledger, s, amount, Out(ledger["pool"], s, amount)) ELSE ledger,
           calls |-> p.calls, amount |-> amount, limit |-> limit, from |-> p.from, to |-> p.to,
           accounts |-> PoolAccounts \cup {p.from, p.to}
                           \cup (IF "user_native" \in {p.from, p.to} THEN Wlez ELSE {})]
  BY <1>2
<1> HIDE DEF p
<1>7. p.stage = "proving" /\ ProvingOK(p)
  BY <1>1, <1>3, <1>4, <1>5, <1>6, BegunOK
<1>8. ASSUME NEW i \in Jobs PROVE ProofOK(i)'
  <2>1. CASE i = j
    <3>1. proof'[i] = p
      BY <1>1, <1>5, <2>1
    <3> QED
      BY <1>7, <3>1 DEF ProofOK
  <2>2. CASE i # j
    <3>1. proof'[i] = proof[i]
      BY <1>1, <1>5, <2>2
    <3>2. ProofOK(i)
      BY DEF ChainInv
    <3> QED
      BY <3>1, <3>2 DEF ProofOK, Funded
  <2> QED
    BY <2>1, <2>2
<1> QED
  BY <1>1, <1>5, <1>8 DEF ChainInv

(* The token-to-token handler over the ephemeral accounts keeps the        *)
(* invariant.                                                              *)
LEMMA DisposableSwapStarts ==
    ASSUME ChainInv, NEW j \in Jobs, NEW amount \in Amounts, NEW limit, NEW s \in Side,
           DisposableSwap(j, s, amount, limit)
    PROVE  ChainInv'
<1> DEFINE out == Out(ledger["pool"], s, amount)
           calls == <<Deshield(s, amount, ledger)>>
                        \o Inlined(s, amount, out, ledger)
                        \o <<Reshield(Other(s), out, ledger)>>
<1>1. s \in Side
  BY SwapLedgerAssumption, Names
<1>2. Begin(j, s, amount, limit, PoolPost(ledger, s, amount, out), calls, User[s], User[Other(s)])
  BY DEF DisposableSwap
<1>3. CanApply(ledger["pool"], s, amount, out)
  BY DEF DisposableSwap
<1>4. ASSUME NEW p, p.start = ledger, p.amount = amount, p.limit = limit,
             p.from = User[s], p.to = User[Other(s)]
      PROVE  calls = CallsLeft(p, s, 0, TRUE)
  <2>1. OutOf(p, s) = out
    BY <1>4 DEF OutOf
  <2>2. FirstCall(p, s) = Deshield(s, amount, ledger)
    BY <1>1, <1>4, Names, Distinct DEF FirstCall
  <2>3. LastCall(p, s) = Reshield(Other(s), out, ledger)
    BY <1>1, <1>4, <2>1, Names, Distinct DEF LastCall
  <2>4. Inlined(s, amount, out, ledger) = <<PayIn(p, s), PayOut(p, s)>>
    BY <1>4, <2>1 DEF Inlined, PayIn, PayOut
  <2>5. calls = <<FirstCall(p, s)>> \o <<PayIn(p, s), PayOut(p, s)>> \o <<LastCall(p, s)>>
    BY <2>2, <2>3, <2>4, Zenon
  <2>6. calls = <<FirstCall(p, s), PayIn(p, s), PayOut(p, s), LastCall(p, s)>>
    BY <2>5, Concat121, Zenon
  <2> QED
    BY <2>6 DEF CallsLeft
<1> DEFINE moved == TRUE
           post == PoolPost(ledger, s, amount, out)
<1>5. /\ moved \in BOOLEAN
      /\ moved => CanApply(ledger["pool"], s, amount, out)
      /\ post = IF moved THEN PoolPost(ledger, s, amount, out) ELSE ledger
  BY <1>3
<1> HIDE DEF calls, out, moved, post
<1>6. \A p : p.start = ledger /\ p.amount = amount /\ p.limit = limit
                /\ p.from = User[s] /\ p.to = User[Other(s)]
              => calls = CallsLeft(p, s, 0, moved)
  BY <1>4 DEF moved
<1>7. Begin(j, s, amount, limit, post, calls, User[s], User[Other(s)])
  BY <1>2 DEF post
<1>8. User[s] # "user_native" /\ User[Other(s)] # "user_native"
  BY <1>1, Names, Distinct
<1> QED
  BY <1>1, <1>5, <1>6, <1>7, <1>8, BeginStarts DEF out

(* So does the one that is paid in LEZ.                                    *)
LEMMA DisposableSwapNativeInStarts ==
    ASSUME ChainInv, NEW j \in Jobs, NEW amount \in Amounts, NEW limit,
           DisposableSwapNativeIn(j, amount, limit)
    PROVE  ChainInv'
<1> DEFINE s == WLEZ_SIDE
           out == Out(ledger["pool"], s, amount)
           calls == <<Wrap(Single[s], amount, ledger)>>
                        \o Inlined(s, amount, out, ledger)
                        \o <<Reshield(Other(s), out, ledger)>>
<1>1. s \in Side /\ s = WLEZ_SIDE
  BY SwapLedgerAssumption, Names
<1>2. Begin(j, s, amount, limit, PoolPost(ledger, s, amount, out), calls, "user_native", User[Other(s)])
  BY DEF DisposableSwapNativeIn
<1>3. CanApply(ledger["pool"], s, amount, out)
  BY DEF DisposableSwapNativeIn
<1>4. ASSUME NEW p, p.start = ledger, p.amount = amount, p.limit = limit,
             p.from = "user_native", p.to = User[Other(s)]
      PROVE  calls = CallsLeft(p, s, 0, TRUE)
  <2>1. OutOf(p, s) = out
    BY <1>4 DEF OutOf
  <2>2. FirstCall(p, s) = Wrap(Single[s], amount, ledger)
    BY <1>1, <1>4, Names, Distinct DEF FirstCall
  <2>3. LastCall(p, s) = Reshield(Other(s), out, ledger)
    BY <1>1, <1>4, <2>1, Names, Distinct DEF LastCall
  <2>4. Inlined(s, amount, out, ledger) = <<PayIn(p, s), PayOut(p, s)>>
    BY <1>4, <2>1 DEF Inlined, PayIn, PayOut
  <2>5. calls = <<FirstCall(p, s)>> \o <<PayIn(p, s), PayOut(p, s)>> \o <<LastCall(p, s)>>
    BY <2>2, <2>3, <2>4, Zenon
  <2>6. calls = <<FirstCall(p, s), PayIn(p, s), PayOut(p, s), LastCall(p, s)>>
    BY <2>5, Concat121, Zenon
  <2> QED
    BY <2>6 DEF CallsLeft
<1> DEFINE moved == TRUE
           post == PoolPost(ledger, s, amount, out)
<1>5. /\ moved \in BOOLEAN
      /\ moved => CanApply(ledger["pool"], s, amount, out)
      /\ post = IF moved THEN PoolPost(ledger, s, amount, out) ELSE ledger
  BY <1>3
<1> HIDE DEF calls, out, moved, post, s
<1>6. \A p : p.start = ledger /\ p.amount = amount /\ p.limit = limit
                /\ p.from = "user_native" /\ p.to = User[Other(s)]
              => calls = CallsLeft(p, s, 0, moved)
  BY <1>4 DEF moved
<1>7. Begin(j, s, amount, limit, post, calls, "user_native", User[Other(s)])
  BY <1>2 DEF post
<1>8. User[Other(s)] # "user_native"
  BY <1>1, Names, Distinct
<1> QED
  BY <1>1, <1>5, <1>6, <1>7, <1>8, BeginStarts DEF out

(* And the one that pays LEZ.                                              *)
LEMMA DisposableSwapNativeOutStarts ==
    ASSUME ChainInv, NEW j \in Jobs, NEW amount \in Amounts, NEW limit,
           DisposableSwapNativeOut(j, amount, limit)
    PROVE  ChainInv'
<1> DEFINE s == Other(WLEZ_SIDE)
           out == Out(ledger["pool"], s, amount)
           calls == <<Deshield(s, amount, ledger)>>
                        \o Inlined(s, amount, out, ledger)
                        \o <<Release(out, ledger)>>
<1>1. s \in Side /\ s # WLEZ_SIDE /\ Other(s) = WLEZ_SIDE
  BY SwapLedgerAssumption, Names
<1>2. Begin(j, s, amount, limit, PoolPost(ledger, s, amount, out), calls, User[s], "user_native")
  BY DEF DisposableSwapNativeOut
<1>3. CanApply(ledger["pool"], s, amount, out)
  BY DEF DisposableSwapNativeOut
<1>4. ASSUME NEW p, p.start = ledger, p.amount = amount, p.limit = limit,
             p.from = User[s], p.to = "user_native"
      PROVE  calls = CallsLeft(p, s, 0, TRUE)
  <2>1. OutOf(p, s) = out
    BY <1>4 DEF OutOf
  <2>2. FirstCall(p, s) = Deshield(s, amount, ledger)
    BY <1>1, <1>4, Names, Distinct DEF FirstCall
  <2>3. LastCall(p, s) = Release(out, ledger)
    BY <1>1, <1>4, <2>1, Names, Distinct DEF LastCall
  <2>4. Inlined(s, amount, out, ledger) = <<PayIn(p, s), PayOut(p, s)>>
    BY <1>4, <2>1 DEF Inlined, PayIn, PayOut
  <2>5. calls = <<FirstCall(p, s)>> \o <<PayIn(p, s), PayOut(p, s)>> \o <<LastCall(p, s)>>
    BY <2>2, <2>3, <2>4, Zenon
  <2>6. calls = <<FirstCall(p, s), PayIn(p, s), PayOut(p, s), LastCall(p, s)>>
    BY <2>5, Concat121, Zenon
  <2> QED
    BY <2>6 DEF CallsLeft
<1> DEFINE moved == TRUE
           post == PoolPost(ledger, s, amount, out)
<1>5. /\ moved \in BOOLEAN
      /\ moved => CanApply(ledger["pool"], s, amount, out)
      /\ post = IF moved THEN PoolPost(ledger, s, amount, out) ELSE ledger
  BY <1>3
<1> HIDE DEF calls, out, moved, post, s
<1>6. \A p : p.start = ledger /\ p.amount = amount /\ p.limit = limit
                /\ p.from = User[s] /\ p.to = "user_native"
              => calls = CallsLeft(p, s, 0, moved)
  BY <1>4 DEF moved
<1>7. Begin(j, s, amount, limit, post, calls, User[s], "user_native")
  BY <1>2 DEF post
<1>8. User[s] # "user_native"
  BY <1>1, Names, Distinct
<1> QED
  BY <1>1, <1>5, <1>6, <1>7, <1>8, BeginStarts DEF out

(* The router's token-to-token swap keeps the invariant.                   *)
LEMMA PrivateSwapStarts ==
    ASSUME ChainInv, NEW j \in Jobs, NEW amount \in Amounts, NEW limit, NEW s \in Side,
           PrivateSwap(j, s, amount, limit)
    PROVE  ChainInv'
<1> DEFINE out == Out(ledger["pool"], s, amount)
           calls == <<Deshield(s, amount, ledger)>>
                        \o Chained(s, amount, limit, ledger)
                        \o <<Reshield(Other(s), out, ledger)>>
<1>1. s \in Side
  BY SwapLedgerAssumption, Names
<1>2. Begin(j, s, amount, limit, ledger, calls, User[s], User[Other(s)])
  BY DEF PrivateSwap
<1>4. ASSUME NEW p, p.start = ledger, p.amount = amount, p.limit = limit,
             p.from = User[s], p.to = User[Other(s)]
      PROVE  calls = CallsLeft(p, s, 0, FALSE)
  <2>1. OutOf(p, s) = out
    BY <1>4 DEF OutOf
  <2>2. FirstCall(p, s) = Deshield(s, amount, ledger)
    BY <1>1, <1>4, Names, Distinct DEF FirstCall
  <2>3. LastCall(p, s) = Reshield(Other(s), out, ledger)
    BY <1>1, <1>4, <2>1, Names, Distinct DEF LastCall
  <2>4. Chained(s, amount, limit, ledger) = <<SwapCall(p, s)>>
    BY <1>4 DEF Chained, SwapCall
  <2>5. calls = <<FirstCall(p, s)>> \o <<SwapCall(p, s)>> \o <<LastCall(p, s)>>
    BY <2>2, <2>3, <2>4, Zenon
  <2>6. calls = <<FirstCall(p, s), SwapCall(p, s), LastCall(p, s)>>
    BY <2>5, Concat111, Zenon
  <2> QED
    BY <2>6 DEF CallsLeft
<1> DEFINE moved == FALSE
           post == ledger
<1>5. /\ moved \in BOOLEAN
      /\ moved => CanApply(ledger["pool"], s, amount, out)
      /\ post = IF moved THEN PoolPost(ledger, s, amount, out) ELSE ledger
  OBVIOUS
<1> HIDE DEF calls, out, moved, post
<1>6. \A p : p.start = ledger /\ p.amount = amount /\ p.limit = limit
                /\ p.from = User[s] /\ p.to = User[Other(s)]
              => calls = CallsLeft(p, s, 0, moved)
  BY <1>4 DEF moved
<1>7. Begin(j, s, amount, limit, post, calls, User[s], User[Other(s)])
  BY <1>2 DEF post
<1>8. User[s] # "user_native" /\ User[Other(s)] # "user_native"
  BY <1>1, Names, Distinct
<1> QED
  BY <1>1, <1>5, <1>6, <1>7, <1>8, BeginStarts DEF out

(* So does the router's swap that is paid in LEZ.                          *)
LEMMA PrivateSwapNativeInStarts ==
    ASSUME ChainInv, NEW j \in Jobs, NEW amount \in Amounts, NEW limit,
           PrivateSwapNativeIn(j, amount, limit)
    PROVE  ChainInv'
<1> DEFINE s == WLEZ_SIDE
           out == Out(ledger["pool"], s, amount)
           calls == <<Wrap(Single[s], amount, ledger)>>
                        \o Chained(s, amount, limit, ledger)
                        \o <<Reshield(Other(s), out, ledger)>>
<1>1. s \in Side /\ s = WLEZ_SIDE
  BY SwapLedgerAssumption, Names
<1>2. Begin(j, s, amount, limit, ledger, calls, "user_native", User[Other(s)])
  BY DEF PrivateSwapNativeIn
<1>4. ASSUME NEW p, p.start = ledger, p.amount = amount, p.limit = limit,
             p.from = "user_native", p.to = User[Other(s)]
      PROVE  calls = CallsLeft(p, s, 0, FALSE)
  <2>1. OutOf(p, s) = out
    BY <1>4 DEF OutOf
  <2>2. FirstCall(p, s) = Wrap(Single[s], amount, ledger)
    BY <1>1, <1>4, Names, Distinct DEF FirstCall
  <2>3. LastCall(p, s) = Reshield(Other(s), out, ledger)
    BY <1>1, <1>4, <2>1, Names, Distinct DEF LastCall
  <2>4. Chained(s, amount, limit, ledger) = <<SwapCall(p, s)>>
    BY <1>4 DEF Chained, SwapCall
  <2>5. calls = <<FirstCall(p, s)>> \o <<SwapCall(p, s)>> \o <<LastCall(p, s)>>
    BY <2>2, <2>3, <2>4, Zenon
  <2>6. calls = <<FirstCall(p, s), SwapCall(p, s), LastCall(p, s)>>
    BY <2>5, Concat111, Zenon
  <2> QED
    BY <2>6 DEF CallsLeft
<1> DEFINE moved == FALSE
           post == ledger
<1>5. /\ moved \in BOOLEAN
      /\ moved => CanApply(ledger["pool"], s, amount, out)
      /\ post = IF moved THEN PoolPost(ledger, s, amount, out) ELSE ledger
  OBVIOUS
<1> HIDE DEF calls, out, moved, post, s
<1>6. \A p : p.start = ledger /\ p.amount = amount /\ p.limit = limit
                /\ p.from = "user_native" /\ p.to = User[Other(s)]
              => calls = CallsLeft(p, s, 0, moved)
  BY <1>4 DEF moved
<1>7. Begin(j, s, amount, limit, post, calls, "user_native", User[Other(s)])
  BY <1>2 DEF post
<1>8. User[Other(s)] # "user_native"
  BY <1>1, Names, Distinct
<1> QED
  BY <1>1, <1>5, <1>6, <1>7, <1>8, BeginStarts DEF out

(* And the one that pays LEZ.                                              *)
LEMMA PrivateSwapNativeOutStarts ==
    ASSUME ChainInv, NEW j \in Jobs, NEW amount \in Amounts, NEW limit,
           PrivateSwapNativeOut(j, amount, limit)
    PROVE  ChainInv'
<1> DEFINE s == Other(WLEZ_SIDE)
           out == Out(ledger["pool"], s, amount)
           calls == <<Deshield(s, amount, ledger)>>
                        \o Chained(s, amount, limit, ledger)
                        \o <<Release(out, ledger)>>
<1>1. s \in Side /\ s # WLEZ_SIDE /\ Other(s) = WLEZ_SIDE
  BY SwapLedgerAssumption, Names
<1>2. Begin(j, s, amount, limit, ledger, calls, User[s], "user_native")
  BY DEF PrivateSwapNativeOut
<1>4. ASSUME NEW p, p.start = ledger, p.amount = amount, p.limit = limit,
             p.from = User[s], p.to = "user_native"
      PROVE  calls = CallsLeft(p, s, 0, FALSE)
  <2>1. OutOf(p, s) = out
    BY <1>4 DEF OutOf
  <2>2. FirstCall(p, s) = Deshield(s, amount, ledger)
    BY <1>1, <1>4, Names, Distinct DEF FirstCall
  <2>3. LastCall(p, s) = Release(out, ledger)
    BY <1>1, <1>4, <2>1, Names, Distinct DEF LastCall
  <2>4. Chained(s, amount, limit, ledger) = <<SwapCall(p, s)>>
    BY <1>4 DEF Chained, SwapCall
  <2>5. calls = <<FirstCall(p, s)>> \o <<SwapCall(p, s)>> \o <<LastCall(p, s)>>
    BY <2>2, <2>3, <2>4, Zenon
  <2>6. calls = <<FirstCall(p, s), SwapCall(p, s), LastCall(p, s)>>
    BY <2>5, Concat111, Zenon
  <2> QED
    BY <2>6 DEF CallsLeft
<1> DEFINE moved == FALSE
           post == ledger
<1>5. /\ moved \in BOOLEAN
      /\ moved => CanApply(ledger["pool"], s, amount, out)
      /\ post = IF moved THEN PoolPost(ledger, s, amount, out) ELSE ledger
  OBVIOUS
<1> HIDE DEF calls, out, moved, post, s
<1>6. \A p : p.start = ledger /\ p.amount = amount /\ p.limit = limit
                /\ p.from = User[s] /\ p.to = "user_native"
              => calls = CallsLeft(p, s, 0, moved)
  BY <1>4 DEF moved
<1>7. Begin(j, s, amount, limit, post, calls, User[s], "user_native")
  BY <1>2 DEF post
<1>8. User[s] # "user_native"
  BY <1>1, Names, Distinct
<1> QED
  BY <1>1, <1>5, <1>6, <1>7, <1>8, BeginStarts DEF out

-----------------------------------------------------------------------------
(* The calls: each takes a proof from k transfers to k + 1.                *)

(* A step that changes one proof only has to look at that one.             *)
LEMMA OneProofChanges ==
    ASSUME ChainInv, NEW j \in Jobs, NEW q, proof' = [proof EXCEPT ![j] = q],
           IsLedger(ledger)', Solvent(ledger)', ProofOK(j)'
    PROVE  ChainInv'
<1>1. DOMAIN proof = Jobs /\ DOMAIN proof' = Jobs
  BY DEF ChainInv
<1>2. ASSUME NEW i \in Jobs PROVE ProofOK(i)'
  <2>1. CASE i = j
    BY <2>1
  <2>2. CASE i # j
    <3>1. proof'[i] = proof[i]
      BY <1>1, <2>2
    <3>2. ProofOK(i)
      BY DEF ChainInv
    <3> QED
      BY <3>1, <3>2 DEF ProofOK, Funded
  <2> QED
    BY <2>1, <2>2
<1> QED
  BY <1>1, <1>2 DEF ChainInv

(* A call is run: only the working copy and the calls of the proof change. *)
LEMMA Advanced ==
    ASSUME ChainInv, NEW j \in Jobs, NEW s \in Side, proof[j].stage = "proving", ProofBegan(proof[j], s),
           NEW k \in 0 .. 4, NEW moved \in BOOLEAN, ~moved => k <= 1,
           NEW copy, NEW calls,
           proof' = [proof EXCEPT ![j].copy = copy, ![j].calls = calls],
           IsLedger(copy), copy["pool"] = PoolAfter(proof[j], s, moved),
           \A a \in Balance : copy[a] = proof[j].start[a] + After(proof[j], s, k, a),
           calls = CallsLeft(proof[j], s, k, moved),
           UNCHANGED ledger
    PROVE  ChainInv'
<1>1. DOMAIN proof = Jobs
  BY DEF ChainInv
<1> PICK p : p = proof[j]
  OBVIOUS
<1>2. PICK q : q = [p EXCEPT !.copy = copy, !.calls = calls]
  OBVIOUS
<1>3. proof' = [proof EXCEPT ![j] = q] /\ proof'[j] = q
  BY <1>1, <1>2
<1>4. /\ DOMAIN q = ProofFields
      /\ q.stage = p.stage /\ q.copy = copy /\ q.calls = calls
      /\ q.start = p.start /\ q.amount = p.amount /\ q.limit = p.limit
      /\ q.from = p.from /\ q.to = p.to /\ q.accounts = p.accounts
  <2>1. DOMAIN p = ProofFields
    BY DEF ProofBegan
  <2> QED
    BY <1>2, <2>1 DEF ProofFields
<1>5. /\ ProofBegan(q, s)
      /\ \A a \in Balance : After(q, s, k, a) = After(p, s, k, a)
      /\ PoolAfter(q, s, moved) = PoolAfter(p, s, moved)
      /\ CallsLeft(q, s, k, moved) = CallsLeft(p, s, k, moved)
  BY <1>4, SameProof
<1>6. ProofAt(q, s, k, moved)
  BY <1>4, <1>5 DEF ProofAt
<1>7. ProvingOK(q)
  BY <1>5, <1>6 DEF ProvingOK
<1>8. ProofOK(j)'
  BY <1>3, <1>4, <1>7 DEF ProofOK
<1>9. IsLedger(ledger)' /\ Solvent(ledger)'
  <2>1. IsLedger(ledger) /\ Solvent(ledger)
    BY DEF ChainInv
  <2> QED
    BY <2>1 DEF IsLedger, Solvent, Circulating
<1> QED
  BY <1>3, <1>8, <1>9, OneProofChanges

(* Where a proof that is being made stands. *)
LEMMA Standing ==
    ASSUME ChainInv, NEW j \in Jobs, proof[j].stage = "proving"
    PROVE  ProvingOK(proof[j])
<1>1. NoProof.stage # "proving" /\ Over.stage # "proving"
  BY DEF NoProof, Over
<1>2. ProofOK(j)
  BY DEF ChainInv
<1> QED
  BY <1>1, <1>2 DEF ProofOK

(* A transfer, a wrap or an unwrap.                                        *)
LEMMA CallStep ==
    ASSUME ChainInv, NEW j \in Jobs, NEW op \in {"transfer", "wrap", "unwrap"}, NEW copy,
           Runs(j, op, copy, <<>>),
           copy = Result(proof[j].copy, Head(proof[j].calls))
    PROVE  ChainInv'
<1> DEFINE p == proof[j]
           c == Head(p.calls)
<1>1. /\ p.stage = "proving" /\ p.calls # <<>> /\ c.op = op
      /\ Can(p.copy, c)
      /\ proof' = [proof EXCEPT ![j].copy = copy, ![j].calls = <<>> \o Tail(@)]
      /\ UNCHANGED ledger
  BY DEF Runs
<1>2. PICK s \in Side, k \in 0 .. 4, moved \in BOOLEAN : ProofBegan(p, s) /\ ProofAt(p, s, k, moved)
  BY <1>1, Standing DEF ProvingOK
<1>3. /\ (~moved => k <= 1) /\ IsLedger(p.copy) /\ p.copy["pool"] = PoolAfter(p, s, moved)
      /\ \A a \in Balance : p.copy[a] = p.start[a] + After(p, s, k, a)
      /\ p.calls = CallsLeft(p, s, k, moved)
  BY <1>2 DEF ProofAt
<1>4. k # 4
  <2> SUFFICES ASSUME k = 4 PROVE FALSE
    OBVIOUS
  <2>1. moved = TRUE
    BY <1>3
  <2> QED
    BY <1>1, <1>3, <2>1 DEF CallsLeft
<1>5. moved \/ k = 0
  <2> SUFFICES ASSUME ~moved, k # 0 PROVE FALSE
    OBVIOUS
  <2>0. moved = FALSE /\ k = 1
    BY <1>3, <1>4
  <2>1. c = SwapCall(p, s)
    BY <1>3, <2>0, SwapCallNext
  <2> QED
    BY <1>1, <1>2, <2>1, SwapFields
<1>6. k \in 0 .. 3
  BY <1>4
<1>7. c = CallAt(p, s, k) /\ <<>> \o Tail(p.calls) = CallsLeft(p, s, k + 1, moved)
  <2>1. /\ Head(CallsLeft(p, s, k, moved)) = CallAt(p, s, k)
        /\ <<>> \o Tail(CallsLeft(p, s, k, moved)) = CallsLeft(p, s, k + 1, moved)
    BY <1>5, <1>6, CallsNext
  <2> QED
    BY <1>3, <2>1, Zenon
<1>8. /\ IsLedger(copy) /\ copy["pool"] = p.copy["pool"]
      /\ \A a \in Balance : copy[a] = p.start[a] + After(p, s, k + 1, a)
  BY <1>1, <1>2, <1>3, <1>6, <1>7, CallResult
<1>9. proof' = [proof EXCEPT ![j].copy = copy, ![j].calls = <<>> \o Tail(p.calls)]
  BY <1>1
<1>10. k + 1 \in 0 .. 4 /\ (~moved => k + 1 <= 1)
  BY <1>5, <1>6
<1> DEFINE calls == <<>> \o Tail(p.calls)
           next == k + 1
<1>11. /\ next \in 0 .. 4 /\ (~moved => next <= 1)
       /\ proof' = [proof EXCEPT ![j].copy = copy, ![j].calls = calls]
       /\ calls = CallsLeft(p, s, next, moved)
       /\ copy["pool"] = PoolAfter(p, s, moved)
       /\ \A a \in Balance : copy[a] = p.start[a] + After(p, s, next, a)
  BY <1>3, <1>7, <1>8, <1>9, <1>10
<1>12. /\ proof[j].stage = "proving" /\ ProofBegan(proof[j], s)
       /\ copy["pool"] = PoolAfter(proof[j], s, moved)
       /\ \A a \in Balance : copy[a] = proof[j].start[a] + After(proof[j], s, next, a)
       /\ calls = CallsLeft(proof[j], s, next, moved)
       /\ IsLedger(copy)
       /\ ledger' = ledger
  BY <1>1, <1>2, <1>8, <1>11
<1> HIDE DEF p, c, calls, next
<1>13. (~moved => next <= 1) /\ next \in 0 .. 4
  BY <1>11
<1>14. proof' = [proof EXCEPT ![j].copy = copy, ![j].calls = calls]
  BY <1>11
<1> QED
  BY <1>12, <1>13, <1>14, Advanced

(* A transfer of the token program keeps the invariant.                    *)
LEMMA RunTransferKeeps ==
    ASSUME ChainInv, NEW j \in Jobs, RunTransfer(j)
    PROVE ChainInv'
<1> DEFINE c == Head(proof[j].calls)
           copy == Paid(proof[j].copy, c)
<1>1. Runs(j, "transfer", copy, <<>>) /\ c.op = "transfer"
  BY DEF RunTransfer, Runs
<1>2. copy = Result(proof[j].copy, c)
  BY <1>1 DEF Result
<1> HIDE DEF copy
<1> QED
  BY <1>1, <1>2, CallStep

(* A wrap keeps it.                                                        *)
LEMMA RunWrapKeeps ==
    ASSUME ChainInv, NEW j \in Jobs, RunWrap(j)
    PROVE ChainInv'
<1> DEFINE c == Head(proof[j].calls)
           copy == Wrapped(Paid(proof[j].copy, c), c.amount)
<1>1. Runs(j, "wrap", copy, <<>>) /\ c.op = "wrap"
  BY DEF RunWrap, Runs
<1>2. copy = Result(proof[j].copy, c)
  BY <1>1 DEF Result
<1> HIDE DEF copy
<1> QED
  BY <1>1, <1>2, CallStep

(* An unwrap keeps it.                                                     *)
LEMMA RunUnwrapKeeps ==
    ASSUME ChainInv, NEW j \in Jobs, RunUnwrap(j)
    PROVE ChainInv'
<1> DEFINE c == Head(proof[j].calls)
           copy == Unwrapped(Paid(proof[j].copy, c), c.amount)
<1>1. Runs(j, "unwrap", copy, <<>>) /\ c.op = "unwrap"
  BY DEF RunUnwrap, Runs
<1>2. copy = Result(proof[j].copy, c)
  BY <1>1 DEF Result
<1> HIDE DEF copy
<1> QED
  BY <1>1, <1>2, CallStep

(* The AMM moves the pool on the working copy, and its two transfers take  *)
(* the place of its call.                                                  *)
LEMMA RunSwapKeeps ==
    ASSUME ChainInv, NEW j \in Jobs, RunSwap(j)
    PROVE ChainInv'
<1> DEFINE p == proof[j]
           c == Head(p.calls)
           out == Out(p.copy["pool"], c.side, c.amount)
           copy == PoolPost(p.copy, c.side, c.amount, out)
           more == <<Transfer(c.from, Vault[c.side], c.amount, c.pre),
                     Transfer(Vault[Other(c.side)], c.to, out, c.pre)>>
<1>1. Runs(j, "swap", copy, more)
  BY DEF RunSwap
<1>2. /\ p.stage = "proving" /\ p.calls # <<>> /\ c.op = "swap"
      /\ Can(p.copy, c)
      /\ proof' = [proof EXCEPT ![j].copy = copy, ![j].calls = more \o Tail(p.calls)]
      /\ UNCHANGED ledger
  BY <1>1 DEF Runs
<1>3. PICK s \in Side, k \in 0 .. 4, moved \in BOOLEAN : ProofBegan(p, s) /\ ProofAt(p, s, k, moved)
  BY <1>2, Standing DEF ProvingOK
<1>4. /\ (~moved => k <= 1) /\ IsLedger(p.copy) /\ p.copy["pool"] = PoolAfter(p, s, moved)
      /\ \A a \in Balance : p.copy[a] = p.start[a] + After(p, s, k, a)
      /\ p.calls = CallsLeft(p, s, k, moved)
  BY <1>3 DEF ProofAt
<1>5. k = 1 /\ moved = FALSE
  <2>1. CASE k = 4
    <3>1. moved = TRUE
      BY <1>4, <2>1
    <3> QED
      BY <1>2, <1>4, <2>1, <3>1 DEF CallsLeft
  <2>2. CASE k # 4 /\ (moved \/ k = 0)
    <3>1. k \in 0 .. 3
      BY <2>2
    <3>2. c = CallAt(p, s, k)
      BY <1>4, <2>2, <3>1, CallsNext
    <3>3. c.op = Op(p, s, k)
      BY <1>3, <3>1, <3>2, CallFields
    <3> QED
      BY <1>2, <3>3 DEF Op
  <2>3. CASE k # 4 /\ ~moved /\ k # 0
    BY <1>4, <2>3
  <2> QED
    BY <2>1, <2>2, <2>3
<1>6. c = SwapCall(p, s)
  BY <1>4, <1>5, SwapCallNext
<1>7. /\ c.side = s /\ c.from = Single[s] /\ c.to = Single[Other(s)] /\ c.amount = p.amount
      /\ DOMAIN c.pre = PoolAccounts
      /\ c.pre[Single[s]] = p.start[Single[s]] + p.amount
      /\ c.pre[Vault[s]] = p.start[Vault[s]]
      /\ c.pre[Vault[Other(s)]] = p.start[Vault[Other(s)]]
      /\ c.pre[Single[Other(s)]] = p.start[Single[Other(s)]]
  BY <1>3, <1>6, SwapFields
<1>8. p.copy["pool"] = p.start["pool"] /\ out = OutOf(p, s)
  BY <1>4, <1>5, <1>7 DEF PoolAfter, OutOf
<1>9. Transfer(c.from, Vault[c.side], c.amount, c.pre) = PayIn(p, s)
  <2> DEFINE view == Shifted(p.start, Single[s], p.amount)
  <2>1. view[Single[s]] = c.pre[Single[s]] /\ view[Vault[s]] = c.pre[Vault[s]]
    <3>1. /\ DOMAIN p.start = Account /\ Single[s] \in Account /\ Vault[s] \in Account
          /\ Vault[s] # Single[s]
      BY <1>3, BeganFacts, Names, Distinct
    <3>2. view[Single[s]] = p.start[Single[s]] + p.amount /\ view[Vault[s]] = p.start[Vault[s]]
      BY <3>1 DEF Shifted
    <3> QED
      BY <1>7, <3>2
  <2> HIDE DEF view
  <2>2. Given({Single[s], Vault[s]}, c.pre) = Given({Single[s], Vault[s]}, view)
    BY <2>1 DEF Given, Restrict
  <2> QED
    BY <1>7, <2>2 DEF Transfer, PayIn, view
<1>10. Transfer(Vault[Other(c.side)], c.to, out, c.pre) = PayOut(p, s)
  <2>1. Given({Vault[Other(s)], Single[Other(s)]}, c.pre) = Given({Vault[Other(s)], Single[Other(s)]}, p.start)
    BY <1>7 DEF Given, Restrict
  <2> QED
    BY <1>7, <1>8, <2>1 DEF Transfer, PayOut
<1>11. more \o Tail(p.calls) = CallsLeft(p, s, 1, TRUE)
  <2>1. <<PayIn(p, s), PayOut(p, s)>> \o Tail(CallsLeft(p, s, 1, FALSE)) = CallsLeft(p, s, 1, TRUE)
    BY SwapCallNext
  <2> HIDE DEF p, c, out
  <2>2. more = <<PayIn(p, s), PayOut(p, s)>>
    BY <1>9, <1>10
  <2>3. p.calls = CallsLeft(p, s, 1, FALSE)
    BY <1>4, <1>5, Zenon
  <2> QED
    BY <2>1, <2>2, <2>3, Zenon
<1>12. copy = [p.copy EXCEPT !["pool"] = Applied(p.start["pool"], s, p.amount, OutOf(p, s))]
  BY <1>4, <1>7, <1>8 DEF PoolPost, IsLedger, Account
<1>13. CanApply(p.start["pool"], s, p.amount, OutOf(p, s))
  BY <1>2, <1>7, <1>8 DEF Can, CanSwap
<1>14. Applied(p.start["pool"], s, p.amount, OutOf(p, s)) \in PoolDefinition
  BY <1>3, <1>13, BeganFacts, AppliedFacts
<1>15. PoolAfter(p, s, TRUE) = Applied(p.start["pool"], s, p.amount, OutOf(p, s))
  BY DEF PoolAfter
<1> DEFINE calls == more \o Tail(p.calls)
<1>16. proof' = [proof EXCEPT ![j].copy = copy, ![j].calls = calls]
  BY <1>2
<1> HIDE DEF p, c, out, more, copy, calls
<1>17. /\ IsLedger(copy)
       /\ copy["pool"] = PoolAfter(p, s, TRUE)
       /\ \A a \in Balance : copy[a] = p.start[a] + After(p, s, 1, a)
  BY <1>4, <1>5, <1>12, <1>14, <1>15, Names DEF IsLedger
<1> DEFINE mv == TRUE
<1>18. /\ mv \in BOOLEAN /\ (~mv => 1 <= 1)
       /\ copy["pool"] = PoolAfter(p, s, mv) /\ calls = CallsLeft(p, s, 1, mv)
  BY <1>11, <1>17 DEF calls
<1> DEFINE one == 1
<1>19. /\ one \in 0 .. 4 /\ (~mv => one <= 1) /\ calls = CallsLeft(p, s, one, mv)
       /\ \A a \in Balance : copy[a] = p.start[a] + After(p, s, one, a)
  BY <1>17, <1>18
<1>20. /\ proof[j].stage = "proving" /\ ProofBegan(proof[j], s)
       /\ copy["pool"] = PoolAfter(proof[j], s, mv)
       /\ \A a \in Balance : copy[a] = proof[j].start[a] + After(proof[j], s, one, a)
       /\ calls = CallsLeft(proof[j], s, one, mv)
       /\ ledger' = ledger
  BY <1>2, <1>3, <1>18, <1>19, Zenon DEF p
<1> HIDE DEF mv, one
<1> QED
  BY <1>16, <1>17, <1>18, <1>19, <1>20, Advanced

-----------------------------------------------------------------------------
(* A funded proof never aborts: the state it started from was solvent, so  *)
(* that every transfer of it finds its balance.                            *)

(* What a funded user needs of a ledger that is solvent. *)
LEMMA Enough ==
    ASSUME NEW p, NEW s \in Side, ProofBegan(p, s), p.start[p.from] >= p.amount,
           \A a \in Balance : Fits(p.start[a] + p.amount + p.start["pool"].reserve["A"]
                                     + p.start["pool"].reserve["B"])
    PROVE  /\ p.start[Vault[s]] >= p.start["pool"].reserve[s]
           /\ p.start[Vault[Other(s)]] >= OutOf(p, s)
           /\ p.to = "user_native" => \A a \in Wlez : p.start[a] >= OutOf(p, s)
           /\ \A a \in Balance : Fits(p.start[a] + p.amount) /\ Fits(p.start[a] + OutOf(p, s))
<1> DEFINE o == Other(s)
           out == OutOf(p, s)
           pool == p.start["pool"]
<1>1. /\ p.amount \in Nat /\ out \in Nat /\ out <= pool.reserve[o]
      /\ pool \in PoolDefinition /\ \A a \in Balance : p.start[a] \in Nat
      /\ p.to = "user_native" => o = WLEZ_SIDE
  BY BeganFacts DEF Amount
<1>2. /\ \A t \in Side : p.start[Vault[t]] >= pool.reserve[t]
      /\ p.start["wlez_vault"] >= p.start["wlez_definition"]
      /\ p.start["wlez_definition"] >= Circulating(p.start)
  BY DEF ProofBegan, Solvent
<1>3. pool.reserve["A"] \in Nat /\ pool.reserve["B"] \in Nat /\ out <= pool.reserve["A"] + pool.reserve["B"]
  <2>1. pool.reserve["A"] \in Amount /\ pool.reserve["B"] \in Amount /\ o \in {"A", "B"}
    BY <1>1, PoolType, Names DEF PoolDefinition, Side
  <2> HIDE DEF out, pool, o
  <2> QED
    BY <1>1, <2>1 DEF Amount
<1>4. o \in Side /\ WLEZ_SIDE \in Side
  BY Names
<1>5. \A t \in Side : pool.reserve[t] \in Nat /\ Vault[t] \in Balance /\ User[t] \in Balance /\ Single[t] \in Balance
  BY <1>1, Names, PoolType DEF Amount
<1>6. "wlez_vault" \in Balance /\ "wlez_definition" \in Balance
  BY Names
<1>7. p.start[Vault[s]] >= pool.reserve[s] /\ p.start[Vault[o]] >= out
  <2>1. p.start[Vault[o]] \in Nat /\ pool.reserve[o] \in Nat
    BY <1>1, <1>4, <1>5
  <2> HIDE DEF out, pool, o
  <2> QED
    BY <1>1, <1>2, <1>4, <2>1
<1>8. ASSUME p.to = "user_native" PROVE \A a \in Wlez : p.start[a] >= out
  <2>1. /\ p.start[User[o]] \in Nat /\ p.start[Single[o]] \in Nat /\ p.start[Vault[o]] \in Nat
        /\ p.start["wlez_vault"] \in Nat /\ p.start["wlez_definition"] \in Nat
    BY <1>1, <1>4, <1>5, <1>6
  <2>2. Circulating(p.start) = p.start[User[o]] + p.start[Single[o]] + p.start[Vault[o]]
    BY <1>1, <1>8 DEF Circulating
  <2> HIDE DEF out, pool, o
  <2> QED
    BY <1>1, <1>2, <1>7, <2>1, <2>2 DEF Wlez
<1>9. ASSUME NEW a \in Balance PROVE Fits(p.start[a] + p.amount) /\ Fits(p.start[a] + out)
  <2>1. Fits(p.start[a] + p.amount + pool.reserve["A"] + pool.reserve["B"])
    OBVIOUS
  <2>2. p.start[a] \in Nat
    BY <1>1
  <2> HIDE DEF out, pool, o
  <2> QED
    BY <1>1, <1>3, <2>1, <2>2, U128Assumption DEF Fits
<1> QED
  BY <1>7, <1>8, <1>9

(* Every call of a funded user succeeds.                                   *)
LEMMA FundedCan ==
    ASSUME NEW p, NEW s \in Side, ProofBegan(p, s), NEW k \in 0 .. 4, NEW moved \in BOOLEAN,
           ProofAt(p, s, k, moved), p.calls # <<>>,
           p.start[p.from] >= p.amount,
           \A a \in Balance : Fits(p.start[a] + p.amount + p.start["pool"].reserve["A"]
                                     + p.start["pool"].reserve["B"])
    PROVE  Can(p.copy, Head(p.calls))
<1> DEFINE o == Other(s)
           out == OutOf(p, s)
           c == Head(p.calls)
<1>1. /\ (~moved => k <= 1) /\ p.copy["pool"] = PoolAfter(p, s, moved)
      /\ \A a \in Balance : p.copy[a] = p.start[a] + After(p, s, k, a)
      /\ p.calls = CallsLeft(p, s, k, moved)
  BY DEF ProofAt
<1>2. /\ p.start[Vault[s]] >= p.start["pool"].reserve[s]
      /\ p.start[Vault[o]] >= out
      /\ p.to = "user_native" => \A a \in Wlez : p.start[a] >= out
      /\ \A a \in Balance : Fits(p.start[a] + p.amount) /\ Fits(p.start[a] + out)
  BY Enough
<1>3. /\ p.amount \in Nat \ {0} /\ out \in Nat \ {0} /\ out <= p.start["pool"].reserve[o]
      /\ \A a \in Balance : p.start[a] \in Nat
      /\ p.from \in Balance /\ p.to \in Balance
  BY BeganFacts, Names DEF Amount
<1>4. ASSUME NEW a \in Balance, After(p, s, k, a) = 0 PROVE p.copy[a] = p.start[a]
  <2>1. p.start[a] \in Nat /\ p.copy[a] = p.start[a] + 0
    BY <1>1, <1>3, <1>4
  <2> QED
    BY <2>1
<1>5. k = 4 => moved = TRUE
  BY <1>1
<1>6. k # 4
  BY <1>1, <1>5 DEF CallsLeft
<1>7. CASE moved \/ k = 0
  <2> DEFINE from == Payer(p, s, k)
             to == Payee(p, s, k)
             n == Moved(p, s, k)
  <2>1. k \in 0 .. 3 /\ c = CallAt(p, s, k)
    BY <1>1, <1>6, <1>7, CallsNext
  <2>2. /\ c.op = Op(p, s, k) /\ c.from = from /\ c.to = to /\ c.amount = n
        /\ Meets(c, p, s, k)
    BY <2>1, CallFields
  <2>3. Matches(p.copy, c)
    BY <1>1, <2>2 DEF Matches, Meets
  <2>4. from \in Balance /\ to \in Balance /\ n \in Nat \ {0} /\ p.start[from] \in Nat /\ p.start[to] \in Nat
    <3>1. from \in Balance /\ to \in Balance /\ n \in Amount \ {0}
      BY <2>1, Parties
    <3> HIDE DEF from, to, n
    <3>2. n \in Nat \ {0}
      BY <3>1 DEF Amount
    <3> QED
      BY <1>3, <3>1, <3>2
  <2>5. p.copy[from] >= n
    <3>1. p.copy[from] = p.start[from] + After(p, s, k, from)
      BY <1>1, <2>4
    <3>2. CASE k = 0
      BY <1>3, <3>1, <3>2, <2>4, AfterIs DEF Payer, Moved
    <3>3. CASE k = 1
      BY <1>3, <3>1, <3>3, <2>4, AfterIs DEF Payer, Moved
    <3>4. CASE k = 2
      BY <1>2, <1>3, <3>1, <3>4, <2>4, AfterIs DEF Payer, Moved
    <3>5. CASE k = 3
      BY <1>3, <3>1, <3>5, <2>4, AfterIs DEF Payer, Moved
    <3> QED
      BY <2>1, <3>2, <3>3, <3>4, <3>5
  <2>6. After(p, s, k, to) = 0
    BY <2>1, AfterIs DEF Payee
  <2>7. Fits(p.copy[to] + n)
    <3>1. p.copy[to] = p.start[to]
      BY <1>4, <2>4, <2>6
    <3> QED
      BY <1>2, <2>4, <3>1 DEF Moved
  <2>8. CASE Op(p, s, k) = "transfer"
    BY <2>2, <2>3, <2>5, <2>7, <2>8 DEF Can, CanTransfer
  <2>9. CASE Op(p, s, k) = "wrap"
    <3>1. k = 0 /\ from = "user_native" /\ n = p.amount
      BY <2>9 DEF Op, Payer, Moved
    <3>2. ASSUME NEW a \in Wlez PROVE Fits(p.copy[a] + n)
      <4>1. a \in Balance
        BY DEF Balance
      <4>2. After(p, s, k, a) = 0
        BY <3>1 DEF After
      <4> QED
        BY <1>2, <1>4, <3>1, <4>1, <4>2
    <3> QED
      BY <2>2, <2>3, <2>4, <2>5, <2>7, <2>9, <3>1, <3>2 DEF Can, CanWrap
  <2>10. CASE Op(p, s, k) = "unwrap"
    <3>1. k = 3 /\ to = "user_native" /\ p.to = "user_native" /\ n = out
      BY <2>10 DEF Op, Payee, Moved
    <3>2. ASSUME NEW a \in Wlez PROVE p.copy[a] >= n
      <4>1. a \in Balance
        BY DEF Balance
      <4>2. After(p, s, k, a) = 0
        BY <3>1, AfterIs
      <4>3. p.copy[a] = p.start[a]
        BY <1>4, <4>1, <4>2
      <4> QED
        BY <1>2, <3>1, <4>3
    <3> QED
      BY <2>2, <2>3, <2>4, <2>5, <2>7, <2>10, <3>1, <3>2 DEF Can, CanUnwrap
  <2> QED
    BY <2>8, <2>9, <2>10 DEF Op
<1>8. CASE ~moved /\ k # 0
  <2>1. moved = FALSE /\ k = 1
    BY <1>1, <1>8
  <2>2. c = SwapCall(p, s)
    BY <1>1, <2>1, SwapCallNext
  <2>3. /\ c.op = "swap" /\ c.side = s /\ c.limit = p.limit /\ c.amount = p.amount
        /\ DOMAIN c.pre = PoolAccounts
        /\ c.pre["pool"] = p.start["pool"]
        /\ c.pre[Single[s]] = p.start[Single[s]] + p.amount
        /\ c.pre[Vault[s]] = p.start[Vault[s]]
        /\ c.pre[Vault[o]] = p.start[Vault[o]]
        /\ c.pre[Single[o]] = p.start[Single[o]]
    BY <2>2, SwapFields
  <2>4. Vault[s] \in Balance /\ Vault[o] \in Balance /\ Single[s] \in Balance /\ Single[o] \in Balance
    BY Names
  <2>5. /\ p.copy["pool"] = p.start["pool"]
        /\ p.copy[Single[s]] = p.start[Single[s]] + p.amount
        /\ p.copy[Vault[s]] = p.start[Vault[s]]
        /\ p.copy[Vault[o]] = p.start[Vault[o]]
        /\ p.copy[Single[o]] = p.start[Single[o]]
    <3>1. /\ After(p, s, k, Single[s]) = p.amount /\ After(p, s, k, Vault[s]) = 0
          /\ After(p, s, k, Vault[o]) = 0 /\ After(p, s, k, Single[o]) = 0
      BY <2>1, AfterIs
    <3>2. p.copy["pool"] = p.start["pool"]
      BY <1>1, <2>1 DEF PoolAfter
    <3> QED
      BY <1>1, <1>4, <2>4, <3>1, <3>2
  <2>6. Matches(p.copy, c)
    BY <2>3, <2>5, Names DEF Matches
  <2>7. \A t \in Side : p.copy[Vault[t]] >= p.copy["pool"].reserve[t]
    BY <2>5, Names DEF ProofBegan, Solvent
  <2>8. Quote(p.copy["pool"], c.side, c.amount, c.limit)
    BY <2>3, <2>5 DEF ProofBegan
  <2>9. CanApply(p.copy["pool"], c.side, c.amount, Out(p.copy["pool"], c.side, c.amount))
    <3>1. Out(p.copy["pool"], c.side, c.amount) = out
      BY <2>3, <2>5 DEF OutOf
    <3>2. p.start["pool"].reserve[s] \in Nat /\ p.start["pool"].reserve[o] \in Nat /\ p.start[Vault[s]] \in Nat
      BY <1>3, <2>4, BeganFacts, PoolType DEF Amount
    <3>3. Fits(p.start[Vault[s]] + p.amount)
      BY <1>2, <2>4
    <3>4. Fits(p.start["pool"].reserve[s] + p.amount)
      BY <1>2, <1>3, <3>2, <3>3, U128Assumption DEF Fits
    <3>5. p.start["pool"].reserve[o] >= out
      BY <1>3, <3>2
    <3> QED
      BY <2>3, <2>5, <3>1, <3>4, <3>5 DEF CanApply
  <2> QED
    BY <2>3, <2>6, <2>7, <2>8, <2>9 DEF Can, CanSwap
<1> QED
  BY <1>7, <1>8

(* So that a proof ends early for want of funds only.                      *)
LEMMA AbortKeeps ==
    ASSUME ChainInv, NEW j \in Jobs, Abort(j)
    PROVE ChainInv'
<1> DEFINE p == proof[j]
<1>1. /\ p.stage = "proving" /\ p.calls # <<>> /\ ~Can(p.copy, Head(p.calls))
      /\ proof' = [proof EXCEPT ![j].stage = "aborted"]
      /\ UNCHANGED ledger
  BY DEF Abort
<1>2. PICK s \in Side, k \in 0 .. 4, moved \in BOOLEAN : ProofBegan(p, s) /\ ProofAt(p, s, k, moved)
  BY <1>1, Standing DEF ProvingOK
<1>3. ~Funded(j)
  BY <1>1, <1>2, FundedCan DEF Funded
<1>4. DOMAIN p = ProofFields /\ DOMAIN proof = Jobs
  BY <1>2 DEF ProofBegan, ChainInv
<1>5. PICK q : q = [p EXCEPT !.stage = "aborted"]
  OBVIOUS
<1>6. /\ proof' = [proof EXCEPT ![j] = q] /\ proof'[j] = q
  BY <1>1, <1>4, <1>5
<1>7. q.stage = "aborted" /\ q.start = p.start /\ q.amount = p.amount /\ q.from = p.from
  BY <1>4, <1>5 DEF ProofFields
<1>8. ProofOK(j)'
  BY <1>3, <1>6, <1>7 DEF ProofOK, Funded
<1>9. IsLedger(ledger)' /\ Solvent(ledger)'
  BY <1>1 DEF ChainInv, IsLedger, Solvent, Circulating
<1> QED
  BY <1>6, <1>8, <1>9, OneProofChanges

-----------------------------------------------------------------------------
(* Inclusion: the ledger has what the proof read, so that what the proof   *)
(* moved is moved in the ledger.                                           *)

(* A swap that starts from a solvent ledger leaves one. *)
LEMMA SwapKeepsSolvent ==
    ASSUME NEW p, NEW s \in Side, ProofBegan(p, s), NEW l, IsLedger(l), Solvent(l), NEW new, IsLedger(new),
           \A a \in Balance : new[a] = l[a] + After(p, s, 4, a),
           new["pool"].reserve[s] = l["pool"].reserve[s] + p.amount,
           new["pool"].reserve[Other(s)] = l["pool"].reserve[Other(s)] - OutOf(p, s)
    PROVE  Solvent(new)
<1> DEFINE o == Other(s)
           out == OutOf(p, s)
           W == WLEZ_SIDE
<1>1. /\ p.amount \in Nat /\ out \in Nat
      /\ p.from \in {User[s], "user_native"} /\ p.to \in {User[o], "user_native"}
      /\ (p.from = "user_native" => s = W)
      /\ (p.to = "user_native" => o = W)
      /\ p.from # p.to
  BY BeganFacts DEF Amount
<1>2. /\ o \in Side /\ o # s /\ \A t \in Side : t = s \/ t = o
      /\ W = s \/ W = o
  BY Names
<1>3. /\ \A t \in Side : User[t] \in Balance /\ Single[t] \in Balance /\ Vault[t] \in Balance
      /\ "wlez_vault" \in Balance /\ "wlez_definition" \in Balance
      /\ "wlez_vault" \in Wlez /\ "wlez_definition" \in Wlez
  BY Names
<1>4. \A a \in Balance : l[a] \in Nat
  BY DEF IsLedger, Amount
<1>5. \A t \in Side : l["pool"].reserve[t] \in Nat
  BY PoolType DEF IsLedger, Amount
<1>6. /\ l[Vault[s]] >= l["pool"].reserve[s] /\ l[Vault[o]] >= l["pool"].reserve[o]
      /\ l["wlez_vault"] >= l["wlez_definition"]
      /\ l["wlez_definition"] >= l[User[W]] + l[Single[W]] + l[Vault[W]]
  BY <1>2 DEF Solvent, Circulating
<1>7. /\ After(p, s, 4, p.from) = 0 - p.amount
      /\ After(p, s, 4, p.to) = out
      /\ After(p, s, 4, Single[s]) = 0
      /\ After(p, s, 4, Single[o]) = 0
      /\ After(p, s, 4, Vault[s]) = p.amount
      /\ After(p, s, 4, Vault[o]) = 0 - out
      /\ p.from = "user_native" => \A a \in Wlez : After(p, s, 4, a) = p.amount
      /\ p.to = "user_native" => \A a \in Wlez : After(p, s, 4, a) = 0 - out
      /\ p.from # "user_native" /\ p.to # "user_native" => \A a \in Wlez : After(p, s, 4, a) = 0
  BY AfterIs
<1>8. /\ User[s] # p.from => After(p, s, 4, User[s]) = 0
      /\ User[o] # p.to => After(p, s, 4, User[o]) = 0
  BY <1>1, Names, Distinct, AfterIs
<1>9. /\ new[Vault[s]] = l[Vault[s]] + p.amount
      /\ new[Vault[o]] = l[Vault[o]] + (0 - out)
  BY <1>2, <1>3, <1>7
<1>10. \A t \in Side : new[Vault[t]] >= new["pool"].reserve[t]
  <2>1. new[Vault[s]] >= new["pool"].reserve[s]
    <3>1. l[Vault[s]] \in Nat /\ l["pool"].reserve[s] \in Nat
      BY <1>3, <1>4, <1>5
    <3> QED
      BY <1>1, <1>6, <1>9, <3>1
  <2>2. new[Vault[o]] >= new["pool"].reserve[o]
    <3>1. l[Vault[o]] \in Nat /\ l["pool"].reserve[o] \in Nat
      BY <1>2, <1>3, <1>4, <1>5
    <3> QED
      BY <1>1, <1>6, <1>9, <3>1
  <2> QED
    BY <1>2, <2>1, <2>2
<1>11. /\ new["wlez_vault"] >= new["wlez_definition"]
       /\ new["wlez_definition"] >= new[User[W]] + new[Single[W]] + new[Vault[W]]
  <2>1. /\ l[User[W]] \in Nat /\ l[Single[W]] \in Nat /\ l[Vault[W]] \in Nat
        /\ l["wlez_vault"] \in Nat /\ l["wlez_definition"] \in Nat
    BY <1>2, <1>3, <1>4
  <2>2. /\ new[User[W]] = l[User[W]] + After(p, s, 4, User[W])
        /\ new[Single[W]] = l[Single[W]] + 0
        /\ new[Vault[W]] = l[Vault[W]] + After(p, s, 4, Vault[W])
        /\ new["wlez_vault"] = l["wlez_vault"] + After(p, s, 4, "wlez_vault")
        /\ new["wlez_definition"] = l["wlez_definition"] + After(p, s, 4, "wlez_definition")
    BY <1>2, <1>3, <1>7
  <2>3. CASE p.from = "user_native"
    <3>1. W = s /\ User[s] # p.from
      BY <1>1, <2>3, Distinct
    <3>2. /\ After(p, s, 4, User[W]) = 0 /\ After(p, s, 4, Vault[W]) = p.amount
          /\ After(p, s, 4, "wlez_vault") = p.amount /\ After(p, s, 4, "wlez_definition") = p.amount
      BY <1>3, <1>7, <1>8, <2>3, <3>1
    <3> HIDE DEF W, o, out
    <3> QED
      BY <1>1, <1>6, <2>1, <2>2, <3>2
  <2>4. CASE p.to = "user_native"
    <3>1. W = o /\ User[o] # p.to
      BY <1>1, <2>4, Names, Distinct
    <3>2. /\ After(p, s, 4, User[W]) = 0 /\ After(p, s, 4, Vault[W]) = 0 - out
          /\ After(p, s, 4, "wlez_vault") = 0 - out /\ After(p, s, 4, "wlez_definition") = 0 - out
      BY <1>3, <1>7, <1>8, <2>4, <3>1
    <3> HIDE DEF W, o, out
    <3> QED
      BY <1>1, <1>6, <2>1, <2>2, <3>2
  <2>5. CASE p.from # "user_native" /\ p.to # "user_native"
    <3>1. p.from = User[s] /\ p.to = User[o]
      BY <1>1, <2>5
    <3>2. After(p, s, 4, "wlez_vault") = 0 /\ After(p, s, 4, "wlez_definition") = 0
      BY <1>3, <1>7, <2>5
    <3>3. CASE W = s
      <4>1. After(p, s, 4, User[W]) = 0 - p.amount /\ After(p, s, 4, Vault[W]) = p.amount
        BY <1>7, <3>1, <3>3
      <4> HIDE DEF W, o, out
      <4> QED
        BY <1>1, <1>6, <2>1, <2>2, <3>2, <4>1
    <3>4. CASE W = o
      <4>1. After(p, s, 4, User[W]) = out /\ After(p, s, 4, Vault[W]) = 0 - out
        BY <1>7, <3>1, <3>4
      <4> HIDE DEF W, o, out
      <4> QED
        BY <1>1, <1>6, <2>1, <2>2, <3>2, <4>1
    <3> QED
      BY <1>2, <3>3, <3>4
  <2> QED
    BY <2>3, <2>4, <2>5
<1> QED
  BY <1>10, <1>11 DEF Solvent, Circulating

(* What a proof that is included has made of the ledger. *)
LEMMA Included ==
    ASSUME ChainInv, NEW j \in Jobs, Include(j)
    PROVE  \E s \in Side :
              /\ ProofBegan(proof[j], s)
              /\ OutOf(proof[j], s) = Out(ledger["pool"], s, proof[j].amount)
              /\ IsLedger(ledger')
              /\ CanApply(ledger["pool"], s, proof[j].amount, OutOf(proof[j], s))
              /\ ledger'["pool"] = Applied(ledger["pool"], s, proof[j].amount, OutOf(proof[j], s))
              /\ \A a \in Balance : ledger'[a] = ledger[a] + After(proof[j], s, 4, a)
<1> DEFINE p == proof[j]
<1>1. /\ p.stage = "proving" /\ p.calls = <<>>
      /\ \A a \in p.accounts : ledger[a] = p.start[a]
      /\ ledger' = [a \in Account |-> IF a \in p.accounts THEN p.copy[a] ELSE ledger[a]]
  BY DEF Include, Proved, Fresh
<1>2. PICK s \in Side, k \in 0 .. 4, moved \in BOOLEAN : ProofBegan(p, s) /\ ProofAt(p, s, k, moved)
  BY <1>1, Standing DEF ProvingOK
<1>3. /\ (~moved => k <= 1) /\ p.copy["pool"] = PoolAfter(p, s, moved) /\ IsLedger(p.copy)
      /\ \A a \in Balance : p.copy[a] = p.start[a] + After(p, s, k, a)
      /\ p.calls = CallsLeft(p, s, k, moved)
  BY <1>2 DEF ProofAt
<1>4. k = 4 /\ moved = TRUE
  <2>1. CASE moved \/ k = 0
    <3>1. k = 4
      <4> SUFFICES ASSUME k # 4 PROVE FALSE
        OBVIOUS
      <4>1. k \in 0 .. 3
        OBVIOUS
      <4>2. CallsLeft(p, s, k, moved) # <<>>
        BY <2>1, <4>1, CallsNext, Zenon
      <4> QED
        BY <1>1, <1>3, <4>2
    <3> QED
      BY <1>3, <3>1
  <2>2. CASE ~moved /\ k # 0
    <3>1. moved = FALSE /\ k = 1
      BY <1>3, <2>2
    <3> QED
      BY <1>1, <1>3, <3>1, SwapCallNext
  <2> QED
    BY <2>1, <2>2
<1>5. p.accounts = PoolAccounts \cup {p.from, p.to}
                     \cup (IF "user_native" \in {p.from, p.to} THEN Wlez ELSE {})
  BY <1>2 DEF ProofBegan
<1>6. /\ "pool" \in p.accounts /\ ledger["pool"] = p.start["pool"]
      /\ ledger'["pool"] = p.copy["pool"]
  BY <1>1, <1>5, Names
<1>7. /\ ledger'["pool"] = Applied(ledger["pool"], s, p.amount, OutOf(p, s))
      /\ OutOf(p, s) = Out(ledger["pool"], s, p.amount)
  BY <1>3, <1>4, <1>6 DEF PoolAfter, OutOf
<1>8. IsLedger(ledger)
  BY DEF ChainInv
<1>9. ASSUME NEW a \in Balance
      PROVE  ledger'[a] = ledger[a] + After(p, s, 4, a)
  <2>1. a \in Account /\ ledger[a] \in Nat
    BY <1>8, Names DEF IsLedger, Amount
  <2>2. CASE a \in p.accounts
    BY <1>1, <1>3, <1>4, <2>1, <2>2
  <2>3. CASE a \notin p.accounts
    <3>1. After(p, s, 4, a) = 0
      BY <1>2, <1>5, <2>3, Names, AfterIs
    <3>2. ledger'[a] = ledger[a]
      BY <1>1, <2>1, <2>3
    <3> QED
      BY <2>1, <3>1, <3>2
  <2> QED
    BY <2>2, <2>3
<1>10. IsLedger(ledger')
  <2>1. DOMAIN ledger' = Account
    BY <1>1
  <2>2. \A a \in Account : ledger'[a] = p.copy[a] \/ ledger'[a] = ledger[a]
    BY <1>1
  <2> QED
    BY <1>3, <1>6, <1>8, <2>1, <2>2, Names DEF IsLedger
<1>11. CanApply(ledger["pool"], s, p.amount, OutOf(p, s))
  <2>1. /\ ledger["pool"] \in PoolDefinition /\ ledger'["pool"] \in PoolDefinition
        /\ p.amount \in Amount /\ OutOf(p, s) \in Amount
    BY <1>2, <1>8, <1>10, BeganFacts DEF IsLedger
  <2>2. /\ ledger'["pool"].reserve[s] = ledger["pool"].reserve[s] + p.amount
        /\ ledger'["pool"].reserve[Other(s)] = ledger["pool"].reserve[Other(s)] - OutOf(p, s)
    BY <1>7, <2>1, Names DEF Applied, PoolDefinition
  <2>3. /\ ledger'["pool"].reserve[s] \in Amount /\ ledger'["pool"].reserve[Other(s)] \in Amount
        /\ ledger["pool"].reserve[s] \in Amount /\ ledger["pool"].reserve[Other(s)] \in Amount
    BY <2>1, PoolType
  <2> QED
    BY <2>1, <2>2, <2>3, U128Assumption DEF CanApply, Fits, Amount
<1> QED
  BY <1>2, <1>7, <1>9, <1>10, <1>11

(* What the sequencer includes is a solvent ledger again.                  *)
LEMMA IncludeKeeps ==
    ASSUME ChainInv, NEW j \in Jobs, Include(j)
    PROVE ChainInv'
<1> DEFINE p == proof[j]
<1>1. PICK s \in Side :
         /\ ProofBegan(p, s)
         /\ IsLedger(ledger')
         /\ CanApply(ledger["pool"], s, p.amount, OutOf(p, s))
         /\ ledger'["pool"] = Applied(ledger["pool"], s, p.amount, OutOf(p, s))
         /\ \A a \in Balance : ledger'[a] = ledger[a] + After(p, s, 4, a)
  BY Included
<1>2. IsLedger(ledger) /\ Solvent(ledger) /\ DOMAIN proof = Jobs
  BY DEF ChainInv
<1>3. /\ ledger'["pool"].reserve[s] = ledger["pool"].reserve[s] + p.amount
      /\ ledger'["pool"].reserve[Other(s)] = ledger["pool"].reserve[Other(s)] - OutOf(p, s)
  <2>1. ledger["pool"] \in PoolDefinition /\ p.amount \in Amount /\ OutOf(p, s) \in Amount
    BY <1>1, <1>2, BeganFacts DEF IsLedger
  <2> QED
    BY <1>1, <2>1, AppliedFacts
<1>4. Solvent(ledger')
  BY <1>1, <1>2, <1>3, SwapKeepsSolvent
<1>5. proof' = [proof EXCEPT ![j] = Over] /\ proof'[j] = Over
  BY <1>2 DEF Include
<1>6. ProofOK(j)'
  BY <1>5 DEF ProofOK
<1>7. IsLedger(ledger)' /\ Solvent(ledger)'
  BY <1>1, <1>4 DEF IsLedger, Solvent, Circulating
<1> QED
  BY <1>5, <1>6, <1>7, OneProofChanges

(* The pool's part of a swap, account by account. *)
LEMMA SwappedIs ==
    ASSUME NEW l, IsLedger(l), NEW s \in Side, NEW n \in Nat, NEW out \in Nat
    PROVE  LET f == Swapped(l, s, n, out)
           IN  /\ DOMAIN f = Account
               /\ f["pool"] = Applied(l["pool"], s, n, out)
               /\ f[Vault[s]] = l[Vault[s]] + n
               /\ f[Vault[Other(s)]] = l[Vault[Other(s)]] - out
               /\ \A a \in Balance \ {Vault[s], Vault[Other(s)]} : f[a] = l[a]
<1>1. DOMAIN l = Account /\ Vault[s] # "pool" /\ Vault[Other(s)] # "pool" /\ Vault[s] # Vault[Other(s)]
  BY Distinct DEF IsLedger
<1>2. /\ Vault[s] \in Account /\ Vault[Other(s)] \in Account /\ "pool" \in Account
      /\ Balance \subseteq Account /\ "pool" \notin Balance
  BY Names
<1> QED
  BY <1>1, <1>2 DEF Swapped

(* Two ledgers with the same accounts are the same ledger. *)
LEMMA SameLedger ==
    ASSUME NEW f, NEW g, NEW S, DOMAIN f = S, DOMAIN g = S, f = [a \in S |-> f[a]], g = [a \in S |-> g[a]],
           \A a \in S : f[a] = g[a]
    PROVE  f = g
  OBVIOUS

(* What is included is one whole swap on the ledger that it meets.         *)
LEMMA IncludeIsSwap ==
    ASSUME ChainInv, NEW j \in Jobs, Include(j)
    PROVE WholeSwap
<1> DEFINE p == proof[j]
           W == WLEZ_SIDE
<1>1. PICK s \in Side :
         /\ ProofBegan(p, s)
         /\ OutOf(p, s) = Out(ledger["pool"], s, p.amount)
         /\ IsLedger(ledger')
         /\ ledger'["pool"] = Applied(ledger["pool"], s, p.amount, OutOf(p, s))
         /\ \A a \in Balance : ledger'[a] = ledger[a] + After(p, s, 4, a)
  BY Included
<1> DEFINE o == Other(s)
           out == OutOf(p, s)
           n == p.amount
<1>2. IsLedger(ledger) /\ DOMAIN ledger = Account
  BY DEF ChainInv, IsLedger
<1>3. /\ n \in Amounts /\ n \in Nat /\ out \in Nat
      /\ p.from \in {User[s], "user_native"} /\ p.to \in {User[o], "user_native"}
      /\ (p.from = "user_native" => s = W)
      /\ (p.to = "user_native" => o = W)
      /\ p.from # p.to
  BY <1>1, BeganFacts DEF ProofBegan, Amount
<1>4. /\ o \in Side /\ o # s /\ W \in Side /\ Other(o) = s
      /\ Balance = {User[s], User[o], Single[s], Single[o], Vault[s], Vault[o],
                    "user_native", "wlez_vault", "wlez_definition"}
      /\ Account = Balance \cup {"pool"} /\ "pool" \notin Balance
      /\ Wlez = {"wlez_vault", "wlez_definition"}
  BY Names
<1>5. /\ After(p, s, 4, p.from) = 0 - n
      /\ After(p, s, 4, p.to) = out
      /\ After(p, s, 4, Single[s]) = 0 /\ After(p, s, 4, Single[o]) = 0
      /\ After(p, s, 4, Vault[s]) = n /\ After(p, s, 4, Vault[o]) = 0 - out
      /\ p.from = "user_native" => \A a \in Wlez : After(p, s, 4, a) = n
      /\ p.to = "user_native" => \A a \in Wlez : After(p, s, 4, a) = 0 - out
      /\ p.from # "user_native" /\ p.to # "user_native" => \A a \in Wlez : After(p, s, 4, a) = 0
      /\ User[s] # p.from => After(p, s, 4, User[s]) = 0
      /\ User[o] # p.to => After(p, s, 4, User[o]) = 0
      /\ "user_native" \notin {p.from, p.to} => After(p, s, 4, "user_native") = 0
  BY <1>1, <1>3, <1>4, Distinct, AfterIs
<1>6. ASSUME NEW a \in Balance
      PROVE  /\ After(p, s, 4, a) = 0 => ledger'[a] = ledger[a]
             /\ After(p, s, 4, a) = n => ledger'[a] = ledger[a] + n
             /\ After(p, s, 4, a) = 0 - n => ledger'[a] = ledger[a] - n
             /\ After(p, s, 4, a) = out => ledger'[a] = ledger[a] + out
             /\ After(p, s, 4, a) = 0 - out => ledger'[a] = ledger[a] - out
  <2>1. ledger'[a] = ledger[a] + After(p, s, 4, a) /\ ledger[a] \in Nat
    BY <1>1, <1>2 DEF IsLedger, Amount
  <2> HIDE DEF n, out
  <2>2. \A x \in Nat : x + 0 = x /\ x + (0 - n) = x - n /\ x + (0 - out) = x - out
    BY <1>3
  <2> QED
    BY <2>1, <2>2
<1>7. /\ DOMAIN ledger' = Account /\ ledger' = [a \in Account |-> ledger'[a]]
  BY DEF Include
<1> DEFINE f == Swapped(ledger, s, n, out)
<1>8. /\ DOMAIN f = Account
      /\ f["pool"] = Applied(ledger["pool"], s, n, out)
      /\ f[Vault[s]] = ledger[Vault[s]] + n
      /\ f[Vault[o]] = ledger[Vault[o]] - out
      /\ \A a \in Balance \ {Vault[s], Vault[o]} : f[a] = ledger[a]
  BY <1>2, <1>3, SwappedIs
<1>9. /\ \A a \in {User[s], User[o], Single[s], Single[o], Vault[s], Vault[o]} :
            a \notin {"user_native", "wlez_vault", "wlez_definition", "pool"}
      /\ User[s] \notin {User[o], Single[s], Single[o], Vault[s], Vault[o]}
      /\ User[o] \notin {Single[s], Single[o], Vault[s], Vault[o]}
      /\ Single[s] \notin {Single[o], Vault[s], Vault[o]}
      /\ Single[o] \notin {Vault[s], Vault[o]}
      /\ Vault[s] # Vault[o]
  BY Distinct
<1>10. CASE p.from # "user_native" /\ p.to # "user_native"
  <2> DEFINE g == [f EXCEPT ![User[s]] = @ - n, ![User[o]] = @ + out]
  <2>1. p.from = User[s] /\ p.to = User[o]
    BY <1>3, <1>10
  <2> HIDE DEF f
  <2>2. /\ DOMAIN g = Account /\ g = [a \in Account |-> g[a]]
        /\ g[User[s]] = ledger[User[s]] - n
        /\ g[User[o]] = ledger[User[o]] + out
        /\ \A a \in Account \ {User[s], User[o]} : g[a] = f[a]
    BY <1>4, <1>8, <1>9
  <2> HIDE DEF g
  <2>3. \A a \in Account : ledger'[a] = g[a]
    <3> SUFFICES ASSUME NEW a \in Account PROVE ledger'[a] = g[a]
      OBVIOUS
    <3>1. CASE a = "pool"
      BY <1>1, <1>4, <1>8, <1>9, <2>2, <3>1
    <3>2. CASE a \in {User[s], User[o], Vault[s], Vault[o]}
      <4>1. CASE a = User[s]
        BY <1>4, <1>5, <1>6, <2>1, <2>2, <4>1
      <4>2. CASE a = User[o]
        BY <1>4, <1>5, <1>6, <2>1, <2>2, <4>2
      <4>3. CASE a = Vault[s]
        <5>1. g[a] = ledger[a] + n
          BY <1>4, <1>8, <1>9, <2>2, <4>3
        <5> QED
          BY <1>4, <1>5, <1>6, <4>3, <5>1
      <4>4. CASE a = Vault[o]
        <5>1. g[a] = ledger[a] - out
          BY <1>4, <1>8, <1>9, <2>2, <4>4
        <5> QED
          BY <1>4, <1>5, <1>6, <4>4, <5>1
      <4> QED
        BY <3>2, <4>1, <4>2, <4>3, <4>4
    <3>3. CASE a \in {Single[s], Single[o], "user_native", "wlez_vault", "wlez_definition"}
      <4>1. After(p, s, 4, a) = 0
        BY <1>4, <1>5, <1>10, <3>3
      <4>2. ledger'[a] = ledger[a]
        BY <1>4, <1>6, <3>3, <4>1
      <4>3. g[a] = f[a] /\ f[a] = ledger[a]
        BY <1>4, <1>8, <1>9, <2>2, <3>3
      <4> QED
        BY <4>2, <4>3
    <3> QED
      BY <1>4, <3>1, <3>2, <3>3
  <2>4. ledger' = g
    BY <1>7, <2>2, <2>3, SameLedger
  <2>5. TokenSwap(s, n, out)
    BY <2>4 DEF TokenSwap, g, f
  <2> QED
    BY <1>1, <1>3, <2>5 DEF WholeSwap
<1>11. CASE p.from = "user_native"
  <2> DEFINE h == Wrapped(f, n)
             g == [h EXCEPT !["user_native"] = @ - n, ![User[o]] = @ + out]
  <2>1. s = W /\ p.to = User[o] /\ User[s] # p.from
    BY <1>3, <1>9, <1>11
  <2> HIDE DEF f
  <2>2. /\ DOMAIN h = Account
        /\ \A a \in Wlez : h[a] = f[a] + n
        /\ \A a \in Account \ Wlez : h[a] = f[a]
    BY <1>4, <1>8 DEF Wrapped
  <2> HIDE DEF h
  <2>3. /\ DOMAIN g = Account /\ g = [a \in Account |-> g[a]]
        /\ g["user_native"] = h["user_native"] - n
        /\ g[User[o]] = h[User[o]] + out
        /\ \A a \in Account \ {"user_native", User[o]} : g[a] = h[a]
    BY <1>4, <1>9, <2>2
  <2> HIDE DEF g
  <2>4. \A a \in Account : ledger'[a] = g[a]
    <3> SUFFICES ASSUME NEW a \in Account PROVE ledger'[a] = g[a]
      OBVIOUS
    <3>1. CASE a = "pool"
      BY <1>1, <1>4, <1>8, <1>9, <2>2, <2>3, <3>1
    <3>2. CASE a = "user_native"
      <4>1. g[a] = ledger[a] - n
        BY <1>4, <1>8, <1>9, <2>2, <2>3, <3>2
      <4> QED
        BY <1>4, <1>5, <1>6, <1>11, <3>2, <4>1
    <3>3. CASE a = User[o]
      <4>1. g[a] = ledger[a] + out
        BY <1>4, <1>8, <1>9, <2>2, <2>3, <3>3
      <4> QED
        BY <1>4, <1>5, <1>6, <2>1, <3>3, <4>1
    <3>4. CASE a \in {Vault[s], Vault[o]}
      <4>1. a \in Account \ Wlez /\ a \in Account \ {"user_native", User[o]} /\ a \in Balance
        BY <1>4, <1>9, <3>4
      <4>2. g[a] = f[a]
        BY <2>2, <2>3, <4>1
      <4>3. CASE a = Vault[s]
        BY <1>5, <1>6, <1>8, <4>1, <4>2, <4>3
      <4>4. CASE a = Vault[o]
        BY <1>5, <1>6, <1>8, <4>1, <4>2, <4>4
      <4> QED
        BY <3>4, <4>3, <4>4
    <3>5. CASE a \in Wlez
      <4>1. /\ a \in Account \ {"user_native", User[o]}
            /\ a \in Balance \ {Vault[s], Vault[o]}
        BY <1>4, <1>9, <3>5
      <4>2. g[a] = ledger[a] + n
        BY <1>8, <2>2, <2>3, <3>5, <4>1
      <4> QED
        BY <1>5, <1>6, <1>11, <3>5, <4>1, <4>2
    <3>6. CASE a \in {User[s], Single[s], Single[o]}
      <4>1. After(p, s, 4, a) = 0
        BY <1>5, <2>1, <3>6
      <4>2. ledger'[a] = ledger[a]
        BY <1>4, <1>6, <3>6, <4>1
      <4>3. g[a] = h[a] /\ h[a] = f[a] /\ f[a] = ledger[a]
        BY <1>4, <1>8, <1>9, <2>2, <2>3, <3>6
      <4> QED
        BY <4>2, <4>3
    <3> QED
      BY <1>4, <3>1, <3>2, <3>3, <3>4, <3>5, <3>6
  <2>5. ledger' = g
    BY <1>7, <2>3, <2>4, SameLedger
  <2>6. s = WLEZ_SIDE /\ NativeInSwap(n, out)
    BY <2>1, <2>5 DEF NativeInSwap, g, h, f
  <2> QED
    BY <1>1, <1>3, <2>6 DEF WholeSwap
<1>12. CASE p.to = "user_native"
  <2> DEFINE h == Unwrapped(f, out)
             g == [h EXCEPT ![User[s]] = @ - n, !["user_native"] = @ + out]
  <2>1. o = W /\ s = Other(W) /\ p.from = User[s] /\ User[o] # p.to /\ s # W
    BY <1>3, <1>4, <1>9, <1>12
  <2> HIDE DEF f
  <2>2. /\ DOMAIN h = Account
        /\ \A a \in Wlez : h[a] = f[a] - out
        /\ \A a \in Account \ Wlez : h[a] = f[a]
    BY <1>4, <1>8 DEF Unwrapped
  <2> HIDE DEF h
  <2>3. /\ DOMAIN g = Account /\ g = [a \in Account |-> g[a]]
        /\ g["user_native"] = h["user_native"] + out
        /\ g[User[s]] = h[User[s]] - n
        /\ \A a \in Account \ {"user_native", User[s]} : g[a] = h[a]
    BY <1>4, <1>9, <2>2
  <2> HIDE DEF g
  <2>4. \A a \in Account : ledger'[a] = g[a]
    <3> SUFFICES ASSUME NEW a \in Account PROVE ledger'[a] = g[a]
      OBVIOUS
    <3>1. CASE a = "pool"
      BY <1>1, <1>4, <1>8, <1>9, <2>2, <2>3, <3>1
    <3>2. CASE a = "user_native"
      <4>1. g[a] = ledger[a] + out
        BY <1>4, <1>8, <1>9, <2>2, <2>3, <3>2
      <4> QED
        BY <1>4, <1>5, <1>6, <1>12, <3>2, <4>1
    <3>3. CASE a = User[s]
      <4>1. g[a] = ledger[a] - n
        BY <1>4, <1>8, <1>9, <2>2, <2>3, <3>3
      <4> QED
        BY <1>4, <1>5, <1>6, <2>1, <3>3, <4>1
    <3>4. CASE a \in {Vault[s], Vault[o]}
      <4>1. a \in Account \ Wlez /\ a \in Account \ {"user_native", User[s]} /\ a \in Balance
        BY <1>4, <1>9, <3>4
      <4>2. g[a] = f[a]
        BY <2>2, <2>3, <4>1
      <4>3. CASE a = Vault[s]
        BY <1>5, <1>6, <1>8, <4>1, <4>2, <4>3
      <4>4. CASE a = Vault[o]
        BY <1>5, <1>6, <1>8, <4>1, <4>2, <4>4
      <4> QED
        BY <3>4, <4>3, <4>4
    <3>5. CASE a \in Wlez
      <4>1. /\ a \in Account \ {"user_native", User[s]}
            /\ a \in Balance \ {Vault[s], Vault[o]}
        BY <1>4, <1>9, <3>5
      <4>2. g[a] = ledger[a] - out
        BY <1>8, <2>2, <2>3, <3>5, <4>1
      <4> QED
        BY <1>5, <1>6, <1>12, <3>5, <4>1, <4>2
    <3>6. CASE a \in {User[o], Single[s], Single[o]}
      <4>1. After(p, s, 4, a) = 0
        BY <1>5, <2>1, <3>6
      <4>2. ledger'[a] = ledger[a]
        BY <1>4, <1>6, <3>6, <4>1
      <4>3. g[a] = h[a] /\ h[a] = f[a] /\ f[a] = ledger[a]
        BY <1>4, <1>8, <1>9, <2>2, <2>3, <3>6
      <4> QED
        BY <4>2, <4>3
    <3> QED
      BY <1>4, <3>1, <3>2, <3>3, <3>4, <3>5, <3>6
  <2>5. ledger' = g
    BY <1>7, <2>3, <2>4, SameLedger
  <2>6. s # WLEZ_SIDE /\ NativeOutSwap(n, out)
    BY <2>1, <2>5 DEF NativeOutSwap, g, h, f
  <2> QED
    BY <1>1, <1>3, <2>6 DEF WholeSwap
<1> QED
  BY <1>10, <1>11, <1>12

-----------------------------------------------------------------------------
(* The swaps, liquidity, wraps and transfers of others.                    *)

(* What others do keeps the ledger solvent.                                *)
LEMMA OthersKeepLedger ==
    ASSUME IsLedger(ledger), Solvent(ledger), OthersStep
    PROVE  IsLedger(ledger') /\ Solvent(ledger')
<1> DEFINE W == WLEZ_SIDE
           l == ledger
<1>1. /\ \A a \in Balance : l[a] \in Nat /\ l[a] \in Amount
      /\ l["pool"] \in PoolDefinition /\ DOMAIN l = Account
      /\ U128_MAX \in Nat
  BY U128Assumption DEF IsLedger, Amount
<1>2. /\ W \in Side
      /\ \A t \in Side : User[t] \in Balance /\ Single[t] \in Balance /\ Vault[t] \in Balance
                          /\ Other(t) \in Side /\ Other(t) # t
                          /\ \A u \in Side : u = t \/ u = Other(t)
      /\ Wlez = {"wlez_vault", "wlez_definition"}
      /\ "wlez_vault" \in Balance /\ "wlez_definition" \in Balance
      /\ Balance \subseteq Account /\ "pool" \in Account /\ "pool" \notin Balance
  BY Names DEF Side
<1>3. /\ \A t \in Side : l[Vault[t]] >= l["pool"].reserve[t] /\ l["pool"].reserve[t] \in Nat
      /\ l["wlez_vault"] >= l["wlez_definition"]
      /\ l["wlez_definition"] >= l[User[W]] + l[Single[W]] + l[Vault[W]]
  BY <1>1, PoolType DEF Solvent, Circulating, Amount
<1>4. /\ l[User[W]] \in Nat /\ l[Single[W]] \in Nat /\ l[Vault[W]] \in Nat
      /\ l["wlez_vault"] \in Nat /\ l["wlez_definition"] \in Nat
  BY <1>1, <1>2
<1>5. CASE OthersSwap
  <2>1. PICK s \in Side, n \in OthersAmounts :
           LET out == Out(l["pool"], s, n)
           IN  /\ OthersHave(s, n)
               /\ Quote(l["pool"], s, n, 0)
               /\ CanApply(l["pool"], s, n, out)
               /\ Fits(l[Vault[s]] + n)
               /\ l[Vault[Other(s)]] >= out
               /\ ledger' = Swapped(l, s, n, out)
    BY <1>5 DEF OthersSwap
  <2> DEFINE o == Other(s)
             out == Out(l["pool"], s, n)
  <2>2. n \in Amount /\ n \in Nat
    BY SwapLedgerAssumption DEF Amount
  <2>3. out \in Amount /\ out \in Nat
    BY <1>1, <2>1, <2>2, QuoteFacts DEF Amount
  <2>4. /\ DOMAIN ledger' = Account
        /\ ledger'["pool"] = Applied(l["pool"], s, n, out)
        /\ ledger'[Vault[s]] = l[Vault[s]] + n
        /\ ledger'[Vault[o]] = l[Vault[o]] - out
        /\ \A a \in Balance \ {Vault[s], Vault[o]} : ledger'[a] = l[a]
    BY <2>1, <2>2, <2>3, SwappedIs
  <2>5. /\ ledger'["pool"] \in PoolDefinition
        /\ ledger'["pool"].reserve[s] = l["pool"].reserve[s] + n
        /\ ledger'["pool"].reserve[o] = l["pool"].reserve[o] - out
    BY <1>1, <2>1, <2>2, <2>3, <2>4, AppliedFacts
  <2>6. /\ l[Vault[s]] \in Nat /\ l[Vault[o]] \in Nat
        /\ l["pool"].reserve[s] \in Nat /\ l["pool"].reserve[o] \in Nat
        /\ l[Vault[s]] >= l["pool"].reserve[s] /\ l[Vault[o]] >= l["pool"].reserve[o]
        /\ l[Vault[o]] <= U128_MAX
    BY <1>1, <1>2, <1>3 DEF Amount
  <2>7. l[Vault[s]] + n \in Amount /\ l[Vault[o]] - out \in Amount
    <3>1. Fits(l[Vault[s]] + n) /\ l[Vault[o]] >= out
      BY <2>1
    <3> HIDE DEF out, o, l
    <3> QED
      BY <1>1, <2>2, <2>3, <2>6, <3>1 DEF Fits, Amount
  <2>8. IsLedger(ledger')
    BY <1>1, <2>4, <2>5, <2>7 DEF IsLedger
  <2>9. \A t \in Side : ledger'[Vault[t]] >= ledger'["pool"].reserve[t]
    <3>1. ledger'[Vault[s]] >= ledger'["pool"].reserve[s]
      <4> HIDE DEF out, o, l
      <4> QED
        BY <2>2, <2>4, <2>5, <2>6
    <3>2. ledger'[Vault[o]] >= ledger'["pool"].reserve[o]
      <4> HIDE DEF out, o, l
      <4> QED
        BY <2>3, <2>4, <2>5, <2>6
    <3> QED
      BY <1>2, <3>1, <3>2
  <2>10. /\ User[W] \notin {Vault[s], Vault[o]} /\ Single[W] \notin {Vault[s], Vault[o]}
         /\ "wlez_vault" \notin {Vault[s], Vault[o]} /\ "wlez_definition" \notin {Vault[s], Vault[o]}
         /\ Vault[s] # Vault[o]
    BY <1>2, Distinct
  <2>11. /\ ledger'[User[W]] = l[User[W]] /\ ledger'[Single[W]] = l[Single[W]]
         /\ ledger'["wlez_vault"] = l["wlez_vault"] /\ ledger'["wlez_definition"] = l["wlez_definition"]
    BY <1>2, <2>4, <2>10
  <2>12. l["wlez_definition"] >= l[User[W]] + l[Single[W]] + ledger'[Vault[W]]
    <3>1. CASE W = s
      <4>1. l[User[W]] + l[Single[W]] + l[Vault[W]] + n <= l["wlez_definition"]
        BY <2>1, <3>1 DEF OthersHave, Circulating
      <4>2. ledger'[Vault[W]] = l[Vault[W]] + n
        BY <2>4, <3>1
      <4> HIDE DEF l, W
      <4> QED
        BY <1>4, <2>2, <4>1, <4>2
    <3>2. CASE W = o
      <4>1. ledger'[Vault[W]] = l[Vault[W]] - out
        BY <2>4, <3>2
      <4> HIDE DEF l, W, out
      <4> QED
        BY <1>3, <1>4, <2>3, <4>1
    <3> QED
      BY <1>2, <3>1, <3>2
  <2>13. Solvent(ledger')
    BY <1>3, <2>9, <2>11, <2>12 DEF Solvent, Circulating
  <2> QED
    BY <2>8, <2>13
<1>6. CASE OthersGive
  <2>1. PICK s \in Side, n \in OthersAmounts : \E a \in {Vault[s], Single[s]} :
           /\ OthersHave(s, n)
           /\ Fits(l[a] + n)
           /\ ledger' = [l EXCEPT ![a] = @ + n]
    BY <1>6 DEF OthersGive
  <2>2. PICK a \in {Vault[s], Single[s]} :
           /\ OthersHave(s, n)
           /\ Fits(l[a] + n)
           /\ ledger' = [l EXCEPT ![a] = @ + n]
    BY <2>1
  <2>3. n \in Nat
    BY SwapLedgerAssumption DEF Amount
  <2>4. a \in Balance /\ l[a] \in Nat
    BY <1>1, <1>2
  <2>5. /\ DOMAIN ledger' = Account /\ ledger'["pool"] = l["pool"]
        /\ ledger'[a] = l[a] + n
        /\ \A b \in Balance \ {a} : ledger'[b] = l[b]
    BY <1>1, <1>2, <2>2, <2>4
  <2>6. l[a] + n \in Amount
    BY <1>1, <2>2, <2>3, <2>4 DEF Fits, Amount
  <2>7. IsLedger(ledger')
    BY <1>1, <2>4, <2>5, <2>6 DEF IsLedger
  <2>8. \A t \in Side : ledger'[Vault[t]] >= ledger'["pool"].reserve[t]
    <3> SUFFICES ASSUME NEW t \in Side PROVE ledger'[Vault[t]] >= l["pool"].reserve[t]
      BY <2>5
    <3>1. ledger'[Vault[t]] = l[Vault[t]] \/ ledger'[Vault[t]] = l[Vault[t]] + n
      BY <1>2, <2>5
    <3>2. l[Vault[t]] \in Nat /\ l["pool"].reserve[t] \in Nat /\ l[Vault[t]] >= l["pool"].reserve[t]
      BY <1>1, <1>2, <1>3
    <3> QED
      BY <2>3, <3>1, <3>2
  <2>9. /\ a \notin Wlez /\ \A t \in Side : a # User[t]
        /\ \A t \in Side : t # s => a # Vault[t] /\ a # Single[t]
        /\ Vault[s] # Single[s]
    <3>1. ASSUME NEW t \in Side, t # s PROVE t = Other(s)
      BY <1>2, <3>1
    <3> QED
      BY <1>2, <3>1, Distinct
  <2>10. /\ ledger'["wlez_vault"] = l["wlez_vault"] /\ ledger'["wlez_definition"] = l["wlez_definition"]
         /\ ledger'[User[W]] = l[User[W]]
    BY <1>2, <2>5, <2>9
  <2>11. l["wlez_definition"] >= l[User[W]] + ledger'[Single[W]] + ledger'[Vault[W]]
    <3>1. CASE W = s
      <4>1. l[User[W]] + l[Single[W]] + l[Vault[W]] + n <= l["wlez_definition"]
        BY <2>2, <3>1 DEF OthersHave, Circulating
      <4>2. \/ ledger'[Single[W]] = l[Single[W]] + n /\ ledger'[Vault[W]] = l[Vault[W]]
            \/ ledger'[Single[W]] = l[Single[W]] /\ ledger'[Vault[W]] = l[Vault[W]] + n
        BY <1>2, <2>5, <2>9, <3>1
      <4> HIDE DEF l, W
      <4> QED
        BY <1>4, <2>3, <4>1, <4>2
    <3>2. CASE W # s
      <4>1. ledger'[Single[W]] = l[Single[W]] /\ ledger'[Vault[W]] = l[Vault[W]]
        BY <1>2, <2>5, <2>9, <3>2
      <4> QED
        BY <1>3, <4>1
    <3> QED
      BY <3>1, <3>2
  <2>12. Solvent(ledger')
    BY <1>3, <2>8, <2>10, <2>11 DEF Solvent, Circulating
  <2> QED
    BY <2>7, <2>12
<1>7. CASE OthersWrap
  <2>1. PICK n \in OthersAmounts : (\A a \in Wlez : Fits(l[a] + n)) /\ ledger' = Wrapped(l, n)
    BY <1>7 DEF OthersWrap
  <2>2. n \in Amount /\ n \in Nat
    BY SwapLedgerAssumption DEF Amount
  <2>3. /\ IsLedger(ledger') /\ ledger'["pool"] = l["pool"]
        /\ \A a \in Balance : ledger'[a] = l[a] + (IF a \in Wlez THEN n ELSE 0)
    BY <2>1, <2>2, WrappedLedger
  <2>4. \A a \in Balance \ Wlez : ledger'[a] = l[a]
    <3> SUFFICES ASSUME NEW a \in Balance \ Wlez PROVE ledger'[a] = l[a]
      OBVIOUS
    <3>1. ledger'[a] = l[a] + 0 /\ l[a] \in Nat
      BY <1>1, <2>3
    <3> QED
      BY <3>1
  <2>5. \A t \in Side : User[t] \notin Wlez /\ Single[t] \notin Wlez /\ Vault[t] \notin Wlez
    BY Distinct DEF Wlez
  <2>6. /\ \A t \in Side : ledger'[Vault[t]] = l[Vault[t]]
        /\ ledger'[User[W]] = l[User[W]] /\ ledger'[Single[W]] = l[Single[W]]
        /\ ledger'["wlez_vault"] = l["wlez_vault"] + n
        /\ ledger'["wlez_definition"] = l["wlez_definition"] + n
    BY <1>2, <2>3, <2>4, <2>5
  <2>7. \A t \in Side : ledger'[Vault[t]] >= ledger'["pool"].reserve[t]
    BY <1>3, <2>3, <2>6
  <2>8. ledger'["wlez_vault"] >= ledger'["wlez_definition"]
    BY <1>3, <1>4, <2>2, <2>6
  <2>9. ledger'["wlez_definition"] >= ledger'[User[W]] + ledger'[Single[W]] + ledger'[Vault[W]]
    <3>1. ledger'[Vault[W]] = l[Vault[W]]
      BY <1>2, <2>6
    <3> HIDE DEF l, W
    <3> QED
      BY <1>3, <1>4, <2>2, <2>6, <3>1
  <2>10. Solvent(ledger')
    BY <2>7, <2>8, <2>9 DEF Solvent, Circulating
  <2> QED
    BY <2>3, <2>10
<1>8. CASE OthersUnwrap
  <2>1. PICK n \in OthersAmounts : OthersHave(W, n) /\ (\A a \in Wlez : l[a] >= n) /\ ledger' = Unwrapped(l, n)
    BY <1>8 DEF OthersUnwrap
  <2>2. n \in Amount /\ n \in Nat
    BY SwapLedgerAssumption DEF Amount
  <2>3. /\ IsLedger(ledger') /\ ledger'["pool"] = l["pool"]
        /\ \A a \in Balance : ledger'[a] = l[a] + (IF a \in Wlez THEN 0 - n ELSE 0)
    BY <2>1, <2>2, UnwrappedLedger
  <2>4. \A a \in Balance \ Wlez : ledger'[a] = l[a]
    <3> SUFFICES ASSUME NEW a \in Balance \ Wlez PROVE ledger'[a] = l[a]
      OBVIOUS
    <3>1. ledger'[a] = l[a] + 0 /\ l[a] \in Nat
      BY <1>1, <2>3
    <3> QED
      BY <3>1
  <2>5. \A t \in Side : User[t] \notin Wlez /\ Single[t] \notin Wlez /\ Vault[t] \notin Wlez
    BY Distinct DEF Wlez
  <2>6. /\ \A t \in Side : ledger'[Vault[t]] = l[Vault[t]]
        /\ ledger'[User[W]] = l[User[W]] /\ ledger'[Single[W]] = l[Single[W]]
        /\ ledger'["wlez_vault"] = l["wlez_vault"] + (0 - n)
        /\ ledger'["wlez_definition"] = l["wlez_definition"] + (0 - n)
    BY <1>2, <2>3, <2>4, <2>5
  <2>7. \A t \in Side : ledger'[Vault[t]] >= ledger'["pool"].reserve[t]
    BY <1>3, <2>3, <2>6
  <2>8. ledger'["wlez_vault"] >= ledger'["wlez_definition"]
    BY <1>3, <1>4, <2>2, <2>6
  <2>9. ledger'["wlez_definition"] >= ledger'[User[W]] + ledger'[Single[W]] + ledger'[Vault[W]]
    <3>1. ledger'[Vault[W]] = l[Vault[W]]
      BY <1>2, <2>6
    <3>2. l[User[W]] + l[Single[W]] + l[Vault[W]] + n <= l["wlez_definition"]
      BY <2>1 DEF OthersHave, Circulating
    <3> HIDE DEF l, W
    <3> QED
      BY <1>4, <2>2, <2>6, <3>1, <3>2
  <2>10. Solvent(ledger')
    BY <2>7, <2>8, <2>9 DEF Solvent, Circulating
  <2> QED
    BY <2>3, <2>10
<1> QED
  BY <1>5, <1>6, <1>7, <1>8 DEF OthersStep

(* They touch no proof.                                                    *)
LEMMA SameProofs ==
    ASSUME ChainInv, UNCHANGED proof, IsLedger(ledger'), Solvent(ledger')
    PROVE ChainInv'
<1>1. \A i \in Jobs : ProofOK(i)'
  BY DEF ChainInv, ProofOK, Funded
<1>2. IsLedger(ledger)' /\ Solvent(ledger)'
  BY DEF IsLedger, Solvent, Circulating
<1> QED
  BY <1>1, <1>2 DEF ChainInv

(* One step per action.                                                    *)
LEMMA ChainStep ==
    ASSUME ChainInv, [Next]_vars
    PROVE ChainInv'
<1>1. IsLedger(ledger) /\ Solvent(ledger)
  BY DEF ChainInv
<1>2. CASE UNCHANGED vars
  BY <1>1, <1>2, SameProofs DEF vars
<1>3. ASSUME NEW j \in Jobs, NEW amount \in Amounts, NEW limit \in Limits, NEW s \in Side,
             DisposableSwap(j, s, amount, limit) \/ PrivateSwap(j, s, amount, limit)
      PROVE  ChainInv'
  BY <1>3, DisposableSwapStarts, PrivateSwapStarts
<1>4. ASSUME NEW j \in Jobs, NEW amount \in Amounts, NEW limit \in Limits,
             \/ DisposableSwapNativeIn(j, amount, limit)
             \/ DisposableSwapNativeOut(j, amount, limit)
             \/ PrivateSwapNativeIn(j, amount, limit)
             \/ PrivateSwapNativeOut(j, amount, limit)
      PROVE  ChainInv'
  BY <1>4, DisposableSwapNativeInStarts, DisposableSwapNativeOutStarts,
     PrivateSwapNativeInStarts, PrivateSwapNativeOutStarts
<1>5. ASSUME NEW j \in Jobs,
             RunTransfer(j) \/ RunWrap(j) \/ RunUnwrap(j) \/ RunSwap(j) \/ Abort(j) \/ Include(j)
      PROVE  ChainInv'
  BY <1>5, RunTransferKeeps, RunWrapKeeps, RunUnwrapKeeps, RunSwapKeeps, AbortKeeps, IncludeKeeps
<1>6. ASSUME NEW j \in Jobs, Reject(j) PROVE ChainInv'
  <2>1. proof' = [proof EXCEPT ![j] = Over] /\ proof'[j] = Over /\ UNCHANGED ledger
    BY <1>6 DEF Reject, ChainInv
  <2>2. ProofOK(j)'
    BY <2>1 DEF ProofOK
  <2>3. IsLedger(ledger)' /\ Solvent(ledger)'
    BY <1>1, <2>1 DEF IsLedger, Solvent, Circulating
  <2> QED
    BY <2>1, <2>2, <2>3, OneProofChanges
<1>7. CASE Others
  BY <1>1, <1>7, OthersKeepLedger, SameProofs DEF Others
<1> QED
  BY <1>2, <1>3, <1>4, <1>5, <1>6, <1>7 DEF Next

(* No proof is being made at first.                                        *)
LEMMA ChainStart == Init => ChainInv
<1> SUFFICES ASSUME Init PROVE ChainInv
  OBVIOUS
<1>1. IsLedger(ledger) /\ Solvent(ledger) /\ DOMAIN proof = Jobs /\ \A j \in Jobs : proof[j] = NoProof
  BY SwapLedgerAssumption DEF Init, AtomicInit
<1> QED
  BY <1>1 DEF ChainInv, ProofOK

(* Every proof that is being made is the state it started from plus what   *)
(* its calls have moved, and what it aborts was not funded, whatever else  *)
(* happens to the ledger while the proof is made.                          *)
THEOREM ChainInvariant == Spec => []ChainInv
<1>1. ChainInv /\ [Next]_vars => ChainInv'
  BY ChainStep
<1> QED
  BY <1>1, ChainStart, PTL DEF Spec

(* The vaults can always pay the reserves, and the WLEZ vault the WLEZ in  *)
(* circulation, however many proofs made on older states are included, in  *)
(* whatever order, and whatever others do in between (the check of the     *)
(* pre-states at inclusion, and the transfers of                           *)
(* src/programs/private_swap_router).                                      *)
THEOREM LedgerStaysSolvent == Spec => []LedgerSolvent
<1>1. ChainInv => LedgerSolvent
  BY DEF ChainInv, LedgerSolvent
<1> QED
  BY <1>1, ChainInvariant, PTL

(* A chain of calls aborts only for a user who cannot pay the amount, or   *)
(* when a balance would leave 128 bits: the handlers' declarations of the  *)
(* accounts, the AMM's own price and the release of LEZ never stop it.     *)
THEOREM OnlyUnfundedAbort == Spec => []AbortsOnlyUnfunded
<1>1. ChainInv => AbortsOnlyUnfunded
  <2> SUFFICES ASSUME ChainInv, NEW j \in Jobs, proof[j].stage = "aborted" PROVE ~Funded(j)
    BY DEF AbortsOnlyUnfunded
  <2> QED
    BY DEF ChainInv, ProofOK, NoProof, Over
<1> QED
  BY <1>1, ChainInvariant, PTL

(* The swaps that run as a chain of calls implement one whole swap at the  *)
(* price of the pool it meets at inclusion: between the handler and the    *)
(* inclusion, the ledger is changed by others only.                        *)
THEOREM ChainsAreAtomic == Spec => ChainIsAtomic
<1>1. Init => AtomicInit
  BY DEF Init
<1>2. ChainInv /\ [Next]_vars => [WholeSwap \/ OthersStep]_ledger
  <2> SUFFICES ASSUME ChainInv, [Next]_vars PROVE WholeSwap \/ OthersStep \/ UNCHANGED ledger
    OBVIOUS
  <2>1. ASSUME NEW j \in Jobs, Include(j) PROVE WholeSwap
    BY <2>1, IncludeIsSwap
  <2>2. CASE Others
    BY <2>2 DEF Others
  <2>3. ASSUME NEW j \in Jobs,
               RunTransfer(j) \/ RunWrap(j) \/ RunUnwrap(j) \/ RunSwap(j) \/ Abort(j) \/ Reject(j)
        PROVE  UNCHANGED ledger
    BY <2>3 DEF RunTransfer, RunWrap, RunUnwrap, RunSwap, Runs, Abort, Reject
  <2>4. ASSUME NEW j \in Jobs, NEW amount \in Amounts, NEW limit \in Limits,
               \/ \E s \in Side : DisposableSwap(j, s, amount, limit) \/ PrivateSwap(j, s, amount, limit)
               \/ DisposableSwapNativeIn(j, amount, limit)
               \/ DisposableSwapNativeOut(j, amount, limit)
               \/ PrivateSwapNativeIn(j, amount, limit)
               \/ PrivateSwapNativeOut(j, amount, limit)
        PROVE  UNCHANGED ledger
    BY <2>4 DEF DisposableSwap, PrivateSwap, DisposableSwapNativeIn, DisposableSwapNativeOut,
                PrivateSwapNativeIn, PrivateSwapNativeOut, Begin
  <2>5. CASE UNCHANGED vars
    BY <2>5 DEF vars
  <2> QED
    BY <2>1, <2>2, <2>3, <2>4, <2>5 DEF Next
<1> QED
  BY <1>1, <1>2, ChainInvariant, PTL DEF Spec, ChainIsAtomic, AtomicSpec

=============================================================================
