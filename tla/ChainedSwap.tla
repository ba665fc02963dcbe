----------------------------- MODULE ChainedSwap -----------------------------
(***************************************************************************)
(* The swaps that run as one transaction: disposable_swap and its native    *)
(* variants in amm_v2, private_swap and its native variants in the router.  *)
(*                                                                         *)
(* The handler runs once, on the accounts as they are when the proof is     *)
(* begun, and fixes everything: the output, the amounts of all the calls it *)
(* chains, and what every call will find in the accounts it is given.  The  *)
(* prover then executes the calls one after another on a working copy,      *)
(* where a call that finds something else than was declared, or whose own   *)
(* checks fail, ends the proof.  Proving takes minutes, and the chain goes  *)
(* on.  The result is included if the accounts are still those it was       *)
(* proved on.                                                              *)
(***************************************************************************)
EXTENDS SwapLedger, Sequences, Functions

CONSTANTS
    Jobs,       \* the swaps of the user, whose proofs may overlap
    MaxOthers   \* bound on the steps of others

ASSUME MaxOthersAssumption == MaxOthers \in Nat

VARIABLES
    proof,      \* job -> its proof
    others      \* steps others have taken

vars == <<ledger, proof, others>>

NoProof == [stage |-> "idle"]
Over == [stage |-> "over"]   \* included or rejected

Init ==
    /\ AtomicInit
    /\ proof = [j \in Jobs |-> NoProof]
    /\ others = 0

-----------------------------------------------------------------------------
(* Chained calls, with the accounts they are given as `view` shows them.    *)

Given(accounts, view) == Restrict(view, accounts)

Transfer(from, to, amount, view) ==
    [op |-> "transfer", from |-> from, to |-> to, amount |-> amount,
     pre |-> Given({from, to}, view)]

Wrap(to, amount, view) ==
    [op |-> "wrap", from |-> "user_native", to |-> to, amount |-> amount,
     pre |-> Given({"user_native", to} \cup Wlez, view)]

Unwrap(from, amount, view) ==
    [op |-> "unwrap", from |-> from, to |-> "user_native", amount |-> amount,
     pre |-> Given({from, "user_native"} \cup Wlez, view)]

PoolAccounts == {"pool"} \cup UNION {{Vault[s], Single[s]} : s \in Side}

SwapExactInputCircuit(s, amount, limit, view) ==
    [op |-> "swap", from |-> Single[s], to |-> Single[Other(s)], amount |-> amount,
     side |-> s, limit |-> limit, pre |-> Given(PoolAccounts, view)]

(* Variant: the call is given the balance the proof began with.            *)
Unshifted(view, a, delta) == view

(* shift_balance: the balance after the calls before.                      *)
Shifted(view, a, delta) == [view EXCEPT ![a] = @ + delta]

-----------------------------------------------------------------------------
(* The handlers.                                                           *)

(* Variant: the pool is updated with the legs exchanged.                   *)
PoolPostFlipped(view, s, amount, out) ==
    [view EXCEPT !["pool"] = Applied(@, Other(s), out, amount)]

PoolPost(view, s, amount, out) ==
    [view EXCEPT !["pool"] = Applied(@, s, amount, out)]

(* amm_v2 moves the pool itself and chains the two transfers ...           *)
Inlined(s, amount, out, view) ==
    <<Transfer(Single[s], Vault[s], amount, Shifted(view, Single[s], amount)),
      Transfer(Vault[Other(s)], Single[Other(s)], out, view)>>

(* ... the router chains the AMM.                                          *)
Chained(s, amount, limit, view) ==
    <<SwapExactInputCircuit(s, amount, limit, Shifted(view, Single[s], amount))>>

(* Variant: the fee is taken off once more.                                *)
ReshieldLessFee(s, out, view) ==
    Transfer(Single[s], User[s], EffectiveIn(out, FEES), Shifted(view, Single[s], out))

Deshield(s, amount, view) == Transfer(User[s], Single[s], amount, view)
Reshield(s, out, view) ==
    Transfer(Single[s], User[s], out, Shifted(view, Single[s], out))
Release(out, view) ==
    Unwrap(Single[WLEZ_SIDE], out, Shifted(view, Single[WLEZ_SIDE], out))

(* A proof is begun: the handler is run, its checks hold, and its own       *)
(* account writes come before the calls.                                   *)
Begin(j, s, amount, limit, post, calls, from, to) ==
    /\ proof[j].stage = "idle"
    /\ Quote(ledger["pool"], s, amount, limit)
    /\ Fits(ledger[Single[s]] + amount)
    /\ Fits(ledger[Single[Other(s)]] + Out(ledger["pool"], s, amount))
    /\ proof' = [proof EXCEPT ![j] =
                    [stage |-> "proving", start |-> ledger, copy |-> post,
                     calls |-> calls, amount |-> amount, limit |-> limit,
                     from |-> from, to |-> to,
                     accounts |-> PoolAccounts \cup {from, to} \cup
                                    (IF "user_native" \in {from, to} THEN Wlez ELSE {})]]
    /\ UNCHANGED <<ledger, others>>

(* amm_v2                                                                  *)

DisposableSwap(j, s, amount, limit) ==
    LET out == Out(ledger["pool"], s, amount)
    IN  /\ CanApply(ledger["pool"], s, amount, out)
        /\ Begin(j, s, amount, limit, PoolPost(ledger, s, amount, out),
                 <<Deshield(s, amount, ledger)>>
                     \o Inlined(s, amount, out, ledger)
                     \o <<Reshield(Other(s), out, ledger)>>,
                 User[s], User[Other(s)])

DisposableSwapNativeIn(j, amount, limit) ==
    LET s == WLEZ_SIDE
        out == Out(ledger["pool"], s, amount)
    IN  /\ CanApply(ledger["pool"], s, amount, out)
        /\ Begin(j, s, amount, limit, PoolPost(ledger, s, amount, out),
                 <<Wrap(Single[s], amount, ledger)>>
                     \o Inlined(s, amount, out, ledger)
                     \o <<Reshield(Other(s), out, ledger)>>,
                 "user_native", User[Other(s)])

DisposableSwapNativeOut(j, amount, limit) ==
    LET s == Other(WLEZ_SIDE)
        out == Out(ledger["pool"], s, amount)
    IN  /\ CanApply(ledger["pool"], s, amount, out)
        /\ Begin(j, s, amount, limit, PoolPost(ledger, s, amount, out),
                 <<Deshield(s, amount, ledger)>>
                     \o Inlined(s, amount, out, ledger)
                     \o <<Release(out, ledger)>>,
                 User[s], "user_native")

(* the router                                                              *)

PrivateSwap(j, s, amount, limit) ==
    LET out == Out(ledger["pool"], s, amount)
    IN  Begin(j, s, amount, limit, ledger,
              <<Deshield(s, amount, ledger)>>
                  \o Chained(s, amount, limit, ledger)
                  \o <<Reshield(Other(s), out, ledger)>>,
              User[s], User[Other(s)])

PrivateSwapNativeIn(j, amount, limit) ==
    LET s == WLEZ_SIDE
        out == Out(ledger["pool"], s, amount)
    IN  Begin(j, s, amount, limit, ledger,
              <<Wrap(Single[s], amount, ledger)>>
                  \o Chained(s, amount, limit, ledger)
                  \o <<Reshield(Other(s), out, ledger)>>,
              "user_native", User[Other(s)])

PrivateSwapNativeOut(j, amount, limit) ==
    LET s == Other(WLEZ_SIDE)
        out == Out(ledger["pool"], s, amount)
    IN  Begin(j, s, amount, limit, ledger,
              <<Deshield(s, amount, ledger)>>
                  \o Chained(s, amount, limit, ledger)
                  \o <<Release(out, ledger)>>,
              User[s], "user_native")

-----------------------------------------------------------------------------
(* The calls, on the working copy.                                         *)

(* The framework's check of what a call was given.                         *)
Matches(copy, call) == \A a \in DOMAIN call.pre : call.pre[a] = copy[a]

CanTransfer(copy, call) ==
    /\ copy[call.from] >= call.amount
    /\ Fits(copy[call.to] + call.amount)

CanWrap(copy, call) ==
    /\ call.amount # 0
    /\ copy["user_native"] >= call.amount
    /\ \A a \in Wlez \cup {call.to} : Fits(copy[a] + call.amount)

CanUnwrap(copy, call) ==
    /\ call.amount # 0
    /\ \A a \in Wlez \cup {call.from} : copy[a] >= call.amount
    /\ Fits(copy["user_native"] + call.amount)

CanSwap(copy, call) ==
    /\ \A s \in Side : copy[Vault[s]] >= copy["pool"].reserve[s]
    /\ Quote(copy["pool"], call.side, call.amount, call.limit)
    /\ CanApply(copy["pool"], call.side, call.amount,
                Out(copy["pool"], call.side, call.amount))

Can(copy, call) ==
    /\ Matches(copy, call)
    /\ \/ call.op = "transfer" /\ CanTransfer(copy, call)
       \/ call.op = "wrap" /\ CanWrap(copy, call)
       \/ call.op = "unwrap" /\ CanUnwrap(copy, call)
       \/ call.op = "swap" /\ CanSwap(copy, call)

(* The next call of a proof is `op`, succeeds, leaves `copy`, and chains    *)
(* `more` calls to be executed before the others.                          *)
Runs(j, op, copy, more) ==
    /\ proof[j].stage = "proving"
    /\ proof[j].calls # <<>>
    /\ Head(proof[j].calls).op = op
    /\ Can(proof[j].copy, Head(proof[j].calls))
    /\ proof' = [proof EXCEPT ![j].copy = copy, ![j].calls = more \o Tail(@)]
    /\ UNCHANGED <<ledger, others>>

Paid(copy, call) ==
    [copy EXCEPT ![call.from] = @ - call.amount, ![call.to] = @ + call.amount]

RunTransfer(j) ==
    LET call == Head(proof[j].calls)
    IN  Runs(j, "transfer", Paid(proof[j].copy, call), <<>>)

RunWrap(j) ==
    LET call == Head(proof[j].calls)
    IN  Runs(j, "wrap", Wrapped(Paid(proof[j].copy, call), call.amount), <<>>)

RunUnwrap(j) ==
    LET call == Head(proof[j].calls)
    IN  Runs(j, "unwrap", Unwrapped(Paid(proof[j].copy, call), call.amount), <<>>)

(* The AMM moves its pool and chains its own two transfers.                *)
RunSwap(j) ==
    LET call == Head(proof[j].calls)
        s == call.side
        out == Out(proof[j].copy["pool"], s, call.amount)
    IN  Runs(j, "swap", PoolPost(proof[j].copy, s, call.amount, out),
             <<Transfer(call.from, Vault[s], call.amount, call.pre),
               Transfer(Vault[Other(s)], call.to, out, call.pre)>>)

Abort(j) ==
    /\ proof[j].stage = "proving"
    /\ proof[j].calls # <<>>
    /\ ~Can(proof[j].copy, Head(proof[j].calls))
    /\ proof' = [proof EXCEPT ![j].stage = "aborted"]
    /\ UNCHANGED <<ledger, others>>

(* The accounts the handler was given are as they were.                     *)
Fresh(j) == \A a \in proof[j].accounts : ledger[a] = proof[j].start[a]

Proved(j) == proof[j].stage = "proving" /\ proof[j].calls = <<>>

Include(j) ==
    /\ Proved(j)
    /\ Fresh(j)
    /\ ledger' = [a \in Account |->
                    IF a \in proof[j].accounts THEN proof[j].copy[a] ELSE ledger[a]]
    /\ proof' = [proof EXCEPT ![j] = Over]
    /\ UNCHANGED others

Reject(j) ==
    /\ Proved(j)
    /\ ~Fresh(j)
    /\ proof' = [proof EXCEPT ![j] = Over]
    /\ UNCHANGED <<ledger, others>>

Others ==
    /\ others < MaxOthers
    /\ OthersStep
    /\ others' = others + 1
    /\ UNCHANGED proof

Next ==
    \/ \E j \in Jobs, amount \in Amounts, limit \in Limits :
        \/ \E s \in Side : DisposableSwap(j, s, amount, limit) \/ PrivateSwap(j, s, amount, limit)
        \/ DisposableSwapNativeIn(j, amount, limit)
        \/ DisposableSwapNativeOut(j, amount, limit)
        \/ PrivateSwapNativeIn(j, amount, limit)
        \/ PrivateSwapNativeOut(j, amount, limit)
    \/ \E j \in Jobs :
        RunTransfer(j) \/ RunWrap(j) \/ RunUnwrap(j) \/ RunSwap(j)
            \/ Abort(j) \/ Include(j) \/ Reject(j)
    \/ Others

Spec == Init /\ [][Next]_vars

=============================================================================
