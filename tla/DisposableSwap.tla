--------------------------- MODULE DisposableSwap ---------------------------
(***************************************************************************)
(* The client side of a drift-free disposable swap: one call of             *)
(* ldex_amm_v2_disposable_swap, which moves a private input through two     *)
(* single-use public holdings with four transactions, waiting for each to   *)
(* be included before it sends the next:                                    *)
(*                                                                         *)
(*   deshield  user_in -> a_in, init a_out, swap a_in -> a_out, reshield    *)
(*   a_out -> user_out, and on a failed swap a rollback a_in -> user_in.    *)
(*                                                                         *)
(* The sequencer includes pending transactions in any order, drops those    *)
(* that are invalid when their turn comes, and may lose some.  Waiting can  *)
(* fail although the transaction is still pending or even included.         *)
(* Competitors create the pool and trade in it all along, the process may   *)
(* crash, and afterwards the user may sync the wallet and shield what is    *)
(* left in the public holdings.                                            *)
(***************************************************************************)
EXTENDS AmmMath, Sequences

CONSTANTS
    SwapAmountIn,
    MinAmountOut,
    Fees,           \* fee tier of the pool
    PoolReserves,   \* reserves competitors may leave, as [in, out] records
    Callers,        \* circumstances in which the call may be made
    MaxFaults       \* bound on losses, failed calls and crashes

ASSUME DisposableSwapAssumption ==
    /\ SwapAmountIn \in Nat \ {0}
    /\ MinAmountOut \in Nat
    /\ Fees \in FEE_TIERS
    /\ PoolReserves \subseteq [in : Nat \ {0}, out : Nat \ {0}]
    /\ Callers \subseteq [inits : BOOLEAN, key : BOOLEAN, pool : BOOLEAN]
    /\ MaxFaults \in Nat

VARIABLES
    pc,           \* where the call is
    result,       \* what it returned
    private,      \* balances of user_in and user_out on chain
    note,         \* how often each of the two private accounts was written
    cache,        \* the balances in the wallet's local storage
    known,        \* the note of each that the wallet's storage holds
    a_in,         \* balance of the public input holding
    a_out,        \* balance of the public output holding
    a_out_owned,  \* a_out is a holding of the token program
    caller,       \* had a_out initialised, has its key, found a pool
    pool_exists,  \* there is a pool for the pair and fee tier
    reserves,     \* live reserves of the pool, or what it will be created with
    txs,          \* transactions sent so far
    faults        \* faults that happened

ledgerVars == <<private, note, a_in, a_out, a_out_owned, pool_exists, reserves>>
callVars == <<pc, result, cache, known>>
vars == <<ledgerVars, callVars, caller, txs, faults>>

Stages == {"start", "deshielding", "init", "initialising", "align", "swap",
           "swapping", "rollback", "rolling_back", "read", "reshielding",
           "recovering", "done"}
Kinds == {"deshield", "init", "swap", "shield_in", "shield_out"}
Tx == [kind : Kinds, pre : Nat, note : Nat,
       status : {"pending", "included", "dropped"}]

(* The private account a transaction reads and writes.                     *)
Side(kind) == IF kind = "shield_out" THEN "out" ELSE "in"

Init ==
    /\ pc = "start"
    /\ result = "none"
    /\ private = [in |-> SwapAmountIn, out |-> 0]
    /\ note = [in |-> 0, out |-> 0]
    /\ cache = private
    /\ known = note
    /\ a_in = 0
    /\ a_out = 0
    /\ caller \in Callers
    /\ a_out_owned = caller.inits
    /\ pool_exists = caller.pool
    /\ reserves \in PoolReserves
    /\ txs = <<>>
    /\ faults = 0

-----------------------------------------------------------------------------
(* The sequencer.  A privacy transaction was proved over the public balance *)
(* (pre) it found and the private note the wallet knew, and is valid only    *)
(* while that balance still holds and that note has not been spent.         *)

AmountOut == ExactInputOut(reserves.in, reserves.out, Fees, SwapAmountIn)

(* Variant: the swap is not bounded by min_amount_out.                     *)
SwapUnbounded ==
    /\ pool_exists
    /\ a_out_owned
    /\ a_in >= SwapAmountIn
    /\ ExactInputOk(reserves.in, reserves.out, Fees, SwapAmountIn)

SwapValid ==
    /\ pool_exists
    /\ a_out_owned
    /\ a_in >= SwapAmountIn
    /\ ExactInputOk(reserves.in, reserves.out, Fees, SwapAmountIn)
    /\ AmountOut >= MinAmountOut

NoteCurrent(tx) == tx.note = note[Side(tx.kind)]

Valid(tx) ==
    \/ tx.kind = "deshield" /\ NoteCurrent(tx) /\ a_in = tx.pre /\ private.in >= SwapAmountIn
    \/ tx.kind = "init" /\ ~a_out_owned
    \/ tx.kind = "swap" /\ SwapValid
    \/ tx.kind = "shield_in" /\ NoteCurrent(tx) /\ a_in = tx.pre
    \/ tx.kind = "shield_out" /\ NoteCurrent(tx) /\ a_out = tx.pre

Pending(i) == txs[i].status = "pending"

SetStatus(i, status) == txs' = [txs EXCEPT ![i].status = status]

NoteWritten(side) == note' = [note EXCEPT ![side] = @ + 1]

IncludeDeshield(i) ==
    /\ txs[i].kind = "deshield"
    /\ private' = [private EXCEPT !.in = @ - SwapAmountIn]
    /\ NoteWritten("in")
    /\ a_in' = a_in + SwapAmountIn
    /\ UNCHANGED <<a_out, a_out_owned, pool_exists, reserves>>

IncludeInit(i) ==
    /\ txs[i].kind = "init"
    /\ a_out_owned' = TRUE
    /\ UNCHANGED <<private, note, a_in, a_out, pool_exists, reserves>>

IncludeSwap(i) ==
    /\ txs[i].kind = "swap"
    /\ a_in' = a_in - SwapAmountIn
    /\ a_out' = a_out + AmountOut
    /\ reserves' = [in |-> reserves.in + SwapAmountIn, out |-> reserves.out - AmountOut]
    /\ UNCHANGED <<private, note, a_out_owned, pool_exists>>

IncludeShieldIn(i) ==
    /\ txs[i].kind = "shield_in"
    /\ private' = [private EXCEPT !.in = @ + txs[i].pre]
    /\ NoteWritten("in")
    /\ a_in' = a_in - txs[i].pre
    /\ UNCHANGED <<a_out, a_out_owned, pool_exists, reserves>>

IncludeShieldOut(i) ==
    /\ txs[i].kind = "shield_out"
    /\ private' = [private EXCEPT !.out = @ + txs[i].pre]
    /\ NoteWritten("out")
    /\ a_out' = a_out - txs[i].pre
    /\ UNCHANGED <<a_in, a_out_owned, pool_exists, reserves>>

Include(i) ==
    /\ Pending(i)
    /\ Valid(txs[i])
    /\ SetStatus(i, "included")
    /\ \/ IncludeDeshield(i)
       \/ IncludeInit(i)
       \/ IncludeSwap(i)
       \/ IncludeShieldIn(i)
       \/ IncludeShieldOut(i)
    /\ UNCHANGED <<callVars, caller, faults>>

Reject(i) ==
    /\ Pending(i)
    /\ ~Valid(txs[i])
    /\ SetStatus(i, "dropped")
    /\ UNCHANGED <<ledgerVars, callVars, caller, faults>>

Fault == faults < MaxFaults /\ faults' = faults + 1

Lose(i) ==
    /\ Pending(i)
    /\ Fault
    /\ SetStatus(i, "dropped")
    /\ UNCHANGED <<ledgerVars, callVars, caller>>

(* Others create the pool, or trade in it.                                 *)
Compete ==
    /\ pool_exists' = TRUE
    /\ reserves' \in PoolReserves
    /\ UNCHANGED <<private, note, a_in, a_out, a_out_owned, callVars, caller, txs, faults>>

-----------------------------------------------------------------------------
(* The call.                                                               *)

Send(kind, pre, next) ==
    /\ txs' = Append(txs, [kind |-> kind, pre |-> pre, note |-> known[Side(kind)],
                           status |-> "pending"])
    /\ pc' = next
    /\ UNCHANGED <<result, cache, known>>

(* poll_native_token_transfer returns the transaction once it is included.  *)
Included == txs[Len(txs)].status = "included"

(* Variant: the wallet's storage is not told.                              *)
NoFold(side) == UNCHANGED <<cache, known>>

(* The decoded result goes into the wallet's storage.                      *)
Fold(side) ==
    /\ cache' = [cache EXCEPT ![side] = private[side]]
    /\ known' = [known EXCEPT ![side] = note[side]]

Return(code) ==
    /\ pc' = "done"
    /\ result' = IF result = "none" THEN code ELSE result

(* A step of the call that needs no transaction of its own.                *)
Local(A) == A /\ UNCHANGED <<ledgerVars, caller, txs>>

Deshield ==
    /\ pc = "start"
    /\ Send("deshield", a_in, "deshielding")
    /\ UNCHANGED <<ledgerVars, caller, faults>>

Deshielded ==
    /\ pc = "deshielding" /\ Included
    /\ Local(Fold("in") /\ pc' = "init" /\ UNCHANGED <<result, faults>>)

(* The init is signed with the key of a_out; without it the call returns.    *)
InitHolding ==
    /\ pc = "init"
    /\ \/ /\ caller.key
          /\ Send("init", 0, "initialising")
          /\ UNCHANGED <<ledgerVars, caller, faults>>
       \/ /\ ~caller.key
          /\ Local(Return("err") /\ UNCHANGED <<cache, known, faults>>)

HoldingInitialised ==
    /\ pc = "initialising" /\ Included
    /\ Local(pc' = "align" /\ UNCHANGED <<result, cache, known, faults>>)

(* pool_needs_leg_flip reads the pool's token order, and fails where there   *)
(* is no pool: the call returns, with the input in a_in.                    *)
AlignLegs ==
    /\ pc = "align"
    /\ \/ /\ pool_exists
          /\ Local(pc' = "swap" /\ UNCHANGED <<result, cache, known, faults>>)
       \/ /\ ~pool_exists
          /\ Local(Return("err") /\ UNCHANGED <<cache, known, faults>>)

Swap ==
    /\ pc = "swap"
    /\ Send("swap", 0, "swapping")
    /\ UNCHANGED <<ledgerVars, caller, faults>>

Swapped ==
    /\ pc = "swapping" /\ Included
    /\ Local(pc' = "read" /\ UNCHANGED <<result, cache, known, faults>>)

(* Waiting fails: for good when the transaction was dropped, and as a fault *)
(* at any time.                                                            *)
WaitFails ==
    \/ txs[Len(txs)].status = "dropped" /\ UNCHANGED faults
    \/ Fault

(* finalize fails: it could not be sent, or waiting for it failed.         *)
SwapFails ==
    /\ \/ pc = "swap" /\ Fault
       \/ pc = "swapping" /\ WaitFails
    /\ Local(pc' = "rollback" /\ UNCHANGED <<result, cache, known>>)

(* Variant: the error is returned without a rollback.                      *)
NoRollback ==
    /\ pc = "rollback"
    /\ Local(Return("err") /\ UNCHANGED <<cache, known, faults>>)

(* The proof of the rollback transfer fails where a_in no longer has the    *)
(* input.                                                                  *)
Rollback ==
    /\ pc = "rollback"
    /\ \/ /\ a_in >= SwapAmountIn
          /\ Send("shield_in", a_in, "rolling_back")
          /\ UNCHANGED <<ledgerVars, caller, faults>>
       \/ /\ a_in < SwapAmountIn
          /\ Local(Return("err") /\ UNCHANGED <<cache, known, faults>>)

RolledBack ==
    /\ pc = "rolling_back" /\ Included
    /\ Local(Fold("in") /\ Return("err") /\ UNCHANGED faults)

ReadOutput ==
    /\ pc = "read"
    /\ \/ /\ a_out > 0
          /\ Send("shield_out", a_out, "reshielding")
          /\ UNCHANGED <<ledgerVars, caller, faults>>
       \/ /\ a_out = 0
          /\ Local(Return("err") /\ UNCHANGED <<cache, known, faults>>)

Reshielded ==
    /\ pc = "reshielding" /\ Included
    /\ Local(Fold("out") /\ Return("ok") /\ UNCHANGED faults)

(* Every other failure returns at once, with the funds where they are.     *)
Fails ==
    /\ \/ pc \in {"deshielding", "initialising", "rolling_back", "reshielding"} /\ WaitFails
       \/ pc \in {"start", "init", "align", "rollback", "read"} /\ Fault
    /\ Local(Return("err") /\ UNCHANGED <<cache, known>>)

Crash ==
    /\ pc # "done"
    /\ Fault
    /\ Local(Return("crashed") /\ UNCHANGED <<cache, known>>)

-----------------------------------------------------------------------------
(* The user, afterwards: the wallet is synced with the chain, and            *)
(* ldex_token_shield called on what a holding still has.                    *)

Sync ==
    /\ pc = "done"
    /\ known # note
    /\ cache' = private
    /\ known' = note
    /\ UNCHANGED <<ledgerVars, pc, result, caller, txs, faults>>

(* A try on a note that has been spent is refused by the sequencer; how      *)
(* often the user tries before a sync is bounded like the faults.           *)
Tries(side) ==
    \/ known[side] = note[side] /\ UNCHANGED faults
    \/ known[side] # note[side] /\ Fault

(* Variant: only the input holding is looked at.                           *)
RecoverInput ==
    /\ pc = "done"
    /\ a_in > 0 /\ Tries("in") /\ Send("shield_in", a_in, "recovering")
    /\ UNCHANGED <<ledgerVars, caller>>

Recover ==
    /\ pc = "done"
    /\ \/ a_in > 0 /\ Tries("in") /\ Send("shield_in", a_in, "recovering")
       \/ a_out > 0 /\ Tries("out") /\ Send("shield_out", a_out, "recovering")
    /\ UNCHANGED <<ledgerVars, caller>>

Recovered ==
    /\ pc = "recovering" /\ Included
    /\ Local(/\ IF txs[Len(txs)].kind = "shield_in" THEN Fold("in") ELSE Fold("out")
             /\ pc' = "done"
             /\ UNCHANGED <<result, faults>>)

RecoveryFails ==
    /\ pc = "recovering" /\ WaitFails
    /\ Local(pc' = "done" /\ UNCHANGED <<result, cache, known>>)

-----------------------------------------------------------------------------
Sequence == \E i \in 1 .. Len(txs) : Include(i) \/ Reject(i)
LoseSome == \E i \in 1 .. Len(txs) : Lose(i)

CallStep ==
    \/ Deshield \/ Deshielded
    \/ InitHolding \/ HoldingInitialised
    \/ AlignLegs
    \/ Swap \/ Swapped \/ SwapFails
    \/ Rollback \/ RolledBack
    \/ ReadOutput \/ Reshielded
    \/ Fails

UserStep == Sync \/ Recover \/ Recovered \/ RecoveryFails

Next == CallStep \/ UserStep \/ Crash \/ Sequence \/ LoseSome \/ Compete

Spec == Init /\ [][Next]_vars

(* The sequencer keeps making blocks, the process keeps running unless it   *)
(* crashes, the wallet is synced, and the user does shield what is left.    *)
FairSpec ==
    Spec /\ WF_vars(Sequence) /\ WF_vars(CallStep) /\ WF_vars(UserStep) /\ WF_vars(Sync)

=============================================================================
