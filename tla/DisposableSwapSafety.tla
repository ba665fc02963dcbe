------------------------ MODULE DisposableSwapSafety ------------------------
(***************************************************************************)
(* What the doc comment of ldex_amm_v2_disposable_swap promises: no loss,   *)
(* at most one spend, the slippage bound, and a rollback.                   *)
(***************************************************************************)
EXTENDS DisposableSwap

DeshieldIncluded ==
    \E i \in 1 .. Len(txs) : txs[i].kind = "deshield" /\ txs[i].status = "included"

(* The user's value, read off the ledger: any mixture that is not one of    *)
(* these is a loss or a double spend.                                      *)
place ==
    CASE private = [in |-> SwapAmountIn, out |-> 0] /\ a_in = 0 /\ a_out = 0
            -> IF DeshieldIncluded THEN "restored" ELSE "kept"
      [] private = [in |-> 0, out |-> 0] /\ a_in = SwapAmountIn /\ a_out = 0
            -> "exposed"
      [] private = [in |-> 0, out |-> 0] /\ a_in = 0 /\ a_out > 0
            -> "bought"
      [] private.in = 0 /\ private.out > 0 /\ a_in = 0 /\ a_out = 0
            -> "received"
      [] OTHER -> "lost"

Promise == INSTANCE Exchange WITH got <- private.out + a_out

(* Funds are never destroyed: through every interleaving of the call, its   *)
(* late transactions, the rollback, a crash and the user's own recovery the *)
(* value is in one place, is spent once at no less than min_amount_out, and *)
(* a swap that arrives after the rollback does nothing.                    *)
ExchangeSpec == Promise!Spec

(* "ok" is only returned when the whole output is private again, nothing    *)
(* is left in the single-use holdings, and the wallet's own balances are    *)
(* those of the chain.                                                     *)
OkMeansReceived ==
    result = "ok" => place = "received" /\ cache = private

(* When nothing is lost, times out or crashes, a call that returns an error *)
(* has given the input back: "if the public swap fails (e.g. slippage), the *)
(* deshielded input is re-shielded back to user_in".                       *)
NoLoss == (faults = 0 /\ result = "err") => place \in {"restored", "received"}

(* The same, for a caller who leaves a_out uninitialised, with its key in     *)
(* the wallet, and whose pool was there: whatever competitors do to the     *)
(* price, the call gets as far as the swap, and the rollback succeeds.       *)
NoLossIfReady == (~caller.inits /\ caller.key /\ caller.pool) => NoLoss

(* Whatever happened, the value ends up private: what is left in a public   *)
(* holding "is recoverable via ldex_token_shield", and stays so while a     *)
(* late swap may still take it.                                            *)
Settles == <>[](pc = "done" /\ place \in {"kept", "restored", "received"})

=============================================================================
