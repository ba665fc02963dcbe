-------------------------- MODULE ChainedSwapSafety --------------------------
(* What the swaps that run as one transaction promise.                      *)
EXTENDS ChainedSwap

(* Swaps that were proved on an older state, one after another or at once,  *)
(* and everything others do, leave the vaults able to pay the reserves and  *)
(* the WLEZ in circulation.                                                *)
LedgerSolvent == Solvent(ledger)

(* The long proof is not made in vain: the calls find what the handler      *)
(* declared, and what it no longer checks (the vaults, the supply, the      *)
(* AMM's own price) holds, so that only a user who cannot pay is refused.   *)
Funded(j) ==
    /\ proof[j].start[proof[j].from] >= proof[j].amount
    /\ \A a \in Balance :
          Fits(proof[j].start[a] + proof[j].amount + proof[j].start["pool"].reserve["A"]
                 + proof[j].start["pool"].reserve["B"])
AbortsOnlyUnfunded ==
    \A j \in Jobs : proof[j].stage = "aborted" => ~Funded(j)

(* Five calls, the pool's own update and the check at inclusion make up one *)
(* whole swap at the price of the pool that it meets.                      *)
ChainIsAtomic == AtomicSpec

==============================================================================
