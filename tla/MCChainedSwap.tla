---------------------------- MODULE MCChainedSwap ----------------------------
(* Two proofs of one user over a pool of 6 A and 5 WLEZ, one unit of A left  *)
(* over in a single-use holding, and the others' WLEZ in the supply.         *)
EXTENDS ChainedSwapSafety, TLC

CONSTANTS j1, j2

Symmetry == Permutations(Jobs)

MCInitialLedger ==
    [a \in Account |->
        IF a = "pool" THEN [reserve |-> [s \in Side |-> IF s = "A" THEN 6 ELSE 5],
                            cum_volume |-> [s \in Side |-> 0],
                            cum_fees |-> [s \in Side |-> 0]]
        ELSE IF a \in Wlez THEN 12
        ELSE IF a = Vault["A"] THEN 6
        ELSE IF a = Vault["B"] THEN 5
        ELSE IF a = Single["A"] THEN 1
        ELSE IF a = Single["B"] THEN 0
        ELSE IF a = User["A"] THEN 5
        ELSE 4]

=============================================================================
