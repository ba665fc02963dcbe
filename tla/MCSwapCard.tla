----------------------------- MODULE MCSwapCard -----------------------------
(* Two fee tiers, each with a pool of either leg order, or with none yet.    *)
(* An untouched pool pays around what the doubles of the configuration      *)
(* count exactly; one that has been traded in pays less.  The first bound   *)
(* of the CLI may so exceed the quote, and at a slippage of 80 a later one   *)
(* fall a unit short.                                                      *)
EXTENDS SwapCard

MCDeposits == {[own |-> 2, other |-> 301]}
MCInitialCard == [pay |-> "X", amount |-> 16, fee |-> 3]
MCSlips == {0, 10 * F64_ONE, 80 * F64_ONE}
MCSteps == {1, 2, 4, 8, 16, 32, 64, 128, 256, 512, 1024, 2 ^ 11, 2 ^ 12, 2 ^ 13, 2 ^ 14,
            2 ^ 15, 2 ^ 16, 2 ^ 17, 2 ^ 18, 2 ^ 19, 2 ^ 20, 2 ^ 21, 2 ^ 22, 2 ^ 23, 2 ^ 24,
            2 ^ 25, 2 ^ 26, 2 ^ 27, 2 ^ 28, 2 ^ 29, 2 ^ 30}

=============================================================================
