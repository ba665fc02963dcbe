-------------------------- MODULE MCDisposableSwap --------------------------
(* A swap of 8 for at least 2 in a pool that competitors may leave where it  *)
(* buys 3, 2, 1 or, the output rounded down to 0, nothing.                 *)
EXTENDS DisposableSwapSafety

MCPoolReserves ==
    {[in |-> 8, out |-> 8], [in |-> 10, out |-> 7],
     [in |-> 20, out |-> 5], [in |-> 30, out |-> 2]}

(* Callers of every kind; and those with the key of a_out of whom one has     *)
(* initialised it himself, and one asks for a pool that does not exist.     *)
MCCallers == [inits : BOOLEAN, key : BOOLEAN, pool : BOOLEAN]
MCUnready == {[inits |-> TRUE, key |-> TRUE, pool |-> TRUE],
              [inits |-> FALSE, key |-> TRUE, pool |-> FALSE]}
=============================================================================
