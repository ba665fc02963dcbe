---------------------------- MODULE MCPoolOracle ----------------------------
(* A small oracle: reserves 0, 1, 3 and 4 around Q64 = 4, so that a reserve can    *)
(* leave the Q64.64 domain and the accumulators wrap within a few blocks.   *)
EXTENDS PoolOracleHistory

MCReserveValues == {0, 1, 3, 4}
=============================================================================
