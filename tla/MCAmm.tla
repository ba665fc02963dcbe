-------------------------------- MODULE MCAmm --------------------------------
(* A pool of amounts below 64, a fee of a quarter and a lock of 2, driven    *)
(* for MaxOps transactions.                                                *)
EXTENDS AmmSafety

CONSTANTS MaxOps, PerUser

VARIABLE ops

MCInitialBalance == [u \in Users |-> [s \in Side |-> PerUser]]

MCInit == Init /\ ops = 0

Counted(A) == ops < MaxOps /\ A /\ ops' = ops + 1

MCNext ==
    \/ AdvanceClock /\ UNCHANGED ops
    \/ Counted(DoNewDefinition)
    \/ Counted(DoAddLiquidity)
    \/ Counted(DoRemoveLiquidity)
    \/ Counted(DoSwapExactInput)
    \/ Counted(DoSwapExactInputCircuit)
    \/ Counted(DoSwapExactOutput)
    \/ Counted(SyncReserves)
    \/ Counted(DoTokenTransfer)
    \/ Counted(DoBurnLp)

MCSpec == MCInit /\ [][MCNext]_<<vars, ops>>
=============================================================================
