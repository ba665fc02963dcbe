----------------------------- MODULE PoolOracle -----------------------------
(***************************************************************************)
(* The on-chain price oracle of one pool: the time integral of the price    *)
(* of each token in the other, kept in the pool account, and a bounded ring *)
(* of observations of it.  This module says what the oracle promises       *)
(* whatever the reserves do: a public instruction first calls               *)
(* oracle_update with the clock account's timestamp and then changes the    *)
(* reserves; the privacy variants change the reserves without calling it.   *)
(* The reserves are the environment's here and may become 0, as the method *)
(* allows; Amm.tla implements this specification and shows they never do.  *)
(*                                                                         *)
(* Prices are Q64.64 fixed point and the accumulators wrap at 2^128; Q64    *)
(* stands for 2^64, which is also the largest reserve plus one that the     *)
(* oracle accepts.                                                         *)
(***************************************************************************)
EXTENDS Integers, Sequences

CONSTANTS
    Q64,              \* 2^64
    ORACLE_RING_CAP,  \* 64 in the program
    USES_CLOCK,       \* TRUE for amm; amm_v2 passes 0 for the clock
    MaxClock,         \* bound of the clock, for model checking
    ReserveValues     \* reserves the environment may set

ASSUME PoolOracleAssumption ==
    /\ Q64 \in Nat \ {0}
    /\ ORACLE_RING_CAP \in Nat \ {0}
    /\ USES_CLOCK \in BOOLEAN
    /\ MaxClock \in Nat
    /\ ReserveValues \subseteq Nat

VARIABLES
    pool_exists,    \* the pool account holds a PoolDefinition
    reserve,        \* reserve_a, reserve_b
    price_cum_last, \* price_a_cum_last, price_b_cum_last
    block_ts_last,  \* clock of the last oracle update
    obs,            \* ring of observations
    clock           \* timestamp in the clock account

oracleVars == <<price_cum_last, block_ts_last, obs>>
vars == <<pool_exists, reserve, price_cum_last, block_ts_last, obs, clock>>

Side == {"A", "B"}
Other(s) == IF s = "A" THEN "B" ELSE "A"

Observation == [ts : Nat, cum : [Side -> Nat]]

(* The timestamp an instruction hands to oracle_update.                    *)
ClockArg == IF USES_CLOCK THEN clock ELSE 0

(* price A in B and price B in A, rounded down.                            *)
Price(s) == (reserve[Other(s)] * Q64) \div reserve[s]

InDomain == \A s \in Side : reserve[s] < Q64

(* Variant: a full ring drops the observation just pushed.                 *)
Oldest(ring) ==
    IF Len(ring) > ORACLE_RING_CAP THEN SubSeq(ring, 1, ORACLE_RING_CAP) ELSE ring

Newest(ring) ==
    IF Len(ring) > ORACLE_RING_CAP
    THEN SubSeq(ring, Len(ring) - ORACLE_RING_CAP + 1, Len(ring))
    ELSE ring

-----------------------------------------------------------------------------
(* The branches of oracle_update, in the order the code tests them.        *)

Rebase(now) ==
    /\ block_ts_last' = now
    /\ UNCHANGED <<price_cum_last, obs>>

Accumulate(now) ==
    /\ price_cum_last' =
          [s \in Side |-> (price_cum_last[s] + Price(s) * (now - block_ts_last))
                              % (Q64 * Q64)]
    /\ block_ts_last' = now
    /\ obs' = Newest(Append(obs, [ts |-> now, cum |-> price_cum_last']))

(* Variant: an interval outside the domain returns before the timestamp     *)
(* moves, so that the next update charges it at another price.             *)
OracleUpdateStuck(now) ==
    \/ /\ \A s \in Side : reserve[s] # 0
       /\ now > block_ts_last
       /\ InDomain
       /\ Accumulate(now)
    \/ /\ ~InDomain \/ now <= block_ts_last
       /\ UNCHANGED oracleVars

OracleUpdate(now) ==
    \/ /\ \E s \in Side : reserve[s] = 0
       /\ Rebase(now)
    \/ /\ \A s \in Side : reserve[s] # 0
       /\ now <= block_ts_last
       /\ UNCHANGED oracleVars
    \/ /\ \A s \in Side : reserve[s] # 0
       /\ now > block_ts_last
       /\ ~InDomain
       /\ Rebase(now)
    \/ /\ \A s \in Side : reserve[s] # 0
       /\ now > block_ts_last
       /\ InDomain
       /\ Accumulate(now)

-----------------------------------------------------------------------------
Init ==
    /\ pool_exists = FALSE
    /\ reserve = [s \in Side |-> 0]
    /\ price_cum_last = [s \in Side |-> 0]
    /\ block_ts_last = 0
    /\ obs = <<>>
    /\ clock = 0

(* The sequencer writes the next block's timestamp.                        *)
AdvanceClock ==
    /\ clock < MaxClock
    /\ clock' = clock + 1
    /\ UNCHANGED <<pool_exists, reserve, oracleVars>>

Create ==
    /\ ~pool_exists
    /\ pool_exists' = TRUE
    /\ reserve' \in [Side -> ReserveValues \ {0}]
    /\ block_ts_last' = ClockArg
    /\ price_cum_last' = [s \in Side |-> 0]
    /\ obs' = <<>>
    /\ UNCHANGED clock

(* A public instruction: swap, add, remove, sync.                          *)
Mutate ==
    /\ pool_exists
    /\ OracleUpdate(ClockArg)
    /\ reserve' \in [Side -> ReserveValues]
    /\ UNCHANGED <<pool_exists, clock>>

(* A swap that carries no clock account: SwapExactInputCircuit.            *)
MutateWithoutOracle ==
    /\ pool_exists
    /\ reserve' \in [Side -> ReserveValues]
    /\ UNCHANGED <<pool_exists, oracleVars, clock>>

Next == AdvanceClock \/ Create \/ Mutate \/ MutateWithoutOracle

Spec == Init /\ [][Next]_vars

=============================================================================
