-------------------------- MODULE PoolOracleHistory --------------------------
(***************************************************************************)
(* PoolOracle with two history variables, to state what its readers rely   *)
(* on: the time integral of the price that really held, and whether the     *)
(* reserves ever moved in the middle of an interval the oracle had not yet  *)
(* accumulated.                                                            *)
(***************************************************************************)
EXTENDS PoolOracle

VARIABLES
    integral,   \* integral[t + 1]: the integral of each price up to time t
    blind_move  \* reserves moved with no update since the last block

historyVars == <<integral, blind_move>>
allVars == <<vars, historyVars>>

Modulus == Q64 * Q64

(* The price that holds now, as the integral counts it: an interval with a *)
(* reserve of 0 or outside the Q64.64 domain counts nothing, by design.    *)
HeldPrice(s) ==
    IF pool_exists /\ InDomain /\ \A t \in Side : reserve[t] # 0
    THEN Price(s) ELSE 0

HInit ==
    /\ Init
    /\ integral = << [s \in Side |-> 0] >>
    /\ blind_move = FALSE

HAdvanceClock ==
    /\ AdvanceClock
    /\ integral' =
          Append(integral,
                 [s \in Side |-> (integral[clock + 1][s] + HeldPrice(s)) % Modulus])
    /\ UNCHANGED blind_move

HCreate == Create /\ UNCHANGED historyVars

HMutate == Mutate /\ UNCHANGED historyVars

HMutateWithoutOracle ==
    /\ MutateWithoutOracle
    /\ blind_move' = (blind_move \/ (clock > block_ts_last /\ reserve' # reserve))
    /\ UNCHANGED integral

HNext == HAdvanceClock \/ HCreate \/ HMutate \/ HMutateWithoutOracle

HSpec == HInit /\ [][HNext]_allVars

-----------------------------------------------------------------------------
(* What a chart computes from two observations: the difference of the      *)
(* accumulators, modulo 2^128, is the integral of the price over the        *)
(* interval between them.  oracle_update and the doc of the ring say "exact *)
(* and gapless".                                                           *)
TwapExact(i, j) ==
    \A s \in Side :
        (obs[j].cum[s] - obs[i].cum[s]) % Modulus =
        (integral[obs[j].ts + 1][s] - integral[obs[i].ts + 1][s]) % Modulus

ObservationsExact ==
    \A i, j \in 1 .. Len(obs) : i < j => TwapExact(i, j)

(* Observations are exact as long as no swap without the oracle moved the  *)
(* reserves in a block after the last update.  A circuit swap in the block  *)
(* of the last update, or before any time has passed, does no harm.         *)
ObservationsExactUnlessBlind == ~blind_move => ObservationsExact

(* A reader may extrapolate: the stored accumulator plus the price now     *)
(* held since block_ts_last is the integral up to now.  The next update     *)
(* closes the books on the same amount whichever instruction makes it.      *)
AccumulatorCatchesUp ==
    (obs # <<>> /\ USES_CLOCK /\ ~blind_move) =>
        \A s \in Side :
            (price_cum_last[s] + HeldPrice(s) * (clock - block_ts_last)
                - obs[1].cum[s]) % Modulus =
            (integral[clock + 1][s] - integral[obs[1].ts + 1][s]) % Modulus

(* The ring is within its capacity and in strictly increasing time, and its *)
(* last entry is the accumulator: the oldest entries go, never the newest.  *)
RingOrdered ==
    /\ Len(obs) <= ORACLE_RING_CAP
    /\ \A i, j \in 1 .. Len(obs) : i < j => obs[i].ts < obs[j].ts
    /\ obs # <<>> => /\ obs[Len(obs)].ts <= block_ts_last
                     /\ obs[Len(obs)].cum = price_cum_last

=============================================================================
