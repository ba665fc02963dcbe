----------------------- MODULE DisposableSwapTheorems -----------------------
(***************************************************************************)
(* The safety of the disposable swap for every amount, slippage bound, fee   *)
(* tier and behaviour of the competitors, and any number of faults.         *)
(***************************************************************************)
EXTENDS DisposableSwapSafety, ArithmeticTheorems, SequenceTheorems

(* The five places the user's value can be in.                             *)
Kept == /\ ~DeshieldIncluded
        /\ private = [in |-> SwapAmountIn, out |-> 0] /\ a_in = 0 /\ a_out = 0
Exposed == /\ DeshieldIncluded
           /\ private = [in |-> 0, out |-> 0] /\ a_in = SwapAmountIn /\ a_out = 0
Restored == /\ DeshieldIncluded
            /\ private = [in |-> SwapAmountIn, out |-> 0] /\ a_in = 0 /\ a_out = 0
Bought == /\ DeshieldIncluded
          /\ private = [in |-> 0, out |-> 0] /\ a_in = 0
          /\ a_out > 0 /\ a_out >= MinAmountOut
Received == /\ DeshieldIncluded
            /\ private.in = 0 /\ private.out > 0 /\ private.out >= MinAmountOut
            /\ a_in = 0 /\ a_out = 0

OnePlace == Kept \/ Exposed \/ Restored \/ Bought \/ Received

CallTypeOK ==
    /\ pc \in Stages
    /\ result \in {"none", "ok", "err", "crashed"}
    /\ private \in [in : Nat, out : Nat]
    /\ note \in [in : Nat, out : Nat]
    /\ cache \in [in : Nat, out : Nat]
    /\ known \in [in : Nat, out : Nat]
    /\ a_in \in Nat
    /\ a_out \in Nat
    /\ a_out_owned \in BOOLEAN
    /\ caller \in [inits : BOOLEAN, key : BOOLEAN, pool : BOOLEAN]
    /\ pool_exists \in BOOLEAN
    /\ reserves \in [in : Nat \ {0}, out : Nat \ {0}]
    /\ txs \in Seq(Tx)
    /\ faults \in Nat

(* The call deshields first and once.                                      *)
DeshieldsOnce ==
    /\ pc = "start" => Len(txs) = 0
    /\ \A i \in 1 .. Len(txs) : txs[i].kind = "deshield" => i = 1

(* What the ledger has come to, whatever the call and the sequencer did.     *)
LedgerInv == CallTypeOK /\ OnePlace /\ DeshieldsOnce

Shield(tx) == tx.kind \in {"shield_in", "shield_out"}
Last == txs[Len(txs)]

(* The part of the call that succeeds: before anything is shielded, the     *)
(* value is not private, and what "ok" reports has been shielded.           *)
Unshielded == \A i \in 1 .. Len(txs) : ~Shield(txs[i])

CallInv ==
    /\ Unshielded => Kept \/ Exposed \/ Bought
    /\ \A i \in 1 .. Len(txs) :
          (txs[i].kind = "shield_out" /\ txs[i].status = "included" /\ txs[i].pre > 0)
              => Received
    /\ pc \in {"start", "deshielding", "init", "initialising", "align", "swap",
               "swapping", "read"} => Unshielded
    /\ pc \in {"start", "deshielding"} => cache.out = 0
    /\ pc = "deshielding" => Len(txs) > 0 /\ Last.kind = "deshield"
    /\ pc \in {"init", "initialising", "align", "swap", "swapping", "read", "reshielding"}
          => cache = [in |-> 0, out |-> 0]
    /\ pc = "reshielding" => Len(txs) > 0 /\ Last.kind = "shield_out" /\ Last.pre > 0
    /\ result = "ok" => pc = "done" /\ Received /\ cache = private

(* Without faults nothing is dropped but the swap, and the call always      *)
(* knows where the value is and which note the wallet has.                  *)
Waiting == {"deshielding", "initialising", "swapping", "rolling_back", "reshielding"}

Sent(kind) == Len(txs) > 0 /\ Last.kind = kind

(* What the call waits for would be included: it was made on the balance     *)
(* and the note that are there.                                            *)
Fresh(side, balance) == Last.status = "pending" /\ Last.pre = balance /\ Last.note = note[side]

Informed == known = note

(* The caller left a_out to the call, and the call finds what it needs.     *)
Ready == ~caller.inits /\ caller.key /\ caller.pool

Smooth ==
    /\ pool_exists
    /\ \A i \in 1 .. Len(txs) : Pending(i) => i = Len(txs) /\ pc \in Waiting
    /\ pc \in {"start", "deshielding", "init"} => ~a_out_owned
    /\ pc = "start" => Kept /\ Informed
    /\ pc = "deshielding" =>
          Sent("deshield") /\ \/ Fresh("in", 0) /\ Kept /\ Informed
                              \/ Last.status = "included" /\ Exposed /\ known.out = note.out
    /\ pc \in {"init", "initialising", "align", "swap", "rollback"} => Exposed /\ Informed
    /\ pc = "initialising" =>
          Sent("init") /\ \/ Last.status = "pending" /\ ~a_out_owned
                          \/ Last.status = "included"
    /\ pc = "swapping" =>
          Sent("swap") /\ Informed /\ \/ Last.status # "included" /\ Exposed
                                      \/ Last.status = "included" /\ Bought
    /\ pc = "rolling_back" =>
          Sent("shield_in") /\ \/ Fresh("in", a_in) /\ Exposed
                               \/ Last.status = "included" /\ Restored
    /\ pc = "read" => Bought /\ Informed
    /\ pc = "reshielding" =>
          Sent("shield_out") /\ \/ Fresh("out", a_out) /\ Bought
                                \/ Last.status = "included" /\ Received
    /\ pc # "recovering"
    /\ pc = "done" => Restored \/ Received
    /\ result = "err" => pc = "done"

SmoothInv == faults = 0 /\ Ready => Smooth

-----------------------------------------------------------------------------
(* The constants, and the list of transactions.                            *)

(* The call's amounts and the pools it may meet.                           *)
LEMMA CallConstants ==
    /\ SwapAmountIn \in Nat \ {0} /\ MinAmountOut \in Nat /\ Fees \in FEE_TIERS
    /\ PoolReserves \subseteq [in : Nat \ {0}, out : Nat \ {0}]
BY DisposableSwapAssumption

(* Transactions are of their type.                                         *)
LEMMA TxFacts ==
    ASSUME CallTypeOK
    PROVE  /\ Len(txs) \in Nat
           /\ \A i \in 1 .. Len(txs) : txs[i] \in Tx
BY ElementOfSeq, LenProperties DEF CallTypeOK

(* Deciding a transaction changes its status only.                         *)
LEMMA StatusFacts ==
    ASSUME CallTypeOK, NEW i \in 1 .. Len(txs),
           NEW status \in {"pending", "included", "dropped"}, SetStatus(i, status)
    PROVE  /\ txs' \in Seq(Tx)
           /\ Len(txs') = Len(txs)
           /\ txs'[i].kind = txs[i].kind /\ txs'[i].pre = txs[i].pre
           /\ txs'[i].note = txs[i].note /\ txs'[i].status = status
           /\ \A j \in 1 .. Len(txs) \ {i} : txs'[j] = txs[j]
<1> DEFINE tx == [txs[i] EXCEPT !.status = status]
<1>1. /\ tx \in Tx /\ tx.kind = txs[i].kind /\ tx.pre = txs[i].pre
      /\ tx.note = txs[i].note /\ tx.status = status
    BY TxFacts DEF Tx
<1>2. txs' = [txs EXCEPT ![i] = tx]
    BY DEF SetStatus
<1> HIDE DEF tx
<1>3. /\ txs' \in Seq(Tx) /\ Len(txs') = Len(txs)
      /\ \A j \in 1 .. Len(txs) : txs'[j] = IF j = i THEN tx ELSE txs[j]
    BY <1>1, <1>2, ExceptSeq DEF CallTypeOK
<1> QED
    BY <1>1, <1>3

(* Sending adds one transaction, pending, at the end.                      *)
LEMMA SendFacts ==
    ASSUME CallTypeOK, NEW kind \in Kinds, NEW pre \in Nat, NEW next, Send(kind, pre, next)
    PROVE  /\ txs' \in Seq(Tx)
           /\ Len(txs') = Len(txs) + 1
           /\ Len(txs') \in 1 .. Len(txs')
           /\ txs'[Len(txs')].kind = kind
           /\ txs'[Len(txs')].pre = pre
           /\ txs'[Len(txs')].note = known[Side(kind)]
           /\ txs'[Len(txs')].status = "pending"
           /\ \A j \in 1 .. Len(txs) : txs'[j] = txs[j] /\ j \in 1 .. Len(txs')
           /\ \A j \in 1 .. Len(txs') : j \in 1 .. Len(txs) \/ j = Len(txs')
<1> DEFINE tx == [kind |-> kind, pre |-> pre, note |-> known[Side(kind)], status |-> "pending"]
<1>1. /\ tx \in Tx /\ tx.kind = kind /\ tx.pre = pre /\ tx.note = known[Side(kind)]
      /\ tx.status = "pending"
    BY DEF Tx, Side, CallTypeOK
<1>2. txs' = Append(txs, tx) /\ txs \in Seq(Tx) /\ Len(txs) \in Nat
    BY TxFacts DEF Send, CallTypeOK
<1> HIDE DEF tx
<1>3. /\ txs' \in Seq(Tx) /\ Len(txs') = Len(txs) + 1
      /\ txs'[Len(txs) + 1] = tx
      /\ \A j \in 1 .. Len(txs) : txs'[j] = txs[j]
    BY <1>1, <1>2, AppendProperties
<1> QED
    BY <1>1, <1>2, <1>3

(* A swap that is included pays something, at least min_amount_out, and     *)
(* never the whole reserve.                                                *)
LEMMA SwapPays ==
    ASSUME CallTypeOK, SwapValid
    PROVE  /\ AmountOut \in Nat
           /\ AmountOut > 0
           /\ AmountOut >= MinAmountOut
           /\ AmountOut < reserves.out
<1>1. reserves.in \in Nat \ {0} /\ reserves.out \in Nat \ {0} /\ SwapAmountIn \in Nat
    BY CallConstants DEF CallTypeOK
<1>2. AmountOut \in Nat /\ AmountOut < reserves.out
    BY <1>1, CallConstants, ExactInputFacts DEF AmountOut
<1>3. AmountOut # 0 /\ AmountOut >= MinAmountOut
    BY DEF SwapValid, ExactInputOk, AmountOut
<1> QED
    BY <1>2, <1>3

-----------------------------------------------------------------------------
(* What including a transaction does to the user's value.                  *)

(* Only the first transaction's inclusion counts as the deshield.          *)
LEMMA SameDeshield ==
    ASSUME CallTypeOK, NEW i \in 1 .. Len(txs), Pending(i),
           \/ SetStatus(i, "dropped")
           \/ SetStatus(i, "included") /\ txs[i].kind # "deshield"
    PROVE  DeshieldIncluded' = DeshieldIncluded
<1>1. /\ Len(txs') = Len(txs)
      /\ txs'[i].kind = txs[i].kind
      /\ txs'[i].status = "included" => txs[i].kind # "deshield"
      /\ \A j \in 1 .. Len(txs) \ {i} : txs'[j] = txs[j]
    BY StatusFacts
<1>2. txs[i].status # "included"
    BY DEF Pending
<1> QED
    BY <1>1, <1>2 DEF DeshieldIncluded

(* Sending decides nothing.                                                *)
LEMMA SameDeshieldSent ==
    ASSUME CallTypeOK, NEW kind \in Kinds, NEW pre \in Nat, NEW next, Send(kind, pre, next)
    PROVE  DeshieldIncluded' = DeshieldIncluded
<1>1. /\ Len(txs') = Len(txs) + 1
      /\ txs'[Len(txs')].status = "pending"
      /\ \A j \in 1 .. Len(txs) : txs'[j] = txs[j] /\ j \in 1 .. Len(txs')
      /\ \A j \in 1 .. Len(txs') : j \in 1 .. Len(txs) \/ j = Len(txs')
    BY SendFacts
<1> QED
    BY <1>1 DEF DeshieldIncluded

SamePlace == /\ Kept' = Kept /\ Exposed' = Exposed /\ Restored' = Restored
             /\ Bought' = Bought /\ Received' = Received

(* The place depends on these alone.                                       *)
LEMMA PlaceStays ==
    ASSUME UNCHANGED <<private, a_in, a_out>>, DeshieldIncluded' = DeshieldIncluded
    PROVE  SamePlace
BY DEF SamePlace, Kept, Exposed, Restored, Bought, Received

(* What the inclusion of each transaction does to the place of the value.  *)
LEMMA IncludeMoves ==
    ASSUME LedgerInv, NEW i \in 1 .. Len(txs), Include(i)
    PROVE  \/ txs[i].kind = "deshield" /\ Kept /\ Exposed'
           \/ txs[i].kind = "swap" /\ Exposed /\ Bought'
           \/ txs[i].kind = "shield_in" /\ Exposed /\ Restored'
           \/ /\ txs[i].kind = "shield_out" /\ txs[i].pre > 0 /\ Bought /\ Received'
              /\ private'.out + a_out' = private.out + a_out
           \/ /\ txs[i].kind \in {"init", "shield_in", "shield_out"}
              /\ txs[i].kind = "shield_out" => txs[i].pre = 0
              /\ SamePlace
              /\ UNCHANGED <<private, a_in, a_out>>
<1> USE CallConstants
<1>1. /\ Pending(i) /\ Valid(txs[i]) /\ SetStatus(i, "included")
      /\ txs[i] \in Tx /\ txs[i].pre \in Nat
      /\ private \in [in : Nat, out : Nat] /\ a_in \in Nat /\ a_out \in Nat
    BY TxFacts DEF Include, LedgerInv, CallTypeOK, Tx
<1>2. /\ Len(txs') = Len(txs) /\ txs'[i].kind = txs[i].kind /\ txs'[i].status = "included"
      /\ \A j \in 1 .. Len(txs) \ {i} : txs'[j] = txs[j]
    BY <1>1, StatusFacts DEF LedgerInv
<1>3. CASE IncludeDeshield(i)
    <2>1. Kept
        <3>1. DeshieldIncluded => i = i /\ Pending(i) /\ ~Pending(1) /\ i = 1
            BY <1>1, <1>3 DEF DeshieldIncluded, IncludeDeshield, LedgerInv, DeshieldsOnce, Pending
        <3> QED
            BY <3>1, <1>1, <1>3
               DEF LedgerInv, OnePlace, Kept, Exposed, Restored, Bought, Received
    <2>2. DeshieldIncluded'
        BY <1>2, <1>3 DEF DeshieldIncluded, IncludeDeshield
    <2> QED
        BY <1>1, <1>3, <2>1, <2>2 DEF Kept, Exposed, IncludeDeshield
<1>4. CASE IncludeInit(i)
    <2>1. DeshieldIncluded' = DeshieldIncluded
        BY <1>1, <1>4, SameDeshield DEF IncludeInit, LedgerInv
    <2> QED
        BY <1>4, <2>1, PlaceStays DEF IncludeInit
<1>5. CASE IncludeSwap(i)
    <2>1. SwapValid
        BY <1>1, <1>5 DEF Valid, IncludeSwap
    <2>2. AmountOut \in Nat /\ AmountOut > 0 /\ AmountOut >= MinAmountOut
        BY <2>1, SwapPays DEF LedgerInv
    <2>3. DeshieldIncluded' = DeshieldIncluded
        BY <1>1, <1>5, SameDeshield DEF IncludeSwap, LedgerInv
    <2>4. Exposed
        BY <1>1, <2>1 DEF SwapValid, LedgerInv, OnePlace, Kept, Exposed, Restored, Bought, Received
    <2> HIDE DEF AmountOut
    <2> QED
        BY <1>5, <2>2, <2>3, <2>4 DEF Exposed, Bought, IncludeSwap
<1>6. CASE IncludeShieldIn(i)
    <2>1. txs[i].kind = "shield_in" /\ txs[i].pre = a_in
        BY <1>1, <1>6 DEF Valid, IncludeShieldIn
    <2>2. DeshieldIncluded' = DeshieldIncluded
        BY <1>1, <2>1, SameDeshield DEF LedgerInv
    <2>3. CASE a_in = 0
        <3>1. UNCHANGED <<private, a_in, a_out>>
            BY <1>1, <1>6, <2>1, <2>3 DEF IncludeShieldIn
        <3> QED
            BY <2>1, <2>2, <3>1, PlaceStays
    <2>4. CASE a_in # 0
        <3>1. Exposed
            BY <2>4 DEF LedgerInv, OnePlace, Kept, Exposed, Restored, Bought, Received
        <3> QED
            BY <1>6, <2>1, <2>2, <3>1 DEF Exposed, Restored, IncludeShieldIn
    <2> QED
        BY <2>3, <2>4
<1>7. CASE IncludeShieldOut(i)
    <2>1. txs[i].kind = "shield_out" /\ txs[i].pre = a_out
        BY <1>1, <1>7 DEF Valid, IncludeShieldOut
    <2>2. DeshieldIncluded' = DeshieldIncluded
        BY <1>1, <2>1, SameDeshield DEF LedgerInv
    <2>3. CASE a_out = 0
        <3>1. UNCHANGED <<private, a_in, a_out>>
            BY <1>1, <1>7, <2>1, <2>3 DEF IncludeShieldOut
        <3> QED
            BY <2>1, <2>2, <2>3, <3>1, PlaceStays
    <2>4. CASE a_out # 0
        <3>1. Bought
            BY <2>4 DEF LedgerInv, OnePlace, Kept, Exposed, Restored, Bought, Received
        <3> QED
            BY <1>1, <1>7, <2>1, <2>2, <2>4, <3>1 DEF Bought, Received, IncludeShieldOut
    <2> QED
        BY <2>3, <2>4
<1> QED
    BY <1>3, <1>4, <1>5, <1>6, <1>7 DEF Include

(* The call, its caller and a crash touch nothing but the call's own state,  *)
(* and send a transaction at most.                                         *)
CallMove ==
    /\ UNCHANGED <<ledgerVars, caller>>
    /\ pc' \in Stages \ {"start"}
    /\ result' \in {"none", "ok", "err", "crashed"}
    /\ cache' \in [in : Nat, out : Nat]
    /\ known' \in [in : Nat, out : Nat]
    /\ faults' \in Nat
    /\ \/ UNCHANGED txs
       \/ \E kind \in Kinds, pre \in Nat, next \in Stages :
             Send(kind, pre, next) /\ (kind = "deshield" => Len(txs) = 0)

(* A fault is counted.                                                     *)
LEMMA FaultCounts ==
    ASSUME CallTypeOK, Fault
    PROVE  faults' \in Nat /\ faults' > faults /\ faults' # 0
BY DEF CallTypeOK, Fault

(* The call itself moves nothing: it sends.                                *)
LEMMA CallMoves ==
    ASSUME LedgerInv, CallStep \/ UserStep \/ Crash
    PROVE  CallMove
<1> USE DEF LedgerInv, CallTypeOK, Stages, Kinds, ledgerVars
<1>1. ASSUME NEW kind \in Kinds, NEW pre \in Nat, NEW next \in Stages \ {"start"},
             Send(kind, pre, next), UNCHANGED <<ledgerVars, caller>>, faults' \in Nat,
             kind = "deshield" => Len(txs) = 0
      PROVE  CallMove
    BY <1>1 DEF CallMove, Send
<1>2. ASSUME NEW side \in {"in", "out"}, Fold(side)
      PROVE  cache' \in [in : Nat, out : Nat] /\ known' \in [in : Nat, out : Nat]
    BY <1>2 DEF Fold
<1>3. CASE Deshield
    BY <1>1, <1>3 DEF Deshield, DeshieldsOnce
<1>4. CASE Deshielded
    BY <1>2, <1>4 DEF Deshielded, Local, CallMove
<1>5. CASE InitHolding
    BY <1>1, <1>5 DEF InitHolding, Local, Return, CallMove
<1>6. CASE HoldingInitialised \/ AlignLegs \/ Swapped
    BY <1>6 DEF HoldingInitialised, AlignLegs, Swapped, Local, Return, CallMove
<1>7. CASE Swap
    BY <1>1, <1>7 DEF Swap
<1>8. CASE SwapFails
    BY <1>8, FaultCounts DEF SwapFails, WaitFails, Local, CallMove
<1>9. CASE Rollback
    BY <1>1, <1>9 DEF Rollback, Local, Return, CallMove
<1>10. CASE RolledBack
    BY <1>2, <1>10 DEF RolledBack, Local, Return, CallMove
<1>11. CASE ReadOutput
    BY <1>1, <1>11 DEF ReadOutput, Local, Return, CallMove
<1>12. CASE Reshielded
    BY <1>2, <1>12 DEF Reshielded, Local, Return, CallMove
<1>13. CASE Fails
    BY <1>13, FaultCounts DEF Fails, WaitFails, Local, Return, CallMove
<1>14. CASE Recover
    BY <1>1, <1>14, FaultCounts DEF Recover, Tries
<1>15. CASE Recovered
    BY <1>2, <1>15 DEF Recovered, Local, CallMove
<1>16. CASE RecoveryFails
    BY <1>16, FaultCounts DEF RecoveryFails, WaitFails, Local, CallMove
<1>17. CASE Crash
    BY <1>17, FaultCounts DEF Crash, Local, Return, CallMove
<1>18. CASE Sync
    BY <1>18 DEF Sync, CallMove
<1> QED
    BY <1>3, <1>4, <1>5, <1>6, <1>7, <1>8, <1>9, <1>10, <1>11, <1>12, <1>13, <1>14,
       <1>15, <1>16, <1>17, <1>18 DEF CallStep, UserStep

(* A transaction that is not included: rejected or lost.                    *)
Dropping(i) ==
    /\ Pending(i) /\ SetStatus(i, "dropped")
    /\ UNCHANGED <<ledgerVars, callVars, caller>>
    /\ \/ ~Valid(txs[i]) /\ UNCHANGED faults
       \/ Fault

(* Every step is one of these five.                                        *)
LEMMA StepKinds ==
    ASSUME LedgerInv, [Next]_vars
    PROVE  \/ CallStep \/ UserStep \/ Crash
           \/ \E i \in 1 .. Len(txs) : Include(i)
           \/ \E i \in 1 .. Len(txs) : Dropping(i)
           \/ Compete
           \/ UNCHANGED vars
BY DEF Next, Sequence, LoseSome, Reject, Lose, Dropping

(* Every step keeps the value in one place.                                *)
LEMMA LedgerStep ==
    ASSUME LedgerInv, [Next]_vars
    PROVE  LedgerInv'
<1> USE DEF LedgerInv
<1>1. CASE CallStep \/ UserStep \/ Crash
    <2>1. CallMove
        BY <1>1, CallMoves
    <2>2. CASE UNCHANGED txs
        <3>1. CallTypeOK' /\ DeshieldsOnce'
            BY <2>1, <2>2 DEF CallMove, CallTypeOK, DeshieldsOnce, ledgerVars
        <3>2. SamePlace
            BY <2>1, <2>2, PlaceStays DEF CallMove, DeshieldIncluded, ledgerVars
        <3> QED
            BY <3>1, <3>2 DEF SamePlace, OnePlace
    <2>3. CASE \E kind \in Kinds, pre \in Nat, next \in Stages :
                  Send(kind, pre, next) /\ (kind = "deshield" => Len(txs) = 0)
        <3> PICK kind \in Kinds, pre \in Nat, next \in Stages :
                Send(kind, pre, next) /\ (kind = "deshield" => Len(txs) = 0)
            BY <2>3
        <3>1. CallTypeOK'
            BY <2>1, SendFacts DEF CallMove, CallTypeOK, ledgerVars
        <3>2. SamePlace
            BY <2>1, SameDeshieldSent, PlaceStays DEF CallMove, ledgerVars
        <3>3. DeshieldsOnce'
            BY <2>1, SendFacts, TxFacts DEF CallMove, DeshieldsOnce
        <3> QED
            BY <3>1, <3>2, <3>3 DEF SamePlace, OnePlace
    <2> QED
        BY <2>1, <2>2, <2>3 DEF CallMove
<1>2. CASE \E i \in 1 .. Len(txs) : Include(i)
    <2> PICK i \in 1 .. Len(txs) : Include(i)
        BY <1>2
    <2>1. OnePlace'
        BY IncludeMoves DEF SamePlace, OnePlace
    <2>2. SetStatus(i, "included") /\ UNCHANGED <<callVars, caller, faults>>
        BY DEF Include
    <2>3. txs' \in Seq(Tx) /\ DeshieldsOnce'
        BY <2>2, StatusFacts DEF DeshieldsOnce, callVars
    <2>4. /\ private' \in [in : Nat, out : Nat] /\ a_in' \in Nat /\ a_out' \in Nat
        <3>1. MinAmountOut \in Nat /\ SwapAmountIn \in Nat
            BY CallConstants
        <3>2. CASE UNCHANGED <<private, a_in, a_out>>
            BY <3>2 DEF CallTypeOK
        <3>3. CASE Exposed' \/ Restored'
            BY <3>1, <3>3 DEF Exposed, Restored
        <3>4. CASE txs[i].kind = "swap"
            <4>1. SwapValid /\ IncludeSwap(i)
                BY <3>4 DEF Include, Valid, IncludeDeshield, IncludeInit, IncludeSwap,
                            IncludeShieldIn, IncludeShieldOut
            <4>2. AmountOut \in Nat
                BY <4>1, SwapPays
            <4> HIDE DEF AmountOut
            <4>3. /\ private' = private /\ a_in' = a_in - SwapAmountIn
                  /\ a_out' = a_out + AmountOut /\ a_in >= SwapAmountIn
                BY <4>1 DEF IncludeSwap, SwapValid
            <4>4. private \in [in : Nat, out : Nat] /\ a_in \in Nat /\ a_out \in Nat
                BY DEF CallTypeOK
            <4> QED
                BY ONLY <3>1, <4>2, <4>3, <4>4
        <3>5. CASE txs[i].kind = "shield_out"
            <4>1. IncludeShieldOut(i) /\ txs[i].pre = a_out
                BY <3>5 DEF Include, Valid, IncludeDeshield, IncludeInit, IncludeSwap,
                            IncludeShieldIn, IncludeShieldOut
            <4>2. /\ private' = [private EXCEPT !.out = @ + a_out]
                  /\ a_in' = a_in /\ a_out' = a_out - a_out
                BY <4>1 DEF IncludeShieldOut
            <4>3. private \in [in : Nat, out : Nat] /\ a_in \in Nat /\ a_out \in Nat
                BY DEF CallTypeOK
            <4> QED
                BY ONLY <4>2, <4>3
        <3>6. \/ UNCHANGED <<private, a_in, a_out>> \/ Exposed' \/ Restored'
              \/ txs[i].kind = "swap" \/ txs[i].kind = "shield_out"
            BY IncludeMoves
        <3> QED
            BY <3>2, <3>3, <3>4, <3>5, <3>6
    <2>5. /\ a_out_owned' \in BOOLEAN /\ pool_exists' \in BOOLEAN
          /\ note' \in [in : Nat, out : Nat]
        <3>1. /\ a_out_owned' = a_out_owned \/ a_out_owned' = TRUE
              /\ pool_exists' = pool_exists
              /\ \/ note' = note
                 \/ note' = [note EXCEPT !["in"] = @ + 1]
                 \/ note' = [note EXCEPT !["out"] = @ + 1]
            BY DEF Include, IncludeDeshield, IncludeInit, IncludeSwap, IncludeShieldIn,
                   IncludeShieldOut, NoteWritten
        <3>2. /\ a_out_owned \in BOOLEAN /\ pool_exists \in BOOLEAN
              /\ note \in [in : Nat, out : Nat]
            BY DEF CallTypeOK
        <3>3. a_out_owned' \in BOOLEAN /\ pool_exists' \in BOOLEAN
            BY ONLY <3>1, <3>2, Zenon
        <3>4. note' \in [in : Nat, out : Nat]
            BY ONLY <3>1, <3>2
        <3> QED
            BY <3>3, <3>4
    <2>6. reserves' \in [in : Nat \ {0}, out : Nat \ {0}]
        <3>1. CASE UNCHANGED reserves
            BY <3>1 DEF CallTypeOK
        <3>2. CASE IncludeSwap(i)
            <4>1. SwapValid
                BY <3>2 DEF Include, Valid, IncludeSwap
            <4>2. AmountOut \in Nat /\ AmountOut < reserves.out /\ SwapAmountIn \in Nat
                BY <4>1, SwapPays, CallConstants
            <4> HIDE DEF AmountOut
            <4>3. reserves' = [in |-> reserves.in + SwapAmountIn, out |-> reserves.out - AmountOut]
                BY <3>2 DEF IncludeSwap
            <4>4. reserves.in \in Nat \ {0} /\ reserves.out \in Nat \ {0}
                BY DEF CallTypeOK
            <4>5. reserves.in + SwapAmountIn \in Nat \ {0} /\ reserves.out - AmountOut \in Nat \ {0}
                BY ONLY <4>2, <4>4
            <4> QED
                BY <4>3, <4>5
        <3> QED
            BY <3>1, <3>2 DEF Include, IncludeDeshield, IncludeInit, IncludeShieldIn,
                              IncludeShieldOut
    <2> QED
        BY <2>1, <2>2, <2>3, <2>4, <2>5, <2>6 DEF CallTypeOK, callVars
<1>3. CASE \E i \in 1 .. Len(txs) : Dropping(i)
    <2> PICK i \in 1 .. Len(txs) : Dropping(i)
        BY <1>3
    <2>1. /\ Pending(i) /\ SetStatus(i, "dropped")
          /\ UNCHANGED <<ledgerVars, callVars, caller>>
          /\ faults' \in Nat
        BY FaultCounts DEF Dropping, CallTypeOK
    <2>2. txs' \in Seq(Tx) /\ DeshieldsOnce'
        BY <2>1, StatusFacts DEF DeshieldsOnce, callVars
    <2>3. CallTypeOK'
        BY <2>1, <2>2 DEF CallTypeOK, callVars, ledgerVars
    <2>4. SamePlace
        BY <2>1, SameDeshield, PlaceStays DEF ledgerVars
    <2> QED
        BY <2>2, <2>3, <2>4 DEF SamePlace, OnePlace
<1>4. CASE Compete
    <2>1. CallTypeOK' /\ DeshieldsOnce'
        BY <1>4, CallConstants DEF Compete, CallTypeOK, DeshieldsOnce, callVars
    <2>2. SamePlace
        BY <1>4, PlaceStays DEF Compete, DeshieldIncluded
    <2> QED
        BY <2>1, <2>2 DEF SamePlace, OnePlace
<1>5. CASE UNCHANGED vars
    <2>1. CallTypeOK' /\ DeshieldsOnce'
        BY <1>5 DEF vars, CallTypeOK, DeshieldsOnce, callVars, ledgerVars
    <2>2. SamePlace
        BY <1>5, PlaceStays DEF DeshieldIncluded, vars, ledgerVars
    <2> QED
        BY <2>1, <2>2 DEF SamePlace, OnePlace
<1> QED
    BY <1>1, <1>2, <1>3, <1>4, <1>5, StepKinds

(* It starts where the user keeps it.                                      *)
LEMMA LedgerBegins ==
    ASSUME Init
    PROVE  LedgerInv
<1>1. txs \in Seq(Tx) /\ Len(txs) = 0
    BY EmptySeq DEF Init
<1>2. CallTypeOK
    BY <1>1, CallConstants, DisposableSwapAssumption DEF Init, CallTypeOK, Stages
<1>3. Kept
    BY <1>1 DEF Init, Kept, DeshieldIncluded
<1> QED
    BY <1>1, <1>2, <1>3 DEF LedgerInv, OnePlace, DeshieldsOnce

(* In every reachable state the value is in one of the five places.         *)
THEOREM ValueInOnePlace == Spec => []LedgerInv
<1>1. Init => LedgerInv
    BY LedgerBegins
<1>2. LedgerInv /\ [Next]_vars => LedgerInv'
    BY LedgerStep
<1> QED
    BY <1>1, <1>2, PTL DEF Spec

-----------------------------------------------------------------------------
(* The swap implements the exchange it promises.                           *)

(* The place by its name.                                                  *)
LEMMA PlaceValues ==
    /\ Kept => place = "kept"
    /\ Exposed => place = "exposed"
    /\ Restored => place = "restored"
    /\ Bought => place = "bought"
    /\ CallTypeOK /\ Received => place = "received"
<1> USE CallConstants
<1>1. Kept => place = "kept"
    BY DEF Kept, place
<1>2. Exposed => place = "exposed"
    BY DEF Exposed, place
<1>3. Restored => place = "restored"
    BY DEF Restored, place
<1>4. Bought => place = "bought"
    BY DEF Bought, place
<1>5. CallTypeOK /\ Received => place = "received"
    BY DEF CallTypeOK, Received, place
<1> QED
    BY <1>1, <1>2, <1>3, <1>4, <1>5

(* Where nothing moves the place is the same.                              *)
LEMMA PlaceUnmoved ==
    ASSUME LedgerInv, LedgerInv', SamePlace
    PROVE  place' = place
<1>1. /\ Kept => place = "kept"
      /\ Exposed => place = "exposed"
      /\ Restored => place = "restored"
      /\ Bought => place = "bought"
      /\ Received => place = "received"
    BY PlaceValues DEF LedgerInv
<1>2. (/\ Kept => place = "kept"
       /\ Exposed => place = "exposed"
       /\ Restored => place = "restored"
       /\ Bought => place = "bought"
       /\ CallTypeOK /\ Received => place = "received")'
    BY PlaceValues, PTL
<1> QED
    BY <1>1, <1>2 DEF LedgerInv, OnePlace, SamePlace

(* Every step is a step of the exchange or none.                           *)
LEMMA ExchangeStep ==
    ASSUME LedgerInv, LedgerInv', [Next]_vars
    PROVE  [Promise!Next]_<<place, private.out + a_out>>
<1>1. (/\ Kept => place = "kept"
       /\ Exposed => place = "exposed"
       /\ Restored => place = "restored"
       /\ Bought => place = "bought"
       /\ CallTypeOK /\ Received => place = "received")'
    BY PlaceValues, PTL
<1>2. ASSUME SamePlace, UNCHANGED <<private, a_out>>
      PROVE  UNCHANGED <<place, private.out + a_out>>
    BY <1>2, PlaceUnmoved
<1>3. ASSUME UNCHANGED <<private, a_in, a_out>>, DeshieldIncluded' = DeshieldIncluded
      PROVE  UNCHANGED <<place, private.out + a_out>>
    BY <1>2, <1>3, PlaceStays
<1>4. CASE CallStep \/ UserStep \/ Crash
    <2>1. CallMove
        BY <1>4, CallMoves
    <2>2. DeshieldIncluded' = DeshieldIncluded
        BY <2>1, SameDeshieldSent DEF CallMove, DeshieldIncluded, LedgerInv
    <2> QED
        BY <1>3, <2>1, <2>2 DEF CallMove, ledgerVars
<1>5. CASE \E i \in 1 .. Len(txs) : Include(i)
    <2> PICK i \in 1 .. Len(txs) : Include(i)
        BY <1>5
    <2>1. CASE Kept /\ Exposed'
        BY <1>1, <2>1, PlaceValues DEF Promise!Next, Promise!Expose, Kept, Exposed
    <2>2. CASE Exposed /\ Bought'
        <3>1. place = "exposed" /\ place' = "bought"
            BY <1>1, <2>2, PlaceValues
        <3>2. private'.out + a_out' > 0 /\ private'.out + a_out' >= MinAmountOut
            <4>1. private' = [in |-> 0, out |-> 0] /\ a_out' > 0 /\ a_out' >= MinAmountOut
                BY <2>2 DEF Bought
            <4>2. a_out' \in Nat
                BY DEF LedgerInv, CallTypeOK
            <4>3. \A x, y, m \in Nat : x = 0 /\ y > 0 /\ y >= m => x + y > 0 /\ x + y >= m
                OBVIOUS
            <4>4. private'.out = 0 /\ private'.out \in Nat /\ MinAmountOut \in Nat
                BY <4>1, CallConstants
            <4> QED
                BY <4>1, <4>2, <4>3, <4>4
        <3> QED
            BY <3>1, <3>2 DEF Promise!Next, Promise!Buy
    <2>3. CASE Exposed /\ Restored'
        BY <1>1, <2>3, PlaceValues DEF Promise!Next, Promise!Restore, Exposed, Restored
    <2>4. CASE Bought /\ Received' /\ private'.out + a_out' = private.out + a_out
        BY <1>1, <2>4, PlaceValues DEF Promise!Next, Promise!Receive, LedgerInv
    <2>5. CASE SamePlace /\ UNCHANGED <<private, a_in, a_out>>
        BY <1>2, <2>5
    <2> QED
        BY <2>1, <2>2, <2>3, <2>4, <2>5, IncludeMoves
<1>6. CASE \E i \in 1 .. Len(txs) : Dropping(i)
    <2> PICK i \in 1 .. Len(txs) : Dropping(i)
        BY <1>6
    <2>1. DeshieldIncluded' = DeshieldIncluded
        BY SameDeshield DEF Dropping, LedgerInv
    <2> QED
        BY <1>3, <2>1 DEF Dropping, ledgerVars
<1>7. CASE Compete
    BY <1>3, <1>7 DEF Compete, DeshieldIncluded
<1>8. CASE UNCHANGED vars
    BY <1>3, <1>8 DEF vars, ledgerVars, DeshieldIncluded
<1> QED
    BY <1>4, <1>5, <1>6, <1>7, <1>8, StepKinds

(* The value is in one place at a time, it is spent once and for at least   *)
(* min_amount_out, and a swap that comes after the rollback does nothing:   *)
(* whatever the sequencer includes, in whatever order, and however often    *)
(* the call fails, waits in vain or crashes.                               *)
THEOREM SwapIsAnExchange == Spec => ExchangeSpec
<1>1. Init => Promise!Init
    <2> SUFFICES ASSUME Init PROVE Promise!Init
        OBVIOUS
    <2>1. Kept
        BY LedgerBegins, EmptySeq DEF Init, Kept, DeshieldIncluded
    <2> QED
        BY <2>1, PlaceValues DEF Promise!Init, Kept
<1>2. LedgerInv /\ LedgerInv' /\ [Next]_vars
         => [Promise!Next]_<<place, private.out + a_out>>
    BY ExchangeStep
<1> QED
    BY <1>1, <1>2, ValueInOnePlace, PTL DEF Spec, ExchangeSpec, Promise!Spec

-----------------------------------------------------------------------------
(* What a call that succeeds has done.                                     *)

(* No two places at once.                                                  *)
LEMMA Apart ==
    ASSUME CallTypeOK
    PROVE  /\ Received => ~Kept /\ ~Exposed /\ ~Bought /\ ~Restored
           /\ Bought => ~Kept /\ ~Exposed /\ ~Restored
           /\ Restored => ~Kept /\ ~Exposed
           /\ Exposed => ~Kept
BY PlaceValues

(* A transaction that is sent is the last one and pending.                  *)
LEMMA SendKeeps ==
    ASSUME CallTypeOK, NEW kind \in Kinds, NEW pre \in Nat, NEW next, Send(kind, pre, next)
    PROVE  /\ Len(txs') > 0
           /\ Last'.kind = kind /\ Last'.pre = pre /\ Last'.status = "pending"
           /\ Last'.note = known[Side(kind)]
           /\ Unshielded' => Unshielded
           /\ Unshielded /\ kind \notin {"shield_in", "shield_out"} => Unshielded'
           /\ \A j \in 1 .. Len(txs') :
                 txs'[j].status = "included" => j \in 1 .. Len(txs) /\ txs'[j] = txs[j]
           /\ pc' = next /\ UNCHANGED <<result, cache, known>>
<1>1. /\ Len(txs') = Len(txs) + 1
      /\ Len(txs') \in 1 .. Len(txs')
      /\ txs'[Len(txs')].kind = kind
      /\ txs'[Len(txs')].pre = pre
      /\ txs'[Len(txs')].note = known[Side(kind)]
      /\ txs'[Len(txs')].status = "pending"
      /\ \A j \in 1 .. Len(txs) : txs'[j] = txs[j] /\ j \in 1 .. Len(txs')
      /\ \A j \in 1 .. Len(txs') : j \in 1 .. Len(txs) \/ j = Len(txs')
    BY SendFacts
<1>2. Len(txs) \in Nat
    BY TxFacts
<1>3. pc' = next /\ UNCHANGED <<result, cache, known>>
    BY DEF Send
<1>4. Last' = txs'[Len(txs')]
    BY DEF Last
<1>5. \A j \in 1 .. Len(txs') :
         txs'[j].status = "included" => j \in 1 .. Len(txs) /\ txs'[j] = txs[j]
    BY <1>1
<1>6. Unshielded' => Unshielded
    BY <1>1 DEF Unshielded, Shield
<1>7. Unshielded /\ kind \notin {"shield_in", "shield_out"} => Unshielded'
    BY <1>1 DEF Unshielded, Shield
<1> QED
    BY <1>1, <1>2, <1>3, <1>4, <1>5, <1>6, <1>7

(* A status does not change what was sent.                                 *)
LEMMA StatusKeeps ==
    ASSUME CallTypeOK, NEW i \in 1 .. Len(txs),
           NEW status \in {"pending", "included", "dropped"}, SetStatus(i, status)
    PROVE  /\ Len(txs') = Len(txs)
           /\ Unshielded' = Unshielded
           /\ Len(txs) > 0 =>
                 Last'.kind = Last.kind /\ Last'.pre = Last.pre /\ Last'.note = Last.note
           /\ i = Len(txs) => Last'.status = status
           /\ i # Len(txs) => Last'.status = Last.status
           /\ \A j \in 1 .. Len(txs) :
                 /\ txs'[j].kind = txs[j].kind /\ txs'[j].pre = txs[j].pre
                 /\ txs'[j].note = txs[j].note
                 /\ txs'[j].status = IF j = i THEN status ELSE txs[j].status
<1>1. /\ Len(txs') = Len(txs)
      /\ txs'[i].kind = txs[i].kind /\ txs'[i].pre = txs[i].pre
      /\ txs'[i].note = txs[i].note /\ txs'[i].status = status
      /\ \A j \in 1 .. Len(txs) \ {i} : txs'[j] = txs[j]
    BY StatusFacts
<1>2. \A j \in 1 .. Len(txs) :
         /\ txs'[j].kind = txs[j].kind /\ txs'[j].pre = txs[j].pre
         /\ txs'[j].note = txs[j].note
         /\ txs'[j].status = IF j = i THEN status ELSE txs[j].status
    BY <1>1
<1>3. Unshielded' = Unshielded
    BY <1>1, <1>2 DEF Unshielded, Shield
<1>4. Len(txs) \in 1 .. Len(txs)
    BY TxFacts
<1>5. Last' = txs'[Len(txs)] /\ Last = txs[Len(txs)]
    BY <1>1 DEF Last
<1> QED
    BY <1>1, <1>2, <1>3, <1>4, <1>5

(* A step of the call keeps what it knows.                                 *)
LEMMA CallStepKeeps ==
    ASSUME LedgerInv, CallInv, CallStep \/ UserStep \/ Crash
    PROVE  CallInv'
<1> DEFINE Sending == \E kind \in Kinds, pre \in Nat, next \in Stages :
                         Send(kind, pre, next) /\ (kind = "deshield" => Len(txs) = 0)
<1>1. CallTypeOK /\ CallMove
    BY CallMoves DEF LedgerInv
<1>2. SamePlace /\ private' = private
    BY <1>1, PlaceStays, SameDeshieldSent DEF CallMove, DeshieldIncluded, ledgerVars
<1>3. /\ Unshielded' => Unshielded
      /\ \A j \in 1 .. Len(txs') :
            txs'[j].status = "included" => j \in 1 .. Len(txs) /\ txs'[j] = txs[j]
    <2>1. CASE UNCHANGED txs
        BY <2>1 DEF Unshielded
    <2>2. CASE Sending
        BY <1>1, <2>2, SendKeeps
    <2> QED
        BY <1>1, <2>1, <2>2 DEF CallMove
<1>4. /\ Unshielded' => (Kept \/ Exposed \/ Bought)'
      /\ \A i \in 1 .. Len(txs') :
            (txs'[i].kind = "shield_out" /\ txs'[i].status = "included" /\ txs'[i].pre > 0)
                => Received'
    BY <1>2, <1>3 DEF CallInv, SamePlace
<1>5. /\ pc' \in {"start", "deshielding", "init", "initialising", "align", "swap",
                  "swapping", "read"} => Unshielded'
      /\ pc' \in {"start", "deshielding"} => cache'.out = 0
      /\ pc' = "deshielding" => Len(txs') > 0 /\ Last'.kind = "deshield"
      /\ pc' \in {"init", "initialising", "align", "swap", "swapping", "read", "reshielding"}
            => cache' = [in |-> 0, out |-> 0]
      /\ pc' = "reshielding" => Len(txs') > 0 /\ Last'.kind = "shield_out" /\ Last'.pre > 0
      /\ result' = "ok" => pc' = "done" /\ Received' /\ cache' = private'
    <2>0. /\ result = "ok" => pc = "done" /\ Received /\ cache = private
          /\ Received' = Received /\ Len(txs) \in Nat
          /\ a_in \in Nat /\ a_out \in Nat
        BY <1>1, <1>2, TxFacts DEF CallInv, SamePlace, CallTypeOK
    <2>1. CASE Deshield
        <3>1. Send("deshield", a_in, "deshielding") /\ pc = "start"
            BY <2>1 DEF Deshield
        <3> QED
            BY <1>1, <2>0, <3>1, SendKeeps DEF CallInv, Kinds
    <2>2. CASE Deshielded
        <3>1. /\ pc = "deshielding" /\ Included /\ Fold("in") /\ pc' = "init"
              /\ UNCHANGED <<txs, result>>
            BY <2>2 DEF Deshielded, Local
        <3>2. DeshieldIncluded
            BY <2>0, <3>1 DEF CallInv, Included, Last, DeshieldIncluded
        <3>3. Exposed \/ Bought
            BY <3>1, <3>2 DEF CallInv, Kept
        <3>4. private.in = 0
            BY <3>3 DEF Exposed, Bought
        <3>5. cache' = [in |-> 0, out |-> 0]
            BY <1>1, <3>1, <3>4 DEF CallInv, Fold, CallTypeOK
        <3> QED
            BY <2>0, <3>1, <3>5 DEF CallInv, Unshielded
    <2>3. CASE InitHolding
        <3>1. CASE Send("init", 0, "initialising") /\ pc = "init"
            <4>1. /\ Unshielded' /\ UNCHANGED <<result, cache>>
                  /\ cache = [in |-> 0, out |-> 0] /\ pc' = "initialising"
                BY <1>1, <3>1, SendKeeps DEF CallInv, Kinds
            <4> QED
                BY <2>0, <3>1, <4>1
        <3>2. CASE Return("err") /\ UNCHANGED cache /\ pc = "init"
            BY <2>0, <3>2 DEF Return
        <3> QED
            BY <2>3, <3>1, <3>2 DEF InitHolding, Local
    <2>4. CASE HoldingInitialised \/ AlignLegs \/ Swapped
        <3>1. CASE /\ pc \in {"initialising", "align", "swapping"}
                   /\ pc' \in {"align", "swap", "read"} /\ UNCHANGED <<txs, result, cache>>
            BY <2>0, <3>1 DEF CallInv, Unshielded
        <3>2. CASE pc = "align" /\ Return("err") /\ UNCHANGED cache
            BY <2>0, <3>2 DEF Return
        <3> QED
            BY <2>4, <3>1, <3>2 DEF HoldingInitialised, AlignLegs, Swapped, Local
    <2>5. CASE Swap
        <3>1. Send("swap", 0, "swapping") /\ pc = "swap"
            BY <2>5 DEF Swap
        <3> QED
            BY <1>1, <2>0, <3>1, SendKeeps DEF CallInv, Kinds
    <2>6. CASE SwapFails
        BY <2>0, <2>6 DEF SwapFails, Local
    <2>7. CASE Rollback
        <3>1. CASE Send("shield_in", a_in, "rolling_back")
            BY <1>1, <2>0, <2>7, <3>1, SendKeeps DEF Rollback, Kinds
        <3>2. CASE Return("err") /\ UNCHANGED cache
            BY <2>0, <2>7, <3>2 DEF Rollback, Return
        <3> QED
            BY <2>7, <3>1, <3>2 DEF Rollback, Local
    <2>8. CASE ReadOutput
        <3>1. CASE a_out > 0 /\ Send("shield_out", a_out, "reshielding")
            BY <1>1, <2>0, <2>8, <3>1, SendKeeps DEF CallInv, ReadOutput, Kinds
        <3>2. CASE Return("err") /\ UNCHANGED cache
            BY <2>0, <2>8, <3>2 DEF ReadOutput, Return
        <3> QED
            BY <2>8, <3>1, <3>2 DEF ReadOutput, Local
    <2>9. CASE Reshielded
        <3>1. /\ pc = "reshielding" /\ Included /\ Fold("out") /\ Return("ok")
            BY <2>9 DEF Reshielded, Local
        <3>2. Received
            BY <2>0, <3>1 DEF CallInv, Included, Last
        <3>3. cache = [in |-> 0, out |-> 0] /\ private.in = 0 /\ private \in [in : Nat, out : Nat]
            BY <1>1, <3>1, <3>2 DEF CallInv, Received, CallTypeOK
        <3>4. cache' = private
            BY <3>1, <3>3 DEF Fold
        <3>5. pc' = "done"
            BY <3>1 DEF Return
        <3> QED
            BY <1>2, <2>0, <3>2, <3>4, <3>5
    <2>10. CASE RolledBack
        BY <2>0, <2>10 DEF RolledBack, Local, Return
    <2>11. CASE Fails \/ Crash
        BY <2>0, <2>11 DEF Fails, Crash, Local, Return
    <2>12. CASE Recover
        <3>1. /\ pc = "done" /\ ~(a_in = 0 /\ a_out = 0)
              /\ pc' = "recovering" /\ UNCHANGED result
            BY <2>0, <2>12 DEF Recover, Send
        <3>2. result # "ok"
            BY <2>0, <3>1 DEF Received
        <3> QED
            BY <3>1, <3>2
    <2>13. CASE Recovered \/ RecoveryFails
        BY <2>0, <2>13 DEF Recovered, RecoveryFails, Local
    <2>14. CASE Sync
        <3>1. pc = "done" /\ pc' = "done" /\ cache' = private /\ result' = result
            BY <2>14 DEF Sync
        <3> QED
            BY <1>2, <2>0, <3>1
    <2> QED
        BY <2>1, <2>2, <2>3, <2>4, <2>5, <2>6, <2>7, <2>8, <2>9, <2>10, <2>11, <2>12, <2>13,
           <2>14 DEF CallStep, UserStep
<1> QED
    BY <1>4, <1>5 DEF CallInv

(* So does an inclusion.                                                   *)
LEMMA IncludeKeeps ==
    ASSUME LedgerInv, CallInv, NEW i \in 1 .. Len(txs), Include(i)
    PROVE  CallInv'
<1>1. /\ CallTypeOK /\ SetStatus(i, "included")
      /\ UNCHANGED <<pc, result, cache>>
    BY DEF LedgerInv, Include, callVars
<1>2. /\ Len(txs') = Len(txs)
      /\ Unshielded' = Unshielded
      /\ Len(txs) > 0 => Last'.kind = Last.kind /\ Last'.pre = Last.pre
      /\ \A j \in 1 .. Len(txs) :
            /\ txs'[j].kind = txs[j].kind /\ txs'[j].pre = txs[j].pre
            /\ txs'[j].status = IF j = i THEN "included" ELSE txs[j].status
    BY <1>1, StatusKeeps
<1>3. \/ txs[i].kind = "deshield" /\ Kept /\ Exposed'
      \/ txs[i].kind = "swap" /\ Exposed /\ Bought'
      \/ txs[i].kind = "shield_in" /\ Exposed /\ Restored'
      \/ txs[i].kind = "shield_out" /\ txs[i].pre > 0 /\ Bought /\ Received'
      \/ /\ txs[i].kind \in {"init", "shield_in", "shield_out"}
         /\ txs[i].kind = "shield_out" => txs[i].pre = 0
         /\ SamePlace
         /\ UNCHANGED <<private, a_in, a_out>>
    BY IncludeMoves
<1>4. Unshielded' => (Kept \/ Exposed \/ Bought)'
    BY <1>2, <1>3 DEF CallInv, Unshielded, Shield, SamePlace
<1>5. Received => Received' /\ private' = private
    BY <1>1, <1>3, Apart DEF SamePlace
<1>6. \A j \in 1 .. Len(txs') :
         (txs'[j].kind = "shield_out" /\ txs'[j].status = "included" /\ txs'[j].pre > 0)
            => Received'
    BY <1>2, <1>3, <1>5 DEF CallInv
<1> QED
    BY <1>1, <1>2, <1>4, <1>5, <1>6 DEF CallInv

(* So does every step.                                                     *)
LEMMA CallInvStep ==
    ASSUME LedgerInv, CallInv, [Next]_vars
    PROVE  CallInv'
<1>1. CASE CallStep \/ UserStep \/ Crash
    BY <1>1, CallStepKeeps
<1>2. CASE \E i \in 1 .. Len(txs) : Include(i)
    BY <1>2, IncludeKeeps
<1>3. CASE \E i \in 1 .. Len(txs) : Dropping(i)
    <2> PICK i \in 1 .. Len(txs) : Dropping(i)
        BY <1>3
    <2>1. /\ CallTypeOK /\ Pending(i) /\ SetStatus(i, "dropped")
          /\ UNCHANGED <<pc, result, cache, private, a_in, a_out>>
        BY DEF Dropping, LedgerInv, callVars, ledgerVars
    <2>2. /\ Len(txs') = Len(txs)
          /\ Unshielded' = Unshielded
          /\ Len(txs) > 0 => Last'.kind = Last.kind /\ Last'.pre = Last.pre
          /\ \A j \in 1 .. Len(txs) :
                /\ txs'[j].kind = txs[j].kind /\ txs'[j].pre = txs[j].pre
                /\ txs'[j].status = IF j = i THEN "dropped" ELSE txs[j].status
        BY <2>1, StatusKeeps
    <2>3. SamePlace
        BY <2>1, SameDeshield, PlaceStays
    <2> QED
        BY <2>1, <2>2, <2>3 DEF CallInv, SamePlace
<1>4. CASE Compete \/ UNCHANGED vars
    <2>1. UNCHANGED <<pc, result, cache, txs, private, a_in, a_out>>
        BY <1>4 DEF Compete, vars, callVars, ledgerVars
    <2>2. SamePlace
        BY <2>1, PlaceStays DEF DeshieldIncluded
    <2> QED
        BY <2>1, <2>2 DEF CallInv, SamePlace, Unshielded, Last
<1> QED
    BY <1>1, <1>2, <1>3, <1>4, StepKinds

(* The call's knowledge and the ledger agree, at any number of faults.     *)
LEMMA CallInvariant == Spec => [](LedgerInv /\ CallInv)
<1>1. Init => CallInv
    <2> SUFFICES ASSUME Init PROVE CallInv
        OBVIOUS
    <2>1. Kept /\ Len(txs) = 0
        BY LedgerBegins, EmptySeq DEF Init, Kept, DeshieldIncluded
    <2> QED
        BY <2>1 DEF Init, CallInv, Unshielded
<1>2. LedgerInv /\ CallInv /\ [Next]_vars => CallInv'
    BY CallInvStep
<1> QED
    BY <1>1, <1>2, ValueInOnePlace, PTL DEF Spec

(* "ok" is only returned when the output is private and the wallet's own    *)
(* balances are the chain's, and both stay true whatever still arrives.     *)
THEOREM OkIsReceived == Spec => []OkMeansReceived
<1>1. LedgerInv /\ CallInv => OkMeansReceived
    BY PlaceValues DEF LedgerInv, CallInv, OkMeansReceived
<1> QED
    BY <1>1, CallInvariant, PTL

-----------------------------------------------------------------------------
(* A call without faults whose caller is ready.                             *)

(* Without a fault the call goes straight on.                              *)
LEMMA SmoothCallStep ==
    ASSUME LedgerInv, CallInv, Smooth, ~Fault, Ready,
           CallStep \/ UserStep \/ Crash
    PROVE  Smooth'
<1>1. /\ CallTypeOK /\ CallMove /\ Len(txs) \in Nat
      /\ a_in \in Nat /\ a_out \in Nat
    BY CallMoves, TxFacts DEF LedgerInv, CallTypeOK
<1>2. /\ SamePlace /\ private' = private /\ a_out_owned' = a_out_owned
      /\ a_in' = a_in /\ a_out' = a_out /\ note' = note /\ pool_exists'
    BY <1>1, PlaceStays, SameDeshieldSent
       DEF CallMove, DeshieldIncluded, ledgerVars, Smooth
(* While the call waits only the last transaction may be pending, and when   *)
(* it goes on none is.                                                     *)
<1>3. ASSUME pc \notin Waiting \/ Included \/ txs[Len(txs)].status = "dropped"
      PROVE  \A i \in 1 .. Len(txs) : ~Pending(i)
    BY <1>3 DEF Smooth, Included, Pending
<1>4. ASSUME pc \notin Waiting, NEW kind \in Kinds, NEW pre \in Nat, NEW next \in Waiting,
             Send(kind, pre, next)
      PROVE  /\ \A i \in 1 .. Len(txs') : Pending(i)' => i = Len(txs') /\ pc' \in Waiting
             /\ Sent(kind)' /\ Last'.status = "pending" /\ Last'.pre = pre
             /\ Last'.note = known[Side(kind)]
             /\ pc' = next /\ result' = result /\ known' = known
    <2>1. /\ Len(txs') > 0
          /\ Last'.kind = kind /\ Last'.pre = pre /\ Last'.status = "pending"
          /\ Last'.note = known[Side(kind)]
          /\ pc' = next /\ result' = result /\ known' = known
        BY <1>1, <1>4, SendKeeps
    <2>2. /\ \A j \in 1 .. Len(txs) : txs'[j] = txs[j]
          /\ \A j \in 1 .. Len(txs') : j \in 1 .. Len(txs) \/ j = Len(txs')
        BY <1>1, <1>4, SendFacts
    <2> QED
        BY <1>3, <1>4, <2>1, <2>2 DEF Sent, Pending
<1>5. ASSUME UNCHANGED txs, pc \notin Waiting \/ Included \/ txs[Len(txs)].status = "dropped"
      PROVE  \A i \in 1 .. Len(txs') : Pending(i)' => i = Len(txs') /\ pc' \in Waiting
    BY <1>3, <1>5 DEF Pending
<1>6. CASE Deshield
    <2>1. Send("deshield", a_in, "deshielding") /\ pc = "start"
        BY <1>6 DEF Deshield
    <2>2. Kept /\ a_in = 0 /\ result # "err" /\ ~a_out_owned /\ known = note
        BY <2>1 DEF Smooth, Kept, Informed
    <2>3. /\ Sent("deshield")' /\ Fresh("in", 0)' /\ Informed'
          /\ pc' = "deshielding" /\ result' = result
          /\ \A i \in 1 .. Len(txs') : Pending(i)' => i = Len(txs') /\ pc' \in Waiting
        BY <1>1, <1>2, <1>4, <2>1, <2>2 DEF Kinds, Waiting, Fresh, Informed, Side
    <2> QED
        BY <1>2, <2>2, <2>3 DEF Smooth, SamePlace
<1>7. CASE Deshielded
    <2>1. /\ pc = "deshielding" /\ Included /\ pc' = "init" /\ UNCHANGED <<txs, result>>
          /\ Fold("in")
        BY <1>7 DEF Deshielded, Local
    <2>2. Exposed /\ result # "err" /\ ~a_out_owned /\ known.out = note.out
        BY <2>1 DEF Smooth, Included, Last, Fresh
    <2>3. Informed'
        BY <1>1, <1>2, <2>1, <2>2 DEF Fold, Informed, CallTypeOK
    <2> QED
        BY <1>2, <1>5, <2>1, <2>2, <2>3 DEF Smooth, SamePlace
<1>8. CASE InitHolding
    <2>1. Send("init", 0, "initialising") /\ pc = "init"
        BY <1>8 DEF InitHolding, Ready
    <2>2. Exposed /\ result # "err" /\ ~a_out_owned /\ known = note
        BY <2>1 DEF Smooth, Informed
    <2>3. /\ Sent("init")' /\ Last'.status = "pending" /\ Informed'
          /\ pc' = "initialising" /\ result' = result
          /\ \A i \in 1 .. Len(txs') : Pending(i)' => i = Len(txs') /\ pc' \in Waiting
        BY <1>2, <1>4, <2>1, <2>2 DEF Kinds, Waiting, Informed
    <2> QED
        BY <1>2, <2>2, <2>3 DEF Smooth, SamePlace
<1>9. CASE HoldingInitialised
    <2>1. /\ pc = "initialising" /\ Included /\ pc' = "align" /\ UNCHANGED <<txs, result, known>>
        BY <1>9 DEF HoldingInitialised, Local
    <2>2. Exposed /\ result # "err" /\ Informed'
        BY <1>2, <2>1 DEF Smooth, Informed
    <2> QED
        BY <1>2, <1>5, <2>1, <2>2 DEF Smooth, SamePlace
<1>10. CASE AlignLegs
    <2>1. /\ pc = "align" /\ pc' = "swap" /\ UNCHANGED <<txs, result, known>>
        BY <1>10 DEF AlignLegs, Local, Smooth
    <2>2. Exposed /\ result # "err" /\ pc \notin Waiting /\ Informed'
        BY <1>2, <2>1 DEF Smooth, Waiting, Informed
    <2> QED
        BY <1>2, <1>5, <2>1, <2>2 DEF Smooth, SamePlace
<1>11. CASE Swap
    <2>1. Send("swap", 0, "swapping") /\ pc = "swap"
        BY <1>11 DEF Swap
    <2>2. Exposed /\ result # "err" /\ known = note
        BY <2>1 DEF Smooth, Informed
    <2>3. /\ Sent("swap")' /\ Last'.status = "pending" /\ Informed'
          /\ pc' = "swapping" /\ result' = result
          /\ \A i \in 1 .. Len(txs') : Pending(i)' => i = Len(txs') /\ pc' \in Waiting
        BY <1>2, <1>4, <2>1, <2>2 DEF Kinds, Waiting, Informed
    <2> QED
        BY <1>2, <2>2, <2>3 DEF Smooth, SamePlace
<1>12. CASE Swapped
    <2>1. /\ pc = "swapping" /\ Included /\ pc' = "read" /\ UNCHANGED <<txs, result, known>>
        BY <1>12 DEF Swapped, Local
    <2>2. Bought /\ result # "err" /\ Informed'
        BY <1>2, <2>1 DEF Smooth, Included, Last, Informed
    <2> QED
        BY <1>2, <1>5, <2>1, <2>2 DEF Smooth, SamePlace
<1>13. CASE SwapFails
    <2>1. /\ pc = "swapping" /\ txs[Len(txs)].status = "dropped"
          /\ pc' = "rollback" /\ UNCHANGED <<txs, result, known>>
        BY <1>13 DEF SwapFails, WaitFails, Local
    <2>2. Exposed /\ result # "err" /\ Informed'
        BY <1>2, <2>1 DEF Smooth, Last, Informed
    <2> QED
        BY <1>2, <1>5, <2>1, <2>2 DEF Smooth, SamePlace
<1>14. CASE Rollback
    <2>1. pc = "rollback"
        BY <1>14 DEF Rollback
    <2>2. Exposed /\ result # "err" /\ a_in = SwapAmountIn /\ known = note
        BY <2>1 DEF Smooth, Exposed, Informed
    <2>3. Send("shield_in", a_in, "rolling_back")
        BY <1>14, <2>2, CallConstants DEF Rollback
    <2>4. /\ Sent("shield_in")' /\ Fresh("in", a_in)'
          /\ pc' = "rolling_back" /\ result' = result
          /\ \A i \in 1 .. Len(txs') : Pending(i)' => i = Len(txs') /\ pc' \in Waiting
        BY <1>1, <1>2, <1>4, <2>1, <2>2, <2>3 DEF Kinds, Waiting, Fresh, Side
    <2> QED
        BY <1>2, <2>2, <2>4 DEF Smooth, SamePlace
<1>15. CASE RolledBack
    <2>1. /\ pc = "rolling_back" /\ Included /\ pc' = "done" /\ UNCHANGED txs
        BY <1>15 DEF RolledBack, Local, Return
    <2>2. Restored
        BY <2>1 DEF Smooth, Included, Last, Fresh
    <2> QED
        BY <1>2, <1>5, <2>1, <2>2 DEF Smooth, SamePlace
<1>16. CASE ReadOutput
    <2>1. pc = "read"
        BY <1>16 DEF ReadOutput
    <2>2. Bought /\ result # "err" /\ a_out > 0 /\ known = note
        BY <2>1 DEF Smooth, Bought, Informed
    <2>3. Send("shield_out", a_out, "reshielding")
        BY <1>16, <2>2 DEF ReadOutput
    <2>4. /\ Sent("shield_out")' /\ Fresh("out", a_out)'
          /\ pc' = "reshielding" /\ result' = result
          /\ \A i \in 1 .. Len(txs') : Pending(i)' => i = Len(txs') /\ pc' \in Waiting
        BY <1>1, <1>2, <1>4, <2>1, <2>2, <2>3 DEF Kinds, Waiting, Fresh, Side
    <2> QED
        BY <1>2, <2>2, <2>4 DEF Smooth, SamePlace
<1>17. CASE Reshielded
    <2>1. /\ pc = "reshielding" /\ Included /\ pc' = "done" /\ UNCHANGED txs
        BY <1>17 DEF Reshielded, Local, Return
    <2>2. Received
        BY <2>1 DEF Smooth, Included, Last, Fresh
    <2> QED
        BY <1>2, <1>5, <2>1, <2>2 DEF Smooth, SamePlace
(* Nothing the call waits for is dropped, except the swap.                  *)
<1>18. CASE Fails
    <2>1. /\ pc \in {"deshielding", "initialising", "rolling_back", "reshielding"}
          /\ txs[Len(txs)].status = "dropped"
        BY <1>18 DEF Fails, WaitFails
    <2> QED
        BY <2>1 DEF Smooth, Last, Fresh
<1>19. CASE Recover
    <2>1. pc = "done" /\ ~(a_in = 0 /\ a_out = 0)
        BY <1>1, <1>19 DEF Recover
    <2> QED
        BY <2>1 DEF Smooth, Restored, Received
<1>20. CASE Recovered \/ RecoveryFails \/ Crash
    BY <1>20 DEF Recovered, RecoveryFails, Crash, Smooth
<1>21. CASE Sync
    <2>1. pc = "done" /\ UNCHANGED <<pc, result, txs>>
        BY <1>21 DEF Sync
    <2> QED
        BY <1>2, <1>5, <2>1 DEF Smooth, SamePlace, Waiting
<1> QED
    BY <1>6, <1>7, <1>8, <1>9, <1>10, <1>11, <1>12, <1>13, <1>14, <1>15, <1>16, <1>17,
       <1>18, <1>19, <1>20, <1>21 DEF CallStep, UserStep

(* Its transactions are included in order.                                 *)
LEMMA SmoothInclude ==
    ASSUME LedgerInv, CallInv, Smooth, Ready, NEW i \in 1 .. Len(txs), Include(i)
    PROVE  Smooth'
<1>1. /\ CallTypeOK /\ Pending(i) /\ SetStatus(i, "included")
      /\ UNCHANGED <<pc, result, known, pool_exists>>
      /\ txs[i].kind # "init" => UNCHANGED a_out_owned
      /\ txs[i].kind \in {"init", "swap"} => UNCHANGED note
      /\ txs[i].kind = "deshield" => note'.out = note.out
    BY DEF LedgerInv, Include, callVars, IncludeDeshield, IncludeInit, IncludeSwap,
           IncludeShieldIn, IncludeShieldOut, NoteWritten, CallTypeOK
<1>2. i = Len(txs) /\ pc \in Waiting /\ Len(txs) > 0 /\ txs[i] = Last /\ Last.status = "pending"
    BY <1>1 DEF Smooth, Last, Pending
<1>3. /\ Len(txs') = Len(txs)
      /\ Last'.kind = Last.kind /\ Last'.pre = Last.pre /\ Last'.status = "included"
      /\ \A j \in 1 .. Len(txs) : txs'[j].status = IF j = i THEN "included" ELSE txs[j].status
    BY <1>1, <1>2, StatusKeeps
<1>4. \A j \in 1 .. Len(txs') : ~Pending(j)'
    BY <1>2, <1>3 DEF Smooth, Pending
<1>5. \/ Last.kind = "deshield" /\ Exposed'
      \/ Last.kind = "swap" /\ Bought'
      \/ Last.kind = "shield_in" /\ Exposed /\ Restored'
      \/ Last.kind = "shield_out" /\ Last.pre > 0 /\ Received'
      \/ /\ Last.kind \in {"init", "shield_in", "shield_out"}
         /\ Last.kind = "shield_out" => Last.pre = 0
         /\ SamePlace
         /\ UNCHANGED <<private, a_in, a_out>>
    BY <1>2, IncludeMoves
<1>6. ASSUME pc = "rolling_back" PROVE Restored'
    <2>1. Last.kind = "shield_in" /\ Last.pre = a_in /\ Exposed
        BY <1>2, <1>6 DEF Smooth, Sent, Fresh
    <2>2. CASE SamePlace /\ UNCHANGED a_in
        <3>1. IncludeShieldIn(i) /\ a_in' = a_in - Last.pre
            BY <1>2, <2>1 DEF Include, IncludeDeshield, IncludeInit, IncludeSwap,
                              IncludeShieldIn, IncludeShieldOut
        <3> QED
            BY <2>1, <2>2, <3>1, CallConstants DEF Exposed
    <2> QED
        BY <1>5, <2>1, <2>2
<1>7. ASSUME pc = "reshielding" PROVE Received'
    <2>1. Last.kind = "shield_out" /\ Last.pre = a_out /\ Bought
        BY <1>2, <1>7 DEF Smooth, Sent, Fresh
    <2> QED
        BY <1>5, <2>1 DEF Bought
<1>8. ASSUME pc = "initialising" PROVE Exposed'
    <2>1. Last.kind = "init" /\ Exposed
        BY <1>8 DEF Smooth, Sent
    <2> QED
        BY <1>5, <2>1 DEF SamePlace
<1>9. pc \in {"deshielding", "swapping"} => (pc = "deshielding" => Exposed')
                                            /\ (pc = "swapping" => Bought')
    BY <1>5 DEF Smooth, Sent
<1>10. pc = "deshielding" => ~a_out_owned' /\ known'.out = note'.out
    <2>1. pc = "deshielding" => Informed /\ txs[i].kind = "deshield"
        BY <1>2 DEF Smooth, Sent
    <2> QED
        BY <1>1, <2>1 DEF Smooth, Informed
<1>11. pc # "start" /\ pc # "init" /\ pc # "done" /\ pc # "read" /\ pc # "recovering"
       /\ pc \notin {"align", "swap", "rollback"}
    BY <1>2 DEF Waiting
<1>12. pc \in {"initialising", "swapping"} => Informed'
    BY <1>1, <1>2 DEF Smooth, Sent, Informed
<1> QED
    BY <1>1, <1>2, <1>3, <1>4, <1>6, <1>7, <1>8, <1>9, <1>10, <1>11, <1>12 DEF Smooth, Sent

(* And none is dropped.                                                    *)
LEMMA SmoothDrop ==
    ASSUME LedgerInv, CallInv, Smooth, Ready, ~Fault,
           NEW i \in 1 .. Len(txs), Dropping(i)
    PROVE  Smooth'
<1>1. /\ CallTypeOK /\ Pending(i) /\ SetStatus(i, "dropped") /\ ~Valid(txs[i])
      /\ UNCHANGED <<pc, result, known, private, note, a_in, a_out, a_out_owned, pool_exists>>
    BY DEF LedgerInv, Dropping, callVars, ledgerVars
<1>2. i = Len(txs) /\ pc \in Waiting /\ Len(txs) > 0 /\ txs[i] = Last /\ Last.status = "pending"
    BY <1>1 DEF Smooth, Last, Pending
(* What the call waits for is valid when it is looked at, the swap aside.   *)
<1>3. pc = "swapping"
    <2>1. ~Valid(Last) /\ SwapAmountIn \in Nat
        BY <1>1, <1>2, CallConstants
    <2>2. pc # "deshielding"
        BY <1>2, <2>1 DEF Smooth, Sent, Valid, Kept, Fresh, NoteCurrent, Side
    <2>3. pc # "initialising"
        BY <1>2, <2>1 DEF Smooth, Sent, Valid
    <2>4. pc # "rolling_back"
        BY <1>2, <2>1 DEF Smooth, Sent, Valid, Fresh, NoteCurrent, Side
    <2>5. pc # "reshielding"
        BY <1>2, <2>1 DEF Smooth, Sent, Valid, Fresh, NoteCurrent, Side
    <2> QED
        BY <1>2, <2>2, <2>3, <2>4, <2>5 DEF Waiting
<1>4. /\ Len(txs') = Len(txs)
      /\ Last'.kind = Last.kind /\ Last'.status = "dropped"
      /\ \A j \in 1 .. Len(txs) : txs'[j].status = IF j = i THEN "dropped" ELSE txs[j].status
    BY <1>1, <1>2, StatusKeeps
<1>5. \A j \in 1 .. Len(txs') : ~Pending(j)'
    BY <1>2, <1>4 DEF Smooth, Pending
<1>6. SamePlace
    BY <1>1, SameDeshield, PlaceStays
<1>7. Exposed' /\ Sent("swap")' /\ result' # "err" /\ Informed' /\ pool_exists'
    BY <1>1, <1>2, <1>3, <1>4, <1>6 DEF Smooth, Sent, SamePlace, Informed
<1> QED
    BY <1>1, <1>3, <1>4, <1>5, <1>7 DEF Smooth

(* A fresh call without faults stays on the straight way.                  *)
LEMMA SmoothStep ==
    ASSUME LedgerInv, CallInv, SmoothInv, [Next]_vars
    PROVE  SmoothInv'
<1> SUFFICES ASSUME faults' = 0, Ready' PROVE Smooth'
    BY DEF SmoothInv
<1>1. ~Fault
    BY FaultCounts DEF LedgerInv
<1>2. faults = 0 /\ Ready
    <2>1. CASE CallStep \/ UserStep \/ Crash
        <3>1. caller' = caller
            BY <2>1, CallMoves DEF CallMove
        <3>2. faults' = faults
            BY <1>1, <2>1 DEF CallStep, UserStep, Crash, Deshield, Deshielded, InitHolding,
               HoldingInitialised, AlignLegs, Swap, Swapped, SwapFails, Rollback, RolledBack,
               ReadOutput, Reshielded, Fails, WaitFails, Recover, Recovered, RecoveryFails,
               Tries, Sync, Local
        <3> QED
            BY <3>1, <3>2 DEF Ready
    <2>2. CASE (\E i \in 1 .. Len(txs) : Include(i)) \/ Compete \/ UNCHANGED vars
        BY <2>2 DEF Include, Compete, vars, Ready
    <2>3. CASE \E i \in 1 .. Len(txs) : Dropping(i)
        BY <1>1, <2>3 DEF Dropping, Ready
    <2> QED
        BY <2>1, <2>2, <2>3, StepKinds
<1>3. Smooth
    BY <1>2 DEF SmoothInv
<1>4. CASE CallStep \/ UserStep \/ Crash
    BY <1>1, <1>2, <1>3, <1>4, SmoothCallStep
<1>5. CASE \E i \in 1 .. Len(txs) : Include(i)
    BY <1>2, <1>3, <1>5, SmoothInclude
<1>6. CASE \E i \in 1 .. Len(txs) : Dropping(i)
    BY <1>1, <1>2, <1>3, <1>6, SmoothDrop
<1>7. CASE Compete \/ UNCHANGED vars
    <2>1. /\ UNCHANGED <<pc, result, known, txs, private, note, a_in, a_out, a_out_owned>>
          /\ pool_exists'
        BY <1>3, <1>7 DEF Compete, vars, callVars, ledgerVars, Smooth
    <2>2. SamePlace
        BY <2>1, PlaceStays DEF DeshieldIncluded
    <2> QED
        BY <1>3, <2>1, <2>2 DEF Smooth, SamePlace, Last, Sent, Pending, Fresh, Informed
<1> QED
    BY <1>4, <1>5, <1>6, <1>7, StepKinds

(* When nothing is lost, times out or crashes, the caller left a_out to the  *)
(* call with its key in the wallet, and the pool was there, an error means   *)
(* that the input has been given back: the swap is the only transaction     *)
(* that competitors can make the sequencer refuse, and the rollback that    *)
(* follows finds the balance and the note it was made on.                   *)
THEOREM ReadyCallsNeverLose == Spec => []NoLossIfReady
<1>1. Init => SmoothInv
    <2> SUFFICES ASSUME Init, Ready PROVE Smooth
        BY DEF SmoothInv
    <2>1. Kept /\ Len(txs) = 0
        BY LedgerBegins, EmptySeq DEF Init, Kept, DeshieldIncluded
    <2> QED
        BY <2>1 DEF Init, Smooth, Ready, Informed
<1>2. LedgerInv /\ CallInv /\ SmoothInv /\ [Next]_vars => SmoothInv'
    BY SmoothStep
<1>3. LedgerInv /\ SmoothInv => NoLossIfReady
    <2> SUFFICES ASSUME LedgerInv, Smooth, result = "err"
                 PROVE  place \in {"restored", "received"}
        BY DEF SmoothInv, NoLossIfReady, NoLoss, Ready
    <2> QED
        BY PlaceValues DEF Smooth, LedgerInv
<1> QED
    BY <1>1, <1>2, <1>3, CallInvariant, PTL DEF Spec

=============================================================================
