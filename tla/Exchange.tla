------------------------------ MODULE Exchange ------------------------------
(***************************************************************************)
(* What a disposable swap promises its user: the input is in one place at   *)
(* a time, it is spent at most once, for at least min_amount_out, and once  *)
(* it has been given back it is never spent.                               *)
(***************************************************************************)
EXTENDS Naturals

CONSTANT MinAmountOut

VARIABLES
    place,  \* where the user's value is
    got     \* what the swap paid out

Init ==
    /\ place = "kept"
    /\ got = 0

(* The input leaves the private holding for the public disposable one.     *)
Expose ==
    /\ place = "kept"
    /\ place' = "exposed"
    /\ UNCHANGED got

Restore ==
    /\ place = "exposed"
    /\ place' = "restored"
    /\ UNCHANGED got

Buy ==
    /\ place = "exposed"
    /\ place' = "bought"
    /\ got' > 0
    /\ got' >= MinAmountOut

Receive ==
    /\ place = "bought"
    /\ place' = "received"
    /\ UNCHANGED got

Next == Expose \/ Restore \/ Buy \/ Receive

Spec == Init /\ [][Next]_<<place, got>>

=============================================================================
