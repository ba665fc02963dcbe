------------------------------- MODULE MCWlez -------------------------------
(* Two users with 4 and 3 LEZ: enough for each to wrap, give and redeem.    *)
EXTENDS Wlez, TLC

CONSTANTS u1, u2

MCInitialNative == (u1 :> 4) @@ (u2 :> 3)
=============================================================================
