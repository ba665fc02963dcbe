-------------------------------- MODULE MCFfi ---------------------------------
(* The pool missing, or made by somebody in either order of legs, with or    *)
(* without ATAs, of 9 X and 16 Y and 12 units of LP.                        *)
EXTENDS FfiSafety, TLC

CONSTANTS X, Y

Made(legs, pinned) ==
    [exists |-> TRUE, legs |-> legs,
     reserve |-> [t \in Tokens |-> IF t = X THEN 9 ELSE 16],
     supply |-> 12, ata_pinned |-> pinned]

Wealth(lp) ==
    [h \in Holding |->
        IF h.token = "LP" THEN lp
        ELSE CASE h.kind = "once" -> 0
               [] h.kind = "native" -> 4
               [] h.kind = "ata" -> 5
               [] OTHER -> 6]

(* Holdings that were never opened.                                         *)
Unopened(b) ==
    [h \in Holding |->
        IF h \in {Of("key", "LP"), Of("note", Y), Of("ata", X), Of("once", Y)}
        THEN Absent ELSE b[h]]

MCWorlds ==
    {[pool |-> NoPool, bal |-> Wealth(Absent)],
     [pool |-> Made(<<X, Y>>, TRUE), bal |-> Wealth(3)],
     [pool |-> Made(<<Y, X>>, TRUE), bal |-> Wealth(3)],
     [pool |-> Made(<<Y, X>>, FALSE), bal |-> Unopened(Wealth(3))]}

Asking(pair, in, amount, limit, caps) ==
    [pair |-> pair, in |-> in, amount |-> amount, limit |-> limit, caps |-> caps]

MCSwapRequests ==
    {Asking(<<X, Y>>, X, 3, 2, <<0, 0>>),
     Asking(<<Y, X>>, Y, 3, 1, <<0, 0>>),
     Asking(<<X, Y>>, Y, 2, 3, <<0, 0>>)}

MCLiquidityRequests ==
    {Asking(<<X, Y>>, X, 2, 1, <<2, 1>>),
     Asking(<<Y, X>>, X, 2, 1, <<5, 3>>)}
==============================================================================
