------------------------------ MODULE MCJobPump ------------------------------
(* Up to four clicks, and a failsafe after two polling intervals.           *)
EXTENDS JobPump

(* The user is never locked out, although the bridge, the plugin and the    *)
(* job may hang.                                                           *)
BusyEnds == busy ~> ~busy

(* A job that ends while it is polled is reported, unless another job has   *)
(* taken over the pump.                                                    *)
ResultReported ==
    \A act \in Action :
        (pending.act = act /\ registry[pending.job].done)
            ~> (act \in finished \/ pending.act > act)

=============================================================================
