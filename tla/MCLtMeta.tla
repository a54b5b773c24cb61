----------------------------- MODULE MCLtMeta ------------------------------
(* Limits for TLC: small enough for every box below the last to be full and  *)
(* to have busy VSs.                                                         *)
EXTENDS LtMeta, TLC

TwoLimits   == 0 :> 1 @@ 1 :> 1
ThreeLimits == 0 :> 2 @@ 1 :> 1 @@ 2 :> 2
=============================================================================
