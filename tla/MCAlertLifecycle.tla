-------------------------- MODULE MCAlertLifecycle --------------------------
(***************************************************************************)
(* A small instance of AlertLifecycle: two batches, both fresh at intake,  *)
(* and a sale that empties both or leaves a rest of one.                   *)
(***************************************************************************)
EXTENDS AlertLifecycle, TLC

MCReceived    == 1 :> 4 @@ 2 :> 1
MCThreshold   == 1 :> 0 @@ 2 :> 0
MCFreshUntil  == 1 :> 1 @@ 2 :> 1
MCMediumUntil == 1 :> 4 @@ 2 :> 2

Sold(b, n) == [batch |-> b, qty |-> n]

\* The second sale leaves just the part of batch 1 that still counts as much;
\* the last one asks for more than there is.
MCOrders == {<<Sold(2, 1), Sold(1, 4)>>, <<Sold(1, 3)>>, <<Sold(1, 5)>>}
=============================================================================
