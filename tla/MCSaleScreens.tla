--------------------------- MODULE MCSaleScreens ---------------------------
(***************************************************************************)
(* Small instances of SaleScreens: two batches of one product and one of   *)
(* another, a draft of a matched and an unmatched line.                    *)
(***************************************************************************)
EXTENDS SaleScreens, TLC

CONSTANTS apple, pear

MCProductOf == 1 :> apple @@ 2 :> apple @@ 3 :> pear
MCReceived  == 1 :> 2 @@ 2 :> 1 @@ 3 :> 1
MCIntake    == 1 :> 2 @@ 2 :> 1 @@ 3 :> 1
MCDrafts    == {1 :> [product |-> apple, quantity |-> 1] @@ 2 :> [product |-> None, quantity |-> 1]}
=============================================================================
