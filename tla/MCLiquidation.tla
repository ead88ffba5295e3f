----------------------------- MODULE MCLiquidation -----------------------------
(* Two reserves; one owner with one or two kinds of collateral. *)
EXTENDS LiquidationAuction, TLC

CONSTANTS a, b

MCLFactor == a :> 900 @@ b :> 750

MCOwners ==
  {[collateral |-> a :> 12000 @@ b :> 0,    debt |-> a :> 0 @@ b :> 8900],
   [collateral |-> a :> 6000 @@ b :> 5000,  debt |-> a :> 0 @@ b :> 7000]}

================================================================================
