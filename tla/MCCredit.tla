-------------------------------- MODULE MCCredit --------------------------------
(* A small instance of CreditAuctions for TLC. *)
EXTENDS CreditAuctions, TLC

CONSTANTS usdc, xlm

MCWeight == <<1, 2>>

MCLists == {{usdc}, {usdc, xlm}}

MCMaxCredit == (usdc :> 3) @@ (xlm :> 2)

MCMaxFee == (usdc :> 1) @@ (xlm :> 0)

================================================================================
