------------------------------ MODULE MCWaterfall ------------------------------
(* A small instance of BadDebtWaterfall for TLC. *)
EXTENDS BadDebtWaterfall

\* The second reserve is worth so little that one dToken rounds to nothing.
MCDebtWorth == <<2, 1>>

\* An LP tier whose last token rounds to nothing, and a USDC tier.
MCTierWorth == <<1, 4>>

================================================================================
