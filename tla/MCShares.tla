------------------------------- MODULE MCShares -------------------------------
(* A small instance of TierShares for TLC. *)
EXTENDS TierShares

CONSTANTS lp, usdc1, usdc2

\* A canonical LP tier, and two plain tiers over one token, as USDC over USDC.
MCTokenOf == [tier \in Tiers |-> IF tier = lp THEN "blnt_xlm" ELSE "usdc"]

\* Room for roundings in one tier, and a single token in the others.
MCMaxTokens == [tier \in Tiers |-> IF tier = lp THEN 4 ELSE 1]
MCMaxShares == [tier \in Tiers |-> IF tier = lp THEN 5 ELSE 1]
=============================================================================
