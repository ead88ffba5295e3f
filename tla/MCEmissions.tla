------------------------------ MODULE MCEmissions ------------------------------
(* A pool with two tiers and two earning tokens beside a pool that only weighs. *)
EXTENDS ReserveEmissions

CONSTANTS p, q, usdc, xlm, r, dToken, bToken, u, v

MCCompositions == {[t \in Tiers |-> IF t = usdc THEN 32 ELSE 16]}

\* One tier of p that only u holds, one that u and v share; u holds q's.
MCDeposited ==
  [x \in Pools |-> [t \in Tiers |-> [w \in Users |->
     IF w = u THEN IF x = q /\ t = xlm THEN 0 ELSE 2
     ELSE IF x = p /\ t = xlm THEN 1 ELSE 0]]]

\* The dTokens and bTokens of one reserve.
MCReserveOf == [k \in ResTokens |-> r]

MCTargets == {[k \in ResTokens |-> IF k = dToken THEN 1 ELSE 2],
              [k \in ResTokens |-> IF k = dToken THEN 0 ELSE 1]}

MCHeld == [k \in ResTokens |-> [w \in Users |-> IF k = dToken THEN 0 ELSE IF w = u THEN 2 ELSE 1]]

MCOpen == {<<p, usdc>>, <<p, xlm>>, <<q, usdc>>}
================================================================================
