---------------------------- MODULE MCAdministration ----------------------------
(* Reserve configurations that differ in their curve, and one without debt. *)
EXTENDS PoolAdministration

MCConfigs ==
  {[decimals |-> 7, lFactor |-> 1, curve |-> 1],
   [decimals |-> 7, lFactor |-> 1, curve |-> 2],
   [decimals |-> 6, lFactor |-> 0, curve |-> 1]}

=================================================================================
