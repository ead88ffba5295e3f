------------------------------ MODULE MCEmitter ------------------------------
(* Small instances of Emitter for TLC. *)
EXTENDS Emitter, TLC

CONSTANTS u1, u2

\* Lists around both ceilings, one entry negative, one with two entries that
\* only pass the ceiling together.
MCDropLists == {
  <<[to |-> u1, amount |-> 2]>>,
  <<[to |-> u1, amount |-> 2], [to |-> u2, amount |-> 1]>>,
  <<[to |-> u1, amount |-> 3], [to |-> u1, amount |-> -1]>> }

RecipientsAlike == Permutations(Backstops)
=============================================================================
