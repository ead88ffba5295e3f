----------------------------- MODULE MCMigration -----------------------------
(* Small instances of BackstopMigration for TLC. *)
EXTENDS BackstopMigration, TLC

CONSTANTS u1

\* An empty list and a launch list.
MCSmallLists == {<<>>, <<[to |-> u1, amount |-> 3]>>}

MCNoLists == {<<>>}

\* Nothing depends on how late the emitter is initialized: a later start is the
\* same behaviour with less time left before the horizon.
InitializedAtZero == isInit \/ now = 0

BackstopsAlike == Permutations(Backstops)
=============================================================================
