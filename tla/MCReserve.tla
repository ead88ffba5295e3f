------------------------------- MODULE MCReserve -------------------------------
(***************************************************************************)
(* TLC instances of PoolReserve.                                           *)
(***************************************************************************)
EXTENDS PoolReserve, TLC

CONSTANTS Kinds, FillAmounts, Second, Elsewhere

MCTransfers == [kind : Kinds, amount : Amounts]

MCFills ==
  [kind : {"FillLiquidation"}, of : Users, lot : {0} \cup FillAmounts,
   bid : {0} \cup FillAmounts, full : BOOLEAN, elsewhere : Elsewhere]
  \cup [kind : {"FillBadDebt", "FillInterest", "FillFee"}, amount : FillAmounts]

\* One request, or one followed by a request of the kinds in Second.
MCBatches ==
  {<<q>> : q \in MCTransfers \cup MCFills}
    \cup {<<q, r>> : q \in MCTransfers, r \in {t \in MCTransfers : t.kind \in Second}}

MCSymmetry == Permutations(Users)

================================================================================
