SPECIFICATION Spec
CONSTANTS
  Users = {u1, u2}
  Backstop = backstop
  RateScale = 4
  RatioScale = 4
  FeeRate = 2
  TakeRate = 2
  MaxUtil = 4
  SupplyCap = 2
  Accruals = {11}
  Amounts = {1, 2}
  Statuses = {"Active", "OnIce"}
  Kinds = {"SupplyCollateral", "WithdrawCollateral", "Borrow", "FlashLoan", "Repay"}
  FillAmounts = {1}
  Second = {"WithdrawCollateral"}
  Elsewhere = {{}}
  MaxRate = 16
  MaxBalance = 2
  MaxLosses = 1
  MaxTicks = 1
  Batches <- MCBatches
SYMMETRY MCSymmetry
INVARIANTS SharesMatchPositions
PROPERTIES OnlyLossesOpenAShortfall NobodyGainsByRounding NobodyLeavesAShortfall LossIsAbsorbedInOrder
CHECK_DEADLOCK FALSE
