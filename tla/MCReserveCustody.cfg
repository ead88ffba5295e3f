SPECIFICATION Spec
CONSTANTS
  Users = {u1, u2}
  Backstop = backstop
  RateScale = 4
  RatioScale = 4
  FeeRate = 2
  TakeRate = 2
  MaxUtil = 4
  SupplyCap = 4
  Accruals = {3}
  Amounts = {1, 2, 3, 4}
  Statuses = {"Active"}
  Kinds = {"Supply", "Borrow"}
  FillAmounts = {1}
  Second = {}
  Elsewhere = {}
  MaxRate = 16
  MaxBalance = 4
  MaxLosses = 0
  MaxTicks = 2
  Batches <- MCBatches
SYMMETRY MCSymmetry
PROPERTIES ReconcilesCustodyLossesOnly
CHECK_DEADLOCK FALSE
