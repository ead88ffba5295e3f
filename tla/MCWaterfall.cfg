SPECIFICATION WaterfallKeeperSpec
INVARIANTS AuctionIsCovered NoLotAheadOfItsBid
PROPERTY BadDebtSettles
CONSTANTS
  Ramp = 2
  Whole = 3
  Reserves = 2
  Tiers = 2
  Plain = {2}
  DebtWorth <- MCDebtWorth
  TierWorth <- MCTierWorth
  ValueScale = 2
  MaxBidAssets = 1
  StaleLedgers = 5
  MaxTokens = 2
  MaxOutside = 3
  HandOffs = {1, 3}
CHECK_DEADLOCK FALSE
