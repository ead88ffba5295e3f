SPECIFICATION CreditSpec
INVARIANTS PendingIsBacked LotsAreBacked EveryTierGetsItsTurn
CONSTANTS
  usdc = usdc
  xlm = xlm
  Ramp = 1
  Whole = 2
  Assets = {usdc, xlm}
  Regulated = {usdc}
  Tiers = 2
  Plain = {2}
  Weight <- MCWeight
  TierValues = {0, 1}
  Lists <- MCLists
  Price = 1
  MinLotValue = 1
  StaleLedgers = 3
  Losses = {0, 1, 2}
  MaxCredit <- MCMaxCredit
  MaxFee <- MCMaxFee
CHECK_DEADLOCK FALSE
