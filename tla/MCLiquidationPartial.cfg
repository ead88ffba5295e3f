SPECIFICATION LiquidationSpec
CONSTANTS
  a = a
  b = b
  Reserves = {a, b}
  Ramp = 2
  Whole = 100
  Scale = 1000
  Unit = 1000
  LFactor <- MCLFactor
  CFactors = {500, 900}
  Prices = {600, 1000}
  MaxPositions = 3
  MinCollateral = 0
  StaleLedgers = 5
  Owners <- MCOwners
  Quoted = {40, 95, 100}
  Fills = {50, 100}
  Amounts = {3000}
  MaxOutside = 1
CHECK_DEADLOCK FALSE
PROPERTY IncompleteFillKeepsHealth
