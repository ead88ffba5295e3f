SPECIFICATION EmissionsSpec
CONSTANTS
  p = p
  q = q
  usdc = usdc
  xlm = xlm
  r = r
  dToken = dToken
  bToken = bToken
  u = u
  v = v
  Pools = {p, q}
  Tiers = {usdc, xlm}
  Users = {u, v}
  Compositions <- MCCompositions
  LpSupply = 32
  Deposited <- MCDeposited
  Rewarded = {p}
  Rate = 20
  Scale = 4
  StreamTicks = 2
  GulpTicks = 1
  AllowanceTicks = 1
  MaxZone = 2
  Pool = p
  ResTokens = {dToken, bToken}
  ReserveOf <- MCReserveOf
  Targets <- MCTargets
  Held <- MCHeld
  IndexScale = 8
  Movers = {u}
  Open <- MCOpen
  Amounts = {2}
  MaxTime = 3
  MaxMoves = 2
INVARIANTS EveryTokenIsAccounted ClaimsAreFunded WeightsAreCurrent ReserveStreamsPayTheirTranche GrantsCoverTheStreams
CHECK_DEADLOCK FALSE
