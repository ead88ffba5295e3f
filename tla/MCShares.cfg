SPECIFICATION SharesSpec
INVARIANTS SharesConserved QueueOrdered CustodySolvent
PROPERTIES NoDilution DepositKeepsValue
CONSTANTS
  lp = lp
  usdc1 = usdc1
  usdc2 = usdc2
  Tiers = {lp, usdc1, usdc2}
  TokenOf <- MCTokenOf
  Canonical = {lp}
  Users = {u1}
  LockSeconds = 1
  MaxEntries = 2
  Amounts = {1, 2, 3}
  MaxTokens <- MCMaxTokens
  MaxShares <- MCMaxShares
  MaxTime = 2
CHECK_DEADLOCK FALSE
