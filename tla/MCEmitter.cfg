SPECIFICATION KeeperSpec
INVARIANTS TenurePaid DropCeilings
PROPERTIES MinimumTenure ImplementsSchedule QueueResolves
CONSTANTS
  u1 = u1
  u2 = u2
  Backstops = {b1, b2}
  Others = {u1, u2}
  Tokens = {t1, t2}
  Deployer = Deployer
  None = None
  QueueSeconds = 2
  SwapGraceSeconds = 1
  MaxInitialDrop = 3
  MaxMigrationDrop = 2
  DropLists <- MCDropLists
  MaxBalance = 1
  MaxTime = 6
CHECK_DEADLOCK FALSE
