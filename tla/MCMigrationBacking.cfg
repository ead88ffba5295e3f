SPECIFICATION MigrationSpec
INVARIANTS ClaimableIsBacked
SYMMETRY BackstopsAlike
CONSTANTS
  u1 = u1
  Backstops = {b1, b2}
  Others = {u1}
  Tokens = {t1}
  Deployer = Deployer
  None = None
  QueueSeconds = 2
  SwapGraceSeconds = 1
  AttestSeconds = 0
  ActivationSeconds = 1
  MinInterval = 1
  MaxBackfill = 1
  MaxInitialDrop = 3
  MaxMigrationDrop = 2
  DropLists <- MCNoLists
  MaxBalance = 1
  MaxTime = 6
CHECK_DEADLOCK FALSE
