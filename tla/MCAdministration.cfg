SPECIFICATION AdministrationKeeperSpec
CONSTANTS
  Assets = {a}
  Configs <- MCConfigs
  Accounts = {p, q}
  Deployer = p
  Rates = {0, 1}
  Levels = {0, 40, 65, 80}
  Week = 2
  ProposalLife = 2
  QueueLife = 2
  MaxReserves = 1
  MaxTime = 3
  MaxActs = 4
INVARIANTS OneIndexEach TakeRateIsNotRetroactive
PROPERTIES ChangesWaitAWeek AdminHandsOver StatusFollowsTheQueue
CHECK_DEADLOCK FALSE
