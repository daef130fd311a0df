SPECIFICATION FairSpec
CONSTANTS
  t1 = t1
  t2 = t2
  r1 = r1
  r2 = r2
  Transfers = {t1}
  Runs = {r1}
  TransferOf <- OneRun
  Accounts <- KnownAccounts
  AccountIds <- NamedAccounts
  InitialBalance <- Balances
  Requests <- EveryOutcome
  RiskMaxAmount = 2
  SlowNetwork = FALSE
  MaxAttempts = 2
  MaxTimeouts = 3
  MaxDeaths = 1
  Absent = Absent
INVARIANTS
  RollbackInReverse
  VerdictMatchesTrail
  CompletedMeansMoved
PROPERTIES
  StatusFollowsTheTable
  FollowsTheLifecycle
  FinishedIsFinal
  EveryRunEnds
