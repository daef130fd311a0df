SPECIFICATION Spec
CONSTANTS
  t1 = t1
  t2 = t2
  r1 = r1
  r2 = r2
  Transfers = {t1, t2}
  Runs = {r1, r2}
  TransferOf <- OneRunEach
  Accounts <- KnownAccounts
  AccountIds <- NamedAccounts
  InitialBalance <- TightBalances
  Requests <- Contention
  RiskMaxAmount = 2
  SlowNetwork = FALSE
  MaxAttempts = 1
  MaxTimeouts = 0
  MaxDeaths = 2
  Absent = Absent
PROPERTIES
  AllOrNothing
