SPECIFICATION FairSpec
CONSTANTS
  t1 = t1
  c1 = c1
  c2 = c2
  Transfers = {t1}
  Starts = {c1}
  TransferOf <- OneCall
  Consumers <- AllConsumers
  Accounts <- KnownAccounts
  AccountIds <- NamedAccounts
  InitialBalance <- Balances
  Requests <- EveryEnd
  RiskMaxAmount = 2
  SlowNetwork = FALSE
  MaxBacklog <- AuditKeepsUp
  MaxAttempts = 2
  MaxTimeouts = 1
  MaxRepeats = 1
  MaxLosses = 0
  MaxFaults = 1
  Absent = Absent
PROPERTIES
  KeepsThePromise
  EveryTransferDecided
  EveryEventIsLogged
