SPECIFICATION FairSpec
CONSTANTS
  t1 = t1
  c1 = c1
  c2 = c2
  Transfers = {t1}
  Starts = {c1}
  TransferOf <- OneCall
  Consumers <- NoAudit
  Accounts <- KnownAccounts
  AccountIds <- NamedAccounts
  InitialBalance <- Balances
  Requests <- EveryRefusal
  RiskMaxAmount = 2
  SlowNetwork = FALSE
  MaxBacklog <- ThreeEach
  MaxAttempts = 1
  MaxTimeouts = 0
  MaxRepeats = 0
  MaxLosses = 0
  MaxFaults = 1
  Absent = Absent
PROPERTIES
  EveryTransferDecided
