SPECIFICATION Spec
CONSTANTS
  t1 = t1
  t2 = t2
  r1 = r1
  r2 = r2
  Transfers = {t1}
  Runs = {r1, r2}
  TransferOf <- TwoRunsOfOne
  Accounts <- KnownAccounts
  AccountIds <- NamedAccounts
  InitialBalance <- Balances
  Requests <- OverlapOutcomes
  RiskMaxAmount = 2
  SlowNetwork = FALSE
  MaxAttempts = 1
  MaxTimeouts = 2
  MaxDeaths = 1
  Absent = Absent
SYMMETRY RunSymmetry
INVARIANTS
  TypeOK
  AuditNeverLies
  NothingRunsAhead
  NoPhantomCompensation
