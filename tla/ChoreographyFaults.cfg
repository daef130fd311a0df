SPECIFICATION Spec
CONSTANTS
  t1 = t1
  c1 = c1
  c2 = c2
  Transfers = {t1}
  Starts = {c1, c2}
  TransferOf <- TwoCalls
  Consumers <- NoAudit
  Accounts <- KnownAccounts
  AccountIds <- NamedAccounts
  InitialBalance <- Balances
  Requests <- EveryBranch
  RiskMaxAmount = 2
  SlowNetwork = FALSE
  MaxBacklog <- ThreeEach
  MaxAttempts = 1
  MaxTimeouts = 1
  MaxRepeats = 1
  MaxLosses = 1
  MaxFaults = 2
  Absent = Absent
SYMMETRY CallSymmetry
INVARIANTS
  TypeOK
  NoEventTwice
  AuditNeverLies
  RollbackByCausality
  VerdictMatchesTrail
PROPERTIES
  FollowsTheLifecycle
  AllOrNothing
