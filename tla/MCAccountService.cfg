SPECIFICATION Spec
CONSTANTS
  acc1 = acc1
  ghost = ghost
  Transfers = {t1, t2}
  Accounts = {acc1}
  AccountIds = {acc1, ghost}
  Amounts = {1, 2}
  InitialBalance <- MCInitialBalance
  Absent = Absent
INVARIANTS
  TypeOK
  LedgerExplainsBalance
  CompensationBacked
PROPERTIES
  AnswersAreStable
