SPECIFICATION ServiceSpec
CONSTANTS
  Transfers = {t1, t2}
  Requests <- MCRequests
  SlowNetwork = FALSE
  Handlers = {h1, h2, h3}
  Absent = Absent
INVARIANTS
  ServiceTypeOK
  AnswersMatchTheRow
PROPERTIES
  TwoTransactionsLookAtomic
