SPECIFICATION Spec
CONSTANTS
  Transfers = {t1, t2, t3}
  Requests <- MCRequests
  RiskMaxAmount = 1
  Absent = Absent
INVARIANTS
  TypeOK
  PolicyDecides
PROPERTIES
  VerdictIsFinal
