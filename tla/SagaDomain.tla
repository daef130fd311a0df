------------------------------ MODULE SagaDomain ------------------------------
(***************************************************************************)
(* The vocabulary both flavours of the saga share: the four steps in their *)
(* canonical order, the statuses of an execution and of its audit trail,   *)
(* and the pure decisions taken on them.                                   *)
(***************************************************************************)
EXTENDS Naturals

Steps == {"DEBIT", "RISK", "CLEARING", "CREDIT"}

Sequence ==
  [s \in Steps |-> CASE s = "DEBIT"    -> 1
                     [] s = "RISK"     -> 2
                     [] s = "CLEARING" -> 3
                     [] s = "CREDIT"   -> 4]

FirstStep == "DEBIT"
LastStep == "CREDIT"
Before(s) == {u \in Steps : Sequence[u] < Sequence[s]}
After(s) == {u \in Steps : Sequence[u] > Sequence[s]}

\* The members of a nonempty set of steps that come first and last.
Earliest(S) == CHOOSE s \in S : \A u \in S : Sequence[s] <= Sequence[u]
\* Mutant: the rollback runs forwards.
LatestIsEarliest(S) == Earliest(S)

Latest(S) == CHOOSE s \in S : \A u \in S : Sequence[s] >= Sequence[u]

NextStep(s) == CHOOSE u \in Steps : Sequence[u] = Sequence[s] + 1

-----------------------------------------------------------------------------
TerminalStatuses ==
  {"COMPLETED", "REJECTED_FUNDS", "REJECTED_RISK", "REJECTED_NETWORK", "FAILED"}
SagaStatuses ==
  {"PENDING", "DEBITED", "RISK_APPROVED", "CLEARING_PENDING", "COMPENSATING"}
    \cup TerminalStatuses
CompensationStatuses ==
  {"NOT_REQUIRED", "COMPENSATING", "COMPENSATED", "COMPENSATION_FAILED"}

StepKinds == {"ACTION", "COMPENSATION"}
ActionStatuses == {"EXECUTED", "FAILED", "SKIPPED"}
RollbackStatuses == {"COMPENSATED", "COMPENSATION_FAILED"}

\* Status an execution reaches when a step succeeds.
StatusAfter ==
  [s \in Steps |-> CASE s = "DEBIT"    -> "DEBITED"
                     [] s = "RISK"     -> "RISK_APPROVED"
                     [] s = "CLEARING" -> "CLEARING_PENDING"
                     [] s = "CREDIT"   -> "COMPLETED"]

ErrorCodes ==
  {"INSUFFICIENT_FUNDS", "RISK_REJECTED", "RISK_LIMIT_EXCEEDED", "CLEARING_TIMEOUT",
   "ACCOUNT_NOT_FOUND", "IDEMPOTENCY_CONFLICT", "ORIGINAL_OPERATION_NOT_FOUND",
   "RISK_NOT_APPROVED", "CLEARING_NOT_COMPLETED", "SERVICE_UNAVAILABLE"}

\* What a saga that fails with an error code ends in.
OutcomeFor(error) ==
  CASE error = "INSUFFICIENT_FUNDS" -> "REJECTED_FUNDS"
    [] error \in {"RISK_REJECTED", "RISK_LIMIT_EXCEEDED"} -> "REJECTED_RISK"
    [] error = "CLEARING_TIMEOUT" -> "REJECTED_NETWORK"
    [] OTHER -> "FAILED"

PublicStatuses ==
  {"RECIBIDA", "EN_PROCESO", "CONFIRMADA", "RECHAZADA_FONDOS", "RECHAZADA_RIESGO",
   "RECHAZADA_RED", "COMPENSANDO", "COMPENSADA", "FALLIDA"}

\* The Gateway's name for a status of the saga.
GatewayStatus(status) ==
  CASE status = "COMPLETED"        -> "CONFIRMADA"
    [] status = "COMPENSATING"     -> "COMPENSANDO"
    [] status = "REJECTED_FUNDS"   -> "RECHAZADA_FONDOS"
    [] status = "REJECTED_RISK"    -> "RECHAZADA_RIESGO"
    [] status = "REJECTED_NETWORK" -> "RECHAZADA_RED"
    [] status = "FAILED"           -> "FALLIDA"
    [] OTHER                       -> "EN_PROCESO"
===============================================================================
