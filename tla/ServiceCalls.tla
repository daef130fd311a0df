----------------------------- MODULE ServiceCalls -----------------------------
(***************************************************************************)
(* The account, risk and clearing services as a saga calls them: what each *)
(* call answers, what executing it does, and what its effects are.  Both   *)
(* flavours of the saga call the services through the same two functions,  *)
(* _call_action and _call_compensation.                                    *)
(***************************************************************************)
EXTENDS SagaDomain, Integers, FiniteSetsExt

CONSTANTS Transfers,       \* transfer identifiers
          Accounts,        \* known accounts
          AccountIds,      \* account identifiers a request may name
          InitialBalance,  \* seeded balances
          Requests,        \* the transfers a client may ask for
          RiskMaxAmount,   \* RISK_MAX_AMOUNT
          SlowNetwork,     \* clearing latency above its timeout
          Absent           \* "no such row"

ASSUME ServicesAssumption ==
  /\ IsFiniteSet(Transfers)
  /\ Accounts \subseteq AccountIds
  /\ InitialBalance \in [Accounts -> Nat]
  /\ RiskMaxAmount \in Nat \ {0}
  /\ SlowNetwork \in BOOLEAN

\* A client asks for a positive amount between two different accounts.
ASSUME RequestsAssumption ==
  \A q \in Requests :
    /\ q.source \in AccountIds /\ q.destination \in AccountIds
    /\ q.source # q.destination
    /\ q.amount \in Nat \ {0}
    /\ q.forceRisk \in BOOLEAN /\ q.forceClearing \in BOOLEAN

VARIABLES request,           \* the request of each transfer
          balance, ledger,   \* account service
          evaluations,       \* risk service
          operations         \* clearing service

services == <<balance, ledger, evaluations, operations>>

Amounts == {q.amount : q \in Requests}

Account == INSTANCE AccountService
Risk == INSTANCE RiskService
Network == INSTANCE Clearing

ASSUME ServiceRowsAssumption ==
  /\ Absent \notin Account!Entry
  /\ Absent \notin Risk!Evaluation
  /\ Absent \notin Network!Operation

-----------------------------------------------------------------------------
(* A call is named by its transfer, its kind and its step.                 *)

\* The account a debit or a credit of the transfer names.
Party(t, s) == IF s = "DEBIT" THEN request[t].source ELSE request[t].destination

AccountOperation(kind, s) ==
  CASE kind = "ACTION" /\ s = "DEBIT"        -> "debit"
    [] kind = "ACTION" /\ s = "CREDIT"       -> "credit"
    [] kind = "COMPENSATION" /\ s = "DEBIT"  -> "debit_compensate"
    [] kind = "COMPENSATION" /\ s = "CREDIT" -> "credit_compensate"

\* What the service would answer to the call now.
Reply(t, kind, s) ==
  CASE s \in {"DEBIT", "CREDIT"} ->
         Account!Answer(t, Party(t, s), AccountOperation(kind, s), request[t].amount)
    [] s = "RISK" /\ kind = "ACTION"           -> Risk!CheckAnswer(t, request[t])
    [] s = "RISK" /\ kind = "COMPENSATION"     -> Risk!CompensateAnswer(t)
    [] s = "CLEARING" /\ kind = "ACTION"       -> Network!TransferAnswer(t, request[t])
    [] s = "CLEARING" /\ kind = "COMPENSATION" -> Network!CompensateAnswer(t)

\* What executing the call does to the services.
Serve(t, kind, s) ==
  \/ /\ s \in {"DEBIT", "CREDIT"}
     /\ Account!Serve(t, Party(t, s), AccountOperation(kind, s), request[t].amount)
     /\ UNCHANGED <<evaluations, operations>>
  \/ /\ s = "RISK"
     /\ IF kind = "ACTION" THEN Risk!Check(t, request[t]) ELSE Risk!Compensate(t)
     /\ UNCHANGED <<balance, ledger, operations>>
  \/ /\ s = "CLEARING"
     /\ IF kind = "ACTION" THEN Network!Transfer(t, request[t]) ELSE Network!Compensate(t)
     /\ UNCHANGED <<balance, ledger, evaluations>>

\* The action of the step took effect at its service, compensated since or not.
Committed(t, s) ==
  CASE s = "DEBIT"    -> Account!Recorded(t, Party(t, s), "debit")
    [] s = "CREDIT"   -> Account!Recorded(t, Party(t, s), "credit")
    [] s = "RISK"     -> Risk!Evaluated(t) /\ evaluations[t].status # "RISK_REJECTED"
    [] s = "CLEARING" -> Network!Registered(t) /\ operations[t].status # "REJECTED_NETWORK"

\* The compensation of the step took effect at its service.
Reverted(t, s) ==
  CASE s = "DEBIT"    -> Account!Recorded(t, Party(t, s), "debit_compensate")
    [] s = "CREDIT"   -> Account!Recorded(t, Party(t, s), "credit_compensate")
    [] s = "RISK"     -> Risk!Evaluated(t) /\ evaluations[t].status = "COMPENSATED"
    [] s = "CLEARING" -> Network!Registered(t) /\ operations[t].status = "COMPENSATED"

Standing(t, s) == Committed(t, s) /\ ~Reverted(t, s)
=============================================================================
