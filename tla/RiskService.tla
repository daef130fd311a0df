----------------------------- MODULE RiskService -----------------------------
(***************************************************************************)
(* The risk service: one evaluation per transfer, decided once and         *)
(* compensated at most once.  Both endpoints run in one transaction; two   *)
(* concurrent first checks are serialised by the primary key (INSERT ON    *)
(* CONFLICT DO NOTHING, then the row is read again), so a check is atomic. *)
(* The compensated column always equals status = "COMPENSATED".            *)
(***************************************************************************)
EXTENDS Integers

CONSTANTS Transfers,      \* transfer identifiers
          Requests,       \* the bodies a transfer may be checked with
          RiskMaxAmount,  \* RISK_MAX_AMOUNT
          Absent          \* "no such row"

VARIABLE evaluations

\* The columns a request is compared by.
Subject(q) == <<q.source, q.destination, q.amount, q.forceRisk>>
Subjects == {Subject(q) : q \in Requests}

Evaluation == [subject : Subjects,
               status  : {"RISK_APPROVED", "RISK_REJECTED", "COMPENSATED"},
               error   : {"OK", "RISK_REJECTED", "RISK_LIMIT_EXCEEDED"}]

ASSUME RiskAssumption ==
  /\ RiskMaxAmount \in Nat \ {0}
  /\ \A q \in Requests : q.amount \in Nat \ {0} /\ q.forceRisk \in BOOLEAN
  /\ Absent \notin Evaluation

-----------------------------------------------------------------------------
Evaluated(t) == evaluations[t] # Absent

\* The verdict on a request that was never seen.
Verdict(q) == IF q.forceRisk THEN "RISK_REJECTED"
              ELSE IF q.amount > RiskMaxAmount THEN "RISK_LIMIT_EXCEEDED" ELSE "OK"

\* Mutant: a compensated evaluation is no longer reported as success.
ReportedApproval(row) ==
  IF row.status = "RISK_APPROVED" THEN "OK"
  ELSE IF row.error = "OK" THEN "RISK_REJECTED" ELSE row.error

\* success = status in {RISK_APPROVED, COMPENSATED}: a retry of an evaluation
\* that has since been compensated is still answered with success.
Reported(row) ==
  IF row.status \in {"RISK_APPROVED", "COMPENSATED"} THEN "OK" ELSE row.error

CheckAnswer(t, q) ==
  IF ~Evaluated(t) THEN Verdict(q)
  ELSE IF evaluations[t].subject # Subject(q) THEN "IDEMPOTENCY_CONFLICT"
  ELSE Reported(evaluations[t])

\* Mutant: a rejected evaluation can be compensated.
CompensateAnswerUnchecked(t) ==
  IF ~Evaluated(t) THEN "ORIGINAL_OPERATION_NOT_FOUND" ELSE "OK"

CompensateAnswer(t) ==
  IF ~Evaluated(t) THEN "ORIGINAL_OPERATION_NOT_FOUND"
  ELSE IF evaluations[t].status = "RISK_REJECTED" THEN "RISK_NOT_APPROVED" ELSE "OK"

\* Mutant: the error code is stored as the status.
NewEvaluationByError(q) ==
  [subject |-> Subject(q),
   status  |-> IF Verdict(q) = "OK" THEN "RISK_APPROVED" ELSE Verdict(q),
   error   |-> Verdict(q)]

NewEvaluation(q) ==
  [subject |-> Subject(q),
   status  |-> IF Verdict(q) = "OK" THEN "RISK_APPROVED" ELSE "RISK_REJECTED",
   error   |-> Verdict(q)]

Check(t, q) ==
  evaluations' = [evaluations EXCEPT ![t] = IF Evaluated(t) THEN @ ELSE NewEvaluation(q)]

Compensate(t) ==
  evaluations' =
    IF CompensateAnswer(t) = "OK"
    THEN [evaluations EXCEPT ![t] = [subject |-> @.subject,
                                     status  |-> "COMPENSATED",
                                     error   |-> @.error]]
    ELSE evaluations

Init == evaluations = [t \in Transfers |-> Absent]

Next == \E t \in Transfers : (\E q \in Requests : Check(t, q)) \/ Compensate(t)

Spec == Init /\ [][Next]_evaluations

-----------------------------------------------------------------------------
\* Every row of risk.evaluations is well formed.
TypeOK == evaluations \in [Transfers -> Evaluation \cup {Absent}]

\* The stored status follows the policy applied to the first request seen:
\* only what the policy approved is ever approved or compensated, so a
\* rejection cannot be undone into a success by any order of calls.
PolicyDecides ==
  \A t \in Transfers : Evaluated(t) =>
    \E q \in Requests :
      /\ evaluations[t].subject = Subject(q)
      /\ evaluations[t].error = Verdict(q)
      /\ evaluations[t].status = "RISK_REJECTED" <=> Verdict(q) # "OK"

\* A check answered once is answered the same way for ever, including after
\* its compensation: the retry of a client can never see the verdict flip.
VerdictIsFinal ==
  [][\A t \in Transfers, q \in Requests :
       Evaluated(t) => CheckAnswer(t, q)' = CheckAnswer(t, q)]_evaluations

=============================================================================
