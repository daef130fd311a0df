------------------------- MODULE RiskServiceProofs -------------------------
(***************************************************************************)
(* What the risk service guarantees for any set of transfers and requests  *)
(* and any limit.                                                          *)
(***************************************************************************)
EXTENDS RiskService, TLAPS

\* A row written by a check is well formed and carries the policy's verdict.
LEMMA NewEvaluationDecides ==
  ASSUME NEW q \in Requests
  PROVE  /\ NewEvaluation(q) \in Evaluation
         /\ NewEvaluation(q).subject = Subject(q)
         /\ NewEvaluation(q).error = Verdict(q)
         /\ NewEvaluation(q).status = "RISK_REJECTED" <=> Verdict(q) # "OK"
<1>1. Verdict(q) \in {"OK", "RISK_REJECTED", "RISK_LIMIT_EXCEEDED"}
  BY DEF Verdict
<1>2. Subject(q) \in Subjects
  BY DEF Subjects
<1>3. QED
  BY <1>1, <1>2 DEF NewEvaluation, Evaluation

\* What a step does to one row: nothing, the first verdict on the transfer, or
\* the compensation of an approval.
LEMMA RowStep ==
  ASSUME TypeOK, [Next]_evaluations, NEW t \in Transfers
  PROVE  \/ evaluations'[t] = evaluations[t]
         \/ /\ evaluations[t] = Absent
            /\ \E q \in Requests : evaluations'[t] = NewEvaluation(q)
         \/ /\ evaluations[t] \in Evaluation
            /\ evaluations[t].status # "RISK_REJECTED"
            /\ evaluations'[t] = [subject |-> evaluations[t].subject,
                                  status  |-> "COMPENSATED",
                                  error   |-> evaluations[t].error]
<1>1. CASE UNCHANGED evaluations
  BY <1>1
<1>2. ASSUME NEW u \in Transfers, NEW q \in Requests, Check(u, q)
      PROVE  \/ evaluations'[t] = evaluations[t]
             \/ evaluations[t] = Absent /\ evaluations'[t] = NewEvaluation(q)
  BY <1>2 DEF Check, Evaluated, TypeOK
<1>3. ASSUME NEW u \in Transfers, Compensate(u)
      PROVE  \/ evaluations'[t] = evaluations[t]
             \/ /\ evaluations[t] \in Evaluation
                /\ evaluations[t].status # "RISK_REJECTED"
                /\ evaluations'[t] = [subject |-> evaluations[t].subject,
                                      status  |-> "COMPENSATED",
                                      error   |-> evaluations[t].error]
  <2>1. CASE CompensateAnswer(u) # "OK"
    BY <1>3, <2>1 DEF Compensate
  <2>2. CASE CompensateAnswer(u) = "OK" /\ u # t
    BY <1>3, <2>2 DEF Compensate, TypeOK
  <2>3. CASE CompensateAnswer(u) = "OK" /\ u = t
    <3>1. evaluations[t] # Absent /\ evaluations[t].status # "RISK_REJECTED"
      BY <2>3 DEF CompensateAnswer, Evaluated
    <3>2. evaluations[t] \in Evaluation
      BY <3>1 DEF TypeOK
    <3>3. QED
      BY <1>3, <2>3, <3>1, <3>2 DEF Compensate, TypeOK
  <2>4. QED
    BY <2>1, <2>2, <2>3
<1>4. QED
  BY <1>1, <1>2, <1>3 DEF Next

\* No call makes a row malformed.
LEMMA TypeInvariance ==
  ASSUME TypeOK, [Next]_evaluations
  PROVE  TypeOK'
<1>1. ASSUME NEW t \in Transfers
      PROVE  evaluations'[t] \in Evaluation \cup {Absent}
  <2>1. evaluations[t] \in Evaluation \cup {Absent}
    BY DEF TypeOK
  <2>2. CASE \E q \in Requests : evaluations'[t] = NewEvaluation(q)
    BY <2>2, NewEvaluationDecides
  <2>3. CASE /\ evaluations[t] \in Evaluation
             /\ evaluations'[t] = [subject |-> evaluations[t].subject,
                                   status  |-> "COMPENSATED",
                                   error   |-> evaluations[t].error]
    BY <2>3 DEF Evaluation
  <2>4. QED
    BY <2>1, <2>2, <2>3, RowStep
<1>2. /\ DOMAIN evaluations' = Transfers
      /\ evaluations' = [t \in Transfers |-> evaluations'[t]]
  BY DEF TypeOK, Next, Check, Compensate
<1>3. QED
  BY <1>1, <1>2 DEF TypeOK

\* No call makes a row depart from the policy.
LEMMA PolicyInvariance ==
  ASSUME TypeOK, PolicyDecides, [Next]_evaluations
  PROVE  PolicyDecides'
<1>1. SUFFICES ASSUME NEW t \in Transfers, evaluations'[t] # Absent
               PROVE  \E q \in Requests :
                        /\ evaluations'[t].subject = Subject(q)
                        /\ evaluations'[t].error = Verdict(q)
                        /\ evaluations'[t].status = "RISK_REJECTED" <=> Verdict(q) # "OK"
  BY DEF PolicyDecides, Evaluated
<1>2. evaluations[t] # Absent =>
        \E q \in Requests :
          /\ evaluations[t].subject = Subject(q)
          /\ evaluations[t].error = Verdict(q)
          /\ evaluations[t].status = "RISK_REJECTED" <=> Verdict(q) # "OK"
  BY DEF PolicyDecides, Evaluated
<1>3. CASE evaluations'[t] = evaluations[t]
  BY <1>1, <1>2, <1>3
<1>4. CASE \E q \in Requests : evaluations'[t] = NewEvaluation(q)
  BY <1>4, NewEvaluationDecides
<1>5. CASE /\ evaluations[t] \in Evaluation
           /\ evaluations[t].status # "RISK_REJECTED"
           /\ evaluations'[t] = [subject |-> evaluations[t].subject,
                                 status  |-> "COMPENSATED",
                                 error   |-> evaluations[t].error]
  <2>1. evaluations[t] # Absent
    BY <1>5, RiskAssumption
  <2>2. QED
    BY <1>2, <1>5, <2>1
<1>6. QED
  BY <1>3, <1>4, <1>5, RowStep

\* Every row of the table is well formed.
THEOREM TypeCorrect == Spec => []TypeOK
<1>1. Init => TypeOK
  BY DEF Init, TypeOK
<1>2. TypeOK /\ [Next]_evaluations => TypeOK'
  BY TypeInvariance
<1>3. QED
  BY <1>1, <1>2, PTL DEF Spec

\* What is stored is what the policy said of a request: no order of checks and
\* compensations turns a rejection into an approval.
THEOREM ThePolicyDecides == Spec => []PolicyDecides
<1>1. Init => PolicyDecides
  BY DEF Init, PolicyDecides, Evaluated
<1>2. TypeOK /\ PolicyDecides /\ [Next]_evaluations => PolicyDecides'
  BY PolicyInvariance
<1>3. QED
  BY <1>1, <1>2, TypeCorrect, PTL DEF Spec

\* A client that retries a check sees the first answer, compensated or not.
THEOREM TheVerdictIsFinal == Spec => VerdictIsFinal
<1>1. ASSUME TypeOK, [Next]_evaluations, NEW t \in Transfers, NEW q \in Requests,
             Evaluated(t)
      PROVE  CheckAnswer(t, q)' = CheckAnswer(t, q)
  <2>1. evaluations[t] # Absent
    BY <1>1 DEF Evaluated
  <2>2. CASE evaluations'[t] = evaluations[t]
    BY <2>1, <2>2 DEF CheckAnswer, Evaluated
  <2>3. CASE /\ evaluations[t] \in Evaluation
             /\ evaluations[t].status # "RISK_REJECTED"
             /\ evaluations'[t] = [subject |-> evaluations[t].subject,
                                   status  |-> "COMPENSATED",
                                   error   |-> evaluations[t].error]
    <3>1. Reported(evaluations[t]) = "OK" /\ Reported(evaluations'[t]) = "OK"
      BY <2>3 DEF Reported, Evaluation
    <3>2. evaluations'[t] \in Evaluation
      BY <2>3 DEF Evaluation
    <3>3. evaluations'[t] # Absent /\ evaluations'[t].subject = evaluations[t].subject
      BY <2>3, <3>2, RiskAssumption
    <3>4. QED
      BY <2>1, <3>1, <3>3 DEF CheckAnswer, Evaluated
  <2>4. QED
    BY <1>1, <2>1, <2>2, <2>3, RowStep
<1>2. TypeOK /\ [Next]_evaluations =>
        [\A t \in Transfers, q \in Requests :
           Evaluated(t) => CheckAnswer(t, q)' = CheckAnswer(t, q)]_evaluations
  BY <1>1
<1>3. QED
  BY <1>2, TypeCorrect, PTL DEF Spec, VerdictIsFinal
=============================================================================
