------------------------------- MODULE Clearing -------------------------------
(***************************************************************************)
(* What the clearing service promises: one operation per transfer, decided *)
(* once, compensated at most once, each request as if it ran in a single   *)
(* transaction.  ClearingService models the handler as it is written, in   *)
(* two transactions, and is checked to implement this module.              *)
(***************************************************************************)
CONSTANTS Transfers,    \* transfer identifiers
          Requests,     \* the bodies a clearing request may have
          SlowNetwork,  \* CLEARING_LATENCY_SECONDS > CLEARING_TIMEOUT_SECONDS > 0
          Absent        \* "no such row"

VARIABLE operations

\* The columns a request is compared by.
Subject(q) == <<q.source, q.destination, q.amount, q.forceClearing>>
Subjects == {Subject(q) : q \in Requests}

Operation == [subject : Subjects,
              status  : {"COMPLETED", "REJECTED_NETWORK", "COMPENSATED"},
              error   : {"OK", "CLEARING_TIMEOUT"}]

ASSUME ClearingAssumption ==
  /\ SlowNetwork \in BOOLEAN
  /\ \A q \in Requests : q.forceClearing \in BOOLEAN
  /\ Absent \notin Operation

-----------------------------------------------------------------------------
Registered(t) == operations[t] # Absent

\* The verdict on a request that was never seen.
Verdict(q) == IF q.forceClearing \/ SlowNetwork THEN "CLEARING_TIMEOUT" ELSE "OK"

\* success = status in {COMPLETED, COMPENSATED}.
Reported(row) ==
  IF row.status \in {"COMPLETED", "COMPENSATED"} THEN "OK" ELSE row.error

\* The answer to a request that finds the row of its transfer.
Replay(t, q) == IF operations[t].subject # Subject(q)
                THEN "IDEMPOTENCY_CONFLICT" ELSE Reported(operations[t])

TransferAnswer(t, q) == IF Registered(t) THEN Replay(t, q) ELSE Verdict(q)

CompensateAnswer(t) ==
  IF ~Registered(t) THEN "ORIGINAL_OPERATION_NOT_FOUND"
  ELSE IF operations[t].status = "REJECTED_NETWORK" THEN "CLEARING_NOT_COMPLETED"
  ELSE "OK"

\* Mutant: the error code is stored as the status.
NewOperationByError(q) ==
  [subject |-> Subject(q),
   status  |-> IF Verdict(q) = "OK" THEN "COMPLETED" ELSE Verdict(q),
   error   |-> Verdict(q)]

NewOperation(q) ==
  [subject |-> Subject(q),
   status  |-> IF Verdict(q) = "OK" THEN "COMPLETED" ELSE "REJECTED_NETWORK",
   error   |-> Verdict(q)]

Transfer(t, q) ==
  operations' = [operations EXCEPT ![t] = IF Registered(t) THEN @ ELSE NewOperation(q)]

Compensate(t) ==
  operations' =
    IF CompensateAnswer(t) = "OK"
    THEN [operations EXCEPT ![t] = [subject |-> @.subject,
                                    status  |-> "COMPENSATED",
                                    error   |-> @.error]]
    ELSE operations

Init == operations = [t \in Transfers |-> Absent]

Next == \E t \in Transfers : (\E q \in Requests : Transfer(t, q)) \/ Compensate(t)

Spec == Init /\ [][Next]_operations

\* Every row of clearing.operations is well formed.
TypeOK == operations \in [Transfers -> Operation \cup {Absent}]
=============================================================================
