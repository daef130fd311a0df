---------------------------- MODULE SagaProperties ----------------------------
(***************************************************************************)
(* What a saga owes its clients and its auditors, whichever flavour runs   *)
(* it: statements about the services, the execution row and the trail.     *)
(***************************************************************************)
EXTENDS SagaStore

\* The audit trail never claims an effect that did not happen: a step written
\* as EXECUTED took effect at its service, a step written as COMPENSATED was
\* really undone there (docs/01 section 4: "nunca se marca como compensada una
\* reversa que no ocurrio").
AuditNeverLies ==
  \A t \in Transfers, s \in Steps :
    /\ Row(t, "ACTION", s) = "EXECUTED" => Committed(t, s)
    /\ Row(t, "COMPENSATION", s) = "COMPENSATED" => Reverted(t, s)

\* No service works ahead of the saga: a step takes effect only after every
\* step before it did, even through a late or repeated request.
NothingRunsAhead ==
  \A t \in Transfers, s \in Steps :
    Committed(t, s) => \A u \in Before(s) : Committed(t, u)

\* A completed transfer is paid for: both sides of it stand.
CompletedMeansMoved ==
  \A t \in Transfers : execution[t] # Absent /\ execution[t].status = "COMPLETED" =>
    \A s \in Steps : Standing(t, s)

\* A saga as its row and its announcements show it.
Lifecycle == INSTANCE SagaLifecycle WITH
  Stages <- SagaStatuses,
  stage <- [t \in Transfers |-> IF execution[t] = Absent THEN Absent
                                ELSE execution[t].status],
  finished <- {t \in Transfers : Finished(t)}

-----------------------------------------------------------------------------
(* When calls are answered in the end.                                     *)

\* The debit of an undecided transfer is money on its way: it left the source
\* and still belongs to somebody.
InTransit(t) == Standing(t, "DEBIT") /\ ~Standing(t, "CREDIT") /\ ~Finished(t)

OnItsWay(t, a) == IF InTransit(t) /\ request[t].source = a THEN request[t].amount ELSE 0

PromisedFunds ==
  [a \in Accounts |->
     balance[a] + SumFunction([t \in Transfers |-> OnItsWay(t, a)])]

PromisedFate ==
  [t \in Transfers |->
     IF Standing(t, "CREDIT") THEN "moved"
     ELSE IF Finished(t) /\ execution[t].status # "COMPLETED" THEN "void"
     ELSE "open"]

Promise == INSTANCE TransferPromise WITH funds <- PromisedFunds, fate <- PromisedFate

\* The saga is all-or-nothing: seen through its money in transit, every
\* transfer commits in one step or leaves every balance as it was, and one or
\* the other does happen.
KeepsThePromise == Promise!Spec

\* Every transfer asked for gets a finished execution in the end, also when a
\* run dies and another call of the same transfer has to take over.
EveryTransferDecided == \A t \in Transfers : <>Finished(t)

\* docs/02 section 5: every execution that does not complete leaves the
\* balances as they were.
FailedLeavesNoTrace ==
  \A t \in Transfers :
    Finished(t) /\ execution[t].status # "COMPLETED"
      /\ execution[t].compensation # "COMPENSATION_FAILED"
    => ~Standing(t, "DEBIT") /\ ~Standing(t, "CREDIT")
===============================================================================
