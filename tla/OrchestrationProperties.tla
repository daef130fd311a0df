----------------------- MODULE OrchestrationProperties -----------------------
(***************************************************************************)
(* What the orchestrated saga owes its clients, its auditors and the       *)
(* Gateway, besides what any saga does (SagaProperties).  The first group  *)
(* holds whatever fails, however many runs of a transfer overlap; the      *)
(* second needs a single run per transfer.                                 *)
(***************************************************************************)
EXTENDS Orchestration, SagaProperties

-----------------------------------------------------------------------------
(* Whatever fails.                                                         *)

\* The contract's main rule: the coordinator never asks a service to undo what
\* that service did not do.  A compensation fails only because the service
\* cannot be reached or the credited money has been spent.
NoPhantomCompensation ==
  \A r \in Runs : At(r, "undone") =>
    \/ run[r].outcome \in {"OK", "SERVICE_UNAVAILABLE"}
    \/ run[r].step = "CREDIT" /\ run[r].outcome = "INSUFFICIENT_FUNDS"

\* Every run started comes to its end or dies: no call is retried for ever and
\* no compensation blocks the ones that follow.
EveryRunEnds == \A r \in Runs : <>Ended(r)

-----------------------------------------------------------------------------
(* One run per transfer.                                                   *)

\* Strictly reverse order: a step is undone at its service only after the
\* rollback of every later executed step was tried and recorded.
RollbackInReverse ==
  \A t \in Transfers, s \in Steps : Reverted(t, s) =>
    \A u \in After(s) : Row(t, "ACTION", u) = "EXECUTED" =>
      Row(t, "COMPENSATION", u) # Absent

\* The verdict of a finished execution agrees with its audit trail, step by
\* step: completed means all executed and nothing undone; otherwise a step
\* failed, and the compensation status says what became of those executed.
VerdictMatchesTrail ==
  \A t \in Transfers : Finished(t) =>
    LET executed == Executed(t)
        undone(status) == {s \in Steps : Row(t, "COMPENSATION", s) = status}
    IN
    /\ execution[t].status \in TerminalStatuses
    /\ execution[t].current = "NONE"
    /\ execution[t].status = "COMPLETED" <=> executed = Steps
    /\ execution[t].compensation = "NOT_REQUIRED" <=> executed \in {{}, Steps}
    /\ execution[t].compensation = "COMPENSATED" =>
         undone("COMPENSATED") = executed
    /\ execution[t].compensation = "COMPENSATION_FAILED" =>
         /\ undone("COMPENSATION_FAILED") # {}
         /\ undone("COMPENSATED") \cup undone("COMPENSATION_FAILED") = executed
    /\ execution[t].status # "COMPLETED" =>
         \E s \in Steps : /\ Row(t, "ACTION", s) = "FAILED"
                          /\ executed = Before(s)
                          /\ \A u \in After(s) : Row(t, "ACTION", u) = "SKIPPED"

\* The statuses an execution may go to from each status (docs/01 section 3.2,
\* with FAILED for errors that are no business rejection).
Successors(status) ==
  CASE status = "PENDING"          -> {"DEBITED", "REJECTED_FUNDS", "FAILED"}
    [] status = "DEBITED"          -> {"RISK_APPROVED", "COMPENSATING"}
    [] status = "RISK_APPROVED"    -> {"CLEARING_PENDING", "COMPENSATING"}
    [] status = "CLEARING_PENDING" -> {"COMPLETED", "COMPENSATING"}
    [] status = "COMPENSATING"     -> {"REJECTED_RISK", "REJECTED_NETWORK", "FAILED"}
    [] OTHER                       -> {}

\* An execution moves only along the state machine of the design document and
\* a terminal status is never left.
StatusFollowsTheTable ==
  [][\A t \in Transfers : execution[t] # Absent =>
       \/ execution'[t].status = execution[t].status
       \/ execution'[t].status \in Successors(execution[t].status)]_vars

\* What is handed to the notifier is what the row says, and the row only moves
\* on; the last thing said of a transfer, before its run returns, is the outcome
\* stored in the row.
FollowsTheLifecycle ==
  /\ Lifecycle!Spec
  /\ [][\A r \in Runs : run'[r].pc = "done" =>
          announced'[TransferOf[r]] = GatewayStatus(execution'[TransferOf[r]].status)]_vars

\* Whichever runs die, with whatever requests in flight, no account is ever out
\* of pocket: while every call a run waits for is answered, each step of the saga
\* commits a transfer whole, refuses it or changes nothing.
AllOrNothing ==
  /\ Promise!Init
  /\ [][timeouts = 0 => [Promise!Next]_(Promise!promiseVars)]_vars

\* A finished execution is never written again, nor is its trail.
FinishedIsFinal ==
  [][\A t \in Transfers : Finished(t) =>
       /\ execution'[t] = execution[t]
       /\ \A kind \in StepKinds, s \in Steps : trail'[<<t, kind, s>>] = Row(t, kind, s)]_vars
=============================================================================
