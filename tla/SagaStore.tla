------------------------------- MODULE SagaStore -------------------------------
(***************************************************************************)
(* The tables both flavours of the saga keep, saga.executions and          *)
(* saga.saga_steps, and the public status handed to the notifier.          *)
(***************************************************************************)
EXTENDS ServiceCalls

VARIABLES execution,    \* saga.executions, by transfer
          trail,        \* saga.saga_steps, by (transfer, kind, step)
          announced     \* last public status handed to the notifier

saga == <<execution, trail, announced>>

Execution == [status       : SagaStatuses,
              compensation : CompensationStatuses,
              current      : Steps \cup {"NONE"},
              error        : ErrorCodes \cup {"NONE"},
              finished     : BOOLEAN]

ASSUME AbsentAssumption ==
  /\ Absent \notin Execution
  /\ Absent \notin SagaStatuses \cup ActionStatuses \cup RollbackStatuses

NewExecution == [status |-> "PENDING", compensation |-> "NOT_REQUIRED",
                 current |-> "NONE", error |-> "NONE", finished |-> FALSE]

\* The transfer has an execution row with finished_at set.
Finished(t) == execution[t] # Absent /\ execution[t].finished

\* Mutant: the internal status is announced untranslated.
AnnounceRaw(t, status) == announced' = [announced EXCEPT ![t] = status]

Announce(t, status) == announced' = [announced EXCEPT ![t] = GatewayStatus(status)]

Row(t, kind, s) == trail[<<t, kind, s>>]
Write(t, kind, s, status) == trail' = [trail EXCEPT ![<<t, kind, s>>] = status]

\* Mutant: a step that failed counts as executed.
ExecutedOrFailed(t) ==
  {s \in Steps : trail[<<t, "ACTION", s>>] \in {"EXECUTED", "FAILED"}}

\* The steps executed_steps returns: the trail decides what is compensated.
Executed(t) == {s \in Steps : trail[<<t, "ACTION", s>>] = "EXECUTED"}

StoreInit ==
  /\ execution = [t \in Transfers |-> Absent]
  /\ trail = [k \in Transfers \X StepKinds \X Steps |-> Absent]
  /\ announced = [t \in Transfers |-> "RECIBIDA"]

StoreTypeOK ==
  /\ execution \in [Transfers -> Execution \cup {Absent}]
  /\ trail \in [Transfers \X StepKinds \X Steps ->
                  ActionStatuses \cup RollbackStatuses \cup {Absent}]
  /\ announced \in [Transfers -> PublicStatuses]
=============================================================================
