---------------------------- MODULE Orchestration ----------------------------
(***************************************************************************)
(* The orchestrated saga: runs of the coordinator (execute_saga), each in  *)
(* a thread of its own, against the account, risk and clearing services    *)
(* over HTTP, with the execution row and the audit trail they share.       *)
(*                                                                         *)
(* One action is one database transaction or one HTTP attempt.  A call     *)
(* whose attempt fails on the client side (timeout, broken connection,     *)
(* 5xx) leaves a request that the service may still execute later, or has  *)
(* executed already, or never will: it waits in "late" and nobody reads    *)
(* its answer.  A run dies when its process stops or when a repository     *)
(* call raises; nothing in the code picks a dead run up again.             *)
(***************************************************************************)
EXTENDS SagaStore

CONSTANTS Runs,            \* calls of run_orchestrated_saga
          TransferOf,      \* the transfer each run is called with
          MaxAttempts,     \* HTTP_MAX_ATTEMPTS
          MaxTimeouts,     \* bound: failed attempts in a behaviour
          MaxDeaths        \* bound: runs that die in a behaviour

ASSUME OrchestrationAssumption ==
  /\ TransferOf \in [Runs -> Transfers]
  /\ MaxAttempts \in Nat \ {0}
  /\ MaxTimeouts \in Nat
  /\ MaxDeaths \in Nat

VARIABLES run,          \* the local state of each run
          late,         \* requests whose client gave up on them
          timeouts, deaths   \* how much of the bounds is used up

faults == <<late, timeouts, deaths>>
vars == <<request, balance, ledger, evaluations, operations, execution, trail,
          announced, run, late, timeouts, deaths>>

-----------------------------------------------------------------------------
(* The coordinator.                                                        *)

NewRun == [pc |-> "new", step |-> FirstStep, attempt |-> 1, outcome |-> "OK",
           failure |-> "OK", todo |-> {}, clean |-> TRUE]

At(r, pc) == run[r].pc = pc
Goto(r, pc) == run' = [run EXCEPT ![r].pc = pc]
Calling(r) == run[r].pc \in {"call", "undo"}
KindOf(r) == IF run[r].pc \in {"call", "record"} THEN "ACTION" ELSE "COMPENSATION"
Ended(r) == run[r].pc \in {"done", "dead"}

\* start_execution: the first run of a transfer creates its row; a run that
\* finds an unfinished row goes on to execute the saga all the same.
Start(r) ==
  LET t == TransferOf[r] IN
  /\ At(r, "new")
  /\ ~Finished(t)
  /\ execution' = [execution EXCEPT ![t] = IF @ = Absent THEN NewExecution ELSE @]
  /\ Goto(r, "greet")
  /\ UNCHANGED <<request, services, trail, announced, faults>>

\* What a run will have decided about its transfer.
Verdict(r) == IF run[r].failure = "OK" THEN "COMPLETED" ELSE OutcomeFor(run[r].failure)

\* Mutant: the outcome is announced without its error code.
SaidWithoutReason(r) ==
  CASE At(r, "greet")  -> "PENDING"
    [] At(r, "tell")   -> StatusAfter[run[r].step]
    [] At(r, "alarm")  -> "COMPENSATING"
    [] At(r, "report") -> IF run[r].failure = "OK" THEN "COMPLETED" ELSE "FAILED"

\* The four places a run notifies from, and the status each one names.
Said(r) ==
  CASE At(r, "greet")  -> "PENDING"
    [] At(r, "tell")   -> StatusAfter[run[r].step]
    [] At(r, "alarm")  -> "COMPENSATING"
    [] At(r, "report") -> Verdict(r)

Notify(r) ==
  /\ run[r].pc \in {"greet", "tell", "alarm", "report"}
  /\ Announce(TransferOf[r], Said(r))
  /\ run' = [run EXCEPT ![r].pc = CASE @ \in {"greet", "tell"} -> "enter"
                                    [] @ = "alarm"  -> "undo"
                                    [] @ = "report" -> "done",
                        ![r].step = IF At(r, "tell") THEN NextStep(@) ELSE @]
  /\ UNCHANGED <<request, services, execution, trail, faults>>

\* Mutant: any row is replayed, finished or not.
ReplayUnfinished(r) ==
  /\ At(r, "new")
  /\ execution[TransferOf[r]] # Absent
  /\ Goto(r, "done")
  /\ UNCHANGED <<request, services, saga, faults>>

\* start_execution found a finished row: the stored outcome is returned.
Replay(r) ==
  /\ At(r, "new")
  /\ Finished(TransferOf[r])
  /\ Goto(r, "done")
  /\ UNCHANGED <<request, services, saga, faults>>

Enter(r) ==
  /\ At(r, "enter")
  /\ execution' = [execution EXCEPT ![TransferOf[r]].current = run[r].step]
  /\ run' = [run EXCEPT ![r].pc = "call", ![r].attempt = 1]
  /\ UNCHANGED <<request, services, trail, announced, faults>>

\* The attempt in flight is served and its answer reaches the run.
Answered(r) ==
  LET t == TransferOf[r] IN
  /\ Calling(r)
  /\ Serve(t, KindOf(r), run[r].step)
  /\ run' = [run EXCEPT ![r].outcome = Reply(t, KindOf(r), run[r].step),
                        ![r].pc = IF @ = "call" THEN "record" ELSE "undone"]
  /\ UNCHANGED <<request, saga, faults>>

\* The attempt in flight fails on the client side and is abandoned.
Abandon(r) ==
  late' = late \cup {[run |-> r, kind |-> KindOf(r), step |-> run[r].step,
                      attempt |-> run[r].attempt]}

Retry(r) ==
  /\ Calling(r) /\ timeouts < MaxTimeouts
  /\ run[r].attempt < MaxAttempts
  /\ Abandon(r)
  /\ run' = [run EXCEPT ![r].attempt = @ + 1]
  /\ timeouts' = timeouts + 1
  /\ UNCHANGED <<request, services, saga, deaths>>

\* Mutant: a call nobody answered counts as a success.
GiveUpHoping(r) ==
  /\ Calling(r) /\ timeouts < MaxTimeouts
  /\ run[r].attempt = MaxAttempts
  /\ Abandon(r)
  /\ run' = [run EXCEPT ![r].outcome = "OK",
                        ![r].pc = IF @ = "call" THEN "record" ELSE "undone"]
  /\ timeouts' = timeouts + 1
  /\ UNCHANGED <<request, services, saga, deaths>>

GiveUp(r) ==
  /\ Calling(r) /\ timeouts < MaxTimeouts
  /\ run[r].attempt = MaxAttempts
  /\ Abandon(r)
  /\ run' = [run EXCEPT ![r].outcome = "SERVICE_UNAVAILABLE",
                        ![r].pc = IF @ = "call" THEN "record" ELSE "undone"]
  /\ timeouts' = timeouts + 1
  /\ UNCHANGED <<request, services, saga, deaths>>

\* execute_step writes the outcome to the trail.
RecordSuccess(r) ==
  /\ At(r, "record") /\ run[r].outcome = "OK"
  /\ Write(TransferOf[r], "ACTION", run[r].step, "EXECUTED")
  /\ Goto(r, "advance")
  /\ UNCHANGED <<request, services, execution, announced, faults>>

RecordFailure(r) ==
  LET s == run[r].step IN
  /\ At(r, "record") /\ run[r].outcome # "OK"
  /\ Write(TransferOf[r], "ACTION", s, "FAILED")
  /\ run' = [run EXCEPT ![r].failure = run[r].outcome,
                        ![r].todo = After(s),
                        ![r].pc = IF After(s) = {} THEN "settle" ELSE "skip"]
  /\ UNCHANGED <<request, services, execution, announced, faults>>

\* The status the step leads to; COMPLETED is announced only when it is final.
Advance(r) ==
  /\ At(r, "advance")
  /\ execution' = [execution EXCEPT ![TransferOf[r]].status = StatusAfter[run[r].step]]
  /\ Goto(r, IF run[r].step = LastStep THEN "settle" ELSE "tell")
  /\ UNCHANGED <<request, services, trail, announced, faults>>

\* Mutant: the same step is skipped again and again.
SkipForever(r) ==
  /\ At(r, "skip")
  /\ Write(TransferOf[r], "ACTION", Earliest(run[r].todo), "SKIPPED")
  /\ UNCHANGED <<request, services, execution, announced, run, faults>>

\* skip_step: the steps after the failed one are written as never attempted.
Skip(r) ==
  LET s == Earliest(run[r].todo) IN
  /\ At(r, "skip")
  /\ Write(TransferOf[r], "ACTION", s, "SKIPPED")
  /\ run' = [run EXCEPT ![r].todo = @ \ {s},
                        ![r].pc = IF run[r].todo = {s} THEN "settle" ELSE "skip"]
  /\ UNCHANGED <<request, services, execution, announced, faults>>

\* The trail is read back: what is recorded as executed is what to compensate.
Settle(r) ==
  /\ At(r, "settle")
  /\ run' = [run EXCEPT
       ![r].pc = "resolve",
       ![r].todo = IF run[r].failure = "OK" THEN {} ELSE Executed(TransferOf[r])]
  /\ UNCHANGED <<request, services, saga, faults>>

\* The last update_execution of a run: finished_at is set.  An error code is
\* written only when there is one.
Finish(r, status, compensation) ==
  LET t == TransferOf[r] IN
  /\ execution' = [execution EXCEPT
       ![t] = [status       |-> status,
               compensation |-> compensation,
               current      |-> "NONE",
               error        |-> IF run[r].failure = "OK" THEN @.error ELSE run[r].failure,
               finished     |-> TRUE]]
  /\ Goto(r, "report")
  /\ UNCHANGED <<request, services, trail, announced, faults>>

Complete(r) ==
  /\ At(r, "resolve") /\ run[r].failure = "OK"
  /\ Finish(r, Verdict(r), "NOT_REQUIRED")

\* Nothing is recorded as executed: nothing is compensated.
Reject(r) ==
  /\ At(r, "resolve") /\ run[r].failure # "OK" /\ run[r].todo = {}
  /\ Finish(r, Verdict(r), "NOT_REQUIRED")

\* Mutant: the execution is finished when its rollback begins.
BeginRollbackFinished(r) ==
  LET t == TransferOf[r] IN
  /\ At(r, "resolve") /\ run[r].failure # "OK" /\ run[r].todo # {}
  /\ execution' = [execution EXCEPT ![t].status = "COMPENSATING",
                                    ![t].finished = TRUE]
  /\ run' = [run EXCEPT ![r].pc = "alarm", ![r].step = Latest(run[r].todo)]
  /\ UNCHANGED <<request, services, trail, announced, faults>>

\* Mutant: the rollback begins without changing the status.
BeginRollbackQuietly(r) ==
  LET t == TransferOf[r] IN
  /\ At(r, "resolve") /\ run[r].failure # "OK" /\ run[r].todo # {}
  /\ execution' = [execution EXCEPT ![t].compensation = "COMPENSATING"]
  /\ run' = [run EXCEPT ![r].pc = "alarm", ![r].step = Latest(run[r].todo)]
  /\ UNCHANGED <<request, services, trail, announced, faults>>

BeginRollback(r) ==
  LET t == TransferOf[r] IN
  /\ At(r, "resolve") /\ run[r].failure # "OK" /\ run[r].todo # {}
  /\ execution' = [execution EXCEPT ![t].status = "COMPENSATING",
                                    ![t].compensation = "COMPENSATING",
                                    ![t].error = run[r].failure]
  /\ run' = [run EXCEPT ![r].pc = "alarm", ![r].step = Latest(run[r].todo),
                        ![r].attempt = 1]
  /\ UNCHANGED <<request, services, trail, announced, faults>>

\* Mutant: a compensation is written as done whatever the service said.
RecordRollbackBlindly(r) ==
  LET s == run[r].step
      rest == run[r].todo \ {s}
  IN
  /\ At(r, "undone")
  /\ Write(TransferOf[r], "COMPENSATION", s, "COMPENSATED")
  /\ run' = [run EXCEPT ![r].todo = rest,
                        ![r].pc = IF rest = {} THEN "close" ELSE "undo",
                        ![r].step = IF rest = {} THEN @ ELSE Latest(rest),
                        ![r].attempt = 1]
  /\ UNCHANGED <<request, services, execution, announced, faults>>

\* compensate_step writes its outcome; a failure does not stop the rollback.
RecordRollback(r) ==
  LET s == run[r].step
      rest == run[r].todo \ {s}
  IN
  /\ At(r, "undone")
  /\ Write(TransferOf[r], "COMPENSATION", s,
           IF run[r].outcome = "OK" THEN "COMPENSATED" ELSE "COMPENSATION_FAILED")
  /\ run' = [run EXCEPT
       ![r].todo = rest,
       ![r].clean = @ /\ run[r].outcome = "OK",
       ![r].pc = IF rest = {} THEN "close" ELSE "undo",
       ![r].step = IF rest = {} THEN @ ELSE Latest(rest),
       ![r].attempt = 1]
  /\ UNCHANGED <<request, services, execution, announced, faults>>

\* Mutant: a failed compensation does not show in the final status.
CloseClean(r) == At(r, "close") /\ Finish(r, Verdict(r), "COMPENSATED")

Close(r) ==
  /\ At(r, "close")
  /\ Finish(r, Verdict(r), IF run[r].clean THEN "COMPENSATED" ELSE "COMPENSATION_FAILED")

-----------------------------------------------------------------------------
(* Faults.                                                                 *)

\* The run stops for good; a request it had in flight stays in flight.
Die(r) ==
  /\ ~At(r, "new") /\ ~Ended(r) /\ deaths < MaxDeaths
  /\ IF Calling(r) THEN Abandon(r) ELSE UNCHANGED late
  /\ Goto(r, "dead")
  /\ deaths' = deaths + 1
  /\ UNCHANGED <<request, services, saga, timeouts>>

\* A service executes a request whose client no longer waits for it.
ExecuteLate(m) ==
  /\ Serve(TransferOf[m.run], m.kind, m.step)
  /\ late' = late \ {m}
  /\ UNCHANGED <<request, saga, run, timeouts, deaths>>

\* Every run has ended and no request is left: nothing more will happen.
Rest ==
  /\ \A r \in Runs : Ended(r)
  /\ late = {}
  /\ UNCHANGED vars

-----------------------------------------------------------------------------
Init ==
  /\ request \in [Transfers -> Requests]
  /\ Account!Init
  /\ Risk!Init
  /\ Network!Init
  /\ StoreInit
  /\ run = [r \in Runs |-> NewRun]
  /\ late = {}
  /\ timeouts = 0
  /\ deaths = 0

\* What a run does of its own accord.
Step(r) ==
  \/ Start(r) \/ Replay(r) \/ Notify(r) \/ Enter(r)
  \/ Answered(r) \/ Retry(r) \/ GiveUp(r)
  \/ RecordSuccess(r) \/ RecordFailure(r) \/ Advance(r) \/ Skip(r)
  \/ Settle(r) \/ Complete(r) \/ Reject(r)
  \/ BeginRollback(r) \/ RecordRollback(r) \/ Close(r)

Next == \/ \E r \in Runs : Step(r) \/ Die(r)
        \/ \E m \in late : ExecuteLate(m)
        \/ Rest

Spec == Init /\ [][Next]_vars

\* A run that has not died goes on: every HTTP attempt ends within its
\* timeouts.  Nothing obliges a late request to be executed.
FairSpec == Spec /\ \A r \in Runs : WF_vars(Step(r))

-----------------------------------------------------------------------------
RunState == [pc      : {"new", "greet", "enter", "call", "record", "advance", "tell",
                        "skip", "settle", "resolve", "alarm", "undo", "undone",
                        "close", "report", "done", "dead"},
             step    : Steps,
             attempt : 1..MaxAttempts,
             outcome : ErrorCodes \cup {"OK"},
             failure : ErrorCodes \cup {"OK"},
             todo    : SUBSET Steps,
             clean   : BOOLEAN]

Message == [run : Runs, kind : StepKinds, step : Steps, attempt : 1..MaxAttempts]

\* Every row, run and message is well formed; the services keep their types.
TypeOK ==
  /\ request \in [Transfers -> Requests]
  /\ Account!TypeOK
  /\ Risk!TypeOK
  /\ Network!TypeOK
  /\ StoreTypeOK
  /\ run \in [Runs -> RunState]
  /\ late \subseteq Message
  /\ timeouts \in 0..MaxTimeouts
  /\ deaths \in 0..MaxDeaths
=============================================================================
