------------------------- MODULE OrchestrationProofs -------------------------
(***************************************************************************)
(* What the orchestrated saga guarantees whatever fails: any number of     *)
(* transfers and runs, any overlap of the runs of a transfer, any deaths,  *)
(* any number of abandoned requests executed late.                         *)
(***************************************************************************)
EXTENDS ServiceCallProofs, OrchestrationProperties

-----------------------------------------------------------------------------
(* The inductive invariant.                                                *)

SagaTypes ==
  /\ execution \in [Transfers -> Execution \cup {Absent}]
  /\ trail \in [Transfers \X StepKinds \X Steps ->
                  ActionStatuses \cup RollbackStatuses \cup {Absent}]
  /\ announced \in [Transfers -> PublicStatuses]
  /\ run \in [Runs -> RunState]
  /\ late \subseteq Message
  /\ timeouts \in 0..MaxTimeouts
  /\ deaths \in 0..MaxDeaths

\* What a run may take for granted where it stands: every step before its own
\* took effect, what it is about to undo took effect, what a service told it is
\* still true there.
Placed(r) ==
  LET t == TransferOf[r]
      me == run[r]
  IN
  /\ me.pc \notin {"new", "done", "dead"} => execution[t] # Absent
  /\ me.pc \in {"new", "greet"} => me.step = FirstStep
  /\ me.pc \in {"new", "greet", "enter", "call", "record", "advance", "tell"} =>
       Before(me.step) \subseteq Done[t]
  /\ me.pc \in {"advance", "tell"} => me.step \in Done[t]
  /\ me.pc = "tell" => me.step # LastStep
  /\ me.pc = "record" /\ me.outcome = "OK" => me.step \in Done[t]
  /\ me.pc = "skip" => me.todo # {}
  /\ me.pc \in {"resolve", "alarm", "undo", "undone"} => me.todo \subseteq Done[t]
  /\ me.pc \in {"alarm", "undo", "undone"} => me.step \in me.todo
  /\ me.pc = "undone" => \/ me.outcome = "OK" /\ me.step \in Undone[t]
                         \/ me.outcome = "SERVICE_UNAVAILABLE"
                         \/ me.outcome = "INSUFFICIENT_FUNDS" /\ me.step = "CREDIT"

\* An abandoned request never gets ahead either.
Carried(m) == m.kind = "ACTION" => Before(m.step) \subseteq Done[TransferOf[m.run]]

\* AuditNeverLies and NothingRunsAhead, said of Done and Undone.
Audited ==
  \A t \in Transfers, s \in Steps :
    /\ trail[<<t, "ACTION", s>>] = "EXECUTED" => s \in Done[t]
    /\ trail[<<t, "COMPENSATION", s>>] = "COMPENSATED" => s \in Undone[t]

Ordered == \A t \in Transfers : \A s \in Done[t] : Before(s) \subseteq Done[t]

IInv ==
  /\ ServiceTypes /\ ServicesAgree /\ SagaTypes
  /\ \A r \in Runs : Placed(r)
  /\ \A m \in late : Carried(m)
  /\ Audited /\ Ordered

-----------------------------------------------------------------------------
(* The order of the steps.                                                 *)

\* The place of each step in the sequence.
LEMMA StepOrder ==
  /\ Sequence["DEBIT"] = 1 /\ Sequence["RISK"] = 2
  /\ Sequence["CLEARING"] = 3 /\ Sequence["CREDIT"] = 4
  BY DEF Sequence, Steps

\* Nothing precedes the first step; what precedes or follows a step are steps.
LEMMA StepDomain ==
  /\ FirstStep \in Steps /\ LastStep \in Steps
  /\ Before(FirstStep) = {}
  /\ \A s \in Steps : Before(s) \subseteq Steps /\ After(s) \subseteq Steps
  BY StepOrder DEF Steps, FirstStep, LastStep, Before, After

\* The step after s has s, and what precedes s, before it, and nothing else.
LEMMA NextStepFollows ==
  ASSUME NEW s \in Steps, s # LastStep
  PROVE  /\ NextStep(s) \in Steps
         /\ Before(NextStep(s)) = Before(s) \cup {s}
<1>1. \E u \in Steps : Sequence[u] = Sequence[s] + 1
  BY StepOrder DEF Steps, LastStep
<1>2. NextStep(s) \in Steps /\ Sequence[NextStep(s)] = Sequence[s] + 1
  BY <1>1 DEF NextStep
<1>3. QED
  BY <1>2, StepOrder DEF Before, Steps

\* The earliest and the latest of some steps are among them: skipping and
\* undoing always work on a step that is left to do.
LEMMA ExtremesBelong ==
  ASSUME NEW S \in SUBSET Steps, S # {}
  PROVE  Earliest(S) \in S /\ Latest(S) \in S
<1>1. \A u \in S : u \in {"DEBIT", "RISK", "CLEARING", "CREDIT"}
  BY DEF Steps
<1>2. \E s \in S : \A u \in S : Sequence[s] <= Sequence[u]
  <2>1. CASE "DEBIT" \in S
    <3>1. \A u \in S : Sequence["DEBIT"] <= Sequence[u]
      BY <1>1, StepOrder
    <3>2. QED
      BY <2>1, <3>1
  <2>2. CASE "DEBIT" \notin S /\ "RISK" \in S
    <3>1. \A u \in S : Sequence["RISK"] <= Sequence[u]
      BY <1>1, <2>2, StepOrder
    <3>2. QED
      BY <2>2, <3>1
  <2>3. CASE "DEBIT" \notin S /\ "RISK" \notin S /\ "CLEARING" \in S
    <3>1. \A u \in S : Sequence["CLEARING"] <= Sequence[u]
      BY <1>1, <2>3, StepOrder
    <3>2. QED
      BY <2>3, <3>1
  <2>4. CASE S = {"CREDIT"}
    BY <2>4, StepOrder
  <2>5. QED
    BY <1>1, <2>1, <2>2, <2>3, <2>4
<1>3. \E s \in S : \A u \in S : Sequence[s] >= Sequence[u]
  <2>1. CASE "CREDIT" \in S
    <3>1. \A u \in S : Sequence["CREDIT"] >= Sequence[u]
      BY <1>1, StepOrder
    <3>2. QED
      BY <2>1, <3>1
  <2>2. CASE "CREDIT" \notin S /\ "CLEARING" \in S
    <3>1. \A u \in S : Sequence["CLEARING"] >= Sequence[u]
      BY <1>1, <2>2, StepOrder
    <3>2. QED
      BY <2>2, <3>1
  <2>3. CASE "CREDIT" \notin S /\ "CLEARING" \notin S /\ "RISK" \in S
    <3>1. \A u \in S : Sequence["RISK"] >= Sequence[u]
      BY <1>1, <2>3, StepOrder
    <3>2. QED
      BY <2>3, <3>1
  <2>4. CASE S = {"DEBIT"}
    BY <2>4, StepOrder
  <2>5. QED
    BY <1>1, <2>1, <2>2, <2>3, <2>4
<1>4. QED
  BY <1>2, <1>3 DEF Earliest, Latest
-----------------------------------------------------------------------------
(* Steps during which no service works.                                    *)

\* What a run takes for granted is never lost through what others do.
LEMMA PlacedStays ==
  ASSUME NEW q \in Runs, Placed(q), run'[q] = run[q],
         \A t \in Transfers : /\ Done[t] \subseteq Done'[t]
                              /\ Undone[t] \subseteq Undone'[t]
                              /\ execution[t] # Absent => execution'[t] # Absent
  PROVE  Placed(q)'
<1>1. TransferOf[q] \in Transfers
  BY OrchestrationAssumption
<1>2. QED
  BY <1>1 DEF Placed

\* A step of a run, no service working, keeps the invariant if it keeps the
\* types and leaves the run where it may stand.
LEMMA QuietStep ==
  ASSUME IInv, NEW r \in Runs, UNCHANGED <<request, services>>,
         run' = [run EXCEPT ![r] = run'[r]], run'[r] \in RunState, Placed(r)',
         UNCHANGED execution \/ \E t \in Transfers, row \in Execution :
                                  execution' = [execution EXCEPT ![t] = row],
         UNCHANGED trail \/ /\ trail' \in [Transfers \X StepKinds \X Steps ->
                                  ActionStatuses \cup RollbackStatuses \cup {Absent}]
                            /\ Audited',
         announced' \in [Transfers -> PublicStatuses],
         late' \subseteq Message, timeouts' \in 0..MaxTimeouts, deaths' \in 0..MaxDeaths,
         \A m \in late' : m \notin late => Carried(m)
  PROVE  IInv'
<1>1. ServiceTypes' /\ ServicesAgree' /\ Done' = Done /\ Undone' = Undone
  BY ServicesQuiet DEF IInv
<1>2. /\ execution' \in [Transfers -> Execution \cup {Absent}]
      /\ \A t \in Transfers : execution[t] # Absent => execution'[t] # Absent
  BY AbsentAssumption DEF IInv, SagaTypes
<1>3. SagaTypes' /\ \A q \in Runs : q # r => run'[q] = run[q]
  BY <1>2 DEF IInv, SagaTypes
<1>4. \A q \in Runs : Placed(q)'
  <2>1. ASSUME NEW q \in Runs, q # r
        PROVE  Placed(q)'
    <3>1. Placed(q) /\ run'[q] = run[q]
      BY <1>3, <2>1 DEF IInv
    <3>2. QED
      BY <1>1, <1>2, <3>1, PlacedStays
  <2>2. QED
    BY <2>1
<1>5. \A m \in late' : Carried(m)'
  BY <1>1 DEF IInv, Carried
<1>6. Audited'
  BY <1>1 DEF IInv, Audited
<1>7. Ordered'
  BY <1>1 DEF IInv, Ordered
<1>8. QED
  BY <1>1, <1>3, <1>4, <1>5, <1>6, <1>7 DEF IInv

\* What every step of a run starts from.
LEMMA AtARun ==
  ASSUME IInv, NEW r \in Runs
  PROVE  /\ TransferOf[r] \in Transfers
         /\ run \in [Runs -> RunState]
         /\ run[r] \in RunState
         /\ execution \in [Transfers -> Execution \cup {Absent}]
         /\ announced \in [Transfers -> PublicStatuses]
         /\ late \subseteq Message /\ timeouts \in 0..MaxTimeouts /\ deaths \in 0..MaxDeaths
         /\ Placed(r)
         /\ UNCHANGED <<request, services>> => Done' = Done /\ Undone' = Undone
  BY OrchestrationAssumption, ServicesQuiet DEF IInv, SagaTypes

\* The local state of every run is well formed.
LEMMA RunTyped ==
  ASSUME IInv, NEW r \in Runs
  PROVE  run \in [Runs -> RunState] /\ run[r] \in RunState
  BY DEF IInv, SagaTypes

\* A run finds the row of its transfer or creates it.
LEMMA StartKeeps ==
  ASSUME IInv, NEW r \in Runs, Start(r)
  PROVE  IInv'
<1> DEFINE t == TransferOf[r]
<1>0. run \in [Runs -> RunState] /\ run[r] \in RunState
  BY RunTyped
<1>1. /\ run' = [run EXCEPT ![r].pc = "greet"] /\ run[r].pc = "new"
      /\ execution' = [execution EXCEPT ![t] = IF @ = Absent THEN NewExecution ELSE @]
      /\ UNCHANGED <<request, services, trail, announced, late, timeouts, deaths>>
  BY DEF Start, At, Goto, faults
<1>2. /\ run' = [run EXCEPT ![r] = run'[r]] /\ run'[r] \in RunState
      /\ run'[r] = [run[r] EXCEPT !.pc = "greet"]
  BY <1>0, <1>1 DEF RunState
<1>3. NewExecution \in Execution
  BY DEF NewExecution, Execution, SagaStatuses, CompensationStatuses
<1>4. /\ \E row \in Execution : execution' = [execution EXCEPT ![t] = row]
      /\ execution'[t] # Absent
  BY <1>1, <1>3, AtARun, AbsentAssumption
<1>5. Placed(r)'
  <2>1. /\ run'[r].pc = "greet" /\ run'[r].step = run[r].step
        /\ run[r].pc = "new"
    BY <1>0, <1>1, <1>2 DEF RunState
  <2>2. QED
    BY <1>1, <1>4, <2>1, AtARun DEF Placed
<1>6. QED
  BY <1>1, <1>2, <1>4, <1>5, AtARun, QuietStep

\* A run that finds a finished row takes nothing for granted.
LEMMA ReplayKeeps ==
  ASSUME IInv, NEW r \in Runs, Replay(r)
  PROVE  IInv'
<1>0. run \in [Runs -> RunState] /\ run[r] \in RunState
  BY RunTyped
<1>1. /\ run' = [run EXCEPT ![r].pc = "done"]
      /\ UNCHANGED <<request, services, execution, trail, announced, late, timeouts, deaths>>
  BY DEF Replay, Goto, faults, saga
<1>2. /\ run' = [run EXCEPT ![r] = run'[r]] /\ run'[r] \in RunState
      /\ run'[r].pc = "done"
  BY <1>0, <1>1 DEF RunState
<1>3. Placed(r)'
  BY <1>2 DEF Placed
<1>4. QED
  BY <1>1, <1>2, <1>3, AtARun, QuietStep

\* What the trail says is executed did take effect: the rollback asks for no more.
LEMMA SettleKeeps ==
  ASSUME IInv, NEW r \in Runs, Settle(r)
  PROVE  IInv'
<1> DEFINE t == TransferOf[r]
           executed == IF run[r].failure = "OK" THEN {} ELSE Executed(t)
<1>0. run \in [Runs -> RunState] /\ run[r] \in RunState
  BY RunTyped
<1>1. /\ run' = [run EXCEPT ![r].pc = "resolve", ![r].todo = executed]
      /\ run[r].pc = "settle"
      /\ UNCHANGED <<request, services, execution, trail, announced, late, timeouts, deaths>>
  BY DEF Settle, At, faults, saga
<1>2. executed \subseteq Steps /\ executed \subseteq Done[t]
  BY AtARun DEF Executed, IInv, Audited
<1>3. /\ run' = [run EXCEPT ![r] = run'[r]] /\ run'[r] \in RunState
      /\ run'[r].pc = "resolve" /\ run'[r].todo = executed
  BY <1>0, <1>1, <1>2 DEF RunState
<1>4. Placed(r)'
  BY <1>1, <1>2, <1>3, AtARun DEF Placed
<1>5. QED
  BY <1>1, <1>3, <1>4, AtARun, QuietStep

\* When a step is announced and the next one entered, the next one is in order.
LEMMA NotifyKeeps ==
  ASSUME IInv, NEW r \in Runs, Notify(r)
  PROVE  IInv'
<1> DEFINE t == TransferOf[r]
           pc == run[r].pc
<1>0. run \in [Runs -> RunState] /\ run[r] \in RunState
  BY RunTyped
<1>1. /\ run' = [run EXCEPT ![r].pc = CASE @ \in {"greet", "tell"} -> "enter"
                                        [] @ = "alarm"  -> "undo"
                                        [] @ = "report" -> "done",
                            ![r].step = IF pc = "tell" THEN NextStep(@) ELSE @]
      /\ pc \in {"greet", "tell", "alarm", "report"}
      /\ announced' = [announced EXCEPT ![t] = GatewayStatus(Said(r))]
      /\ UNCHANGED <<request, services, execution, trail, late, timeouts, deaths>>
  BY DEF Notify, At, Announce, faults
<1>2. announced' \in [Transfers -> PublicStatuses]
  BY <1>1, AtARun DEF GatewayStatus, PublicStatuses
<1>3. CASE pc = "tell"
  <2>1. /\ run' = [run EXCEPT ![r] = run'[r]] /\ run'[r] \in RunState
        /\ run'[r].pc = "enter" /\ run'[r].step = NextStep(run[r].step)
        /\ Before(run'[r].step) \subseteq Done[t]
    <3>1. /\ NextStep(run[r].step) \in Steps
          /\ Before(NextStep(run[r].step)) \subseteq Done[t]
      <4>1. run[r].step \in Steps
        BY <1>0 DEF RunState
      <4>2. /\ run[r].step # LastStep
            /\ run[r].step \in Done[t] /\ Before(run[r].step) \subseteq Done[t]
        BY <1>3, AtARun DEF Placed
      <4>3. QED
        BY <4>1, <4>2, NextStepFollows
    <3>2. QED
      BY <1>0, <1>1, <1>3, <3>1 DEF RunState
  <2>2. Placed(r)'
    BY <1>1, <1>3, <2>1, AtARun DEF Placed
  <2>3. QED
    BY <1>1, <1>2, <2>1, <2>2, AtARun, QuietStep
<1>4. CASE pc # "tell"
  <2>1. /\ run' = [run EXCEPT ![r] = run'[r]] /\ run'[r] \in RunState
        /\ \/ pc = "greet" /\ run'[r].pc = "enter"
           \/ pc = "alarm" /\ run'[r].pc = "undo"
           \/ pc = "report" /\ run'[r].pc = "done"
        /\ run'[r].step = run[r].step /\ run'[r].todo = run[r].todo
    BY <1>0, <1>1, <1>4 DEF RunState
  <2>2. Placed(r)'
    BY <1>1, <1>4, <2>1, AtARun DEF Placed
  <2>3. QED
    BY <1>1, <1>2, <2>1, <2>2, AtARun, QuietStep
<1>5. QED
  BY <1>3, <1>4

\* Steps that also write the execution row.  A row is written only by a run that
\* has created or found it.
LEMMA RowWritten ==
  ASSUME IInv, NEW r \in Runs, run[r].pc \notin {"new", "done", "dead"}
  PROVE  execution[TransferOf[r]] \in Execution
  BY AtARun DEF Placed

\* The first attempt is one of those allowed.
LEMMA FirstAttempt == 1 \in 1..MaxAttempts
  BY OrchestrationAssumption

\* Entering a step writes only which step is current.
LEMMA EnterKeeps ==
  ASSUME IInv, NEW r \in Runs, Enter(r)
  PROVE  IInv'
<1> DEFINE t == TransferOf[r]
           row == [execution[t] EXCEPT !.current = run[r].step]
<1>0. run \in [Runs -> RunState] /\ run[r] \in RunState
  BY RunTyped
<1>1. /\ run' = [run EXCEPT ![r].pc = "call", ![r].attempt = 1]
      /\ run[r].pc = "enter"
      /\ execution' = [execution EXCEPT ![t].current = run[r].step]
      /\ UNCHANGED <<request, services, trail, announced, late, timeouts, deaths>>
  BY DEF Enter, At, faults
<1>2. /\ run' = [run EXCEPT ![r] = run'[r]] /\ run'[r] \in RunState
      /\ run'[r].pc = "call" /\ run'[r].step = run[r].step
  BY <1>0, <1>1, FirstAttempt DEF RunState
<1>3. row \in Execution /\ execution' = [execution EXCEPT ![t] = row]
  <2>1. run[r].step \in Steps /\ execution[t] \in Execution
    BY <1>0, <1>1, RowWritten DEF RunState
  <2>2. row \in Execution
    BY <2>1 DEF Execution
  <2>3. t \in Transfers /\ execution \in [Transfers -> Execution \cup {Absent}]
    BY AtARun
  <2>4. QED
    BY <1>1, <2>2, <2>3
<1>4. execution'[t] # Absent
  BY <1>3, AtARun, AbsentAssumption
<1>5. Placed(r)'
  BY <1>1, <1>2, <1>4, AtARun DEF Placed
<1>6. \E new \in Execution : execution' = [execution EXCEPT ![t] = new]
  BY <1>3
<1>7. QED
  BY <1>1, <1>2, <1>5, <1>6, AtARun, QuietStep

\* A step that advances took effect; the last one is followed by the settlement.
LEMMA AdvanceKeeps ==
  ASSUME IInv, NEW r \in Runs, Advance(r)
  PROVE  IInv'
<1> DEFINE t == TransferOf[r]
           row == [execution[t] EXCEPT !.status = StatusAfter[run[r].step]]
           next == IF run[r].step = LastStep THEN "settle" ELSE "tell"
<1>0. run \in [Runs -> RunState] /\ run[r] \in RunState
  BY RunTyped
<1>1. /\ run' = [run EXCEPT ![r].pc = next]
      /\ run[r].pc = "advance"
      /\ execution' = [execution EXCEPT ![t].status = StatusAfter[run[r].step]]
      /\ UNCHANGED <<request, services, trail, announced, late, timeouts, deaths>>
  BY DEF Advance, At, Goto, faults
<1>2. /\ run' = [run EXCEPT ![r] = run'[r]] /\ run'[r] \in RunState
      /\ run'[r].pc \in {"settle", "tell"} /\ run'[r].step = run[r].step
      /\ run'[r].pc = "tell" => run'[r].step # LastStep
  BY <1>0, <1>1 DEF RunState
<1>3. row \in Execution /\ execution' = [execution EXCEPT ![t] = row]
  <2>1. StatusAfter[run[r].step] \in SagaStatuses
    BY AtARun DEF StatusAfter, RunState, Steps, SagaStatuses, TerminalStatuses
  <2>2. QED
    BY <1>1, <2>1, AtARun, RowWritten DEF Execution
<1>4. execution'[t] # Absent
  BY <1>3, AtARun, AbsentAssumption
<1>5. Placed(r)'
  BY <1>1, <1>2, <1>4, AtARun DEF Placed
<1>6. \E new \in Execution : execution' = [execution EXCEPT ![t] = new]
  BY <1>3
<1>7. QED
  BY <1>1, <1>2, <1>5, <1>6, AtARun, QuietStep

\* Whatever the verdict, the finished row is well formed.
LEMMA FinishKeeps ==
  ASSUME IInv, NEW r \in Runs, NEW compensation \in CompensationStatuses,
         Finish(r, Verdict(r), compensation), run[r].pc \notin {"new", "done", "dead"}
  PROVE  IInv'
<1> DEFINE t == TransferOf[r]
           row == [status       |-> Verdict(r),
                   compensation |-> compensation,
                   current      |-> "NONE",
                   error        |-> IF run[r].failure = "OK" THEN execution[t].error
                                    ELSE run[r].failure,
                   finished     |-> TRUE]
<1>0. run \in [Runs -> RunState] /\ run[r] \in RunState
  BY RunTyped
<1>1. /\ run' = [run EXCEPT ![r].pc = "report"]
      /\ execution' = [execution EXCEPT ![t] = row]
      /\ UNCHANGED <<request, services, trail, announced, late, timeouts, deaths>>
  BY AtARun DEF Finish, Goto, faults
<1>2. /\ run' = [run EXCEPT ![r] = run'[r]] /\ run'[r] \in RunState
      /\ run'[r].pc = "report" /\ run'[r].step = run[r].step
  BY <1>0, <1>1 DEF RunState
<1>3. row \in Execution
  <2>1. Verdict(r) \in SagaStatuses
    BY DEF Verdict, OutcomeFor, SagaStatuses, TerminalStatuses
  <2>2. QED
    BY <2>1, AtARun, RowWritten DEF Execution, RunState
<1>4. execution'[t] # Absent
  BY <1>1, <1>3, AtARun, AbsentAssumption
<1>5. Placed(r)'
  BY <1>1, <1>2, <1>4, AtARun DEF Placed
<1>6. QED
  BY <1>1, <1>2, <1>3, <1>5, AtARun, QuietStep

\* The three ways a run has of finishing its row.
LEMMA ResolveKeeps ==
  ASSUME IInv, NEW r \in Runs, Complete(r) \/ Reject(r) \/ Close(r)
  PROVE  IInv'
<1>1. /\ {"NOT_REQUIRED", "COMPENSATED", "COMPENSATION_FAILED"} \subseteq CompensationStatuses
      /\ run[r].pc \in {"resolve", "close"}
  BY DEF CompensationStatuses, Complete, Reject, Close, At
<1>2. \E compensation \in CompensationStatuses : Finish(r, Verdict(r), compensation)
  BY <1>1 DEF Complete, Reject, Close
<1>3. QED
  BY <1>1, <1>2, FinishKeeps

\* The rollback begins with a step that took effect.
LEMMA BeginRollbackKeeps ==
  ASSUME IInv, NEW r \in Runs, BeginRollback(r)
  PROVE  IInv'
<1> DEFINE t == TransferOf[r]
           todo == run[r].todo
           row == [execution[t] EXCEPT !.status = "COMPENSATING",
                                       !.compensation = "COMPENSATING",
                                       !.error = run[r].failure]
<1>0. run \in [Runs -> RunState] /\ run[r] \in RunState
  BY RunTyped
<1>1. /\ run' = [run EXCEPT ![r].pc = "alarm", ![r].step = Latest(todo), ![r].attempt = 1]
      /\ run[r].pc = "resolve" /\ run[r].failure # "OK" /\ todo # {}
      /\ execution' = [execution EXCEPT ![t].status = "COMPENSATING",
                                        ![t].compensation = "COMPENSATING",
                                        ![t].error = run[r].failure]
      /\ UNCHANGED <<request, services, trail, announced, late, timeouts, deaths>>
  BY DEF BeginRollback, At, faults
<1>2. todo \in SUBSET Steps /\ Latest(todo) \in todo
  BY <1>0, <1>1, ExtremesBelong DEF RunState
<1>3. /\ run' = [run EXCEPT ![r] = run'[r]] /\ run'[r] \in RunState
      /\ run'[r].pc = "alarm" /\ run'[r].step = Latest(todo) /\ run'[r].todo = todo
  BY <1>0, <1>1, <1>2, FirstAttempt DEF RunState
<1>4. row \in Execution /\ execution' = [execution EXCEPT ![t] = row]
  <2>1. run[r].failure \in ErrorCodes /\ execution[t] \in Execution
    BY <1>0, <1>1, RowWritten DEF RunState
  <2>2. row \in Execution
    BY <2>1 DEF Execution, SagaStatuses, CompensationStatuses
  <2>3. t \in Transfers /\ execution \in [Transfers -> Execution \cup {Absent}]
    BY AtARun
  <2>4. QED
    BY <1>1, <2>2, <2>3
<1>5. execution'[t] # Absent
  BY <1>4, AtARun, AbsentAssumption
<1>6. Placed(r)'
  BY <1>1, <1>2, <1>3, <1>5, AtARun DEF Placed
<1>7. \E new \in Execution : execution' = [execution EXCEPT ![t] = new]
  BY <1>4
<1>8. QED
  BY <1>1, <1>3, <1>6, <1>7, AtARun, QuietStep
-----------------------------------------------------------------------------
(* Steps that write the audit trail.                                       *)

\* A row that says no more than what happened keeps the trail honest.
LEMMA WriteKeepsAudit ==
  ASSUME IInv, Done' = Done, Undone' = Undone,
         NEW t \in Transfers, NEW kind \in StepKinds, NEW s \in Steps,
         NEW status \in ActionStatuses \cup RollbackStatuses,
         Write(t, kind, s, status),
         kind = "ACTION" /\ status = "EXECUTED" => s \in Done[t],
         kind = "COMPENSATION" /\ status = "COMPENSATED" => s \in Undone[t]
  PROVE  /\ trail' \in [Transfers \X StepKinds \X Steps ->
                           ActionStatuses \cup RollbackStatuses \cup {Absent}]
         /\ Audited'
<1>1. trail \in [Transfers \X StepKinds \X Steps ->
                   ActionStatuses \cup RollbackStatuses \cup {Absent}]
  BY DEF IInv, SagaTypes
<1>2. trail' = [trail EXCEPT ![<<t, kind, s>>] = status]
  BY DEF Write
<1>3. ASSUME NEW u \in Transfers, NEW k \in StepKinds, NEW v \in Steps
      PROVE  \/ u = t /\ k = kind /\ v = s /\ trail'[<<u, k, v>>] = status
             \/ trail'[<<u, k, v>>] = trail[<<u, k, v>>]
  BY <1>1, <1>2
<1>4. Audited'
  <2>1. ASSUME NEW u \in Transfers, NEW v \in Steps, trail'[<<u, "ACTION", v>>] = "EXECUTED"
        PROVE  v \in Done[u]
    BY <1>3, <2>1 DEF IInv, Audited, StepKinds
  <2>2. ASSUME NEW u \in Transfers, NEW v \in Steps,
               trail'[<<u, "COMPENSATION", v>>] = "COMPENSATED"
        PROVE  v \in Undone[u]
    BY <1>3, <2>2 DEF IInv, Audited, StepKinds
  <2>3. QED
    BY <2>1, <2>2 DEF Audited
<1>5. QED
  BY <1>1, <1>2, <1>4

\* EXECUTED is written only of a step that took effect.
LEMMA RecordSuccessKeeps ==
  ASSUME IInv, NEW r \in Runs, RecordSuccess(r)
  PROVE  IInv'
<1> DEFINE t == TransferOf[r]
           s == run[r].step
<1>0. run \in [Runs -> RunState] /\ run[r] \in RunState
  BY RunTyped
<1>1. /\ run' = [run EXCEPT ![r].pc = "advance"]
      /\ run[r].pc = "record" /\ run[r].outcome = "OK"
      /\ Write(t, "ACTION", s, "EXECUTED")
      /\ UNCHANGED <<request, services, execution, announced, late, timeouts, deaths>>
  BY DEF RecordSuccess, At, Goto, faults
<1>2. /\ run' = [run EXCEPT ![r] = run'[r]] /\ run'[r] \in RunState
      /\ run'[r].pc = "advance" /\ run'[r].step = s
  BY <1>0, <1>1 DEF RunState
<1>3. s \in Steps /\ s \in Done[t]
  BY <1>1, AtARun DEF Placed, RunState
<1>4. /\ trail' \in [Transfers \X StepKinds \X Steps ->
                        ActionStatuses \cup RollbackStatuses \cup {Absent}]
      /\ Audited'
  <2> HIDE DEF s
  <2>1. "ACTION" \in StepKinds /\ "EXECUTED" \in ActionStatuses \cup RollbackStatuses
    BY DEF StepKinds, ActionStatuses
  <2>2. QED
    BY <1>1, <1>3, <2>1, AtARun, WriteKeepsAudit
<1>5. Placed(r)'
  BY <1>1, <1>2, <1>3, AtARun DEF Placed
<1>6. QED
  BY <1>1, <1>2, <1>4, <1>5, AtARun, QuietStep

\* After a failure there are steps to skip, or the run settles.
LEMMA RecordFailureKeeps ==
  ASSUME IInv, NEW r \in Runs, RecordFailure(r)
  PROVE  IInv'
<1> DEFINE t == TransferOf[r]
           s == run[r].step
           next == IF After(s) = {} THEN "settle" ELSE "skip"
<1>0. run \in [Runs -> RunState] /\ run[r] \in RunState
  BY RunTyped
<1>1. /\ run' = [run EXCEPT ![r].failure = run[r].outcome, ![r].todo = After(s),
                            ![r].pc = next]
      /\ run[r].pc = "record"
      /\ Write(t, "ACTION", s, "FAILED")
      /\ UNCHANGED <<request, services, execution, announced, late, timeouts, deaths>>
  BY DEF RecordFailure, At, faults
<1>2. s \in Steps /\ After(s) \subseteq Steps
  BY <1>0, StepDomain DEF RunState
<1>3. /\ run' = [run EXCEPT ![r] = run'[r]] /\ run'[r] \in RunState
      /\ run'[r].pc \in {"settle", "skip"} /\ run'[r].step = s /\ run'[r].todo = After(s)
      /\ run'[r].pc = "skip" => run'[r].todo # {}
  BY <1>0, <1>1, <1>2 DEF RunState
<1>4. /\ trail' \in [Transfers \X StepKinds \X Steps ->
                        ActionStatuses \cup RollbackStatuses \cup {Absent}]
      /\ Audited'
  <2> HIDE DEF s
  <2>1. "ACTION" \in StepKinds /\ "FAILED" \in ActionStatuses \cup RollbackStatuses
    BY DEF StepKinds, ActionStatuses
  <2>2. QED
    BY <1>1, <1>2, <2>1, AtARun, WriteKeepsAudit
<1>5. Placed(r)'
  BY <1>1, <1>3, AtARun DEF Placed
<1>6. QED
  BY <1>1, <1>3, <1>4, <1>5, AtARun, QuietStep

\* Skipping claims no effect.
LEMMA SkipKeeps ==
  ASSUME IInv, NEW r \in Runs, Skip(r)
  PROVE  IInv'
<1> DEFINE t == TransferOf[r]
           s == Earliest(run[r].todo)
           next == IF run[r].todo = {s} THEN "settle" ELSE "skip"
<1>0. run \in [Runs -> RunState] /\ run[r] \in RunState
  BY RunTyped
<1>1. /\ run' = [run EXCEPT ![r].todo = @ \ {s}, ![r].pc = next]
      /\ run[r].pc = "skip"
      /\ Write(t, "ACTION", s, "SKIPPED")
      /\ UNCHANGED <<request, services, execution, announced, late, timeouts, deaths>>
  BY DEF Skip, At, faults
<1>2. s \in run[r].todo /\ s \in Steps
  BY <1>1, AtARun, ExtremesBelong DEF Placed, RunState
<1>3. /\ run' = [run EXCEPT ![r] = run'[r]] /\ run'[r] \in RunState
      /\ run'[r].pc \in {"settle", "skip"} /\ run'[r].todo = run[r].todo \ {s}
      /\ run'[r].pc = "skip" => run'[r].todo # {}
  <2> DEFINE rest == run[r].todo \ {s}
  <2>1. rest \in SUBSET Steps /\ next \in {"settle", "skip"} /\ (next = "skip" => rest # {})
    BY <1>0, <1>2 DEF RunState
  <2>2. run' = [run EXCEPT ![r].todo = rest, ![r].pc = next]
    BY <1>1
  <2> HIDE DEF s, next, rest
  <2>3. /\ run' = [run EXCEPT ![r] = run'[r]] /\ run'[r] \in RunState
        /\ run'[r].pc = next /\ run'[r].todo = rest
    BY <1>0, <2>1, <2>2 DEF RunState
  <2>4. QED
    BY <2>1, <2>3 DEF rest
<1>4. /\ trail' \in [Transfers \X StepKinds \X Steps ->
                        ActionStatuses \cup RollbackStatuses \cup {Absent}]
      /\ Audited'
  <2> HIDE DEF s
  <2>1. "ACTION" \in StepKinds /\ "SKIPPED" \in ActionStatuses \cup RollbackStatuses
    BY DEF StepKinds, ActionStatuses
  <2>2. QED
    BY <1>1, <1>2, <2>1, AtARun, WriteKeepsAudit
<1>5. Placed(r)'
  BY <1>1, <1>3, AtARun DEF Placed
<1>6. QED
  BY <1>1, <1>3, <1>4, <1>5, AtARun, QuietStep

\* COMPENSATED is written only of a step that was undone, and the rollback goes
\* on with one that took effect.
LEMMA RecordRollbackKeeps ==
  ASSUME IInv, NEW r \in Runs, RecordRollback(r)
  PROVE  IInv'
<1> DEFINE t == TransferOf[r]
           s == run[r].step
           rest == run[r].todo \ {s}
           status == IF run[r].outcome = "OK" THEN "COMPENSATED" ELSE "COMPENSATION_FAILED"
           clean == run[r].clean /\ run[r].outcome = "OK"
<1>0. run \in [Runs -> RunState] /\ run[r] \in RunState
  BY RunTyped
<1>1. /\ run' = [run EXCEPT ![r].todo = rest,
                            ![r].clean = clean,
                            ![r].pc = IF rest = {} THEN "close" ELSE "undo",
                            ![r].step = IF rest = {} THEN @ ELSE Latest(rest),
                            ![r].attempt = 1]
      /\ run[r].pc = "undone"
      /\ Write(t, "COMPENSATION", s, status)
      /\ UNCHANGED <<request, services, execution, announced, late, timeouts, deaths>>
  BY DEF RecordRollback, At, faults
<1>2. /\ s \in Steps /\ rest \in SUBSET Steps /\ clean \in BOOLEAN
      /\ rest # {} => Latest(rest) \in rest
      /\ rest \subseteq Done[t]
      /\ run[r].outcome = "OK" => s \in Undone[t]
  BY <1>1, AtARun, ExtremesBelong DEF Placed, RunState
<1>3. /\ run' = [run EXCEPT ![r] = run'[r]] /\ run'[r] \in RunState
      /\ \/ run'[r].pc = "close"
         \/ run'[r].pc = "undo" /\ run'[r].step \in rest
      /\ run'[r].todo = rest
  <2> HIDE DEF s, rest, clean
  <2>1. CASE rest = {}
    BY <1>0, <1>1, <1>2, <2>1, FirstAttempt DEF RunState
  <2>2. CASE rest # {}
    <3> DEFINE last == Latest(rest)
    <3>1. run' = [run EXCEPT ![r].todo = rest, ![r].clean = clean, ![r].pc = "undo",
                            ![r].step = last, ![r].attempt = 1]
      BY <1>1, <2>2
    <3>2. last \in rest /\ last \in Steps /\ rest \in SUBSET Steps /\ clean \in BOOLEAN
      BY <1>2, <2>2
    <3> HIDE DEF last
    <3>3. QED
      BY <1>0, <3>1, <3>2, FirstAttempt DEF RunState
  <2>3. QED
    BY <2>1, <2>2
<1>4. /\ trail' \in [Transfers \X StepKinds \X Steps ->
                        ActionStatuses \cup RollbackStatuses \cup {Absent}]
      /\ Audited'
  <2>1. /\ "COMPENSATION" \in StepKinds
        /\ status \in ActionStatuses \cup RollbackStatuses
        /\ status = "COMPENSATED" => s \in Undone[t]
    BY <1>2 DEF StepKinds, RollbackStatuses
  <2> HIDE DEF s, status
  <2>2. QED
    BY <1>1, <1>2, <2>1, AtARun, WriteKeepsAudit
<1>5. Placed(r)'
  BY <1>1, <1>2, <1>3, AtARun DEF Placed
<1>6. QED
  BY <1>1, <1>3, <1>4, <1>5, AtARun, QuietStep
-----------------------------------------------------------------------------
(* Faults.                                                                 *)

\* The request a run abandons is well formed and not ahead of its saga.
LEMMA AbandonIsCarried ==
  ASSUME IInv, NEW r \in Runs, Calling(r), Abandon(r)
  PROVE  late' \subseteq Message /\ \A m \in late' : m \notin late => Carried(m)
<1> DEFINE new == [run |-> r, kind |-> KindOf(r), step |-> run[r].step,
                   attempt |-> run[r].attempt]
<1>1. run[r].pc \in {"call", "undo"} /\ late' = late \cup {new}
  BY DEF Calling, Abandon
<1>2. /\ KindOf(r) \in StepKinds /\ run[r].step \in Steps /\ run[r].attempt \in 1..MaxAttempts
      /\ KindOf(r) = "ACTION" => run[r].pc = "call"
  BY <1>1, AtARun DEF KindOf, StepKinds, RunState
<1>3. new \in Message
  BY <1>2 DEF Message
<1>4. Carried(new)
  <2>1. KindOf(r) = "ACTION" => Before(run[r].step) \subseteq Done[TransferOf[r]]
    BY <1>2, AtARun DEF Placed
  <2>2. QED
    BY <2>1 DEF Carried
<1>5. QED
  <2> HIDE DEF new
  <2>1. QED
    BY <1>1, <1>3, <1>4, AtARun

\* A retry leaves the abandoned request behind and the run where it was.
LEMMA RetryKeeps ==
  ASSUME IInv, NEW r \in Runs, Retry(r)
  PROVE  IInv'
<1>0. run \in [Runs -> RunState] /\ run[r] \in RunState
  BY RunTyped
<1>1. /\ run' = [run EXCEPT ![r].attempt = @ + 1]
      /\ run[r].pc \in {"call", "undo"} /\ run[r].attempt < MaxAttempts
      /\ timeouts < MaxTimeouts /\ timeouts' = timeouts + 1
      /\ UNCHANGED <<request, services, execution, trail, announced, deaths>>
  BY DEF Retry, Calling, saga
<1>2. run[r].attempt + 1 \in 1..MaxAttempts /\ timeouts' \in 0..MaxTimeouts
  <2>1. /\ run[r].attempt \in 1..MaxAttempts /\ MaxAttempts \in Nat
        /\ timeouts \in 0..MaxTimeouts /\ MaxTimeouts \in Nat
    BY <1>0, AtARun, OrchestrationAssumption DEF RunState
  <2>2. QED
    BY <1>1, <2>1
<1>3. /\ run' = [run EXCEPT ![r] = run'[r]] /\ run'[r] \in RunState
      /\ run'[r].pc = run[r].pc /\ run'[r].step = run[r].step /\ run'[r].todo = run[r].todo
  BY <1>0, <1>1, <1>2 DEF RunState
<1>4. Placed(r)'
  BY <1>1, <1>3, AtARun DEF Placed
<1>5. late' \subseteq Message /\ \A m \in late' : m \notin late => Carried(m)
  BY AbandonIsCarried DEF Retry
<1>6. QED
  BY <1>1, <1>2, <1>3, <1>4, <1>5, AtARun, QuietStep

\* An exhausted call is never taken for a success.
LEMMA GiveUpKeeps ==
  ASSUME IInv, NEW r \in Runs, GiveUp(r)
  PROVE  IInv'
<1> DEFINE t == TransferOf[r]
           next == IF run[r].pc = "call" THEN "record" ELSE "undone"
<1>0. run \in [Runs -> RunState] /\ run[r] \in RunState
  BY RunTyped
<1>1. /\ run' = [run EXCEPT ![r].outcome = "SERVICE_UNAVAILABLE", ![r].pc = next]
      /\ run[r].pc \in {"call", "undo"}
      /\ timeouts < MaxTimeouts /\ timeouts' = timeouts + 1
      /\ UNCHANGED <<request, services, execution, trail, announced, deaths>>
  BY DEF GiveUp, Calling, saga
<1>2. timeouts' \in 0..MaxTimeouts
  BY <1>1, AtARun, OrchestrationAssumption
<1>3. "SERVICE_UNAVAILABLE" \in ErrorCodes \cup {"OK"}
  BY DEF ErrorCodes
<1>4. /\ run' = [run EXCEPT ![r] = run'[r]] /\ run'[r] \in RunState
      /\ run'[r].pc = next /\ run'[r].step = run[r].step /\ run'[r].todo = run[r].todo
      /\ run'[r].outcome = "SERVICE_UNAVAILABLE"
  BY <1>0, <1>1, <1>3 DEF RunState
<1>5. Placed(r)'
  <2>1. Placed(r) /\ Done' = Done /\ Undone' = Undone
    BY <1>1, AtARun
  <2>2. CASE run[r].pc = "call"
    <3>1. run'[r].pc = "record"
      BY <1>4, <2>2
    <3>2. execution[t] # Absent /\ Before(run[r].step) \subseteq Done[t]
      BY <2>1, <2>2 DEF Placed
    <3>3. QED
      BY <1>1, <1>4, <2>1, <3>1, <3>2 DEF Placed
  <2>3. CASE run[r].pc = "undo"
    <3>1. run'[r].pc = "undone"
      BY <1>4, <2>3
    <3>2. /\ execution[t] # Absent
          /\ run[r].todo \subseteq Done[t] /\ run[r].step \in run[r].todo
      BY <2>1, <2>3 DEF Placed
    <3>3. QED
      BY <1>1, <1>4, <2>1, <3>1, <3>2 DEF Placed
  <2>4. QED
    BY <1>1, <2>2, <2>3
<1>6. late' \subseteq Message /\ \A m \in late' : m \notin late => Carried(m)
  BY AbandonIsCarried DEF GiveUp
<1>7. QED
  BY <1>1, <1>2, <1>4, <1>5, <1>6, AtARun, QuietStep

\* A dead run takes nothing for granted; its request is carried like any other.
LEMMA DieKeeps ==
  ASSUME IInv, NEW r \in Runs, Die(r)
  PROVE  IInv'
<1>0. run \in [Runs -> RunState] /\ run[r] \in RunState
  BY RunTyped
<1>1. /\ run' = [run EXCEPT ![r].pc = "dead"]
      /\ deaths < MaxDeaths /\ deaths' = deaths + 1
      /\ UNCHANGED <<request, services, execution, trail, announced, timeouts>>
  BY DEF Die, Goto, saga
<1>2. deaths' \in 0..MaxDeaths
  BY <1>1, AtARun, OrchestrationAssumption
<1>3. /\ run' = [run EXCEPT ![r] = run'[r]] /\ run'[r] \in RunState
      /\ run'[r].pc = "dead"
  BY <1>0, <1>1 DEF RunState
<1>4. Placed(r)'
  BY <1>3 DEF Placed
<1>5. late' \subseteq Message /\ \A m \in late' : m \notin late => Carried(m)
  BY AbandonIsCarried, AtARun DEF Die
<1>6. QED
  BY <1>1, <1>2, <1>3, <1>4, <1>5, AtARun, QuietStep

-----------------------------------------------------------------------------
(* Steps during which a service works.                                     *)

\* Whatever call a service executes, what was taken for granted stays so.
LEMMA ServedKeeps ==
  ASSUME IInv, NEW t \in Transfers, NEW kind \in StepKinds, NEW s \in Steps,
         Served(t, kind, s), kind = "ACTION" => Before(s) \subseteq Done[t],
         UNCHANGED <<execution, trail>>
  PROVE  /\ ServiceTypes' /\ ServicesAgree' /\ Audited' /\ Ordered'
         /\ \A q \in Runs : run'[q] = run[q] => Placed(q)'
         /\ \A m \in late : Carried(m)'
<1>1. /\ ServiceTypes' /\ ServicesAgree'
      /\ \A u \in Transfers : Done[u] \subseteq Done'[u] /\ Undone[u] \subseteq Undone'[u]
      /\ \A u \in Transfers : \A v \in Done'[u] \ Done[u] :
           u = t /\ kind = "ACTION" /\ v = s
  BY DEF Served
<1>2. Audited'
  BY <1>1 DEF IInv, Audited
<1>3. Ordered'
  <2>1. SUFFICES ASSUME NEW u \in Transfers, NEW v \in Done'[u]
                 PROVE  Before(v) \subseteq Done'[u]
    BY DEF Ordered
  <2>2. CASE v \in Done[u]
    BY <1>1, <2>2 DEF IInv, Ordered
  <2>3. CASE v \notin Done[u]
    BY <1>1, <2>3
  <2>4. QED
    BY <2>2, <2>3
<1>4. ASSUME NEW q \in Runs, run'[q] = run[q]
      PROVE  Placed(q)'
  BY <1>1, <1>4, AtARun, PlacedStays
<1>5. ASSUME NEW m \in late
      PROVE  Carried(m)'
  <2>1. m \in Message /\ TransferOf[m.run] \in Transfers /\ Carried(m)
    BY AtARun, OrchestrationAssumption DEF IInv, SagaTypes, Message
  <2>2. QED
    BY <1>1, <2>1 DEF Carried
<1>6. QED
  BY <1>1, <1>2, <1>3, <1>4, <1>5

\* A call in time: the step takes effect in order, and what is undone was done.
LEMMA AnsweredKeeps ==
  ASSUME IInv, NEW r \in Runs, Answered(r)
  PROVE  IInv'
<1> DEFINE t == TransferOf[r]
           kind == KindOf(r)
           s == run[r].step
           reply == Reply(t, kind, s)
           next == IF run[r].pc = "call" THEN "record" ELSE "undone"
<1>0. run \in [Runs -> RunState] /\ run[r] \in RunState
  BY RunTyped
<1>1. /\ run' = [run EXCEPT ![r].outcome = reply, ![r].pc = next]
      /\ run[r].pc \in {"call", "undo"}
      /\ Serve(t, kind, s)
      /\ UNCHANGED <<request, execution, trail, announced, late, timeouts, deaths>>
  BY DEF Answered, Calling, saga, faults
<1>2. /\ t \in Transfers /\ kind \in StepKinds /\ s \in Steps
      /\ run[r].pc = "call" => kind = "ACTION"
      /\ run[r].pc = "undo" => kind = "COMPENSATION"
  BY <1>1, AtARun DEF KindOf, StepKinds, RunState
<1>3. Served(t, kind, s)
  <2> HIDE DEF t, kind, s
  <2>1. QED
    BY <1>1, <1>2, CallsAreServed DEF IInv
<1>4. /\ ServiceTypes' /\ ServicesAgree' /\ Audited' /\ Ordered'
      /\ \A q \in Runs : run'[q] = run[q] => Placed(q)'
      /\ \A m \in late : Carried(m)'
  <2>1. kind = "ACTION" => Before(s) \subseteq Done[t]
    BY <1>1, <1>2, AtARun DEF Placed, StepKinds
  <2> HIDE DEF t, kind, s
  <2>2. QED
    BY <1>1, <1>2, <1>3, <2>1, ServedKeeps
<1>5. /\ Done[t] \subseteq Done'[t]
      /\ reply \in ErrorCodes \cup {"OK"}
      /\ run[r].pc = "call" /\ reply = "OK" => s \in Done'[t]
      /\ run[r].pc = "undo" /\ reply = "OK" => s \in Undone'[t]
      /\ run[r].pc = "undo" /\ s \in Done[t] =>
           \/ reply = "OK"
           \/ s = "CREDIT" /\ reply = "INSUFFICIENT_FUNDS"
  BY <1>2, <1>3 DEF Served
<1>6. /\ run' = [run EXCEPT ![r] = run'[r]] /\ run'[r] \in RunState
      /\ run'[r].pc = next /\ run'[r].step = s /\ run'[r].todo = run[r].todo
      /\ run'[r].outcome = reply
      /\ \A q \in Runs : q # r => run'[q] = run[q]
  <2> HIDE DEF reply
  <2>1. QED
    BY <1>0, <1>1, <1>5 DEF RunState
<1>7. SagaTypes'
  BY <1>1, <1>6 DEF IInv, SagaTypes
<1>8. Placed(r)'
  <2>1. Placed(r)
    BY AtARun
  <2>2. CASE run[r].pc = "call"
    <3>1. run'[r].pc = "record"
      BY <1>6, <2>2
    <3>2. execution[t] # Absent /\ Before(s) \subseteq Done[t]
      BY <2>1, <2>2 DEF Placed
    <3>3. reply = "OK" => s \in Done'[t]
      BY <1>5, <2>2
    <3> HIDE DEF reply, s
    <3>4. QED
      BY <1>1, <1>5, <1>6, <3>1, <3>2, <3>3 DEF Placed
  <2>3. CASE run[r].pc = "undo"
    <3>1. run'[r].pc = "undone"
      BY <1>6, <2>3
    <3>2. /\ execution[t] # Absent
          /\ run[r].todo \subseteq Done[t] /\ s \in run[r].todo
      BY <2>1, <2>3 DEF Placed
    <3>3. /\ reply = "OK" => s \in Undone'[t]
          /\ \/ reply = "OK"
             \/ s = "CREDIT" /\ reply = "INSUFFICIENT_FUNDS"
      BY <1>5, <2>3, <3>2
    <3> HIDE DEF reply, s
    <3>4. QED
      BY <1>1, <1>5, <1>6, <3>1, <3>2, <3>3 DEF Placed
  <2>4. QED
    BY <1>1, <2>2, <2>3
<1>9. \A q \in Runs : Placed(q)'
  BY <1>4, <1>6, <1>8
<1>10. QED
  BY <1>1, <1>4, <1>7, <1>9 DEF IInv

\* A late request: the step takes effect in order all the same.
LEMMA ExecuteLateKeeps ==
  ASSUME IInv, NEW m \in late, ExecuteLate(m)
  PROVE  IInv'
<1> DEFINE t == TransferOf[m.run]
<1>1. /\ Serve(t, m.kind, m.step)
      /\ late' = late \ {m}
      /\ UNCHANGED <<request, execution, trail, announced, run, timeouts, deaths>>
  BY DEF ExecuteLate, saga
<1>2. /\ t \in Transfers /\ m.kind \in StepKinds /\ m.step \in Steps
      /\ m.kind = "ACTION" => Before(m.step) \subseteq Done[t]
  BY OrchestrationAssumption DEF IInv, SagaTypes, Message, Carried
<1>3. Served(t, m.kind, m.step)
  BY <1>1, <1>2, CallsAreServed DEF IInv
<1>4. /\ ServiceTypes' /\ ServicesAgree' /\ Audited' /\ Ordered'
      /\ \A q \in Runs : run'[q] = run[q] => Placed(q)'
      /\ \A n \in late : Carried(n)'
  BY <1>1, <1>2, <1>3, ServedKeeps
<1>5. SagaTypes'
  BY <1>1 DEF IInv, SagaTypes
<1>6. QED
  BY <1>1, <1>4, <1>5 DEF IInv
-----------------------------------------------------------------------------
\* The invariant holds when nothing has been asked for.
LEMMA InitPlaces == Init => IInv
<1> SUFFICES ASSUME Init
             PROVE  IInv
  OBVIOUS
<1>1. ServiceTypes /\ ServicesAgree /\ \A t \in Transfers : Done[t] = {}
  BY ServicesStart DEF Init
<1>2. NewRun \in RunState
  BY StepDomain, FirstAttempt DEF NewRun, RunState
<1>3. SagaTypes
  BY <1>2, OrchestrationAssumption DEF Init, StoreInit, SagaTypes, PublicStatuses
<1>4. \A r \in Runs : Placed(r)
  <2>1. ASSUME NEW r \in Runs
        PROVE  Placed(r)
    <3>1. run[r] = NewRun
      BY DEF Init
    <3>2. run[r].pc = "new" /\ run[r].step = FirstStep
      BY <3>1 DEF NewRun
    <3>3. QED
      BY <3>2, StepDomain DEF Placed
  <2>2. QED
    BY <2>1
<1>5. \A m \in late : Carried(m)
  BY DEF Init
<1>6. Audited
  <2>1. Absent # "EXECUTED" /\ Absent # "COMPENSATED"
    BY AbsentAssumption DEF ActionStatuses, RollbackStatuses
  <2>2. QED
    BY <2>1 DEF Init, StoreInit, Audited, StepKinds
<1>7. Ordered
  BY <1>1 DEF Ordered
<1>8. QED
  BY <1>1, <1>3, <1>4, <1>5, <1>6, <1>7 DEF IInv

\* Every step, of a run, of a service or of a fault, keeps the invariant.
LEMMA NextPlaces == IInv /\ [Next]_vars => IInv'
<1> SUFFICES ASSUME IInv, [Next]_vars
             PROVE  IInv'
  OBVIOUS
<1>1. ASSUME NEW r \in Runs, Step(r) \/ Die(r)
      PROVE  IInv'
  BY <1>1, StartKeeps, ReplayKeeps, NotifyKeeps, EnterKeeps, AnsweredKeeps, RetryKeeps,
     GiveUpKeeps, RecordSuccessKeeps, RecordFailureKeeps, AdvanceKeeps, SkipKeeps,
     SettleKeeps, ResolveKeeps, BeginRollbackKeeps, RecordRollbackKeeps, DieKeeps DEF Step
<1>2. ASSUME NEW m \in late, ExecuteLate(m)
      PROVE  IInv'
  BY <1>2, ExecuteLateKeeps
<1>3. ASSUME UNCHANGED vars
      PROVE  IInv'
  <2>1. UNCHANGED <<request, services, execution, trail, announced, run, late,
                    timeouts, deaths>>
    BY <1>3 DEF vars, services
  <2>2. ServiceTypes' /\ ServicesAgree' /\ Done' = Done /\ Undone' = Undone
    BY <2>1, ServicesQuiet DEF IInv
  <2>3. SagaTypes' /\ Audited' /\ Ordered'
    BY <2>1, <2>2 DEF IInv, SagaTypes, Audited, Ordered
  <2>4. \A q \in Runs : Placed(q)'
    BY <2>1, <2>2 DEF IInv, Placed
  <2>5. \A m \in late' : Carried(m)'
    BY <2>1, <2>2 DEF IInv, Carried
  <2>6. QED
    BY <2>2, <2>3, <2>4, <2>5 DEF IInv
<1>4. QED
  BY <1>1, <1>2, <1>3 DEF Next, Rest

\* The invariant holds in every reachable state.
LEMMA Invariance == Spec => []IInv
  BY InitPlaces, NextPlaces, PTL DEF Spec

\* Every table, run and message keeps its type, and no balance goes negative,
\* however many runs and faults there are.
THEOREM TypeCorrect == Spec => []TypeOK
<1>1. IInv => TypeOK
  BY DEF IInv, ServiceTypes, SagaTypes, StoreTypeOK, TypeOK
<1>2. QED
  BY <1>1, Invariance, PTL

\* The audit trail never claims an effect, or a reversal, that a service did
\* not really have: whatever overlaps, dies, is lost or executed late.
THEOREM TheAuditNeverLies == Spec => []AuditNeverLies
<1>1. IInv => AuditNeverLies
  <2>1. ASSUME IInv, NEW t \in Transfers, NEW s \in Steps
        PROVE  /\ trail[<<t, "ACTION", s>>] = "EXECUTED" => Committed(t, s)
               /\ trail[<<t, "COMPENSATION", s>>] = "COMPENSATED" => Reverted(t, s)
    BY <2>1 DEF IInv, Audited, Done, Undone
  <2>2. QED
    BY <2>1 DEF AuditNeverLies, Row
<1>2. QED
  BY <1>1, Invariance, PTL

\* No step takes effect at a service before every step that precedes it.
THEOREM NoServiceRunsAhead == Spec => []NothingRunsAhead
<1>1. IInv => NothingRunsAhead
  <2>1. ASSUME IInv, NEW t \in Transfers, NEW s \in Steps, Committed(t, s),
               NEW u \in Before(s)
        PROVE  Committed(t, u)
    BY <2>1 DEF IInv, Ordered, Done
  <2>2. QED
    BY <2>1 DEF NothingRunsAhead
<1>2. QED
  BY <1>1, Invariance, PTL

\* No service is ever asked to undo what it did not do: a compensation fails
\* only when it cannot be reached or the credited money has been spent.
THEOREM NoCompensationIsPhantom == Spec => []NoPhantomCompensation
<1>1. IInv => NoPhantomCompensation
  BY DEF IInv, Placed, NoPhantomCompensation, At
<1>2. QED
  BY <1>1, Invariance, PTL
=============================================================================
