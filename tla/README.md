# The transfer saga, specified and verified

This directory holds the TLA+ specification of the bank-transfer saga of this
repository, the TLC configurations that model-check it on small instances and
the TLAPS proofs of what holds for every instance. `PROJECT.json` is the index:
components, runs, the source lines behind every definition, hazards, theorems.

## 1. The system

A transfer moves an amount from one account to another through four local
transactions at three services, in a fixed order, and undoes them in reverse
when one fails. Who decides the order is the system's subject: a coordinator
that calls the services (orchestration), or participants that react to each
other's events (choreography). Around both, a gateway registers the transfer and
a browser follows it.

| part | state it keeps | operations | what makes it correct |
|---|---|---|---|
| account service | balances; a ledger with one row per (transfer, account, operation) | debit, credit, and a compensation of each, one transaction under the account's row lock | never overdrawn, an operation takes effect once however often it is asked for, the ledger explains the balances |
| risk service | one evaluation per transfer | check, compensate | the verdict is the policy's and never changes |
| clearing service | one operation per transfer | transfer (two transactions with a sleep between them), compensate | the two transactions look like one |
| saga domain | none | order of the steps, outcome of an error code, public name of a status | |
| orchestrator | execution row and audit trail (`saga.executions`, `saga.saga_steps`), the local variables of each run | start or replay, execute a step, record it, advance, skip, roll back, close | all-or-nothing, rollback in reverse and only of what executed, the trail never lies, every transfer is decided |
| choreography | one RabbitMQ queue and one thread per participant, the claimed events, the execution row (projector), the event log (audit) | claim, call, record, publish, project, notify, log, acknowledge | the same promise without a coordinator; an effect once per event; reverse order by causality alone |
| HTTP client | none | a call with up to `HTTP_MAX_ATTEMPTS` attempts | retries never apply a call twice |
| notifier | FIFO of one thread | hand over a status, send a PATCH, flush | statuses reach the Gateway in order |
| API gateway | transfers by idempotency key, outbox, public status; background tasks | create or retrieve, dispatch, mark the outbox, update status | one saga per key, a public status that is true |
| browser | what a poll has read and what the screen shows | start, read both sides, show, stop | a screen that stops shows the outcome |

The orchestrator calls the services synchronously over HTTP and writes to its
own database between calls. The choreography's participants call the same
services through the same functions, but each does so because of an event it
took from its queue, and says what happened in the events it publishes. The
Gateway starts a saga through one HTTP call from a background task and learns
its progress through the notifier's PATCHes; the browser polls the Gateway's row
and the saga's trace. Nothing spans two databases: every action of the models is
one database transaction, one HTTP attempt or one publish.

**What is hard here.** A call that times out may have been executed, or be
executed later, after its retry or after its compensation. Two runs of one
transfer may overlap (`run_orchestrated_saga` only stops a replay when the first
run is finished). A run may die between any two writes, and nothing resumes it.
Two transfers compete for one balance. `clearing.transfer` looks, sleeps and
then inserts. In the choreography an event is claimed in a transaction of its
own before its effect, a message may come twice, an event may be published twice
or, without confirms, not at all, a handler that raises drops its event, and the
projector hears of one transfer from three threads. Behind the Gateway a
hand-over or a PATCH may be lost, or executed after its client gave up, or die
with a process that keeps its tasks in memory. `hazards` in `PROJECT.json` lists
each of these at its line with the properties aimed at it.

## 2. The modules

| module | models | state and actions |
|---|---|---|
| `SagaDomain` | `saga-service/app/domain/*` | operators only: `Steps`, `Latest` (the head of `compensation_order`), `StatusAfter`, `OutcomeFor`, `GatewayStatus` |
| `AccountService` | `account_service.py` | `balance`, `ledger`; `Debit`, `Credit`, `CompensateDebit`, `CompensateCredit`. Each is one transaction, so one action; `Answer` is what the caller gets, `Apply` the effect |
| `RiskService` | `risk_service.py` | `evaluations`; `Check`, `Compensate` |
| `Clearing` | what `clearing_service.py` promises | `operations`; `Transfer`, `Compensate`, atomic |
| `ClearingService` | `clearing_service.py` as it is | adds one `handler` per concurrent request: `LookupHit`/`LookupMiss` (first transaction), then the sleep, then `Insert`/`InsertLost` (second transaction); `Abort` is a handler that dies asleep |
| `ServiceCalls` | `_call_action`, `_call_compensation`, `clients/services.py` | composes the three services (`Account`, `Risk`, `Network`): `Reply` and `Serve` of a call, and what its effects are (`Committed`, `Reverted`) |
| `SagaStore` | the tables both flavours share | `execution`, `trail`, `announced` |
| `Orchestration` | `coordinator.py`, `steps.py`, `base.py`, `repository.py` | the program counter and local variables of each `run`, and the requests in `late` |
| `Choreography` | `participants.py`, `broker.py`, `publisher.py`, `events.py`, `worker.py` | the calls of `start_choreographed_saga`, the `queue` of each participant, the `claimed` events, what each participant has in `hand`, the `log` |
| `Gateway` | the gateway's repository, dispatcher and routes, `notifier.py`, `notify_status`, the polling hook | `transfers`, `outbox`, background `task`s, the notifier's `queue` and its `patch` in flight, the `screen`; composed with `SagaLifecycle` |
| `SagaProperties`, `OrchestrationProperties`, `ChoreographyProperties`, `GatewayProperties` | | the properties: of any saga, and of each part; and the refinement mappings |
| `TransferPromise` | what a saga promises about the money | `funds`, `fate`; a transfer commits in one step or is refused |
| `SagaLifecycle` | what a saga shows the outside | `stage`, `finished`, `announced`; statuses only advance, a row is finished once, an outcome is announced only once it is final |
| `AccountServiceProofs`, `RiskServiceProofs`, `ClearingServiceProofs` | | theorems about one service each |
| `ServiceCallProofs` | | what any saga may rely on when a service is called; both flavours' proofs extend it |
| `OrchestrationProofs`, `OrchestrationRunProofs`, `ChoreographyProofs`, `GatewayProofs` | | theorems about the sagas and about the Gateway |
| `MC*` | | the instances TLC checks |

**Orchestration** follows `execute_saga` line by line; a run goes through

    new -> greet -> enter -> call -> record -> advance -> tell -> enter ...
                                        |          '-> settle -> resolve -> report -> done
                                        '-> skip ... -> settle -> resolve
    resolve -> alarm -> undo -> undone -> undo ... -> close -> report -> done

`greet`, `tell`, `alarm` and `report` are the four `_notify` calls, separate
from the `update_execution` before them because the process may stop in
between. `call` and `undo` have a request in flight: it is answered
(`Answered`), or the attempt fails on the client side and is retried (`Retry`)
or, when it was the last one, becomes `SERVICE_UNAVAILABLE` (`GiveUp`). The
abandoned request goes to `late`, from where the service may execute it once, at
any later moment, or never; a timeout whose request had already been executed
is the case where that moment comes first. `Die` stops a run between any two
steps: a stopped process, or a repository call that raises (an exhausted
connection pool, for one), since nothing catches it.

**Choreography.** A participant's thread is a `hand` that goes through

    idle -> (claim) -> [emit] -> call -> record -> emit ... -> ack -> idle    the three that work
    idle -> (claim) -> project -> tell -> ack -> idle                        status-projector
    idle -> (claim) -> store -> ack -> idle                                  event-audit

with `SkipDuplicate` from idle to ack. What a handler does for an event is a
table: the step it executes or compensates (`Executes`, `Compensates`) and what
it publishes before the call, after a yes and after a no (`Announces`,
`Succeeds`, `Fails`); `Topology` says who hears it. A message stays at the head
of its queue until it is settled, because the consumer takes one at a time and
acknowledges after the handler returns. Calls use `ServiceCalls` exactly as the
coordinator does. The faults:

* `AckLost`, `EmitAgain`, `LaunchAgain` are what the code is written to absorb:
  a redelivery, and a publish repeated by `publish` after the broker already had
  the event. The repeated publish opens a new connection, so the message in hand
  can no longer be settled on its own (`link`) and comes again as well.
* `Raise`, `Crash`, `EmitInVain`, `FailToLaunch` lose something: a handler that
  raises has its message rejected without requeueing; the worker stops; an
  unconfirmed publish goes nowhere; the process stops between the row and the
  first event.

An event is identified by type, transfer and `copy`, the ordinal of its
`event_id`; a second event of one type would be a second copy.

**Gateway.** `Create` and `Retrieve` are the two ends of one transaction that a
unique constraint decides; `Create` leaves `dispatch` to a background task that
lives in memory (`GatewayStop` loses it). `Accept`, or `HandOverFails` with the
request going to `late`, then `MarkOutbox`. The saga behind it is
`SagaLifecycle`: `accepted` are the transfers it answered 202 to and
still has in hand. `RunDies` and `SagaStop` lose them, begun or not, since a run
lives in memory and nobody resumes it; a choreography that had begun may go on
from its queues. Neither is bound to finish: `Proceed` may happen, never must. `Tell` queues a PATCH, `SendPatch` takes the
oldest, and it is answered or given up. The browser reads the public row and the
trace in any order, at different moments, and either read may fail; `Show` is
the rest of `poll`. The trace is read from the saga's own tables, the public row
from what PATCHes wrote.

`SagaLifecycle` stands between the two levels: `saga_outcomes` checks and
`TheLifecycleIsFollowed` proves that an orchestrated saga with one run per
transfer implements it, `choreography_faults` and `LifecycleFollowed` that the
choreographed one does, unless something was both repeated and lost; `gateway` is composed with it instead of either. Two
overlapping orchestrated runs of one transfer do not implement it: the status of
the row may go from COMPENSATING back to DEBITED. The Gateway never starts a
transfer twice (`OutboxTellsTheTruth`: one saga per key, and `dispatch` posts
once), but a second client of the saga service could.

**Abstractions.** Account names, amounts and messages are members of small
sets. Currency, texts, durations and the numbering of trail rows are left out:
nothing decides on them. The services' transactions are atomic because each
locks its row; only clearing's `transfer` is not, which is why it has a module
of its own, proved (and checked by TLC) to look atomic. `ExecuteLate` executes a lost request
at most once; a duplicated one is a late one after an answered one. The Prefect
wrapper runs the same step functions without retries of its own. In
`Orchestration` and `Choreography` `announced` is what is handed to the notifier;
what becomes of it is in `Gateway`. `flush` only waits for the notifier's queue.
The projector's read and write of the row are one action because it is the
row's only writer once the start inserted it. Of the payload of an event only
the cause of a failure is kept: the rest is the request, which never changes.

## 3. What the runs check

| run | instance | distinct states | shows |
|---|---|---|---|
| `account_service` | 2 transfers, 1 known account and 1 unknown, 2 amounts | 44,415 | `LedgerExplainsBalance`, `CompensationBacked`, `AnswersAreStable`: any sequence of calls, repeated or contradictory, keeps books that add up |
| `risk_service` | 3 transfers, requests on both sides of the limit | 216 | `PolicyDecides`, `VerdictIsFinal` |
| `clearing_service` | 2 transfers, 3 handlers, contradictory requests | 7,571 | `TwoTransactionsLookAtomic` (refinement of `Clearing`), `AnswersMatchTheRow` |
| `saga_contention` | 2 transfers competing for money; both runs may die anywhere and leave a request in flight | 43,516 | `AllOrNothing`: no step moves money but as `TransferPromise` allows |
| `saga_restart` | 2 calls of one transfer, one may die, one attempt times out and is retried | 214,384 | `KeepsThePromise`: the saga implements `TransferPromise`, safety and liveness; `EveryTransferDecided`: a replay takes over from a dead run |
| `saga_outcomes` | one run of each of the seven kinds of transfer, calls that exhaust their attempts | 12,348 | order of the rollback, verdict against trail, the status table of the design document, `FollowsTheLifecycle`, final rows stay final, every run ends |
| `saga_overlap` | 2 overlapping runs of one transfer, exhausted calls, a death | 1,113,417 | what holds whatever fails: `AuditNeverLies`, `NothingRunsAhead`, `NoPhantomCompensation` |
| `choreography_faults` | 2 calls of one transfer, no audit log; up to two faults, of different kinds | 1,297,893 | `NoEventTwice`, `AuditNeverLies`, `RollbackByCausality`, `VerdictMatchesTrail`, `FollowsTheLifecycle`, `AllOrNothing` |
| `choreography_promise` | one call, all five participants; one request for each way to end (completed, refused by the debit, risk, clearing or the credit); one fault of those nothing is lost by | 279,076 | `KeepsThePromise` (the same `TransferPromise`), `EveryTransferDecided`, `EveryEventIsLogged` |
| `gateway` | 2 POSTs with one key, same or different requests; a timeout, and a stop, a run that dies or a failed read | 582,690 | `OutboxTellsTheTruth`, `PublicIsTrue`, `OnlyLatePatchesGoBack`, `TheScreenTellsTheOutcome`, `NewsArrives` |

Two runs show a statement of the repository that the code does not meet:

* `exhausted_call` (`FailedLeavesNoTrace`): the debit is executed, all its
  attempts time out, the saga records FAILED and, since the trail has nothing
  EXECUTED, compensates nothing: `coordinator.py:129` says the debit never
  happened.
* `choreography_stuck` (`EveryTransferDecided`): a transfer from an account that
  does not exist. The debit is refused, `account_handler` publishes only
  `TransferFailed`, and the projector closes an execution on that event only when
  funds were lacking: this one stays COMPENSATING. No fault is needed.

**What the models taught about the code** beyond those two, none of it a
property that is claimed:

* `CompletedMeansMoved` needs a single run per transfer: a service answers a
  retry of a compensated step with its original success, so a run that overlaps,
  or follows, another one's rollback may end COMPLETED over undone steps.
* A refusal for lack of funds leaves no ledger row, so an abandoned attempt of
  that debit is executed as new once the account was replenished, after the saga
  was closed.
* `notifier.py:8` says the Gateway never sees a status go back. A PATCH the
  notifier gave up on and the Gateway executes late takes it back;
  `OnlyLatePatchesGoBack` shows that nothing else does. The screen is not
  affected, because the hook trusts the saga's trace about the end.
* A hand-over that failed stays RECIBIDA: `saga_dispatcher.py:57` says that it
  can be retried, but no code reads the outbox.
* The claim before the effect (`participants.py:73`) makes a crash in between
  lose the event: the redelivery is a skipped duplicate and the saga stops
  there, its records true. The same happens to a publish the broker never got,
  and to a start whose event was not published.
* A compensation that fails publishes nothing: the steps before it stay executed
  and the execution COMPENSATING, where the orchestrator would go on and record
  COMPENSATION_FAILED.
* `risk_handler` publishes `RiskRejected` before the `TransferFailed` that carries
  the error code. With the risk thread slow between the two, the whole rollback
  can be published and projected first: the execution then ends FAILED, without
  a cause, where `docs/01-diseno-saga.md:107` says REJECTED_RISK. No fault is
  needed, and `VerdictMatchesTrail` shows that when nothing is lost this is the
  only way to lose the cause.

**Bounds.** Calls can exhaust their attempts where `MaxTimeouts` is at least
`MaxAttempts`: in `saga_outcomes` (2 attempts, 3 timeouts), `exhausted_call` (2 and
2), `saga_overlap` (1 and 2) and `choreography_faults` (1 and 1). They cannot in
`saga_restart` and `choreography_promise` (2 attempts, 1 timeout), which are about
retries, nor in `saga_contention` and `choreography_stuck` (no timeout).
`MaxTimeouts` and `MaxDeaths` (0, 1 or 2) bound the faults of a behaviour; every property above is
about what one lost call, one lost call per run or one dead run leads to, and
those all happen. `saga_contention` has no timeouts, because `AllOrNothing` says
nothing of a step after one, and two deaths, so that the requests two dead runs
left behind meet each other. It checks no liveness: no run ever waits for
another, so that competing transfers end is `EveryRunEnds` of `saga_outcomes`. In the choreography `MaxRepeats` and `MaxLosses` bound the two
kinds of broker faults, one each, and `MaxFaults` all faults together: two, so
that a fault meets the consequences of another. `MaxBacklog` bounds how many
messages each participant may lag behind: three, and two for the projector and
one for the audit in `choreography_promise`. A publish waits while a queue is
full, which RabbitMQ does not do; with three messages in hand an observer is
already as far behind as any race of the participants needs. In the Gateway `Stages` is a saga that completes, or rolls back and fails,
`MaxQueued` 2 lets a second status wait behind one in flight, and one timeout and
one loss reach every pair of a late request and a stop. Two runs, two calls or
two POSTs are enough for every pair of their steps to interleave; the third and
later ones repeat what the second does. Amounts 1 to 3 with a limit of 2 and
balances of 1 to 3 reach every answer of every service. The theorems of section
4 hold beyond these instances.

**Fairness.** `FairSpec` of `Orchestration` assumes weak fairness of the steps of
each run: a run is a Python thread that always goes on, because every HTTP
attempt ends within its connect and read timeouts and every query within the
pool's. In `Choreography` each call of the start and each participant's thread
goes on, and the broker delivers what it holds. In `Gateway` each background
task, the notifier thread and the browser's polling go on, an accepted transfer
is begun and what a live saga has to tell is told; nobody has to send a POST, and
no saga has to finish: `choreography_stuck` shows that one may not, without a
fault. `NewsArrives` therefore promises that a registered transfer is begun and
that the outcome of one that finishes is published, not that there is one. No fault is a fair action, and nothing makes a late request ever
be executed. The number of timeouts and repeats is bounded, which is the network
answering in the end.

## 4. What is proved

TLC's instances are small; these theorems hold for any accounts, transfers,
requests, handlers, runs, calls and POSTs, and for any number of timeouts,
deaths, repeats and losses.

| module | theorem | says |
|---|---|---|
| `AccountServiceProofs` | `TypeCorrect`, `TheLedgerExplainsEveryBalance`, `CompensationIsBacked`, `RetriesSeeTheSameAnswer` | no balance goes below zero; every balance is what it was at first plus the rows of the ledger; an entry is flagged exactly when its compensation is recorded; a recorded operation answers every retry alike |
| `RiskServiceProofs` | `TypeCorrect`, `ThePolicyDecides`, `TheVerdictIsFinal` | no order of calls turns a rejection into an approval, nor changes an answer already given |
| `ClearingServiceProofs` | `ServiceTyping`, `AnswersTrue`, `LooksAtomic` | however many handlers race through the two transactions of `transfer`, each answers for the row that exists, and together they implement the atomic `Clearing` |
| `OrchestrationProofs` | `TypeCorrect`, `TheAuditNeverLies`, `NoServiceRunsAhead`, `NoCompensationIsPhantom` | the safety that survives overlapping runs, dead runs and late requests |
| `OrchestrationRunProofs` | `RollbackBackwards`, `VerdictTrue`, `CompletedMoved`, `FinishedStays`, `StatusKeepsToTheTable`, `TheLifecycleIsFollowed`, `NobodyIsOutOfPocket` | with one run per transfer: the rollback is strictly backwards, the verdict is the trail's, COMPLETED moved the money, a finished row is final, the status keeps to the table, the row and its announcements implement `SagaLifecycle`, and, whichever runs die, no step moves money but as `TransferPromise` allows, while every call waited for is answered |
| `ChoreographyProofs` | `Typing`, `OnceEach`, `AuditTrue`, `InOrder`, `Causality`, `VerdictTrue`, `CompletedMoved`, `LifecycleFollowed`, `NobodyIsOutOfPocket` | without a coordinator and whatever is lost or repeated: no event comes about twice, the trail never lies, no service runs ahead, the rollback is in reverse, the projected verdict is the trail's, COMPLETED moved the money; and the projected row and its announcements implement `SagaLifecycle`, unless something was both repeated and lost; and, while every call waited for is answered, no step moves money but as `TransferPromise` allows |
| `GatewayProofs` | `Typing`, `OutboxTrue`, `PublicTrue`, `ScreenTrue`, `NeverBack` | one saga per key and a truthful outbox; a public status that is never ahead of the saga; a screen that stops on the outcome; only an abandoned PATCH takes a status back |

**Assumptions.** Named in the module that declares the constants and evaluated
by TLC on every run: amounts are positive and the two accounts of a request
differ (the schemas of the Gateway and of the saga service reject anything else),
initial balances are not negative, at least one HTTP attempt is made, the
transfers are finitely many (an identifier is a UUID of 128 bits), and the model
value `Absent` is none of the rows and statuses it stands in for. Nothing
is assumed of faults beyond the bounds being naturals, so those are not a
restriction.

`OneRunEach`, that no two runs are of the same transfer, is a hypothesis of the
theorems of `OrchestrationRunProofs` and not an assumption of the model. It is
what happens behind the Gateway: `OutboxTrue` shows that a key has one saga, and
`dispatch` posts it once. Without it those properties are false, as section 3
says, and `saga_overlap` and `saga_restart` are about what remains.

**The services.** Their invariants are inductive once the types are known.
`CompensationBacked` says more than that nothing is undone twice, that the
amounts agree and the flag works both ways, because it would not be inductive
otherwise. `LedgerExplainsBalance` is about sums over all transfers. What the
proof needs of them is that changing one summand changes the sum by as much
(`SumChanges`), and the library's sum is a fold whose value only induction gives.
The induction theorems of the library take an operator; `SubsetsGrow` does
without one by naming the set of the good subsets, and a smallest bad one (from
the well-ordering of the naturals) is the contradiction. Clearing's says of each answered handler that the row exists and that
a repetition would be answered alike; this is what makes the second transaction,
which finds the row of another handler, the atomic request of `Clearing` and
everything else a stutter.

**What the sagas rely on.** `ServiceCallProofs` looks at the services:
`Served(t, kind, s)` lists what a saga may count on when a service executes one
call: effects are never forgotten; the call brings about no effect but its own;
an `OK` means that the effect is there; a compensation of something done is
refused only when credited money was spent; each service fails for reasons of its
own. `CallsAreServed` proves it of every call, in any order and any number of
times. The proofs of both flavours use nothing else about the services.

**The coordinator.** `OrchestrationProofs` carries `IInv` through every action,
one lemma each:

* `ServicesAgree`: what a service recorded is what the client asked for. A
  compensation would otherwise be refused as contradicting its original, and
  `NoPhantomCompensation` would fail.
* `Placed(r)`: what a run may take for granted at its program counter: the
  steps before its own took effect, those it is about to undo did too, and an
  answer it holds but has not recorded yet is still true. The properties say
  nothing of the moment between an effect and its row; this does.
* `Carried(m)`: the steps before an abandoned request's took effect. Without it
  `ExecuteLate` could run ahead.
* `Audited` and `Ordered`: the two properties themselves, over `Done` and
  `Undone`, which only grow. That is why a second run or a death cannot falsify
  them: each run's knowledge is about sets that never shrink.

**One run per transfer.** `OrchestrationRunProofs` adds to `IInv` that the trail
is exactly what the run's program counter says (`Told(r)`: `Going`, `Stopped`,
`Undoing`, `Settled` are the four phases of `execute_saga`) and what outlives a
run that dies (`Lasting(t)`: a finished row and its trail agree, an undone step
had every later one tried before). The action properties and the refinement of
`SagaLifecycle` come from one more lemma per action, which says what the action
does to a row (`Moved(t)`).

**The choreography.** Nobody knows the sequence, so the argument goes from an
event back to the one whose handler published it:

* `Holding(p)`: whoever is at work holds the first message of its queue and has
  claimed it. The claim is what makes an event be handled once although its
  message is repeated; it is never taken back.
* `Unique`, `Caused`: there is one event of each type, and, but for the first,
  one whose handler published it, with the row of the trail that made it do so
  (`Leads`). `Written`: a row is written by the handler of its event only, once.
* `Launched`, `Working(p)`: what a call of the start, or a handler between two of
  its steps, has still to publish is published by nobody else. `OnceEach` fails
  without this.
* `Audited`, `Ordered`, `Asked`, `Carried`: the services' effects against trail and
  events, an abandoned request included. `Causality` then walks from a request to
  compensate back to the events that must have been published before it.
* `Explained`, `Named`, `Projection`, `InTime`: the projector's row against the
  events it has read. `InTime` is the hard one: while nothing is lost, a failure
  that has been published is projected already or lies in the projector's queue
  ahead of the end of the rollback. It holds of every failure but risk's, whose
  handler publishes the rollback before the cause; so `VerdictTrue` says that
  this is the only way, loss apart, to close a row without its cause.
* `Flow`, for the refinement of `SagaLifecycle`: the projector writes the status
  an event stands for into any unfinished row, however far it is, so what keeps a
  row from going back is the order of its queue. `Foremost` says that nothing
  that comes after a forward event is published before it, since each is
  caused by those before; `InSequence` carries this to the queue: an event still
  to be projected reaches as far as the row and as all that waits before it.
  It rests on `Delivered` when nothing is lost (an event published again is
  already projected, or behind its first copy) and on `Distinct` when nothing is
  repeated (there is no second copy). With both, a lost first message may be
  followed by a late second one, and the row does go back; this is why
  `FollowsTheLifecycle` excludes them together. `Shown` and `Paced` are what an
  unfinished row shows, and that `ClearingRequested` is published before the call
  to clearing and never after.

**The money.** `TransferPromise` knows only the money free in each account and the
fate of each transfer; the mapping subtracts from the balances what is in
transit, a sum over the open transfers. `AllOrNothing` says that each step is, to
that specification, a commit, a refusal or nothing. Its proof has a half that both
flavours share, in `ServiceCallProofs`: a call that is `Rightful` keeps the
promise whatever the service answers (`CallKeepsPromise`), and so does a verdict
given when the transfer is whole, which means that a standing debit has its
credit (`RowKeepsPromise`). `Rightful` is a call without effect, or one of an
undecided transfer that goes forward while nothing was undone, or back while
nothing was credited; that no step undoes a credit, the last of the sequence, is
why money arrives for good.

That a saga makes only such calls does not follow from the invariants above,
because of what is left in flight. `PromptInv` of each flavour says that while no
call waited for has timed out, a failed row is of a step without effect
(`Confirmed`), a refusal about to be recorded is too (`Certain` of a run,
which adds that nothing it undoes is refused, and `Declined` of a participant), and every abandoned request is one that a stopped
run or worker left behind (`Orphan`): nobody will ever decide on its step, so
the transfer stays open and a late execution finds it as the call did. TLC
checked each on the run of its `AllOrNothing` before it was proved. With timeouts
the conclusion is false, for the reason `exhausted_call` shows: a debit whose
attempts were all given up may still be executed, for a transfer already closed.

**The Gateway.** `NewsIsTrue`: every PATCH, queued, in flight or abandoned, says
something the saga did tell and that is still true, since a status only advances
and an outcome is stored before it is told. `NewsInOrder`: the PATCHes the
notifier still holds are no earlier than the row, than each other and than those
it gave up on; so only one it gave up on can take a row back. `HandOverOnRecord`
follows a transfer from its POST to the saga, and `ReadsAreTrue` says that what
a poll has read stays true while the second read is on its way.

**Only model-checked.**

* Liveness (`EveryRunEnds`, `EveryTransferDecided`, `EveryEventIsLogged`,
  `NewsArrives`): it rests on fairness and on ENABLED, which are beyond the
  prover.
* `KeepsThePromise`, the refinement of `TransferPromise` with its liveness, and its
  safety where calls do time out but are answered in the end (`saga_restart`,
  `choreography_promise`). Where no call does, the safety is `AllOrNothing`.
* Two overlapping runs of one transfer: `OneRunEach` is a hypothesis of every
  theorem of `OrchestrationRunProofs`, so `saga_restart` is what shows that a
  replay keeps the promise.

## 5. What is not modelled

Request validation, tokens, health checks, configuration, logging, the
frontend's rendering, migrations, scripts: no state of the saga changes there.
Balances are integers, not `bigint`. The inline form of the saga's start
(`wait`), meant for tests. Malformed messages: only this code publishes, so
there are none. The browser follows one transfer per page.

## 6. Plan

1. Done: services, orchestration, their properties and refinement, first proofs.
2. Done: choreography on the same services against the same promise; gateway,
   notifier and polling on the lifecycle both flavours implement.
3. Done: the safety of every component proved, the two sums included; the
   refinement of `Clearing`, that of `SagaLifecycle` by both flavours, and the
   safety of `TransferPromise` by both while every call waited for is answered.
4. Open: the same with calls that time out and are retried in time. A late copy
   of a call that was answered after all has no effect, so `Orphan` would have
   to admit requests whose step is decided, and the bound on attempts would have
   to enter the invariant.
