----------------------------- MODULE Choreography -----------------------------
(***************************************************************************)
(* The choreographed saga: participants that consume domain events from    *)
(* RabbitMQ, one durable queue and one thread each, call their service and *)
(* publish what happened.  Nobody decides the sequence.  The projector     *)
(* keeps the execution row from the events, the audit stores them.         *)
(*                                                                         *)
(* A message stays at the head of its queue until it is acknowledged       *)
(* (prefetch 1, one consumer), and its event is claimed in a transaction   *)
(* of its own before the handler runs: a redelivery is skipped.  One       *)
(* action is one transaction, one HTTP attempt or one publish.             *)
(*                                                                         *)
(* Repeats are the faults the code is written to absorb: a message         *)
(* redelivered because its ack was lost, an event published twice.  Losses *)
(* are the others: the worker stops, a handler raises, the broker never    *)
(* gets what was published without confirms.                               *)
(***************************************************************************)
EXTENDS SagaStore, Sequences

CONSTANTS Starts,       \* calls of start_choreographed_saga
          TransferOf,   \* the transfer each of them is called with
          Consumers,    \* the participants that run
          MaxAttempts,  \* HTTP_MAX_ATTEMPTS
          MaxBacklog,   \* bound: messages in the queue of each participant
          MaxTimeouts,  \* bound: failed HTTP attempts in a behaviour
          MaxRepeats,   \* bound: lost acks and repeated publishes
          MaxLosses,    \* bound: crashes, raised handlers, lost publishes
          MaxFaults     \* bound: all of these together

\* The participants that change the outcome, and the two that observe it.
Workers == {"account", "risk", "clearing"}
Observers == {"projector", "audit"}

ASSUME ChoreographyAssumption ==
  /\ TransferOf \in [Starts -> Transfers]
  /\ Workers \subseteq Consumers /\ Consumers \subseteq Workers \cup Observers
  /\ MaxAttempts \in Nat \ {0} /\ MaxBacklog \in [Consumers -> Nat \ {0}]
  /\ {MaxTimeouts, MaxRepeats, MaxLosses, MaxFaults} \subseteq Nat

VARIABLES start,     \* where each call of start_choreographed_saga is
          queue,     \* the messages of each participant
          claimed,   \* saga.processed_events: (participant, event)
          emitted,   \* every event ever handed to the bus
          hand,      \* what each participant does with its first message
          log,       \* saga.saga_events
          late,      \* HTTP requests whose client gave up on them
          timeouts, repeats, losses   \* how much of the bounds is used up

bus == <<queue, emitted>>
bounds == <<timeouts, repeats, losses>>
vars == <<request, balance, ledger, evaluations, operations, execution, trail,
          announced, start, queue, claimed, emitted, hand, log, late,
          timeouts, repeats, losses>>

\* What the bounds still allow.
MayFail == timeouts + repeats + losses < MaxFaults
MayTimeOut == timeouts < MaxTimeouts /\ MayFail
MayRepeat == repeats < MaxRepeats /\ MayFail
MayLose == losses < MaxLosses /\ MayFail

-----------------------------------------------------------------------------
(* The events.                                                             *)

EventTypes ==
  {"TransferRequested", "BalanceDebited", "RiskApproved", "RiskRejected",
   "ClearingRequested", "ClearingCompleted", "TransferCompleted", "TransferFailed",
   "DebitCompensationRequested", "RiskCompensationRequested",
   "ClearingCompensationRequested", "DebitCompensated", "RiskCompensated",
   "ClearingCompensated", "TransferCompensated"}

\* An event is told apart by its event_id: the copy-th event of its type about
\* its transfer.  Of the payload only the cause of a failure is ever decided on.
Event == [type : EventTypes, transfer : Transfers,
          error : ErrorCodes \cup {"NONE"}, copy : Nat \ {0}]

\* Mutant: no queue is bound to RiskRejected.
TopologyUnbound(p) ==
  CASE p = "account"  -> {"TransferRequested", "ClearingCompleted",
                          "DebitCompensationRequested", "RiskCompensated"}
    [] p = "risk"     -> {"BalanceDebited", "RiskCompensationRequested"}
    [] p = "clearing" -> {"RiskApproved", "ClearingCompensationRequested"}
    [] OTHER          -> EventTypes \ {"RiskRejected"}

\* The routing keys each queue is bound to.
Topology(p) ==
  CASE p = "account"  -> {"TransferRequested", "RiskRejected", "ClearingCompleted",
                          "DebitCompensationRequested", "RiskCompensated"}
    [] p = "risk"     -> {"BalanceDebited", "RiskCompensationRequested"}
    [] p = "clearing" -> {"RiskApproved", "ClearingCompensationRequested"}
    [] OTHER          -> EventTypes

\* The step an event makes its participant execute, or compensate.
Executes == [TransferRequested |-> "DEBIT", BalanceDebited |-> "RISK",
             RiskApproved |-> "CLEARING", ClearingCompleted |-> "CREDIT"]
Compensates == [DebitCompensationRequested |-> "DEBIT",
                RiskCompensationRequested |-> "RISK",
                ClearingCompensationRequested |-> "CLEARING"]

Works(type) == type \in DOMAIN Executes \cup DOMAIN Compensates
KindOf(type) == IF type \in DOMAIN Executes THEN "ACTION" ELSE "COMPENSATION"
StepOf(type) == IF type \in DOMAIN Executes THEN Executes[type] ELSE Compensates[type]

\* What a handler publishes before it calls its service, if it calls it at all.
Announces(type) ==
  CASE type = "RiskApproved" -> <<"ClearingRequested">>
    [] type \in {"RiskRejected", "RiskCompensated"} -> <<"DebitCompensationRequested">>
    [] OTHER -> <<>>

\* What it publishes when the service said yes.
Succeeds(type) ==
  CASE type = "TransferRequested" -> <<"BalanceDebited">>
    [] type = "BalanceDebited"    -> <<"RiskApproved">>
    [] type = "RiskApproved"      -> <<"ClearingCompleted">>
    [] type = "ClearingCompleted" -> <<"TransferCompleted">>
    [] type = "ClearingCompensationRequested" ->
         <<"ClearingCompensated", "RiskCompensationRequested">>
    [] type = "RiskCompensationRequested" -> <<"RiskCompensated">>
    [] type = "DebitCompensationRequested" -> <<"DebitCompensated", "TransferCompensated">>

\* Mutant: a late failure compensates the debit straight away.
FailsToTheDebit(type) ==
  CASE type = "TransferRequested" -> <<"TransferFailed">>
    [] type = "BalanceDebited"    -> <<"RiskRejected", "TransferFailed">>
    [] type = "RiskApproved"      -> <<"TransferFailed", "RiskCompensationRequested">>
    [] type = "ClearingCompleted" -> <<"TransferFailed", "DebitCompensationRequested">>
    [] OTHER                      -> <<>>

\* What it publishes when the service said no: a compensation that fails says
\* nothing, and the rollback stops there.
Fails(type) ==
  CASE type = "TransferRequested" -> <<"TransferFailed">>
    [] type = "BalanceDebited"    -> <<"RiskRejected", "TransferFailed">>
    [] type = "RiskApproved"      -> <<"TransferFailed", "RiskCompensationRequested">>
    [] type = "ClearingCompleted" -> <<"TransferFailed", "ClearingCompensationRequested">>
    [] OTHER                      -> <<>>

NewEvent(t, type, error, retried) ==
  LET earlier == Cardinality({e \in emitted : e.type = type /\ e.transfer = t})
  IN  [type |-> type, transfer |-> t, error |-> error,
       copy |-> IF retried THEN earlier ELSE earlier + 1]

\* Published: every queue bound to the event gets it.
Publish(e) ==
  /\ \A p \in Consumers : e.type \in Topology(p) => Len(queue[p]) < MaxBacklog[p]
  /\ queue' = [p \in Consumers |->
                 IF e.type \in Topology(p) THEN Append(queue[p], e) ELSE queue[p]]
  /\ emitted' = emitted \cup {e}

\* Published without confirms on a connection that is no longer there.
PublishInVain(e) == emitted' = emitted \cup {e} /\ UNCHANGED queue

-----------------------------------------------------------------------------
(* start_choreographed_saga.                                               *)

Register(c) ==
  LET t == TransferOf[c] IN
  /\ start[c] = "new"
  /\ execution[t] = Absent
  /\ execution' = [execution EXCEPT ![t] = NewExecution]
  /\ start' = [start EXCEPT ![c] = "publish"]
  /\ UNCHANGED <<request, services, trail, announced, bus, claimed, hand, log, late, bounds>>

\* The row exists: nothing is published, whether the first call got to or not.
ReplayStart(c) ==
  /\ start[c] = "new"
  /\ execution[TransferOf[c]] # Absent
  /\ start' = [start EXCEPT ![c] = "done"]
  /\ UNCHANGED <<request, services, saga, bus, claimed, hand, log, late, bounds>>

Launching(c) == start[c] \in {"publish", "retry"}
FirstEvent(c) ==
  NewEvent(TransferOf[c], "TransferRequested", "NONE", start[c] = "retry")

Launch(c) ==
  /\ Launching(c)
  /\ Publish(FirstEvent(c))
  /\ start' = [start EXCEPT ![c] = "done"]
  /\ UNCHANGED <<request, services, saga, claimed, hand, log, late, bounds>>

\* The connection drops once the broker has the event: it is published again.
LaunchAgain(c) ==
  /\ start[c] = "publish" /\ MayRepeat
  /\ Publish(FirstEvent(c))
  /\ start' = [start EXCEPT ![c] = "retry"]
  /\ repeats' = repeats + 1
  /\ UNCHANGED <<request, services, saga, claimed, hand, log, late, timeouts, losses>>

\* The process stops or both attempts to publish fail: the row is left behind.
FailToLaunch(c) ==
  /\ Launching(c) /\ MayLose
  /\ start' = [start EXCEPT ![c] = "failed"]
  /\ losses' = losses + 1
  /\ UNCHANGED <<request, services, saga, bus, claimed, hand, log, late, timeouts, repeats>>

-----------------------------------------------------------------------------
(* A participant and the message it holds.                                 *)

\* The link is the connection the message came on: "sound", "retrying" while a
\* publish is on its second attempt, "replaced" once it was opened anew.
Idle == [pc |-> "idle", attempt |-> 1, outcome |-> "NONE", todo |-> <<>>, link |-> "sound"]

At(p, pc) == hand[p].pc = pc
Current(p) == Head(queue[p])
Waiting(p) == At(p, "idle") /\ queue[p] # <<>>
Calling(p) == At(p, "call")

\* Where a handler goes when it has nothing left to publish for now.
Onward(type, outcome) == IF Works(type) /\ outcome = "NONE" THEN "call" ELSE "ack"

\* Where a handler starts.
Opening(p, type) ==
  CASE p = "projector" -> "project"
    [] p = "audit"     -> "store"
    [] OTHER           -> IF Announces(type) # <<>> THEN "emit" ELSE Onward(type, "NONE")

\* Mutant: an event is handled however often it is delivered.
ClaimTwice(p) ==
  /\ Waiting(p)
  /\ claimed' = claimed \cup {<<p, Current(p)>>}
  /\ hand' = [hand EXCEPT ![p].pc = Opening(p, Current(p).type),
                          ![p].todo = IF p \in Workers THEN Announces(Current(p).type)
                                      ELSE <<>>]
  /\ UNCHANGED <<request, services, saga, start, bus, log, late, bounds>>

\* dispatch: the event is claimed, then its handler runs.
Claim(p) ==
  /\ Waiting(p)
  /\ <<p, Current(p)>> \notin claimed
  /\ claimed' = claimed \cup {<<p, Current(p)>>}
  /\ hand' = [hand EXCEPT ![p].pc = Opening(p, Current(p).type),
                          ![p].todo = IF p \in Workers THEN Announces(Current(p).type)
                                      ELSE <<>>]
  /\ UNCHANGED <<request, services, saga, start, bus, log, late, bounds>>

\* skipped_duplicate: the message is acknowledged and nothing else.
SkipDuplicate(p) ==
  /\ Waiting(p)
  /\ <<p, Current(p)>> \in claimed
  /\ hand' = [hand EXCEPT ![p].pc = "ack"]
  /\ UNCHANGED <<request, services, saga, start, bus, claimed, log, late, bounds>>

\* The attempt in flight is served and its answer reaches the participant.
Answered(p) ==
  LET e == Current(p) IN
  /\ Calling(p)
  /\ Serve(e.transfer, KindOf(e.type), StepOf(e.type))
  /\ hand' = [hand EXCEPT
       ![p].pc = "record",
       ![p].outcome = Reply(e.transfer, KindOf(e.type), StepOf(e.type))]
  /\ UNCHANGED <<request, saga, start, bus, claimed, log, late, bounds>>

\* The request a participant has in flight.
InFlight(p) ==
  LET e == Current(p)
  IN  [transfer |-> e.transfer, kind |-> KindOf(e.type), step |-> StepOf(e.type),
       attempt |-> hand[p].attempt]

Retry(p) ==
  /\ Calling(p) /\ MayTimeOut
  /\ hand[p].attempt < MaxAttempts
  /\ late' = late \cup {InFlight(p)}
  /\ hand' = [hand EXCEPT ![p].attempt = @ + 1]
  /\ timeouts' = timeouts + 1
  /\ UNCHANGED <<request, services, saga, start, bus, claimed, log, repeats, losses>>

\* Mutant: a call nobody answered counts as a success.
GiveUpHoping(p) ==
  /\ Calling(p) /\ MayTimeOut
  /\ hand[p].attempt = MaxAttempts
  /\ late' = late \cup {InFlight(p)}
  /\ hand' = [hand EXCEPT ![p].pc = "record", ![p].outcome = "OK"]
  /\ timeouts' = timeouts + 1
  /\ UNCHANGED <<request, services, saga, start, bus, claimed, log, repeats, losses>>

GiveUp(p) ==
  /\ Calling(p) /\ MayTimeOut
  /\ hand[p].attempt = MaxAttempts
  /\ late' = late \cup {InFlight(p)}
  /\ hand' = [hand EXCEPT ![p].pc = "record", ![p].outcome = "SERVICE_UNAVAILABLE"]
  /\ timeouts' = timeouts + 1
  /\ UNCHANGED <<request, services, saga, start, bus, claimed, log, repeats, losses>>

\* The status execute_step and compensate_step write for an outcome.
Recorded(kind, outcome) ==
  CASE kind = "ACTION"       -> IF outcome = "OK" THEN "EXECUTED" ELSE "FAILED"
    [] kind = "COMPENSATION" ->
         IF outcome = "OK" THEN "COMPENSATED" ELSE "COMPENSATION_FAILED"

Record(p) ==
  LET e == Current(p)
      outcome == hand[p].outcome
      todo == IF outcome = "OK" THEN Succeeds(e.type) ELSE Fails(e.type)
  IN
  /\ At(p, "record")
  /\ Write(e.transfer, KindOf(e.type), StepOf(e.type), Recorded(KindOf(e.type), outcome))
  /\ hand' = [hand EXCEPT ![p].pc = IF todo = <<>> THEN "ack" ELSE "emit",
                          ![p].todo = todo, ![p].attempt = 1]
  /\ UNCHANGED <<request, services, execution, announced, start, bus, claimed, log, late, bounds>>

\* The next event of the handler.
Emission(p) ==
  LET type == Head(hand[p].todo)
  IN  NewEvent(Current(p).transfer, type,
               IF type = "TransferFailed" THEN hand[p].outcome ELSE "NONE",
               hand[p].link = "retrying")

\* The handler goes on after one of its events is out.
Continue(p) ==
  hand' = [hand EXCEPT
    ![p].todo = Tail(@),
    ![p].link = IF @ = "retrying" THEN "replaced" ELSE @,
    ![p].pc = IF Len(hand[p].todo) > 1 THEN "emit"
              ELSE Onward(Current(p).type, hand[p].outcome)]

Emit(p) ==
  /\ At(p, "emit")
  /\ Publish(Emission(p))
  /\ Continue(p)
  /\ UNCHANGED <<request, services, saga, start, claimed, log, late, bounds>>

\* The connection drops once the broker has the event: it is published again,
\* with the same event_id, on a connection of its own.
EmitAgain(p) ==
  /\ At(p, "emit") /\ hand[p].link # "retrying" /\ MayRepeat
  /\ Publish(Emission(p))
  /\ hand' = [hand EXCEPT ![p].link = "retrying"]
  /\ repeats' = repeats + 1
  /\ UNCHANGED <<request, services, saga, start, claimed, log, late, timeouts, losses>>

EmitInVain(p) ==
  /\ At(p, "emit") /\ MayLose
  /\ PublishInVain(Emission(p))
  /\ Continue(p)
  /\ losses' = losses + 1
  /\ UNCHANGED <<request, services, saga, start, claimed, log, late, timeouts, repeats>>

-----------------------------------------------------------------------------
(* The projector and the audit log.                                        *)

StatusOn == [TransferRequested |-> "PENDING", BalanceDebited |-> "DEBITED",
             RiskApproved |-> "RISK_APPROVED", ClearingRequested |-> "CLEARING_PENDING",
             ClearingCompleted |-> "CLEARING_PENDING"]

RollbackEvents == {"RiskRejected"} \cup DOMAIN Compensates

\* Events the projector has no use for.
Silent == {"DebitCompensated", "RiskCompensated", "ClearingCompensated"}

Closed(row, status, compensation, error) ==
  [row EXCEPT !.status = status, !.compensation = compensation,
              !.error = error, !.finished = TRUE]

RollingBack(row) ==
  [row EXCEPT !.status = "COMPENSATING", !.compensation = "COMPENSATING"]

\* Mutant: any refusal closes the execution.
ProjectedTooSoon(row, e) ==
  CASE e.type \in DOMAIN StatusOn -> [row EXCEPT !.status = StatusOn[e.type]]
    [] e.type = "TransferCompleted" -> Closed(row, "COMPLETED", "NOT_REQUIRED", row.error)
    [] e.type = "TransferFailed" -> Closed(row, OutcomeFor(e.error), "NOT_REQUIRED", e.error)
    [] e.type \in RollbackEvents -> RollingBack(row)
    [] e.type = "TransferCompensated" ->
         Closed(row, OutcomeFor(row.error), "COMPENSATED", row.error)

\* The execution row once an event is projected: a transfer refused for lack of
\* funds is closed at once, any other failure waits for its rollback.
Projected(row, e) ==
  CASE e.type \in DOMAIN StatusOn -> [row EXCEPT !.status = StatusOn[e.type]]
    [] e.type = "TransferCompleted" -> Closed(row, "COMPLETED", "NOT_REQUIRED", row.error)
    [] e.type = "TransferFailed" ->
         IF OutcomeFor(e.error) = "REJECTED_FUNDS"
         THEN Closed(row, "REJECTED_FUNDS", "NOT_REQUIRED", e.error)
         ELSE [RollingBack(row) EXCEPT !.error = e.error]
    [] e.type \in RollbackEvents -> RollingBack(row)
    [] e.type = "TransferCompensated" ->
         Closed(row, OutcomeFor(row.error), "COMPENSATED", row.error)

\* Mutant: a finished row is projected over.
IgnoredUnlessSilent(e) == execution[e.transfer] = Absent \/ e.type \in Silent

Ignored(e) ==
  execution[e.transfer] = Absent \/ Finished(e.transfer) \/ e.type \in Silent

\* The projector is the only writer of the row, so reading and updating it are
\* one step; the notification comes after.
Project(p) ==
  LET e == Current(p)
      t == e.transfer
  IN
  /\ At(p, "project")
  /\ execution' = IF Ignored(e) THEN execution
                  ELSE [execution EXCEPT ![t] = Projected(@, e)]
  /\ hand' = [hand EXCEPT ![p].pc = IF Ignored(e) THEN "ack" ELSE "tell"]
  /\ UNCHANGED <<request, services, trail, announced, start, bus, claimed, log, late, bounds>>

\* The status notified is the one just written.
Tell(p) ==
  /\ At(p, "tell")
  /\ Announce(Current(p).transfer, execution[Current(p).transfer].status)
  /\ hand' = [hand EXCEPT ![p].pc = "ack"]
  /\ UNCHANGED <<request, services, execution, trail, start, bus, claimed, log, late, bounds>>

Store(p) ==
  /\ At(p, "store")
  /\ log' = log \cup {Current(p)}
  /\ hand' = [hand EXCEPT ![p].pc = "ack"]
  /\ UNCHANGED <<request, services, saga, start, bus, claimed, late, bounds>>

-----------------------------------------------------------------------------
(* The message leaves the hand.                                            *)

\* Settled on the connection it came from, it leaves the queue; settled on any
\* other, it is delivered again.
Settle(p) ==
  /\ queue' = IF hand[p].link = "sound" THEN [queue EXCEPT ![p] = Tail(@)] ELSE queue
  /\ hand' = [hand EXCEPT ![p] = Idle]
  /\ UNCHANGED emitted

Ack(p) ==
  /\ At(p, "ack")
  /\ Settle(p)
  /\ UNCHANGED <<request, services, saga, start, claimed, log, late, bounds>>

\* The connection dropped while the handler worked: the message comes again.
AckLost(p) ==
  /\ At(p, "ack") /\ hand[p].link = "sound" /\ MayRepeat
  /\ hand' = [hand EXCEPT ![p] = Idle]
  /\ repeats' = repeats + 1
  /\ UNCHANGED <<request, services, saga, start, bus, claimed, log, late, timeouts, losses>>

\* The claim, a query or both attempts of a publish raise: the message is
\* rejected without being queued again.
Raise(p) ==
  /\ Waiting(p) \/ hand[p].pc \in {"record", "emit", "project", "store"}
  /\ MayLose
  /\ Settle(p)
  /\ losses' = losses + 1
  /\ UNCHANGED <<request, services, saga, start, claimed, log, late, timeouts, repeats>>

\* The worker process stops with all its participants and starts again: what
\* was not acknowledged is delivered again.
Crash ==
  /\ \E p \in Consumers : hand[p] # Idle
  /\ MayLose
  /\ hand' = [p \in Consumers |-> Idle]
  /\ late' = late \cup {InFlight(p) : p \in {x \in Consumers : Calling(x)}}
  /\ losses' = losses + 1
  /\ UNCHANGED <<request, services, saga, start, bus, claimed, log, timeouts, repeats>>

\* A service executes a request whose client no longer waits for it.
ExecuteLate(m) ==
  /\ Serve(m.transfer, m.kind, m.step)
  /\ late' = late \ {m}
  /\ UNCHANGED <<request, saga, start, bus, claimed, hand, log, bounds>>

\* Nothing more will happen.
Rest ==
  /\ \A c \in Starts : start[c] \in {"done", "failed"}
  /\ \A p \in Consumers : queue[p] = <<>>
  /\ late = {}
  /\ UNCHANGED vars

-----------------------------------------------------------------------------
Init ==
  /\ request \in [Transfers -> Requests]
  /\ Account!Init /\ Risk!Init /\ Network!Init
  /\ StoreInit
  /\ start = [c \in Starts |-> "new"]
  /\ queue = [p \in Consumers |-> <<>>]
  /\ hand = [p \in Consumers |-> Idle]
  /\ claimed = {} /\ emitted = {} /\ log = {} /\ late = {}
  /\ timeouts = 0 /\ repeats = 0 /\ losses = 0

\* What a call of start_choreographed_saga does of its own accord.
StartStep(c) == Register(c) \/ ReplayStart(c) \/ Launch(c) \/ LaunchAgain(c)

\* What a participant does of its own accord.
Step(p) ==
  \/ Claim(p) \/ SkipDuplicate(p)
  \/ Answered(p) \/ Retry(p) \/ GiveUp(p) \/ Record(p)
  \/ Emit(p) \/ EmitAgain(p)
  \/ Project(p) \/ Tell(p) \/ Store(p)
  \/ Ack(p) \/ AckLost(p)

Next == \/ \E c \in Starts : StartStep(c) \/ FailToLaunch(c)
        \/ \E p \in Consumers : Step(p) \/ EmitInVain(p) \/ Raise(p)
        \/ Crash
        \/ \E m \in late : ExecuteLate(m)
        \/ Rest

Spec == Init /\ [][Next]_vars

\* The threads go on and the broker delivers what it holds.
FairSpec == /\ Spec
            /\ \A c \in Starts : WF_vars(StartStep(c))
            /\ \A p \in Consumers : WF_vars(Step(p))

-----------------------------------------------------------------------------
Hand == [pc      : {"idle", "emit", "call", "record", "project", "tell", "store", "ack"},
         attempt : 1..MaxAttempts,
         outcome : ErrorCodes \cup {"OK", "NONE"},
         todo    : Seq(EventTypes),
         link    : {"sound", "retrying", "replaced"}]

Message == [transfer : Transfers, kind : StepKinds, step : Steps, attempt : 1..MaxAttempts]

\* Every row, message and hand is well formed; a participant that is not idle
\* holds the first message of its queue, which it has claimed.
TypeOK ==
  /\ request \in [Transfers -> Requests]
  /\ Account!TypeOK /\ Risk!TypeOK /\ Network!TypeOK
  /\ StoreTypeOK
  /\ start \in [Starts -> {"new", "publish", "retry", "done", "failed"}]
  /\ emitted \subseteq Event /\ log \subseteq emitted
  /\ queue \in [Consumers -> Seq(emitted)]
  /\ claimed \subseteq Consumers \X emitted
  /\ hand \in [Consumers -> Hand]
  /\ \A p \in Consumers : ~At(p, "idle") => queue[p] # <<>> /\ <<p, Current(p)>> \in claimed
  /\ late \subseteq Message
  /\ timeouts \in 0..MaxTimeouts /\ repeats \in 0..MaxRepeats /\ losses \in 0..MaxLosses
===============================================================================
