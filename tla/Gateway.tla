-------------------------------- MODULE Gateway --------------------------------
(***************************************************************************)
(* The API Gateway between the browser and the saga: POSTs that register a *)
(* transfer once per Idempotency-Key, a background task that hands it over *)
(* to the saga and keeps the outbox, the single notifier thread that sends *)
(* the saga's statuses back as PATCHes, and the browser that polls both.   *)
(* The saga is SagaLifecycle, which both of its flavours implement.        *)
(*                                                                         *)
(* One action is one transaction or one HTTP request.  A request whose     *)
(* client gave up may be executed later or never.                          *)
(***************************************************************************)
EXTENDS SagaDomain, Integers, Sequences

CONSTANTS Posts,        \* POST /transfers requests; each has a transfer_id ready
          Keys,         \* Idempotency-Keys
          KeyOf,        \* the key each POST carries
          Requests,     \* what the POSTs may ask for together, by fingerprint
          Stages,       \* bound: the statuses a saga may show
          MaxQueued,    \* bound: PATCHes waiting for the notifier
          MaxTimeouts,  \* bound: HTTP requests whose client gives up
          MaxLosses,    \* bound: stops of a service, failed reads
          Absent        \* "no such row"

ASSUME GatewayAssumption ==
  /\ KeyOf \in [Posts -> Keys]
  /\ \A q \in Requests : DOMAIN q = Posts
  /\ "PENDING" \in Stages /\ Stages \subseteq SagaStatuses
  /\ MaxQueued \in Nat \ {0} /\ MaxTimeouts \in Nat /\ MaxLosses \in Nat
  /\ Absent \notin SagaStatuses \cup {"PENDING", "DELIVERED", "FAILED"}

VARIABLES request,     \* what each POST asks for
          transfers,   \* gateway.transfers, by idempotency key
          answer,      \* what each POST was answered
          task,        \* the background task of each POST: dispatch
          outbox,      \* gateway.transfer_outbox, by transfer
          accepted,    \* transfers the saga answered 202 to and still has in hand
          stage, finished, announced,  \* the saga
          queue,       \* PATCHes waiting for the notifier thread
          patch,       \* the PATCH the thread has sent, if any
          late,        \* requests whose client gave up on them
          screen,      \* the browser
          timeouts, losses  \* how much of the bounds is used up

gateway == <<request, transfers, answer, task, outbox>>
saga == <<accepted, stage, finished, announced>>
notifier == <<queue, patch>>
bounds == <<timeouts, losses>>
vars == <<request, transfers, answer, task, outbox, accepted, stage, finished,
          announced, queue, patch, late, screen, timeouts, losses>>

Saga == INSTANCE SagaLifecycle WITH Transfers <- Posts

MayTimeOut == timeouts < MaxTimeouts
MayLose == losses < MaxLosses

-----------------------------------------------------------------------------
(* POST /transfers: create_or_retrieve is one transaction.                 *)

\* The public record of a transfer: its identifier is the POST that made it, and
\* its fingerprint what that POST asked for.
Record == [transfer : Posts, status : PublicStatuses]

ASSUME RecordAssumption == Absent \notin Record

Existing(c) == transfers[KeyOf[c]]

\* Mutant: the key is not unique, a second insert wins.
CreateAgain(c) ==
  /\ answer[c] = "none"
  /\ transfers' = [transfers EXCEPT ![KeyOf[c]] = [transfer |-> c, status |-> "RECIBIDA"]]
  /\ answer' = [answer EXCEPT ![c] = "created"]
  /\ task' = [task EXCEPT ![c] = "queued"]
  /\ UNCHANGED <<request, outbox, saga, notifier, late, screen, bounds>>

\* Mutant: the transfer is registered and handed over to nobody.
CreateOnly(c) ==
  /\ answer[c] = "none" /\ Existing(c) = Absent
  /\ transfers' = [transfers EXCEPT ![KeyOf[c]] = [transfer |-> c, status |-> "RECIBIDA"]]
  /\ answer' = [answer EXCEPT ![c] = "created"]
  /\ UNCHANGED <<request, task, outbox, saga, notifier, late, screen, bounds>>

\* The key is new: the row is inserted and dispatch is left for the background.
Create(c) ==
  /\ answer[c] = "none" /\ Existing(c) = Absent
  /\ transfers' = [transfers EXCEPT ![KeyOf[c]] = [transfer |-> c, status |-> "RECIBIDA"]]
  /\ answer' = [answer EXCEPT ![c] = "created"]
  /\ task' = [task EXCEPT ![c] = "queued"]
  /\ UNCHANGED <<request, outbox, saga, notifier, late, screen, bounds>>

\* The key is taken: the original transfer for the same body, or a conflict.
Retrieve(c) ==
  /\ answer[c] = "none" /\ Existing(c) # Absent
  /\ answer' = [answer EXCEPT
       ![c] = IF request[Existing(c).transfer] = request[c]
             THEN "replayed" ELSE "conflict"]
  /\ UNCHANGED <<request, transfers, task, outbox, saga, notifier, late, screen, bounds>>

-----------------------------------------------------------------------------
(* dispatch: the hand-over to the saga, one attempt.                       *)

RecordOutbox(c) ==
  /\ task[c] = "queued"
  /\ outbox' = [outbox EXCEPT ![c] = "PENDING"]
  /\ task' = [task EXCEPT ![c] = "sending"]
  /\ UNCHANGED <<request, transfers, answer, saga, notifier, late, screen, bounds>>

\* The saga answers 202: the transfer is in its hands.
Accept(c) ==
  /\ task[c] = "sending"
  /\ accepted' = accepted \cup {c}
  /\ task' = [task EXCEPT ![c] = "accepted"]
  /\ UNCHANGED <<request, transfers, answer, outbox, stage, finished, announced,
                 notifier, late, screen, bounds>>

HandOver(c) == [to |-> "saga", transfer |-> c]
Patch(t, status) == [to |-> "gateway", transfer |-> t, status |-> status]

\* The hand-over fails on the client side, whether the saga got it or not.
HandOverFails(c) ==
  /\ task[c] = "sending" /\ MayTimeOut
  /\ late' = late \cup {HandOver(c)}
  /\ task' = [task EXCEPT ![c] = "refused"]
  /\ timeouts' = timeouts + 1
  /\ UNCHANGED <<request, transfers, answer, outbox, saga, notifier, screen, losses>>

MarkOutbox(c) ==
  /\ task[c] \in {"accepted", "refused"}
  /\ outbox' = [outbox EXCEPT
       ![c] = IF task[c] = "accepted" THEN "DELIVERED" ELSE "FAILED"]
  /\ task' = [task EXCEPT ![c] = "done"]
  /\ UNCHANGED <<request, transfers, answer, saga, notifier, late, screen, bounds>>

\* The Gateway stops and starts again: its background tasks are gone, and
\* nothing reads the outbox to take them up.
GatewayStop ==
  /\ MayLose
  /\ \E c \in Posts : task[c] \notin {"none", "done"}
  /\ late' = late \cup {HandOver(c) : c \in {x \in Posts : task[x] = "sending"}}
  /\ task' = [c \in Posts |-> IF task[c] = "none" THEN "none" ELSE "done"]
  /\ losses' = losses + 1
  /\ UNCHANGED <<request, transfers, answer, outbox, saga, notifier, screen, timeouts>>

-----------------------------------------------------------------------------
(* The saga and its notifier thread.                                       *)

\* The run, or the choreography, of an accepted transfer inserts its row.
Begin(t) ==
  /\ t \in accepted
  /\ Saga!Begin(t)
  /\ UNCHANGED <<accepted, gateway, notifier, late, screen, bounds>>

\* It goes on, or never does: a choreography may stop short of its end.
Proceed(t) ==
  /\ t \in accepted
  /\ \/ \E status \in Stages : Saga!Advance(t, status)
     \/ \E verdict \in Stages \cap TerminalStatuses : Saga!Finish(t, verdict)
  /\ UNCHANGED <<accepted, gateway, notifier, late, screen, bounds>>

\* A status is handed to the notifier; an outcome only once.
Tell(t) ==
  /\ t \in accepted
  /\ Len(queue) < MaxQueued
  /\ t \in finished => announced[t] # GatewayStatus(stage[t])
  /\ Saga!Announce(t)
  /\ queue' = Append(queue, Patch(t, announced'[t]))
  /\ UNCHANGED <<accepted, gateway, patch, late, screen, bounds>>

\* Mutant: the thread takes the newest of its tasks.
NewestTask == Len(queue)

\* Which of its tasks the single thread takes.
NextTask == 1

SendPatch ==
  /\ patch = Absent /\ queue # <<>>
  /\ patch' = queue[NextTask]
  /\ queue' = SubSeq(queue, 1, NextTask - 1) \o SubSeq(queue, NextTask + 1, Len(queue))
  /\ UNCHANGED <<gateway, saga, late, screen, bounds>>

\* update_status: whatever the row said before.
UpdateStatus(m) ==
  transfers' = [k \in Keys |->
    IF transfers[k] # Absent /\ transfers[k].transfer = m.transfer
    THEN [transfers[k] EXCEPT !.status = m.status] ELSE transfers[k]]

PatchAnswered ==
  /\ patch # Absent
  /\ UpdateStatus(patch)
  /\ patch' = Absent
  /\ UNCHANGED <<request, answer, task, outbox, saga, queue, late, screen, bounds>>

\* notify_status gives up after one attempt; nobody tries again.
PatchFails ==
  /\ patch # Absent /\ MayTimeOut
  /\ late' = late \cup {patch}
  /\ patch' = Absent
  /\ timeouts' = timeouts + 1
  /\ UNCHANGED <<gateway, saga, queue, screen, losses>>

\* A run ends on an exception, of the repository for one, wherever it was.
RunDies(t) ==
  /\ MayLose
  /\ t \in accepted \ finished
  /\ accepted' = accepted \ {t}
  /\ losses' = losses + 1
  /\ UNCHANGED <<gateway, stage, finished, announced, notifier, late, screen, timeouts>>

\* The saga stops and starts again: the notifier's queue is gone, and so are the
\* runs, begun or not, which nobody resumes.  A choreography that had begun goes
\* on from the broker's queues, if the stop did not take the event it was at.
SagaStop ==
  /\ MayLose
  /\ accepted # {} \/ queue # <<>> \/ patch # Absent
  /\ accepted' \in SUBSET {t \in accepted : stage[t] # Absent}
  /\ queue' = <<>> /\ patch' = Absent
  /\ late' = IF patch = Absent THEN late ELSE late \cup {patch}
  /\ losses' = losses + 1
  /\ UNCHANGED <<gateway, stage, finished, announced, screen, timeouts>>

\* A request is executed whose client no longer waits for it.
ExecuteLate(m) ==
  /\ late' = late \ {m}
  /\ \/ /\ m.to = "saga"
        /\ accepted' = accepted \cup {m.transfer}
        /\ UNCHANGED transfers
     \/ /\ m.to = "gateway"
        /\ UpdateStatus(m)
        /\ UNCHANGED accepted
  /\ UNCHANGED <<request, answer, task, outbox, stage, finished, announced, notifier, screen, bounds>>

-----------------------------------------------------------------------------
(* The browser: useTransferPolling.                                        *)

\* What a poll has read so far of the Gateway's row and of the saga's trace;
\* of the trace only the outcome matters.
Unread == [state |-> "polling", transfer |-> Absent, public |-> "NONE",
           trace |-> "NONE", shown |-> "NONE"]
Asleep == [Unread EXCEPT !.state = "off"]

Again == [screen EXCEPT !.public = "NONE", !.trace = "NONE"]
Polling == screen.state = "polling"

\* The POST was answered with a transfer, new or replayed.
StartPolling(c) ==
  /\ screen.state = "off"
  /\ answer[c] \in {"created", "replayed"}
  /\ screen' = [Unread EXCEPT !.transfer = Existing(c).transfer]
  /\ UNCHANGED <<gateway, saga, notifier, late, bounds>>

ReadPublic ==
  /\ Polling /\ screen.public = "NONE"
  /\ \E k \in Keys :
       /\ transfers[k] # Absent /\ transfers[k].transfer = screen.transfer
       /\ screen' = [screen EXCEPT !.public = transfers[k].status]
  /\ UNCHANGED <<gateway, saga, notifier, late, bounds>>

\* Mutant: the trace's own status is taken for the public one.
OutcomeRaw(t) == IF t \in finished THEN stage[t] ELSE "OPEN"

Outcome(t) == IF t \in finished THEN GatewayStatus(stage[t]) ELSE "OPEN"

ReadTrace ==
  /\ Polling /\ screen.trace = "NONE"
  /\ screen' = [screen EXCEPT !.trace = Outcome(screen.transfer)]
  /\ UNCHANGED <<gateway, saga, notifier, late, bounds>>

\* No trace is no outcome; without the public status the poll starts anew.
ReadFails ==
  /\ Polling /\ MayLose
  /\ \/ screen.trace = "NONE" /\ screen' = [screen EXCEPT !.trace = "OPEN"]
     \/ screen.public = "NONE" /\ screen' = Again
  /\ losses' = losses + 1
  /\ UNCHANGED <<gateway, saga, notifier, late, timeouts>>

FinalPublicStatuses == {GatewayStatus(s) : s \in TerminalStatuses} \cup {"COMPENSADA"}

\* Mutant: the Gateway's projection is shown, the trace only stops the poll.
EstadoPublico(public, trace) == public

\* The saga is the source of truth of its own end.  What is shown meanwhile is
\* not kept.
Estado(public, trace) == IF trace # "OPEN" THEN trace ELSE public

Show ==
  LET estado == Estado(screen.public, screen.trace)
      over == screen.trace # "OPEN" \/ estado \in FinalPublicStatuses
  IN
  /\ Polling /\ screen.public # "NONE" /\ screen.trace # "NONE"
  /\ screen' = IF over THEN [Again EXCEPT !.state = "stopped", !.shown = estado] ELSE Again
  /\ UNCHANGED <<gateway, saga, notifier, late, bounds>>

\* Nothing more will happen.
Rest ==
  /\ \A c \in Posts : answer[c] # "none" /\ task[c] \in {"none", "done"}
  /\ \A t \in accepted : t \in finished /\ announced[t] = GatewayStatus(stage[t])
  /\ queue = <<>> /\ patch = Absent /\ late = {}
  /\ ~Polling
  /\ UNCHANGED vars

-----------------------------------------------------------------------------
Init ==
  /\ request \in Requests
  /\ transfers = [k \in Keys |-> Absent]
  /\ answer = [c \in Posts |-> "none"]
  /\ task = [c \in Posts |-> "none"]
  /\ outbox = [c \in Posts |-> Absent]
  /\ accepted = {}
  /\ Saga!Init
  /\ queue = <<>> /\ patch = Absent /\ late = {}
  /\ screen = Asleep
  /\ timeouts = 0 /\ losses = 0

Dispatch(c) == RecordOutbox(c) \/ Accept(c) \/ MarkOutbox(c)
Run(t) == Begin(t) \/ Proceed(t)
Notify == SendPatch \/ PatchAnswered
Poll == ReadPublic \/ ReadTrace \/ Show

Next == \/ \E c \in Posts : Create(c) \/ Retrieve(c)
        \/ \E c \in Posts : Dispatch(c) \/ HandOverFails(c) \/ StartPolling(c)
        \/ \E t \in Posts : Run(t) \/ Tell(t) \/ RunDies(t)
        \/ Notify \/ PatchFails
        \/ GatewayStop \/ SagaStop
        \/ \E m \in late : ExecuteLate(m)
        \/ Poll \/ ReadFails
        \/ Rest

Spec == Init /\ [][Next]_vars

\* Threads and the browser go on, and what was accepted is begun; nobody has to
\* send a POST, an abandoned request need never be executed, and a saga that was
\* begun need not get to its end.
FairSpec == /\ Spec
            /\ \A c \in Posts : WF_vars(Dispatch(c))
            /\ \A t \in Posts : WF_vars(Begin(t)) /\ WF_vars(Tell(t))
            /\ WF_vars(Notify)
            /\ WF_vars(Poll)
=============================================================================
