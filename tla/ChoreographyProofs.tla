-------------------------- MODULE ChoreographyProofs --------------------------
(***************************************************************************)
(* What the choreographed saga guarantees whatever is lost or repeated:    *)
(* any number of transfers and calls, any backlog, any number of crashes,  *)
(* raised handlers, lost acks, repeated publishes and late requests.       *)
(*                                                                         *)
(* Nobody decides the sequence, so the argument follows the events back:   *)
(* each has one event whose handler published it, the trail holds what     *)
(* that handler decided, and a row of the trail is written once.           *)
(***************************************************************************)
EXTENDS ServiceCallProofs, ChoreographyProperties, FiniteSetTheorems

-----------------------------------------------------------------------------
(* Which event leads to which.                                             *)

Emitted(t, type) == \E e \in emitted : e.transfer = t /\ e.type = type

\* A participant has begun to handle the event.
Taken(t, type) ==
  \E p \in Workers, e \in emitted : <<p, e>> \in claimed /\ e.transfer = t /\ e.type = type

WorkTypes == DOMAIN Executes \cup DOMAIN Compensates

\* What the handler of an event wrote in the trail.
Decision(t, type) == trail[<<t, KindOf(type), StepOf(type)>>]

\* What a handler publishes, as sets: before its call, and after a yes or a no.
Opens(type) ==
  CASE type = "RiskApproved" -> {"ClearingRequested"}
    [] type \in {"RiskRejected", "RiskCompensated"} -> {"DebitCompensationRequested"}
    [] OTHER -> {}

Confirms(type) ==
  CASE type = "TransferRequested" -> {"BalanceDebited"}
    [] type = "BalanceDebited"    -> {"RiskApproved"}
    [] type = "RiskApproved"      -> {"ClearingCompleted"}
    [] type = "ClearingCompleted" -> {"TransferCompleted"}
    [] type = "ClearingCompensationRequested" ->
         {"ClearingCompensated", "RiskCompensationRequested"}
    [] type = "RiskCompensationRequested" -> {"RiskCompensated"}
    [] type = "DebitCompensationRequested" -> {"DebitCompensated", "TransferCompensated"}
    [] OTHER -> {}

Refuses(type) ==
  CASE type = "TransferRequested" -> {"TransferFailed"}
    [] type = "BalanceDebited"    -> {"RiskRejected", "TransferFailed"}
    [] type = "RiskApproved"      -> {"TransferFailed", "RiskCompensationRequested"}
    [] type = "ClearingCompleted" -> {"TransferFailed", "ClearingCompensationRequested"}
    [] OTHER                      -> {}

\* The handler of an event may have published another, as the trail stands.
Leads(t, type, next) ==
  /\ Taken(t, type)
  /\ \/ next \in Opens(type)
     \/ /\ type \in WorkTypes
        /\ Decision(t, type) \in {"EXECUTED", "COMPENSATED"}
        /\ next \in Confirms(type)
     \/ /\ type \in WorkTypes
        /\ Decision(t, type) = "FAILED"
        /\ next \in Refuses(type)

-----------------------------------------------------------------------------
(* The inductive invariant.                                                *)

SagaTypes ==
  /\ StoreTypeOK
  /\ start \in [Starts -> {"new", "publish", "retry", "done", "failed"}]
  /\ emitted \subseteq Event /\ log \subseteq emitted
  /\ queue \in [Consumers -> Seq(emitted)]
  /\ claimed \subseteq Consumers \X emitted
  /\ hand \in [Consumers -> Hand]
  /\ late \subseteq Message
  /\ timeouts \in 0..MaxTimeouts /\ repeats \in 0..MaxRepeats /\ losses \in 0..MaxLosses

\* A participant gets what its queue is bound to; the message in a hand is its first, and
\* claimed; each participant does its own work only.
Holding(p) ==
  /\ \A i \in 1..Len(queue[p]) : queue[p][i].type \in Topology(p)
  /\ \A e \in emitted : <<p, e>> \in claimed => e.type \in Topology(p)
  /\ ~At(p, "idle") => queue[p] # <<>> /\ <<p, Current(p)>> \in claimed
  /\ At(p, "idle") => hand[p] = Idle
  /\ p \in Workers => hand[p].pc \in {"idle", "emit", "call", "record", "ack"}
  /\ p = "projector" => hand[p].pc \in {"idle", "project", "tell", "ack"}
  /\ p = "audit" => hand[p].pc \in {"idle", "store", "ack"}
  /\ At(p, "tell") => execution[Current(p).transfer] # Absent

\* No two events of one type about one transfer; each but the first has one
\* whose handler published it; a failure, and nothing else, names its cause.
Unique ==
  \A e \in emitted :
    /\ e.copy = 1
    /\ \A f \in emitted : f.transfer = e.transfer /\ f.type = e.type => f = e
    /\ execution[e.transfer] # Absent
    /\ e.error = "NONE" <=> e.type # "TransferFailed"

Caused ==
  \A e \in emitted : e.type # "TransferRequested" =>
    \E type \in EventTypes : Leads(e.transfer, type, e.type)

\* A row of the trail is written by the handler of its event, which has been
\* taken by then; nobody compensates a credit.
Written ==
  \A t \in Transfers :
    /\ \A type \in WorkTypes :
         /\ Decision(t, type) # Absent => Taken(t, type)
         /\ type \in DOMAIN Executes => Decision(t, type) \in {"EXECUTED", "FAILED", Absent}
         /\ type \in DOMAIN Compensates => Decision(t, type) \in RollbackStatuses \cup {Absent}
    /\ Row(t, "COMPENSATION", "CREDIT") = Absent

\* A call that has yet to publish owns its transfer, and nothing but the first
\* event of its own, once it is trying again, has been published about it.
Launched ==
  \A c \in Starts : Launching(c) =>
    /\ execution[TransferOf[c]] # Absent
    /\ \A d \in Starts : Launching(d) /\ TransferOf[d] = TransferOf[c] => d = c
    /\ start[c] = "publish" => ~Emitted(TransferOf[c], "TransferRequested")
    /\ start[c] = "retry" => Emitted(TransferOf[c], "TransferRequested")

\* An outcome is one its service gives: only a debit lacks funds, only the risk
\* service rejects for risk.
Plausible(type, outcome) ==
  /\ type \in DOMAIN Executes /\ outcome = "INSUFFICIENT_FUNDS" => type = "TransferRequested"
  /\ type \in DOMAIN Executes /\ OutcomeFor(outcome) = "REJECTED_RISK" =>
       type = "BalanceDebited"

\* What a participant has still to publish it may publish, has not published,
\* and nobody else will; until it records a decision there is none.
Publishing(p) ==
  LET e == Current(p)
      t == e.transfer
      me == hand[p]
  IN
  /\ me.todo # <<>> /\ Len(me.todo) \in {1, 2}
  /\ \A i \in 1..Len(me.todo) :
       /\ Leads(t, e.type, me.todo[i])
       /\ Emitted(t, me.todo[i]) => i = 1 /\ me.link = "retrying"
       /\ me.todo[i] = "TransferFailed" => me.outcome \notin {"OK", "NONE"}
  /\ Len(me.todo) = 2 => me.todo[1] # me.todo[2]
  /\ me.link = "retrying" =>
       [type |-> me.todo[1], transfer |-> t, copy |-> 1,
        error |-> IF me.todo[1] = "TransferFailed" THEN me.outcome ELSE "NONE"] \in emitted
  /\ e.type \in {"RiskApproved", "ClearingCompleted"} /\ me.outcome # "NONE" =>
       \/ Decision(t, e.type) # "FAILED"
       \/ me.todo[1] = "TransferFailed"
       \/ Emitted(t, "TransferFailed")

Working(p) ==
  LET e == Current(p)
      t == e.transfer
      me == hand[p]
  IN
  /\ me.pc \in {"call", "record"} => e.type \in WorkTypes
  /\ me.pc = "call" => me.outcome = "NONE"
  /\ me.pc = "record" => me.outcome # "NONE"
  /\ me.pc \in {"emit", "call", "record"} /\ e.type \in WorkTypes =>
       /\ Plausible(e.type, me.outcome)
       /\ me.pc # "emit" \/ me.outcome = "NONE" => Decision(t, e.type) = Absent
  /\ me.pc = "emit" => Publishing(p)
  /\ me.pc # "emit" => me.link # "retrying"
  /\ me.pc = "record" /\ me.outcome = "OK" =>
       StepOf(e.type) \in IF KindOf(e.type) = "ACTION" THEN Done[t] ELSE Undone[t]

\* A step is compensated on request.
Requested(t, s) ==
  \E type \in DOMAIN Compensates : Compensates[type] = s /\ Emitted(t, type)

Carried(m) ==
  /\ m.kind = "ACTION" => Before(m.step) \subseteq Done[m.transfer]
  /\ m.kind = "COMPENSATION" => Requested(m.transfer, m.step)

\* AuditNeverLies and NothingRunsAhead, said of Done and Undone.
Audited ==
  \A t \in Transfers, s \in Steps :
    /\ trail[<<t, "ACTION", s>>] = "EXECUTED" => s \in Done[t]
    /\ trail[<<t, "COMPENSATION", s>>] = "COMPENSATED" => s \in Undone[t]

Ordered == \A t \in Transfers : \A s \in Done[t] : Before(s) \subseteq Done[t]

Asked == \A t \in Transfers : \A s \in Undone[t] : Requested(t, s)

\* Whoever rolls back past risk has said before why the transfer failed.
Explained ==
  \A t \in Transfers :
    /\ Emitted(t, "RiskCompensationRequested") => Emitted(t, "TransferFailed")
    /\ Emitted(t, "ClearingCompensationRequested") => Emitted(t, "TransferFailed")

-----------------------------------------------------------------------------
(* The row the projector keeps.                                            *)

\* The causes of failure that events name are those of the trail.
Named ==
  \A e \in emitted : e.type = "TransferFailed" =>
    /\ e.error = "INSUFFICIENT_FUNDS" => Row(e.transfer, "ACTION", "DEBIT") = "FAILED"
    /\ OutcomeFor(e.error) = "REJECTED_RISK" => Row(e.transfer, "ACTION", "RISK") = "FAILED"

RiskFailed(t) == Row(t, "ACTION", "RISK") = "FAILED"

\* What an event made of the row, and which one.
Projection ==
  \A t \in Transfers : execution[t] # Absent =>
    LET row == execution[t] IN
    /\ row.error # "NONE" =>
         \E e \in emitted : e.transfer = t /\ e.type = "TransferFailed" /\ e.error = row.error
    /\ ~row.finished => row.status # "COMPLETED" /\ row.error # "INSUFFICIENT_FUNDS"
    /\ row.finished =>
         \/ row.status = "COMPLETED" /\ Emitted(t, "TransferCompleted")
         \/ /\ row.status = "REJECTED_FUNDS" /\ row.compensation = "NOT_REQUIRED"
            /\ row.error = "INSUFFICIENT_FUNDS"
         \/ /\ row.status = OutcomeFor(row.error) /\ row.compensation = "COMPENSATED"
            /\ row.status # "REJECTED_FUNDS" /\ row.status # "COMPLETED"
            /\ Emitted(t, "TransferCompensated")
            /\ row.error = "NONE" => RiskFailed(t) \/ losses > 0

\* A TransferFailed the projector has yet to project.
FailureAhead(t, i) ==
  LET e == queue["projector"][i] IN
  /\ e.transfer = t /\ e.type = "TransferFailed"
  /\ <<"projector", e>> \notin claimed \/ (i = 1 /\ At("projector", "project"))

\* While nothing is lost, a failure published is projected or on its way to the
\* projector, before the end of the rollback.
InTime ==
  "projector" \in Consumers /\ losses = 0 =>
    \A t \in Transfers : execution[t] # Absent /\ execution[t].error = "NONE" /\ ~RiskFailed(t) =>
      LET messages == queue["projector"] IN
      /\ Emitted(t, "TransferFailed") => \E i \in 1..Len(messages) : FailureAhead(t, i)
      /\ \A j \in 1..Len(messages) :
           messages[j].transfer = t /\ messages[j].type = "TransferCompensated" =>
             \E i \in 1..Len(messages) : i < j /\ FailureAhead(t, i)

Lineage ==
  /\ Unique /\ Caused /\ Written /\ Launched
  /\ \A p \in Workers : Working(p)

Services ==
  /\ Audited /\ Ordered /\ Asked
  /\ \A m \in late : Carried(m)

Verdicts == Explained /\ Named /\ Projection /\ InTime

IInv ==
  /\ ServiceTypes /\ ServicesAgree /\ SagaTypes
  /\ \A p \in Consumers : Holding(p)
  /\ Lineage /\ Services /\ Verdicts
-----------------------------------------------------------------------------
(* The tables.                                                             *)

\* The work each event asks for.
LEMMA WorkTable ==
  /\ WorkTypes = {"TransferRequested", "BalanceDebited", "RiskApproved", "ClearingCompleted",
                  "DebitCompensationRequested", "RiskCompensationRequested",
                  "ClearingCompensationRequested"}
  /\ WorkTypes \subseteq EventTypes
  /\ DOMAIN Executes = {"TransferRequested", "BalanceDebited", "RiskApproved",
                        "ClearingCompleted"}
  /\ DOMAIN Compensates = {"DebitCompensationRequested", "RiskCompensationRequested",
                           "ClearingCompensationRequested"}
  /\ \A type \in EventTypes : Works(type) <=> type \in WorkTypes
  /\ \A type \in WorkTypes : KindOf(type) \in StepKinds /\ StepOf(type) \in Steps
  /\ \A type \in WorkTypes : KindOf(type) = "ACTION" <=> type \in DOMAIN Executes
  /\ \A type \in WorkTypes : KindOf(type) = "COMPENSATION" <=> type \in DOMAIN Compensates
  /\ \A type \in DOMAIN Compensates : StepOf(type) = Compensates[type]
<1>1. /\ DOMAIN Executes = {"TransferRequested", "BalanceDebited", "RiskApproved",
                            "ClearingCompleted"}
      /\ DOMAIN Compensates = {"DebitCompensationRequested", "RiskCompensationRequested",
                               "ClearingCompensationRequested"}
  BY DEF Executes, Compensates
<1>2. \A type \in DOMAIN Executes : Executes[type] \in Steps
  BY DEF Executes, Steps
<1>3. \A type \in DOMAIN Compensates : Compensates[type] \in Steps
  BY DEF Compensates, Steps
<1>4. DOMAIN Executes \cup DOMAIN Compensates \subseteq EventTypes
  BY <1>1 DEF EventTypes
<1>5. QED
  BY <1>1, <1>2, <1>3, <1>4 DEF WorkTypes, Works, KindOf, StepOf, StepKinds

\* Where each decision is written.
LEMMA DecisionTable ==
  ASSUME NEW t
  PROVE  /\ Decision(t, "TransferRequested") = Row(t, "ACTION", "DEBIT")
         /\ Decision(t, "BalanceDebited") = Row(t, "ACTION", "RISK")
         /\ Decision(t, "RiskApproved") = Row(t, "ACTION", "CLEARING")
         /\ Decision(t, "ClearingCompleted") = Row(t, "ACTION", "CREDIT")
         /\ Decision(t, "DebitCompensationRequested") = Row(t, "COMPENSATION", "DEBIT")
         /\ Decision(t, "RiskCompensationRequested") = Row(t, "COMPENSATION", "RISK")
         /\ Decision(t, "ClearingCompensationRequested") = Row(t, "COMPENSATION", "CLEARING")
<1>1. /\ Executes["TransferRequested"] = "DEBIT" /\ Executes["BalanceDebited"] = "RISK"
      /\ Executes["RiskApproved"] = "CLEARING" /\ Executes["ClearingCompleted"] = "CREDIT"
      /\ Compensates["DebitCompensationRequested"] = "DEBIT"
      /\ Compensates["RiskCompensationRequested"] = "RISK"
      /\ Compensates["ClearingCompensationRequested"] = "CLEARING"
  BY DEF Executes, Compensates
<1>2. QED
  BY <1>1, WorkTable DEF Decision, Row, KindOf, StepOf

\* Each row of the trail is the decision of one event, except the compensation
\* of a credit.
LEMMA RowsOfWork ==
  /\ \A type, other \in WorkTypes :
       KindOf(type) = KindOf(other) /\ StepOf(type) = StepOf(other) => type = other
  /\ \A type \in WorkTypes : <<KindOf(type), StepOf(type)>> # <<"COMPENSATION", "CREDIT">>
<1>1. /\ Executes["TransferRequested"] = "DEBIT" /\ Executes["BalanceDebited"] = "RISK"
      /\ Executes["RiskApproved"] = "CLEARING" /\ Executes["ClearingCompleted"] = "CREDIT"
      /\ Compensates["DebitCompensationRequested"] = "DEBIT"
      /\ Compensates["RiskCompensationRequested"] = "RISK"
      /\ Compensates["ClearingCompensationRequested"] = "CLEARING"
  BY DEF Executes, Compensates
<1>2. QED
  BY <1>1, WorkTable DEF KindOf, StepOf

\* An event is bound to the queue of one worker at most.
LEMMA OneWorkerEach ==
  ASSUME NEW p \in Workers, NEW q \in Workers, NEW type,
         type \in Topology(p), type \in Topology(q)
  PROVE  p = q
  BY DEF Workers, Topology


\* A list of at most two different event types, of those in a set.
Script(list, types) ==
  /\ list \in Seq(EventTypes)
  /\ Len(list) \in {0, 1, 2} /\ (Len(list) = 0 <=> list = <<>>)
  /\ \A i \in 1..Len(list) : list[i] \in types
  /\ Len(list) = 2 => list[1] # list[2]

\* One and two events make a script.
LEMMA ShortScripts ==
  /\ \A types : Script(<<>>, types)
  /\ \A a \in EventTypes : Script(<<a>>, {a}) /\ <<a>> # <<>>
  /\ \A a, b \in EventTypes : a # b => Script(<<a, b>>, {a, b}) /\ <<a, b>> # <<>>
  BY DEF Script

\* The lists a handler publishes from hold what the sets say.
LEMMA Scripts ==
  ASSUME NEW type \in EventTypes
  PROVE  /\ Script(Announces(type), Opens(type))
         /\ type \in WorkTypes => Script(Succeeds(type), Confirms(type))
         /\ Script(Fails(type), Refuses(type))
         /\ type \in WorkTypes => Succeeds(type) # <<>>
         /\ type \in DOMAIN Executes => Fails(type) # <<>>
         /\ type \in {"RiskApproved", "ClearingCompleted"} => Fails(type)[1] = "TransferFailed"
         /\ Announces(type) # <<>> <=>
              type \in {"RiskApproved", "RiskRejected", "RiskCompensated"}
<1>0. {"TransferRequested", "BalanceDebited", "RiskApproved", "RiskRejected",
   "ClearingRequested", "ClearingCompleted", "TransferCompleted", "TransferFailed",
   "DebitCompensationRequested", "RiskCompensationRequested",
   "ClearingCompensationRequested", "DebitCompensated", "RiskCompensated",
   "ClearingCompensated", "TransferCompensated"} = EventTypes
  BY DEF EventTypes
<1>1. /\ Script(Announces(type), Opens(type))
      /\ Announces(type) # <<>> <=>
              type \in {"RiskApproved", "RiskRejected", "RiskCompensated"}
  BY <1>0, ShortScripts DEF Announces, Opens
<1>2. ASSUME type \in WorkTypes
      PROVE  Script(Succeeds(type), Confirms(type)) /\ Succeeds(type) # <<>>
  BY <1>0, <1>2, ShortScripts, WorkTable DEF Succeeds, Confirms
<1>3. /\ Script(Fails(type), Refuses(type))
      /\ type \in DOMAIN Executes => Fails(type) # <<>>
      /\ type \in {"RiskApproved", "ClearingCompleted"} => Fails(type)[1] = "TransferFailed"
  <2>1. CASE type = "TransferRequested"
    BY <1>0, <2>1, ShortScripts DEF Fails, Refuses
  <2>2. CASE type = "BalanceDebited"
    BY <1>0, <2>2, ShortScripts DEF Fails, Refuses
  <2>3. CASE type = "RiskApproved"
    BY <1>0, <2>3, ShortScripts DEF Fails, Refuses
  <2>4. CASE type = "ClearingCompleted"
    BY <1>0, <2>4, ShortScripts DEF Fails, Refuses
  <2>5. CASE type \notin DOMAIN Executes
    BY <2>5, ShortScripts, WorkTable DEF Fails, Refuses
  <2>6. QED
    BY <2>1, <2>2, <2>3, <2>4, <2>5, WorkTable
<1>4. QED
  BY <1>1, <1>2, <1>3

-----------------------------------------------------------------------------
(* The lineage of an event.                                                *)

\* Which events may have led to an event, and what their handlers decided.
LEMMA Parents ==
  ASSUME Written, NEW t \in Transfers, NEW type \in EventTypes, NEW next, Leads(t, type, next)
  PROVE  /\ next # "TransferRequested"
         /\ next = "BalanceDebited" =>
              type = "TransferRequested" /\ Row(t, "ACTION", "DEBIT") = "EXECUTED"
         /\ next = "RiskApproved" =>
              type = "BalanceDebited" /\ Row(t, "ACTION", "RISK") = "EXECUTED"
         /\ next = "RiskRejected" => type = "BalanceDebited" /\ RiskFailed(t)
         /\ next = "ClearingRequested" => type = "RiskApproved"
         /\ next = "ClearingCompleted" =>
              type = "RiskApproved" /\ Row(t, "ACTION", "CLEARING") = "EXECUTED"
         /\ next = "TransferCompleted" =>
              type = "ClearingCompleted" /\ Row(t, "ACTION", "CREDIT") = "EXECUTED"
         /\ next = "TransferFailed" =>
              \/ type = "TransferRequested" /\ Row(t, "ACTION", "DEBIT") = "FAILED"
              \/ type = "BalanceDebited" /\ RiskFailed(t)
              \/ type = "RiskApproved" /\ Row(t, "ACTION", "CLEARING") = "FAILED"
              \/ type = "ClearingCompleted" /\ Row(t, "ACTION", "CREDIT") = "FAILED"
         /\ next = "ClearingCompensationRequested" =>
              type = "ClearingCompleted" /\ Row(t, "ACTION", "CREDIT") = "FAILED"
         /\ next = "RiskCompensationRequested" =>
              \/ type = "RiskApproved" /\ Row(t, "ACTION", "CLEARING") = "FAILED"
              \/ /\ type = "ClearingCompensationRequested"
                 /\ Row(t, "COMPENSATION", "CLEARING") = "COMPENSATED"
         /\ next = "DebitCompensationRequested" =>
              type \in {"RiskRejected", "RiskCompensated"}
         /\ next = "ClearingCompensated" =>
              /\ type = "ClearingCompensationRequested"
              /\ Row(t, "COMPENSATION", "CLEARING") = "COMPENSATED"
         /\ next = "RiskCompensated" =>
              /\ type = "RiskCompensationRequested"
              /\ Row(t, "COMPENSATION", "RISK") = "COMPENSATED"
         /\ next \in {"DebitCompensated", "TransferCompensated"} =>
              /\ type = "DebitCompensationRequested"
              /\ Row(t, "COMPENSATION", "DEBIT") = "COMPENSATED"
<1>1. CASE next \in Opens(type)
  BY <1>1 DEF Opens
<1>2. CASE /\ type \in WorkTypes /\ Decision(t, type) \in {"EXECUTED", "COMPENSATED"}
           /\ next \in Confirms(type)
  <2>1. /\ type \in DOMAIN Executes => Decision(t, type) = "EXECUTED"
        /\ type \in DOMAIN Compensates => Decision(t, type) = "COMPENSATED"
    BY <1>2, AbsentAssumption DEF Written, RollbackStatuses, ActionStatuses
  <2>2. QED
    BY <1>2, <2>1, WorkTable, DecisionTable DEF Confirms
<1>3. CASE /\ type \in WorkTypes /\ Decision(t, type) = "FAILED"
           /\ next \in Refuses(type)
  BY <1>3, WorkTable, DecisionTable DEF Refuses, RiskFailed
<1>4. QED
  BY <1>1, <1>2, <1>3 DEF Leads

\* An event about which a transfer there is one that led to it, and it was taken.
LEMMA HasParent ==
  ASSUME Caused, emitted \subseteq Event, NEW t \in Transfers, NEW next,
         Emitted(t, next), next # "TransferRequested"
  PROVE  \E type \in EventTypes : Leads(t, type, next) /\ Taken(t, type) /\ Emitted(t, type)
  BY DEF Caused, Emitted, Leads, Taken

\* What an event that was published says of the trail.
Meaning(t) ==
  /\ Emitted(t, "BalanceDebited") => Row(t, "ACTION", "DEBIT") = "EXECUTED"
  /\ Emitted(t, "RiskApproved") => Row(t, "ACTION", "RISK") = "EXECUTED"
  /\ Emitted(t, "RiskRejected") => RiskFailed(t)
  /\ Emitted(t, "ClearingRequested") => Taken(t, "RiskApproved")
  /\ Emitted(t, "ClearingCompleted") => Row(t, "ACTION", "CLEARING") = "EXECUTED"
  /\ Emitted(t, "TransferCompleted") => Row(t, "ACTION", "CREDIT") = "EXECUTED"
  /\ Emitted(t, "TransferFailed") => \E s \in Steps : Row(t, "ACTION", s) = "FAILED"
  /\ Emitted(t, "ClearingCompensationRequested") => Row(t, "ACTION", "CREDIT") = "FAILED"
  /\ Emitted(t, "RiskCompensationRequested") =>
       \/ Row(t, "ACTION", "CLEARING") = "FAILED"
       \/ Row(t, "COMPENSATION", "CLEARING") = "COMPENSATED"
  /\ Emitted(t, "DebitCompensationRequested") =>
       Taken(t, "RiskRejected") \/ Taken(t, "RiskCompensated")
  /\ Emitted(t, "ClearingCompensated") => Row(t, "COMPENSATION", "CLEARING") = "COMPENSATED"
  /\ Emitted(t, "RiskCompensated") => Row(t, "COMPENSATION", "RISK") = "COMPENSATED"
  /\ Emitted(t, "DebitCompensated") \/ Emitted(t, "TransferCompensated") =>
       Row(t, "COMPENSATION", "DEBIT") = "COMPENSATED"

\* Each row of the trail rests on another.
Chain(t) ==
  /\ Row(t, "ACTION", "RISK") # Absent => Row(t, "ACTION", "DEBIT") = "EXECUTED"
  /\ Row(t, "ACTION", "CLEARING") # Absent => Row(t, "ACTION", "RISK") = "EXECUTED"
  /\ Row(t, "ACTION", "CREDIT") # Absent => Row(t, "ACTION", "CLEARING") = "EXECUTED"
  /\ Row(t, "COMPENSATION", "CLEARING") # Absent => Row(t, "ACTION", "CREDIT") = "FAILED"
  /\ Row(t, "COMPENSATION", "RISK") # Absent =>
       \/ Row(t, "ACTION", "CLEARING") = "FAILED"
       \/ Row(t, "COMPENSATION", "CLEARING") = "COMPENSATED"
  /\ Row(t, "COMPENSATION", "DEBIT") # Absent =>
       RiskFailed(t) \/ Row(t, "COMPENSATION", "RISK") = "COMPENSATED"

\* The trail and the events tell the same story.
LEMMA History ==
  ASSUME Caused, Written, emitted \subseteq Event, NEW t \in Transfers
  PROVE  Meaning(t) /\ Chain(t)
<1>1. \A next : Emitted(t, next) /\ next # "TransferRequested" =>
        \E type \in EventTypes : Leads(t, type, next) /\ Taken(t, type) /\ Emitted(t, type)
  BY HasParent
<1>2. Meaning(t)
  <2>1. ASSUME NEW next, Emitted(t, next), next # "TransferRequested"
        PROVE  /\ next = "BalanceDebited" => Row(t, "ACTION", "DEBIT") = "EXECUTED"
               /\ next = "RiskApproved" => Row(t, "ACTION", "RISK") = "EXECUTED"
               /\ next = "RiskRejected" => RiskFailed(t)
               /\ next = "ClearingRequested" => Taken(t, "RiskApproved")
               /\ next = "ClearingCompleted" => Row(t, "ACTION", "CLEARING") = "EXECUTED"
               /\ next = "TransferCompleted" => Row(t, "ACTION", "CREDIT") = "EXECUTED"
               /\ next = "TransferFailed" => \E s \in Steps : Row(t, "ACTION", s) = "FAILED"
               /\ next = "ClearingCompensationRequested" => Row(t, "ACTION", "CREDIT") = "FAILED"
               /\ next = "RiskCompensationRequested" =>
                    \/ Row(t, "ACTION", "CLEARING") = "FAILED"
                    \/ Row(t, "COMPENSATION", "CLEARING") = "COMPENSATED"
               /\ next = "DebitCompensationRequested" =>
                    Taken(t, "RiskRejected") \/ Taken(t, "RiskCompensated")
               /\ next = "ClearingCompensated" =>
                    Row(t, "COMPENSATION", "CLEARING") = "COMPENSATED"
               /\ next = "RiskCompensated" => Row(t, "COMPENSATION", "RISK") = "COMPENSATED"
               /\ next \in {"DebitCompensated", "TransferCompensated"} =>
                    Row(t, "COMPENSATION", "DEBIT") = "COMPENSATED"
    <3>1. PICK type \in EventTypes : Leads(t, type, next) /\ Taken(t, type)
      BY <1>1, <2>1
    <3>2. QED
      BY <3>1, Parents DEF Steps, RiskFailed
  <2>2. QED
    BY <2>1 DEF Meaning
<1>3. Chain(t)
  <2>1. \A type \in WorkTypes : Decision(t, type) # Absent => Emitted(t, type)
    BY DEF Written, Taken, Emitted
  <2>2. Taken(t, "RiskRejected") => RiskFailed(t)
    BY <1>2 DEF Meaning, Taken, Emitted
  <2>3. Taken(t, "RiskCompensated") => Row(t, "COMPENSATION", "RISK") = "COMPENSATED"
    BY <1>2 DEF Meaning, Taken, Emitted
  <2>4. QED
    BY <1>2, <2>1, <2>2, <2>3, WorkTable, DecisionTable DEF Meaning, Chain
<1>4. QED
  BY <1>2, <1>3

\* Nobody else publishes an event: two events never lead to the same one.
LEMMA OneParent ==
  ASSUME Caused, Written, emitted \subseteq Event, NEW t \in Transfers, NEW next,
         NEW a \in EventTypes, NEW b \in EventTypes, Leads(t, a, next), Leads(t, b, next)
  PROVE  a = b
<1>1. Meaning(t) /\ Chain(t)
  BY History
<1>2. /\ Taken(t, a) /\ Taken(t, b)
      /\ Taken(t, "RiskRejected") => RiskFailed(t)
      /\ Taken(t, "RiskCompensated") => Row(t, "COMPENSATION", "RISK") = "COMPENSATED"
  BY <1>1 DEF Meaning, Leads, Taken, Emitted
<1>3. "EXECUTED" # Absent /\ "FAILED" # Absent /\ "COMPENSATED" # Absent
  BY AbsentAssumption DEF ActionStatuses, RollbackStatuses
<1>4. next \in {"BalanceDebited", "RiskApproved", "RiskRejected", "ClearingRequested",
                "ClearingCompleted", "TransferCompleted", "TransferFailed",
                "DebitCompensationRequested", "RiskCompensationRequested",
                "ClearingCompensationRequested", "DebitCompensated", "RiskCompensated",
                "ClearingCompensated", "TransferCompensated"}
  BY DEF Leads, Opens, Confirms, Refuses
<1>5. QED
  BY <1>1, <1>2, <1>3, <1>4, Parents DEF Chain, RiskFailed

\* What a handler is about to announce has not been published: it has only just
\* taken its event.
LEMMA NotAnnouncedYet ==
  ASSUME Caused, Written, emitted \subseteq Event, NEW t \in Transfers,
         NEW type \in EventTypes, Emitted(t, type), ~Taken(t, type),
         NEW next \in Opens(type)
  PROVE  ~Emitted(t, next)
<1>1. Meaning(t) /\ Chain(t)
  BY History
<1>2. /\ Taken(t, "RiskRejected") => RiskFailed(t)
      /\ Taken(t, "RiskCompensated") => Row(t, "COMPENSATION", "RISK") = "COMPENSATED"
  BY <1>1 DEF Meaning, Taken, Emitted
<1>3. "EXECUTED" # Absent /\ "FAILED" # Absent /\ "COMPENSATED" # Absent
  BY AbsentAssumption DEF ActionStatuses, RollbackStatuses
<1>4. QED
  BY <1>1, <1>2, <1>3 DEF Meaning, Chain, RiskFailed, Opens

\* Nor has what it publishes on its decision, before it has recorded one.
LEMMA NotDecidedYet ==
  ASSUME Caused, Written, emitted \subseteq Event, NEW t \in Transfers,
         NEW type \in WorkTypes, Emitted(t, type), Decision(t, type) = Absent,
         NEW next \in Confirms(type) \cup Refuses(type)
  PROVE  ~Emitted(t, next)
<1>1. Meaning(t) /\ Chain(t)
  BY History
<1>2. "EXECUTED" # Absent /\ "FAILED" # Absent /\ "COMPENSATED" # Absent
  BY AbsentAssumption DEF ActionStatuses, RollbackStatuses
<1>3. ASSUME next = "TransferFailed"
      PROVE  ~Emitted(t, "TransferFailed")
  <2>1. \A s \in Steps : Row(t, "ACTION", s) # "FAILED"
    BY <1>1, <1>2, <1>3, WorkTable, DecisionTable
       DEF Meaning, Chain, RiskFailed, Confirms, Refuses, Steps
  <2>2. QED
    BY <1>1, <2>1 DEF Meaning
<1>4. ASSUME next # "TransferFailed"
      PROVE  ~Emitted(t, next)
  BY <1>1, <1>2, <1>4, WorkTable, DecisionTable
     DEF Meaning, Chain, RiskFailed, Confirms, Refuses
<1>5. QED
  BY <1>3, <1>4

-----------------------------------------------------------------------------
(* What no step takes back.                                                *)

\* Events and claims accumulate, a row of the trail is never written over, an
\* execution row never goes, and the services forget nothing.
Onwards ==
  /\ emitted \subseteq emitted' /\ claimed \subseteq claimed'
  /\ \A t \in Transfers :
       /\ \A kind \in StepKinds, s \in Steps :
            Row(t, kind, s) # Absent => Row(t, kind, s)' = Row(t, kind, s)
       /\ execution[t] # Absent => execution'[t] # Absent
       /\ Done[t] \subseteq Done'[t] /\ Undone[t] \subseteq Undone'[t]

\* An event published, or taken, stays so.
LEMMA EmittedStays ==
  ASSUME Onwards, NEW t, NEW type
  PROVE  /\ Emitted(t, type) => Emitted(t, type)'
         /\ Taken(t, type) => Taken(t, type)'
  BY DEF Onwards, Emitted, Taken

\* What a worker decided about a message is never decided again.
LEMMA DecisionStays ==
  ASSUME Onwards, NEW t \in Transfers, NEW type \in WorkTypes, Decision(t, type) # Absent
  PROVE  Decision(t, type)' = Decision(t, type)
<1>1. KindOf(type) \in StepKinds /\ StepOf(type) \in Steps
  BY WorkTable
<1>2. QED
  BY <1>1 DEF Onwards, Decision, Row

\* An event that leads to another goes on leading to it.
LEMMA LeadsStays ==
  ASSUME Onwards, NEW t \in Transfers, NEW type, NEW next, Leads(t, type, next)
  PROVE  Leads(t, type, next)'
<1>1. Taken(t, type)'
  BY EmittedStays DEF Leads
<1>2. CASE next \in Opens(type)
  BY <1>1, <1>2 DEF Leads
<1>3. CASE type \in WorkTypes /\ Decision(t, type) \in {"EXECUTED", "COMPENSATED", "FAILED"}
  <2>1. Decision(t, type) # Absent
    BY <1>3, AbsentAssumption DEF ActionStatuses, RollbackStatuses
  <2>2. Decision(t, type)' = Decision(t, type)
    BY <1>3, <2>1, DecisionStays
  <2>3. QED
    BY <1>1, <1>3, <2>2 DEF Leads
<1>4. QED
  BY <1>2, <1>3 DEF Leads

\* What is left to publish stays so while the participant does nothing and
\* nobody publishes an event it has to publish, or decides in its place.
LEMMA PublishingStays ==
  ASSUME Onwards, NEW q \in Workers, NEW e \in Event, e = Current(q),
         Publishing(q), hand'[q] = hand[q], Current(q)' = e,
         e.type \in WorkTypes => Decision(e.transfer, e.type)' = Decision(e.transfer, e.type),
         \A i \in 1..Len(hand[q].todo) :
           Emitted(e.transfer, hand[q].todo[i])' => Emitted(e.transfer, hand[q].todo[i])
  PROVE  Publishing(q)'
<1> DEFINE t == e.transfer
           me == hand[q]
<1>1. t \in Transfers
  BY DEF Event
<1>2. /\ me.todo # <<>> /\ Len(me.todo) \in {1, 2}
      /\ \A i \in 1..Len(me.todo) :
           /\ Leads(t, e.type, me.todo[i])
           /\ Emitted(t, me.todo[i]) => i = 1 /\ me.link = "retrying"
           /\ me.todo[i] = "TransferFailed" => me.outcome \notin {"OK", "NONE"}
      /\ Len(me.todo) = 2 => me.todo[1] # me.todo[2]
      /\ me.link = "retrying" =>
           [type |-> me.todo[1], transfer |-> t, copy |-> 1,
            error |-> IF me.todo[1] = "TransferFailed" THEN me.outcome ELSE "NONE"] \in emitted
      /\ e.type \in {"RiskApproved", "ClearingCompleted"} /\ me.outcome # "NONE" =>
           \/ Decision(t, e.type) # "FAILED"
           \/ me.todo[1] = "TransferFailed"
           \/ Emitted(t, "TransferFailed")
  BY DEF Publishing
<1>3. \A i \in 1..Len(me.todo) : Leads(t, e.type, me.todo[i])'
  BY <1>1, <1>2, LeadsStays
<1>4. Emitted(t, "TransferFailed") => Emitted(t, "TransferFailed")'
  BY EmittedStays
<1>5. emitted \subseteq emitted'
  BY DEF Onwards
<1>6. e.type \in {"RiskApproved", "ClearingCompleted"} => e.type \in WorkTypes
  BY WorkTable
<1>7. QED
  BY <1>2, <1>3, <1>4, <1>5, <1>6 DEF Publishing

\* So does all else a participant takes for granted.
LEMMA WorkingStays ==
  ASSUME Onwards, NEW q \in Workers,
         Working(q), hand'[q] = hand[q],
         hand[q].pc \in {"emit", "call", "record"} =>
           /\ Current(q) \in Event
           /\ Current(q)' = Current(q)
           /\ Current(q).type \in WorkTypes =>
                Decision(Current(q).transfer, Current(q).type)' =
                  Decision(Current(q).transfer, Current(q).type)
           /\ hand[q].pc = "emit" =>
                \A i \in 1..Len(hand[q].todo) :
                  Emitted(Current(q).transfer, hand[q].todo[i])' =>
                    Emitted(Current(q).transfer, hand[q].todo[i])
  PROVE  Working(q)'
<1>1. CASE hand[q].pc \notin {"emit", "call", "record"}
  BY <1>1 DEF Working
<1>2. CASE hand[q].pc \in {"emit", "call", "record"}
  <2> DEFINE me == hand[q]
  <2>1. PICK e \in Event : e = Current(q)
    BY <1>2
  <2>2. PICK t \in Transfers : t = e.transfer
    BY DEF Event
  <2>3. /\ me.pc \in {"call", "record"} => e.type \in WorkTypes
        /\ me.pc = "call" => me.outcome = "NONE"
        /\ me.pc = "record" => me.outcome # "NONE"
        /\ e.type \in WorkTypes =>
             /\ Plausible(e.type, me.outcome)
             /\ me.pc # "emit" \/ me.outcome = "NONE" => Decision(t, e.type) = Absent
        /\ me.pc = "emit" => Publishing(q)
        /\ me.pc # "emit" => me.link # "retrying"
        /\ me.pc = "record" /\ me.outcome = "OK" =>
             StepOf(e.type) \in IF KindOf(e.type) = "ACTION" THEN Done[t] ELSE Undone[t]
    BY <1>2, <2>1, <2>2 DEF Working
  <2>4. /\ e.type \in WorkTypes => Decision(t, e.type)' = Decision(t, e.type)
        /\ Current(q)' = e
    BY <1>2, <2>1, <2>2
  <2>5. me.pc = "emit" => Publishing(q)'
    BY <1>2, <2>1, <2>2, <2>3, <2>4, PublishingStays
  <2>6. Done[t] \subseteq Done'[t] /\ Undone[t] \subseteq Undone'[t]
    BY DEF Onwards
  <2>7. /\ me.pc = "record" /\ me.outcome = "OK" =>
             StepOf(e.type) \in IF KindOf(e.type) = "ACTION" THEN Done'[t] ELSE Undone'[t]
    BY <2>3, <2>6
  <2> HIDE DEF me
  <2>8. me = hand[q] /\ hand'[q] = me
    BY DEF me
  <2>9. QED
    BY <2>2, <2>3, <2>4, <2>5, <2>7, <2>8 DEF Working
<1>3. QED
  BY <1>1, <1>2

-----------------------------------------------------------------------------
(* What every step starts from.                                            *)

\* The message in the hand of a participant.
LEMMA InHand ==
  ASSUME IInv, NEW p \in Consumers, queue[p] # <<>>
  PROVE  /\ Current(p) \in emitted /\ Current(p) \in Event
         /\ Current(p).type \in Topology(p) /\ Current(p).type \in EventTypes
         /\ Current(p).transfer \in Transfers
         /\ execution[Current(p).transfer] # Absent
         /\ Emitted(Current(p).transfer, Current(p).type)
         /\ queue[p] \in Seq(emitted) /\ Len(queue[p]) \in Nat /\ Len(queue[p]) > 0
         /\ Current(p) = queue[p][1]
         /\ p \in Workers =>
              (<<p, Current(p)>> \in claimed <=>
                 Taken(Current(p).transfer, Current(p).type))
<1>1. queue[p] \in Seq(emitted) /\ emitted \subseteq Event
  BY DEF IInv, SagaTypes
<1>2. /\ Len(queue[p]) \in Nat /\ Len(queue[p]) > 0 /\ Current(p) = queue[p][1]
      /\ queue[p][1] \in emitted
  BY <1>1 DEF Current
<1>3. Current(p) \in emitted /\ Current(p) \in Event
  BY <1>1, <1>2
<1>4. Current(p).type \in EventTypes /\ Current(p).transfer \in Transfers
  BY <1>3 DEF Event
<1>5. /\ execution[Current(p).transfer] # Absent
      /\ \A f \in emitted : f.transfer = Current(p).transfer /\ f.type = Current(p).type =>
           f = Current(p)
  BY <1>3 DEF IInv, Lineage, Unique
<1>6. Current(p).type \in Topology(p)
  <2>1. Holding(p) /\ 1 \in 1..Len(queue[p])
    BY <1>2 DEF IInv
  <2>2. QED
    BY <1>2, <2>1 DEF Holding
<1>7. Emitted(Current(p).transfer, Current(p).type)
  BY <1>3 DEF Emitted
<1>8. ASSUME p \in Workers
      PROVE  <<p, Current(p)>> \in claimed <=>
                 Taken(Current(p).transfer, Current(p).type)
  <2>1. <<p, Current(p)>> \in claimed => Taken(Current(p).transfer, Current(p).type)
    BY <1>3, <1>8 DEF Taken
  <2>2. ASSUME Taken(Current(p).transfer, Current(p).type)
        PROVE  <<p, Current(p)>> \in claimed
    <3>1. PICK q \in Workers : <<q, Current(p)>> \in claimed
      BY <1>5, <2>2 DEF Taken
    <3>2. Current(p).type \in Topology(q)
      <4>1. q \in Consumers
        BY ChoreographyAssumption
      <4>2. Holding(q)
        BY <4>1 DEF IInv
      <4>3. QED
        BY <1>3, <3>1, <4>2 DEF Holding
    <3>3. QED
      BY <1>6, <1>8, <3>1, <3>2, OneWorkerEach
  <2>3. QED
    BY <2>1, <2>2
<1>9. QED
  BY <1>1, <1>2, <1>3, <1>4, <1>5, <1>6, <1>7, <1>8

\* A participant that is not idle holds a message, which it has claimed.
LEMMA AtWork ==
  ASSUME IInv, NEW p \in Consumers
  PROVE  /\ ~At(p, "idle") => queue[p] # <<>> /\ <<p, Current(p)>> \in claimed
         /\ hand \in [Consumers -> Hand] /\ hand[p] \in Hand
         /\ Holding(p)
         /\ p \in Workers => Working(p)
         /\ p \in Workers \cup Observers
<1>1. Holding(p)
  BY DEF IInv
<1>2. hand \in [Consumers -> Hand] /\ hand[p] \in Hand
  BY DEF IInv, SagaTypes
<1>3. p \in Workers => Working(p)
  BY DEF IInv, Lineage
<1>4. QED
  BY <1>1, <1>2, <1>3, ChoreographyAssumption DEF Holding

-----------------------------------------------------------------------------
(* Steps during which nobody publishes.                                    *)

\* Then events keep their lineage.
LEMMA LineageStays ==
  ASSUME IInv, Onwards, emitted' = emitted
  PROVE  Unique' /\ Caused'
<1>1. /\ emitted \subseteq Event
      /\ \A e \in emitted : e.transfer \in Transfers
  BY DEF IInv, SagaTypes, Event
<1>2. Unique /\ Caused
  BY DEF IInv, Lineage
<1>3. \A t \in Transfers : execution[t] # Absent => execution'[t] # Absent
  BY DEF Onwards
<1>4. Unique'
  BY <1>1, <1>2, <1>3 DEF Unique
<1>5. ASSUME NEW e \in emitted, e.type # "TransferRequested"
      PROVE  \E type \in EventTypes : Leads(e.transfer, type, e.type)'
  <2>1. PICK type \in EventTypes : Leads(e.transfer, type, e.type)
    BY <1>2, <1>5 DEF Caused
  <2>2. Leads(e.transfer, type, e.type)'
    BY <1>1, <2>1, LeadsStays
  <2>3. QED
    BY <2>2
<1>6. Caused'
  BY <1>5 DEF Caused
<1>7. QED
  BY <1>4, <1>6

\* Then the trail is still written by those who took their event.
LEMMA WrittenStays ==
  ASSUME IInv, Onwards, trail' = trail
  PROVE  Written'
<1>1. Written
  BY DEF IInv, Lineage
<1>2. \A t \in Transfers, type \in WorkTypes : Decision(t, type)' = Decision(t, type)
  BY DEF Decision
<1>3. \A t \in Transfers, type \in WorkTypes : Taken(t, type) => Taken(t, type)'
  BY EmittedStays
<1>4. \A t \in Transfers : Row(t, "COMPENSATION", "CREDIT")' = Row(t, "COMPENSATION", "CREDIT")
  BY DEF Row
<1>5. QED
  BY <1>1, <1>2, <1>3, <1>4 DEF Written

\* Then the row keeps its meaning, if the projector did not project.
LEMMA StoryStays ==
  ASSUME IInv, Onwards, emitted' = emitted,
         losses' \in Nat, losses' = 0 => losses = 0,
         \A t \in Transfers : \/ execution'[t] = execution[t]
                              \/ execution[t] = Absent /\ execution'[t] = NewExecution
  PROVE  /\ Explained' /\ Named' /\ Projection'
         /\ \A t, type : Emitted(t, type)' <=> Emitted(t, type)
         /\ \A t \in Transfers : RiskFailed(t) => RiskFailed(t)'
<1>1. /\ Explained /\ Named /\ Projection /\ Unique
      /\ emitted \subseteq Event /\ losses \in Nat
  BY ChoreographyAssumption DEF IInv, Verdicts, Lineage, SagaTypes
<1>2. \A t, type : Emitted(t, type)' <=> Emitted(t, type)
  BY DEF Emitted
<1>3. Explained'
  BY <1>1, <1>2 DEF Explained
<1>4. \A t \in Transfers, s \in Steps :
        Row(t, "ACTION", s) = "FAILED" => Row(t, "ACTION", s)' = "FAILED"
  BY AbsentAssumption DEF Onwards, StepKinds, ActionStatuses
<1>5. /\ \A t \in Transfers : RiskFailed(t) => RiskFailed(t)'
      /\ \A t \in Transfers : Row(t, "ACTION", "DEBIT") = "FAILED" =>
                                Row(t, "ACTION", "DEBIT")' = "FAILED"
      /\ \A t \in Transfers : Row(t, "ACTION", "RISK") = "FAILED" =>
                                Row(t, "ACTION", "RISK")' = "FAILED"
  BY <1>4 DEF RiskFailed, Steps
<1>6. Named'
  BY <1>1, <1>5 DEF Named, Event
<1>7. Projection'
  <2>1. ASSUME NEW t \in Transfers, execution'[t] # Absent
        PROVE  LET row == execution'[t] IN
               /\ row.error # "NONE" =>
                    \E e \in emitted : /\ e.transfer = t /\ e.type = "TransferFailed"
                                       /\ e.error = row.error
               /\ ~row.finished => row.status # "COMPLETED" /\ row.error # "INSUFFICIENT_FUNDS"
               /\ row.finished =>
                    \/ row.status = "COMPLETED" /\ Emitted(t, "TransferCompleted")
                    \/ /\ row.status = "REJECTED_FUNDS" /\ row.compensation = "NOT_REQUIRED"
                       /\ row.error = "INSUFFICIENT_FUNDS"
                    \/ /\ row.status = OutcomeFor(row.error) /\ row.compensation = "COMPENSATED"
                       /\ row.status # "REJECTED_FUNDS" /\ row.status # "COMPLETED"
                       /\ Emitted(t, "TransferCompensated")
                       /\ row.error = "NONE" => RiskFailed(t)' \/ losses' > 0
    <3>1. CASE execution'[t] = execution[t]
      <4>1. execution[t] # Absent
        BY <2>1, <3>1
      <4>2. RiskFailed(t) \/ losses > 0 => RiskFailed(t)' \/ losses' > 0
        BY <1>1, <1>5
      <4>3. QED
        BY <1>1, <3>1, <4>1, <4>2 DEF Projection
    <3>2. CASE execution'[t] = NewExecution
      BY <3>2 DEF NewExecution
    <3>3. QED
      BY <3>1, <3>2
  <2>2. QED
    BY <1>2, <2>1 DEF Projection
<1>8. QED
  BY <1>2, <1>3, <1>5, <1>6, <1>7

\* And a failure under way stays under way, if the projector stays out of it.
LEMMA VerdictsStay ==
  ASSUME IInv, Onwards, emitted' = emitted,
         losses' \in Nat, losses' = 0 => losses = 0,
         \A t \in Transfers : \/ execution'[t] = execution[t]
                              \/ execution[t] = Absent /\ execution'[t] = NewExecution,
         "projector" \in Consumers /\ losses' = 0 =>
           /\ queue'["projector"] = queue["projector"]
           /\ At("projector", "project")' = At("projector", "project")
           /\ \A e \in emitted :
                <<"projector", e>> \in claimed' => <<"projector", e>> \in claimed
  PROVE  Verdicts'
<1>1. InTime /\ Unique
  BY DEF IInv, Verdicts, Lineage
<1>2. /\ Explained' /\ Named' /\ Projection'
      /\ \A t, type : Emitted(t, type)' <=> Emitted(t, type)
      /\ \A t \in Transfers : RiskFailed(t) => RiskFailed(t)'
  BY StoryStays
<1>3. InTime'
  <2>1. SUFFICES ASSUME "projector" \in Consumers, losses' = 0, NEW t \in Transfers,
                        execution'[t] # Absent, execution'[t].error = "NONE", ~RiskFailed(t)'
                 PROVE  LET messages == queue'["projector"] IN
                        /\ Emitted(t, "TransferFailed")' =>
                             \E i \in 1..Len(messages) : FailureAhead(t, i)'
                        /\ \A j \in 1..Len(messages) :
                             messages[j].transfer = t
                               /\ messages[j].type = "TransferCompensated" =>
                               \E i \in 1..Len(messages) : i < j /\ FailureAhead(t, i)'
    BY DEF InTime
  <2>2. queue["projector"] \in Seq(emitted)
    BY <2>1 DEF IInv, SagaTypes
  <2>3. \A i \in 1..Len(queue["projector"]) : FailureAhead(t, i) => FailureAhead(t, i)'
    <3>1. \A i \in 1..Len(queue["projector"]) : queue["projector"][i] \in emitted
      BY <2>2
    <3>2. QED
      BY <2>1, <3>1 DEF FailureAhead
  <2>4. CASE execution[t] # Absent
    <3>1. execution[t].error = "NONE" /\ ~RiskFailed(t) /\ losses = 0
      BY <1>2, <2>1, <2>4
    <3>2. QED
      BY <1>1, <1>2, <2>1, <2>3, <2>4, <3>1 DEF InTime
  <2>5. CASE execution[t] = Absent
    <3>1. \A e \in emitted : e.transfer # t
      BY <1>1, <2>5 DEF Unique
    <3>2. \A j \in 1..Len(queue["projector"]) : queue["projector"][j].transfer # t
      BY <2>2, <3>1
    <3>3. QED
      BY <1>2, <2>1, <3>1, <3>2 DEF Emitted
  <2>6. QED
    BY <2>4, <2>5
<1>4. QED
  BY <1>2, <1>3 DEF Verdicts

\* The projector takes a message, or is done with its first: what it has yet to
\* project stays in order.
LEMMA AheadStays ==
  ASSUME IInv, Onwards, emitted' = emitted, execution' = execution, trail' = trail,
         losses' \in Nat, losses' = 0 => losses = 0, "projector" \in Consumers,
         NEW d \in {0, 1},
         Len(queue'["projector"]) + d = Len(queue["projector"]),
         \A i \in 1..Len(queue'["projector"]) :
           queue'["projector"][i] = queue["projector"][i + d],
         \A t \in Transfers : \A i \in 1..Len(queue["projector"]) : FailureAhead(t, i) =>
           \E k \in 1..Len(queue'["projector"]) : k + d <= i /\ FailureAhead(t, k)'
  PROVE  Verdicts'
<1>1. InTime /\ queue["projector"] \in Seq(emitted)
  BY DEF IInv, Verdicts, SagaTypes
<1>2. /\ Explained' /\ Named' /\ Projection'
      /\ \A t, type : Emitted(t, type)' <=> Emitted(t, type)
      /\ \A t \in Transfers : RiskFailed(t) => RiskFailed(t)'
  BY StoryStays
<1>3. InTime'
  <2>1. SUFFICES ASSUME losses' = 0, NEW t \in Transfers,
                        execution'[t] # Absent, execution'[t].error = "NONE", ~RiskFailed(t)'
                 PROVE  LET messages == queue'["projector"] IN
                        /\ Emitted(t, "TransferFailed")' =>
                             \E i \in 1..Len(messages) : FailureAhead(t, i)'
                        /\ \A j \in 1..Len(messages) :
                             messages[j].transfer = t
                               /\ messages[j].type = "TransferCompensated" =>
                               \E i \in 1..Len(messages) : i < j /\ FailureAhead(t, i)'
    BY DEF InTime
  <2>2. LET messages == queue["projector"] IN
        /\ Emitted(t, "TransferFailed") => \E i \in 1..Len(messages) : FailureAhead(t, i)
        /\ \A j \in 1..Len(messages) :
             messages[j].transfer = t /\ messages[j].type = "TransferCompensated" =>
               \E i \in 1..Len(messages) : i < j /\ FailureAhead(t, i)
    BY <1>1, <1>2, <2>1 DEF InTime
  <2>3. Emitted(t, "TransferFailed")' =>
          \E i \in 1..Len(queue'["projector"]) : FailureAhead(t, i)'
    BY <1>2, <2>2
  <2>4. ASSUME NEW j \in 1..Len(queue'["projector"]),
               queue'["projector"][j].transfer = t,
               queue'["projector"][j].type = "TransferCompensated"
        PROVE  \E i \in 1..Len(queue'["projector"]) : i < j /\ FailureAhead(t, i)'
    <3>1. /\ j + d \in 1..Len(queue["projector"])
          /\ queue["projector"][j + d] = queue'["projector"][j]
      BY <1>1
    <3>2. PICK i \in 1..Len(queue["projector"]) : i < j + d /\ FailureAhead(t, i)
      BY <2>2, <2>4, <3>1
    <3>3. PICK k \in 1..Len(queue'["projector"]) : k + d <= i /\ FailureAhead(t, k)'
      BY <3>2
    <3>4. k < j
      BY <3>2, <3>3
    <3>5. QED
      BY <3>3, <3>4
  <2>5. QED
    BY <2>3, <2>4
<1>4. QED
  BY <1>2, <1>3 DEF Verdicts

\* What a participant that does nothing holds is not disturbed.
LEMMA HoldingStays ==
  ASSUME IInv, Onwards, NEW q \in Consumers, hand'[q] = hand[q],
         /\ queue[q] # <<>> => queue'[q] # <<>> /\ Head(queue'[q]) = Head(queue[q])
         /\ \A i \in 1..Len(queue'[q]) : queue'[q][i].type \in Topology(q)
         /\ \A e \in emitted' : <<q, e>> \in claimed' =>
              <<q, e>> \in claimed \/ e.type \in Topology(q)
  PROVE  Holding(q)'
<1>1. /\ ~At(q, "idle") => queue[q] # <<>> /\ <<q, Current(q)>> \in claimed
      /\ At(q, "idle") => hand[q] = Idle
      /\ q \in Workers => hand[q].pc \in {"idle", "emit", "call", "record", "ack"}
      /\ q = "projector" => hand[q].pc \in {"idle", "project", "tell", "ack"}
      /\ q = "audit" => hand[q].pc \in {"idle", "store", "ack"}
      /\ At(q, "tell") => execution[Current(q).transfer] # Absent
      /\ \A e \in emitted : <<q, e>> \in claimed => e.type \in Topology(q)
  BY DEF IInv, Holding
<1>2. \A pc : At(q, pc)' <=> At(q, pc)
  BY DEF At
<1>3. queue[q] # <<>> => queue'[q] # <<>> /\ Current(q)' = Current(q)
  BY DEF Current
<1>4. At(q, "tell") => execution'[Current(q).transfer] # Absent
  <2>1. ASSUME At(q, "tell")
        PROVE  execution'[Current(q).transfer] # Absent
    <3>1. ~At(q, "idle")
      BY <2>1 DEF At
    <3>2. Current(q).transfer \in Transfers
      BY <1>1, <3>1, InHand
    <3>3. QED
      BY <1>1, <2>1, <3>2 DEF Onwards
  <2>2. QED
    BY <2>1
<1>5. claimed \subseteq Consumers \X emitted /\ claimed \subseteq claimed'
  BY DEF IInv, SagaTypes, Onwards
<1>6. \A e \in emitted' : <<q, e>> \in claimed' => e.type \in Topology(q)
  BY <1>1, <1>5
<1>7. At(q, "tell") => ~At(q, "idle")
  BY DEF At
<1>8. QED
  BY <1>1, <1>2, <1>3, <1>4, <1>5, <1>6, <1>7 DEF Holding

\* A step of one participant that publishes nothing, writes no row of the trail
\* and calls no service.
LEMMA HandStep ==
  ASSUME IInv, NEW p \in Consumers,
         UNCHANGED <<request, services, trail, emitted, start>>,
         queue' \in [Consumers -> Seq(emitted)],
         \A q \in Consumers \ {p} : queue'[q] = queue[q] /\ hand'[q] = hand[q],
         hand' \in [Consumers -> Hand],
         claimed \subseteq claimed',
         claimed' \subseteq claimed \cup {<<p, e>> : e \in emitted},
         execution' \in [Transfers -> Execution \cup {Absent}],
         \A t \in Transfers : execution[t] # Absent <=> execution'[t] # Absent,
         announced' \in [Transfers -> PublicStatuses],
         log' \subseteq emitted, late' \subseteq Message,
         \A m \in late' : m \notin late => Carried(m),
         timeouts' \in 0..MaxTimeouts, repeats' \in 0..MaxRepeats, losses' \in 0..MaxLosses,
         Holding(p)', p \in Workers => Working(p)', Verdicts'
  PROVE  IInv'
<1>1. ServiceTypes' /\ ServicesAgree' /\ Done' = Done /\ Undone' = Undone
  BY ServicesQuiet DEF IInv
<1>2. SagaTypes'
  <2>1. SagaTypes
    BY DEF IInv
  <2>2. claimed' \subseteq Consumers \X emitted
    BY <2>1 DEF SagaTypes
  <2>3. QED
    BY <2>1, <2>2 DEF SagaTypes, StoreTypeOK
<1>3. Onwards
  BY <1>1 DEF Onwards, Row
<1>4. \A q \in Consumers : Holding(q)'
  <2>1. ASSUME NEW q \in Consumers, q # p
        PROVE  Holding(q)'
    <3>1. /\ hand'[q] = hand[q] /\ queue'[q] = queue[q]
          /\ \A i \in 1..Len(queue[q]) : queue[q][i].type \in Topology(q)
      BY <2>1 DEF IInv, Holding
    <3>2. \A e : <<q, e>> \in claimed' => <<q, e>> \in claimed
      BY <2>1
    <3>3. QED
      BY <1>3, <3>1, <3>2, HoldingStays
  <2>2. QED
    BY <2>1
<1>5. \A q \in Workers : Working(q)'
  <2>1. ASSUME NEW q \in Workers, q # p
        PROVE  Working(q)'
    <3>1. q \in Consumers
      BY ChoreographyAssumption
    <3>2. hand'[q] = hand[q] /\ queue'[q] = queue[q] /\ Working(q)
      BY <2>1, <3>1, AtWork
    <3>3. hand[q].pc \in {"emit", "call", "record"} => Current(q) \in Event
      BY <3>1, AtWork, InHand DEF At
    <3>4. /\ Current(q)' = Current(q)
          /\ Decision(Current(q).transfer, Current(q).type)' =
               Decision(Current(q).transfer, Current(q).type)
      BY <3>2 DEF Current, Decision
    <3>5. \A i \in 1..Len(hand[q].todo) :
            Emitted(Current(q).transfer, hand[q].todo[i])' =>
              Emitted(Current(q).transfer, hand[q].todo[i])
      BY <3>2, <3>4 DEF Emitted
    <3>6. QED
      BY <1>3, <3>2, <3>3, <3>4, <3>5, WorkingStays
  <2>2. QED
    BY <2>1
<1>6. Unique' /\ Caused'
  BY <1>3, LineageStays
<1>7. Written'
  BY <1>3, WrittenStays
<1>8. Launched'
  <2>1. Launched
    BY DEF IInv, Lineage
  <2>2. \A c \in Starts : TransferOf[c] \in Transfers
    BY ChoreographyAssumption
  <2>3. QED
    BY <1>3, <2>1, <2>2 DEF Launched, Launching, Onwards, Emitted
<1>9. Services'
  <2>1. Services
    BY DEF IInv
  <2>2. /\ Audited' /\ Ordered'
        /\ \A t, s : Requested(t, s) => Requested(t, s)'
    BY <1>1, <2>1 DEF Services, Audited, Ordered, Requested, Emitted
  <2>3. Asked'
    BY <1>1, <2>1, <2>2 DEF Services, Asked
  <2>4. \A m \in late' : Carried(m)
    BY <2>1 DEF Services
  <2>5. \A m \in late' : Carried(m)'
    BY <1>1, <2>2, <2>4 DEF Carried
  <2>6. QED
    BY <2>2, <2>3, <2>5 DEF Services
<1>10. QED
  BY <1>1, <1>2, <1>4, <1>5, <1>6, <1>7, <1>8, <1>9 DEF IInv, Lineage

\* While no service works and no row is written over, everything goes onwards.
LEMMA QuietOnwards ==
  ASSUME IInv, UNCHANGED <<request, services, trail>>,
         emitted \subseteq emitted', claimed \subseteq claimed',
         \A t \in Transfers : execution[t] # Absent => execution'[t] # Absent
  PROVE  Onwards /\ Done' = Done /\ Undone' = Undone
<1>1. Done' = Done /\ Undone' = Undone
  BY ServicesQuiet DEF IInv
<1>2. QED
  BY <1>1 DEF Onwards, Row

\* A step of one participant the execution rows have nothing to do with, and the
\* projector's part of the verdict neither.
LEMMA SideStep ==
  ASSUME IInv, NEW p \in Consumers,
         UNCHANGED <<request, services, execution, trail, emitted, start>>,
         queue' \in [Consumers -> Seq(emitted)],
         hand' = [hand EXCEPT ![p] = hand'[p]], hand'[p] \in Hand,
         \A q \in Consumers \ {p} : queue'[q] = queue[q],
         claimed \subseteq claimed',
         claimed' \subseteq claimed \cup {<<p, e>> : e \in emitted},
         announced' \in [Transfers -> PublicStatuses],
         log' \subseteq emitted, late' \subseteq Message,
         \A m \in late' : m \notin late => Carried(m),
         timeouts' \in 0..MaxTimeouts, repeats' \in 0..MaxRepeats, losses' \in 0..MaxLosses,
         losses' = 0 => losses = 0,
         p = "projector" /\ losses' = 0 =>
           queue'[p] = queue[p] /\ claimed' = claimed /\ (At(p, "project")' <=> At(p, "project")),
         Holding(p)', p \in Workers => Working(p)'
  PROVE  IInv'
<1>1. hand \in [Consumers -> Hand]
  BY AtWork
<1>2. /\ hand' \in [Consumers -> Hand]
      /\ \A q \in Consumers \ {p} : hand'[q] = hand[q]
  BY <1>1
<1>3. Onwards
  BY QuietOnwards
<1>4. execution \in [Transfers -> Execution \cup {Absent}]
  BY DEF IInv, SagaTypes, StoreTypeOK
<1>5. ASSUME "projector" \in Consumers, losses' = 0
      PROVE  /\ queue'["projector"] = queue["projector"]
             /\ At("projector", "project")' = At("projector", "project")
             /\ \A e \in emitted :
                  <<"projector", e>> \in claimed' => <<"projector", e>> \in claimed
  <2>1. CASE p = "projector"
    BY <1>5, <2>1 DEF At
  <2>2. CASE p # "projector"
    BY <1>2, <1>5, <2>2 DEF At
  <2>3. QED
    BY <2>1, <2>2
<1>6. losses' \in Nat
  BY ChoreographyAssumption
<1>7. Verdicts'
  BY <1>3, <1>5, <1>6, VerdictsStay
<1>8. QED
  BY <1>2, <1>4, <1>7, HandStep

\* The types of what most steps leave alone.
LEMMA Untouched ==
  ASSUME IInv
  PROVE  /\ execution \in [Transfers -> Execution \cup {Absent}]
         /\ announced \in [Transfers -> PublicStatuses]
         /\ queue \in [Consumers -> Seq(emitted)]
         /\ hand \in [Consumers -> Hand]
         /\ log \subseteq emitted /\ late \subseteq Message
         /\ timeouts \in 0..MaxTimeouts /\ repeats \in 0..MaxRepeats /\ losses \in 0..MaxLosses
         /\ losses \in Nat
  BY ChoreographyAssumption DEF IInv, SagaTypes, StoreTypeOK

\* A message seen before goes straight to its acknowledgement.
LEMMA SkipDuplicateKeeps ==
  ASSUME IInv, NEW p \in Consumers, SkipDuplicate(p)
  PROVE  IInv'
<1>0. hand[p] \in Hand /\ hand \in [Consumers -> Hand] /\ Holding(p)
  BY AtWork
<1>1. /\ hand[p].pc = "idle" /\ queue[p] # <<>> /\ <<p, Current(p)>> \in claimed
      /\ hand' = [hand EXCEPT ![p].pc = "ack"]
      /\ UNCHANGED <<request, services, execution, trail, announced, start, queue, emitted,
                     claimed, log, late, timeouts, repeats, losses>>
  BY DEF SkipDuplicate, Waiting, At, saga, bus, bounds
<1>2. hand[p] = Idle
  BY <1>0, <1>1 DEF Holding, At
<1>3. /\ hand' = [hand EXCEPT ![p] = hand'[p]] /\ hand'[p] \in Hand
      /\ hand'[p] = [Idle EXCEPT !.pc = "ack"]
  BY <1>0, <1>1, <1>2 DEF Hand
<1>4. hand'[p].pc = "ack" /\ hand'[p].link = "sound"
  BY <1>3 DEF Idle
<1>5. Holding(p)'
  BY <1>0, <1>1, <1>4 DEF Holding, At, Current
<1>6. Working(p)'
  BY <1>4 DEF Working
<1>7. At(p, "project")' <=> At(p, "project")
  BY <1>1, <1>4 DEF At
<1>8. QED
  BY <1>1, <1>3, <1>5, <1>6, <1>7, Untouched, SideStep

-----------------------------------------------------------------------------
(* A message is taken.                                                     *)

\* What makes a hand.
LEMMA HandFields ==
  ASSUME NEW pc \in {"idle", "emit", "call", "record", "project", "tell", "store", "ack"},
         NEW attempt \in 1..MaxAttempts, NEW outcome \in ErrorCodes \cup {"OK", "NONE"},
         NEW todo \in Seq(EventTypes), NEW link \in {"sound", "retrying", "replaced"}
  PROVE  [pc |-> pc, attempt |-> attempt, outcome |-> outcome,
          todo |-> todo, link |-> link] \in Hand
  BY DEF Hand

\* The first attempt is one there may be, and a hand may be empty.
LEMMA FirstAttempt == 1 \in 1..MaxAttempts /\ Idle \in Hand
<1>1. 1 \in 1..MaxAttempts
  BY ChoreographyAssumption
<1>2. <<>> \in Seq(EventTypes)
  OBVIOUS
<1>3. QED
  BY <1>1, <1>2 DEF Idle, Hand

\* A worker that takes a message has published nothing of what follows from it,
\* and recorded nothing.
LEMMA TakenAfresh ==
  ASSUME IInv, NEW p \in Workers, Claim(p)
  PROVE  /\ hand'[p] \in Hand /\ hand'[p].link = "sound" /\ hand'[p].outcome = "NONE"
         /\ hand'[p].pc \in {"emit", "call", "ack"}
         /\ Working(p)'
<1>0. p \in Consumers
  BY ChoreographyAssumption
<1>1. /\ hand[p].pc = "idle" /\ queue[p] # <<>> /\ <<p, Current(p)>> \notin claimed
      /\ claimed' = claimed \cup {<<p, Current(p)>>}
      /\ hand' = [hand EXCEPT ![p].pc = Opening(p, Current(p).type),
                              ![p].todo = Announces(Current(p).type)]
      /\ UNCHANGED <<request, services, execution, trail, queue, emitted>>
  BY DEF Claim, Waiting, At, saga, bus
<1>2a. PICK e \in emitted : e = Current(p)
  BY <1>0, <1>1, InHand
<1>2b. PICK t \in Transfers, type \in EventTypes : t = e.transfer /\ type = e.type
  BY <1>0, <1>1, <1>2a, InHand
<1>2. /\ e \in Event /\ Emitted(t, type) /\ ~Taken(t, type) /\ Taken(t, type)'
  <2>1. e \in Event /\ Emitted(t, type) /\ ~Taken(t, type)
    BY <1>0, <1>1, <1>2a, <1>2b, InHand
  <2>2. <<p, e>> \in claimed'
    BY <1>1, <1>2a
  <2>3. Taken(t, type)'
    BY <1>1, <1>2b, <2>2 DEF Taken
  <2>4. QED
    BY <2>1, <2>3
<1>3. hand[p] = Idle /\ hand \in [Consumers -> Hand]
  BY <1>0, <1>1, AtWork DEF Holding, At
<1>4. /\ hand'[p] = [Idle EXCEPT !.pc = Opening(p, type), !.todo = Announces(type)]
      /\ Opening(p, type) = IF Announces(type) # <<>> THEN "emit"
                            ELSE IF type \in WorkTypes THEN "call" ELSE "ack"
  <2>1. Opening(p, type) = IF Announces(type) # <<>> THEN "emit"
                            ELSE IF type \in WorkTypes THEN "call" ELSE "ack"
    BY WorkTable DEF Opening, Onward, Workers
  <2>2. QED
    BY <1>0, <1>1, <1>2a, <1>2b, <1>3, <2>1
<1>5. /\ hand'[p].pc = Opening(p, type) /\ hand'[p].todo = Announces(type)
      /\ hand'[p].attempt = 1 /\ hand'[p].outcome = "NONE" /\ hand'[p].link = "sound"
      /\ hand'[p] = [pc |-> Opening(p, type), attempt |-> 1, outcome |-> "NONE",
                     todo |-> Announces(type), link |-> "sound"]
  BY <1>4 DEF Idle
<1>6. Script(Announces(type), Opens(type))
  BY Scripts
<1>7. hand'[p] \in Hand
  <2>1. Announces(type) \in Seq(EventTypes)
    BY <1>6 DEF Script
  <2>2. Opening(p, type) \in {"emit", "call", "ack"}
    BY <1>4
  <2>3. QED
    BY <1>5, <2>1, <2>2, FirstAttempt, HandFields
<1>8. Current(p)' = e
  BY <1>1, <1>2a DEF Current
<1>9. type \in WorkTypes => Decision(t, type) = Absent /\ Decision(t, type)' = Absent
  <2>1. Written /\ Decision(t, type)' = Decision(t, type)
    BY <1>1 DEF IInv, Lineage, Decision
  <2>2. QED
    BY <1>2, <2>1 DEF Written
<1>10. Plausible(type, "NONE")
  BY DEF Plausible, OutcomeFor
<1>11. ASSUME hand'[p].pc = "emit"
       PROVE  Publishing(p)'
  <2>1. Announces(type) # <<>>
    BY <1>4, <1>5, <1>11
  <2>2. \A i \in 1..Len(Announces(type)) :
          /\ Leads(t, type, Announces(type)[i])'
          /\ ~Emitted(t, Announces(type)[i])'
          /\ Announces(type)[i] # "TransferFailed"
    <3>1. ASSUME NEW i \in 1..Len(Announces(type))
          PROVE  /\ Leads(t, type, Announces(type)[i])'
                 /\ ~Emitted(t, Announces(type)[i])'
                 /\ Announces(type)[i] # "TransferFailed"
      <4>1. PICK next \in Opens(type) : next = Announces(type)[i]
        BY <1>6 DEF Script
      <4>2. ~Emitted(t, next)
        BY <1>2, NotAnnouncedYet DEF IInv, Lineage, SagaTypes
      <4>3. ~Emitted(t, next)' /\ Leads(t, type, next)'
        BY <1>1, <1>2, <4>1, <4>2 DEF Emitted, Leads
      <4>4. next # "TransferFailed"
        BY DEF Opens
      <4>5. QED
        BY <4>1, <4>3, <4>4
    <3>2. QED
      BY <3>1
  <2>3. Len(Announces(type)) \in {1, 2}
        /\ (Len(Announces(type)) = 2 => Announces(type)[1] # Announces(type)[2])
    BY <1>6, <2>1 DEF Script
  <2>4. QED
    BY <1>2b, <1>5, <1>8, <2>1, <2>2, <2>3 DEF Publishing
<1>12. hand'[p].pc \in {"emit", "call", "ack"}
  BY <1>4, <1>5
<1>13. hand'[p].pc = "call" => type \in WorkTypes
  BY <1>4, <1>5
<1>14. Working(p)'
  BY <1>2b, <1>5, <1>8, <1>9, <1>10, <1>11, <1>12, <1>13 DEF Working
<1>15. QED
  BY <1>5, <1>7, <1>12, <1>14

\* An observer that takes a message is about to project or to store it.
LEMMA TakenByObserver ==
  ASSUME IInv, NEW p \in Consumers \ Workers, Claim(p)
  PROVE  /\ hand'[p] \in Hand /\ hand'[p].link = "sound"
         /\ \/ p = "projector" /\ hand'[p].pc = "project"
            \/ p = "audit" /\ hand'[p].pc = "store"
<1>1. /\ hand[p].pc = "idle"
      /\ hand' = [hand EXCEPT ![p].pc = Opening(p, Current(p).type), ![p].todo = <<>>]
  BY DEF Claim, Waiting, At
<1>2. hand[p] = Idle /\ hand \in [Consumers -> Hand]
  BY <1>1, AtWork DEF Holding, At
<1>3. p \in {"projector", "audit"}
  BY AtWork DEF Observers
<1>4. Opening(p, Current(p).type) = IF p = "projector" THEN "project" ELSE "store"
  BY <1>3 DEF Opening
<1>5. hand'[p] = [pc |-> Opening(p, Current(p).type), attempt |-> 1, outcome |-> "NONE",
                  todo |-> <<>>, link |-> "sound"]
  <2>1. hand'[p] = [Idle EXCEPT !.pc = Opening(p, Current(p).type), !.todo = <<>>]
    BY <1>1, <1>2
  <2>2. QED
    BY <2>1 DEF Idle
<1>6. hand'[p] \in Hand
  <2>1. <<>> \in Seq(EventTypes)
    OBVIOUS
  <2>2. QED
    BY <1>4, <1>5, <2>1, FirstAttempt, HandFields
<1>7. hand'[p].pc = Opening(p, Current(p).type) /\ hand'[p].link = "sound"
  BY <1>5
<1>8. QED
  BY <1>3, <1>4, <1>6, <1>7

\* A message is claimed once, by whoever it is meant for.
LEMMA ClaimKeeps ==
  ASSUME IInv, NEW p \in Consumers, Claim(p)
  PROVE  IInv'
<1>1. /\ hand[p].pc = "idle" /\ queue[p] # <<>> /\ <<p, Current(p)>> \notin claimed
      /\ claimed' = claimed \cup {<<p, Current(p)>>}
      /\ hand' = [hand EXCEPT ![p].pc = Opening(p, Current(p).type),
                              ![p].todo = IF p \in Workers THEN Announces(Current(p).type)
                                          ELSE <<>>]
      /\ UNCHANGED <<request, services, execution, trail, announced, start, queue, emitted,
                     log, late, timeouts, repeats, losses>>
  BY DEF Claim, Waiting, At, saga, bus, bounds
<1>2. hand \in [Consumers -> Hand] /\ Holding(p) /\ p \in Workers \cup Observers
  BY AtWork
<1>3. Current(p) \in emitted /\ Current(p).type \in Topology(p)
  BY <1>1, InHand
<1>4. hand' = [hand EXCEPT ![p] = hand'[p]]
  BY <1>1, <1>2
<1>5. /\ hand'[p] \in Hand
      /\ p \in Workers => Working(p)'
      /\ \/ p \in Workers /\ hand'[p].pc \in {"emit", "call", "ack"}
         \/ p = "projector" /\ hand'[p].pc = "project"
         \/ p = "audit" /\ hand'[p].pc = "store"
  <2>1. CASE p \in Workers
    BY <2>1, TakenAfresh
  <2>2. CASE p \notin Workers
    BY <2>2, TakenByObserver
  <2>3. QED
    BY <2>1, <2>2
<1>6. Current(p)' = Current(p)
  BY <1>1 DEF Current
<1>7. Holding(p)'
  <2>1. /\ hand'[p].pc # "idle" /\ hand'[p].pc # "tell"
        /\ p \in Workers => hand'[p].pc \in {"idle", "emit", "call", "record", "ack"}
        /\ p = "projector" => hand'[p].pc \in {"idle", "project", "tell", "ack"}
        /\ p = "audit" => hand'[p].pc \in {"idle", "store", "ack"}
    BY <1>5 DEF Workers
  <2>2. QED
    BY <1>1, <1>2, <1>3, <1>6, <2>1 DEF Holding, At
<1>7a. /\ claimed \subseteq claimed'
       /\ claimed' \subseteq claimed \cup {<<p, e>> : e \in emitted}
  BY <1>1, <1>3
<1>8. CASE p # "projector"
  BY <1>1, <1>4, <1>5, <1>7, <1>7a, <1>8, Untouched, SideStep
<1>9. CASE p = "projector"
  <2>1. Onwards
    BY <1>1, QuietOnwards
  <2>2. At(p, "project")'
    BY <1>5, <1>9 DEF At, Workers
  <2>3. queue[p] \in Seq(emitted) /\ Len(queue[p]) \in Nat /\ Len(queue[p]) > 0
        /\ Current(p) = queue[p][1]
    BY <1>1, InHand
  <2>4. ASSUME NEW t \in Transfers, NEW i \in 1..Len(queue[p]), FailureAhead(t, i)
        PROVE  \E k \in 1..Len(queue'[p]) : k + 0 <= i /\ FailureAhead(t, k)'
    <3>1. CASE queue[p][i] = Current(p)
      <4>1. 1 \in 1..Len(queue[p]) /\ 1 <= i
        BY <2>3
      <4>2. FailureAhead(t, 1)'
        BY <1>1, <1>9, <2>2, <2>3, <2>4, <3>1 DEF FailureAhead
      <4>3. QED
        BY <1>1, <4>1, <4>2
    <3>2. CASE queue[p][i] # Current(p)
      <4>1. FailureAhead(t, i)'
        BY <1>1, <1>9, <2>3, <2>4, <3>2 DEF FailureAhead, At
      <4>2. QED
        BY <1>1, <4>1
    <3>3. QED
      BY <3>1, <3>2
  <2>5. losses \in Nat
    BY Untouched
  <2>6. Len(queue[p]) + 0 = Len(queue[p]) /\ \A i \in 1..Len(queue[p]) : i + 0 = i
    BY <2>3
  <2>7. Verdicts'
    BY <1>1, <1>9, <2>1, <2>4, <2>5, <2>6, AheadStays
  <2>8. \A q \in Consumers \ {p} : hand'[q] = hand[q]
    BY <1>1, <1>2
  <2>9. hand' \in [Consumers -> Hand]
    BY <1>2, <1>4, <1>5
  <2>10. p \notin Workers
    BY <1>9 DEF Workers
  <2>11. QED
    BY <1>1, <1>7, <1>7a, <2>7, <2>8, <2>9, <2>10, Untouched, HandStep
<1>10. QED
  BY <1>8, <1>9

-----------------------------------------------------------------------------
(* A service is called.                                                    *)

\* What precedes and what follows each step.
LEMMA StepOrder ==
  /\ Before("DEBIT") = {} /\ Before("RISK") = {"DEBIT"}
  /\ Before("CLEARING") = {"DEBIT", "RISK"}
  /\ Before("CREDIT") = {"DEBIT", "RISK", "CLEARING"}
  /\ After("DEBIT") = {"RISK", "CLEARING", "CREDIT"}
  /\ After("RISK") = {"CLEARING", "CREDIT"}
  /\ After("CLEARING") = {"CREDIT"} /\ After("CREDIT") = {}
<1>1. /\ Sequence["DEBIT"] = 1 /\ Sequence["RISK"] = 2
      /\ Sequence["CLEARING"] = 3 /\ Sequence["CREDIT"] = 4
  BY DEF Sequence, Steps
<1>2. QED
  BY <1>1 DEF Before, After, Steps

\* An event whose step is called next is published after the step before took
\* effect, or asks for the compensation itself.
LEMMA CallsInOrder ==
  ASSUME IInv, NEW t \in Transfers, NEW type \in WorkTypes, Emitted(t, type)
  PROVE  /\ KindOf(type) = "ACTION" => Before(StepOf(type)) \subseteq Done[t]
         /\ KindOf(type) = "COMPENSATION" => Requested(t, StepOf(type))
<1>1. /\ Meaning(t) /\ Chain(t)
      /\ Audited
  BY History DEF IInv, Lineage, SagaTypes, Services
<1>2. ASSUME NEW s \in Steps, Row(t, "ACTION", s) = "EXECUTED"
      PROVE  s \in Done[t]
  BY <1>1, <1>2 DEF Audited, Row
<1>3. "EXECUTED" # Absent
  BY AbsentAssumption DEF ActionStatuses
<1>4. /\ type = "BalanceDebited" => "DEBIT" \in Done[t]
      /\ type = "RiskApproved" => {"DEBIT", "RISK"} \subseteq Done[t]
      /\ type = "ClearingCompleted" => {"DEBIT", "RISK", "CLEARING"} \subseteq Done[t]
  BY <1>1, <1>2, <1>3 DEF Meaning, Chain, Steps
<1>5. KindOf(type) = "COMPENSATION" => Requested(t, StepOf(type))
  BY WorkTable DEF Requested
<1>6. KindOf(type) = "ACTION" => Before(StepOf(type)) \subseteq Done[t]
  <2>1. /\ Executes["TransferRequested"] = "DEBIT" /\ Executes["BalanceDebited"] = "RISK"
        /\ Executes["RiskApproved"] = "CLEARING" /\ Executes["ClearingCompleted"] = "CREDIT"
    BY DEF Executes
  <2>2. QED
    BY <1>4, <2>1, WorkTable, StepOrder DEF StepOf
<1>7. QED
  BY <1>5, <1>6

\* What a participant knows while it calls its service, or has its answer.
LEMMA AtCall ==
  ASSUME IInv, NEW p \in Consumers, hand[p].pc \in {"call", "record"}
  PROVE  /\ p \in Workers
         /\ queue[p] # <<>> /\ <<p, Current(p)>> \in claimed
         /\ Current(p) \in emitted /\ Current(p) \in Event
         /\ Current(p).transfer \in Transfers /\ Current(p).type \in WorkTypes
         /\ Taken(Current(p).transfer, Current(p).type)
         /\ Decision(Current(p).transfer, Current(p).type) = Absent
         /\ hand[p].link # "retrying"
         /\ Plausible(Current(p).type, hand[p].outcome)
         /\ KindOf(Current(p).type) \in StepKinds /\ StepOf(Current(p).type) \in Steps
<1>1. p \in Workers /\ ~At(p, "idle")
  BY AtWork DEF Holding, At, Observers
<1>2. queue[p] # <<>> /\ <<p, Current(p)>> \in claimed /\ Working(p)
  BY <1>1, AtWork
<1>3. /\ Current(p).type \in WorkTypes /\ hand[p].link # "retrying"
      /\ Plausible(Current(p).type, hand[p].outcome)
      /\ Decision(Current(p).transfer, Current(p).type) = Absent
  BY <1>2 DEF Working
<1>4. QED
  BY <1>1, <1>2, <1>3, InHand, WorkTable

\* A request whose client stops waiting may still be executed, in order.
LEMMA AbandonedInOrder ==
  ASSUME IInv, NEW p \in Consumers, hand[p].pc = "call"
  PROVE  InFlight(p) \in Message /\ Carried(InFlight(p))
<1>1. /\ Current(p).transfer \in Transfers /\ Current(p).type \in WorkTypes
      /\ Taken(Current(p).transfer, Current(p).type)
      /\ KindOf(Current(p).type) \in StepKinds /\ StepOf(Current(p).type) \in Steps
  BY AtCall
<1>2. hand[p].attempt \in 1..MaxAttempts
  BY AtWork DEF Hand
<1>3. Emitted(Current(p).transfer, Current(p).type)
  BY <1>1 DEF Taken, Emitted
<1>4. QED
  BY <1>1, <1>2, <1>3, CallsInOrder DEF InFlight, Message, Carried

\* A participant moves on from its call: what it holds stays.
LEMMA CallMoves ==
  ASSUME IInv, NEW p \in Consumers, hand[p].pc = "call", hand'[p] \in Hand,
         UNCHANGED <<queue, claimed, emitted, execution>>, Onwards,
         hand'[p].pc \in {"call", "record"}, hand'[p].link = hand[p].link
  PROVE  Holding(p)' /\ Current(p)' = Current(p)
<1>1. Holding(p) /\ p \in Workers /\ queue[p] # <<>> /\ <<p, Current(p)>> \in claimed
  BY AtCall, AtWork
<1>2. Current(p)' = Current(p)
  BY DEF Current
<1>3. p \notin {"projector", "audit"}
  BY <1>1 DEF Workers
<1>4. QED
  BY <1>1, <1>2, <1>3 DEF Holding, At

\* A failed attempt is followed by another, the first one still under way.
LEMMA RetryKeeps ==
  ASSUME IInv, NEW p \in Consumers, Retry(p)
  PROVE  IInv'
<1>1. /\ hand[p].pc = "call" /\ hand[p].attempt < MaxAttempts
      /\ timeouts < MaxTimeouts /\ timeouts' = timeouts + 1
      /\ late' = late \cup {InFlight(p)}
      /\ hand' = [hand EXCEPT ![p].attempt = @ + 1]
      /\ UNCHANGED <<request, services, execution, trail, announced, start, queue, emitted,
                     claimed, log, repeats, losses>>
  BY DEF Retry, Calling, At, MayTimeOut, saga, bus
<1>2. hand \in [Consumers -> Hand] /\ hand[p] \in Hand
  BY AtWork
<1>3. hand[p].attempt + 1 \in 1..MaxAttempts
  BY <1>1, <1>2, ChoreographyAssumption DEF Hand
<1>4. /\ hand' = [hand EXCEPT ![p] = hand'[p]] /\ hand'[p] \in Hand
      /\ hand'[p].pc = "call" /\ hand'[p].outcome = hand[p].outcome
      /\ hand'[p].link = hand[p].link
  BY <1>1, <1>2, <1>3 DEF Hand
<1>5. Onwards
  BY <1>1, QuietOnwards
<1>6. Holding(p)' /\ Current(p)' = Current(p)
  BY <1>1, <1>4, <1>5, CallMoves
<1>7. Working(p)'
  <2>1. Working(p) /\ p \in Workers
    BY <1>1, AtCall, AtWork
  <2>2. Decision(Current(p).transfer, Current(p).type)' =
          Decision(Current(p).transfer, Current(p).type)
    BY <1>1, <1>6 DEF Decision
  <2>3. QED
    BY <1>1, <1>4, <1>6, <2>1, <2>2 DEF Working
<1>8. InFlight(p) \in Message /\ Carried(InFlight(p))
  BY <1>1, AbandonedInOrder
<1>9. /\ late' \subseteq Message /\ \A m \in late' : m \notin late => Carried(m)
      /\ timeouts' \in 0..MaxTimeouts
  BY <1>1, <1>8, Untouched, ChoreographyAssumption
<1>10. p # "projector"
  BY <1>1, AtCall DEF Workers
<1>11. QED
  BY <1>1, <1>4, <1>6, <1>7, <1>9, <1>10, Untouched, SideStep

\* The last attempt failed: nobody will know whether the service was called.
LEMMA GiveUpKeeps ==
  ASSUME IInv, NEW p \in Consumers, GiveUp(p)
  PROVE  IInv'
<1>1. /\ hand[p].pc = "call"
      /\ timeouts < MaxTimeouts /\ timeouts' = timeouts + 1
      /\ late' = late \cup {InFlight(p)}
      /\ hand' = [hand EXCEPT ![p].pc = "record", ![p].outcome = "SERVICE_UNAVAILABLE"]
      /\ UNCHANGED <<request, services, execution, trail, announced, start, queue, emitted,
                     claimed, log, repeats, losses>>
  BY DEF GiveUp, Calling, At, MayTimeOut, saga, bus
<1>2. hand \in [Consumers -> Hand] /\ hand[p] \in Hand
  BY AtWork
<1>3. "SERVICE_UNAVAILABLE" \in ErrorCodes
  BY DEF ErrorCodes
<1>4. /\ hand' = [hand EXCEPT ![p] = hand'[p]] /\ hand'[p] \in Hand
      /\ hand'[p].pc = "record" /\ hand'[p].outcome = "SERVICE_UNAVAILABLE"
      /\ hand'[p].link = hand[p].link
  BY <1>1, <1>2, <1>3 DEF Hand
<1>5. Onwards
  BY <1>1, QuietOnwards
<1>6. Holding(p)' /\ Current(p)' = Current(p)
  BY <1>1, <1>4, <1>5, CallMoves
<1>7. Working(p)'
  <2>1. /\ hand[p].link # "retrying" /\ Current(p).type \in WorkTypes
        /\ Decision(Current(p).transfer, Current(p).type) = Absent
    BY <1>1, AtCall
  <2>2. Decision(Current(p).transfer, Current(p).type)' = Absent
    BY <1>1, <1>6, <2>1 DEF Decision
  <2>3. \A type : Plausible(type, "SERVICE_UNAVAILABLE")
    BY DEF Plausible, OutcomeFor
  <2>4. QED
    BY <1>1, <1>4, <1>6, <2>1, <2>2, <2>3 DEF Working
<1>8. InFlight(p) \in Message /\ Carried(InFlight(p))
  BY <1>1, AbandonedInOrder
<1>9. /\ late' \subseteq Message /\ \A m \in late' : m \notin late => Carried(m)
      /\ timeouts' \in 0..MaxTimeouts
  BY <1>1, <1>8, Untouched, ChoreographyAssumption
<1>10. p # "projector"
  BY <1>1, AtCall DEF Workers
<1>11. QED
  BY <1>1, <1>4, <1>6, <1>7, <1>9, <1>10, Untouched, SideStep

\* A service executes a call that is in order.
LEMMA ServedStep ==
  ASSUME IInv, NEW t \in Transfers, NEW kind \in StepKinds, NEW s \in Steps,
         Serve(t, kind, s), kind = "ACTION" => Before(s) \subseteq Done[t],
         kind = "COMPENSATION" => Requested(t, s),
         UNCHANGED <<request, execution, trail, announced, start, queue, emitted, claimed,
                     log, timeouts, repeats, losses>>,
         late' \subseteq late, hand' \in [Consumers -> Hand],
         \A q \in Consumers :
           \/ hand'[q] = hand[q]
           \/ q \in Workers /\ Holding(q)' /\ Working(q)'
  PROVE  IInv'
<1>1. Served(t, kind, s)
  BY CallsAreServed DEF IInv
<1>2. ServiceTypes' /\ ServicesAgree'
  BY <1>1 DEF Served
<1>3. Onwards
  BY <1>1 DEF Onwards, Row, Served
<1>4. SagaTypes'
  <2>1. SagaTypes
    BY DEF IInv
  <2>2. QED
    BY <2>1 DEF SagaTypes, StoreTypeOK
<1>5. \A q \in Consumers : Holding(q)'
  <2>1. ASSUME NEW q \in Consumers, hand'[q] = hand[q]
        PROVE  Holding(q)'
    <3>1. \A i \in 1..Len(queue[q]) : queue[q][i].type \in Topology(q)
      BY DEF IInv, Holding
    <3>2. QED
      BY <1>3, <2>1, <3>1, HoldingStays
  <2>2. QED
    BY <2>1
<1>6. \A q \in Workers : Working(q)'
  <2>1. ASSUME NEW q \in Workers, hand'[q] = hand[q]
        PROVE  Working(q)'
    <3>1. q \in Consumers
      BY ChoreographyAssumption
    <3>2. Working(q)
      BY <3>1, AtWork
    <3>3. hand[q].pc \in {"emit", "call", "record"} => Current(q) \in Event
      BY <3>1, AtWork, InHand DEF At
    <3>4. /\ Current(q)' = Current(q)
          /\ Decision(Current(q).transfer, Current(q).type)' =
               Decision(Current(q).transfer, Current(q).type)
      BY DEF Current, Decision
    <3>5. \A i \in 1..Len(hand[q].todo) :
            Emitted(Current(q).transfer, hand[q].todo[i])' =>
              Emitted(Current(q).transfer, hand[q].todo[i])
      BY <2>1, <3>4 DEF Emitted
    <3>6. QED
      BY <1>3, <2>1, <3>2, <3>3, <3>4, <3>5, WorkingStays
  <2>2. QED
    BY <2>1, ChoreographyAssumption
<1>7. Unique' /\ Caused' /\ Written'
  BY <1>3, LineageStays, WrittenStays
<1>8. Launched'
  BY DEF IInv, Lineage, Launched, Launching, Emitted
<1>9. Audited'
  <2>1. Audited
    BY DEF IInv, Services
  <2>2. QED
    BY <1>3, <2>1 DEF Audited, Onwards
<1>10. Ordered'
  <2>1. Ordered
    BY DEF IInv, Services
  <2>2. ASSUME NEW u \in Transfers, NEW v \in Done'[u]
        PROVE  Before(v) \subseteq Done'[u]
    <3>1. CASE v \in Done[u]
      BY <1>3, <2>1, <3>1 DEF Ordered, Onwards
    <3>2. CASE v \notin Done[u]
      <4>1. u = t /\ kind = "ACTION" /\ v = s
        BY <1>1, <3>2 DEF Served
      <4>2. QED
        BY <1>3, <4>1 DEF Onwards
    <3>3. QED
      BY <3>1, <3>2
  <2>3. QED
    BY <2>2 DEF Ordered
<1>11. \A u, v : Requested(u, v)' <=> Requested(u, v)
  BY DEF Requested, Emitted
<1>12. Asked'
  <2>1. Asked
    BY DEF IInv, Services
  <2>2. ASSUME NEW u \in Transfers, NEW v \in Undone'[u]
        PROVE  Requested(u, v)
    <3>1. CASE v \in Undone[u]
      BY <2>1, <3>1 DEF Asked
    <3>2. CASE v \notin Undone[u]
      BY <1>1, <3>2 DEF Served
    <3>3. QED
      BY <3>1, <3>2
  <2>3. QED
    BY <1>11, <2>2 DEF Asked
<1>13. \A m \in late' : Carried(m)'
  <2>1. \A m \in late : Carried(m) /\ m.transfer \in Transfers
    BY DEF IInv, Services, SagaTypes, Message
  <2>2. QED
    BY <1>3, <1>11, <2>1 DEF Carried, Onwards
<1>14. Verdicts'
  <2>1. "projector" \in Consumers => hand'["projector"] = hand["projector"]
    BY DEF Workers
  <2>2. QED
    BY <1>3, <2>1, Untouched, VerdictsStay DEF At
<1>15. QED
  BY <1>2, <1>4, <1>5, <1>6, <1>7, <1>8, <1>9, <1>10, <1>12, <1>13, <1>14
     DEF IInv, Lineage, Services

\* The answer reaches the participant: a yes is a fact at the service.
LEMMA AnsweredKeeps ==
  ASSUME IInv, NEW p \in Consumers, Answered(p)
  PROVE  IInv'
<1>0. PICK t \in Transfers, type \in WorkTypes, kind \in StepKinds, s \in Steps :
        /\ t = Current(p).transfer /\ type = Current(p).type
        /\ kind = KindOf(type) /\ s = StepOf(type)
  BY AtCall DEF Answered, Calling, At
<1>1. /\ hand[p].pc = "call" /\ Serve(t, kind, s)
      /\ hand' = [hand EXCEPT ![p].pc = "record", ![p].outcome = Reply(t, kind, s)]
      /\ UNCHANGED <<request, execution, trail, announced, start, queue, emitted,
                     claimed, log, late, timeouts, repeats, losses>>
  BY <1>0 DEF Answered, Calling, At, saga, bus, bounds
<1>2. hand \in [Consumers -> Hand] /\ hand[p] \in Hand
  BY AtWork
<1>3. PICK outcome \in ErrorCodes \cup {"OK"} : outcome = Reply(t, kind, s)
  BY <1>1, CallsAreServed DEF Served, IInv
<1>4. /\ hand' = [hand EXCEPT ![p] = hand'[p]] /\ hand'[p] \in Hand
      /\ hand'[p].pc = "record" /\ hand'[p].outcome = outcome
      /\ hand'[p].link = hand[p].link
  BY <1>1, <1>2, <1>3 DEF Hand
<1>5. Served(t, kind, s)
  BY <1>1, CallsAreServed DEF IInv
<1>6. Onwards
  BY <1>1, <1>5 DEF Onwards, Row, Served
<1>7. Holding(p)' /\ Current(p)' = Current(p)
  BY <1>1, <1>4, <1>6, CallMoves
<1>8. /\ hand[p].link # "retrying" /\ p \in Workers
      /\ Decision(t, type) = Absent /\ Taken(t, type)
  BY <1>0, <1>1, AtCall
<1>9. Plausible(type, outcome)
  <2>1. /\ Executes["TransferRequested"] = "DEBIT" /\ Executes["BalanceDebited"] = "RISK"
        /\ Executes["RiskApproved"] = "CLEARING" /\ Executes["ClearingCompleted"] = "CREDIT"
    BY DEF Executes
  <2>2. /\ kind = "ACTION" /\ outcome = "INSUFFICIENT_FUNDS" => s = "DEBIT"
        /\ kind = "ACTION" /\ outcome \in {"RISK_REJECTED", "RISK_LIMIT_EXCEEDED"} => s = "RISK"
    BY <1>3, <1>5 DEF Served
  <2>3. OutcomeFor(outcome) = "REJECTED_RISK" =>
          outcome \in {"RISK_REJECTED", "RISK_LIMIT_EXCEEDED"}
    BY DEF OutcomeFor
  <2>4. type \in DOMAIN Executes => kind = "ACTION" /\ s = Executes[type]
    BY <1>0, WorkTable DEF StepOf
  <2>5. QED
    BY <2>1, <2>2, <2>3, <2>4, WorkTable DEF Plausible
<1>10. outcome = "OK" => s \in IF kind = "ACTION" THEN Done'[t] ELSE Undone'[t]
  BY <1>3, <1>5 DEF Served, StepKinds
<1>11. outcome # "NONE"
  BY DEF ErrorCodes
<1>12. Working(p)'
  <2>1. Decision(t, type)' = Absent
    BY <1>1, <1>8 DEF Decision
  <2>2. /\ Current(p)'.type = type /\ Current(p)'.transfer = t
        /\ hand'[p].pc = "record" /\ hand'[p].outcome = outcome
        /\ hand'[p].link # "retrying"
    BY <1>0, <1>4, <1>7, <1>8
  <2>3. QED
    BY <1>0, <1>9, <1>10, <1>11, <2>1, <2>2 DEF Working
<1>13. Emitted(t, type)
  BY <1>8 DEF Taken, Emitted
<1>14. /\ kind = "ACTION" => Before(s) \subseteq Done[t]
       /\ kind = "COMPENSATION" => Requested(t, s)
  BY <1>0, <1>13, CallsInOrder
<1>15. /\ hand' \in [Consumers -> Hand]
       /\ \A q \in Consumers : q # p => hand'[q] = hand[q]
  BY <1>2, <1>4
<1>16. QED
  BY <1>1, <1>7, <1>8, <1>12, <1>14, <1>15, ServedStep

\* A late request does at its service what it would have done in time.
LEMMA ExecuteLateKeeps ==
  ASSUME IInv, NEW m \in late, ExecuteLate(m)
  PROVE  IInv'
<1>1. /\ Serve(m.transfer, m.kind, m.step) /\ late' = late \ {m}
      /\ UNCHANGED <<request, execution, trail, announced, start, queue, emitted,
                     claimed, hand, log, timeouts, repeats, losses>>
  BY DEF ExecuteLate, saga, bus, bounds
<1>2. /\ m.transfer \in Transfers /\ m.kind \in StepKinds /\ m.step \in Steps
      /\ Carried(m)
  BY DEF IInv, SagaTypes, Services, Message
<1>3. hand \in [Consumers -> Hand]
  BY Untouched
<1>4. QED
  BY <1>1, <1>2, <1>3, ServedStep DEF Carried

-----------------------------------------------------------------------------
(* An outcome is recorded.                                                 *)

\* What a participant records of its message, and what it goes on to publish.
RecordedAs(p, t, type, outcome, todo, status) ==
  /\ t = Current(p).transfer /\ type = Current(p).type /\ outcome = hand[p].outcome
  /\ todo = IF outcome = "OK" THEN Succeeds(type) ELSE Fails(type)
  /\ hand[p].pc = "record" /\ outcome # "NONE"
  /\ trail' = [trail EXCEPT ![<<t, KindOf(type), StepOf(type)>>] = status]
  /\ hand' = [hand EXCEPT ![p].pc = IF todo = <<>> THEN "ack" ELSE "emit",
                          ![p].todo = todo, ![p].attempt = 1]
  /\ UNCHANGED <<request, services, execution, announced, start, queue, emitted,
                 claimed, log, late, timeouts, repeats, losses>>
  /\ Decision(t, type) = Absent /\ Decision(t, type)' = status
  /\ status \in ActionStatuses \cup RollbackStatuses
  /\ type \in DOMAIN Executes =>
       status = IF outcome = "OK" THEN "EXECUTED" ELSE "FAILED"
  /\ type \in DOMAIN Compensates =>
       status = IF outcome = "OK" THEN "COMPENSATED" ELSE "COMPENSATION_FAILED"
  /\ \A u \in Transfers, other \in WorkTypes :
       u # t \/ other # type => Decision(u, other)' = Decision(u, other)
  /\ \A u \in Transfers : Row(u, "COMPENSATION", "CREDIT")' = Row(u, "COMPENSATION", "CREDIT")
  /\ Script(todo, IF outcome = "OK" THEN Confirms(type) ELSE Refuses(type))

\* A participant writes the only row that is its own to write, for the first
\* time.
LEMMA RecordedOnce ==
  ASSUME IInv, NEW p \in Consumers, Record(p)
  PROVE  \E t \in Transfers, type \in WorkTypes : \E outcome, todo, status :
           RecordedAs(p, t, type, outcome, todo, status)
<1>0a. PICK t \in Transfers, type \in WorkTypes : t = Current(p).transfer /\ type = Current(p).type
  BY AtCall DEF Record, At
<1>0. PICK outcome, todo, status :
        /\ outcome = hand[p].outcome
        /\ todo = IF outcome = "OK" THEN Succeeds(type) ELSE Fails(type)
        /\ status = Recorded(KindOf(type), outcome)
  OBVIOUS
<1>1. /\ hand[p].pc = "record"
      /\ trail' = [trail EXCEPT ![<<t, KindOf(type), StepOf(type)>>] = status]
      /\ hand' = [hand EXCEPT ![p].pc = IF todo = <<>> THEN "ack" ELSE "emit",
                              ![p].todo = todo, ![p].attempt = 1]
      /\ UNCHANGED <<request, services, execution, announced, start, queue, emitted,
                     claimed, log, late, timeouts, repeats, losses>>
  BY <1>0a, <1>0 DEF Record, At, Write, saga, bus, bounds
<1>2. Decision(t, type) = Absent /\ p \in Workers
  BY <1>0a, <1>1, AtCall
<1>3. outcome # "NONE"
  BY <1>0, <1>1, <1>2, AtWork DEF Working
<1>4. /\ type \in DOMAIN Executes =>
           status = IF outcome = "OK" THEN "EXECUTED" ELSE "FAILED"
      /\ type \in DOMAIN Compensates =>
           status = IF outcome = "OK" THEN "COMPENSATED" ELSE "COMPENSATION_FAILED"
      /\ status \in ActionStatuses \cup RollbackStatuses
  BY <1>0, WorkTable DEF Recorded, ActionStatuses, RollbackStatuses
<1>5. trail \in [Transfers \X StepKinds \X Steps ->
                   ActionStatuses \cup RollbackStatuses \cup {Absent}]
  BY DEF IInv, SagaTypes, StoreTypeOK
<1>6. KindOf(type) \in StepKinds /\ StepOf(type) \in Steps
  BY WorkTable
<1>7. Decision(t, type)' = status
  BY <1>1, <1>5, <1>6 DEF Decision
<1>8. ASSUME NEW u \in Transfers, NEW other \in WorkTypes, u # t \/ other # type
      PROVE  Decision(u, other)' = Decision(u, other)
  <2>1. <<u, KindOf(other), StepOf(other)>> # <<t, KindOf(type), StepOf(type)>>
    BY <1>8, RowsOfWork
  <2>2. <<u, KindOf(other), StepOf(other)>> \in Transfers \X StepKinds \X Steps
    BY WorkTable
  <2>3. QED
    BY <1>1, <1>5, <2>1, <2>2 DEF Decision
<1>9. ASSUME NEW u \in Transfers
      PROVE  Row(u, "COMPENSATION", "CREDIT")' = Row(u, "COMPENSATION", "CREDIT")
  <2>1. <<u, "COMPENSATION", "CREDIT">> # <<t, KindOf(type), StepOf(type)>>
    BY RowsOfWork
  <2>2. <<u, "COMPENSATION", "CREDIT">> \in Transfers \X StepKinds \X Steps
    BY DEF StepKinds, Steps
  <2>3. QED
    BY <1>1, <1>5, <2>1, <2>2 DEF Row
<1>10. Script(todo, IF outcome = "OK" THEN Confirms(type) ELSE Refuses(type))
  BY <1>0, Scripts, WorkTable
<1>11. RecordedAs(p, t, type, outcome, todo, status)
  BY <1>0a, <1>0, <1>1, <1>2, <1>3, <1>4, <1>7, <1>8, <1>9, <1>10 DEF RecordedAs
<1>12. QED
  BY <1>11

\* What the participant goes on to publish.
LEMMA RecordedThenPublished ==
  ASSUME IInv, NEW p \in Consumers, Record(p)
  PROVE  /\ hand' = [hand EXCEPT ![p] = hand'[p]] /\ hand'[p] \in Hand
         /\ hand'[p].pc \in {"ack", "emit"} /\ Working(p)'
<1>0. PICK t \in Transfers, type \in WorkTypes : \E outcome, todo, status :
        RecordedAs(p, t, type, outcome, todo, status)
  BY RecordedOnce
<1>0a. PICK outcome, todo, status : RecordedAs(p, t, type, outcome, todo, status)
  BY <1>0
<1>1. t = Current(p).transfer /\ type = Current(p).type
  BY <1>0a DEF RecordedAs
<1>2. /\ outcome = hand[p].outcome
      /\ todo = IF outcome = "OK" THEN Succeeds(type) ELSE Fails(type)
  BY <1>0a DEF RecordedAs
<1>3. /\ hand[p].pc = "record" /\ outcome # "NONE"
      /\ hand' = [hand EXCEPT ![p].pc = IF todo = <<>> THEN "ack" ELSE "emit",
                              ![p].todo = todo, ![p].attempt = 1]
      /\ UNCHANGED <<queue, emitted, claimed>>
      /\ Decision(t, type) = Absent /\ Decision(t, type)' = status
      /\ type \in DOMAIN Executes =>
              status = IF outcome = "OK" THEN "EXECUTED" ELSE "FAILED"
      /\ type \in DOMAIN Compensates =>
              status = IF outcome = "OK" THEN "COMPENSATED" ELSE "COMPENSATION_FAILED"
      /\ Script(todo, IF outcome = "OK" THEN Confirms(type) ELSE Refuses(type))
  BY <1>0a DEF RecordedAs
<1>4. /\ hand \in [Consumers -> Hand] /\ hand[p] \in Hand
      /\ p \in Workers /\ hand[p].link # "retrying" /\ Plausible(type, outcome)
      /\ Taken(t, type)
  BY <1>1, <1>2, <1>3, AtCall, AtWork
<1>5. todo \in Seq(EventTypes)
  BY <1>3 DEF Script
<1>6. /\ hand' = [hand EXCEPT ![p] = hand'[p]] /\ hand'[p] \in Hand
      /\ hand'[p].pc = IF todo = <<>> THEN "ack" ELSE "emit"
      /\ hand'[p].todo = todo /\ hand'[p].outcome = outcome /\ hand'[p].link = hand[p].link
  BY <1>2, <1>3, <1>4, <1>5, FirstAttempt DEF Hand
<1>7. Current(p)' = Current(p)
  BY <1>3 DEF Current
<1>8. ASSUME todo # <<>>
      PROVE  Publishing(p)'
  <2>1. /\ Len(todo) \in {1, 2}
        /\ Len(todo) = 2 => todo[1] # todo[2]
    BY <1>3, <1>8 DEF Script
  <2>2. Taken(t, type)'
    BY <1>3, <1>4 DEF Taken
  <2>3. outcome # "OK" => type \in DOMAIN Executes
    BY <1>2, <1>8, WorkTable DEF Fails
  <2>4. ASSUME NEW i \in 1..Len(todo)
        PROVE  /\ Leads(t, type, todo[i])'
               /\ ~Emitted(t, todo[i])'
               /\ todo[i] = "TransferFailed" => outcome \notin {"OK", "NONE"}
    <3>1. PICK next \in IF outcome = "OK" THEN Confirms(type) ELSE Refuses(type) : next = todo[i]
      BY <1>3, <2>4 DEF Script
    <3>2. Emitted(t, type)
      BY <1>4 DEF Taken, Emitted
    <3>3. ~Emitted(t, next)
      BY <1>3, <3>2, NotDecidedYet DEF IInv, Lineage, SagaTypes
    <3>4. ~Emitted(t, next)'
      BY <1>3, <3>3 DEF Emitted
    <3>5. Leads(t, type, next)'
      BY <1>3, <2>2, <2>3, WorkTable DEF Leads
    <3>6. next = "TransferFailed" => outcome # "OK"
      BY DEF Confirms
    <3>8. QED
      BY <1>3, <3>1, <3>4, <3>5, <3>6
  <2>5. type \in {"RiskApproved", "ClearingCompleted"} =>
          status # "FAILED" \/ todo[1] = "TransferFailed"
    BY <1>2, <1>3, Scripts, WorkTable
  <2>6. QED
    BY <1>1, <1>3, <1>4, <1>6, <1>7, <1>8, <2>1, <2>4, <2>5 DEF Publishing
<1>9. Working(p)'
  BY <1>1, <1>3, <1>4, <1>6, <1>7, <1>8 DEF Working
<1>10. QED
  BY <1>6, <1>9

\* A row of the trail is written once, and says what the service answered.
LEMMA RecordKeeps ==
  ASSUME IInv, NEW p \in Consumers, Record(p)
  PROVE  IInv'
<1>0. PICK t \in Transfers, type \in WorkTypes : \E outcome, todo, status :
        RecordedAs(p, t, type, outcome, todo, status)
  BY RecordedOnce
<1>0a. PICK outcome, todo, status : RecordedAs(p, t, type, outcome, todo, status)
  BY <1>0
<1>1. t = Current(p).transfer /\ type = Current(p).type
  BY <1>0a DEF RecordedAs
<1>2. /\ outcome = hand[p].outcome
      /\ todo = IF outcome = "OK" THEN Succeeds(type) ELSE Fails(type)
  BY <1>0a DEF RecordedAs
<1>3. /\ hand[p].pc = "record"
      /\ trail' = [trail EXCEPT ![<<t, KindOf(type), StepOf(type)>>] = status]
      /\ UNCHANGED <<request, services, execution, announced, start, queue, emitted,
                     claimed, log, late, timeouts, repeats, losses>>
      /\ Decision(t, type) = Absent /\ Decision(t, type)' = status
      /\ status \in ActionStatuses \cup RollbackStatuses
      /\ type \in DOMAIN Executes =>
              status = IF outcome = "OK" THEN "EXECUTED" ELSE "FAILED"
      /\ type \in DOMAIN Compensates =>
              status = IF outcome = "OK" THEN "COMPENSATED" ELSE "COMPENSATION_FAILED"
      /\ \A u \in Transfers, other \in WorkTypes :
              u # t \/ other # type => Decision(u, other)' = Decision(u, other)
      /\ \A u \in Transfers : Row(u, "COMPENSATION", "CREDIT")' =
                                 Row(u, "COMPENSATION", "CREDIT")
  BY <1>0a DEF RecordedAs
<1>4. /\ p \in Workers /\ Taken(t, type)
      /\ KindOf(type) \in StepKinds /\ StepOf(type) \in Steps
  BY <1>1, <1>3, AtCall
<1>5. /\ hand' = [hand EXCEPT ![p] = hand'[p]] /\ hand'[p] \in Hand
      /\ hand'[p].pc \in {"ack", "emit"} /\ Working(p)'
  BY RecordedThenPublished
<1>6. ServiceTypes' /\ ServicesAgree' /\ Done' = Done /\ Undone' = Undone
  BY <1>3, ServicesQuiet DEF IInv
<1>7. trail \in [Transfers \X StepKinds \X Steps ->
                   ActionStatuses \cup RollbackStatuses \cup {Absent}]
  BY DEF IInv, SagaTypes, StoreTypeOK
<1>8. Onwards
  <2>1. ASSUME NEW u \in Transfers, NEW kind \in StepKinds, NEW s \in Steps,
               Row(u, kind, s) # Absent
        PROVE  Row(u, kind, s)' = Row(u, kind, s)
    <3>1. <<u, kind, s>> \in Transfers \X StepKinds \X Steps
      OBVIOUS
    <3>2. <<u, kind, s>> # <<t, KindOf(type), StepOf(type)>>
      BY <1>3, <2>1 DEF Row, Decision
    <3>3. QED
      BY <1>3, <1>7, <3>1, <3>2 DEF Row
  <2>2. QED
    BY <1>3, <1>6, <2>1 DEF Onwards
<1>9. SagaTypes'
  <2>1. trail' \in [Transfers \X StepKinds \X Steps ->
                      ActionStatuses \cup RollbackStatuses \cup {Absent}]
    BY <1>3, <1>7
  <2>2. hand' \in [Consumers -> Hand]
    BY <1>5, Untouched
  <2>3. SagaTypes
    BY DEF IInv
  <2>4. QED
    BY <1>3, <2>1, <2>2, <2>3 DEF SagaTypes, StoreTypeOK
<1>10. \A q \in Consumers : q # p => hand'[q] = hand[q]
  BY <1>5, Untouched
<1>11. \A q \in Consumers : Holding(q)'
  <2>1. ASSUME NEW q \in Consumers, q # p
        PROVE  Holding(q)'
    <3>1. \A i \in 1..Len(queue[q]) : queue[q][i].type \in Topology(q)
      BY DEF IInv, Holding
    <3>2. hand'[q] = hand[q]
      BY <1>10, <2>1
    <3>3. QED
      BY <1>3, <1>8, <3>1, <3>2, HoldingStays
  <2>2. Holding(p)'
    <3>1. Holding(p) /\ queue[p] # <<>> /\ <<p, Current(p)>> \in claimed
      BY <1>3, AtCall, AtWork
    <3>2. Current(p)' = Current(p) /\ p \notin {"projector", "audit"}
      BY <1>3, <1>4 DEF Current, Workers
    <3>3. QED
      BY <1>3, <1>4, <1>5, <3>1, <3>2 DEF Holding, At
  <2>3. QED
    BY <2>1, <2>2
<1>12. \A q \in Workers : Working(q)'
  <2>1. ASSUME NEW q \in Workers, q # p
        PROVE  Working(q)'
    <3>1. q \in Consumers
      BY ChoreographyAssumption
    <3>2. hand'[q] = hand[q] /\ queue'[q] = queue[q] /\ Working(q)
      BY <1>3, <1>10, <2>1, <3>1, AtWork
    <3>3. Current(q)' = Current(q)
      BY <3>2 DEF Current
    <3>4. ASSUME hand[q].pc \in {"emit", "call", "record"}
          PROVE  /\ Current(q) \in Event
                 /\ Current(q).transfer \in Transfers
                 /\ Current(q).type # type
      <4>1. queue[q] # <<>> /\ queue[p] # <<>>
        BY <1>3, <3>1, <3>4, AtCall, AtWork DEF At
      <4>2. /\ Current(q) \in Event /\ Current(q).type \in Topology(q)
            /\ Current(q).transfer \in Transfers
            /\ type \in Topology(p)
        BY <1>1, <3>1, <4>1, InHand
      <4>3. QED
        BY <1>4, <2>1, <4>2, OneWorkerEach
    <3>5. ASSUME hand[q].pc \in {"emit", "call", "record"}, Current(q).type \in WorkTypes
          PROVE  Decision(Current(q).transfer, Current(q).type)' =
                   Decision(Current(q).transfer, Current(q).type)
      <4>1. PICK u \in Transfers, other \in WorkTypes :
              u = Current(q).transfer /\ other = Current(q).type /\ other # type
        BY <3>4, <3>5
      <4>2. Decision(u, other)' = Decision(u, other)
        BY <1>3, <4>1
      <4>3. u = Current(q)'.transfer /\ other = Current(q)'.type
        BY <3>3, <4>1
      <4>4. QED
        BY <4>1, <4>2, <4>3 DEF Decision
    <3>6. \A i \in 1..Len(hand[q].todo) :
            Emitted(Current(q).transfer, hand[q].todo[i])' =>
              Emitted(Current(q).transfer, hand[q].todo[i])
      BY <1>3, <3>2, <3>3 DEF Emitted
    <3>7. QED
      BY <1>8, <3>2, <3>3, <3>4, <3>5, <3>6, WorkingStays
  <2>2. QED
    BY <1>5, <2>1
<1>13. Unique' /\ Caused'
  BY <1>3, <1>8, LineageStays
<1>14. Written'
  <2>1. Written
    BY DEF IInv, Lineage
  <2>2. \A u \in Transfers, other \in WorkTypes : Taken(u, other)' <=> Taken(u, other)
    BY <1>3 DEF Taken
  <2>3. ASSUME NEW u \in Transfers, NEW other \in WorkTypes
        PROVE  /\ Decision(u, other)' # Absent => Taken(u, other)'
               /\ other \in DOMAIN Executes =>
                    Decision(u, other)' \in {"EXECUTED", "FAILED", Absent}
               /\ other \in DOMAIN Compensates =>
                    Decision(u, other)' \in RollbackStatuses \cup {Absent}
    <3>1. CASE u = t /\ other = type
      BY <1>3, <1>4, <2>2, <3>1 DEF RollbackStatuses
    <3>2. CASE u # t \/ other # type
      BY <1>3, <2>1, <2>2, <3>2 DEF Written
    <3>3. QED
      BY <3>1, <3>2
  <2>4. QED
    BY <1>3, <2>1, <2>3 DEF Written
<1>15. Launched'
  BY <1>3 DEF IInv, Lineage, Launched, Launching, Emitted
<1>16. Audited'
  <2>1. Audited
    BY DEF IInv, Services
  <2>2. ASSUME NEW u \in Transfers, NEW s \in Steps
        PROVE  /\ trail'[<<u, "ACTION", s>>] = "EXECUTED" => s \in Done[u]
               /\ trail'[<<u, "COMPENSATION", s>>] = "COMPENSATED" => s \in Undone[u]
    <3>1. /\ <<u, "ACTION", s>> \in Transfers \X StepKinds \X Steps
          /\ <<u, "COMPENSATION", s>> \in Transfers \X StepKinds \X Steps
      BY DEF StepKinds
    <3>2. /\ status = "EXECUTED" => KindOf(type) = "ACTION" /\ outcome = "OK"
          /\ status = "COMPENSATED" => KindOf(type) = "COMPENSATION" /\ outcome = "OK"
      BY <1>3, WorkTable
    <3>3. outcome = "OK" =>
            StepOf(type) \in IF KindOf(type) = "ACTION" THEN Done[t] ELSE Undone[t]
      BY <1>1, <1>2, <1>3, <1>4, AtWork DEF Working
    <3>4. QED
      BY <1>3, <1>7, <2>1, <3>1, <3>2, <3>3 DEF Audited
  <2>3. QED
    BY <1>6, <2>2 DEF Audited
<1>17. /\ Ordered' /\ Asked'
       /\ \A m \in late' : Carried(m)'
  BY <1>3, <1>6 DEF IInv, Services, Ordered, Asked, Carried, Requested, Emitted
<1>18. Verdicts'
  <2>1. "projector" \in Consumers => hand'["projector"] = hand["projector"]
    BY <1>4, <1>10 DEF Workers
  <2>2. QED
    BY <1>3, <1>8, <2>1, Untouched, VerdictsStay DEF At
<1>19. QED
  BY <1>6, <1>9, <1>11, <1>12, <1>13, <1>14, <1>15, <1>16, <1>17, <1>18
     DEF IInv, Lineage, Services

-----------------------------------------------------------------------------
(* The projector tells, the audit stores.                                  *)

\* What an observer holds while it works.
LEMMA AtObserver ==
  ASSUME IInv, NEW p \in Consumers, hand[p].pc \in {"project", "tell", "store"}
  PROVE  /\ p \notin Workers
         /\ hand[p].pc \in {"project", "tell"} => p = "projector"
         /\ hand[p].pc = "store" => p = "audit"
         /\ queue[p] # <<>> /\ <<p, Current(p)>> \in claimed
         /\ Current(p) \in emitted /\ Current(p).transfer \in Transfers
         /\ hand[p].pc = "tell" => execution[Current(p).transfer] # Absent
<1>1. Holding(p) /\ p \in Workers \cup Observers /\ ~At(p, "idle")
  BY AtWork DEF At
<1>2. queue[p] # <<>> /\ <<p, Current(p)>> \in claimed
  BY <1>1 DEF Holding
<1>3. p \notin Workers
  BY <1>1 DEF Holding
<1>4. /\ hand[p].pc \in {"project", "tell"} => p = "projector"
      /\ hand[p].pc = "store" => p = "audit"
  BY <1>1, <1>3 DEF Holding, Observers
<1>5. QED
  BY <1>1, <1>2, <1>3, <1>4, InHand DEF Holding, At

\* It moves on to its acknowledgement.
LEMMA ObserverMoves ==
  ASSUME IInv, NEW p \in Consumers, hand[p].pc \in {"project", "tell", "store"},
         hand' = [hand EXCEPT ![p].pc = "ack"], UNCHANGED <<queue, claimed, emitted>>
  PROVE  /\ hand' = [hand EXCEPT ![p] = hand'[p]] /\ hand'[p] \in Hand
         /\ hand'[p].pc = "ack" /\ Holding(p)'
<1>1. hand \in [Consumers -> Hand] /\ hand[p] \in Hand /\ Holding(p)
  BY AtWork
<1>2. /\ hand' = [hand EXCEPT ![p] = hand'[p]] /\ hand'[p] \in Hand
      /\ hand'[p].pc = "ack"
  BY <1>1 DEF Hand
<1>3. queue[p] # <<>> /\ <<p, Current(p)>> \in claimed /\ p \notin Workers
  BY AtObserver
<1>4. Holding(p)'
  BY <1>1, <1>2, <1>3 DEF Holding, At, Current
<1>5. QED
  BY <1>2, <1>4

\* The status just written is announced.
LEMMA TellKeeps ==
  ASSUME IInv, NEW p \in Consumers, Tell(p)
  PROVE  IInv'
<1>1. /\ hand[p].pc = "tell" /\ hand' = [hand EXCEPT ![p].pc = "ack"]
      /\ Announce(Current(p).transfer, execution[Current(p).transfer].status)
      /\ UNCHANGED <<request, services, execution, trail, start, queue, emitted, claimed,
                     log, late, timeouts, repeats, losses>>
  BY DEF Tell, At, bus, bounds
<1>2. \A status : GatewayStatus(status) \in PublicStatuses
  BY DEF GatewayStatus, PublicStatuses
<1>3. announced' \in [Transfers -> PublicStatuses]
  BY <1>1, <1>2, Untouched DEF Announce
<1>4. p \notin Workers
  BY <1>1, AtObserver
<1>5. /\ hand' = [hand EXCEPT ![p] = hand'[p]] /\ hand'[p] \in Hand
      /\ hand'[p].pc = "ack" /\ Holding(p)'
  BY <1>1, ObserverMoves
<1>6. At(p, "project")' <=> At(p, "project")
  BY <1>1, <1>5 DEF At
<1>7. QED
  BY <1>1, <1>3, <1>4, <1>5, <1>6, Untouched, SideStep

\* The event is stored.
LEMMA StoreKeeps ==
  ASSUME IInv, NEW p \in Consumers, Store(p)
  PROVE  IInv'
<1>1. /\ hand[p].pc = "store" /\ hand' = [hand EXCEPT ![p].pc = "ack"]
      /\ log' = log \cup {Current(p)}
      /\ UNCHANGED <<request, services, execution, trail, announced, start, queue, emitted,
                     claimed, late, timeouts, repeats, losses>>
  BY DEF Store, At, bus, bounds, saga
<1>2. p \notin Workers /\ p = "audit" /\ Current(p) \in emitted
  BY <1>1, AtObserver
<1>3. log' \subseteq emitted
  BY <1>1, <1>2, Untouched
<1>4. /\ hand' = [hand EXCEPT ![p] = hand'[p]] /\ hand'[p] \in Hand
      /\ hand'[p].pc = "ack" /\ Holding(p)'
  BY <1>1, ObserverMoves
<1>5. QED
  BY <1>1, <1>2, <1>3, <1>4, Untouched, SideStep

-----------------------------------------------------------------------------
(* The message leaves the hand.                                            *)

\* Whoever lets its first message go keeps nothing of it.
LEMMA Released ==
  ASSUME IInv, NEW p \in Consumers, queue[p] # <<>>,
         hand'[p] = Idle, UNCHANGED <<claimed, emitted>>,
         queue'[p] = queue[p] \/ queue'[p] = Tail(queue[p])
  PROVE  /\ Idle \in Hand /\ Holding(p)'
         /\ p \in Workers => Working(p)'
<1>1. Idle \in Hand /\ Idle.pc = "idle" /\ Idle.link = "sound"
  BY FirstAttempt DEF Idle
<1>2. Holding(p) /\ queue[p] \in Seq(emitted)
  BY AtWork, Untouched
<1>3. \A i \in 1..Len(queue'[p]) : queue'[p][i].type \in Topology(p)
  <2>1. \A i \in 1..Len(queue[p]) : queue[p][i].type \in Topology(p)
    BY <1>2 DEF Holding
  <2>2. Len(queue[p]) > 0
    BY <1>2, InHand
  <2>3. \A i \in 1..Len(Tail(queue[p])) :
          i + 1 \in 1..Len(queue[p]) /\ Tail(queue[p])[i] = queue[p][i + 1]
    BY <1>2, <2>2
  <2>4. QED
    BY <2>1, <2>3
<1>4. Holding(p)'
  BY <1>1, <1>2, <1>3 DEF Holding, At
<1>5. Working(p)'
  BY <1>1 DEF Working
<1>6. QED
  BY <1>1, <1>4, <1>5

\* What settling a message does to the queues and the hands.
LEMMA Settled ==
  ASSUME IInv, NEW p \in Consumers, queue[p] # <<>>, Settle(p)
  PROVE  /\ hand' = [hand EXCEPT ![p] = hand'[p]] /\ hand'[p] = Idle
         /\ queue' \in [Consumers -> Seq(emitted)]
         /\ \A q \in Consumers \ {p} : queue'[q] = queue[q]
         /\ queue'[p] = queue[p] \/ queue'[p] = Tail(queue[p])
         /\ emitted' = emitted
<1>1. /\ queue' = IF hand[p].link = "sound" THEN [queue EXCEPT ![p] = Tail(@)] ELSE queue
      /\ hand' = [hand EXCEPT ![p] = Idle] /\ emitted' = emitted
  BY DEF Settle
<1>2. queue \in [Consumers -> Seq(emitted)] /\ hand \in [Consumers -> Hand]
  BY Untouched
<1>3. Tail(queue[p]) \in Seq(emitted)
  BY <1>2
<1>4. QED
  BY <1>1, <1>2, <1>3

\* A handled message is acknowledged.
LEMMA AckKeeps ==
  ASSUME IInv, NEW p \in Consumers, Ack(p)
  PROVE  IInv'
<1>1. /\ hand[p].pc = "ack" /\ Settle(p)
      /\ UNCHANGED <<request, services, execution, trail, announced, start,
                     claimed, log, late, timeouts, repeats, losses>>
  BY DEF Ack, At, saga, bounds
<1>2. queue[p] # <<>> /\ <<p, Current(p)>> \in claimed
  BY <1>1, AtWork DEF At
<1>3. /\ hand' = [hand EXCEPT ![p] = hand'[p]] /\ hand'[p] = Idle
      /\ queue' \in [Consumers -> Seq(emitted)]
      /\ \A q \in Consumers \ {p} : queue'[q] = queue[q]
      /\ queue'[p] = queue[p] \/ queue'[p] = Tail(queue[p])
      /\ emitted' = emitted
  BY <1>1, <1>2, Settled
<1>4. /\ Idle \in Hand /\ Holding(p)'
      /\ p \in Workers => Working(p)'
  BY <1>1, <1>2, <1>3, Released
<1>5. CASE p # "projector"
  BY <1>1, <1>3, <1>4, <1>5, Untouched, SideStep
<1>6. ASSUME p = "projector"
      PROVE  Verdicts'
  <2>1. Onwards
    BY <1>1, <1>3, QuietOnwards
  <2>2. queue[p] \in Seq(emitted) /\ Len(queue[p]) \in Nat /\ Len(queue[p]) > 0
        /\ Current(p) = queue[p][1]
    BY <1>2, InHand
  <2>3. ASSUME NEW t \in Transfers, NEW i \in 1..Len(queue[p]), FailureAhead(t, i)
        PROVE  /\ i # 1 /\ <<"projector", queue[p][i]>> \notin claimed
               /\ queue[p][i].transfer = t /\ queue[p][i].type = "TransferFailed"
    BY <1>1, <1>2, <1>6, <2>2, <2>3 DEF FailureAhead, At
  <2>4. CASE queue'[p] = queue[p]
    <3>1. ASSUME NEW t \in Transfers, NEW i \in 1..Len(queue[p]), FailureAhead(t, i)
          PROVE  \E k \in 1..Len(queue'[p]) : k + 0 <= i /\ FailureAhead(t, k)'
      <4>1. FailureAhead(t, i)'
        BY <1>1, <1>6, <2>3, <2>4, <3>1 DEF FailureAhead
      <4>2. QED
        BY <2>4, <4>1
    <3>2. Len(queue'[p]) + 0 = Len(queue[p])
          /\ \A i \in 1..Len(queue'[p]) : queue'[p][i] = queue[p][i + 0]
      BY <2>2, <2>4
    <3>3. QED
      BY <1>1, <1>3, <1>6, <2>1, <3>1, <3>2, Untouched, AheadStays
  <2>5. CASE queue'[p] = Tail(queue[p])
    <3>1. Len(queue'[p]) + 1 = Len(queue[p])
          /\ \A i \in 1..Len(queue'[p]) : queue'[p][i] = queue[p][i + 1]
      BY <2>2, <2>5
    <3>2. ASSUME NEW t \in Transfers, NEW i \in 1..Len(queue[p]), FailureAhead(t, i)
          PROVE  \E k \in 1..Len(queue'[p]) : k + 1 <= i /\ FailureAhead(t, k)'
      <4>1. PICK k \in 1..Len(queue'[p]) : k + 1 = i
        <5>1. i # 1
          BY <2>3, <3>2
        <5>2. Len(queue'[p]) \in Nat
          BY <2>2, <2>5
        <5>3. i - 1 \in 1..Len(queue'[p]) /\ (i - 1) + 1 = i
          BY <2>2, <3>1, <5>1, <5>2
        <5>4. QED
          BY <5>3
      <4>2. /\ <<"projector", queue[p][i]>> \notin claimed
            /\ queue[p][i].transfer = t /\ queue[p][i].type = "TransferFailed"
            /\ queue'[p][k] = queue[p][i]
        BY <2>3, <3>1, <3>2, <4>1
      <4>3. FailureAhead(t, k)'
        BY <1>1, <1>6, <4>2 DEF FailureAhead
      <4>4. QED
        BY <4>1, <4>3
    <3>3. QED
      BY <1>1, <1>3, <1>6, <2>1, <3>1, <3>2, Untouched, AheadStays
  <2>6. QED
    BY <1>3, <2>4, <2>5
<1>7. ASSUME p = "projector"
      PROVE  IInv'
  <2>1. /\ hand' \in [Consumers -> Hand]
        /\ \A q \in Consumers \ {p} : hand'[q] = hand[q]
    BY <1>3, <1>4, Untouched
  <2>2. p \notin Workers
    BY <1>7 DEF Workers
  <2>3. QED
    BY <1>1, <1>3, <1>4, <1>6, <1>7, <2>1, <2>2, Untouched, HandStep
<1>8. QED
  BY <1>5, <1>7

\* A message whose acknowledgement is lost comes again.
LEMMA AckLostKeeps ==
  ASSUME IInv, NEW p \in Consumers, AckLost(p)
  PROVE  IInv'
<1>1. /\ hand[p].pc = "ack" /\ hand' = [hand EXCEPT ![p] = Idle]
      /\ repeats < MaxRepeats /\ repeats' = repeats + 1
      /\ UNCHANGED <<request, services, execution, trail, announced, start, queue, emitted,
                     claimed, log, late, timeouts, losses>>
  BY DEF AckLost, At, saga, bus, MayRepeat
<1>2. queue[p] # <<>>
  BY <1>1, AtWork DEF At
<1>3. hand' = [hand EXCEPT ![p] = hand'[p]] /\ hand'[p] = Idle
  BY <1>1, Untouched
<1>4. /\ Idle \in Hand /\ Holding(p)'
      /\ p \in Workers => Working(p)'
  BY <1>1, <1>2, <1>3, Released
<1>5. At(p, "project")' <=> At(p, "project")
  BY <1>1, <1>3 DEF At, Idle
<1>6. repeats' \in 0..MaxRepeats
  BY <1>1, Untouched, ChoreographyAssumption
<1>7. QED
  BY <1>1, <1>3, <1>4, <1>5, <1>6, Untouched, SideStep

\* A handler that raises drops its message.
LEMMA RaiseKeeps ==
  ASSUME IInv, NEW p \in Consumers, Raise(p)
  PROVE  IInv'
<1>1. /\ Waiting(p) \/ hand[p].pc \in {"record", "emit", "project", "store"}
      /\ Settle(p)
      /\ losses < MaxLosses /\ losses' = losses + 1
      /\ UNCHANGED <<request, services, execution, trail, announced, start,
                     claimed, log, late, timeouts, repeats>>
  BY DEF Raise, saga, MayLose
<1>2. queue[p] # <<>>
  BY <1>1, AtWork DEF Waiting, At
<1>3. /\ hand' = [hand EXCEPT ![p] = hand'[p]] /\ hand'[p] = Idle
      /\ queue' \in [Consumers -> Seq(emitted)]
      /\ \A q \in Consumers \ {p} : queue'[q] = queue[q]
      /\ queue'[p] = queue[p] \/ queue'[p] = Tail(queue[p])
      /\ emitted' = emitted
  BY <1>1, <1>2, Settled
<1>4. /\ Idle \in Hand /\ Holding(p)'
      /\ p \in Workers => Working(p)'
  BY <1>1, <1>2, <1>3, Released
<1>5. losses' \in 0..MaxLosses /\ losses' # 0
  BY <1>1, Untouched, ChoreographyAssumption
<1>6. QED
  BY <1>1, <1>3, <1>4, <1>5, Untouched, SideStep

-----------------------------------------------------------------------------
(* The projector projects.                                                 *)

\* What an outcome can be.
LEMMA Outcomes ==
  ASSUME NEW error
  PROVE  /\ OutcomeFor(error) \in {"REJECTED_FUNDS", "REJECTED_RISK", "REJECTED_NETWORK", "FAILED"}
         /\ OutcomeFor(error) = "REJECTED_FUNDS" <=> error = "INSUFFICIENT_FUNDS"
  BY DEF OutcomeFor

\* What an event makes of a row.
LEMMA ProjectedRow ==
  ASSUME NEW row \in Execution, NEW e \in Event, e.type \notin Silent
  PROVE  LET next == Projected(row, e) IN
         /\ next \in Execution
         /\ next.error = IF e.type = "TransferFailed" THEN e.error ELSE row.error
         /\ e.type = "TransferCompleted" => next.finished
         /\ next.status = "COMPLETED" <=> e.type = "TransferCompleted"
         /\ e.type = "TransferFailed" /\ e.error = "INSUFFICIENT_FUNDS" =>
              /\ next.finished /\ next.status = "REJECTED_FUNDS"
              /\ next.compensation = "NOT_REQUIRED"
         /\ e.type = "TransferFailed" /\ e.error # "INSUFFICIENT_FUNDS" =>
              next.finished = row.finished
         /\ e.type = "TransferCompensated" =>
              /\ next.finished /\ next.compensation = "COMPENSATED"
              /\ next.status = OutcomeFor(row.error)
         /\ e.type \notin {"TransferCompleted", "TransferFailed", "TransferCompensated"} =>
              next.finished = row.finished
<1> DEFINE next == Projected(row, e)
<1>1. DOMAIN StatusOn = {"TransferRequested", "BalanceDebited", "RiskApproved",
                         "ClearingRequested", "ClearingCompleted"}
      /\ \A type \in DOMAIN StatusOn :
           StatusOn[type] \in {"PENDING", "DEBITED", "RISK_APPROVED", "CLEARING_PENDING"}
  BY DEF StatusOn
<1>2. RollbackEvents = {"RiskRejected", "DebitCompensationRequested",
                        "RiskCompensationRequested", "ClearingCompensationRequested"}
  BY WorkTable DEF RollbackEvents
<1>3. /\ row.status \in SagaStatuses /\ row.compensation \in CompensationStatuses
      /\ row.current \in Steps \cup {"NONE"} /\ row.error \in ErrorCodes \cup {"NONE"}
      /\ row.finished \in BOOLEAN
      /\ row = [status |-> row.status, compensation |-> row.compensation,
                current |-> row.current, error |-> row.error, finished |-> row.finished]
      /\ e.error \in ErrorCodes \cup {"NONE"} /\ e.type \in EventTypes
  BY DEF Execution, Event
<1>4. CASE e.type \in DOMAIN StatusOn
  <2>1. PICK status \in {"PENDING", "DEBITED", "RISK_APPROVED", "CLEARING_PENDING"} :
          status = StatusOn[e.type]
    BY <1>1, <1>4
  <2>2. next = [row EXCEPT !.status = status]
    BY <1>1, <1>2, <1>4, <2>1 DEF Projected
  <2>3. status \in SagaStatuses
    BY DEF SagaStatuses
  <2>4. next \in Execution
    BY <1>3, <2>2, <2>3 DEF Execution
  <2>5. /\ next.status = status /\ next.error = row.error /\ next.finished = row.finished
    BY <1>3, <2>2
  <2>6. e.type \notin {"TransferCompleted", "TransferFailed", "TransferCompensated"}
    BY <1>1, <1>4
  <2>7. QED
    BY <2>1, <2>4, <2>5, <2>6
<1>5. CASE e.type = "TransferCompleted"
  <2>1. next = [row EXCEPT !.status = "COMPLETED", !.compensation = "NOT_REQUIRED",
                           !.error = row.error, !.finished = TRUE]
    BY <1>1, <1>2, <1>5 DEF Projected, Closed
  <2>2. QED
    BY <1>3, <1>5, <2>1 DEF Execution, SagaStatuses, TerminalStatuses, CompensationStatuses
<1>6. CASE e.type = "TransferFailed" /\ e.error = "INSUFFICIENT_FUNDS"
  <2>1. next = [row EXCEPT !.status = "REJECTED_FUNDS", !.compensation = "NOT_REQUIRED",
                           !.error = e.error, !.finished = TRUE]
    BY <1>1, <1>2, <1>6, Outcomes DEF Projected, Closed
  <2>2. QED
    BY <1>3, <1>6, <2>1 DEF Execution, SagaStatuses, TerminalStatuses, CompensationStatuses
<1>7. CASE e.type = "TransferFailed" /\ e.error # "INSUFFICIENT_FUNDS"
  <2>1. next = [RollingBack(row) EXCEPT !.error = e.error]
    BY <1>1, <1>2, <1>7, Outcomes DEF Projected
  <2>2. RollingBack(row) = [row EXCEPT !.status = "COMPENSATING",
                                       !.compensation = "COMPENSATING"]
    BY DEF RollingBack
  <2>3. next = [status |-> "COMPENSATING", compensation |-> "COMPENSATING",
                current |-> row.current, error |-> e.error, finished |-> row.finished]
    BY <1>3, <2>1, <2>2
  <2>4. QED
    BY <1>3, <1>7, <2>3 DEF Execution, SagaStatuses, TerminalStatuses, CompensationStatuses
<1>8. CASE e.type \in RollbackEvents
  <2>1. next = RollingBack(row)
    BY <1>1, <1>2, <1>8 DEF Projected
  <2>2. next = [row EXCEPT !.status = "COMPENSATING", !.compensation = "COMPENSATING"]
    BY <2>1 DEF RollingBack
  <2>3. QED
    BY <1>2, <1>3, <1>8, <2>2 DEF Execution, SagaStatuses, CompensationStatuses
<1>9. CASE e.type = "TransferCompensated"
  <2>1. PICK outcome \in {"REJECTED_FUNDS", "REJECTED_RISK", "REJECTED_NETWORK", "FAILED"} :
          outcome = OutcomeFor(row.error)
    BY Outcomes
  <2>2. next = [row EXCEPT !.status = outcome, !.compensation = "COMPENSATED",
                           !.error = row.error, !.finished = TRUE]
    BY <1>1, <1>2, <1>9, <2>1 DEF Projected, Closed
  <2>3. QED
    BY <1>3, <1>9, <2>1, <2>2 DEF Execution, SagaStatuses, TerminalStatuses, CompensationStatuses
<1>10. QED
  BY <1>1, <1>2, <1>3, <1>4, <1>5, <1>6, <1>7, <1>8, <1>9 DEF EventTypes, Silent

\* Completed and failed exclude each other: the last step cannot have been
\* executed and another have failed.
LEMMA CompletedOrFailed ==
  ASSUME Caused, Written, emitted \subseteq Event, NEW t \in Transfers
  PROVE  ~(Emitted(t, "TransferCompleted") /\ Emitted(t, "TransferFailed"))
<1>1. SUFFICES ASSUME Emitted(t, "TransferCompleted"), Emitted(t, "TransferFailed")
               PROVE  FALSE
  OBVIOUS
<1>2. Meaning(t) /\ Chain(t)
  BY History
<1>3. "EXECUTED" # Absent
  BY AbsentAssumption DEF ActionStatuses
<1>4. \A s \in Steps : Row(t, "ACTION", s) = "EXECUTED"
  BY <1>1, <1>2, <1>3 DEF Meaning, Chain, Steps
<1>5. QED
  BY <1>1, <1>2, <1>4 DEF Meaning

\* What the projector does, with its message named.
Projects(p, e, t) ==
  /\ e = Current(p) /\ t = e.transfer /\ p = "projector" /\ hand[p].pc = "project"
  /\ hand'[p].pc \in {"ack", "tell"}
  /\ UNCHANGED <<request, services, trail, announced, start, queue, emitted, claimed, log,
                 late, timeouts, repeats, losses>>
  /\ queue[p] \in Seq(emitted) /\ Len(queue[p]) \in Nat /\ Len(queue[p]) > 0
  /\ queue[p][1] = e
  /\ \A u \in Transfers : u # t => execution'[u] = execution[u]
  /\ execution[t] \in Execution
  /\ execution[t].finished \/ e.type \in Silent => execution'[t] = execution[t]
  /\ ~(execution[t].finished \/ e.type \in Silent) =>
       execution'[t] = Projected(execution[t], e)

\* What projecting a message does.
LEMMA Projecting ==
  ASSUME IInv, NEW p \in Consumers, Project(p)
  PROVE  /\ hand' = [hand EXCEPT ![p] = hand'[p]] /\ hand'[p] \in Hand /\ Holding(p)'
         /\ execution' \in [Transfers -> Execution \cup {Absent}]
         /\ \A t \in Transfers : execution[t] # Absent <=> execution'[t] # Absent
         /\ \E e \in Event, t \in Transfers : e \in emitted /\ Projects(p, e, t)
<1>1. hand[p].pc = "project"
  BY DEF Project, At
<1>2. /\ p = "projector" /\ p \notin Workers /\ queue[p] # <<>>
      /\ <<p, Current(p)>> \in claimed
  BY <1>1, AtObserver
<1>3. PICK e \in emitted, t \in Transfers :
        /\ e = Current(p) /\ t = e.transfer /\ execution[t] # Absent /\ e \in Event
        /\ queue[p] \in Seq(emitted) /\ Len(queue[p]) \in Nat /\ Len(queue[p]) > 0
        /\ queue[p][1] = e
  BY <1>2, InHand
<1>4. /\ execution' = IF Ignored(e) THEN execution
                      ELSE [execution EXCEPT ![t] = Projected(@, e)]
      /\ hand' = [hand EXCEPT ![p].pc = IF Ignored(e) THEN "ack" ELSE "tell"]
      /\ UNCHANGED <<request, services, trail, announced, start, queue, emitted, claimed, log,
                     late, timeouts, repeats, losses>>
  BY <1>3 DEF Project, bus, bounds
<1>5. execution \in [Transfers -> Execution \cup {Absent}]
  BY Untouched
<1>6. Ignored(e) <=> execution[t].finished \/ e.type \in Silent
  BY <1>3 DEF Ignored, Finished
<1>7. execution[t] \in Execution
  BY <1>3, <1>5
<1>8. ~Ignored(e) => Projected(execution[t], e) \in Execution
  BY <1>3, <1>6, <1>7, ProjectedRow
<1>9. execution' \in [Transfers -> Execution \cup {Absent}]
  BY <1>4, <1>5, <1>8
<1>10. \A u \in Transfers : u # t => execution'[u] = execution[u]
  BY <1>4, <1>5
<1>11. /\ Ignored(e) => execution'[t] = execution[t]
       /\ ~Ignored(e) => execution'[t] = Projected(execution[t], e)
  BY <1>4, <1>5
<1>12. execution'[t] # Absent
  BY <1>7, <1>8, <1>11, AbsentAssumption
<1>13. hand \in [Consumers -> Hand] /\ hand[p] \in Hand /\ Holding(p)
  BY AtWork
<1>14. PICK pc \in {"ack", "tell"} : hand' = [hand EXCEPT ![p].pc = pc]
  BY <1>4
<1>15. /\ hand' = [hand EXCEPT ![p] = hand'[p]] /\ hand'[p] \in Hand
       /\ hand'[p].pc = pc
  BY <1>13, <1>14 DEF Hand
<1>16. Current(p)' = Current(p)
  BY <1>4 DEF Current
<1>17. Holding(p)'
  BY <1>2, <1>3, <1>4, <1>12, <1>13, <1>15, <1>16 DEF Holding, At
<1>18. Projects(p, e, t)
  BY <1>1, <1>2, <1>3, <1>4, <1>6, <1>7, <1>10, <1>11, <1>15 DEF Projects
<1>19. QED
  BY <1>3, <1>9, <1>10, <1>12, <1>15, <1>17, <1>18

\* The row keeps telling what the events told.
LEMMA ProjectionStays ==
  ASSUME IInv, NEW p \in Consumers, NEW e \in emitted, NEW t \in Transfers, Projects(p, e, t)
  PROVE  Projection' /\ (execution'[t].error = "NONE" => execution[t].error = "NONE")
<1>1. /\ t = e.transfer /\ p = "projector"
      /\ UNCHANGED <<trail, emitted, losses, queue>>
      /\ Len(queue[p]) > 0 /\ Len(queue[p]) \in Nat /\ queue[p][1] = e
      /\ \A u \in Transfers : u # t => execution'[u] = execution[u]
      /\ execution[t] \in Execution
      /\ execution[t].finished \/ e.type \in Silent => execution'[t] = execution[t]
      /\ ~(execution[t].finished \/ e.type \in Silent) =>
           execution'[t] = Projected(execution[t], e)
  BY DEF Projects
<1>2. Projection /\ InTime /\ Unique /\ emitted \subseteq Event
  BY DEF IInv, Verdicts, Lineage, SagaTypes
<1>3. execution[t] # Absent /\ losses \in Nat
  BY <1>1, Untouched, AbsentAssumption
<1>4. /\ \A u, type : Emitted(u, type)' <=> Emitted(u, type)
      /\ \A u \in Transfers : RiskFailed(u)' <=> RiskFailed(u)
  BY <1>1 DEF Emitted, RiskFailed, Row
<1>5. ASSUME ~(execution[t].finished \/ e.type \in Silent)
      PROVE  LET row == execution'[t] IN
             /\ row.error # "NONE" =>
                  \E f \in emitted : /\ f.transfer = t /\ f.type = "TransferFailed"
                                     /\ f.error = row.error
             /\ ~row.finished => row.status # "COMPLETED" /\ row.error # "INSUFFICIENT_FUNDS"
             /\ row.finished =>
                  \/ row.status = "COMPLETED" /\ Emitted(t, "TransferCompleted")
                  \/ /\ row.status = "REJECTED_FUNDS" /\ row.compensation = "NOT_REQUIRED"
                     /\ row.error = "INSUFFICIENT_FUNDS"
                  \/ /\ row.status = OutcomeFor(row.error) /\ row.compensation = "COMPENSATED"
                     /\ row.status # "REJECTED_FUNDS" /\ row.status # "COMPLETED"
                     /\ Emitted(t, "TransferCompensated")
                     /\ row.error = "NONE" => RiskFailed(t) \/ losses > 0
             /\ row.error = "NONE" => execution[t].error = "NONE"
  <2>1. PICK old \in Execution, new \in Execution :
          /\ old = execution[t] /\ new = execution'[t]
          /\ new.error = IF e.type = "TransferFailed" THEN e.error ELSE old.error
          /\ e.type = "TransferCompleted" => new.finished
          /\ new.status = "COMPLETED" <=> e.type = "TransferCompleted"
          /\ e.type = "TransferFailed" /\ e.error = "INSUFFICIENT_FUNDS" =>
               /\ new.finished /\ new.status = "REJECTED_FUNDS"
               /\ new.compensation = "NOT_REQUIRED"
          /\ e.type = "TransferFailed" /\ e.error # "INSUFFICIENT_FUNDS" =>
               new.finished = old.finished
          /\ e.type = "TransferCompensated" =>
               /\ new.finished /\ new.compensation = "COMPENSATED"
               /\ new.status = OutcomeFor(old.error)
          /\ e.type \notin {"TransferCompleted", "TransferFailed", "TransferCompensated"} =>
               new.finished = old.finished
    BY <1>1, <1>2, <1>5, ProjectedRow
  <2>2. /\ old.error # "NONE" =>
             \E f \in emitted : /\ f.transfer = t /\ f.type = "TransferFailed"
                                /\ f.error = old.error
        /\ ~old.finished /\ old.error # "INSUFFICIENT_FUNDS"
    BY <1>2, <1>3, <1>5, <2>1 DEF Projection
  <2>3. e.type = "TransferFailed" => e.error # "NONE"
    BY <1>2 DEF Unique
  <2>4. Emitted(t, e.type)
    BY <1>1 DEF Emitted
  <2>5. ASSUME e.type = "TransferCompensated", old.error = "NONE"
        PROVE  RiskFailed(t) \/ losses > 0
    <3>1. SUFFICES ASSUME losses = 0, ~RiskFailed(t)
                   PROVE  FALSE
      BY <1>3
    <3>2. \A j \in 1..Len(queue[p]) :
            queue[p][j].transfer = t /\ queue[p][j].type = "TransferCompensated" =>
              \E i \in 1..Len(queue[p]) : i < j
      BY <1>1, <1>2, <1>3, <2>1, <2>5, <3>1 DEF InTime
    <3>3. 1 \in 1..Len(queue[p])
      BY <1>1
    <3>4. \E i \in 1..Len(queue[p]) : i < 1
      BY <1>1, <2>5, <3>2, <3>3
    <3>5. QED
      BY <1>1, <3>4
  <2>6. \A error : OutcomeFor(error) # "COMPLETED"
    BY Outcomes
  <2>7. old.error # "INSUFFICIENT_FUNDS" => OutcomeFor(old.error) # "REJECTED_FUNDS"
    BY Outcomes
  <2>8. CASE e.type = "TransferFailed"
    BY <1>1, <2>1, <2>2, <2>3, <2>8
  <2>9. CASE e.type = "TransferCompensated"
    BY <2>1, <2>2, <2>4, <2>5, <2>6, <2>7, <2>9
  <2>10. CASE e.type \notin {"TransferFailed", "TransferCompensated"}
    BY <2>1, <2>2, <2>4, <2>10
  <2>11. QED
    BY <2>8, <2>9, <2>10
<1>6. Projection'
  <2>1. ASSUME NEW u \in Transfers, execution'[u] # Absent
        PROVE  LET row == execution'[u] IN
               /\ row.error # "NONE" =>
                    \E f \in emitted : /\ f.transfer = u /\ f.type = "TransferFailed"
                                       /\ f.error = row.error
               /\ ~row.finished => row.status # "COMPLETED" /\ row.error # "INSUFFICIENT_FUNDS"
               /\ row.finished =>
                    \/ row.status = "COMPLETED" /\ Emitted(u, "TransferCompleted")
                    \/ /\ row.status = "REJECTED_FUNDS" /\ row.compensation = "NOT_REQUIRED"
                       /\ row.error = "INSUFFICIENT_FUNDS"
                    \/ /\ row.status = OutcomeFor(row.error) /\ row.compensation = "COMPENSATED"
                       /\ row.status # "REJECTED_FUNDS" /\ row.status # "COMPLETED"
                       /\ Emitted(u, "TransferCompensated")
                       /\ row.error = "NONE" => RiskFailed(u) \/ losses > 0
    <3>1. CASE execution'[u] = execution[u]
      BY <1>2, <2>1, <3>1 DEF Projection
    <3>2. CASE execution'[u] # execution[u]
      <4>1. u = t /\ ~(execution[t].finished \/ e.type \in Silent)
        BY <1>1, <3>2
      <4>2. QED
        BY <1>5, <4>1
    <3>3. QED
      BY <3>1, <3>2
  <2>2. QED
    BY <1>1, <1>4, <2>1 DEF Projection
<1>7. QED
  BY <1>1, <1>5, <1>6

\* A message is projected.
LEMMA ProjectKeeps ==
  ASSUME IInv, NEW p \in Consumers, Project(p)
  PROVE  IInv'
<1>1. /\ hand' = [hand EXCEPT ![p] = hand'[p]] /\ hand'[p] \in Hand /\ Holding(p)'
      /\ execution' \in [Transfers -> Execution \cup {Absent}]
      /\ \A t \in Transfers : execution[t] # Absent <=> execution'[t] # Absent
  BY Projecting
<1>2. PICK e \in emitted, t \in Transfers : Projects(p, e, t)
  BY Projecting
<1>3. /\ t = e.transfer /\ p = "projector" /\ hand[p].pc = "project"
      /\ hand'[p].pc \in {"ack", "tell"}
      /\ UNCHANGED <<request, services, trail, announced, start, queue, emitted, claimed, log,
                     late, timeouts, repeats, losses>>
      /\ Len(queue[p]) > 0 /\ Len(queue[p]) \in Nat /\ queue[p][1] = e
      /\ \A u \in Transfers : u # t => execution'[u] = execution[u]
      /\ execution[t] \in Execution
      /\ execution[t].finished \/ e.type \in Silent => execution'[t] = execution[t]
      /\ ~(execution[t].finished \/ e.type \in Silent) =>
           execution'[t] = Projected(execution[t], e)
  BY <1>2 DEF Projects
<1>4. Projection' /\ (execution'[t].error = "NONE" => execution[t].error = "NONE")
  BY <1>2, ProjectionStays
<1>5. /\ Explained /\ Named /\ Projection /\ InTime /\ Unique /\ Caused /\ Written
      /\ emitted \subseteq Event
  BY DEF IInv, Verdicts, Lineage, SagaTypes
<1>6. /\ \A u, type : Emitted(u, type)' <=> Emitted(u, type)
      /\ \A u \in Transfers : RiskFailed(u)' <=> RiskFailed(u)
      /\ \A u \in Transfers, s \in Steps : Row(u, "ACTION", s)' = Row(u, "ACTION", s)
  BY <1>3 DEF Emitted, RiskFailed, Row
<1>7. Explained' /\ Named'
  BY <1>3, <1>5, <1>6 DEF Explained, Named, Row
<1>8. ASSUME losses = 0, execution'[t].error = "NONE", ~RiskFailed(t)
      PROVE  e.type # "TransferFailed"
  <2>1. SUFFICES ASSUME e.type = "TransferFailed"
                 PROVE  FALSE
    OBVIOUS
  <2>2. e.error # "NONE" /\ Emitted(t, "TransferFailed")
    BY <1>3, <1>5, <2>1 DEF Unique, Emitted
  <2>3. execution[t].finished
    BY <1>3, <1>5, <1>8, <2>1, <2>2, ProjectedRow DEF Silent
  <2>4. execution[t] # Absent /\ execution[t].error = "NONE"
    BY <1>3, <1>4, <1>8, AbsentAssumption
  <2>5. Emitted(t, "TransferCompleted")
    BY <1>5, <1>8, <2>3, <2>4 DEF Projection
  <2>6. QED
    BY <1>5, <2>2, <2>5, CompletedOrFailed
<1>9. InTime'
  <2>1. SUFFICES ASSUME losses = 0, NEW u \in Transfers,
                        execution'[u] # Absent, execution'[u].error = "NONE", ~RiskFailed(u)
                 PROVE  /\ Emitted(u, "TransferFailed") =>
                             \E i \in 1..Len(queue[p]) : FailureAhead(u, i)'
                        /\ \A j \in 1..Len(queue[p]) :
                             /\ queue[p][j].transfer = u
                             /\ queue[p][j].type = "TransferCompensated"
                             => \E i \in 1..Len(queue[p]) : i < j /\ FailureAhead(u, i)'
    BY <1>3, <1>6 DEF InTime
  <2>2. execution[u] # Absent /\ execution[u].error = "NONE"
    BY <1>1, <1>3, <1>4, <2>1
  <2>3. ASSUME NEW i \in 1..Len(queue[p]), FailureAhead(u, i)
        PROVE  FailureAhead(u, i)'
    <3>1. <<"projector", queue[p][i]>> \notin claimed
      <4>1. i = 1 => u = t /\ e.type = "TransferFailed"
        BY <1>3, <2>3 DEF FailureAhead
      <4>2. i # 1
        BY <1>8, <2>1, <4>1
      <4>3. QED
        BY <1>3, <2>3, <4>2 DEF FailureAhead
    <3>2. queue[p][i].transfer = u /\ queue[p][i].type = "TransferFailed"
      BY <1>3, <2>3 DEF FailureAhead
    <3>3. QED
      BY <1>3, <3>1, <3>2 DEF FailureAhead
  <2>4. /\ Emitted(u, "TransferFailed") => \E i \in 1..Len(queue[p]) : FailureAhead(u, i)
        /\ \A j \in 1..Len(queue[p]) :
             queue[p][j].transfer = u /\ queue[p][j].type = "TransferCompensated" =>
               \E i \in 1..Len(queue[p]) : i < j /\ FailureAhead(u, i)
    BY <1>3, <1>5, <2>1, <2>2 DEF InTime
  <2>5. QED
    BY <2>3, <2>4
<1>10. Verdicts'
  BY <1>4, <1>7, <1>9 DEF Verdicts
<1>11. /\ hand' \in [Consumers -> Hand]
       /\ \A q \in Consumers \ {p} : hand'[q] = hand[q]
       /\ p \notin Workers
  BY <1>1, <1>3, Untouched DEF Workers
<1>12. QED
  BY <1>1, <1>3, <1>10, <1>11, Untouched, HandStep

-----------------------------------------------------------------------------
(* The worker stops.                                                       *)

\* All its participants start again with empty hands; what they asked of their
\* services may still be executed.
LEMMA CrashKeeps ==
  ASSUME IInv, Crash
  PROVE  IInv'
<1>1. /\ hand' = [p \in Consumers |-> Idle]
      /\ late' = late \cup {InFlight(p) : p \in {x \in Consumers : Calling(x)}}
      /\ losses < MaxLosses /\ losses' = losses + 1
      /\ UNCHANGED <<request, services, execution, trail, announced, start, queue, emitted,
                     claimed, log, timeouts, repeats>>
  BY DEF Crash, MayLose, saga, bus
<1>2. ServiceTypes' /\ ServicesAgree' /\ Done' = Done /\ Undone' = Undone
  BY <1>1, ServicesQuiet DEF IInv
<1>3. Onwards
  BY <1>1, QuietOnwards
<1>4. losses' \in 0..MaxLosses /\ losses' # 0
  BY <1>1, Untouched, ChoreographyAssumption
<1>5. \A m \in late' \ late : m \in Message /\ Carried(m)
  <2>1. ASSUME NEW m \in late' \ late
        PROVE  m \in Message /\ Carried(m)
    <3>1. PICK p \in Consumers : Calling(p) /\ m = InFlight(p)
      BY <1>1, <2>1
    <3>2. hand[p].pc = "call"
      BY <3>1 DEF Calling, At
    <3>3. QED
      BY <3>1, <3>2, AbandonedInOrder
  <2>2. QED
    BY <2>1
<1>6. SagaTypes'
  <2>1. SagaTypes
    BY DEF IInv
  <2>2. hand' \in [Consumers -> Hand]
    BY <1>1, FirstAttempt
  <2>3. late' \subseteq Message
    BY <1>5, <2>1 DEF SagaTypes
  <2>4. QED
    BY <1>1, <1>4, <2>1, <2>2, <2>3 DEF SagaTypes, StoreTypeOK
<1>7. Idle.pc = "idle" /\ Idle.link = "sound"
  BY DEF Idle
<1>8. \A p \in Consumers : Holding(p)'
  <2>1. ASSUME NEW p \in Consumers
        PROVE  Holding(p)'
    <3>1. Holding(p) /\ hand'[p] = Idle
      BY <1>1, AtWork
    <3>2. QED
      BY <1>1, <1>7, <3>1 DEF Holding, At
  <2>2. QED
    BY <2>1
<1>9. \A p \in Workers : Working(p)'
  BY <1>1, <1>7, ChoreographyAssumption DEF Working
<1>10. Unique' /\ Caused' /\ Written'
  BY <1>1, <1>3, LineageStays, WrittenStays
<1>11. Launched'
  BY <1>1 DEF IInv, Lineage, Launched, Launching, Emitted
<1>12. Services'
  <2>1. Services
    BY DEF IInv
  <2>2. /\ Audited' /\ Ordered' /\ Asked'
        /\ \A t, s : Requested(t, s) => Requested(t, s)'
    BY <1>1, <1>2, <2>1 DEF Services, Audited, Ordered, Asked, Requested, Emitted
  <2>3. \A m \in late' : Carried(m)
    BY <1>5, <2>1 DEF Services
  <2>4. \A m \in late' : Carried(m)'
    BY <1>2, <2>2, <2>3 DEF Carried
  <2>5. QED
    BY <2>2, <2>4 DEF Services
<1>13. Verdicts'
  BY <1>1, <1>3, <1>4, VerdictsStay, ChoreographyAssumption
<1>14. QED
  BY <1>2, <1>6, <1>8, <1>9, <1>10, <1>11, <1>12, <1>13 DEF IInv, Lineage

-----------------------------------------------------------------------------
(* A call of start_choreographed_saga.                                     *)

\* The row a call registers.
LEMMA FirstRow == NewExecution \in Execution /\ NewExecution # Absent
<1>1. NewExecution \in Execution
  BY DEF NewExecution, Execution, SagaStatuses, CompensationStatuses, TerminalStatuses
<1>2. QED
  BY <1>1, AbsentAssumption

\* A step of a call that publishes nothing.
LEMMA StartStepKeeps ==
  ASSUME IInv,
         UNCHANGED <<request, services, trail, announced, queue, emitted, claimed, hand,
                     log, late, timeouts, repeats>>,
         start' \in [Starts -> {"new", "publish", "retry", "done", "failed"}],
         losses' \in 0..MaxLosses, losses' = 0 => losses = 0,
         execution' \in [Transfers -> Execution \cup {Absent}],
         \A t \in Transfers : \/ execution'[t] = execution[t]
                              \/ execution[t] = Absent /\ execution'[t] = NewExecution,
         Launched'
  PROVE  IInv'
<1>1. ServiceTypes' /\ ServicesAgree' /\ Done' = Done /\ Undone' = Undone
  BY ServicesQuiet DEF IInv
<1>2. NewExecution # Absent
  BY FirstRow
<1>3. Onwards
  BY <1>2, QuietOnwards
<1>4. SagaTypes'
  <2>1. SagaTypes
    BY DEF IInv
  <2>2. QED
    BY <2>1 DEF SagaTypes, StoreTypeOK
<1>5. \A p \in Consumers : Holding(p)'
  <2>1. ASSUME NEW p \in Consumers
        PROVE  Holding(p)'
    <3>1. \A i \in 1..Len(queue[p]) : queue[p][i].type \in Topology(p)
      BY DEF IInv, Holding
    <3>2. QED
      BY <1>3, <3>1, HoldingStays
  <2>2. QED
    BY <2>1
<1>6. \A p \in Workers : Working(p)'
  <2>1. ASSUME NEW p \in Workers
        PROVE  Working(p)'
    <3>1. p \in Consumers
      BY ChoreographyAssumption
    <3>2. Working(p)
      BY <3>1, AtWork
    <3>3. hand[p].pc \in {"emit", "call", "record"} => Current(p) \in Event
      BY <3>1, AtWork, InHand DEF At
    <3>4. /\ Current(p)' = Current(p)
          /\ Decision(Current(p).transfer, Current(p).type)' =
               Decision(Current(p).transfer, Current(p).type)
      BY DEF Current, Decision
    <3>5. \A i \in 1..Len(hand[p].todo) :
            Emitted(Current(p).transfer, hand[p].todo[i])' =>
              Emitted(Current(p).transfer, hand[p].todo[i])
      BY <3>4 DEF Emitted
    <3>6. QED
      BY <1>3, <3>2, <3>3, <3>4, <3>5, WorkingStays
  <2>2. QED
    BY <2>1
<1>7. Unique' /\ Caused' /\ Written'
  BY <1>3, LineageStays, WrittenStays
<1>8. Services'
  <2>1. Services
    BY DEF IInv
  <2>2. /\ Audited' /\ Ordered' /\ Asked'
        /\ \A t, s : Requested(t, s) => Requested(t, s)'
    BY <1>1, <2>1 DEF Services, Audited, Ordered, Asked, Requested, Emitted
  <2>3. QED
    BY <1>1, <2>1, <2>2 DEF Services, Carried
<1>9. Verdicts'
  <2>1. losses' \in Nat
    BY ChoreographyAssumption
  <2>2. QED
    BY <1>3, <2>1, VerdictsStay DEF At
<1>10. QED
  BY <1>1, <1>4, <1>5, <1>6, <1>7, <1>8, <1>9 DEF IInv, Lineage

\* A call registers a transfer nobody has registered.
LEMMA RegisterKeeps ==
  ASSUME IInv, NEW c \in Starts, Register(c)
  PROVE  IInv'
<1>1. PICK t \in Transfers : t = TransferOf[c]
  BY ChoreographyAssumption
<1>2. /\ start[c] = "new" /\ execution[t] = Absent
      /\ execution' = [execution EXCEPT ![t] = NewExecution]
      /\ start' = [start EXCEPT ![c] = "publish"]
      /\ UNCHANGED <<request, services, trail, announced, queue, emitted, claimed, hand,
                     log, late, timeouts, repeats, losses>>
  BY <1>1 DEF Register, bus, bounds
<1>3. /\ start \in [Starts -> {"new", "publish", "retry", "done", "failed"}]
      /\ Launched /\ Unique
  BY DEF IInv, SagaTypes, Lineage
<1>4. NewExecution \in Execution
  BY FirstRow
<1>5. /\ execution' \in [Transfers -> Execution \cup {Absent}]
      /\ \A u \in Transfers : \/ execution'[u] = execution[u]
                              \/ execution[u] = Absent /\ execution'[u] = NewExecution
  BY <1>2, <1>4, Untouched
<1>6. NewExecution # Absent /\ execution'[t] = NewExecution
  BY <1>2, <1>4, AbsentAssumption, Untouched
<1>7. Launched'
  <2>1. \A type : ~Emitted(t, type)
    BY <1>2, <1>3 DEF Unique, Emitted
  <2>2. \A u, type : Emitted(u, type)' <=> Emitted(u, type)
    BY <1>2 DEF Emitted
  <2>3. start'[c] = "publish" /\ Launching(c)'
    BY <1>2, <1>3 DEF Launching
  <2>4. \A d \in Starts : d # c => start'[d] = start[d]
    BY <1>2, <1>3
  <2>5. \A d \in Starts : Launching(d)' => d = c \/ Launching(d)
    BY <2>4 DEF Launching
  <2>6. \A d \in Starts : Launching(d) => TransferOf[d] # t
    BY <1>2, <1>3 DEF Launched
  <2>7. \A d \in Starts : TransferOf[d] \in Transfers
    BY ChoreographyAssumption
  <2>8. ASSUME NEW d \in Starts, Launching(d)'
        PROVE  /\ execution'[TransferOf[d]] # Absent
               /\ \A o \in Starts : Launching(o)' /\ TransferOf[o] = TransferOf[d] => o = d
               /\ start'[d] = "publish" => ~Emitted(TransferOf[d], "TransferRequested")'
               /\ start'[d] = "retry" => Emitted(TransferOf[d], "TransferRequested")'
    <3>1. CASE d = c
      BY <1>1, <1>6, <2>1, <2>2, <2>3, <2>5, <2>6, <3>1
    <3>2. CASE d # c
      <4>1. Launching(d) /\ TransferOf[d] # t
        BY <2>5, <2>6, <2>8, <3>2
      <4>2. execution'[TransferOf[d]] # Absent
        BY <1>3, <1>5, <1>6, <2>7, <4>1 DEF Launched
      <4>3. QED
        BY <1>1, <1>3, <2>2, <2>4, <2>5, <3>2, <4>1, <4>2 DEF Launched
    <3>3. QED
      BY <3>1, <3>2
  <2>9. QED
    BY <2>8 DEF Launched
<1>8. start' \in [Starts -> {"new", "publish", "retry", "done", "failed"}]
  BY <1>2, <1>3
<1>9. QED
  BY <1>2, <1>5, <1>7, <1>8, Untouched, StartStepKeeps

\* A call that ends, or finds the row there, publishes nothing more.
LEMMA CallEndsKeeps ==
  ASSUME IInv, NEW c \in Starts, ReplayStart(c) \/ FailToLaunch(c)
  PROVE  IInv'
<1>1. PICK where \in {"done", "failed"} :
        /\ start' = [start EXCEPT ![c] = where]
        /\ UNCHANGED <<request, services, execution, trail, announced, queue, emitted,
                       claimed, hand, log, late, timeouts, repeats>>
        /\ losses' = losses \/ (losses < MaxLosses /\ losses' = losses + 1)
  BY DEF ReplayStart, FailToLaunch, saga, bus, bounds, MayLose
<1>2. /\ start \in [Starts -> {"new", "publish", "retry", "done", "failed"}]
      /\ Launched
  BY DEF IInv, SagaTypes, Lineage
<1>3. start' \in [Starts -> {"new", "publish", "retry", "done", "failed"}]
  BY <1>1, <1>2
<1>4. \A d \in Starts : Launching(d)' => Launching(d) /\ start'[d] = start[d]
  BY <1>1, <1>2 DEF Launching
<1>5. Launched'
  BY <1>1, <1>2, <1>4 DEF Launched, Emitted
<1>6. losses' \in 0..MaxLosses /\ (losses' = 0 => losses = 0)
  BY <1>1, Untouched, ChoreographyAssumption
<1>7. QED
  BY <1>1, <1>3, <1>5, <1>6, Untouched, StartStepKeeps

-----------------------------------------------------------------------------
(* An event is published.                                                  *)

\* The event reaches the queues bound to it, or some of them only if something
\* is lost; it is new, or the very one published before.
Publishes(e) ==
  /\ e \in Event /\ e.copy = 1
  /\ emitted' = emitted \cup {e}
  /\ UNCHANGED <<request, services, execution, trail, announced, claimed, log, late, timeouts>>
  /\ repeats' \in 0..MaxRepeats /\ losses' \in 0..MaxLosses /\ (losses' = 0 => losses = 0)
  /\ queue' = [q \in Consumers |-> queue'[q]]
  /\ \A q \in Consumers : \/ queue'[q] = queue[q]
                          \/ e.type \in Topology(q) /\ queue'[q] = Append(queue[q], e)
  /\ losses' = 0 /\ "projector" \in Consumers =>
       queue'["projector"] = Append(queue["projector"], e)
  /\ e \in emitted \/ ~Emitted(e.transfer, e.type)
  /\ execution[e.transfer] # Absent
  /\ e.error = "NONE" <=> e.type # "TransferFailed"

\* It follows from another, and says what the trail says.
Warranted(e) ==
  /\ e.type # "TransferRequested" =>
       \E type \in EventTypes : Leads(e.transfer, type, e.type)
  /\ e.type = "TransferFailed" =>
       /\ e.error = "INSUFFICIENT_FUNDS" => Row(e.transfer, "ACTION", "DEBIT") = "FAILED"
       /\ OutcomeFor(e.error) = "REJECTED_RISK" => Row(e.transfer, "ACTION", "RISK") = "FAILED"
  /\ e.type \in {"RiskCompensationRequested", "ClearingCompensationRequested"} =>
       Emitted(e.transfer, "TransferFailed")

\* Queues grow at their end.
LEMMA QueuesGrow ==
  ASSUME IInv, NEW e, Publishes(e)
  PROVE  /\ Onwards
         /\ e \in Event /\ e.type \in EventTypes /\ e.transfer \in Transfers
         /\ queue' \in [Consumers -> Seq(emitted')]
         /\ \A q \in Consumers :
              /\ queue[q] # <<>> =>
                   queue'[q] # <<>> /\ Head(queue'[q]) = Head(queue[q])
              /\ \A i \in 1..Len(queue'[q]) : queue'[q][i].type \in Topology(q)
         /\ \A t, type : Emitted(t, type)' <=>
              Emitted(t, type) \/ (t = e.transfer /\ type = e.type)
<1>1. /\ e \in Event /\ emitted' = emitted \cup {e}
      /\ UNCHANGED <<request, services, execution, trail, claimed>>
      /\ queue' = [q \in Consumers |-> queue'[q]]
      /\ \A q \in Consumers : \/ queue'[q] = queue[q]
                              \/ e.type \in Topology(q) /\ queue'[q] = Append(queue[q], e)
  BY DEF Publishes
<1>2. Onwards
  BY <1>1, QuietOnwards
<1>3. ASSUME NEW q \in Consumers
      PROVE  /\ queue'[q] \in Seq(emitted')
             /\ queue[q] # <<>> =>
                   queue'[q] # <<>> /\ Head(queue'[q]) = Head(queue[q])
             /\ \A i \in 1..Len(queue'[q]) : queue'[q][i].type \in Topology(q)
  <2>1. /\ queue[q] \in Seq(emitted)
        /\ \A i \in 1..Len(queue[q]) : queue[q][i].type \in Topology(q)
    BY Untouched, AtWork DEF Holding
  <2>2. queue[q] \in Seq(emitted') /\ Len(queue[q]) \in Nat
    BY <1>1, <2>1
  <2>3. CASE queue'[q] = queue[q]
    BY <2>1, <2>2, <2>3
  <2>4. CASE e.type \in Topology(q) /\ queue'[q] = Append(queue[q], e)
    <3>1. e \in emitted'
      BY <1>1
    <3>2. /\ queue'[q] \in Seq(emitted') /\ queue'[q] # <<>>
          /\ Len(queue'[q]) = Len(queue[q]) + 1
          /\ \A i \in 1..Len(queue[q]) : queue'[q][i] = queue[q][i]
          /\ queue'[q][Len(queue[q]) + 1] = e
      BY <2>2, <2>4, <3>1
    <3>3. queue[q] # <<>> => Head(queue'[q]) = Head(queue[q])
      BY <2>2, <3>2
    <3>4. \A i \in 1..Len(queue'[q]) : i \in 1..Len(queue[q]) \/ i = Len(queue[q]) + 1
      BY <2>2, <3>2
    <3>5. QED
      BY <2>1, <2>4, <3>2, <3>3, <3>4
  <2>5. QED
    BY <1>1, <2>3, <2>4
<1>4. queue' \in [Consumers -> Seq(emitted')]
  BY <1>1, <1>3
<1>5. \A t, type : Emitted(t, type)' <=>
              Emitted(t, type) \/ (t = e.transfer /\ type = e.type)
  BY <1>1 DEF Emitted
<1>6. e.type \in EventTypes /\ e.transfer \in Transfers
  BY <1>1 DEF Event
<1>7. QED
  BY <1>1, <1>2, <1>3, <1>4, <1>5, <1>6

\* The new event has a lineage.
LEMMA LineageGrows ==
  ASSUME IInv, NEW e, Publishes(e), Warranted(e)
  PROVE  Unique' /\ Caused'
<1>1. /\ e \in Event /\ e.copy = 1 /\ emitted' = emitted \cup {e}
      /\ execution' = execution /\ execution[e.transfer] # Absent
      /\ e \in emitted \/ ~Emitted(e.transfer, e.type)
      /\ e.error = "NONE" <=> e.type # "TransferFailed"
  BY DEF Publishes
<1>2. Unique /\ Caused /\ emitted \subseteq Event
  BY DEF IInv, Lineage, SagaTypes
<1>3. \A f \in emitted : f.transfer = e.transfer /\ f.type = e.type => f = e
  BY <1>1, <1>2 DEF Unique, Emitted
<1>4. Unique'
  BY <1>1, <1>2, <1>3 DEF Unique
<1>5. Onwards
  BY QueuesGrow
<1>6. ASSUME NEW f \in emitted', f.type # "TransferRequested"
      PROVE  \E type \in EventTypes : Leads(f.transfer, type, f.type)'
  <2>1. PICK type \in EventTypes : Leads(f.transfer, type, f.type)
    BY <1>1, <1>2, <1>6 DEF Caused, Warranted
  <2>2. f.transfer \in Transfers
    BY <1>1, <1>2 DEF Event
  <2>3. PICK t \in Transfers, next \in {f.type} : t = f.transfer /\ next = f.type
    BY <2>2
  <2>4. Leads(t, type, next)'
    BY <1>5, <2>1, <2>3, LeadsStays
  <2>5. QED
    BY <2>3, <2>4
<1>7. Caused'
  BY <1>6 DEF Caused
<1>8. QED
  BY <1>4, <1>7

\* It is on its way to the projector, and the rollback it may end was explained
\* before.
LEMMA VerdictsGrow ==
  ASSUME IInv, NEW e, Publishes(e), Warranted(e),
         "projector" \in Consumers => hand'["projector"] = hand["projector"]
  PROVE  Verdicts'
<1>1. /\ emitted' = emitted \cup {e} /\ UNCHANGED <<execution, trail, claimed>>
      /\ e \in emitted \/ ~Emitted(e.transfer, e.type)
      /\ losses' = 0 => losses = 0
      /\ losses' = 0 /\ "projector" \in Consumers =>
           queue'["projector"] = Append(queue["projector"], e)
      /\ losses' \in Nat
  BY ChoreographyAssumption DEF Publishes
<1>2. /\ Explained /\ Named /\ Projection /\ InTime /\ Unique /\ Caused /\ Written
      /\ emitted \subseteq Event /\ claimed \subseteq Consumers \X emitted /\ losses \in Nat
  BY Untouched DEF IInv, Verdicts, Lineage, SagaTypes
<1>3. /\ e.transfer \in Transfers
      /\ \A t, type : Emitted(t, type)' <=>
           Emitted(t, type) \/ (t = e.transfer /\ type = e.type)
  BY QueuesGrow
<1>4. /\ \A t \in Transfers : RiskFailed(t)' <=> RiskFailed(t)
      /\ \A t \in Transfers, s \in Steps : Row(t, "ACTION", s)' = Row(t, "ACTION", s)
  BY <1>1 DEF RiskFailed, Row
<1>5. Explained'
  BY <1>2, <1>3 DEF Explained, Warranted
<1>6. Named'
  <2>1. \A f \in emitted' : f.transfer \in Transfers
    BY <1>1, <1>2, <1>3 DEF Event
  <2>2. "DEBIT" \in Steps /\ "RISK" \in Steps
    BY DEF Steps
  <2>3. \A f \in emitted' : f.type = "TransferFailed" =>
          /\ f.error = "INSUFFICIENT_FUNDS" => Row(f.transfer, "ACTION", "DEBIT") = "FAILED"
          /\ OutcomeFor(f.error) = "REJECTED_RISK" =>
               Row(f.transfer, "ACTION", "RISK") = "FAILED"
    BY <1>1, <1>2 DEF Named, Warranted
  <2>4. QED
    BY <1>4, <2>1, <2>2, <2>3 DEF Named
<1>7. Projection'
  <2>1. ASSUME NEW t \in Transfers, execution[t] # Absent
        PROVE  LET row == execution[t] IN
               /\ row.error # "NONE" =>
                    \E f \in emitted' : /\ f.transfer = t /\ f.type = "TransferFailed"
                                        /\ f.error = row.error
               /\ ~row.finished => row.status # "COMPLETED" /\ row.error # "INSUFFICIENT_FUNDS"
               /\ row.finished =>
                    \/ row.status = "COMPLETED" /\ Emitted(t, "TransferCompleted")'
                    \/ /\ row.status = "REJECTED_FUNDS" /\ row.compensation = "NOT_REQUIRED"
                       /\ row.error = "INSUFFICIENT_FUNDS"
                    \/ /\ row.status = OutcomeFor(row.error) /\ row.compensation = "COMPENSATED"
                       /\ row.status # "REJECTED_FUNDS" /\ row.status # "COMPLETED"
                       /\ Emitted(t, "TransferCompensated")'
                       /\ row.error = "NONE" => RiskFailed(t)' \/ losses' > 0
    <3>1. RiskFailed(t) \/ losses > 0 => RiskFailed(t)' \/ losses' > 0
      BY <1>1, <1>2, <1>4
    <3>2. QED
      BY <1>1, <1>2, <1>3, <2>1, <3>1 DEF Projection
  <2>2. QED
    BY <1>1, <2>1 DEF Projection
<1>8. e.type = "TransferCompensated" =>
        RiskFailed(e.transfer) \/ Emitted(e.transfer, "TransferFailed")
  <2>1. ASSUME e.type = "TransferCompensated"
        PROVE  RiskFailed(e.transfer) \/ Emitted(e.transfer, "TransferFailed")
    <3>1. PICK t \in Transfers : t = e.transfer
      BY <1>3
    <3>2. PICK type \in EventTypes : Leads(t, type, "TransferCompensated")
      BY <2>1, <3>1 DEF Warranted
    <3>3. Row(t, "COMPENSATION", "DEBIT") = "COMPENSATED"
      BY <1>2, <3>2, Parents
    <3>4. "COMPENSATED" # Absent
      BY AbsentAssumption DEF RollbackStatuses
    <3>5. Chain(t)
      BY <1>2, History
    <3>6. RiskFailed(t) \/ Row(t, "COMPENSATION", "RISK") = "COMPENSATED"
      BY <3>3, <3>4, <3>5 DEF Chain
    <3>7. Row(t, "COMPENSATION", "RISK") # Absent => Emitted(t, "RiskCompensationRequested")
      <4>1. Decision(t, "RiskCompensationRequested") # Absent =>
              Taken(t, "RiskCompensationRequested")
        BY <1>2, WorkTable DEF Written
      <4>2. QED
        BY <4>1, DecisionTable DEF Taken, Emitted
    <3>8. QED
      BY <1>2, <3>1, <3>4, <3>6, <3>7 DEF Explained
  <2>2. QED
    BY <2>1
<1>9. InTime'
  <2>1. SUFFICES ASSUME "projector" \in Consumers, losses' = 0, NEW t \in Transfers,
                        execution[t] # Absent, execution[t].error = "NONE", ~RiskFailed(t)
                 PROVE  LET messages == queue'["projector"] IN
                        /\ Emitted(t, "TransferFailed")' =>
                             \E i \in 1..Len(messages) : FailureAhead(t, i)'
                        /\ \A j \in 1..Len(messages) :
                             messages[j].transfer = t
                               /\ messages[j].type = "TransferCompensated" =>
                               \E i \in 1..Len(messages) : i < j /\ FailureAhead(t, i)'
    BY <1>1, <1>4 DEF InTime
  <2> DEFINE n == Len(queue["projector"])
  <2>2. /\ queue["projector"] \in Seq(emitted)
        /\ queue'["projector"] = Append(queue["projector"], e)
    BY <1>1, <2>1, Untouched
  <2>3. /\ n \in Nat /\ Len(queue'["projector"]) = n + 1
        /\ \A i \in 1..n : queue'["projector"][i] = queue["projector"][i]
        /\ queue'["projector"][n + 1] = e
    BY <2>2
  <2> HIDE DEF n
  <2>4. \A i \in 1..n : FailureAhead(t, i) => FailureAhead(t, i)'
    BY <1>1, <2>1, <2>3 DEF FailureAhead, At
  <2>5. /\ Emitted(t, "TransferFailed") => \E i \in 1..n : FailureAhead(t, i)
        /\ \A j \in 1..n :
             queue["projector"][j].transfer = t
               /\ queue["projector"][j].type = "TransferCompensated" =>
               \E i \in 1..n : i < j /\ FailureAhead(t, i)
    BY <1>1, <1>2, <2>1 DEF InTime, n
  <2>6. 1..n \subseteq 1..(n + 1) /\ n + 1 \in 1..(n + 1) /\ \A i \in 1..n : i < n + 1
    BY <2>3
  <2>7. ASSUME Emitted(t, "TransferFailed")'
        PROVE  \E i \in 1..(n + 1) : FailureAhead(t, i)'
    <3>1. CASE Emitted(t, "TransferFailed")
      BY <2>4, <2>5, <2>6, <3>1
    <3>2. CASE ~Emitted(t, "TransferFailed")
      <4>1. e.transfer = t /\ e.type = "TransferFailed" /\ e \notin emitted
        BY <1>1, <1>3, <2>7, <3>2 DEF Emitted
      <4>2. <<"projector", e>> \notin claimed'
        BY <1>1, <1>2, <4>1
      <4>3. PICK i \in 1..(n + 1) : queue'["projector"][i] = e
        BY <2>3, <2>6
      <4>4. FailureAhead(t, i)'
        BY <4>1, <4>2, <4>3 DEF FailureAhead
      <4>5. QED
        BY <4>4
    <3>3. QED
      BY <3>1, <3>2
  <2>8. ASSUME NEW j \in 1..(n + 1), queue'["projector"][j].transfer = t,
               queue'["projector"][j].type = "TransferCompensated"
        PROVE  \E i \in 1..(n + 1) : i < j /\ FailureAhead(t, i)'
    <3>1. CASE j \in 1..n
      BY <2>3, <2>4, <2>5, <2>6, <2>8, <3>1
    <3>2. CASE j = n + 1
      <4>1. Emitted(t, "TransferFailed")
        BY <1>8, <2>1, <2>3, <2>8, <3>2
      <4>2. QED
        BY <2>4, <2>5, <2>6, <3>2, <4>1
    <3>3. QED
      BY <2>3, <3>1, <3>2
  <2>9. QED
    BY <2>3, <2>7, <2>8
<1>10. QED
  BY <1>5, <1>6, <1>7, <1>9 DEF Verdicts

\* A participant with other things to publish does not notice.
LEMMA OthersStay ==
  ASSUME IInv, NEW e, Publishes(e), NEW q \in Consumers, hand'[q] = hand[q],
         q \in Workers =>
           \/ e \in emitted
           \/ \A type \in Topology(q) : ~Leads(e.transfer, type, e.type)
  PROVE  Holding(q)' /\ (q \in Workers => Working(q)')
<1>1. /\ Onwards /\ e.type \in EventTypes /\ e.transfer \in Transfers
      /\ queue[q] # <<>> => queue'[q] # <<>> /\ Head(queue'[q]) = Head(queue[q])
      /\ \A i \in 1..Len(queue'[q]) : queue'[q][i].type \in Topology(q)
      /\ \A t, type : Emitted(t, type)' <=>
           Emitted(t, type) \/ (t = e.transfer /\ type = e.type)
  BY QueuesGrow
<1>2. claimed' = claimed /\ trail' = trail /\ claimed \subseteq Consumers \X emitted
  BY DEF Publishes, IInv, SagaTypes
<1>3. Holding(q)'
  BY <1>1, <1>2, HoldingStays
<1>4. ASSUME q \in Workers
      PROVE  Working(q)'
  <2>1. Working(q)
    BY <1>4, AtWork
  <2>2. ASSUME hand[q].pc \in {"emit", "call", "record"}
        PROVE  /\ Current(q) \in Event
               /\ Current(q)' = Current(q)
               /\ Current(q).type \in WorkTypes =>
                    Decision(Current(q).transfer, Current(q).type)' =
                      Decision(Current(q).transfer, Current(q).type)
               /\ hand[q].pc = "emit" =>
                    \A i \in 1..Len(hand[q].todo) :
                      Emitted(Current(q).transfer, hand[q].todo[i])' =>
                        Emitted(Current(q).transfer, hand[q].todo[i])
    <3>1. queue[q] # <<>>
      BY <2>2, AtWork DEF At
    <3>2. Current(q) \in Event /\ Current(q).type \in Topology(q)
      BY <3>1, InHand
    <3>3. Current(q)' = Current(q)
      BY <1>1, <3>1 DEF Current
    <3>4. PICK t, type : t = Current(q).transfer /\ type = Current(q).type
      OBVIOUS
    <3>5. Decision(t, type)' = Decision(t, type)
      BY <1>2 DEF Decision
    <3>6. ASSUME hand[q].pc = "emit", NEW i \in 1..Len(hand[q].todo),
                 Emitted(t, hand[q].todo[i])'
          PROVE  Emitted(t, hand[q].todo[i])
      <4>1. PICK next : next = hand[q].todo[i]
        OBVIOUS
      <4>2. Leads(t, type, next)
        BY <2>1, <3>4, <3>6, <4>1 DEF Working, Publishing
      <4>3. Emitted(t, next)'
        BY <3>6, <4>1
      <4>4. CASE e \in emitted
        <5>1. Emitted(e.transfer, e.type)
          BY <4>4 DEF Emitted
        <5>2. QED
          BY <1>1, <4>1, <4>3, <5>1
      <4>5. CASE ~Leads(e.transfer, type, e.type)
        BY <1>1, <4>1, <4>2, <4>3, <4>5
      <4>6. QED
        BY <1>4, <3>2, <3>4, <4>4, <4>5
    <3>7. QED
      BY <3>2, <3>3, <3>4, <3>5, <3>6
  <2>3. QED
    BY <1>1, <1>4, <2>1, <2>2, WorkingStays
<1>5. QED
  BY <1>3, <1>4

\* What is left to show of a step that publishes.
LEMMA PublishKeeps ==
  ASSUME IInv, NEW e, Publishes(e), Warranted(e),
         hand' \in [Consumers -> Hand],
         "projector" \in Consumers => hand'["projector"] = hand["projector"],
         start' \in [Starts -> {"new", "publish", "retry", "done", "failed"}],
         \A q \in Consumers : Holding(q)' /\ (q \in Workers => Working(q)'),
         Launched'
  PROVE  IInv'
<1>1. /\ UNCHANGED <<request, services, execution, trail, announced, claimed, log, late,
                     timeouts>>
      /\ repeats' \in 0..MaxRepeats /\ losses' \in 0..MaxLosses
      /\ e \in Event /\ emitted' = emitted \cup {e}
  BY DEF Publishes
<1>2. /\ Onwards /\ queue' \in [Consumers -> Seq(emitted')]
      /\ \A t, type : Emitted(t, type) => Emitted(t, type)'
  BY QueuesGrow
<1>3. ServiceTypes' /\ ServicesAgree' /\ Done' = Done /\ Undone' = Undone
  BY <1>1, ServicesQuiet DEF IInv
<1>4. SagaTypes'
  <2>1. SagaTypes
    BY DEF IInv
  <2>2. StoreTypeOK'
    BY <1>1, <2>1 DEF SagaTypes, StoreTypeOK
  <2>3. /\ emitted' \subseteq Event /\ log' \subseteq emitted'
        /\ claimed' \subseteq Consumers \X emitted' /\ late' \subseteq Message
        /\ timeouts' \in 0..MaxTimeouts
    BY <1>1, <2>1 DEF SagaTypes
  <2>4. QED
    BY <1>1, <1>2, <2>2, <2>3 DEF SagaTypes
<1>5. Unique' /\ Caused'
  BY LineageGrows
<1>6. Written'
  BY <1>1, <1>2, WrittenStays
<1>7. Verdicts'
  BY VerdictsGrow
<1>8. Services'
  <2>1. Services
    BY DEF IInv
  <2>2. \A t, s : Requested(t, s) => Requested(t, s)'
    BY <1>2 DEF Requested
  <2>3. Audited' /\ Ordered' /\ Asked'
    BY <1>1, <1>3, <2>1, <2>2 DEF Services, Audited, Ordered, Asked
  <2>4. \A m \in late' : Carried(m)'
    BY <1>1, <1>3, <2>1, <2>2 DEF Services, Carried
  <2>5. QED
    BY <2>3, <2>4 DEF Services
<1>9. \A q \in Workers : Working(q)'
  BY ChoreographyAssumption
<1>10. QED
  BY <1>3, <1>4, <1>5, <1>6, <1>7, <1>8, <1>9 DEF IInv, Lineage

\* An event published for the first time, or again, is the first of its type
\* about its transfer.
LEMMA NewEventIs ==
  ASSUME IInv, NEW t \in Transfers, NEW type \in EventTypes,
         NEW error \in ErrorCodes \cup {"NONE"}, NEW retried \in BOOLEAN,
         Emitted(t, type) <=> retried
  PROVE  /\ NewEvent(t, type, error, retried) =
              [type |-> type, transfer |-> t, error |-> error, copy |-> 1]
         /\ NewEvent(t, type, error, retried) \in Event
<1> DEFINE S == {e \in emitted : e.type = type /\ e.transfer = t}
<1>1. Unique
  BY DEF IInv, Lineage
<1>2. CASE ~retried
  <2>1. S = {}
    BY <1>2 DEF Emitted
  <2>2. Cardinality(S) = 0
    BY <2>1, FS_EmptySet
  <2>3. QED
    BY <1>2, <2>2 DEF NewEvent, Event
<1>3. CASE retried
  <2>1. PICK e \in emitted : e.type = type /\ e.transfer = t
    BY <1>3 DEF Emitted
  <2>2. S = {e}
    BY <1>1, <2>1 DEF Unique
  <2>3. Cardinality(S) = 1
    BY <2>2, FS_Singleton
  <2>4. QED
    BY <1>3, <2>3 DEF NewEvent, Event
<1>4. QED
  BY <1>2, <1>3

\* What reaches the queues when an event is published.
LEMMA PublishedOrLost ==
  ASSUME IInv, NEW e \in Event,
         \/ Publish(e) /\ losses' = losses
         \/ PublishInVain(e) /\ losses < MaxLosses /\ losses' = losses + 1
  PROVE  /\ emitted' = emitted \cup {e}
         /\ losses' \in 0..MaxLosses /\ (losses' = 0 => losses = 0)
         /\ queue' = [q \in Consumers |-> queue'[q]]
         /\ \A q \in Consumers : \/ queue'[q] = queue[q]
                                 \/ e.type \in Topology(q) /\ queue'[q] = Append(queue[q], e)
         /\ losses' = 0 /\ "projector" \in Consumers =>
              queue'["projector"] = Append(queue["projector"], e)
<1>1. /\ queue \in [Consumers -> Seq(emitted)] /\ losses \in 0..MaxLosses /\ MaxLosses \in Nat
      /\ e.type \in EventTypes
  BY Untouched, ChoreographyAssumption DEF Event
<1>2. CASE Publish(e) /\ losses' = losses
  <2>1. /\ queue' = [p \in Consumers |->
                       IF e.type \in Topology(p) THEN Append(queue[p], e) ELSE queue[p]]
        /\ emitted' = emitted \cup {e}
    BY <1>2 DEF Publish
  <2>2. Topology("projector") = EventTypes
    BY DEF Topology
  <2>3. QED
    BY <1>1, <1>2, <2>1, <2>2
<1>3. CASE PublishInVain(e) /\ losses < MaxLosses /\ losses' = losses + 1
  BY <1>1, <1>3 DEF PublishInVain
<1>4. QED
  BY <1>2, <1>3

\* What a participant publishes next: it follows from its message, and the
\* trail bears it out.
Emits(p, e, t, type) ==
  /\ e = Emission(p) /\ t = Current(p).transfer /\ type = Current(p).type
  /\ e.type = hand[p].todo[1] /\ e.transfer = t /\ e.copy = 1
  /\ e.error = IF e.type = "TransferFailed" THEN hand[p].outcome ELSE "NONE"
  /\ e \in emitted \/ ~Emitted(t, e.type)
  /\ e.error = "NONE" <=> e.type # "TransferFailed"
  /\ hand[p].link = "retrying" => e \in emitted
  /\ Leads(t, type, e.type) /\ type \in Topology(p)
  /\ execution[t] # Absent
  /\ Warranted(e)

\* What publishing is about.
LEMMA Emitting ==
  ASSUME IInv, NEW p \in Consumers, hand[p].pc = "emit"
  PROVE  /\ p \in Workers /\ queue[p] # <<>> /\ <<p, Current(p)>> \in claimed
         /\ Working(p) /\ Publishing(p) /\ hand[p] \in Hand
         /\ \E e \in Event, t \in Transfers, type \in EventTypes : Emits(p, e, t, type)
<1>1. p \in Workers /\ ~At(p, "idle")
  BY AtWork DEF Holding, At, Observers
<1>2. /\ queue[p] # <<>> /\ <<p, Current(p)>> \in claimed /\ Working(p)
      /\ hand[p] \in Hand
  BY <1>1, AtWork
<1>3. Publishing(p)
  BY <1>2 DEF Working
<1>4. PICK t \in Transfers, type \in EventTypes :
        /\ t = Current(p).transfer /\ type = Current(p).type /\ type \in Topology(p)
        /\ execution[t] # Absent /\ Emitted(t, type)
  BY <1>2, InHand
<1>5. PICK todo, outcome, link :
        todo = hand[p].todo /\ outcome = hand[p].outcome /\ link = hand[p].link
  OBVIOUS
<1>6. /\ todo \in Seq(EventTypes) /\ outcome \in ErrorCodes \cup {"OK", "NONE"}
      /\ link \in {"sound", "retrying", "replaced"}
  BY <1>2, <1>5 DEF Hand
<1>7. /\ todo # <<>> /\ Len(todo) \in {1, 2}
      /\ \A i \in 1..Len(todo) :
           /\ Leads(t, type, todo[i])
           /\ Emitted(t, todo[i]) => i = 1 /\ link = "retrying"
           /\ todo[i] = "TransferFailed" => outcome \notin {"OK", "NONE"}
      /\ link = "retrying" =>
           [type |-> todo[1], transfer |-> t, copy |-> 1,
            error |-> IF todo[1] = "TransferFailed" THEN outcome ELSE "NONE"] \in emitted
      /\ type \in {"RiskApproved", "ClearingCompleted"} /\ outcome # "NONE" =>
           \/ Decision(t, type) # "FAILED"
           \/ todo[1] = "TransferFailed"
           \/ Emitted(t, "TransferFailed")
  BY <1>3, <1>4, <1>5 DEF Publishing
<1>8. PICK next \in EventTypes : next = todo[1] /\ next = Head(todo)
  BY <1>6, <1>7
<1>9. /\ Leads(t, type, next)
      /\ Emitted(t, next) => link = "retrying"
      /\ next = "TransferFailed" => outcome \notin {"OK", "NONE"}
  BY <1>7, <1>8
<1>10. PICK error \in ErrorCodes \cup {"NONE"} :
         /\ error = IF next = "TransferFailed" THEN outcome ELSE "NONE"
         /\ error = "NONE" <=> next # "TransferFailed"
  BY <1>6, <1>9
<1>11. link = "retrying" =>
         [type |-> next, transfer |-> t, error |-> error, copy |-> 1] \in emitted
  BY <1>7, <1>8, <1>10
<1>12. Emitted(t, next) <=> link = "retrying"
  BY <1>9, <1>11 DEF Emitted
<1>13. PICK e \in Event :
         /\ e = Emission(p) /\ e = [type |-> next, transfer |-> t, error |-> error, copy |-> 1]
  <2>1. Emission(p) = NewEvent(t, next, error, link = "retrying")
    BY <1>4, <1>5, <1>8, <1>10 DEF Emission
  <2>2. QED
    BY <1>12, <2>1, NewEventIs
<1>14. /\ e.type = next /\ e.transfer = t /\ e.error = error /\ e.copy = 1
  BY <1>13
<1>15. Written /\ Explained
  BY DEF IInv, Lineage, Verdicts
<1>16. type \in WorkTypes =>
         /\ Plausible(type, outcome)
         /\ outcome = "NONE" => Decision(t, type) = Absent
  BY <1>2, <1>4, <1>5 DEF Working
<1>17. Warranted(e)
  <2>1. ASSUME next = "TransferFailed"
        PROVE  /\ error = "INSUFFICIENT_FUNDS" => Row(t, "ACTION", "DEBIT") = "FAILED"
               /\ OutcomeFor(error) = "REJECTED_RISK" => Row(t, "ACTION", "RISK") = "FAILED"
    <3>1. \/ type = "TransferRequested" /\ Row(t, "ACTION", "DEBIT") = "FAILED"
          \/ type = "BalanceDebited" /\ RiskFailed(t)
          \/ type = "RiskApproved" /\ Row(t, "ACTION", "CLEARING") = "FAILED"
          \/ type = "ClearingCompleted" /\ Row(t, "ACTION", "CREDIT") = "FAILED"
      BY <1>9, <1>15, <2>1, Parents
    <3>2. error = outcome /\ type \in DOMAIN Executes /\ type \in WorkTypes
      BY <1>10, <2>1, <3>1, WorkTable
    <3>3. QED
      BY <1>16, <3>1, <3>2 DEF Plausible, RiskFailed
  <2>2. ASSUME next \in {"RiskCompensationRequested", "ClearingCompensationRequested"}
        PROVE  Emitted(t, "TransferFailed")
    <3>1. \/ type = "ClearingCompleted" /\ Row(t, "ACTION", "CREDIT") = "FAILED"
          \/ type = "RiskApproved" /\ Row(t, "ACTION", "CLEARING") = "FAILED"
          \/ type = "ClearingCompensationRequested"
      BY <1>9, <1>15, <2>2, Parents
    <3>2. CASE type = "ClearingCompensationRequested"
      BY <1>4, <1>15, <3>2 DEF Explained
    <3>3. CASE type \in {"ClearingCompleted", "RiskApproved"} /\ Decision(t, type) = "FAILED"
      <4>1. "FAILED" # Absent
        BY AbsentAssumption DEF ActionStatuses
      <4>2. outcome # "NONE"
        BY <1>16, <3>3, <4>1, WorkTable
      <4>3. QED
        BY <1>7, <1>8, <2>2, <3>3, <4>2
    <3>4. QED
      BY <3>1, <3>2, <3>3, DecisionTable
  <2>3. QED
    BY <1>9, <1>14, <2>1, <2>2 DEF Warranted
<1>18. Emits(p, e, t, type)
  BY <1>4, <1>5, <1>8, <1>9, <1>10, <1>11, <1>12, <1>13, <1>14, <1>17 DEF Emits
<1>19. QED
  BY <1>1, <1>2, <1>3, <1>18

\* While one participant publishes, its message stays and the others work on.
LEMMA PublisherStays ==
  ASSUME IInv, NEW p \in Consumers, NEW e \in Event, NEW t \in Transfers, NEW type \in EventTypes,
         hand[p].pc = "emit", Emits(p, e, t, type), Publishes(e),
         hand' = [hand EXCEPT ![p] = hand'[p]], hand'[p] \in Hand,
         hand'[p].pc \in {"emit", "call", "ack"}, Working(p)', start' = start
  PROVE  IInv'
<1>1. /\ Warranted(e) /\ Leads(t, type, e.type) /\ type \in Topology(p)
      /\ e.transfer = t /\ e.copy = 1
  BY DEF Emits
<1>2. /\ p \in Workers /\ queue[p] # <<>> /\ <<p, Current(p)>> \in claimed
  BY Emitting
<1>3. /\ hand' \in [Consumers -> Hand]
      /\ \A q \in Consumers : q # p => hand'[q] = hand[q]
  BY Untouched
<1>4. p \notin {"projector", "audit"}
  BY <1>2 DEF Workers
<1>5. Holding(p)'
  <2>1. /\ queue'[p] # <<>> /\ Head(queue'[p]) = Head(queue[p])
        /\ \A i \in 1..Len(queue'[p]) : queue'[p][i].type \in Topology(p)
    BY <1>2, QueuesGrow
  <2>2. claimed' = claimed /\ emitted' = emitted \cup {e}
    BY DEF Publishes
  <2>3. /\ Holding(p) /\ claimed \subseteq Consumers \X emitted
    BY AtWork DEF IInv, SagaTypes
  <2>4. Current(p)' = Current(p)
    BY <2>1 DEF Current
  <2>5. \A f \in emitted' : <<p, f>> \in claimed' => f.type \in Topology(p)
    BY <2>2, <2>3 DEF Holding
  <2>6. QED
    BY <1>2, <1>4, <2>1, <2>2, <2>4, <2>5 DEF Holding, At
<1>6. ASSUME NEW q \in Consumers, q # p
      PROVE  Holding(q)' /\ (q \in Workers => Working(q)')
  <2>1. ASSUME q \in Workers, NEW other \in Topology(q), Leads(t, other, e.type)
        PROVE  FALSE
    <3>1. other \in EventTypes
      BY <2>1 DEF Topology, Workers, EventTypes
    <3>2. Caused /\ Written /\ emitted \subseteq Event
      BY DEF IInv, Lineage, SagaTypes
    <3>3. PICK next : next = e.type
      OBVIOUS
    <3>4. other = type
      BY <1>1, <2>1, <3>1, <3>2, <3>3, OneParent
    <3>5. QED
      BY <1>1, <1>2, <1>6, <2>1, <3>4, OneWorkerEach
  <2>2. QED
    BY <1>1, <1>3, <1>6, <2>1, OthersStay
<1>7. Launched'
  <2>1. Launched
    BY DEF IInv, Lineage
  <2>2. e.type # "TransferRequested"
    <3>1. Written
      BY DEF IInv, Lineage
    <3>2. QED
      BY <1>1, <3>1, Parents
  <2>3. \A u : Emitted(u, "TransferRequested")' <=> Emitted(u, "TransferRequested")
    BY <2>2, QueuesGrow
  <2>4. execution' = execution
    BY DEF Publishes
  <2>5. QED
    BY <2>1, <2>3, <2>4 DEF Launched, Launching
<1>8. start' \in [Starts -> {"new", "publish", "retry", "done", "failed"}]
  BY DEF IInv, SagaTypes
<1>9. "projector" \in Consumers => hand'["projector"] = hand["projector"]
  BY <1>3, <1>4
<1>10. \A q \in Consumers : Holding(q)' /\ (q \in Workers => Working(q)')
  BY <1>5, <1>6
<1>11. QED
  BY <1>1, <1>3, <1>7, <1>8, <1>9, <1>10, PublishKeeps

\* The participant goes on with what is left to publish, or to its call.
LEMMA ContinueKeeps ==
  ASSUME IInv, NEW p \in Consumers, NEW e \in Event, NEW t \in Transfers, NEW type \in EventTypes,
         hand[p].pc = "emit", Emits(p, e, t, type), Publishes(e), Continue(p)
  PROVE  /\ hand' = [hand EXCEPT ![p] = hand'[p]] /\ hand'[p] \in Hand
         /\ hand'[p].pc \in {"emit", "call", "ack"} /\ Working(p)'
<1>1. PICK todo, outcome, link :
        todo = hand[p].todo /\ outcome = hand[p].outcome /\ link = hand[p].link
  OBVIOUS
<1>2. /\ t = Current(p).transfer /\ type = Current(p).type
      /\ e.type = todo[1] /\ e.transfer = t
  BY <1>1 DEF Emits
<1>3. /\ hand \in [Consumers -> Hand] /\ hand[p] \in Hand /\ queue[p] # <<>>
      /\ Working(p) /\ Publishing(p) /\ p \in Workers
  BY Emitting, AtWork
<1>4. /\ todo \in Seq(EventTypes) /\ outcome \in ErrorCodes \cup {"OK", "NONE"}
      /\ link \in {"sound", "retrying", "replaced"}
  BY <1>1, <1>3 DEF Hand
<1>5. /\ todo # <<>> /\ Len(todo) \in {1, 2}
      /\ \A i \in 1..Len(todo) :
           /\ Leads(t, type, todo[i])
           /\ Emitted(t, todo[i]) => i = 1 /\ link = "retrying"
           /\ todo[i] = "TransferFailed" => outcome \notin {"OK", "NONE"}
      /\ Len(todo) = 2 => todo[1] # todo[2]
      /\ type \in {"RiskApproved", "ClearingCompleted"} /\ outcome # "NONE" =>
           \/ Decision(t, type) # "FAILED"
           \/ todo[1] = "TransferFailed"
           \/ Emitted(t, "TransferFailed")
  BY <1>1, <1>2, <1>3 DEF Publishing
<1>6. PICK pc, away :
        /\ pc = IF Len(todo) > 1 THEN "emit" ELSE Onward(type, outcome)
        /\ away = IF link = "retrying" THEN "replaced" ELSE link
  OBVIOUS
<1>7. /\ pc \in {"emit", "call", "ack"}
      /\ pc = "emit" <=> Len(todo) = 2
      /\ pc = "call" => type \in WorkTypes /\ outcome = "NONE"
      /\ away \in {"sound", "replaced"}
  BY <1>4, <1>5, <1>6, WorkTable DEF Onward
<1>8. hand' = [hand EXCEPT ![p].todo = Tail(todo), ![p].link = away, ![p].pc = pc]
  BY <1>1, <1>2, <1>3, <1>6 DEF Continue
<1>9. Tail(todo) \in Seq(EventTypes)
  BY <1>4, <1>5
<1>10. /\ hand' = [hand EXCEPT ![p] = hand'[p]] /\ hand'[p] \in Hand
       /\ hand'[p].pc = pc /\ hand'[p].todo = Tail(todo) /\ hand'[p].link = away
       /\ hand'[p].outcome = outcome
  BY <1>1, <1>3, <1>7, <1>8, <1>9 DEF Hand
<1>11. /\ Onwards /\ queue'[p] # <<>> /\ Head(queue'[p]) = Head(queue[p])
       /\ \A u, next : Emitted(u, next)' <=>
            Emitted(u, next) \/ (u = e.transfer /\ next = e.type)
  BY <1>3, QueuesGrow
<1>12. Current(p)' = Current(p)
  BY <1>11 DEF Current
<1>13. Decision(t, type)' = Decision(t, type)
  BY DEF Decision, Publishes
<1>14. ASSUME pc = "emit"
       PROVE  Publishing(p)'
  <2>0. Len(todo) = 2
    BY <1>7, <1>14
  <2>1. PICK next \in EventTypes : next = todo[2] /\ next # todo[1]
    <3>1. 2 \in 1..Len(todo)
      BY <2>0
    <3>2. \A i \in 1..Len(todo) : todo[i] \in EventTypes
      BY <1>4
    <3>3. todo[1] # todo[2]
      BY <1>5, <2>0
    <3>4. QED
      BY <3>1, <3>2, <3>3
  <2>2. PICK rest \in Seq(EventTypes) :
          rest = Tail(todo) /\ rest # <<>> /\ Len(rest) = 1 /\ rest[1] = next
    <3>0. Len(Tail(todo)) = Len(todo) - 1
      BY <1>4, <1>5
    <3>1. /\ Tail(todo) \in Seq(EventTypes)
          /\ \A i \in 1..Len(Tail(todo)) : Tail(todo)[i] = todo[i + 1]
      BY <1>4, <1>5
    <3>2. Len(Tail(todo)) = 1 /\ 1 \in 1..Len(Tail(todo)) /\ 1 + 1 = 2
      BY <2>0, <3>0
    <3>3. Tail(todo)[1] = next /\ Tail(todo) # <<>>
      BY <2>1, <3>1, <3>2
    <3>4. QED
      BY <3>1, <3>2, <3>3
  <2>3. /\ Leads(t, type, next) /\ ~Emitted(t, next)
        /\ next = "TransferFailed" => outcome \notin {"OK", "NONE"}
    <3>1. 2 \in 1..Len(todo) /\ 2 # 1
      BY <2>0
    <3>2. QED
      BY <1>5, <2>1, <3>1
  <2>4. Leads(t, type, next)'
    BY <1>11, <2>3, LeadsStays
  <2>5. ~Emitted(t, next)'
    BY <1>2, <1>11, <2>1, <2>3
  <2>6. type \in {"RiskApproved", "ClearingCompleted"} /\ outcome # "NONE" =>
          Decision(t, type)' # "FAILED" \/ Emitted(t, "TransferFailed")'
    BY <1>2, <1>5, <1>11, <1>13
  <2>7. /\ hand'[p].todo = rest /\ hand'[p].link # "retrying" /\ hand'[p].outcome = outcome
        /\ Current(p)'.transfer = t /\ Current(p)'.type = type
    BY <1>2, <1>7, <1>10, <1>12, <2>2
  <2>8. QED
    BY <2>2, <2>3, <2>4, <2>5, <2>6, <2>7 DEF Publishing
<1>15. type \in WorkTypes =>
         /\ Plausible(type, outcome)
         /\ outcome = "NONE" => Decision(t, type) = Absent
  BY <1>1, <1>2, <1>3 DEF Working
<1>16. Working(p)'
  BY <1>2, <1>7, <1>10, <1>12, <1>13, <1>14, <1>15 DEF Working
<1>17. QED
  BY <1>7, <1>10, <1>16

\* What a participant publishes, it publishes as it should.
LEMMA EmitPublishes ==
  ASSUME IInv, NEW p \in Consumers, Emit(p) \/ EmitAgain(p) \/ EmitInVain(p)
  PROVE  \E e \in Event, t \in Transfers, type \in EventTypes :
           Emits(p, e, t, type) /\ Publishes(e)
<1>1. /\ hand[p].pc = "emit"
      /\ UNCHANGED <<request, services, execution, trail, announced, start, claimed, log,
                     late, timeouts>>
      /\ \/ Publish(Emission(p)) /\ losses' = losses
         \/ PublishInVain(Emission(p)) /\ losses < MaxLosses /\ losses' = losses + 1
      /\ repeats' = repeats \/ (repeats < MaxRepeats /\ repeats' = repeats + 1)
  BY DEF Emit, EmitAgain, EmitInVain, At, saga, bounds, MayLose, MayRepeat
<1>2. PICK e \in Event, t \in Transfers, type \in EventTypes : Emits(p, e, t, type)
  BY <1>1, Emitting
<1>3. /\ e = Emission(p) /\ e.transfer = t /\ e.copy = 1 /\ execution[t] # Absent
      /\ e \in emitted \/ ~Emitted(t, e.type)
      /\ e.error = "NONE" <=> e.type # "TransferFailed"
  BY <1>2 DEF Emits
<1>4. /\ emitted' = emitted \cup {e}
      /\ losses' \in 0..MaxLosses /\ (losses' = 0 => losses = 0)
      /\ queue' = [q \in Consumers |-> queue'[q]]
      /\ \A q \in Consumers : \/ queue'[q] = queue[q]
                              \/ e.type \in Topology(q) /\ queue'[q] = Append(queue[q], e)
      /\ losses' = 0 /\ "projector" \in Consumers =>
           queue'["projector"] = Append(queue["projector"], e)
  BY <1>1, <1>3, PublishedOrLost
<1>5. repeats' \in 0..MaxRepeats
  BY <1>1, Untouched, ChoreographyAssumption
<1>6. Publishes(e)
  BY <1>1, <1>3, <1>4, <1>5 DEF Publishes
<1>7. QED
  BY <1>2, <1>6

\* One event is out, or lost, and the handler goes on.
LEMMA EmitKeeps ==
  ASSUME IInv, NEW p \in Consumers, Emit(p) \/ EmitInVain(p)
  PROVE  IInv'
<1>1. hand[p].pc = "emit" /\ Continue(p) /\ start' = start
  BY DEF Emit, EmitInVain, At
<1>2. PICK e \in Event, t \in Transfers, type \in EventTypes :
        Emits(p, e, t, type) /\ Publishes(e)
  BY EmitPublishes
<1>3. /\ hand' = [hand EXCEPT ![p] = hand'[p]] /\ hand'[p] \in Hand
      /\ hand'[p].pc \in {"emit", "call", "ack"} /\ Working(p)'
  BY <1>1, <1>2, ContinueKeeps
<1>4. QED
  BY <1>1, <1>2, <1>3, PublisherStays

\* The event is out, but the handler does not know and publishes it again.
LEMMA EmitAgainKeeps ==
  ASSUME IInv, NEW p \in Consumers, EmitAgain(p)
  PROVE  IInv'
<1>1. /\ hand[p].pc = "emit" /\ hand[p].link # "retrying"
      /\ Publish(Emission(p)) /\ hand' = [hand EXCEPT ![p].link = "retrying"]
      /\ repeats < MaxRepeats /\ repeats' = repeats + 1
      /\ UNCHANGED <<request, services, execution, trail, announced, start, claimed, log,
                     late, timeouts, losses>>
  BY DEF EmitAgain, At, saga, MayRepeat
<1>2. PICK e \in Event, t \in Transfers, type \in EventTypes :
        Emits(p, e, t, type) /\ Publishes(e)
  BY EmitPublishes
<1>3. /\ e = Emission(p) /\ e.transfer = t /\ e.copy = 1 /\ execution[t] # Absent
      /\ e.type = hand[p].todo[1]
      /\ e.error = IF e.type = "TransferFailed" THEN hand[p].outcome ELSE "NONE"
      /\ e \in emitted \/ ~Emitted(t, e.type)
      /\ e.error = "NONE" <=> e.type # "TransferFailed"
      /\ t = Current(p).transfer /\ type = Current(p).type
  BY <1>2 DEF Emits
<1>4. Publishes(e)
  BY <1>2
<1>5. /\ hand \in [Consumers -> Hand] /\ hand[p] \in Hand /\ queue[p] # <<>>
      /\ Working(p) /\ Publishing(p)
  BY <1>1, Emitting, AtWork
<1>6. PICK todo, outcome : todo = hand[p].todo /\ outcome = hand[p].outcome
  OBVIOUS
<1>7. /\ hand' = [hand EXCEPT ![p] = hand'[p]] /\ hand'[p] \in Hand
      /\ hand'[p].pc = "emit" /\ hand'[p].todo = todo /\ hand'[p].link = "retrying"
      /\ hand'[p].outcome = outcome
  BY <1>1, <1>5, <1>6 DEF Hand
<1>8. /\ todo # <<>> /\ Len(todo) \in {1, 2}
      /\ \A i \in 1..Len(todo) :
           /\ Leads(t, type, todo[i])
           /\ ~Emitted(t, todo[i])
           /\ todo[i] = "TransferFailed" => outcome \notin {"OK", "NONE"}
      /\ Len(todo) = 2 => todo[1] # todo[2]
      /\ type \in {"RiskApproved", "ClearingCompleted"} /\ outcome # "NONE" =>
           \/ Decision(t, type) # "FAILED"
           \/ todo[1] = "TransferFailed"
           \/ Emitted(t, "TransferFailed")
  BY <1>1, <1>3, <1>5, <1>6 DEF Publishing
<1>9. /\ Onwards /\ queue'[p] # <<>> /\ Head(queue'[p]) = Head(queue[p])
      /\ \A u, next : Emitted(u, next)' <=>
           Emitted(u, next) \/ (u = e.transfer /\ next = e.type)
  BY <1>4, <1>5, QueuesGrow
<1>10. Current(p)' = Current(p) /\ Decision(t, type)' = Decision(t, type)
  BY <1>1, <1>9 DEF Current, Decision
<1>11. Publishing(p)'
  <2>1. ASSUME NEW i \in 1..Len(todo)
        PROVE  /\ Leads(t, type, todo[i])'
               /\ Emitted(t, todo[i])' => i = 1
    <3>1. PICK next : next = todo[i]
      OBVIOUS
    <3>2. Leads(t, type, next)'
      BY <1>8, <1>9, <3>1, LeadsStays
    <3>3. Emitted(t, next)' => next = todo[1]
      BY <1>3, <1>6, <1>8, <1>9, <3>1
    <3>4. next = todo[1] => i = 1
      <4>1. i = 1 \/ (i = 2 /\ Len(todo) = 2)
        BY <1>8
      <4>2. QED
        BY <1>8, <3>1, <4>1
    <3>5. QED
      BY <3>1, <3>2, <3>3, <3>4
  <2>2. e = [type |-> todo[1], transfer |-> t, copy |-> 1,
             error |-> IF todo[1] = "TransferFailed" THEN outcome ELSE "NONE"]
    BY <1>3, <1>6 DEF Event
  <2>3. e \in emitted'
    BY <1>4 DEF Publishes
  <2>4. Emitted(t, "TransferFailed") => Emitted(t, "TransferFailed")'
    BY <1>9
  <2>5. QED
    BY <1>3, <1>7, <1>8, <1>10, <2>1, <2>2, <2>3, <2>4 DEF Publishing
<1>12. Working(p)'
  <2>1. type \in WorkTypes =>
          /\ Plausible(type, outcome)
          /\ outcome = "NONE" => Decision(t, type) = Absent
    BY <1>1, <1>3, <1>5, <1>6 DEF Working
  <2>2. QED
    BY <1>3, <1>7, <1>10, <1>11, <2>1 DEF Working
<1>13. QED
  BY <1>1, <1>2, <1>4, <1>7, <1>12, PublisherStays

\* What a call of the start publishes is the first event of its transfer.
LEMMA LaunchPublishes ==
  ASSUME IInv, NEW c \in Starts, Launch(c) \/ LaunchAgain(c)
  PROVE  \E e \in Event :
           /\ e.type = "TransferRequested" /\ e.transfer = TransferOf[c]
           /\ Publishes(e) /\ Warranted(e)
           /\ Emitted(e.transfer, e.type) <=> start[c] = "retry"
<1>1. PICK t \in Transfers : t = TransferOf[c]
  BY ChoreographyAssumption
<1>2. /\ start[c] \in {"publish", "retry"} /\ Publish(FirstEvent(c))
      /\ UNCHANGED <<request, services, execution, trail, announced, claimed, hand, log, late,
                     timeouts, losses>>
      /\ \/ start' = [start EXCEPT ![c] = "done"] /\ repeats' = repeats
         \/ /\ start[c] = "publish" /\ start' = [start EXCEPT ![c] = "retry"]
            /\ repeats < MaxRepeats /\ repeats' = repeats + 1
  BY DEF Launch, LaunchAgain, Launching, saga, bounds, MayRepeat
<1>3. /\ Launched /\ Unique /\ Written
      /\ start \in [Starts -> {"new", "publish", "retry", "done", "failed"}]
  BY DEF IInv, Lineage, SagaTypes
<1>4. /\ execution[t] # Absent
      /\ \A d \in Starts : Launching(d) /\ TransferOf[d] = t => d = c
      /\ Emitted(t, "TransferRequested") <=> start[c] = "retry"
  BY <1>1, <1>2, <1>3 DEF Launched, Launching
<1>5. PICK e \in Event :
        /\ e = FirstEvent(c)
        /\ e = [type |-> "TransferRequested", transfer |-> t, error |-> "NONE", copy |-> 1]
  <2>1. FirstEvent(c) = NewEvent(t, "TransferRequested", "NONE", start[c] = "retry")
    BY <1>1 DEF FirstEvent
  <2>2. "TransferRequested" \in EventTypes
    BY DEF EventTypes
  <2>3. QED
    BY <1>4, <2>1, <2>2, NewEventIs
<1>6. /\ e.type = "TransferRequested" /\ e.transfer = t /\ e.error = "NONE" /\ e.copy = 1
  BY <1>5
<1>7. e \in emitted \/ ~Emitted(t, e.type)
  <2>1. ASSUME NEW f \in emitted, f.transfer = t, f.type = "TransferRequested"
        PROVE  f = e
    <3>1. f \in Event /\ f.copy = 1 /\ f.error = "NONE"
      BY <1>3, <2>1 DEF Unique, IInv, SagaTypes
    <3>2. QED
      BY <1>5, <2>1, <3>1 DEF Event
  <2>2. QED
    BY <1>6, <2>1 DEF Emitted
<1>8. Publishes(e)
  <2>1. /\ emitted' = emitted \cup {e}
        /\ losses' \in 0..MaxLosses /\ (losses' = 0 => losses = 0)
        /\ queue' = [q \in Consumers |-> queue'[q]]
        /\ \A q \in Consumers : \/ queue'[q] = queue[q]
                                \/ e.type \in Topology(q) /\ queue'[q] = Append(queue[q], e)
        /\ losses' = 0 /\ "projector" \in Consumers =>
             queue'["projector"] = Append(queue["projector"], e)
    BY <1>2, <1>5, PublishedOrLost
  <2>2. repeats' \in 0..MaxRepeats
    BY <1>2, Untouched, ChoreographyAssumption
  <2>3. QED
    BY <1>2, <1>4, <1>6, <1>7, <2>1, <2>2, Untouched DEF Publishes
<1>9. Warranted(e)
  BY <1>6 DEF Warranted
<1>10. QED
  BY <1>1, <1>4, <1>6, <1>8, <1>9

\* A call publishes the first event of the transfer it registered.
LEMMA LaunchKeeps ==
  ASSUME IInv, NEW c \in Starts, Launch(c) \/ LaunchAgain(c)
  PROVE  IInv'
<1>1. PICK t \in Transfers : t = TransferOf[c]
  BY ChoreographyAssumption
<1>2. /\ start[c] \in {"publish", "retry"} /\ Publish(FirstEvent(c))
      /\ UNCHANGED <<request, services, execution, trail, announced, claimed, hand, log, late,
                     timeouts, losses>>
      /\ \/ start' = [start EXCEPT ![c] = "done"] /\ repeats' = repeats
         \/ /\ start[c] = "publish" /\ start' = [start EXCEPT ![c] = "retry"]
            /\ repeats < MaxRepeats /\ repeats' = repeats + 1
  BY DEF Launch, LaunchAgain, Launching, saga, bounds, MayRepeat
<1>3. /\ Launched /\ Unique /\ Written
      /\ start \in [Starts -> {"new", "publish", "retry", "done", "failed"}]
  BY DEF IInv, Lineage, SagaTypes
<1>4. /\ execution[t] # Absent
      /\ \A d \in Starts : Launching(d) /\ TransferOf[d] = t => d = c
      /\ Emitted(t, "TransferRequested") <=> start[c] = "retry"
  BY <1>1, <1>2, <1>3 DEF Launched, Launching
<1>5. PICK e \in Event :
        /\ e.type = "TransferRequested" /\ e.transfer = t
        /\ Publishes(e) /\ Warranted(e)
  BY <1>1, LaunchPublishes
<1>6. \A q \in Consumers : Holding(q)' /\ (q \in Workers => Working(q)')
  <2>1. ASSUME NEW q \in Consumers
        PROVE  Holding(q)' /\ (q \in Workers => Working(q)')
    <3>1. \A type \in EventTypes : ~Leads(t, type, "TransferRequested")
      BY <1>3, Parents
    <3>2. q \in Workers => Topology(q) \subseteq EventTypes
      BY DEF Topology, Workers, EventTypes
    <3>3. hand'[q] = hand[q]
      BY <1>2
    <3>4. QED
      BY <1>5, <3>1, <3>2, <3>3, OthersStay
  <2>2. QED
    BY <2>1
<1>7. \A u : Emitted(u, "TransferRequested")' <=> Emitted(u, "TransferRequested") \/ u = t
  BY <1>5, QueuesGrow
<1>8. /\ start' \in [Starts -> {"new", "publish", "retry", "done", "failed"}]
      /\ \A d \in Starts : d # c => start'[d] = start[d]
      /\ start'[c] \in {"done", "retry"}
  BY <1>2, <1>3
<1>9. Launched'
  <2>1. ASSUME NEW d \in Starts, Launching(d)'
        PROVE  /\ execution[TransferOf[d]] # Absent
               /\ \A o \in Starts : Launching(o)' /\ TransferOf[o] = TransferOf[d] => o = d
               /\ start'[d] = "publish" => ~Emitted(TransferOf[d], "TransferRequested")'
               /\ start'[d] = "retry" => Emitted(TransferOf[d], "TransferRequested")'
    <3>1. \A o \in Starts : Launching(o)' => Launching(o)
      BY <1>2, <1>8 DEF Launching
    <3>2. CASE d = c
      BY <1>1, <1>4, <1>7, <1>8, <3>1, <3>2
    <3>3. CASE d # c
      <4>1. start'[d] = start[d] /\ Launching(d) /\ TransferOf[d] # t
        BY <1>4, <1>8, <2>1, <3>1, <3>3
      <4>2. QED
        BY <1>3, <1>7, <3>1, <4>1 DEF Launched
    <3>4. QED
      BY <3>2, <3>3
  <2>2. QED
    BY <1>2, <2>1 DEF Launched
<1>10. hand' \in [Consumers -> Hand]
  BY <1>2, Untouched
<1>11. QED
  BY <1>2, <1>5, <1>6, <1>8, <1>9, <1>10, PublishKeeps

-----------------------------------------------------------------------------
(* The invariant.                                                          *)

\* It holds when nothing has happened.
LEMMA Start == Init => IInv
<1>1. SUFFICES ASSUME Init
               PROVE  IInv
  OBVIOUS
<1>2. /\ start = [c \in Starts |-> "new"]
      /\ queue = [p \in Consumers |-> <<>>]
      /\ hand = [p \in Consumers |-> Idle]
      /\ claimed = {} /\ emitted = {} /\ log = {} /\ late = {}
      /\ timeouts = 0 /\ repeats = 0 /\ losses = 0
      /\ StoreInit
  BY <1>1 DEF Init
<1>3. /\ ServiceTypes /\ ServicesAgree
      /\ \A t \in Transfers : Done[t] = {} /\ Undone[t] = {}
  BY <1>1, ServicesStart DEF Init
<1>4. StoreTypeOK
  BY <1>2 DEF StoreInit, StoreTypeOK, PublicStatuses
<1>5. SagaTypes
  BY <1>2, <1>4, FirstAttempt, ChoreographyAssumption DEF SagaTypes
<1>6. Idle.pc = "idle" /\ Idle.link = "sound"
  BY DEF Idle
<1>7. \A p \in Consumers : Holding(p)
  <2>1. ASSUME NEW p \in Consumers
        PROVE  Holding(p)
    <3>1. queue[p] = <<>> /\ hand[p] = Idle
      BY <1>2
    <3>2. QED
      BY <1>2, <1>6, <3>1 DEF Holding, At
  <2>2. QED
    BY <2>1
<1>8. \A p \in Workers : Working(p)
  BY <1>2, <1>6, ChoreographyAssumption DEF Working
<1>9. \A t \in Transfers, kind \in StepKinds, s \in Steps : Row(t, kind, s) = Absent
  BY <1>2 DEF StoreInit, Row
<1>10. Unique /\ Caused /\ Launched
  BY <1>2 DEF Unique, Caused, Launched, Launching
<1>11. Written
  <2>1. \A t \in Transfers, type \in WorkTypes : Decision(t, type) = Absent
    BY <1>9, WorkTable DEF Decision, Row
  <2>2. \A t \in Transfers : Row(t, "COMPENSATION", "CREDIT") = Absent
    BY <1>9 DEF StepKinds, Steps
  <2>3. QED
    BY <2>1, <2>2 DEF Written
<1>12. Services
  <2>1. Ordered /\ Asked
    BY <1>3 DEF Ordered, Asked
  <2>2. Audited
    <3>1. "EXECUTED" # Absent /\ "COMPENSATED" # Absent
      BY AbsentAssumption DEF ActionStatuses, RollbackStatuses
    <3>2. \A t \in Transfers, s \in Steps :
            trail[<<t, "ACTION", s>>] = Absent /\ trail[<<t, "COMPENSATION", s>>] = Absent
      BY <1>9 DEF Row, StepKinds
    <3>3. QED
      BY <3>1, <3>2 DEF Audited
  <2>3. QED
    BY <1>2, <2>1, <2>2 DEF Services
<1>13. Verdicts
  <2>1. \A t \in Transfers : execution[t] = Absent
    BY <1>2 DEF StoreInit
  <2>2. QED
    BY <1>2, <2>1 DEF Verdicts, Explained, Named, Projection, InTime, Emitted
<1>14. QED
  BY <1>3, <1>5, <1>7, <1>8, <1>10, <1>11, <1>12, <1>13 DEF IInv, Lineage

\* When nothing happens it stays.
LEMMA StutterKeeps ==
  ASSUME IInv, UNCHANGED vars
  PROVE  IInv'
<1>1. UNCHANGED <<request, services, execution, trail, announced, start, queue, claimed,
                  emitted, hand, log, late, timeouts, repeats, losses>>
  BY DEF vars, services
<1>2. Launched'
  BY <1>1 DEF IInv, Lineage, Launched, Launching, Emitted
<1>3. start \in [Starts -> {"new", "publish", "retry", "done", "failed"}]
  BY DEF IInv, SagaTypes
<1>4. QED
  BY <1>1, <1>2, <1>3, Untouched, StartStepKeeps

\* Every step keeps it.
LEMMA EveryStep == IInv /\ [Next]_vars => IInv'
<1>1. SUFFICES ASSUME IInv, [Next]_vars
               PROVE  IInv'
  OBVIOUS
<1>2. ASSUME NEW c \in Starts, StartStep(c) \/ FailToLaunch(c)
      PROVE  IInv'
  BY <1>1, <1>2, RegisterKeeps, CallEndsKeeps, LaunchKeeps DEF StartStep
<1>3. ASSUME NEW p \in Consumers, Step(p)
      PROVE  IInv'
  BY <1>1, <1>3, ClaimKeeps, SkipDuplicateKeeps, AnsweredKeeps, RetryKeeps, GiveUpKeeps,
     RecordKeeps, EmitKeeps, EmitAgainKeeps, ProjectKeeps, TellKeeps, StoreKeeps, AckKeeps,
     AckLostKeeps DEF Step
<1>4. ASSUME NEW p \in Consumers, EmitInVain(p) \/ Raise(p)
      PROVE  IInv'
  BY <1>1, <1>4, EmitKeeps, RaiseKeeps
<1>5. CASE Crash
  BY <1>1, <1>5, CrashKeeps
<1>6. ASSUME NEW m \in late, ExecuteLate(m)
      PROVE  IInv'
  BY <1>1, <1>6, ExecuteLateKeeps
<1>7. CASE Rest
  BY <1>1, <1>7, StutterKeeps DEF Rest
<1>8. CASE UNCHANGED vars
  BY <1>1, <1>8, StutterKeeps
<1>9. QED
  BY <1>1, <1>2, <1>3, <1>4, <1>5, <1>6, <1>7, <1>8 DEF Next

\* So it holds in every state.
LEMMA Invariance == Spec => []IInv
  BY Start, EveryStep, PTL DEF Spec

-----------------------------------------------------------------------------
(* What it means for a saga.                                               *)

\* All steps, or no more than were undone: a debit that was undone ends a rollback
\* that left nothing standing, a debit that failed lets nothing run, and nobody
\* asks to undo a transfer whose credit was executed.
LEMMA AllOrRolledBack ==
  ASSUME IInv, NEW t \in Transfers
  PROVE  /\ Row(t, "COMPENSATION", "DEBIT") = "COMPENSATED" =>
              /\ Row(t, "ACTION", "DEBIT") = "EXECUTED" /\ Row(t, "ACTION", "CREDIT") # "EXECUTED"
              /\ \A s \in {"DEBIT", "RISK", "CLEARING"} :
                   Row(t, "ACTION", s) = "EXECUTED" =>
                     Row(t, "COMPENSATION", s) = "COMPENSATED"
         /\ Row(t, "ACTION", "DEBIT") = "FAILED" =>
              \A s \in Steps : Row(t, "ACTION", s) # "EXECUTED"
         /\ Row(t, "ACTION", "CREDIT") = "EXECUTED" =>
              /\ \A s \in Steps : Row(t, "ACTION", s) = "EXECUTED"
              /\ \A s \in Steps : ~Requested(t, s)
<1>1. Meaning(t) /\ Chain(t)
  BY History DEF IInv, Lineage, SagaTypes
<1>2. "EXECUTED" # Absent /\ "FAILED" # Absent /\ "COMPENSATED" # Absent
  BY AbsentAssumption DEF ActionStatuses, RollbackStatuses
<1>3. /\ Row(t, "COMPENSATION", "DEBIT") = "COMPENSATED" =>
           /\ Row(t, "ACTION", "DEBIT") = "EXECUTED" /\ Row(t, "ACTION", "CREDIT") # "EXECUTED"
           /\ \A s \in {"DEBIT", "RISK", "CLEARING"} :
                Row(t, "ACTION", s) = "EXECUTED" =>
                  Row(t, "COMPENSATION", s) = "COMPENSATED"
      /\ Row(t, "ACTION", "DEBIT") = "FAILED" =>
           \A s \in Steps : Row(t, "ACTION", s) # "EXECUTED"
      /\ Row(t, "ACTION", "CREDIT") = "EXECUTED" =>
           \A s \in Steps : Row(t, "ACTION", s) = "EXECUTED"
  BY <1>1, <1>2 DEF Chain, RiskFailed, Steps
<1>4. ASSUME Row(t, "ACTION", "CREDIT") = "EXECUTED", NEW s \in Steps, Requested(t, s)
      PROVE  FALSE
  <2>1. \E type \in DOMAIN Compensates : Emitted(t, type)
    BY <1>4 DEF Requested
  <2>2. /\ Taken(t, "RiskRejected") => RiskFailed(t)
        /\ Taken(t, "RiskCompensated") => Row(t, "COMPENSATION", "RISK") = "COMPENSATED"
    BY <1>1 DEF Meaning, Taken, Emitted
  <2>3. \A u \in Steps : Row(t, "ACTION", u) = "EXECUTED"
    BY <1>3, <1>4
  <2>4. QED
    BY <1>1, <1>2, <2>1, <2>2, <2>3, WorkTable DEF Meaning, Chain, RiskFailed, Steps
<1>5. QED
  BY <1>3, <1>4

\* Every table, message, event and hand keeps its type; whoever is at work
\* holds the first message of its queue, which it has claimed.
THEOREM Typing == Spec => []TypeOK
<1>1. IInv => TypeOK
  BY DEF IInv, ServiceTypes, SagaTypes, Holding, TypeOK
<1>2. QED
  BY <1>1, Invariance, PTL

\* The audit trail never claims an effect, or a reversal, that a service did
\* not really have, however often a message comes and whatever is lost.
THEOREM AuditTrue == Spec => []AuditNeverLies
<1>1. IInv => AuditNeverLies
  <2>1. ASSUME IInv, NEW t \in Transfers, NEW s \in Steps
        PROVE  /\ trail[<<t, "ACTION", s>>] = "EXECUTED" => Committed(t, s)
               /\ trail[<<t, "COMPENSATION", s>>] = "COMPENSATED" => Reverted(t, s)
    BY <2>1 DEF IInv, Services, Audited, Done, Undone
  <2>2. QED
    BY <2>1 DEF AuditNeverLies, Row
<1>2. QED
  BY <1>1, Invariance, PTL

\* No step takes effect at a service before every step that precedes it,
\* although nobody decides the sequence.
THEOREM InOrder == Spec => []NothingRunsAhead
<1>1. IInv => NothingRunsAhead
  <2>1. ASSUME IInv, NEW t \in Transfers, NEW s \in Steps, Committed(t, s),
               NEW u \in Before(s)
        PROVE  Committed(t, u)
    BY <2>1 DEF IInv, Services, Ordered, Done
  <2>2. QED
    BY <2>1 DEF NothingRunsAhead
<1>2. QED
  BY <1>1, Invariance, PTL

\* No event is ever emitted a second time: however messages are repeated, no
\* handler runs twice for its effect.
THEOREM OnceEach == Spec => []NoEventTwice
<1>1. IInv => NoEventTwice
  BY DEF IInv, Lineage, Unique, NoEventTwice
<1>2. QED
  BY <1>1, Invariance, PTL

\* The rollback runs in reverse order, by causality alone: a service undoes a
\* step only when all that the trail executed after it has been undone.
THEOREM Causality == Spec => []RollbackByCausality
<1>1. ASSUME IInv, NEW t \in Transfers, NEW s \in Steps, Reverted(t, s),
             NEW u \in After(s), Row(t, "ACTION", u) = "EXECUTED"
      PROVE  Reverted(t, u)
  <2>1. Meaning(t) /\ Chain(t)
    BY <1>1, History DEF IInv, Lineage, SagaTypes
  <2>2. "EXECUTED" # Absent /\ "FAILED" # Absent /\ "COMPENSATED" # Absent
    BY AbsentAssumption DEF ActionStatuses, RollbackStatuses
  <2>3. Requested(t, s)
    BY <1>1 DEF IInv, Services, Asked, Undone
  <2>4. PICK type \in DOMAIN Compensates : Compensates[type] = s /\ Emitted(t, type)
    BY <2>3 DEF Requested
  <2>5. /\ s = "DEBIT" => Emitted(t, "DebitCompensationRequested")
        /\ s = "RISK" => Emitted(t, "RiskCompensationRequested")
        /\ s = "CLEARING" => Emitted(t, "ClearingCompensationRequested")
        /\ s # "CREDIT"
    BY <2>4, WorkTable DEF Compensates
  <2>6. /\ Taken(t, "RiskRejected") => RiskFailed(t)
        /\ Taken(t, "RiskCompensated") => Row(t, "COMPENSATION", "RISK") = "COMPENSATED"
    BY <2>1 DEF Meaning, Taken, Emitted
  <2>7. u \in Steps /\ Row(t, "COMPENSATION", u) = "COMPENSATED"
    BY <1>1, <2>1, <2>2, <2>5, <2>6, StepOrder DEF Meaning, Chain, RiskFailed, Steps
  <2>8. QED
    BY <1>1, <2>7 DEF IInv, Services, Audited, Row, Undone
<1>2. IInv => RollbackByCausality
  BY <1>1 DEF RollbackByCausality
<1>3. QED
  BY <1>2, Invariance, PTL

\* A transfer whose row says completed has every step executed and standing.
LEMMA CompletedStands ==
  ASSUME IInv, NEW t \in Transfers, execution[t] # Absent,
         execution[t].status = "COMPLETED"
  PROVE  /\ Executed(t) = Steps
         /\ \A s \in Steps : Standing(t, s)
<1>1. execution[t].finished
  BY DEF IInv, Verdicts, Projection
<1>2. Emitted(t, "TransferCompleted")
  BY <1>1 DEF IInv, Verdicts, Projection
<1>3. Row(t, "ACTION", "CREDIT") = "EXECUTED"
  BY <1>2, History DEF IInv, Lineage, SagaTypes, Meaning
<1>4. \A s \in Steps : Row(t, "ACTION", s) = "EXECUTED" /\ ~Requested(t, s)
  BY <1>3, AllOrRolledBack
<1>5. \A s \in Steps : s \in Done[t] /\ s \notin Undone[t]
  BY <1>4 DEF IInv, Services, Audited, Asked, Row
<1>6. QED
  BY <1>4, <1>5 DEF Executed, Row, Standing, Done, Undone

\* What the projector makes of the events is what the participants wrote in
\* the trail: whatever is lost on the way, a finished row never tells a client
\* another story than the one the services lived through.
THEOREM VerdictTrue == Spec => []VerdictMatchesTrail
<1>1. ASSUME IInv, NEW t \in Transfers, Finished(t)
      PROVE  LET row == execution[t] IN
             /\ row.status = "COMPLETED" =>
                  Executed(t) = Steps /\ \A s \in Steps : Standing(t, s)
             /\ row.status = "REJECTED_FUNDS" =>
                  Executed(t) = {} /\ row.compensation = "NOT_REQUIRED"
             /\ row.status \notin {"COMPLETED", "REJECTED_FUNDS"} =>
                  /\ row.compensation = "COMPENSATED"
                  /\ "DEBIT" \in Executed(t) /\ Executed(t) # Steps
                  /\ \A s \in Executed(t) : Row(t, "COMPENSATION", s) = "COMPENSATED"
                  /\ row.status = "REJECTED_RISK" => RiskFailed(t)
                  /\ row.error = "NONE" => RiskFailed(t) \/ losses > 0
  <2> DEFINE row == execution[t]
  <2>1. row # Absent /\ row.finished
    BY <1>1 DEF Finished
  <2>2. /\ row.error # "NONE" =>
             \E e \in emitted :
               e.transfer = t /\ e.type = "TransferFailed" /\ e.error = row.error
        /\ \/ row.status = "COMPLETED"
           \/ /\ row.status = "REJECTED_FUNDS" /\ row.compensation = "NOT_REQUIRED"
              /\ row.error = "INSUFFICIENT_FUNDS"
           \/ /\ row.status = OutcomeFor(row.error) /\ row.compensation = "COMPENSATED"
              /\ row.status # "REJECTED_FUNDS" /\ row.status # "COMPLETED"
              /\ Emitted(t, "TransferCompensated")
              /\ row.error = "NONE" => RiskFailed(t) \/ losses > 0
    BY <1>1, <2>1 DEF IInv, Verdicts, Projection
  <2>3. /\ row.error = "INSUFFICIENT_FUNDS" => Row(t, "ACTION", "DEBIT") = "FAILED"
        /\ row.error # "NONE" /\ OutcomeFor(row.error) = "REJECTED_RISK" => RiskFailed(t)
    BY <1>1, <2>2 DEF IInv, Verdicts, Named, RiskFailed
  <2>4. CASE row.status = "COMPLETED"
    BY <1>1, <2>1, <2>4, CompletedStands
  <2>5. CASE row.status = "REJECTED_FUNDS"
    <3>1. row.compensation = "NOT_REQUIRED" /\ Row(t, "ACTION", "DEBIT") = "FAILED"
      BY <2>2, <2>3, <2>5
    <3>2. Executed(t) = {}
      BY <1>1, <3>1, AllOrRolledBack DEF Executed, Row
    <3>3. QED
      BY <2>5, <3>1, <3>2
  <2>6. CASE row.status \notin {"COMPLETED", "REJECTED_FUNDS"}
    <3>1. /\ row.status = OutcomeFor(row.error) /\ row.compensation = "COMPENSATED"
          /\ Emitted(t, "TransferCompensated")
          /\ row.error = "NONE" => RiskFailed(t) \/ losses > 0
      BY <2>2, <2>6
    <3>2. Row(t, "COMPENSATION", "DEBIT") = "COMPENSATED"
      BY <1>1, <3>1, History DEF IInv, Lineage, SagaTypes, Meaning
    <3>3. /\ Row(t, "ACTION", "DEBIT") = "EXECUTED" /\ Row(t, "ACTION", "CREDIT") # "EXECUTED"
          /\ \A s \in {"DEBIT", "RISK", "CLEARING"} :
               Row(t, "ACTION", s) = "EXECUTED" => Row(t, "COMPENSATION", s) = "COMPENSATED"
      BY <1>1, <3>2, AllOrRolledBack
    <3>4. /\ "DEBIT" \in Executed(t) /\ Executed(t) # Steps
          /\ \A s \in Executed(t) : Row(t, "COMPENSATION", s) = "COMPENSATED"
      BY <3>3 DEF Executed, Row, Steps
    <3>5. row.status = "REJECTED_RISK" => RiskFailed(t)
      BY <2>3, <3>1 DEF OutcomeFor
    <3>6. QED
      BY <2>6, <3>1, <3>4, <3>5
  <2>7. QED
    BY <2>4, <2>5, <2>6
<1>2. IInv => VerdictMatchesTrail
  BY <1>1 DEF VerdictMatchesTrail, RiskFailed
<1>3. QED
  BY <1>2, Invariance, PTL

\* A transfer shown as completed has really moved the money: every step took
\* effect at its service and none was undone.
THEOREM CompletedMoved == Spec => []CompletedMeansMoved
<1>1. IInv => CompletedMeansMoved
  BY CompletedStands DEF CompletedMeansMoved
<1>2. QED
  BY <1>1, Invariance, PTL

-----------------------------------------------------------------------------
(* The lifecycle: the order in which the projector hears of a transfer.    *)

\* How far an event takes the row: the forward ones as far as the status they
\* set, all others beyond.
Reach(type) == IF type \in DOMAIN StatusOn THEN Lifecycle!Progress(StatusOn[type]) ELSE 4

\* What the projector has still to acknowledge, in the order of its queue.
Arrivals == queue["projector"]

\* An unfinished row shows no outcome, and nothing that no event has said.
Shown ==
  \A t \in Transfers : execution[t] # Absent /\ ~execution[t].finished =>
    /\ execution[t].status \notin TerminalStatuses
    /\ \/ execution[t].status = "PENDING"
       \/ \E e \in emitted :
            /\ e.transfer = t
            /\ Lifecycle!Progress(execution[t].status) <= Reach(e.type)

\* Nobody publishes a second time unless something is repeated, and
\* ClearingRequested is published before the call, or never.
Paced(p) ==
  /\ repeats = 0 => hand[p].link # "retrying"
  /\ At(p, "emit") /\ hand[p].outcome # "NONE" =>
       \A i \in 1..Len(hand[p].todo) : hand[p].todo[i] # "ClearingRequested"

FirstTime ==
  /\ \A p \in Workers : Paced(p)
  /\ repeats = 0 => \A c \in Starts : start[c] # "retry"

\* What was published the projector has taken or is to take, unless it is lost.
Delivered ==
  losses = 0 => \A e \in emitted :
    <<"projector", e>> \in claimed \/ \E i \in 1..Len(Arrivals) : Arrivals[i] = e

\* Nothing comes twice unless something is repeated.
Distinct ==
  repeats = 0 => \A i, j \in 1..Len(Arrivals) : Arrivals[i] = Arrivals[j] => i = j

\* A message the projector has still to project, and no copy of one before it.
Fresh(j) ==
  /\ \/ <<"projector", Arrivals[j]>> \notin claimed
     \/ j = 1 /\ At("projector", "project")
  /\ \A i \in 1..Len(Arrivals) : i < j => Arrivals[i] # Arrivals[j]

\* A forward event that is still to be projected takes the row no way back: it
\* reaches as far as the row, and as far as all that comes before it.
InSequence ==
  repeats = 0 \/ losses = 0 =>
    \A j \in 1..Len(Arrivals) : Fresh(j) /\ Arrivals[j].type \in DOMAIN StatusOn =>
      LET e == Arrivals[j]
          t == e.transfer
      IN
      /\ Finished(t) \/ Lifecycle!Progress(execution[t].status) <= Reach(e.type)
      /\ \A i \in 1..Len(Arrivals) :
           i < j /\ Fresh(i) /\ Arrivals[i].transfer = t =>
             Reach(Arrivals[i].type) <= Reach(e.type)

Flow ==
  /\ Shown /\ FirstTime
  /\ "projector" \in Consumers => Delivered /\ Distinct /\ InSequence

\* How far each event and each status is.
LEMMA Reaches ==
  /\ DOMAIN StatusOn = {"TransferRequested", "BalanceDebited", "RiskApproved",
                        "ClearingRequested", "ClearingCompleted"}
  /\ Reach("TransferRequested") = 0 /\ Reach("BalanceDebited") = 1 /\ Reach("RiskApproved") = 2
  /\ Reach("ClearingRequested") = 3 /\ Reach("ClearingCompleted") = 3
  /\ \A type : type \notin DOMAIN StatusOn => Reach(type) = 4
  /\ Lifecycle!Progress("PENDING") = 0 /\ Lifecycle!Progress("COMPENSATING") = 4
  /\ \A type \in DOMAIN StatusOn :
       /\ Lifecycle!Progress(StatusOn[type]) = Reach(type)
       /\ StatusOn[type] \in SagaStatuses \ TerminalStatuses
  /\ \A status \in SagaStatuses \ TerminalStatuses : Lifecycle!Progress(status) \in 0..4
<1>1. DOMAIN StatusOn = {"TransferRequested", "BalanceDebited", "RiskApproved",
                         "ClearingRequested", "ClearingCompleted"}
  BY DEF StatusOn
<1>2. /\ StatusOn["TransferRequested"] = "PENDING" /\ StatusOn["BalanceDebited"] = "DEBITED"
      /\ StatusOn["RiskApproved"] = "RISK_APPROVED"
      /\ StatusOn["ClearingRequested"] = "CLEARING_PENDING"
      /\ StatusOn["ClearingCompleted"] = "CLEARING_PENDING"
  BY DEF StatusOn
<1>3. /\ Lifecycle!Progress("PENDING") = 0 /\ Lifecycle!Progress("DEBITED") = 1
      /\ Lifecycle!Progress("RISK_APPROVED") = 2
      /\ Lifecycle!Progress("CLEARING_PENDING") = 3
      /\ Lifecycle!Progress("COMPENSATING") = 4
  BY DEF Lifecycle!Progress
<1>4. SagaStatuses \ TerminalStatuses =
        {"PENDING", "DEBITED", "RISK_APPROVED", "CLEARING_PENDING", "COMPENSATING"}
  BY DEF SagaStatuses, TerminalStatuses
<1>5. QED
  BY <1>1, <1>2, <1>3, <1>4 DEF Reach

\* An event of a transfer implies those before it: by what the trail says, or by
\* who took them.
LEMMA WhatCameBefore ==
  ASSUME Caused, Written, emitted \subseteq Event, NEW t \in Transfers,
         NEW type, Emitted(t, type)
  PROVE  /\ type # "TransferRequested" => Row(t, "ACTION", "DEBIT") # Absent
         /\ type \notin {"TransferRequested", "BalanceDebited"}
              /\ Row(t, "ACTION", "DEBIT") = "EXECUTED"
            => Row(t, "ACTION", "RISK") # Absent
         /\ type \notin {"TransferRequested", "BalanceDebited", "RiskApproved"}
              /\ Row(t, "ACTION", "RISK") = "EXECUTED"
            => Taken(t, "RiskApproved")
         /\ type \notin {"TransferRequested", "BalanceDebited", "RiskApproved",
                         "ClearingRequested"}
              /\ Row(t, "ACTION", "RISK") = "EXECUTED"
            => Row(t, "ACTION", "CLEARING") # Absent
         /\ type \notin {"TransferRequested", "BalanceDebited", "RiskApproved",
                         "ClearingRequested", "ClearingCompleted"}
              /\ Row(t, "ACTION", "CLEARING") = "EXECUTED"
            => Row(t, "ACTION", "CREDIT") # Absent
<1>1. Meaning(t) /\ Chain(t)
  BY History
<1>2. type \in EventTypes
  BY DEF Emitted, Event
<1>3. "EXECUTED" # Absent /\ "FAILED" # Absent /\ "COMPENSATED" # Absent
  BY AbsentAssumption DEF ActionStatuses, RollbackStatuses
<1>4. /\ Taken(t, "RiskRejected") => RiskFailed(t)
      /\ Taken(t, "RiskCompensated") => Row(t, "COMPENSATION", "RISK") = "COMPENSATED"
      /\ Taken(t, "RiskApproved") => Row(t, "ACTION", "RISK") = "EXECUTED"
  BY <1>1 DEF Meaning, Taken, Emitted
<1>5. Row(t, "ACTION", "CLEARING") # Absent => Taken(t, "RiskApproved")
  BY WorkTable, DecisionTable DEF Written
<1>6. CASE type = "TransferFailed"
  <2>1. PICK s \in Steps : Row(t, "ACTION", s) = "FAILED"
    BY <1>1, <1>6 DEF Meaning
  <2>2. s \in {"DEBIT", "RISK", "CLEARING", "CREDIT"}
    BY DEF Steps
  <2>3. QED
    BY <1>1, <1>3, <1>5, <1>6, <2>1, <2>2 DEF Chain
<1>7. CASE type # "TransferFailed"
  BY <1>1, <1>2, <1>3, <1>4, <1>5, <1>7 DEF Meaning, Chain, RiskFailed, EventTypes
<1>8. QED
  BY <1>6, <1>7

\* A forward event is published before any that comes after it.
LEMMA Foremost ==
  ASSUME Caused, Written, emitted \subseteq Event, NEW e \in Event, Warranted(e),
         ~Emitted(e.transfer, e.type), e.type \in DOMAIN StatusOn,
         e.type = "ClearingRequested" => Row(e.transfer, "ACTION", "CLEARING") = Absent,
         NEW f \in emitted, f.transfer = e.transfer
  PROVE  Reach(f.type) <= Reach(e.type)
<1>1. PICK t \in Transfers : t = e.transfer /\ t = f.transfer
  BY DEF Event
<1>2. PICK new \in DOMAIN StatusOn, type \in EventTypes : new = e.type /\ type = f.type
  BY DEF Event
<1>3. Emitted(t, type) /\ type # new
  BY <1>1, <1>2 DEF Emitted
<1>4. Meaning(t) /\ Chain(t)
  BY History
<1>5. "EXECUTED" # Absent /\ "FAILED" # Absent
  BY AbsentAssumption DEF ActionStatuses
<1>6. /\ Row(t, "ACTION", "DEBIT") # Absent => Emitted(t, "TransferRequested")
      /\ Row(t, "ACTION", "RISK") # Absent => Emitted(t, "BalanceDebited")
      /\ Row(t, "ACTION", "CREDIT") # Absent => Emitted(t, "ClearingCompleted")
      /\ Taken(t, "RiskApproved") => Emitted(t, "RiskApproved")
  <2>1. \A work \in WorkTypes : Decision(t, work) # Absent => Taken(t, work)
    BY DEF Written
  <2>2. \A work : Taken(t, work) => Emitted(t, work)
    BY DEF Taken, Emitted
  <2>3. QED
    BY <2>1, <2>2, WorkTable, DecisionTable
<1>7. ASSUME new # "TransferRequested"
      PROVE  /\ new = "BalanceDebited" => Row(t, "ACTION", "DEBIT") = "EXECUTED"
             /\ new = "RiskApproved" => Row(t, "ACTION", "RISK") = "EXECUTED"
             /\ new = "ClearingRequested" => Row(t, "ACTION", "RISK") = "EXECUTED"
             /\ new = "ClearingCompleted" => Row(t, "ACTION", "CLEARING") = "EXECUTED"
  <2>1. PICK parent \in EventTypes : Leads(t, parent, new)
    BY <1>1, <1>2, <1>7 DEF Warranted
  <2>2. Taken(t, parent) => Emitted(t, parent)
    BY DEF Taken, Emitted
  <2>3. new = "ClearingRequested" => Emitted(t, "RiskApproved")
    BY <2>1, <2>2, Parents DEF Leads
  <2>4. QED
    BY <1>4, <2>1, <2>3, Parents DEF Meaning
<1>8. /\ type # "TransferRequested" => Row(t, "ACTION", "DEBIT") # Absent
      /\ type \notin {"TransferRequested", "BalanceDebited"}
           /\ Row(t, "ACTION", "DEBIT") = "EXECUTED"
         => Row(t, "ACTION", "RISK") # Absent
      /\ type \notin {"TransferRequested", "BalanceDebited", "RiskApproved"}
           /\ Row(t, "ACTION", "RISK") = "EXECUTED"
         => Taken(t, "RiskApproved")
      /\ type \notin {"TransferRequested", "BalanceDebited", "RiskApproved",
                      "ClearingRequested"}
           /\ Row(t, "ACTION", "RISK") = "EXECUTED"
         => Row(t, "ACTION", "CLEARING") # Absent
      /\ type \notin {"TransferRequested", "BalanceDebited", "RiskApproved",
                      "ClearingRequested", "ClearingCompleted"}
           /\ Row(t, "ACTION", "CLEARING") = "EXECUTED"
         => Row(t, "ACTION", "CREDIT") # Absent
  BY <1>3, WhatCameBefore
<1>9. ~Emitted(t, new)
  BY <1>1, <1>2
<1>10. Reach(type) <= Reach(new)
  <2>1. CASE new = "TransferRequested"
    BY <1>3, <1>6, <1>8, <1>9, <2>1
  <2>2. CASE new = "BalanceDebited"
    BY <1>3, <1>5, <1>6, <1>7, <1>8, <1>9, <2>2, Reaches
  <2>3. CASE new = "RiskApproved"
    BY <1>3, <1>5, <1>6, <1>7, <1>8, <1>9, <2>3, Reaches
  <2>4. CASE new = "ClearingRequested"
    BY <1>1, <1>2, <1>3, <1>5, <1>6, <1>7, <1>8, <1>9, <2>4, Reaches
  <2>5. CASE new = "ClearingCompleted"
    BY <1>3, <1>5, <1>6, <1>7, <1>8, <1>9, <2>5, Reaches
  <2>6. QED
    BY <2>1, <2>2, <2>3, <2>4, <2>5, Reaches
<1>11. QED
  BY <1>2, <1>10

\* What is published reaches the projector behind all it follows from.
LEMMA ArrivalsGrow ==
  ASSUME IInv, Flow, "projector" \in Consumers, NEW e, Publishes(e), Warranted(e),
         hand'["projector"] = hand["projector"],
         e \in emitted => repeats' # 0, repeats' = 0 => repeats = 0,
         e.type = "ClearingRequested" => Row(e.transfer, "ACTION", "CLEARING") = Absent
  PROVE  Delivered' /\ Distinct' /\ InSequence'
<1>1. PICK old \in Seq(emitted) : old = queue["projector"]
  BY Untouched
<1>2. PICK new : new = queue'["projector"]
  OBVIOUS
<1>3. /\ e \in Event /\ emitted' = emitted \cup {e}
      /\ execution' = execution /\ claimed' = claimed
      /\ losses' = 0 => losses = 0 /\ new = Append(old, e)
      /\ new = old \/ new = Append(old, e)
      /\ e \in emitted \/ ~Emitted(e.transfer, e.type)
      /\ losses \in Nat /\ losses' \in 0..MaxLosses
  BY <1>1, <1>2, Untouched DEF Publishes
<1>4. /\ Len(old) \in Nat
      /\ new = old \/ (/\ Len(new) = Len(old) + 1 /\ new[Len(old) + 1] = e
                       /\ \A i \in 1..Len(old) : new[i] = old[i])
  BY <1>3
<1>5. /\ \A j \in 1..Len(new) :
           \/ j \in 1..Len(old) /\ new[j] = old[j]
           \/ j = Len(old) + 1 /\ new[j] = e
      /\ \A j \in 1..Len(old) : j \in 1..Len(new) /\ new[j] = old[j]
  BY <1>4
<1>6. Delivered /\ Distinct /\ InSequence /\ Shown
  BY DEF Flow
<1>7. Delivered'
  <2>1. SUFFICES ASSUME losses' = 0, NEW f \in emitted \cup {e}
                 PROVE  <<"projector", f>> \in claimed \/ \E i \in 1..Len(new) : new[i] = f
    BY <1>2, <1>3 DEF Delivered, Arrivals
  <2>2. losses = 0 /\ Len(new) = Len(old) + 1 /\ new[Len(old) + 1] = e
    BY <1>1, <1>3, <2>1
  <2>3. CASE f = e
    BY <1>4, <2>2, <2>3
  <2>4. CASE f \in emitted
    BY <1>1, <1>5, <1>6, <2>2, <2>4 DEF Delivered, Arrivals
  <2>5. QED
    BY <2>1, <2>3, <2>4
<1>8. \A i \in 1..Len(old) : old[i] \in emitted
  BY <1>1
<1>9. Distinct'
  <2>1. SUFFICES ASSUME repeats' = 0, NEW i \in 1..Len(new), NEW j \in 1..Len(new),
                        new[i] = new[j]
                 PROVE  i = j
    BY <1>2 DEF Distinct, Arrivals
  <2>2. repeats = 0 /\ e \notin emitted
    BY <2>1
  <2>3. \A k, l \in 1..Len(old) : old[k] = old[l] => k = l
    BY <1>1, <1>6, <2>2 DEF Distinct, Arrivals
  <2>4. QED
    BY <1>5, <1>8, <2>1, <2>2, <2>3
<1>10. \A j \in 1..Len(old) : Fresh(j)' => Fresh(j)
  <2>1. ASSUME NEW j \in 1..Len(old), Fresh(j)'
        PROVE  Fresh(j)
    <3>1. /\ <<"projector", old[j]>> \notin claimed \/ (j = 1 /\ At("projector", "project"))
          /\ \A i \in 1..Len(old) : i < j => old[i] # old[j]
      BY <1>2, <1>3, <1>5, <2>1 DEF Fresh, Arrivals, At
    <3>2. QED
      BY <1>1, <3>1 DEF Fresh, Arrivals
  <2>2. QED
    BY <2>1
<1>11. Caused /\ Written /\ emitted \subseteq Event /\ Unique
  BY DEF IInv, Lineage, SagaTypes
<1>12. \A t : Finished(t)' <=> Finished(t)
  BY <1>3 DEF Finished
<1>13. InSequence'
  <2>1. SUFFICES ASSUME repeats' = 0 \/ losses' = 0, NEW j \in 1..Len(new),
                        Fresh(j)', new[j].type \in DOMAIN StatusOn
                 PROVE  LET t == new[j].transfer IN
                        /\ \/ Finished(t)
                           \/ Lifecycle!Progress(execution[t].status) <= Reach(new[j].type)
                        /\ \A i \in 1..Len(new) :
                             i < j /\ Fresh(i)' /\ new[i].transfer = t =>
                               Reach(new[i].type) <= Reach(new[j].type)
    BY <1>2, <1>3, <1>12 DEF InSequence, Arrivals
  <2>2. repeats = 0 \/ losses = 0
    BY <1>3, <2>1
  <2>3. CASE j \in 1..Len(old)
    <3>1. \A i \in 1..Len(new) : i < j => i \in 1..Len(old) /\ new[i] = old[i]
      BY <1>5, <2>3
    <3>2. Fresh(j) /\ new[j] = old[j]
      BY <1>5, <1>10, <2>1, <2>3
    <3>3. LET t == old[j].transfer IN
          /\ \/ Finished(t)
             \/ Lifecycle!Progress(execution[t].status) <= Reach(old[j].type)
          /\ \A i \in 1..Len(old) :
               i < j /\ Fresh(i) /\ old[i].transfer = t => Reach(old[i].type) <= Reach(old[j].type)
      BY <1>1, <1>6, <2>1, <2>2, <2>3, <3>2 DEF InSequence, Arrivals
    <3>4. QED
      BY <1>10, <3>1, <3>2, <3>3
  <2>4. CASE j = Len(old) + 1 /\ new[j] = e
    <3>1. \A i \in 1..Len(new) : i < j => i \in 1..Len(old) /\ new[i] = old[i]
      BY <1>5, <2>4
    <3>2. At("projector", "project") => old # <<>>
      BY <1>1, AtWork DEF At
    <3>3. <<"projector", e>> \notin claimed
      BY <1>1, <1>2, <1>3, <2>1, <2>4, <3>2 DEF Fresh, Arrivals, At
    <3>4. \A i \in 1..Len(old) : old[i] # e
      BY <1>2, <1>5, <2>1, <2>4 DEF Fresh, Arrivals
    <3>5. ~Emitted(e.transfer, e.type)
      <4>1. ASSUME e \in emitted, losses' = 0
            PROVE  FALSE
        BY <1>1, <1>3, <1>6, <3>3, <3>4, <4>1 DEF Delivered, Arrivals
      <4>2. QED
        BY <1>3, <2>1, <4>1
    <3>6. \A f \in emitted : f.transfer = e.transfer => Reach(f.type) <= Reach(e.type)
      BY <1>3, <1>11, <2>1, <2>4, <3>5, Foremost
    <3>7. PICK t \in Transfers : t = e.transfer
      BY <1>3 DEF Event
    <3>8. execution[t] # Absent
      BY <3>7 DEF Publishes
    <3>9. ASSUME ~Finished(t)
          PROVE  Lifecycle!Progress(execution[t].status) <= Reach(e.type)
      <4>1. Reach(e.type) \in 0..3
        BY <2>1, <2>4, Reaches
      <4>2. ~execution[t].finished
        BY <3>8, <3>9 DEF Finished
      <4>3. CASE execution[t].status = "PENDING"
        BY <4>1, <4>3, Reaches
      <4>4. ASSUME NEW f \in emitted, f.transfer = t,
                   Lifecycle!Progress(execution[t].status) <= Reach(f.type)
            PROVE  Lifecycle!Progress(execution[t].status) <= Reach(e.type)
        <5>1. Reach(f.type) <= Reach(e.type)
          BY <3>6, <3>7, <4>4
        <5>2. Reach(f.type) \in 0..4
          BY Reaches
        <5>3. Lifecycle!Progress(execution[t].status) \in Nat
          BY DEF Lifecycle!Progress
        <5>4. QED
          BY <4>1, <4>4, <5>1, <5>2, <5>3
      <4>5. QED
        BY <1>6, <3>8, <4>2, <4>3, <4>4 DEF Shown
    <3>10. QED
      BY <1>8, <2>4, <3>1, <3>6, <3>7, <3>9
  <2>5. QED
    BY <1>5, <2>3, <2>4
<1>14. QED
  BY <1>7, <1>9, <1>13

\* The projector lets go of its first message, which it has claimed unless it is
\* lost, or of none, and does not begin to project one it has claimed before.
LetsGo(d) ==
  /\ Arrivals' \in Seq(emitted) /\ Len(Arrivals') + d = Len(Arrivals)
  /\ \A i \in 1..Len(Arrivals') : Arrivals'[i] = Arrivals[i + d]
  /\ At("projector", "project")' =>
       /\ d = 0
       /\ \/ At("projector", "project")
          \/ <<"projector", Current("projector")>> \notin claimed
  /\ d = 1 => <<"projector", Current("projector")>> \in claimed \/ losses' # 0

\* While nothing is published what the projector has still to project only
\* becomes less, and its order stays.
LEMMA ArrivalsMove ==
  ASSUME IInv, Flow, "projector" \in Consumers, emitted' = emitted, claimed \subseteq claimed',
         repeats' = 0 => repeats = 0, losses' = 0 => losses = 0,
         NEW d \in {0, 1}, LetsGo(d)
  PROVE  /\ Delivered' /\ Distinct'
         /\ \A j \in 1..Len(Arrivals') :
              /\ j + d \in 1..Len(Arrivals) /\ Arrivals'[j] \in emitted
              /\ (repeats' = 0 \/ losses' = 0) /\ Fresh(j)' => Fresh(j + d)
<1>1. PICK old \in Seq(emitted) : old = queue["projector"]
  BY Untouched
<1>2. PICK new \in Seq(emitted) : new = queue'["projector"]
  BY DEF Arrivals, LetsGo
<1>3. /\ Len(old) \in Nat /\ Len(new) \in Nat /\ Len(new) + d = Len(old)
      /\ \A i \in 1..Len(new) : i + d \in 1..Len(old) /\ new[i] = old[i + d] /\ new[i] \in emitted
  BY <1>1, <1>2 DEF Arrivals, LetsGo
<1>4. d = 1 => 1 \in 1..Len(old) /\ Current("projector") = old[1]
  BY <1>1, <1>3 DEF Current
<1>5. \A k \in 1..Len(old) : k = d \/ \E i \in 1..Len(new) : k = i + d
  <2>1. ASSUME NEW k \in 1..Len(old), k # d
        PROVE  k - d \in 1..Len(new) /\ k = (k - d) + d
    BY <1>3, <2>1
  <2>2. QED
    BY <2>1
<1>6. Delivered /\ Distinct
  BY DEF Flow
<1>7. Delivered'
  <2>1. SUFFICES ASSUME losses' = 0, NEW e \in emitted, <<"projector", e>> \notin claimed'
                 PROVE  \E i \in 1..Len(new) : new[i] = e
    BY <1>2 DEF Delivered, Arrivals
  <2>2. PICK k \in 1..Len(old) : old[k] = e
    BY <1>1, <1>6, <2>1 DEF Delivered, Arrivals
  <2>3. k # d
    BY <1>4, <2>1, <2>2 DEF LetsGo
  <2>4. QED
    BY <1>3, <1>5, <2>2, <2>3
<1>8. repeats' = 0 => \A k, l \in 1..Len(old) : old[k] = old[l] => k = l
  BY <1>1, <1>6 DEF Distinct, Arrivals
<1>9. Distinct'
  <2>1. SUFFICES ASSUME repeats' = 0, NEW i \in 1..Len(new), NEW j \in 1..Len(new),
                        new[i] = new[j]
                 PROVE  i = j
    BY <1>2 DEF Distinct, Arrivals
  <2>2. i + d = j + d
    BY <1>3, <1>8, <2>1
  <2>3. QED
    BY <2>2
<1>10. ASSUME NEW j \in 1..Len(new), repeats' = 0 \/ losses' = 0, Fresh(j)'
       PROVE  Fresh(j + d)
  <2>1. /\ \/ <<"projector", new[j]>> \notin claimed'
           \/ j = 1 /\ At("projector", "project")'
        /\ \A i \in 1..Len(new) : i < j => new[i] # new[j]
    BY <1>2, <1>10 DEF Fresh, Arrivals
  <2>2. /\ j + d \in 1..Len(old) /\ new[j] = old[j + d]
        /\ j = 1 /\ d = 0 => old[1] = Current("projector")
    BY <1>1, <1>3 DEF Current
  <2>3. \/ <<"projector", old[j + d]>> \notin claimed
        \/ j + d = 1 /\ At("projector", "project")
    BY <2>1, <2>2 DEF LetsGo
  <2>4. ASSUME NEW k \in 1..Len(old), k < j + d
        PROVE  old[k] # old[j + d]
    <3>1. CASE k = d
      <4>1. d = 1 /\ k # j + d
        BY <3>1
      <4>2. CASE losses' = 0
        <5>1. <<"projector", old[k]>> \in claimed /\ <<"projector", old[j + d]>> \notin claimed
          BY <1>4, <2>3, <3>1, <4>1, <4>2 DEF LetsGo
        <5>2. QED
          BY <5>1
      <4>3. CASE repeats' = 0
        BY <1>8, <2>2, <4>1, <4>3
      <4>4. QED
        BY <1>10, <4>2, <4>3
    <3>2. CASE k # d
      <4>1. PICK i \in 1..Len(new) : k = i + d
        BY <1>5, <3>2
      <4>2. i < j
        BY <2>4, <4>1
      <4>3. QED
        BY <1>3, <2>1, <2>2, <4>1, <4>2
    <3>3. QED
      BY <3>1, <3>2
  <2>5. QED
    BY <1>1, <2>3, <2>4 DEF Fresh, Arrivals
<1>11. QED
  BY <1>1, <1>2, <1>3, <1>7, <1>9, <1>10 DEF Arrivals

\* A step that publishes and projects nothing leaves the flow as it is.
LEMMA FlowStays ==
  ASSUME IInv, Flow, emitted' = emitted, claimed \subseteq claimed',
         repeats' = 0 => repeats = 0, losses' = 0 => losses = 0,
         \A t \in Transfers : \/ execution'[t] = execution[t]
                              \/ execution[t] = Absent /\ execution'[t] = NewExecution,
         FirstTime', "projector" \in Consumers => \E d \in {0, 1} : LetsGo(d)
  PROVE  Flow'
<1>1. Shown /\ Unique /\ emitted \subseteq Event
  BY DEF Flow, IInv, Lineage, SagaTypes
<1>2. NewExecution.status = "PENDING" /\ "PENDING" \notin TerminalStatuses
  BY DEF NewExecution, TerminalStatuses
<1>3. Shown'
  BY <1>1, <1>2 DEF Shown
<1>4. ASSUME "projector" \in Consumers
      PROVE  Delivered' /\ Distinct' /\ InSequence'
  <2>1. PICK d \in {0, 1} : LetsGo(d)
    BY <1>4
  <2>2. /\ Delivered' /\ Distinct'
        /\ \A j \in 1..Len(Arrivals') :
             /\ j + d \in 1..Len(Arrivals) /\ Arrivals'[j] \in emitted
             /\ (repeats' = 0 \/ losses' = 0) /\ Fresh(j)' => Fresh(j + d)
    BY <1>4, <2>1, ArrivalsMove
  <2>3. \A j \in 1..Len(Arrivals') : Arrivals'[j] = Arrivals[j + d]
    BY <2>1 DEF LetsGo
  <2>4. InSequence'
    <3>0. PICK new : new = Arrivals'
      OBVIOUS
    <3>1. SUFFICES ASSUME repeats' = 0 \/ losses' = 0, NEW j \in 1..Len(new),
                          Fresh(j)', new[j].type \in DOMAIN StatusOn
                   PROVE  /\ \/ Finished(new[j].transfer)'
                             \/ Lifecycle!Progress(execution'[new[j].transfer].status)
                                  <= Reach(new[j].type)
                          /\ \A i \in 1..Len(new) :
                               i < j /\ Fresh(i)' /\ new[i].transfer = new[j].transfer =>
                                 Reach(new[i].type) <= Reach(new[j].type)
      BY <3>0 DEF InSequence
    <3>2. PICK e \in emitted : e = new[j] /\ e = Arrivals[j + d]
      BY <2>2, <2>3, <3>0
    <3>3. PICK t \in Transfers : t = e.transfer
      BY <1>1 DEF Event
    <3>4. execution[t] # Absent
      BY <1>1, <3>3 DEF Unique
    <3>5. execution'[t] = execution[t] /\ (Finished(t)' <=> Finished(t))
      BY <3>4 DEF Finished
    <3>6. /\ Finished(t) \/ Lifecycle!Progress(execution[t].status) <= Reach(e.type)
          /\ \A i \in 1..Len(Arrivals) :
               i < j + d /\ Fresh(i) /\ Arrivals[i].transfer = t =>
                 Reach(Arrivals[i].type) <= Reach(e.type)
      <4>1. InSequence /\ j + d \in 1..Len(Arrivals) /\ Fresh(j + d)
        BY <1>4, <2>2, <3>0, <3>1 DEF Flow
      <4>2. QED
        BY <3>1, <3>2, <3>3, <4>1 DEF InSequence
    <3>7. ASSUME NEW i \in 1..Len(new), i < j, Fresh(i)', new[i].transfer = t
          PROVE  Reach(new[i].type) <= Reach(e.type)
      <4>1. /\ i + d \in 1..Len(Arrivals) /\ Fresh(i + d) /\ i + d < j + d
            /\ new[i] = Arrivals[i + d]
        BY <2>2, <2>3, <3>0, <3>1, <3>7
      <4>2. QED
        BY <3>6, <3>7, <4>1
    <3>8. \/ Finished(t)'
          \/ Lifecycle!Progress(execution'[t].status) <= Reach(e.type)
      BY <3>5, <3>6
    <3>9. QED
      BY <3>2, <3>3, <3>7, <3>8
  <2>5. QED
    BY <2>2, <2>4
<1>5. QED
  BY <1>3, <1>4 DEF Flow

\* A participant that moves on publishes nothing a second time unless something
\* is repeated.
LEMMA PaceKept ==
  ASSUME IInv, Flow, NEW p \in Consumers, hand' = [hand EXCEPT ![p] = hand'[p]], start' = start,
         repeats' = 0 => repeats = 0, p \in Workers => Paced(p)'
  PROVE  FirstTime'
<1>1. \A q \in Consumers : q # p => hand'[q] = hand[q]
  BY Untouched
<1>2. FirstTime /\ Workers \subseteq Consumers
  BY ChoreographyAssumption DEF Flow
<1>3. ASSUME NEW q \in Workers
      PROVE  Paced(q)'
  BY <1>1, <1>2 DEF FirstTime, Paced, At
<1>4. QED
  BY <1>2, <1>3 DEF FirstTime

\* What other participants do leaves the projector where it is.
LEMMA ProjectorAside ==
  ASSUME IInv, "projector" \in Consumers, queue'["projector"] = queue["projector"],
         \/ hand'["projector"] = hand["projector"]
         \/ hand'["projector"].pc # "project"
  PROVE  \E d \in {0, 1} : LetsGo(d)
<1>1. queue["projector"] \in Seq(emitted)
  BY Untouched
<1>2. LetsGo(0)
  BY <1>1 DEF LetsGo, Arrivals, At
<1>3. QED
  BY <1>2

\* So it stays when one participant moves on.
LEMMA HandFlows ==
  ASSUME IInv, Flow, NEW p \in Consumers, hand' = [hand EXCEPT ![p] = hand'[p]],
         UNCHANGED <<emitted, execution, start>>, claimed \subseteq claimed',
         repeats' = 0 => repeats = 0, losses' = 0 => losses = 0,
         p \in Workers => Paced(p)',
         p # "projector" /\ "projector" \in Consumers =>
           queue'["projector"] = queue["projector"],
         p = "projector" => \E d \in {0, 1} : LetsGo(d)
  PROVE  Flow'
<1>1. FirstTime'
  BY PaceKept
<1>2. \A q \in Consumers : q # p => hand'[q] = hand[q]
  BY Untouched
<1>3. "projector" \in Consumers => \E d \in {0, 1} : LetsGo(d)
  BY <1>2, ProjectorAside
<1>4. QED
  BY <1>1, <1>3, FlowStays

\* A message is taken, or skipped.
LEMMA TakingFlows ==
  ASSUME IInv, Flow, NEW p \in Consumers, Claim(p) \/ SkipDuplicate(p)
  PROVE  Flow'
<1>1. /\ hand[p].pc = "idle" /\ queue[p] # <<>> /\ claimed \subseteq claimed'
      /\ UNCHANGED <<execution, start, queue, emitted, repeats, losses>>
  BY DEF Claim, SkipDuplicate, Waiting, At, saga, bus, bounds
<1>2. hand \in [Consumers -> Hand] /\ hand[p] = Idle
  BY <1>1, AtWork DEF Holding, At
<1>3. CASE Claim(p)
  <2>1. <<p, Current(p)>> \notin claimed /\ hand' = [hand EXCEPT ![p] = hand'[p]]
    BY <1>2, <1>3 DEF Claim
  <2>2. p \in Workers => Paced(p)'
    <3>1. p \in Workers => hand'[p].link = "sound" /\ hand'[p].outcome = "NONE"
      BY <1>3, TakenAfresh
    <3>2. QED
      BY <3>1 DEF Paced
  <2>3. p = "projector" => LetsGo(0)
    BY <1>1, <2>1, Untouched DEF LetsGo, Arrivals
  <2>4. QED
    BY <1>1, <2>1, <2>2, <2>3, HandFlows
<1>4. CASE SkipDuplicate(p)
  <2>1. hand' = [hand EXCEPT ![p] = hand'[p]] /\ hand'[p] = [Idle EXCEPT !.pc = "ack"]
    BY <1>2, <1>4 DEF SkipDuplicate
  <2>2. hand'[p].pc = "ack" /\ hand'[p].link = "sound"
    BY <2>1 DEF Idle
  <2>3. Paced(p)'
    BY <2>2 DEF Paced, At
  <2>4. p = "projector" => \E d \in {0, 1} : LetsGo(d)
    BY <1>1, <2>2, ProjectorAside
  <2>5. QED
    BY <1>1, <2>1, <2>3, <2>4, HandFlows
<1>5. QED
  BY <1>3, <1>4

\* A service is called, or given up on.
LEMMA CallFlows ==
  ASSUME IInv, Flow, NEW p \in Consumers, Answered(p) \/ Retry(p) \/ GiveUp(p)
  PROVE  Flow'
<1>1. /\ hand[p].pc = "call"
      /\ UNCHANGED <<execution, start, queue, emitted, claimed, repeats, losses>>
  BY DEF Answered, Retry, GiveUp, Calling, At, saga, bus, bounds
<1>2. hand \in [Consumers -> Hand] /\ hand[p] \in Hand
  BY AtWork
<1>3. /\ hand' = [hand EXCEPT ![p] = hand'[p]]
      /\ hand'[p].pc \in {"call", "record"} /\ hand'[p].link = hand[p].link
  BY <1>1, <1>2 DEF Answered, Retry, GiveUp, Hand
<1>4. hand[p].link # "retrying" /\ p \in Workers
  BY <1>1, AtCall
<1>5. Paced(p)'
  BY <1>3, <1>4 DEF Paced, At
<1>6. p # "projector"
  BY <1>4 DEF Workers
<1>7. QED
  BY <1>1, <1>3, <1>5, <1>6, HandFlows

\* ClearingRequested follows from no decision.
LEMMA RecordFlows ==
  ASSUME IInv, Flow, NEW p \in Consumers, Record(p)
  PROVE  Flow'
<1>1. PICK t \in Transfers, type \in WorkTypes : \E outcome, todo, status :
        RecordedAs(p, t, type, outcome, todo, status)
  BY RecordedOnce
<1>2. PICK outcome, todo, status : RecordedAs(p, t, type, outcome, todo, status)
  BY <1>1
<1>3. /\ hand[p].pc = "record"
      /\ hand' = [hand EXCEPT ![p].pc = IF todo = <<>> THEN "ack" ELSE "emit",
                              ![p].todo = todo, ![p].attempt = 1]
      /\ UNCHANGED <<execution, start, queue, emitted, claimed, repeats, losses>>
      /\ Script(todo, IF outcome = "OK" THEN Confirms(type) ELSE Refuses(type))
  BY <1>2 DEF RecordedAs
<1>4. hand \in [Consumers -> Hand] /\ hand[p] \in Hand
  BY AtWork
<1>5. /\ hand' = [hand EXCEPT ![p] = hand'[p]]
      /\ hand'[p].todo = todo /\ hand'[p].link = hand[p].link
  BY <1>3, <1>4 DEF Hand
<1>6. hand[p].link # "retrying" /\ p \in Workers
  BY <1>3, AtCall
<1>7. \A i \in 1..Len(todo) : todo[i] # "ClearingRequested"
  <2>1. "ClearingRequested" \notin Confirms(type) \cup Refuses(type)
    BY DEF Confirms, Refuses
  <2>2. QED
    BY <1>3, <2>1 DEF Script
<1>8. Paced(p)'
  BY <1>5, <1>6, <1>7 DEF Paced
<1>9. p # "projector"
  BY <1>6 DEF Workers
<1>10. QED
  BY <1>3, <1>5, <1>8, <1>9, HandFlows

\* The projector tells, the audit stores.
LEMMA ObserverFlows ==
  ASSUME IInv, Flow, NEW p \in Consumers, Tell(p) \/ Store(p)
  PROVE  Flow'
<1>1. /\ hand[p].pc \in {"tell", "store"} /\ hand' = [hand EXCEPT ![p].pc = "ack"]
      /\ UNCHANGED <<execution, start, queue, emitted, claimed, repeats, losses>>
  BY DEF Tell, Store, At, saga, bus, bounds
<1>2. /\ hand' = [hand EXCEPT ![p] = hand'[p]]
      /\ hand'[p].pc = "ack" /\ p \notin Workers
  BY <1>1, ObserverMoves, AtObserver
<1>3. p = "projector" => \E d \in {0, 1} : LetsGo(d)
  BY <1>1, <1>2, ProjectorAside
<1>4. QED
  BY <1>1, <1>2, <1>3, HandFlows

\* A message leaves the hand.
LEMMA SettlingFlows ==
  ASSUME IInv, Flow, NEW p \in Consumers, Ack(p) \/ AckLost(p) \/ Raise(p)
  PROVE  Flow'
<1>1. /\ UNCHANGED <<execution, start, claimed>>
      /\ queue[p] # <<>>
      /\ losses \in 0..MaxLosses /\ repeats \in 0..MaxRepeats
      /\ MaxLosses \in Nat /\ MaxRepeats \in Nat
  BY Untouched, AtWork, ChoreographyAssumption DEF Ack, AckLost, Raise, Waiting, At, saga, bus
<1>2. /\ repeats' = 0 => repeats = 0
      /\ losses' = 0 => losses = 0 /\ hand[p].pc = "ack"
  BY <1>1 DEF Ack, AckLost, Raise, At, bounds
<1>3. /\ hand' = [hand EXCEPT ![p] = hand'[p]] /\ hand'[p] = Idle
      /\ \A q \in Consumers \ {p} : queue'[q] = queue[q]
      /\ queue'[p] = queue[p] \/ queue'[p] = Tail(queue[p])
      /\ emitted' = emitted
  <2>1. CASE Settle(p)
    BY <1>1, <2>1, Settled
  <2>2. CASE AckLost(p)
    BY <2>2, Untouched DEF AckLost, bus
  <2>3. QED
    BY <2>1, <2>2 DEF Ack, Raise
<1>4. hand'[p].pc = "idle" /\ hand'[p].link = "sound"
  BY <1>3 DEF Idle
<1>5. Paced(p)'
  BY <1>4 DEF Paced, At
<1>6. ASSUME p = "projector"
      PROVE  \E d \in {0, 1} : LetsGo(d)
  <2>1. CASE queue'[p] = queue[p]
    BY <1>4, <1>6, <2>1, ProjectorAside
  <2>2. CASE queue'[p] = Tail(queue[p])
    <3>1. PICK old \in Seq(emitted) : old = queue[p] /\ old # <<>>
      BY <1>1, Untouched
    <3>2. /\ Tail(old) \in Seq(emitted) /\ Len(Tail(old)) + 1 = Len(old)
          /\ \A i \in 1..Len(Tail(old)) : Tail(old)[i] = old[i + 1]
      BY <3>1
    <3>3. <<p, Current(p)>> \in claimed \/ losses' # 0
      BY <1>2, AtWork DEF At
    <3>4. LetsGo(1)
      BY <1>4, <1>6, <2>2, <3>1, <3>2, <3>3 DEF LetsGo, Arrivals, At
    <3>5. QED
      BY <3>4
  <2>3. QED
    BY <1>3, <2>1, <2>2
<1>7. QED
  BY <1>1, <1>2, <1>3, <1>5, <1>6, HandFlows

\* The worker stops and all its hands are empty.
LEMMA CrashFlows ==
  ASSUME IInv, Flow, Crash
  PROVE  Flow'
<1>1. /\ hand' = [p \in Consumers |-> Idle] /\ losses' = losses + 1
      /\ UNCHANGED <<execution, start, queue, emitted, claimed, repeats>>
  BY DEF Crash, saga, bus
<1>2. Idle.pc = "idle" /\ Idle.link = "sound"
  BY DEF Idle
<1>3. losses' = 0 => losses = 0
  BY <1>1, Untouched
<1>4. FirstTime'
  BY <1>1, <1>2, ChoreographyAssumption DEF Flow, FirstTime, Paced, At
<1>5. "projector" \in Consumers => \E d \in {0, 1} : LetsGo(d)
  <2>1. "projector" \in Consumers => hand'["projector"].pc # "project"
    BY <1>1, <1>2
  <2>2. QED
    BY <1>1, <2>1, ProjectorAside
<1>6. QED
  BY <1>1, <1>3, <1>4, <1>5, FlowStays

\* A call registers its transfer, or publishes nothing; a late request is served;
\* nothing happens.
LEMMA AsideFlows ==
  ASSUME IInv, Flow,
         \/ \E c \in Starts : Register(c) \/ ReplayStart(c) \/ FailToLaunch(c)
         \/ \E m \in late : ExecuteLate(m)
         \/ UNCHANGED vars
  PROVE  Flow'
<1>1. UNCHANGED <<queue, emitted, claimed, hand, repeats>>
  BY DEF Register, ReplayStart, FailToLaunch, ExecuteLate, vars, bus, bounds
<1>2. losses' = losses \/ losses' = losses + 1
  BY DEF Register, ReplayStart, FailToLaunch, ExecuteLate, vars, bounds
<1>3. losses' = 0 => losses = 0
  BY <1>2, Untouched
<1>4. \A t \in Transfers : \/ execution'[t] = execution[t]
                           \/ execution[t] = Absent /\ execution'[t] = NewExecution
  BY Untouched, ChoreographyAssumption
     DEF Register, ReplayStart, FailToLaunch, ExecuteLate, vars, saga
<1>5. \A c \in Starts : start'[c] = "retry" => start[c] = "retry"
  <2>1. start \in [Starts -> {"new", "publish", "retry", "done", "failed"}]
    BY DEF IInv, SagaTypes
  <2>2. QED
    BY <2>1 DEF Register, ReplayStart, FailToLaunch, ExecuteLate, vars
<1>6. FirstTime'
  BY <1>1, <1>5 DEF Flow, FirstTime, Paced, At
<1>7. "projector" \in Consumers => \E d \in {0, 1} : LetsGo(d)
  BY <1>1, ProjectorAside
<1>8. QED
  BY <1>1, <1>3, <1>4, <1>6, <1>7, FlowStays

\* A step that publishes keeps the flow.
LEMMA FlowGrows ==
  ASSUME IInv, Flow, NEW e, Publishes(e), Warranted(e), FirstTime',
         "projector" \in Consumers => hand'["projector"] = hand["projector"],
         e \in emitted => repeats' # 0, repeats' = 0 => repeats = 0,
         e.type = "ClearingRequested" => Row(e.transfer, "ACTION", "CLEARING") = Absent
  PROVE  Flow'
<1>1. Shown /\ execution' = execution /\ emitted \subseteq emitted'
  BY DEF Flow, Publishes
<1>2. Shown'
  BY <1>1 DEF Shown
<1>3. QED
  BY <1>2, ArrivalsGrow DEF Flow

\* A participant publishes: once only unless something is repeated, and that the
\* clearing is under way before it asks for it.
LEMMA EmitFlows ==
  ASSUME IInv, Flow, NEW p \in Consumers, Emit(p) \/ EmitAgain(p) \/ EmitInVain(p)
  PROVE  Flow'
<1>1. /\ hand[p].pc = "emit" /\ start' = start
      /\ repeats' = repeats \/ repeats' = repeats + 1
      /\ repeats \in Nat
  BY Untouched, ChoreographyAssumption DEF Emit, EmitAgain, EmitInVain, At, bounds
<1>2. PICK e \in Event, t \in Transfers, type \in EventTypes :
        Emits(p, e, t, type) /\ Publishes(e)
  BY EmitPublishes
<1>3. /\ p \in Workers /\ Working(p) /\ Publishing(p)
      /\ hand \in [Consumers -> Hand] /\ hand[p] \in Hand
  BY <1>1, Emitting, AtWork
<1>4. PICK todo \in Seq(EventTypes) : todo = hand[p].todo
  BY <1>3 DEF Hand
<1>5. PICK outcome, link : outcome = hand[p].outcome /\ link = hand[p].link
  OBVIOUS
<1>6. /\ t = Current(p).transfer /\ type = Current(p).type
      /\ e.type = todo[1] /\ e.transfer = t /\ Leads(t, type, e.type) /\ Warranted(e)
  BY <1>2, <1>4 DEF Emits
<1>7. /\ repeats = 0 => link # "retrying"
      /\ outcome # "NONE" => \A i \in 1..Len(todo) : todo[i] # "ClearingRequested"
  BY <1>1, <1>3, <1>4, <1>5 DEF Flow, FirstTime, Paced, At
<1>8. /\ Len(todo) \in {1, 2}
      /\ Emitted(t, todo[1]) => link = "retrying"
  BY <1>3, <1>4, <1>5, <1>6 DEF Publishing
<1>9. e \in emitted => repeats' # 0
  <2>1. e \in emitted => Emitted(t, todo[1])
    BY <1>6 DEF Emitted
  <2>2. QED
    BY <1>1, <1>7, <1>8, <2>1
<1>10. ASSUME e.type = "ClearingRequested"
       PROVE  Row(e.transfer, "ACTION", "CLEARING") = Absent
  <2>1. outcome = "NONE"
    <3>1. 1 \in 1..Len(todo)
      BY <1>8
    <3>2. QED
      BY <1>6, <1>7, <1>10, <3>1
  <2>2. type = "RiskApproved"
    BY <1>6, <1>10, Parents DEF IInv, Lineage
  <2>3. Decision(t, type) = Absent
    BY <1>1, <1>3, <1>5, <1>6, <2>1, <2>2, WorkTable DEF Working
  <2>4. QED
    BY <1>6, <2>2, <2>3, DecisionTable
<1>11. hand' = [hand EXCEPT ![p] = hand'[p]] /\ Paced(p)'
  <2>1. CASE Continue(p)
    <3>1. PICK pc, away :
            /\ hand' = [hand EXCEPT ![p].todo = Tail(todo), ![p].link = away, ![p].pc = pc]
            /\ away = IF link = "retrying" THEN "replaced" ELSE link
      BY <1>3, <1>4, <1>5, <2>1 DEF Continue
    <3>2. /\ hand' = [hand EXCEPT ![p] = hand'[p]]
          /\ hand'[p].todo = Tail(todo) /\ hand'[p].link # "retrying"
          /\ hand'[p].outcome = outcome
      BY <1>3, <1>5, <3>1 DEF Hand
    <3>3. \A i \in 1..Len(Tail(todo)) : i + 1 \in 1..Len(todo) /\ Tail(todo)[i] = todo[i + 1]
      BY <1>8
    <3>4. QED
      BY <1>7, <3>2, <3>3 DEF Paced
  <2>2. CASE EmitAgain(p)
    <3>1. hand' = [hand EXCEPT ![p].link = "retrying"] /\ repeats' = repeats + 1
      BY <2>2 DEF EmitAgain
    <3>2. /\ hand' = [hand EXCEPT ![p] = hand'[p]]
          /\ hand'[p].todo = todo /\ hand'[p].outcome = outcome
      BY <1>3, <1>4, <1>5, <3>1 DEF Hand
    <3>3. QED
      BY <1>1, <1>7, <3>1, <3>2 DEF Paced
  <2>3. QED
    BY <2>1, <2>2 DEF Emit, EmitInVain
<1>12. repeats' = 0 => repeats = 0
  BY <1>1
<1>13. FirstTime'
  BY <1>1, <1>11, <1>12, PaceKept
<1>14. "projector" \in Consumers => hand'["projector"] = hand["projector"]
  BY <1>3, <1>11 DEF Workers
<1>15. QED
  BY <1>2, <1>6, <1>9, <1>10, <1>12, <1>13, <1>14, FlowGrows

\* A call publishes the first event of its transfer, once unless it is repeated.
LEMMA LaunchFlows ==
  ASSUME IInv, Flow, NEW c \in Starts, Launch(c) \/ LaunchAgain(c)
  PROVE  Flow'
<1>1. /\ \/ start' = [start EXCEPT ![c] = "done"] /\ repeats' = repeats
         \/ start' = [start EXCEPT ![c] = "retry"] /\ repeats' = repeats + 1
      /\ hand' = hand /\ repeats \in Nat
      /\ start \in [Starts -> {"new", "publish", "retry", "done", "failed"}]
  BY Untouched, ChoreographyAssumption DEF Launch, LaunchAgain, bounds, IInv, SagaTypes
<1>2. PICK e \in Event :
        /\ e.type = "TransferRequested"
        /\ Publishes(e) /\ Warranted(e)
        /\ Emitted(e.transfer, e.type) <=> start[c] = "retry"
  BY LaunchPublishes
<1>3. FirstTime
  BY DEF Flow
<1>4. e \in emitted => repeats' # 0
  <2>1. e \in emitted => Emitted(e.transfer, e.type)
    BY DEF Emitted
  <2>2. QED
    BY <1>1, <1>2, <1>3, <2>1 DEF FirstTime
<1>5. FirstTime'
  BY <1>1, <1>3 DEF FirstTime, Paced, At
<1>6. QED
  BY <1>1, <1>2, <1>4, <1>5, FlowGrows

\* An event projected on an unfinished row sets the status it stands for, starts
\* the rollback, or finishes the row.
LEMMA ProjectedStatus ==
  ASSUME NEW row \in Execution, NEW e \in Event, e.type \notin Silent, ~row.finished
  PROVE  LET next == Projected(row, e) IN
         /\ next \in Execution
         /\ e.type \in DOMAIN StatusOn => next.status = StatusOn[e.type] /\ ~next.finished
         /\ e.type \notin DOMAIN StatusOn =>
              \/ next.finished /\ next.status \in TerminalStatuses
              \/ ~next.finished /\ next.status = "COMPENSATING"
<1> DEFINE next == Projected(row, e)
<1>1. next \in Execution
  BY ProjectedRow
<1>2. /\ DOMAIN StatusOn = {"TransferRequested", "BalanceDebited", "RiskApproved",
                            "ClearingRequested", "ClearingCompleted"}
      /\ RollbackEvents = {"RiskRejected", "DebitCompensationRequested",
                           "RiskCompensationRequested", "ClearingCompensationRequested"}
  BY WorkTable DEF StatusOn, RollbackEvents
<1>3. e.type \in EventTypes
  BY DEF Event
<1>4. CASE e.type \in DOMAIN StatusOn
  <2>1. next = [row EXCEPT !.status = StatusOn[e.type]]
    BY <1>2, <1>4 DEF Projected
  <2>2. QED
    BY <1>1, <1>4, <2>1 DEF Execution
<1>5. CASE e.type = "TransferCompleted"
  <2>1. next = Closed(row, "COMPLETED", "NOT_REQUIRED", row.error)
    BY <1>2, <1>5 DEF Projected
  <2>2. QED
    BY <1>1, <1>2, <1>5, <2>1 DEF Closed, Execution, TerminalStatuses
<1>6. CASE e.type = "TransferFailed"
  <2>1. next = IF OutcomeFor(e.error) = "REJECTED_FUNDS"
               THEN Closed(row, "REJECTED_FUNDS", "NOT_REQUIRED", e.error)
               ELSE [RollingBack(row) EXCEPT !.error = e.error]
    BY <1>2, <1>6 DEF Projected
  <2>2. QED
    BY <1>1, <1>2, <1>6, <2>1 DEF Closed, RollingBack, Execution, TerminalStatuses
<1>7. CASE e.type \in RollbackEvents
  <2>1. next = RollingBack(row)
    BY <1>2, <1>7 DEF Projected
  <2>2. QED
    BY <1>1, <1>2, <1>7, <2>1 DEF RollingBack, Execution
<1>8. CASE e.type = "TransferCompensated"
  <2>1. next = Closed(row, OutcomeFor(row.error), "COMPENSATED", row.error)
    BY <1>2, <1>8 DEF Projected
  <2>2. OutcomeFor(row.error) \in TerminalStatuses
    BY Outcomes DEF TerminalStatuses
  <2>3. QED
    BY <1>1, <1>2, <1>8, <2>1, <2>2 DEF Closed, Execution
<1>9. QED
  BY <1>2, <1>3, <1>4, <1>5, <1>6, <1>7, <1>8 DEF EventTypes, Silent

\* What projecting an event does to its row: the row stays, or was unfinished and
\* moves; forwards only, unless something was both repeated and lost.
Steers(e, t, row, next) ==
  /\ t = e.transfer /\ row \in Execution /\ row = execution[t]
  /\ next \in Execution /\ next = execution'[t]
  /\ \A u \in Transfers : u # t => execution'[u] = execution[u]
  /\ \/ next = row
     \/ /\ ~row.finished /\ row.status \notin TerminalStatuses
        /\ \/ e.type \in DOMAIN StatusOn /\ next.status = StatusOn[e.type] /\ ~next.finished
           \/ e.type \notin DOMAIN StatusOn /\ next.finished /\ next.status \in TerminalStatuses
           \/ e.type \notin DOMAIN StatusOn /\ ~next.finished /\ next.status = "COMPENSATING"
  /\ (repeats = 0 \/ losses = 0) /\ next # row /\ e.type \in DOMAIN StatusOn =>
       Lifecycle!Progress(row.status) <= Reach(e.type)

\* Projecting does so.
LEMMA Steering ==
  ASSUME IInv, Flow, NEW p \in Consumers, NEW e \in Event, NEW t \in Transfers,
         e \in emitted, Projects(p, e, t)
  PROVE  /\ Fresh(1) /\ 1 \in 1..Len(Arrivals) /\ Arrivals[1] = e
         /\ \E row, next : Steers(e, t, row, next)
<1>1. /\ t = e.transfer /\ p = "projector" /\ hand[p].pc = "project"
      /\ queue[p] \in Seq(emitted) /\ Len(queue[p]) \in Nat /\ Len(queue[p]) > 0
      /\ queue[p][1] = e
      /\ \A u \in Transfers : u # t => execution'[u] = execution[u]
      /\ execution[t] \in Execution
      /\ execution[t].finished \/ e.type \in Silent => execution'[t] = execution[t]
      /\ ~(execution[t].finished \/ e.type \in Silent) =>
           execution'[t] = Projected(execution[t], e)
  BY DEF Projects
<1>2. Fresh(1) /\ 1 \in 1..Len(Arrivals) /\ Arrivals[1] = e
  BY <1>1 DEF Fresh, Arrivals, At
<1>3. PICK row \in Execution : row = execution[t]
  BY <1>1
<1>4. PICK next : next = execution'[t]
  OBVIOUS
<1>5. CASE row.finished \/ e.type \in Silent
  BY <1>1, <1>2, <1>3, <1>4, <1>5 DEF Steers
<1>6. CASE ~(row.finished \/ e.type \in Silent)
  <2>1. next = Projected(row, e)
    BY <1>1, <1>3, <1>4, <1>6
  <2>2. /\ next \in Execution
        /\ e.type \in DOMAIN StatusOn => next.status = StatusOn[e.type] /\ ~next.finished
        /\ e.type \notin DOMAIN StatusOn =>
              \/ next.finished /\ next.status \in TerminalStatuses
              \/ ~next.finished /\ next.status = "COMPENSATING"
    BY <1>6, <2>1, ProjectedStatus
  <2>3. row # Absent
    BY AbsentAssumption
  <2>4. row.status \notin TerminalStatuses
    BY <1>3, <1>6, <2>3 DEF Flow, Shown
  <2>5. ~Finished(t)
    BY <1>3, <1>6 DEF Finished
  <2>6. (repeats = 0 \/ losses = 0) /\ e.type \in DOMAIN StatusOn =>
          Lifecycle!Progress(row.status) <= Reach(e.type)
    BY <1>1, <1>2, <1>3, <2>5 DEF Flow, InSequence
  <2>7. QED
    BY <1>1, <1>2, <1>3, <1>4, <1>6, <2>2, <2>4, <2>6 DEF Steers
<1>7. QED
  BY <1>5, <1>6

\* So the flow goes on.
LEMMA ProjectFlows ==
  ASSUME IInv, Flow, NEW p \in Consumers, Project(p)
  PROVE  Flow'
<1>1. hand' = [hand EXCEPT ![p] = hand'[p]]
  BY Projecting
<1>2. PICK e \in Event, t \in Transfers : e \in emitted /\ Projects(p, e, t)
  BY Projecting
<1>3. /\ p = "projector" /\ hand'[p].pc \in {"ack", "tell"} /\ hand[p].pc = "project"
      /\ UNCHANGED <<start, queue, emitted, claimed, repeats, losses>>
  BY <1>2 DEF Projects
<1>4. Fresh(1) /\ 1 \in 1..Len(Arrivals) /\ Arrivals[1] = e
  BY <1>2, Steering
<1>5. PICK row, next : Steers(e, t, row, next)
  BY <1>2, Steering
<1>6. /\ row = execution[t] /\ next = execution'[t] /\ t = e.transfer
      /\ row \in Execution /\ next \in Execution
      /\ \A u \in Transfers : u # t => execution'[u] = execution[u]
      /\ \/ next = row
         \/ /\ ~row.finished /\ row.status \notin TerminalStatuses
            /\ \/ e.type \in DOMAIN StatusOn /\ next.status = StatusOn[e.type] /\ ~next.finished
               \/ e.type \notin DOMAIN StatusOn /\ next.finished /\ next.status \in TerminalStatuses
               \/ e.type \notin DOMAIN StatusOn /\ ~next.finished /\ next.status = "COMPENSATING"
  BY <1>5 DEF Steers
<1>7. FirstTime'
  BY <1>1, <1>3, PaceKept DEF Workers
<1>8. Shown'
  <2>1. Shown
    BY DEF Flow
  <2>2. ASSUME next # row, ~next.finished
        PROVE  /\ next.status \notin TerminalStatuses
               /\ Lifecycle!Progress(next.status) <= Reach(e.type)
    <3>1. \/ e.type \in DOMAIN StatusOn /\ next.status = StatusOn[e.type]
          \/ e.type \notin DOMAIN StatusOn /\ next.status = "COMPENSATING"
      BY <1>6, <2>2
    <3>2. Reach(e.type) \in Nat
      BY Reaches
    <3>3. "COMPENSATING" \notin TerminalStatuses
      BY DEF TerminalStatuses
    <3>4. QED
      BY <3>1, <3>2, <3>3, Reaches
  <2>3. QED
    BY <1>2, <1>3, <1>6, <2>1, <2>2 DEF Shown
<1>9. LetsGo(0)
  <2>1. queue[p] \in Seq(emitted)
    BY Untouched
  <2>2. QED
    BY <1>3, <2>1 DEF LetsGo, Arrivals, At
<1>10. /\ Delivered' /\ Distinct'
       /\ \A j \in 1..Len(Arrivals) : (repeats = 0 \/ losses = 0) /\ Fresh(j)' => Fresh(j)
  <2>1. /\ Delivered' /\ Distinct'
        /\ \A j \in 1..Len(Arrivals') :
             (repeats' = 0 \/ losses' = 0) /\ Fresh(j)' => Fresh(j + 0)
    BY <1>3, <1>9, ArrivalsMove
  <2>2. Arrivals' = Arrivals /\ \A j \in 1..Len(Arrivals) : j + 0 = j
    BY <1>3 DEF Arrivals
  <2>3. QED
    BY <1>3, <2>1, <2>2
<1>11. InSequence'
  <2>1. PICK old \in Seq(emitted) : old = Arrivals /\ old = Arrivals'
    BY <1>3, Untouched DEF Arrivals
  <2>2. SUFFICES ASSUME repeats = 0 \/ losses = 0, NEW j \in 1..Len(old),
                        Fresh(j)', old[j].type \in DOMAIN StatusOn
                 PROVE  /\ \/ Finished(old[j].transfer)'
                           \/ Lifecycle!Progress(execution'[old[j].transfer].status)
                                <= Reach(old[j].type)
                        /\ \A i \in 1..Len(old) :
                             i < j /\ Fresh(i)' /\ old[i].transfer = old[j].transfer =>
                               Reach(old[i].type) <= Reach(old[j].type)
    BY <1>3, <2>1 DEF InSequence
  <2>3. /\ \/ Finished(old[j].transfer)
           \/ Lifecycle!Progress(execution[old[j].transfer].status) <= Reach(old[j].type)
        /\ \A i \in 1..Len(old) :
             i < j /\ Fresh(i) /\ old[i].transfer = old[j].transfer =>
               Reach(old[i].type) <= Reach(old[j].type)
    BY <1>3, <1>10, <2>1, <2>2 DEF Flow, InSequence
  <2>4. \A i \in 1..Len(old) : Fresh(i)' => Fresh(i)
    BY <1>10, <2>1, <2>2
  <2>5. PICK u \in Transfers : u = old[j].transfer
    BY <2>1 DEF Event, IInv, SagaTypes
  <2>6. CASE u # t
    <3>1. execution'[u] = execution[u] /\ (Finished(u)' <=> Finished(u))
      BY <1>6, <2>6 DEF Finished
    <3>2. QED
      BY <2>3, <2>4, <2>5, <3>1
  <2>7. CASE u = t /\ next = row
    <3>1. execution'[u] = execution[u] /\ (Finished(u)' <=> Finished(u))
      BY <1>6, <2>7 DEF Finished
    <3>2. QED
      BY <2>3, <2>4, <2>5, <3>1
  <2>8. CASE u = t /\ next # row
    <3>1. j # 1
      <4>1. <<p, Current(p)>> \in claimed
        BY <1>3, AtWork DEF At
      <4>2. Current(p) = e
        BY <1>2 DEF Projects
      <4>3. ~Fresh(1)'
        BY <1>3, <1>4, <2>1, <4>1, <4>2 DEF Fresh, At
      <4>4. QED
        BY <2>2, <4>3
    <3>2. Reach(e.type) <= Reach(old[j].type)
      BY <1>4, <1>6, <2>1, <2>2, <2>3, <2>5, <2>8, <3>1
    <3>3. e.type \in DOMAIN StatusOn /\ next.status = StatusOn[e.type]
      <4>1. Reach(old[j].type) \in 0..3
        BY <2>2, Reaches
      <4>2. e.type \in DOMAIN StatusOn
        BY <3>2, <4>1, Reaches
      <4>3. QED
        BY <1>6, <2>8, <4>2
    <3>4. Lifecycle!Progress(execution'[u].status) <= Reach(old[j].type)
      BY <1>6, <2>8, <3>2, <3>3, Reaches
    <3>5. QED
      BY <2>3, <2>4, <2>5, <3>4
  <2>9. QED
    BY <2>6, <2>7, <2>8
<1>12. QED
  BY <1>7, <1>8, <1>10, <1>11 DEF Flow

\* It holds when nothing has been published, and every step keeps it.
LEMMA FlowInvariance == Spec => [](IInv /\ Flow)
<1>1. Init => Flow
  <2>1. ASSUME Init
        PROVE  Flow
    <3>1. /\ start = [c \in Starts |-> "new"]
          /\ queue = [p \in Consumers |-> <<>>]
          /\ hand = [p \in Consumers |-> Idle]
          /\ emitted = {} /\ execution = [t \in Transfers |-> Absent]
      BY <2>1 DEF Init, StoreInit
    <3>2. Shown
      BY <3>1 DEF Shown
    <3>3. FirstTime
      BY <3>1, ChoreographyAssumption DEF FirstTime, Paced, At, Idle
    <3>4. "projector" \in Consumers => Arrivals = <<>> /\ 1..Len(Arrivals) = {}
      BY <3>1 DEF Arrivals
    <3>5. QED
      BY <3>1, <3>2, <3>3, <3>4 DEF Flow, Delivered, Distinct, InSequence
  <2>2. QED
    BY <2>1
<1>2. IInv /\ Flow /\ [Next]_vars => Flow'
  <2>1. SUFFICES ASSUME IInv, Flow, [Next]_vars
                 PROVE  Flow'
    OBVIOUS
  <2>2. ASSUME NEW c \in Starts, StartStep(c) \/ FailToLaunch(c)
        PROVE  Flow'
    BY <2>1, <2>2, AsideFlows, LaunchFlows DEF StartStep
  <2>3. ASSUME NEW p \in Consumers, Step(p)
        PROVE  Flow'
    BY <2>1, <2>3, TakingFlows, CallFlows, RecordFlows, EmitFlows, ProjectFlows, ObserverFlows,
       SettlingFlows DEF Step
  <2>4. ASSUME NEW p \in Consumers, EmitInVain(p) \/ Raise(p)
        PROVE  Flow'
    BY <2>1, <2>4, EmitFlows, SettlingFlows
  <2>5. CASE Crash
    BY <2>1, <2>5, CrashFlows
  <2>6. ASSUME NEW m \in late, ExecuteLate(m)
        PROVE  Flow'
    BY <2>1, <2>6, AsideFlows
  <2>7. CASE UNCHANGED vars
    BY <2>1, <2>7, AsideFlows
  <2>8. QED
    BY <2>1, <2>2, <2>3, <2>4, <2>5, <2>6, <2>7 DEF Next, Rest
<1>3. QED
  BY <1>1, <1>2, Start, EveryStep, PTL DEF Spec

-----------------------------------------------------------------------------
(* The lifecycle: the choreography implements it.                          *)

\* What a step may do to the row of a transfer, or say of it.
Moved(t) ==
  \/ /\ execution[t] = Absent /\ execution' = [execution EXCEPT ![t] = NewExecution]
     /\ UNCHANGED announced
  \/ /\ execution[t] \in Execution
     /\ ~execution[t].finished /\ execution[t].status \notin TerminalStatuses
     /\ \E row \in Execution :
          /\ execution' = [execution EXCEPT ![t] = row]
          /\ row.finished => row.status \in TerminalStatuses
          /\ ~row.finished =>
               \/ row.status = execution[t].status
               \/ Lifecycle!Progress(row.status) > Lifecycle!Progress(execution[t].status)
     /\ UNCHANGED announced
  \/ /\ execution[t] \in Execution
     /\ execution[t].status \in TerminalStatuses => execution[t].finished
     /\ announced' = [announced EXCEPT ![t] = GatewayStatus(execution[t].status)]
     /\ UNCHANGED execution

\* What the lifecycle sees of a row that is written.
LEMMA StageOfRow ==
  ASSUME execution \in [Transfers -> Execution \cup {Absent}], NEW t \in Transfers,
         NEW row \in Execution, execution' = [execution EXCEPT ![t] = row],
         NEW stage, stage = [u \in Transfers |-> IF execution[u] = Absent THEN Absent
                                                 ELSE execution[u].status],
         NEW finished, finished = {u \in Transfers : Finished(u)}
  PROVE  /\ [u \in Transfers |-> IF execution'[u] = Absent THEN Absent
                                 ELSE execution'[u].status]
              = [stage EXCEPT ![t] = row.status]
         /\ {u \in Transfers : Finished(u)'} =
              IF row.finished THEN finished \cup {t} ELSE finished \ {t}
<1>1. execution'[t] = row /\ row # Absent
  BY AbsentAssumption
<1>2. \A u \in Transfers : u # t => execution'[u] = execution[u]
  OBVIOUS
<1>3. \A u \in Transfers : Finished(u)' <=> IF u = t THEN row.finished ELSE Finished(u)
  BY <1>1, <1>2 DEF Finished
<1>4. row.finished \in BOOLEAN
  BY DEF Execution
<1>5. QED
  BY <1>1, <1>2, <1>3, <1>4

\* Whatever moves a row is a move of the lifecycle.
LEMMA MovesOfTheLifecycle ==
  ASSUME execution \in [Transfers -> Execution \cup {Absent}], NEW t \in Transfers, Moved(t)
  PROVE  [Lifecycle!Next]_(Lifecycle!lifecycleVars)
<1> DEFINE stage == [u \in Transfers |-> IF execution[u] = Absent THEN Absent
                                         ELSE execution[u].status]
           finished == {u \in Transfers : Finished(u)}
<1>0. /\ Lifecycle!TerminalStatuses = TerminalStatuses
      /\ \A status : Lifecycle!GatewayStatus(status) = GatewayStatus(status)
  BY DEF Lifecycle!TerminalStatuses, TerminalStatuses, Lifecycle!GatewayStatus, GatewayStatus
<1>1. CASE /\ execution[t] = Absent /\ execution' = [execution EXCEPT ![t] = NewExecution]
           /\ UNCHANGED announced
  <2>1. PICK row \in Execution :
          row = NewExecution /\ row.status = "PENDING" /\ row.finished = FALSE
    BY FirstRow DEF NewExecution
  <2>2. t \notin finished /\ stage[t] = Absent
    BY <1>1 DEF Finished
  <2>3. stage' = [stage EXCEPT ![t] = "PENDING"] /\ finished' = finished
    <3>1. /\ stage' = [stage EXCEPT ![t] = row.status]
          /\ finished' = IF row.finished THEN finished \cup {t} ELSE finished \ {t}
      BY <1>1, <2>1, StageOfRow
    <3>2. QED
      BY <2>1, <2>2, <3>1
  <2>4. Lifecycle!Begin(t)
    BY <1>1, <2>2, <2>3 DEF Lifecycle!Begin
  <2>5. QED
    BY <2>4 DEF Lifecycle!Next, Lifecycle!Move
<1>2. CASE /\ execution[t] \in Execution
           /\ ~execution[t].finished /\ execution[t].status \notin TerminalStatuses
           /\ \E row \in Execution :
                /\ execution' = [execution EXCEPT ![t] = row]
                /\ row.finished => row.status \in TerminalStatuses
                /\ ~row.finished =>
                     \/ row.status = execution[t].status
                     \/ Lifecycle!Progress(row.status) > Lifecycle!Progress(execution[t].status)
           /\ UNCHANGED announced
  <2>1. PICK row \in Execution :
          /\ execution' = [execution EXCEPT ![t] = row]
          /\ row.finished => row.status \in TerminalStatuses
          /\ ~row.finished =>
               \/ row.status = execution[t].status
               \/ Lifecycle!Progress(row.status) > Lifecycle!Progress(execution[t].status)
    BY <1>2
  <2>2. /\ execution[t] # Absent /\ t \notin finished /\ stage[t] = execution[t].status
        /\ stage[t] \in SagaStatuses /\ row.status \in SagaStatuses /\ row.finished \in BOOLEAN
    BY <1>2, AbsentAssumption DEF Finished, Execution
  <2>3. /\ stage' = [stage EXCEPT ![t] = row.status]
        /\ finished' = IF row.finished THEN finished \cup {t} ELSE finished \ {t}
    BY <2>1, StageOfRow
  <2>4. stage[t] # Absent
    BY <2>2, AbsentAssumption
  <2>5. CASE row.finished
    <3>1. Lifecycle!Finish(t, row.status)
      BY <1>0, <1>2, <2>2, <2>3, <2>4, <2>5 DEF Lifecycle!Finish, Lifecycle!Running
    <3>2. row.status \in SagaStatuses \cap Lifecycle!TerminalStatuses
      BY <1>0, <2>1, <2>2, <2>5
    <3>3. QED
      BY <3>1, <3>2 DEF Lifecycle!Next, Lifecycle!Move
  <2>6. CASE ~row.finished /\ Lifecycle!Progress(row.status) > Lifecycle!Progress(stage[t])
    <3>1. Lifecycle!Advance(t, row.status)
      BY <1>2, <2>2, <2>3, <2>4, <2>6 DEF Lifecycle!Advance, Lifecycle!Running
    <3>2. QED
      BY <2>2, <3>1 DEF Lifecycle!Next, Lifecycle!Move
  <2>7. CASE ~row.finished /\ row.status = stage[t]
    BY <1>2, <2>2, <2>3, <2>7 DEF Lifecycle!lifecycleVars
  <2>8. QED
    BY <2>1, <2>2, <2>5, <2>6, <2>7
<1>3. CASE /\ execution[t] \in Execution
           /\ execution[t].status \in TerminalStatuses => execution[t].finished
           /\ announced' = [announced EXCEPT ![t] = GatewayStatus(execution[t].status)]
           /\ UNCHANGED execution
  <2>1. stage' = stage /\ finished' = finished
    BY <1>3 DEF Finished
  <2>2. /\ stage[t] = execution[t].status /\ stage[t] # Absent
        /\ execution[t].status \in TerminalStatuses => t \in finished
    BY <1>3, AbsentAssumption DEF Finished, Execution
  <2>3. Lifecycle!Announce(t)
    BY <1>0, <1>3, <2>1, <2>2 DEF Lifecycle!Announce
  <2>4. QED
    BY <2>3 DEF Lifecycle!Next, Lifecycle!Move
<1>4. QED
  BY <1>1, <1>2, <1>3 DEF Moved

\* No two statuses of an unfinished row are equally far.
LEMMA ProgressTells ==
  ASSUME NEW a \in SagaStatuses \ TerminalStatuses, NEW b \in SagaStatuses \ TerminalStatuses
  PROVE  /\ Lifecycle!Progress(a) \in 0..4
         /\ Lifecycle!Progress(a) = Lifecycle!Progress(b) => a = b
  BY DEF Lifecycle!Progress, SagaStatuses, TerminalStatuses

\* A row moves when it is registered, when an event is projected and when it is
\* announced, and at no other step.
LEMMA OnlySoItMoves ==
  ASSUME IInv, Flow, [Next]_vars, repeats = 0 \/ losses = 0
  PROVE  UNCHANGED <<execution, announced>> \/ \E t \in Transfers : Moved(t)
<1>1. ASSUME NEW c \in Starts, Register(c)
      PROVE  \E t \in Transfers : Moved(t)
  BY <1>1, ChoreographyAssumption DEF Register, Moved
<1>2. ASSUME NEW p \in Consumers, Tell(p)
      PROVE  \E t \in Transfers : Moved(t)
  <2>1. PICK t \in Transfers : t = Current(p).transfer /\ execution[t] # Absent
    BY <1>2, AtObserver DEF Tell, At
  <2>2. /\ announced' = [announced EXCEPT ![t] = GatewayStatus(execution[t].status)]
        /\ UNCHANGED execution
    BY <1>2, <2>1 DEF Tell, Announce
  <2>3. execution[t] \in Execution
    BY <2>1, Untouched
  <2>4. execution[t].status \in TerminalStatuses => execution[t].finished
    BY <2>1 DEF Flow, Shown
  <2>5. QED
    BY <2>2, <2>3, <2>4 DEF Moved
<1>3. ASSUME NEW p \in Consumers, Project(p)
      PROVE  UNCHANGED <<execution, announced>> \/ \E t \in Transfers : Moved(t)
  <2>1. PICK e \in Event, t \in Transfers : e \in emitted /\ Projects(p, e, t)
    BY <1>3, Projecting
  <2>2. PICK row, next : Steers(e, t, row, next)
    BY <2>1, Steering
  <2>3. /\ row \in Execution /\ row = execution[t]
        /\ next \in Execution /\ next = execution'[t]
        /\ \A u \in Transfers : u # t => execution'[u] = execution[u]
        /\ \/ next = row
           \/ /\ ~row.finished /\ row.status \notin TerminalStatuses
              /\ \/ e.type \in DOMAIN StatusOn /\ next.status = StatusOn[e.type] /\ ~next.finished
                 \/ e.type \notin DOMAIN StatusOn /\ next.finished /\ next.status \in TerminalStatuses
                 \/ e.type \notin DOMAIN StatusOn /\ ~next.finished /\ next.status = "COMPENSATING"
        /\ next # row /\ e.type \in DOMAIN StatusOn =>
             Lifecycle!Progress(row.status) <= Reach(e.type)
    BY <2>2 DEF Steers
  <2>4. /\ execution \in [Transfers -> Execution \cup {Absent}]
        /\ execution' \in [Transfers -> Execution \cup {Absent}]
        /\ UNCHANGED announced
    BY <1>3, <2>1, Untouched, Projecting DEF Projects
  <2>5. CASE next = row
    <3>1. \A u \in Transfers : execution'[u] = execution[u]
      BY <2>3, <2>5
    <3>2. execution' = execution
      BY <2>4, <3>1
    <3>3. QED
      BY <2>4, <3>2
  <2>6. CASE next # row
    <3>1. execution' = [execution EXCEPT ![t] = next]
      BY <2>3, <2>4
    <3>2. ASSUME ~next.finished
          PROVE  \/ next.status = row.status
                 \/ Lifecycle!Progress(next.status) > Lifecycle!Progress(row.status)
      <4>1. "COMPENSATING" \in SagaStatuses \ TerminalStatuses
        BY DEF SagaStatuses, TerminalStatuses
      <4>2. /\ row.status \in SagaStatuses \ TerminalStatuses
            /\ next.status \in SagaStatuses \ TerminalStatuses
        BY <2>3, <2>6, <3>2, <4>1, Reaches DEF Execution
      <4>3. Lifecycle!Progress(row.status) <= Lifecycle!Progress(next.status)
        BY <2>3, <2>6, <3>2, <4>2, Reaches, ProgressTells
      <4>4. QED
        BY <4>2, <4>3, ProgressTells
    <3>3. Moved(t)
      BY <2>3, <2>4, <2>6, <3>1, <3>2 DEF Moved
    <3>4. QED
      BY <3>3
  <2>7. QED
    BY <2>5, <2>6
<1>4. ASSUME NEW c \in Starts, ReplayStart(c) \/ Launch(c) \/ LaunchAgain(c) \/ FailToLaunch(c)
      PROVE  UNCHANGED <<execution, announced>>
  BY <1>4 DEF ReplayStart, Launch, LaunchAgain, FailToLaunch, saga
<1>5. ASSUME NEW p \in Consumers,
             \/ Claim(p) \/ SkipDuplicate(p) \/ Answered(p) \/ Retry(p) \/ GiveUp(p) \/ Record(p)
             \/ Emit(p) \/ EmitAgain(p) \/ EmitInVain(p) \/ Store(p)
             \/ Ack(p) \/ AckLost(p) \/ Raise(p)
      PROVE  UNCHANGED <<execution, announced>>
  BY <1>5 DEF Claim, SkipDuplicate, Answered, Retry, GiveUp, Record, Emit, EmitAgain,
              EmitInVain, Store, Ack, AckLost, Raise, saga
<1>6. Crash \/ (\E m \in late : ExecuteLate(m)) \/ UNCHANGED vars =>
        UNCHANGED <<execution, announced>>
  BY DEF Crash, ExecuteLate, vars, saga
<1>7. QED
  BY <1>1, <1>2, <1>3, <1>4, <1>5, <1>6 DEF Next, StartStep, Step, Rest

\* Seen through its rows the choreographed saga is the lifecycle the Gateway is
\* built on, unless something was both repeated and lost: nobody decides the
\* sequence, and yet every status is written after those before it.
THEOREM LifecycleFollowed == Spec => FollowsTheLifecycle
<1>1. Init => Lifecycle!Init
  BY DEF Init, StoreInit, Lifecycle!Init, Finished
<1>2. IInv /\ Flow /\ [Next]_vars =>
        [repeats = 0 \/ losses = 0 => [Lifecycle!Next]_(Lifecycle!lifecycleVars)]_vars
  <2>1. ASSUME IInv, Flow, [Next]_vars, repeats = 0 \/ losses = 0
        PROVE  [Lifecycle!Next]_(Lifecycle!lifecycleVars)
    <3>1. execution \in [Transfers -> Execution \cup {Absent}]
      BY <2>1, Untouched
    <3>2. UNCHANGED <<execution, announced>> => UNCHANGED Lifecycle!lifecycleVars
      BY DEF Lifecycle!lifecycleVars, Finished
    <3>3. QED
      BY <2>1, <3>1, <3>2, OnlySoItMoves, MovesOfTheLifecycle
  <2>2. QED
    BY <2>1
<1>3. QED
  BY <1>1, <1>2, FlowInvariance, PTL DEF Spec, FollowsTheLifecycle

-----------------------------------------------------------------------------
(* What is certain while every call a participant waits for is answered.   *)

\* A participant handles the event.
Busy(p, t, type) ==
  /\ hand[p].pc \in {"emit", "call", "record"}
  /\ Current(p).transfer = t /\ Current(p).type = type

\* A call that a worker left behind when it stopped: nobody waits for its answer
\* and nobody will ever decide on its event, which is not handled twice.
Orphan(m) ==
  \E type \in WorkTypes :
    /\ m.kind = KindOf(type) /\ m.step = StepOf(type)
    /\ Taken(m.transfer, type) /\ Decision(m.transfer, type) = Absent
    /\ \A p \in Workers : ~Busy(p, m.transfer, type)

\* A refusal is certain, in the trail and in the hand that is about to write it:
\* the step did not take effect.
Confirmed == \A t \in Transfers, s \in Steps : Row(t, "ACTION", s) = "FAILED" => s \notin Done[t]

Declined(p) ==
  hand[p].pc = "record" /\ KindOf(Current(p).type) = "ACTION" /\ hand[p].outcome # "OK" =>
    StepOf(Current(p).type) \notin Done[Current(p).transfer]

PromptInv ==
  /\ Confirmed
  /\ \A p \in Workers : Declined(p)
  /\ \A m \in late : Orphan(m)

\* A step newly takes effect only as an action whose event is undecided: that
\* makes no refusal untrue.
LEMMA StillConfirmed ==
  ASSUME IInv, Confirmed, trail' = trail, NEW t \in Transfers, NEW type \in WorkTypes,
         Decision(t, type) = Absent,
         \A u \in Transfers : \A v \in Done'[u] \ Done[u] :
           u = t /\ KindOf(type) = "ACTION" /\ v = StepOf(type)
  PROVE  Confirmed'
<1>1. SUFFICES ASSUME NEW u \in Transfers, NEW v \in Steps, Row(u, "ACTION", v) = "FAILED"
               PROVE  v \notin Done'[u]
  BY DEF Confirmed, Row
<1>2. v \notin Done[u]
  BY <1>1 DEF Confirmed
<1>3. "FAILED" # Absent
  BY AbsentAssumption DEF ActionStatuses
<1>4. ~(u = t /\ KindOf(type) = "ACTION" /\ v = StepOf(type))
  BY <1>1, <1>3 DEF Decision, Row
<1>5. QED
  BY <1>2, <1>4

\* A worker does not take up again what has been taken before, and answers as it did.
Undisturbed(q) ==
  hand'[q].pc \in {"emit", "call", "record"} =>
    /\ \/ hand[q].pc \in {"emit", "call", "record"} /\ Current(q)' = Current(q)
       \/ ~Taken(Current(q)'.transfer, Current(q)'.type)
    /\ hand'[q].pc = "record" =>
         hand[q].pc = "record" /\ hand'[q].outcome = hand[q].outcome /\ Current(q)' = Current(q)

\* So the orphans stay orphans.
LEMMA OrphansStay ==
  ASSUME IInv, PromptInv, Onwards, NEW m \in late,
         \A type \in WorkTypes : Decision(m.transfer, type)' = Decision(m.transfer, type)
           \/ \E p \in Workers : Busy(p, m.transfer, type),
         \A q \in Workers : \A type \in WorkTypes :
           Busy(q, m.transfer, type)' => Busy(q, m.transfer, type) \/ ~Taken(m.transfer, type)
  PROVE  Orphan(m)'
<1>1. PICK type \in WorkTypes :
        /\ m.kind = KindOf(type) /\ m.step = StepOf(type)
        /\ Taken(m.transfer, type) /\ Decision(m.transfer, type) = Absent
        /\ \A p \in Workers : ~Busy(p, m.transfer, type)
  BY DEF PromptInv, Orphan
<1>2. Taken(m.transfer, type)'
  BY <1>1, EmittedStays
<1>3. Decision(m.transfer, type)' = Absent
  BY <1>1
<1>4. \A q \in Workers : ~Busy(q, m.transfer, type)'
  BY <1>1
<1>5. QED
  BY <1>1, <1>2, <1>3, <1>4 DEF Orphan

\* A step that calls no service and decides nothing disturbs none of it.
LEMMA QuietPrompt ==
  ASSUME IInv, PromptInv, Onwards, UNCHANGED <<request, services, trail>>, late' \subseteq late,
         \A q \in Workers : Undisturbed(q)
  PROVE  PromptInv'
<1>1. Done' = Done
  BY ServicesQuiet DEF IInv
<1>2. Confirmed'
  BY <1>1 DEF PromptInv, Confirmed, Row
<1>3. \A q \in Workers : Declined(q)'
  BY <1>1 DEF PromptInv, Declined, Undisturbed
<1>4. ASSUME NEW m \in late
      PROVE  Orphan(m)'
  <2>1. \A type \in WorkTypes : Decision(m.transfer, type)' = Decision(m.transfer, type)
    BY DEF Decision
  <2>2. \A q \in Workers : \A type \in WorkTypes :
          Busy(q, m.transfer, type)' => Busy(q, m.transfer, type) \/ ~Taken(m.transfer, type)
    BY DEF Undisturbed, Busy
  <2>3. QED
    BY <2>1, <2>2, OrphansStay
<1>5. QED
  BY <1>2, <1>3, <1>4 DEF PromptInv

\* A worker that does nothing is not disturbed by what reaches its queue.
LEMMA IdlyUndisturbed ==
  ASSUME IInv, NEW q \in Workers, hand'[q] = hand[q],
         queue'[q] = queue[q] \/ \E e \in Event : queue'[q] = Append(queue[q], e)
  PROVE  Undisturbed(q)
<1>1. q \in Consumers
  BY ChoreographyAssumption
<1>2. CASE hand[q].pc \notin {"emit", "call", "record"}
  BY <1>2 DEF Undisturbed
<1>3. CASE hand[q].pc \in {"emit", "call", "record"}
  <2>1. queue[q] # <<>>
    BY <1>1, <1>3, AtWork DEF At
  <2>2. queue[q] \in Seq(Event)
    BY <1>1, Untouched DEF IInv, SagaTypes
  <2>3. Head(queue'[q]) = Head(queue[q])
    <3>1. ASSUME NEW e \in Event
          PROVE  Head(Append(queue[q], e)) = Head(queue[q])
      BY <2>1, <2>2
    <3>2. QED
      BY <3>1
  <2>4. QED
    BY <1>3, <2>3 DEF Undisturbed, Current
<1>4. QED
  BY <1>2, <1>3

\* Steps of one participant that call no service and decide nothing.
LEMMA HandPrompt ==
  ASSUME IInv, PromptInv, NEW p \in Consumers,
         \/ Claim(p) \/ SkipDuplicate(p) \/ Project(p) \/ Tell(p) \/ Store(p)
         \/ Ack(p) \/ AckLost(p) \/ Raise(p)
  PROVE  PromptInv'
<1>1. /\ UNCHANGED <<request, services, trail, late, emitted>> /\ claimed \subseteq claimed'
      /\ \A t \in Transfers : execution[t] # Absent => execution'[t] # Absent
  <2>1. Project(p) => \A t \in Transfers : execution[t] # Absent => execution'[t] # Absent
    BY Projecting
  <2>2. ~Project(p) => UNCHANGED execution
    BY DEF Claim, SkipDuplicate, Tell, Store, Ack, AckLost, Raise, saga
  <2>3. /\ UNCHANGED <<request, services, trail, late, emitted>>
        /\ claimed \subseteq claimed'
    BY DEF Claim, SkipDuplicate, Project, Tell, Store, Ack, AckLost, Raise, Settle, saga, bus, bounds
  <2>4. QED
    BY <2>1, <2>2, <2>3
<1>2. Onwards
  <2>1. Done' = Done /\ Undone' = Undone
    BY <1>1, ServicesQuiet DEF IInv
  <2>2. QED
    BY <1>1, <2>1 DEF Onwards, Row
<1>3. CASE Claim(p)
  <2>1. /\ hand[p].pc = "idle" /\ queue[p] # <<>> /\ <<p, Current(p)>> \notin claimed
        /\ hand' = [hand EXCEPT ![p].pc = Opening(p, Current(p).type),
                              ![p].todo = IF p \in Workers THEN Announces(Current(p).type)
                                          ELSE <<>>]
        /\ queue' = queue
    BY <1>3 DEF Claim, Waiting, At, bus
  <2>2. hand \in [Consumers -> Hand]
    BY Untouched
  <2>3. \A q \in Workers \ {p} : Undisturbed(q)
    BY <2>1, <2>2, IdlyUndisturbed, ChoreographyAssumption
  <2>4. ASSUME p \in Workers
        PROVE  Undisturbed(p)
    <3>1. ~Taken(Current(p).transfer, Current(p).type) /\ Current(p)' = Current(p)
      BY <2>1, <2>4, InHand DEF Current
    <3>2. hand'[p].pc # "record"
      BY <1>3, <2>4, TakenAfresh
    <3>3. QED
      BY <3>1, <3>2 DEF Undisturbed
  <2>5. QED
    BY <1>1, <1>2, <2>3, <2>4, QuietPrompt
<1>4. CASE \/ SkipDuplicate(p) \/ Project(p) \/ Tell(p) \/ Store(p)
           \/ Ack(p) \/ AckLost(p) \/ Raise(p)
  <2>1. /\ hand \in [Consumers -> Hand] /\ queue \in [Consumers -> Seq(emitted)]
        /\ hand[p] \in Hand
    BY Untouched
  <2>2. \A q \in Workers \ {p} : hand'[q] = hand[q] /\ queue'[q] = queue[q]
    BY <1>4, <2>1, ChoreographyAssumption
       DEF SkipDuplicate, Project, Tell, Store, Ack, AckLost, Raise, Settle, bus
  <2>3. p \in Workers => hand'[p].pc \notin {"emit", "call", "record"}
    <3>1. CASE Project(p) \/ Tell(p) \/ Store(p)
      BY <3>1, AtObserver DEF Project, Tell, Store, At
    <3>2. CASE SkipDuplicate(p)
      BY <2>1, <3>2 DEF SkipDuplicate, Hand
    <3>3. CASE Ack(p) \/ AckLost(p) \/ Raise(p)
      BY <2>1, <3>3 DEF Ack, AckLost, Raise, Settle, Idle
    <3>4. QED
      BY <1>4, <3>1, <3>2, <3>3
  <2>4. \A q \in Workers : Undisturbed(q)
    <3>1. \A q \in Workers \ {p} : Undisturbed(q)
      BY <2>2, IdlyUndisturbed
    <3>2. p \in Workers => Undisturbed(p)
      BY <2>3 DEF Undisturbed
    <3>3. QED
      BY <3>1, <3>2
  <2>5. QED
    BY <1>1, <1>2, <2>4, QuietPrompt
<1>5. QED
  BY <1>3, <1>4

\* Steps that publish.
LEMMA PublishingPrompt ==
  ASSUME IInv, PromptInv, NEW e, Publishes(e),
         \A q \in Workers : hand'[q] = hand[q] \/ Undisturbed(q)
  PROVE  PromptInv'
<1>1. /\ e \in Event /\ emitted \subseteq emitted' /\ claimed' = claimed
      /\ UNCHANGED <<request, services, execution, trail, late>>
      /\ \A q \in Consumers : queue'[q] = queue[q] \/ queue'[q] = Append(queue[q], e)
  BY DEF Publishes
<1>2. Onwards
  <2>1. Done' = Done /\ Undone' = Undone
    BY <1>1, ServicesQuiet DEF IInv
  <2>2. QED
    BY <1>1, <2>1 DEF Onwards, Row
<1>3. \A q \in Workers : Undisturbed(q)
  BY <1>1, IdlyUndisturbed, ChoreographyAssumption
<1>4. QED
  BY <1>1, <1>2, <1>3, QuietPrompt

\* A participant publishes an event of its message and goes on with it.
LEMMA EmitPrompt ==
  ASSUME IInv, PromptInv, NEW p \in Consumers, Emit(p) \/ EmitAgain(p) \/ EmitInVain(p)
  PROVE  PromptInv'
<1>1. PICK e \in Event, t \in Transfers, type \in EventTypes :
        Emits(p, e, t, type) /\ Publishes(e)
  BY EmitPublishes
<1>2. hand[p].pc = "emit" /\ hand[p] \in Hand /\ hand \in [Consumers -> Hand]
  BY AtWork DEF Emit, EmitAgain, EmitInVain, At
<1>3. p \in Workers /\ queue[p] # <<>>
  BY <1>2, Emitting
<1>4. Current(p)' = Current(p)
  BY <1>1, <1>3, QueuesGrow DEF Current
<1>5. /\ hand'[p].pc \in {"emit", "call", "ack"}
      /\ \A q \in Consumers \ {p} : hand'[q] = hand[q]
  <2>1. CASE Emit(p) \/ EmitInVain(p)
    <3>1. Continue(p)
      BY <2>1 DEF Emit, EmitInVain
    <3>2. hand'[p].pc \in {"emit", "call", "ack"}
      BY <1>1, <1>2, <3>1, ContinueKeeps
    <3>3. QED
      BY <1>2, <3>1, <3>2 DEF Continue
  <2>2. CASE EmitAgain(p)
    BY <1>2, <2>2 DEF EmitAgain, Hand
  <2>3. QED
    BY <2>1, <2>2
<1>6. Undisturbed(p)
  BY <1>2, <1>4, <1>5 DEF Undisturbed
<1>7. QED
  BY <1>1, <1>5, <1>6, PublishingPrompt, ChoreographyAssumption

\* A call of the start.
LEMMA StartPrompt ==
  ASSUME IInv, PromptInv, NEW c \in Starts, StartStep(c) \/ FailToLaunch(c)
  PROVE  PromptInv'
<1>1. UNCHANGED hand
  BY DEF StartStep, Register, ReplayStart, Launch, LaunchAgain, FailToLaunch
<1>2. CASE Launch(c) \/ LaunchAgain(c)
  <2>1. PICK e \in Event : Publishes(e)
    BY <1>2, LaunchPublishes
  <2>2. QED
    BY <1>1, <2>1, PublishingPrompt
<1>3. CASE Register(c) \/ ReplayStart(c) \/ FailToLaunch(c)
  <2>1. /\ UNCHANGED <<request, services, trail, late, emitted, claimed, queue>>
        /\ \A t \in Transfers : execution[t] # Absent => execution'[t] # Absent
    BY <1>3, FirstRow, Untouched DEF Register, ReplayStart, FailToLaunch, saga, bus
  <2>2. Onwards
    <3>1. Done' = Done /\ Undone' = Undone
      BY <2>1, ServicesQuiet DEF IInv
    <3>2. QED
      BY <2>1, <3>1 DEF Onwards, Row
  <2>3. QED
    BY <1>1, <2>1, <2>2, IdlyUndisturbed, QuietPrompt
<1>4. QED
  BY <1>2, <1>3 DEF StartStep

\* A refusal is recorded as certain as it was answered; nobody else decides.
LEMMA RecordPrompt ==
  ASSUME IInv, PromptInv, NEW p \in Consumers, Record(p)
  PROVE  PromptInv'
<1>1. PICK t \in Transfers, type \in WorkTypes : \E outcome, todo, status :
        RecordedAs(p, t, type, outcome, todo, status)
  BY RecordedOnce
<1>2. PICK outcome, todo, status : RecordedAs(p, t, type, outcome, todo, status)
  BY <1>1
<1>3. /\ t = Current(p).transfer /\ type = Current(p).type /\ outcome = hand[p].outcome
      /\ hand[p].pc = "record"
      /\ trail' = [trail EXCEPT ![<<t, KindOf(type), StepOf(type)>>] = status]
      /\ hand' = [hand EXCEPT ![p].pc = IF todo = <<>> THEN "ack" ELSE "emit",
                              ![p].todo = todo, ![p].attempt = 1]
      /\ UNCHANGED <<request, services, execution, queue, emitted, claimed, late>>
      /\ Decision(t, type) = Absent /\ Decision(t, type)' = status
      /\ type \in DOMAIN Executes =>
           status = IF outcome = "OK" THEN "EXECUTED" ELSE "FAILED"
      /\ \A u \in Transfers, other \in WorkTypes :
           u # t \/ other # type => Decision(u, other)' = Decision(u, other)
  BY <1>2 DEF RecordedAs
<1>4. p \in Workers /\ KindOf(type) \in StepKinds /\ StepOf(type) \in Steps
  BY <1>3, AtCall
<1>5. Done' = Done /\ Undone' = Undone
  BY <1>3, ServicesQuiet DEF IInv
<1>6. /\ hand'[p].pc \in {"ack", "emit"} /\ hand \in [Consumers -> Hand]
      /\ \A q \in Consumers \ {p} : hand'[q] = hand[q]
  BY <1>3, RecordedThenPublished, Untouched
<1>7. Confirmed'
  <2>1. SUFFICES ASSUME NEW u \in Transfers, NEW s \in Steps, Row(u, "ACTION", s)' = "FAILED"
                 PROVE  s \notin Done[u]
    BY <1>5 DEF Confirmed
  <2>2. CASE Row(u, "ACTION", s) = "FAILED"
    BY <2>2 DEF PromptInv, Confirmed
  <2>3. CASE Row(u, "ACTION", s) # "FAILED"
    <3>1. u = t /\ KindOf(type) = "ACTION" /\ StepOf(type) = s
      <4>1. trail \in [Transfers \X StepKinds \X Steps ->
                         ActionStatuses \cup RollbackStatuses \cup {Absent}]
        BY DEF IInv, SagaTypes, StoreTypeOK
      <4>2. <<u, "ACTION", s>> \in Transfers \X StepKinds \X Steps
        BY DEF StepKinds
      <4>3. <<u, "ACTION", s>> = <<t, KindOf(type), StepOf(type)>>
        BY <1>3, <2>1, <2>3, <4>1, <4>2 DEF Row
      <4>4. QED
        BY <4>3
    <3>2. status = "FAILED"
      BY <1>3, <2>1, <3>1 DEF Decision, Row
    <3>3. outcome # "OK"
      BY <1>3, <3>1, <3>2, WorkTable
    <3>4. Declined(p)
      BY <1>4 DEF PromptInv
    <3>5. QED
      BY <1>3, <3>1, <3>3, <3>4 DEF Declined
  <2>4. QED
    BY <2>2, <2>3
<1>8. \A q \in Workers : Declined(q)'
  BY <1>3, <1>5, <1>6, ChoreographyAssumption DEF PromptInv, Declined, Current
<1>9. Onwards
  <2>1. \A u \in Transfers, kind \in StepKinds, s \in Steps :
          Row(u, kind, s) # Absent => Row(u, kind, s)' = Row(u, kind, s)
    <3>1. trail \in [Transfers \X StepKinds \X Steps ->
                       ActionStatuses \cup RollbackStatuses \cup {Absent}]
      BY DEF IInv, SagaTypes, StoreTypeOK
    <3>2. QED
      BY <1>3, <3>1 DEF Decision, Row
  <2>2. QED
    BY <1>3, <1>5, <2>1 DEF Onwards
<1>10. ASSUME NEW m \in late
       PROVE  Orphan(m)'
  <2>1. \A q \in Workers : \A other \in WorkTypes :
          Busy(q, m.transfer, other)' => Busy(q, m.transfer, other)
    BY <1>3, <1>6, ChoreographyAssumption DEF Busy, Current
  <2>2. m.transfer \in Transfers
    BY DEF IInv, SagaTypes, Message
  <2>3. \A other \in WorkTypes : Decision(m.transfer, other)' = Decision(m.transfer, other)
          \/ \E q \in Workers : Busy(q, m.transfer, other)
    BY <1>3, <1>4, <2>2 DEF Busy
  <2>4. QED
    BY <1>9, <2>1, <2>3, OrphansStay
<1>11. QED
  BY <1>3, <1>7, <1>8, <1>10 DEF PromptInv

\* A participant gets its answer: a refusal says that nothing happened.
LEMMA AnsweredPrompt ==
  ASSUME IInv, PromptInv, NEW p \in Consumers, Answered(p)
  PROVE  PromptInv'
<1>1. hand[p].pc = "call"
  BY DEF Answered, Calling, At
<1>2. PICK t \in Transfers, type \in WorkTypes : t = Current(p).transfer /\ type = Current(p).type
  BY <1>1, AtCall
<1>3. PICK kind \in StepKinds, s \in Steps : kind = KindOf(type) /\ s = StepOf(type)
  BY WorkTable
<1>4. /\ p \in Workers /\ queue[p] # <<>> /\ Decision(t, type) = Absent
      /\ type \in Topology(p)
  BY <1>1, <1>2, AtCall, InHand
<1>5. /\ Serve(t, kind, s)
      /\ hand' = [hand EXCEPT ![p].pc = "record", ![p].outcome = Reply(t, kind, s)]
      /\ UNCHANGED <<request, execution, trail, queue, emitted, claimed, late>>
  BY <1>2, <1>3 DEF Answered, saga, bus
<1>6. Served(t, kind, s)
  BY <1>5, CallsAreServed DEF IInv
<1>7. Onwards
  BY <1>5, <1>6 DEF Onwards, Row, Served
<1>8. hand \in [Consumers -> Hand] /\ hand[p] \in Hand
  BY Untouched
<1>9. \A q \in Workers : /\ q # p => hand'[q] = hand[q]
                         /\ Current(q)' = Current(q)
  BY <1>5, <1>8, ChoreographyAssumption DEF Current
<1>10. hand'[p].pc = "record" /\ hand'[p].outcome = Reply(t, kind, s)
  BY <1>5, <1>8 DEF Hand
<1>11. Confirmed'
  BY <1>3, <1>4, <1>5, <1>6, StillConfirmed DEF PromptInv, Served
<1>12. Declined(p)'
  BY <1>2, <1>3, <1>6, <1>9, <1>4, <1>10 DEF Declined, Served
<1>13. ASSUME NEW q \in Workers, q # p
       PROVE  Declined(q)'
  <2>1. SUFFICES ASSUME hand[q].pc = "record", KindOf(Current(q).type) = "ACTION",
                        hand[q].outcome # "OK"
                 PROVE  StepOf(Current(q).type) \notin Done'[Current(q).transfer]
    BY <1>9, <1>13 DEF Declined
  <2>2. q \in Consumers
    BY ChoreographyAssumption
  <2>3. /\ Current(q).type \in WorkTypes /\ Current(q).transfer \in Transfers
        /\ Current(q).type \in Topology(q)
    BY <2>1, <2>2, AtCall, InHand
  <2>4. StepOf(Current(q).type) \notin Done[Current(q).transfer]
    BY <2>1 DEF PromptInv, Declined
  <2>5. Current(q).type # type
    BY <1>4, <1>13, <2>3, OneWorkerEach
  <2>6. ~(kind = "ACTION" /\ StepOf(Current(q).type) = s)
    BY <1>3, <2>1, <2>3, <2>5, RowsOfWork
  <2>7. QED
    BY <1>6, <2>3, <2>4, <2>6 DEF Served
<1>14. ASSUME NEW m \in late
       PROVE  Orphan(m)'
  <2>1. \A q \in Workers : \A other \in WorkTypes :
          Busy(q, m.transfer, other)' => Busy(q, m.transfer, other)
    BY <1>1, <1>9 DEF Busy
  <2>2. \A other \in WorkTypes : Decision(m.transfer, other)' = Decision(m.transfer, other)
    BY <1>5 DEF Decision
  <2>3. QED
    BY <1>7, <2>1, <2>2, OrphansStay
<1>15. QED
  BY <1>5, <1>11, <1>12, <1>13, <1>14 DEF PromptInv

\* A request nobody waits for is executed: no worker has declined its step, for none
\* holds its event.
LEMMA ExecuteLatePrompt ==
  ASSUME IInv, PromptInv, NEW m \in late, ExecuteLate(m)
  PROVE  PromptInv'
<1>1. /\ Serve(m.transfer, m.kind, m.step) /\ late' = late \ {m}
      /\ UNCHANGED <<request, execution, trail, queue, emitted, claimed, hand>>
  BY DEF ExecuteLate, saga, bus
<1>2. m.transfer \in Transfers /\ m.kind \in StepKinds /\ m.step \in Steps
  BY DEF IInv, SagaTypes, Message
<1>3. PICK type \in WorkTypes :
        /\ m.kind = KindOf(type) /\ m.step = StepOf(type)
        /\ Decision(m.transfer, type) = Absent
        /\ \A p \in Workers : ~Busy(p, m.transfer, type)
  BY DEF PromptInv, Orphan
<1>4. Served(m.transfer, m.kind, m.step)
  BY <1>1, <1>2, CallsAreServed DEF IInv
<1>5. Onwards
  BY <1>1, <1>4 DEF Onwards, Row, Served
<1>6. Confirmed'
  BY <1>1, <1>2, <1>3, <1>4, StillConfirmed DEF PromptInv, Served
<1>7. ASSUME NEW q \in Workers
      PROVE  Declined(q)'
  <2>1. SUFFICES ASSUME hand[q].pc = "record", KindOf(Current(q).type) = "ACTION",
                        hand[q].outcome # "OK"
                 PROVE  StepOf(Current(q).type) \notin Done'[Current(q).transfer]
    BY <1>1 DEF Declined, Current
  <2>2. q \in Consumers
    BY ChoreographyAssumption
  <2>3. Current(q).type \in WorkTypes /\ Current(q).transfer \in Transfers
    BY <2>1, <2>2, AtCall
  <2>4. StepOf(Current(q).type) \notin Done[Current(q).transfer]
    BY <2>1 DEF PromptInv, Declined
  <2>5. ~(Current(q).transfer = m.transfer /\ Current(q).type = type)
    BY <1>3, <2>1 DEF Busy
  <2>6. ~(Current(q).transfer = m.transfer /\ m.kind = "ACTION"
            /\ StepOf(Current(q).type) = m.step)
    BY <1>3, <2>1, <2>3, <2>5, RowsOfWork
  <2>7. QED
    BY <1>4, <2>3, <2>4, <2>6 DEF Served
<1>8. ASSUME NEW o \in late
      PROVE  Orphan(o)'
  <2>1. \A q \in Workers : \A other \in WorkTypes :
          Busy(q, o.transfer, other)' => Busy(q, o.transfer, other)
    BY <1>1 DEF Busy, Current
  <2>2. \A other \in WorkTypes : Decision(o.transfer, other)' = Decision(o.transfer, other)
    BY <1>1 DEF Decision
  <2>3. QED
    BY <1>5, <2>1, <2>2, OrphansStay
<1>9. QED
  BY <1>1, <1>6, <1>7, <1>8 DEF PromptInv

\* The workers stop: the calls they wait for are left behind, each with its event
\* taken and undecided.
LEMMA CrashPrompt ==
  ASSUME IInv, PromptInv, Crash
  PROVE  PromptInv'
<1>1. /\ hand' = [p \in Consumers |-> Idle]
      /\ late' = late \cup {InFlight(p) : p \in {x \in Consumers : Calling(x)}}
      /\ UNCHANGED <<request, services, execution, trail, queue, emitted, claimed>>
  BY DEF Crash, saga, bus
<1>2. Done' = Done /\ Undone' = Undone
  BY <1>1, ServicesQuiet DEF IInv
<1>3. \A q \in Workers : hand'[q].pc = "idle"
  BY <1>1, ChoreographyAssumption DEF Idle
<1>4. Confirmed' /\ \A q \in Workers : Declined(q)'
  BY <1>1, <1>2, <1>3 DEF PromptInv, Confirmed, Declined, Row
<1>5. \A q \in Workers : \A t, type : ~Busy(q, t, type)'
  BY <1>3 DEF Busy
<1>6. Onwards
  BY <1>1, <1>2 DEF Onwards, Row
<1>7. ASSUME NEW m \in late
      PROVE  Orphan(m)'
  <2>1. \A type \in WorkTypes : Decision(m.transfer, type)' = Decision(m.transfer, type)
    BY <1>1 DEF Decision
  <2>2. QED
    BY <1>5, <1>6, <2>1, OrphansStay
<1>8. ASSUME NEW m \in late' \ late
      PROVE  Orphan(m)'
  <2>1. PICK p \in Consumers : Calling(p) /\ m = InFlight(p)
    BY <1>1, <1>8
  <2>2. PICK t \in Transfers, type \in WorkTypes :
          t = Current(p).transfer /\ type = Current(p).type
    BY <2>1, AtCall DEF Calling, At
  <2>3. Taken(t, type) /\ Decision(t, type) = Absent
    BY <2>1, <2>2, AtCall DEF Calling, At
  <2>4. Taken(t, type)' /\ Decision(t, type)' = Absent
    BY <1>1, <2>3 DEF Taken, Decision
  <2>5. m.transfer = t /\ m.kind = KindOf(type) /\ m.step = StepOf(type)
    BY <2>1, <2>2 DEF InFlight
  <2>6. QED
    BY <1>5, <2>4, <2>5 DEF Orphan
<1>9. QED
  BY <1>4, <1>7, <1>8 DEF PromptInv

\* Only a call that goes unanswered changes how many did.
LEMMA TimeoutsCount ==
  ASSUME IInv, [Next]_vars
  PROVE  /\ timeouts' = timeouts \/ timeouts' = timeouts + 1
         /\ timeouts' = timeouts =>
              \A p \in Consumers : ~Retry(p) /\ ~GiveUp(p)
<1>1. timeouts \in Nat
  BY Untouched
<1>2. \A p \in Consumers : Retry(p) \/ GiveUp(p) => timeouts' = timeouts + 1
  BY DEF Retry, GiveUp
<1>3. \A p \in Consumers :
        Step(p) \/ EmitInVain(p) \/ Raise(p) => timeouts' = timeouts \/ timeouts' = timeouts + 1
  BY <1>2 DEF Step, Claim, SkipDuplicate, Answered, Record, Emit, EmitAgain, Project, Tell, Store,
              Ack, AckLost, EmitInVain, Raise, bounds
<1>4. \A c \in Starts : StartStep(c) \/ FailToLaunch(c) => timeouts' = timeouts
  BY DEF StartStep, Register, ReplayStart, Launch, LaunchAgain, FailToLaunch, bounds
<1>5. Crash \/ (\E m \in late : ExecuteLate(m)) \/ UNCHANGED vars => timeouts' = timeouts
  BY DEF Crash, ExecuteLate, vars, bounds
<1>6. QED
  BY <1>1, <1>2, <1>3, <1>4, <1>5 DEF Next, Rest

\* Every other step keeps what is certain.
LEMMA PromptKept ==
  ASSUME IInv, PromptInv, [Next]_vars, timeouts' = timeouts
  PROVE  PromptInv'
<1>1. ASSUME NEW p \in Consumers, Step(p)
      PROVE  PromptInv'
  <2>1. ~Retry(p) /\ ~GiveUp(p)
    BY TimeoutsCount
  <2>2. QED
    BY <1>1, <2>1, HandPrompt, AnsweredPrompt, RecordPrompt, EmitPrompt DEF Step
<1>2. ASSUME NEW p \in Consumers, EmitInVain(p) \/ Raise(p)
      PROVE  PromptInv'
  BY <1>2, EmitPrompt, HandPrompt
<1>3. CASE UNCHANGED vars
  <2>1. UNCHANGED <<request, services, execution, trail, queue, claimed, emitted, hand, late>>
    BY <1>3 DEF vars, services
  <2>2. Onwards
    BY <2>1, QuietOnwards
  <2>3. QED
    BY <2>1, <2>2, IdlyUndisturbed, QuietPrompt
<1>4. QED
  BY <1>1, <1>2, <1>3, StartPrompt, CrashPrompt, ExecuteLatePrompt DEF Next, Rest

-----------------------------------------------------------------------------
(* The money: the choreography keeps the promise.                          *)

\* A row is finished by the credit, by a debit that failed or by its compensation.
LEMMA WhatFinishes ==
  ASSUME IInv, NEW t \in Transfers, Finished(t)
  PROVE  \/ Row(t, "ACTION", "CREDIT") = "EXECUTED"
         \/ Row(t, "ACTION", "DEBIT") = "FAILED" /\ execution[t].status # "COMPLETED"
         \/ /\ Row(t, "COMPENSATION", "DEBIT") = "COMPENSATED"
            /\ execution[t].status # "COMPLETED"
<1>1. Meaning(t) /\ Projection /\ Named
  BY History DEF IInv, Lineage, SagaTypes, Verdicts
<1>2. execution[t] # Absent /\ execution[t].finished
  BY DEF Finished
<1>3. CASE Emitted(t, "TransferCompleted")
  BY <1>1, <1>3 DEF Meaning
<1>4. CASE execution[t].status = "REJECTED_FUNDS" /\ execution[t].error = "INSUFFICIENT_FUNDS"
  <2>1. \E e \in emitted : /\ e.transfer = t /\ e.type = "TransferFailed"
                           /\ e.error = "INSUFFICIENT_FUNDS"
    BY <1>1, <1>2, <1>4 DEF Projection
  <2>2. QED
    BY <1>1, <1>4, <2>1 DEF Named
<1>5. CASE Emitted(t, "TransferCompensated") /\ execution[t].status # "COMPLETED"
  BY <1>1, <1>5 DEF Meaning
<1>6. QED
  BY <1>1, <1>2, <1>3, <1>4, <1>5 DEF Projection

\* Nobody asks for a compensation before a step after the debit has failed.
LEMMA FailureFirst ==
  ASSUME IInv, NEW t \in Transfers, NEW s, Requested(t, s)
  PROVE  \E u \in {"RISK", "CLEARING", "CREDIT"} : Row(t, "ACTION", u) = "FAILED"
<1>1. Meaning(t) /\ Chain(t)
  BY History DEF IInv, Lineage, SagaTypes
<1>2. "FAILED" # Absent /\ "COMPENSATED" # Absent
  BY AbsentAssumption DEF ActionStatuses, RollbackStatuses
<1>3. /\ Taken(t, "RiskRejected") => RiskFailed(t)
      /\ Taken(t, "RiskCompensated") => Row(t, "COMPENSATION", "RISK") = "COMPENSATED"
  BY <1>1 DEF Meaning, Taken, Emitted
<1>4. PICK type \in DOMAIN Compensates : Emitted(t, type)
  BY DEF Requested
<1>5. QED
  BY <1>1, <1>2, <1>3, <1>4, WorkTable DEF Meaning, Chain, RiskFailed

\* An undecided call is one the saga may make: forward while nothing failed, back
\* once something did, and never of a transfer with a verdict.
LEMMA CallsAreRightful ==
  ASSUME IInv, Confirmed, NEW t \in Transfers, NEW type \in WorkTypes,
         Emitted(t, type), Decision(t, type) = Absent
  PROVE  /\ Rightful(t, KindOf(type), StepOf(type))
         /\ "CREDIT" \in Done[t] => "DEBIT" \in Done[t]
<1>1. /\ Meaning(t) /\ Chain(t)
      /\ Audited /\ Ordered /\ Asked
  BY History DEF IInv, Lineage, SagaTypes, Services
<1>2. "EXECUTED" # Absent /\ "FAILED" # Absent /\ "COMPENSATED" # Absent /\ "EXECUTED" # "FAILED"
  BY AbsentAssumption DEF ActionStatuses, RollbackStatuses
<1>3. Finished(t) =>
        \/ Row(t, "ACTION", "CREDIT") = "EXECUTED"
        \/ Row(t, "ACTION", "DEBIT") = "FAILED"
        \/ Row(t, "COMPENSATION", "DEBIT") = "COMPENSATED"
  BY WhatFinishes
<1>4. "CREDIT" \in Done[t] => Before("CREDIT") \subseteq Done[t]
  BY <1>1 DEF Ordered
<1>5. CASE KindOf(type) = "ACTION"
  <2>1. /\ type \in {"TransferRequested", "BalanceDebited", "RiskApproved", "ClearingCompleted"}
        /\ \A s \in Steps : Row(t, "ACTION", s) # "FAILED"
        /\ Row(t, "ACTION", "CREDIT") # "EXECUTED"
    <3>1. type \in {"TransferRequested", "BalanceDebited", "RiskApproved", "ClearingCompleted"}
      BY <1>5, WorkTable
    <3>2. CASE type = "TransferRequested"
      BY <1>1, <1>2, <3>2, DecisionTable DEF Meaning, Chain, Steps
    <3>3. CASE type = "BalanceDebited"
      BY <1>1, <1>2, <3>3, DecisionTable DEF Meaning, Chain, Steps
    <3>4. CASE type = "RiskApproved"
      BY <1>1, <1>2, <3>4, DecisionTable DEF Meaning, Chain, Steps
    <3>5. CASE type = "ClearingCompleted"
      BY <1>1, <1>2, <3>5, DecisionTable DEF Meaning, Chain, Steps
    <3>6. QED
      BY <3>1, <3>2, <3>3, <3>4, <3>5
  <2>2. \A s : ~Requested(t, s)
    BY <2>1, FailureFirst DEF Steps
  <2>3. Undone[t] = {}
    <3>1. Undone[t] \subseteq Steps
      BY DEF Undone
    <3>2. QED
      BY <1>1, <2>2, <3>1 DEF Asked
  <2>4. Before(StepOf(type)) \subseteq Done[t]
    BY <1>5, CallsInOrder
  <2>5. Row(t, "COMPENSATION", "DEBIT") # "COMPENSATED"
    <3>1. Row(t, "COMPENSATION", "DEBIT") = "COMPENSATED" => "DEBIT" \in Undone[t]
      BY <1>1 DEF Audited, Row, Steps
    <3>2. QED
      BY <2>3, <3>1
  <2>6. ~Finished(t)
    BY <1>3, <2>1, <2>5 DEF Steps
  <2>7. QED
    BY <1>4, <1>5, <2>3, <2>4, <2>6, DebitBeforeCredit DEF Rightful
<1>6. CASE KindOf(type) = "COMPENSATION"
  <2>1. /\ type \in {"DebitCompensationRequested", "RiskCompensationRequested",
                     "ClearingCompensationRequested"}
        /\ Requested(t, StepOf(type)) /\ StepOf(type) # "CREDIT" /\ StepOf(type) \in Steps
    BY <1>6, WorkTable, CallsInOrder, RowsOfWork
  <2>2. PICK u \in {"RISK", "CLEARING", "CREDIT"} : Row(t, "ACTION", u) = "FAILED"
    BY <2>1, FailureFirst
  <2>3. u \notin Done[t]
    BY <2>2 DEF Confirmed, Steps
  <2>4. "CREDIT" \notin Done[t]
    BY <1>4, <2>3, StepOrder
  <2>5. Row(t, "ACTION", "DEBIT") = "EXECUTED"
    BY <1>1, <1>2, <2>2 DEF Chain
  <2>6. Row(t, "ACTION", "CREDIT") # "EXECUTED"
    BY <1>1, <2>4 DEF Audited, Row, Steps
  <2>7. Row(t, "COMPENSATION", "DEBIT") # "COMPENSATED"
    <3>1. CASE type = "DebitCompensationRequested"
      BY <1>2, <3>1, DecisionTable
    <3>2. CASE type = "RiskCompensationRequested"
      BY <1>1, <1>2, <3>2, DecisionTable DEF Meaning, Chain, RiskFailed
    <3>3. CASE type = "ClearingCompensationRequested"
      BY <1>1, <1>2, <3>3, DecisionTable DEF Meaning, Chain, RiskFailed
    <3>4. QED
      BY <2>1, <3>1, <3>2, <3>3
  <2>8. ~Finished(t)
    BY <1>2, <1>3, <2>5, <2>6, <2>7
  <2>9. QED
    BY <1>6, <2>1, <2>4, <2>8 DEF Rightful
<1>7. QED
  BY <1>5, <1>6, WorkTable DEF StepKinds

\* Of a transfer with a verdict: if its debit stands so does its credit, and
\* completed is said of a credited transfer.
Whole ==
  \A t \in Transfers : Finished(t) =>
    /\ Standing(t, "DEBIT") => Standing(t, "CREDIT")
    /\ execution[t].status = "COMPLETED" => Standing(t, "CREDIT")

\* A verdict is given when the transfer is whole.
LEMMA VerdictsAreWhole == IInv /\ PromptInv => Whole
<1>1. SUFFICES ASSUME IInv, PromptInv, NEW t \in Transfers, Finished(t)
               PROVE  /\ Standing(t, "DEBIT") => Standing(t, "CREDIT")
                      /\ execution[t].status = "COMPLETED" => Standing(t, "CREDIT")
  BY DEF Whole
<1>2. /\ Audited /\ Confirmed /\ "DEBIT" \in Steps /\ "CREDIT" \in Steps
      /\ execution[t] # Absent
  BY <1>1 DEF IInv, Services, PromptInv, Steps, Finished
<1>3. /\ Standing(t, "DEBIT") <=> "DEBIT" \in Done[t] \ Undone[t]
      /\ Standing(t, "CREDIT") <=> "CREDIT" \in Done[t] \ Undone[t]
  BY <1>2, StandingSteps
<1>4. CASE Row(t, "ACTION", "CREDIT") = "EXECUTED"
  <2>1. "CREDIT" \in Done[t]
    BY <1>2, <1>4 DEF Audited, Row
  <2>2. ~Requested(t, "CREDIT")
    BY <1>1, <1>2, <1>4, AllOrRolledBack
  <2>3. "CREDIT" \notin Undone[t]
    BY <1>1, <2>2 DEF IInv, Services, Asked
  <2>4. QED
    BY <1>3, <2>1, <2>3
<1>5. CASE Row(t, "ACTION", "DEBIT") = "FAILED" /\ execution[t].status # "COMPLETED"
  BY <1>2, <1>3, <1>5 DEF Confirmed
<1>6. CASE /\ Row(t, "COMPENSATION", "DEBIT") = "COMPENSATED"
           /\ execution[t].status # "COMPLETED"
  BY <1>2, <1>3, <1>6 DEF Audited, Row
<1>7. QED
  BY <1>1, <1>4, <1>5, <1>6, WhatFinishes

\* Each step of the saga touches neither the services nor a row, or is a step of the
\* promise, or is not noticed by it.
LEMMA StepKeepsPromise ==
  ASSUME IInv, IInv', PromptInv, timeouts' = timeouts => PromptInv', [Next]_vars
  PROVE  \/ UNCHANGED <<request, services, execution>>
         \/ [Promise!Next]_(Promise!promiseVars)
<1>1. ServiceTypes /\ ServicesAgree /\ Confirmed
  BY DEF IInv, PromptInv
<1>2. ASSUME NEW p \in Consumers, Answered(p)
      PROVE  [Promise!Next]_(Promise!promiseVars)
  <2>1. PICK t \in Transfers, type \in WorkTypes :
          t = Current(p).transfer /\ type = Current(p).type
    BY <1>2, AtCall DEF Answered, Calling, At
  <2>2. Decision(t, type) = Absent /\ Emitted(t, type)
    BY <1>2, <2>1, AtCall DEF Answered, Calling, At, Taken, Emitted
  <2>3. PICK kind \in StepKinds, s \in Steps : kind = KindOf(type) /\ s = StepOf(type)
    BY WorkTable
  <2>4. /\ Serve(t, kind, s) /\ UNCHANGED <<request, execution>>
        /\ Rightful(t, kind, s) /\ ("CREDIT" \in Done[t] => "DEBIT" \in Done[t])
    BY <1>1, <1>2, <2>1, <2>2, <2>3, CallsAreRightful DEF Answered, saga
  <2>5. QED
    BY <1>1, <2>4, CallKeepsPromise
<1>3. ASSUME NEW m \in late, ExecuteLate(m)
      PROVE  [Promise!Next]_(Promise!promiseVars)
  <2>1. PICK t \in Transfers, kind \in StepKinds, s \in Steps :
          t = m.transfer /\ kind = m.kind /\ s = m.step
    BY DEF IInv, SagaTypes, Message
  <2>2. PICK type \in WorkTypes :
          /\ kind = KindOf(type) /\ s = StepOf(type)
          /\ Taken(t, type) /\ Decision(t, type) = Absent
    BY <2>1 DEF PromptInv, Orphan
  <2>3. Emitted(t, type)
    BY <2>2 DEF Taken, Emitted
  <2>4. /\ Serve(t, kind, s) /\ UNCHANGED <<request, execution>>
        /\ Rightful(t, kind, s) /\ ("CREDIT" \in Done[t] => "DEBIT" \in Done[t])
    BY <1>1, <1>3, <2>1, <2>2, <2>3, CallsAreRightful DEF ExecuteLate, saga
  <2>5. QED
    BY <1>1, <2>4, CallKeepsPromise
<1>4. ASSUME NEW p \in Consumers, Project(p)
      PROVE  [Promise!Next]_(Promise!promiseVars)
  <2>1. PICK e \in Event, t \in Transfers : Projects(p, e, t)
    BY <1>4, Projecting
  <2>2. /\ UNCHANGED <<request, services>> /\ timeouts' = timeouts
        /\ \A u \in Transfers \ {t} : execution'[u] = execution[u]
        /\ Finished(t) => execution'[t] = execution[t]
    BY <2>1 DEF Projects, Finished
  <2>3. IInv' /\ PromptInv' => Whole'
    BY VerdictsAreWhole, PTL
  <2>4. IInv' /\ PromptInv'
    BY <2>2
  <2>5. /\ Standing(t, "DEBIT")' <=> Standing(t, "DEBIT")
        /\ Standing(t, "CREDIT")' <=> Standing(t, "CREDIT")
    <3>1. Done' = Done /\ Undone' = Undone
      BY <1>1, <2>2, ServicesQuiet
    <3>2. QED
      BY <3>1, StandingSteps DEF Steps
  <2>6. Finished(t)' => /\ Standing(t, "DEBIT") => Standing(t, "CREDIT")
                        /\ execution'[t].status = "COMPLETED" => Standing(t, "CREDIT")
    BY <2>3, <2>4, <2>5 DEF Whole
  <2>7. QED
    BY <1>1, <2>2, <2>6, RowKeepsPromise
<1>5. ASSUME NEW c \in Starts, Register(c)
      PROVE  [Promise!Next]_(Promise!promiseVars)
  <2>1. PICK t \in Transfers : t = TransferOf[c]
    BY ChoreographyAssumption
  <2>2. /\ UNCHANGED <<request, services>> /\ execution[t] = Absent
        /\ execution' = [execution EXCEPT ![t] = NewExecution]
    BY <1>5, <2>1 DEF Register
  <2>3. ~Finished(t) /\ ~Finished(t)'
    BY <2>2, Untouched DEF Finished, NewExecution
  <2>4. \A u \in Transfers \ {t} : execution'[u] = execution[u]
    BY <2>2
  <2>5. QED
    BY <1>1, <2>2, <2>3, <2>4, RowKeepsPromise
<1>6. ASSUME NEW p \in Consumers,
             \/ Claim(p) \/ SkipDuplicate(p) \/ Retry(p) \/ GiveUp(p) \/ Record(p)
             \/ Emit(p) \/ EmitAgain(p) \/ EmitInVain(p) \/ Tell(p) \/ Store(p)
             \/ Ack(p) \/ AckLost(p) \/ Raise(p)
      PROVE  UNCHANGED <<request, services, execution>>
  BY <1>6 DEF Claim, SkipDuplicate, Retry, GiveUp, Record, Emit, EmitAgain, EmitInVain, Tell,
              Store, Ack, AckLost, Raise, saga
<1>7. ASSUME NEW c \in Starts, ReplayStart(c) \/ Launch(c) \/ LaunchAgain(c) \/ FailToLaunch(c)
      PROVE  UNCHANGED <<request, services, execution>>
  BY <1>7 DEF ReplayStart, Launch, LaunchAgain, FailToLaunch, saga
<1>8. Crash \/ UNCHANGED vars => UNCHANGED <<request, services, execution>>
  BY DEF Crash, vars, saga, services
<1>9. QED
  BY <1>2, <1>3, <1>4, <1>5, <1>6, <1>7, <1>8 DEF Next, StartStep, Step, Rest

\* Whatever is lost or repeated no account is ever out of pocket: until a call a
\* participant waits for goes unanswered, each step of the choreography commits a
\* transfer whole, refuses it or is not noticed.
THEOREM NobodyIsOutOfPocket == Spec => AllOrNothing
<1>1. Init => Promise!Init /\ (timeouts = 0 => PromptInv)
  <2>1. SUFFICES ASSUME Init
                 PROVE  Promise!Init /\ PromptInv
    OBVIOUS
  <2>2. Promise!Init
    BY <2>1, PromiseStarts DEF Init
  <2>3. /\ \A t \in Transfers, s \in Steps : Row(t, "ACTION", s) = Absent
        /\ \A p \in Workers : hand[p].pc = "idle"
        /\ late = {}
    BY <2>1, ChoreographyAssumption DEF Init, StoreInit, Row, Idle, StepKinds
  <2>4. "FAILED" # Absent
    BY AbsentAssumption DEF ActionStatuses
  <2>5. QED
    BY <2>2, <2>3, <2>4 DEF PromptInv, Confirmed, Declined
<1>2. IInv /\ IInv' /\ (timeouts = 0 => PromptInv) /\ [Next]_vars =>
        (timeouts = 0 => PromptInv)'
  <2>1. SUFFICES ASSUME IInv, timeouts = 0 => PromptInv, [Next]_vars, timeouts' = 0
                 PROVE  PromptInv'
    OBVIOUS
  <2>2. timeouts = 0 /\ timeouts' = timeouts
    BY <2>1, TimeoutsCount, Untouched
  <2>3. QED
    BY <2>1, <2>2, PromptKept
<1>3. IInv /\ IInv' /\ (timeouts = 0 => PromptInv) /\ [Next]_vars =>
        [timeouts = 0 => \/ UNCHANGED <<request, services, execution>>
                         \/ [Promise!Next]_(Promise!promiseVars)]_vars
  BY PromptKept, StepKeepsPromise
<1>4. QED
  BY <1>1, <1>2, <1>3, Invariance, PTL DEF Spec, AllOrNothing
=============================================================================
