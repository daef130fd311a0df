--------------------------- MODULE GatewayProperties ---------------------------
(***************************************************************************)
(* What the Gateway owes the client who asked for a transfer: one transfer *)
(* per key, a public status that is true, and a screen that settles.       *)
(***************************************************************************)
EXTENDS Gateway

Request == [to : {"saga"}, transfer : Posts]
           \cup [to : {"gateway"}, transfer : Posts, status : PublicStatuses]

\* Every row, request and read of the browser is well formed.
TypeOK ==
  /\ request \in Requests
  /\ transfers \in [Keys -> Record \cup {Absent}]
  /\ answer \in [Posts -> {"none", "created", "replayed", "conflict"}]
  /\ task \in [Posts -> {"none", "queued", "sending", "accepted", "refused", "done"}]
  /\ outbox \in [Posts -> {Absent, "PENDING", "DELIVERED", "FAILED"}]
  /\ accepted \subseteq Posts /\ finished \subseteq Posts
  /\ stage \in [Posts -> Stages \cup {Absent}]
  /\ announced \in [Posts -> PublicStatuses]
  /\ late \subseteq Request
  /\ queue \in Seq(Request) /\ patch \in Request \cup {Absent}
  /\ screen \in [state : {"off", "polling", "stopped"}, transfer : Posts \cup {Absent},
                 public : PublicStatuses \cup {"NONE"},
                 trace : PublicStatuses \cup {"NONE", "OPEN"},
                 shown : PublicStatuses \cup {"NONE"}]
  /\ timeouts \in 0..MaxTimeouts /\ losses \in 0..MaxLosses

\* The saga got the transfer, and has it in hand or has left a row of it.
Handed(c) == c \in accepted \/ stage[c] # Absent

\* One saga per key, and the outbox can be trusted: whatever the saga was given
\* has its hand-over on record and is the transfer the key stands for, however
\* many POSTs raced for it; what is recorded as DELIVERED did reach the saga.
OutboxTellsTheTruth ==
  \A c \in Posts :
    /\ Handed(c) => /\ outbox[c] # Absent
                    /\ Existing(c) # Absent /\ Existing(c).transfer = c
    /\ outbox[c] = "DELIVERED" => Handed(c) \/ losses > 0

\* What a client reads of the key's transfer.
Public(k) == IF transfers[k] = Absent THEN "NONE" ELSE transfers[k].status

\* The public status never runs ahead of the saga: an outcome is published only
\* when it is the stored outcome of a finished execution, and a rollback only
\* when one has begun.
PublicIsTrue ==
  \A k \in Keys : Public(k) \notin {"NONE", "RECIBIDA"} =>
    LET t == transfers[k].transfer IN
    /\ stage[t] # Absent
    /\ Public(k) = "COMPENSANDO" =>
         Saga!Progress(stage[t]) >= Saga!Progress("COMPENSATING")
    /\ Public(k) \in FinalPublicStatuses =>
         t \in finished /\ Public(k) = GatewayStatus(stage[t])

\* How far a public status is from the end of a transfer.
Rank(public) ==
  CASE public \in {"NONE", "RECIBIDA"} -> 0
    [] public = "EN_PROCESO"  -> 1
    [] public = "COMPENSANDO" -> 2
    [] OTHER                  -> 3

\* notifier.py: "conservan el orden, de modo que el Gateway nunca ve un estado
\* retroceder".  It takes a PATCH the notifier gave up on, executed after its
\* successors, to take a public status back.
OnlyLatePatchesGoBack ==
  [][\A k \in Keys : Rank(Public(k)') < Rank(Public(k)) =>
       \E m \in late \ late' : m.to = "gateway"]_vars

\* A screen that stopped polling shows the outcome the saga stored, although it
\* was put together from two reads made at different times, one of which may
\* have failed, and although the public status may be lost or late.
TheScreenTellsTheOutcome ==
  screen.state = "stopped" =>
    /\ screen.transfer \in finished
    /\ screen.shown = GatewayStatus(stage[screen.transfer])

\* The transfer of the key is one of these.
Among(k, sagas) == transfers[k] # Absent /\ transfers[k].transfer \in sagas

\* Unless a request times out or something stops, every transfer registered is
\* begun by the saga, and the outcome of one that finishes is published (not
\* every saga finishes: a choreography may be left open).  And whatever was lost,
\* a browser that polls a finished transfer gets to know.
NewsArrives ==
  /\ \A k \in Keys :
       /\ Public(k) # "NONE" ~> Among(k, {t \in Posts : stage[t] # Absent}) \/ timeouts + losses > 0
       /\ Among(k, finished) ~> Public(k) \in FinalPublicStatuses \/ timeouts + losses > 0
  /\ Polling /\ screen.transfer \in finished ~> screen.state = "stopped"
===============================================================================
