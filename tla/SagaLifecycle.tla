---------------------------- MODULE SagaLifecycle ----------------------------
(***************************************************************************)
(* A saga as the Gateway and the browser see it: the row of each transfer  *)
(* goes through the statuses of the design, forwards only, is finished     *)
(* once, and what it says is announced from time to time.  Both flavours   *)
(* of the saga are checked to implement this module, and the Gateway is    *)
(* composed with it instead of with either of them.                        *)
(***************************************************************************)
EXTENDS SagaDomain

CONSTANTS Transfers,  \* transfer identifiers
          Stages,     \* bound: the statuses a row may show
          Absent      \* "no such row"

VARIABLES stage,      \* status of the execution row of each transfer
          finished,   \* transfers whose row has finished_at set
          announced   \* last public status handed to the notifier

lifecycleVars == <<stage, finished, announced>>

\* How far a status is on the way to the end.
Progress(status) ==
  CASE status = "PENDING"          -> 0
    [] status = "DEBITED"          -> 1
    [] status = "RISK_APPROVED"    -> 2
    [] status = "CLEARING_PENDING" -> 3
    [] status = "COMPENSATING"     -> 4
    [] OTHER                       -> 5

Running(t) == stage[t] # Absent /\ t \notin finished

\* The row is inserted.
Begin(t) ==
  /\ stage[t] = Absent
  /\ stage' = [stage EXCEPT ![t] = "PENDING"]
  /\ UNCHANGED <<finished, announced>>

\* The status moves on; a status nobody wrote is passed over.
Advance(t, status) ==
  /\ Running(t)
  /\ Progress(status) > Progress(stage[t])
  /\ stage' = [stage EXCEPT ![t] = status]
  /\ UNCHANGED <<finished, announced>>

\* The verdict is written with finished_at; one already written is kept.
Finish(t, verdict) ==
  /\ Running(t)
  /\ stage[t] \in TerminalStatuses => verdict = stage[t]
  /\ stage' = [stage EXCEPT ![t] = verdict]
  /\ finished' = finished \cup {t}
  /\ UNCHANGED announced

\* Mutant: an outcome is announced before it is stored with finished_at.
AnnounceEarly(t) ==
  /\ stage[t] # Absent
  /\ announced' = [announced EXCEPT ![t] = GatewayStatus(stage[t])]
  /\ UNCHANGED <<stage, finished>>

\* The status of the row is handed to the notifier, or handed to it again; an
\* outcome is once it is final.
Announce(t) ==
  /\ stage[t] # Absent
  /\ stage[t] \in TerminalStatuses => t \in finished
  /\ announced' = [announced EXCEPT ![t] = GatewayStatus(stage[t])]
  /\ UNCHANGED <<stage, finished>>

Init ==
  /\ stage = [t \in Transfers |-> Absent]
  /\ finished = {}
  /\ announced = [t \in Transfers |-> "RECIBIDA"]

Move(t) == \/ Begin(t)
           \/ \E status \in Stages : Advance(t, status)
           \/ \E verdict \in Stages \cap TerminalStatuses : Finish(t, verdict)
           \/ Announce(t)

Next == \E t \in Transfers : Move(t)

Spec == Init /\ [][Next]_lifecycleVars
=============================================================================
