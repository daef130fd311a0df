------------------------ MODULE ChoreographyProperties ------------------------
(***************************************************************************)
(* What the choreographed saga owes its clients, its auditors and the      *)
(* Gateway, besides what any saga does (SagaProperties).  The first group  *)
(* holds whatever is lost or repeated; the second when nothing is lost.    *)
(***************************************************************************)
EXTENDS Choreography, SagaProperties

-----------------------------------------------------------------------------
(* Whatever is lost or repeated.                                           *)

\* The effect of an event happens once per participant (CP-05): however often a
\* message is delivered or a publish repeated, no two events of one type are
\* ever emitted about one transfer, so no service is asked for a step twice.
NoEventTwice == \A e \in emitted : e.copy = 1

\* Reverse order emerges from the chain of events: a step is undone at its
\* service only when every later executed step has already been undone there.
RollbackByCausality ==
  \A t \in Transfers, s \in Steps : Reverted(t, s) =>
    \A u \in After(s) : Row(t, "ACTION", u) = "EXECUTED" => Reverted(t, u)

\* The verdict the projector gathers from the events agrees with the trail the
\* participants write: completed means that every step stands; rejected for
\* lack of funds that nothing ran; anything else that all that ran was undone,
\* and the reason given is that of the step that failed.  The reason may be
\* missing when it was lost, and when risk rejected: RiskRejected is published
\* before the TransferFailed that carries it, so the rollback may end first.
VerdictMatchesTrail ==
  \A t \in Transfers : Finished(t) =>
    LET row == execution[t] IN
    /\ row.status = "COMPLETED" =>
         Executed(t) = Steps /\ \A s \in Steps : Standing(t, s)
    /\ row.status = "REJECTED_FUNDS" =>
         Executed(t) = {} /\ row.compensation = "NOT_REQUIRED"
    /\ row.status \notin {"COMPLETED", "REJECTED_FUNDS"} =>
         /\ row.compensation = "COMPENSATED"
         /\ "DEBIT" \in Executed(t) /\ Executed(t) # Steps
         /\ \A s \in Executed(t) : Row(t, "COMPENSATION", s) = "COMPENSATED"
         /\ row.status = "REJECTED_RISK" => Row(t, "ACTION", "RISK") = "FAILED"
         /\ row.error = "NONE" => Row(t, "ACTION", "RISK") = "FAILED" \/ losses > 0

\* Seen through its rows the choreography is a saga like any other: statuses
\* only advance, a finished row is never projected over, and what is announced
\* is what the row says, although the events come from three threads.  Only an
\* event that was repeated, and whose first delivery was dropped, can be
\* projected after its successors.
FollowsTheLifecycle ==
  /\ Lifecycle!Init
  /\ [][repeats = 0 \/ losses = 0 => [Lifecycle!Next]_(Lifecycle!lifecycleVars)]_vars

\* Whatever is lost or repeated no account is ever out of pocket: while every
\* call a participant waits for is answered, each step of the saga commits a
\* transfer whole, refuses it or changes nothing.  A rollback that was lost on
\* the way leaves the money in transit, and the transfer open.  (A step that
\* touches neither services nor row stutters; most do, and are told so first.)
AllOrNothing ==
  /\ Promise!Init
  /\ [][timeouts = 0 => \/ UNCHANGED <<request, services, execution>>
                        \/ [Promise!Next]_(Promise!promiseVars)]_vars

-----------------------------------------------------------------------------
(* When nothing is lost.                                                   *)

\* The audit log ends up with every event ever emitted, repeated or not.
EveryEventIsLogged == <>[](log = emitted)
===============================================================================
