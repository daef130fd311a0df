--------------------------- MODULE ClearingService ---------------------------
(***************************************************************************)
(* The clearing service as its handler is written: a transfer looks its    *)
(* row up in a first transaction, sleeps for the simulated network latency *)
(* holding no lock, and inserts in a second one, where it may find that a  *)
(* concurrent request was faster.  Handlers are the server's worker        *)
(* threads; an answered handler may take another request.                  *)
(***************************************************************************)
EXTENDS Clearing

CONSTANT Handlers

VARIABLE handler   \* what each worker thread is doing

vars == <<operations, handler>>

Idle == [state |-> "idle"]
Sleeping(t, q) == [state |-> "sleeping", transfer |-> t, request |-> q]
Answered(t, q, answer) ==
  [state |-> "answered", transfer |-> t, request |-> q, answer |-> answer]

Free(h) == handler[h].state # "sleeping"

\* First transaction, the row exists: the stored verdict or a conflict.
LookupHit(h, t, q) ==
  /\ Free(h) /\ Registered(t)
  /\ handler' = [handler EXCEPT ![h] = Answered(t, q, Replay(t, q))]
  /\ UNCHANGED operations

\* First transaction, no row: the handler sleeps before it inserts.
LookupMiss(h, t, q) ==
  /\ Free(h) /\ ~Registered(t)
  /\ handler' = [handler EXCEPT ![h] = Sleeping(t, q)]
  /\ UNCHANGED operations

\* Second transaction: the row is inserted and its verdict answered.
Insert(h) ==
  LET t == handler[h].transfer
      q == handler[h].request
  IN  /\ handler[h].state = "sleeping" /\ ~Registered(t)
      /\ operations' = [operations EXCEPT ![t] = NewOperation(q)]
      /\ handler' = [handler EXCEPT ![h] = Answered(t, q, Reported(NewOperation(q)))]

\* Mutant: the loser answers with the verdict it meant to write.
InsertLostUnread(h) ==
  LET t == handler[h].transfer
      q == handler[h].request
  IN  /\ handler[h].state = "sleeping" /\ Registered(t)
      /\ handler' = [handler EXCEPT ![h] = Answered(t, q, Verdict(q))]
      /\ UNCHANGED operations

\* Mutant: ON CONFLICT DO UPDATE.
InsertLostOverwrites(h) ==
  LET t == handler[h].transfer
      q == handler[h].request
  IN  /\ handler[h].state = "sleeping" /\ Registered(t)
      /\ operations' = [operations EXCEPT ![t] = NewOperation(q)]
      /\ handler' = [handler EXCEPT ![h] = Answered(t, q, Reported(NewOperation(q)))]

\* Second transaction, ON CONFLICT DO NOTHING: the winner's row is read again.
InsertLost(h) ==
  LET t == handler[h].transfer
      q == handler[h].request
  IN  /\ handler[h].state = "sleeping" /\ Registered(t)
      /\ handler' = [handler EXCEPT ![h] = Answered(t, q, Replay(t, q))]
      /\ UNCHANGED operations

\* The process stops while the handler sleeps: nothing was written yet.
Abort(h) ==
  /\ handler[h].state = "sleeping"
  /\ handler' = [handler EXCEPT ![h] = Idle]
  /\ UNCHANGED operations

Undo(t) == Compensate(t) /\ UNCHANGED handler

ServiceInit == Init /\ handler = [h \in Handlers |-> Idle]

ServiceNext ==
  \/ \E h \in Handlers, t \in Transfers, q \in Requests :
       LookupHit(h, t, q) \/ LookupMiss(h, t, q)
  \/ \E h \in Handlers : Insert(h) \/ InsertLost(h) \/ Abort(h)
  \/ \E t \in Transfers : Undo(t)

ServiceSpec == ServiceInit /\ [][ServiceNext]_vars

-----------------------------------------------------------------------------
\* Rows and worker threads are well formed.
ServiceTypeOK ==
  /\ TypeOK
  /\ \A h \in Handlers :
       \/ handler[h] = Idle
       \/ \E t \in Transfers, q \in Requests :
            \/ handler[h] = Sleeping(t, q)
            \/ \E answer \in {"OK", "CLEARING_TIMEOUT", "IDEMPOTENCY_CONFLICT"} :
                 handler[h] = Answered(t, q, answer)

\* No answer is given on behalf of a row that is not there, and an answer of
\* success is backed by an operation that was not rejected: a losing insert
\* answers for the row that exists, not for the one it wanted to write.
AnswersMatchTheRow ==
  \A h \in Handlers : handler[h].state = "answered" =>
    LET t == handler[h].transfer IN
    /\ Registered(t)
    /\ handler[h].answer = Replay(t, handler[h].request)

\* The two transactions with a sleep between them look atomic from outside.
TwoTransactionsLookAtomic == Spec
=============================================================================
