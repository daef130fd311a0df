------------------------ MODULE ClearingServiceProofs ------------------------
(***************************************************************************)
(* What TLAPS checks about the clearing service for every set of transfers *)
(* and worker threads: its types, that every answer is that of the row,    *)
(* and that its two transactions implement the atomic request of Clearing. *)
(***************************************************************************)
EXTENDS ClearingService, TLAPS

Answers == {"OK", "CLEARING_TIMEOUT", "IDEMPOTENCY_CONFLICT"}

\* What a worker thread may be doing.
Works(h) ==
  \/ handler[h] = Idle
  \/ \E t \in Transfers, q \in Requests :
       \/ handler[h] = Sleeping(t, q)
       \/ \E answer \in Answers : handler[h] = Answered(t, q, answer)

\* An answer given is still the answer a repetition would get.
Backed(h) ==
  handler[h].state = "answered" =>
    /\ Registered(handler[h].transfer)
    /\ handler[h].answer = Replay(handler[h].transfer, handler[h].request)

\* Both properties the run checks, with the domain of handler.
IInv ==
  /\ TypeOK
  /\ DOMAIN handler = Handlers
  /\ \A h \in Handlers : Works(h) /\ Backed(h)

-----------------------------------------------------------------------------
\* A new row is well formed and reports the verdict it was made with.
LEMMA NewRow ==
  ASSUME NEW q \in Requests
  PROVE  /\ NewOperation(q) \in Operation
         /\ NewOperation(q).subject = Subject(q)
         /\ Reported(NewOperation(q)) = Verdict(q)
BY DEF NewOperation, Operation, Verdict, Reported, Subjects

\* A stored row answers one of three things.
LEMMA ReplayAnswers ==
  ASSUME TypeOK, NEW t \in Transfers, NEW q \in Requests, Registered(t)
  PROVE  Replay(t, q) \in Answers
BY DEF TypeOK, Registered, Replay, Reported, Operation, Answers

\* Compensating leaves the row, its subject and what it reports as they were:
\* a compensated operation is still reported as a success.
LEMMA CompensateKeepsAnswers ==
  ASSUME TypeOK, NEW t \in Transfers, Compensate(t)
  PROVE  /\ TypeOK'
         /\ \A u \in Transfers : Registered(u) =>
              Registered(u)' /\ \A q \in Requests : Replay(u, q)' = Replay(u, q)
<1>1. CASE CompensateAnswer(t) = "OK"
  <2> DEFINE row == [subject |-> operations[t].subject, status |-> "COMPENSATED",
                     error |-> operations[t].error]
  <2>1. /\ operations[t] \in Operation /\ operations[t].status # "REJECTED_NETWORK"
        /\ operations' = [operations EXCEPT ![t] = row]
    BY <1>1 DEF Compensate, CompensateAnswer, Registered, TypeOK
  <2>2. row \in Operation /\ row # Absent /\ Reported(row) = "OK"
    BY <2>1, ClearingAssumption DEF Operation, Reported
  <2>3. Reported(operations[t]) = "OK"
    BY <2>1 DEF Operation, Reported
  <2>4. \A u \in Transfers : operations'[u] = IF u = t THEN row ELSE operations[u]
    BY <2>1 DEF TypeOK
  <2>5. TypeOK'
    BY <2>1, <2>2 DEF TypeOK
  <2>6. row.subject = operations[t].subject
    OBVIOUS
  <2> HIDE DEF row
  <2>7. QED
    BY <2>2, <2>3, <2>4, <2>5, <2>6 DEF Registered, Replay
<1>2. CASE CompensateAnswer(t) # "OK"
  <2>1. operations' = operations
    BY <1>2 DEF Compensate
  <2>2. QED
    BY <2>1 DEF TypeOK, Registered, Replay
<1>3. QED
  BY <1>1, <1>2

\* Inserting a row that was not there leaves every other row as it was.
LEMMA InsertKeepsAnswers ==
  ASSUME TypeOK, NEW t \in Transfers, NEW q \in Requests, ~Registered(t),
         operations' = [operations EXCEPT ![t] = NewOperation(q)]
  PROVE  /\ TypeOK'
         /\ Registered(t)' /\ Replay(t, q)' = Reported(NewOperation(q))
         /\ \A u \in Transfers : Registered(u) =>
              Registered(u)' /\ \A r \in Requests : Replay(u, r)' = Replay(u, r)
<1>1. \A u \in Transfers : operations'[u] = IF u = t THEN NewOperation(q) ELSE operations[u]
  BY DEF TypeOK
<1>2. TypeOK'
  BY NewRow DEF TypeOK
<1>3. NewOperation(q) # Absent
  BY NewRow, ClearingAssumption
<1>4. QED
  BY <1>1, <1>2, <1>3, NewRow DEF Registered, Replay

-----------------------------------------------------------------------------
\* A thread that another one's step leaves alone keeps its promise, if the rows
\* keep theirs.
LEMMA OthersKeepTheirs ==
  ASSUME IInv, NEW h \in Handlers, handler'[h] = handler[h],
         \A u \in Transfers : Registered(u) =>
           Registered(u)' /\ \A q \in Requests : Replay(u, q)' = Replay(u, q)
  PROVE  Works(h)' /\ Backed(h)'
<1>1. Works(h) /\ Backed(h)
  BY DEF IInv
<1>2. Works(h)'
  BY <1>1 DEF Works, Idle, Sleeping, Answered
<1>3. Backed(h)'
  <2> SUFFICES ASSUME handler[h].state = "answered"
               PROVE  Backed(h)'
    BY DEF Backed
  <2>1. PICK t \in Transfers, q \in Requests, answer \in Answers :
          handler[h] = Answered(t, q, answer)
    <3>1. CASE handler[h] = Idle
      BY <3>1 DEF Idle
    <3>2. CASE \E t \in Transfers, q \in Requests : handler[h] = Sleeping(t, q)
      BY <3>2 DEF Sleeping
    <3>3. QED
      BY <1>1, <3>1, <3>2 DEF Works
  <2>2. handler[h].transfer = t /\ handler[h].request = q
    BY <2>1 DEF Answered
  <2>3. QED
    BY <1>1, <2>2 DEF Backed
<1>4. QED
  BY <1>2, <1>3

\* One thread goes on, to sleep, to an answer that is the row's, or back to idle.
LEMMA OneMoves ==
  ASSUME IInv, TypeOK', NEW h \in Handlers, NEW next,
         handler' = [handler EXCEPT ![h] = next],
         \/ next = Idle
         \/ \E t \in Transfers, q \in Requests :
              \/ next = Sleeping(t, q)
              \/ /\ Registered(t)'
                 /\ \E answer \in Answers :
                      answer = Replay(t, q)' /\ next = Answered(t, q, answer),
         \A u \in Transfers : Registered(u) =>
           Registered(u)' /\ \A q \in Requests : Replay(u, q)' = Replay(u, q)
  PROVE  IInv'
<1>1. DOMAIN handler' = Handlers /\ handler'[h] = next
  BY DEF IInv
<1>2. Works(h)' /\ Backed(h)'
  <2>1. CASE next = Idle
    BY <1>1, <2>1 DEF Works, Backed, Idle
  <2>2. CASE \E t \in Transfers, q \in Requests : next = Sleeping(t, q)
    BY <1>1, <2>2 DEF Works, Backed, Sleeping
  <2>3. ASSUME NEW t \in Transfers, NEW q \in Requests, NEW answer \in Answers,
               Registered(t)', answer = Replay(t, q)', next = Answered(t, q, answer)
        PROVE  Works(h)' /\ Backed(h)'
    <3>1. Works(h)'
      BY <1>1, <2>3 DEF Works
    <3>2. next.transfer = t /\ next.request = q /\ next.answer = answer
      BY <2>3 DEF Answered
    <3>3. Backed(h)'
      BY <1>1, <2>3, <3>2 DEF Backed
    <3>4. QED
      BY <3>1, <3>3
  <2>4. QED
    BY <2>1, <2>2, <2>3
<1>3. ASSUME NEW k \in Handlers, k # h
      PROVE  Works(k)' /\ Backed(k)'
  <2>1. handler'[k] = handler[k]
    BY <1>3 DEF IInv
  <2>2. QED
    BY <2>1, OthersKeepTheirs
<1>4. QED
  BY <1>1, <1>2, <1>3 DEF IInv

\* What a sleeping thread has in mind.
LEMMA SleepersWork ==
  ASSUME IInv, NEW h \in Handlers, handler[h].state = "sleeping"
  PROVE  \E t \in Transfers, q \in Requests : handler[h] = Sleeping(t, q)
<1>1. CASE \E t \in Transfers, q \in Requests : handler[h] = Sleeping(t, q)
  BY <1>1
<1>2. CASE handler[h] = Idle
  BY <1>2 DEF Idle
<1>3. CASE \E t \in Transfers, q \in Requests, answer \in Answers :
             handler[h] = Answered(t, q, answer)
  BY <1>3 DEF Answered
<1>4. QED
  BY <1>1, <1>2, <1>3 DEF IInv, Works

\* Every step of the service preserves the invariant, and leaves the rows alone
\* or moves them as one request of Clearing does.
LEMMA EveryStep ==
  ASSUME IInv, [ServiceNext]_vars
  PROVE  IInv' /\ [Next]_operations
<1> DEFINE Same == UNCHANGED operations
<1>0. Same => /\ TypeOK'
              /\ \A u \in Transfers : /\ Registered(u)' <=> Registered(u)
                                      /\ \A q \in Requests : Replay(u, q)' = Replay(u, q)
  BY DEF IInv, TypeOK, Registered, Replay
<1>1. ASSUME NEW h \in Handlers, NEW t \in Transfers, NEW q \in Requests, LookupHit(h, t, q)
      PROVE  IInv' /\ [Next]_operations
  <2>1. Replay(t, q) \in Answers
    BY <1>1, ReplayAnswers DEF LookupHit, IInv
  <2>2. QED
    BY <1>0, <1>1, <2>1, OneMoves DEF LookupHit
<1>2. ASSUME NEW h \in Handlers, NEW t \in Transfers, NEW q \in Requests, LookupMiss(h, t, q)
      PROVE  IInv' /\ [Next]_operations
  BY <1>0, <1>2, OneMoves DEF LookupMiss
<1>3. ASSUME NEW h \in Handlers, Insert(h)
      PROVE  IInv' /\ [Next]_operations
  <2>1. PICK t \in Transfers, q \in Requests : handler[h] = Sleeping(t, q)
    BY <1>3, SleepersWork DEF Insert
  <2>2. /\ ~Registered(t)
        /\ operations' = [operations EXCEPT ![t] = NewOperation(q)]
        /\ handler' = [handler EXCEPT ![h] = Answered(t, q, Reported(NewOperation(q)))]
    BY <1>3, <2>1 DEF Insert, Sleeping
  <2>3. /\ TypeOK' /\ Registered(t)' /\ Replay(t, q)' = Reported(NewOperation(q))
        /\ \A u \in Transfers : Registered(u) =>
             Registered(u)' /\ \A r \in Requests : Replay(u, r)' = Replay(u, r)
    BY <2>1, <2>2, InsertKeepsAnswers DEF IInv
  <2>4. Reported(NewOperation(q)) \in Answers
    BY <2>1, NewRow DEF Answers, Verdict
  <2>5. IInv'
    BY <2>1, <2>2, <2>3, <2>4, OneMoves
  <2>6. Transfer(t, q)
    BY <2>2 DEF Transfer
  <2>7. QED
    BY <2>1, <2>5, <2>6 DEF Next
<1>4. ASSUME NEW h \in Handlers, InsertLost(h)
      PROVE  IInv' /\ [Next]_operations
  <2>1. PICK t \in Transfers, q \in Requests : handler[h] = Sleeping(t, q)
    BY <1>4, SleepersWork DEF InsertLost
  <2>2. /\ Registered(t) /\ UNCHANGED operations
        /\ handler' = [handler EXCEPT ![h] = Answered(t, q, Replay(t, q))]
    BY <1>4, <2>1 DEF InsertLost, Sleeping
  <2>3. Replay(t, q) \in Answers
    BY <2>1, <2>2, ReplayAnswers DEF IInv
  <2>4. QED
    BY <1>0, <2>1, <2>2, <2>3, OneMoves
<1>5. ASSUME NEW h \in Handlers, Abort(h)
      PROVE  IInv' /\ [Next]_operations
  BY <1>0, <1>5, OneMoves DEF Abort
<1>6. ASSUME NEW t \in Transfers, Undo(t)
      PROVE  IInv' /\ [Next]_operations
  <2>1. /\ TypeOK' /\ handler' = handler
        /\ \A u \in Transfers : Registered(u) =>
             Registered(u)' /\ \A q \in Requests : Replay(u, q)' = Replay(u, q)
    BY <1>6, CompensateKeepsAnswers DEF Undo, IInv
  <2>2. IInv'
    BY <2>1, OthersKeepTheirs DEF IInv
  <2>3. QED
    BY <1>6, <2>2 DEF Undo, Next
<1>7. CASE UNCHANGED vars
  <2>1. UNCHANGED operations /\ UNCHANGED handler
    BY <1>7 DEF vars
  <2>2. IInv'
    BY <1>0, <2>1, OthersKeepTheirs DEF IInv
  <2>3. QED
    BY <2>1, <2>2
<1>8. QED
  BY <1>1, <1>2, <1>3, <1>4, <1>5, <1>6, <1>7 DEF ServiceNext

\* The service starts with no row and every thread idle.
LEMMA StartsWell ==
  ASSUME ServiceInit
  PROVE  IInv
BY DEF ServiceInit, Init, IInv, TypeOK, Works, Backed, Idle

\* The invariant holds for ever.
LEMMA Invariance == ServiceSpec => []IInv
<1>1. ServiceInit => IInv
  BY StartsWell
<1>2. IInv /\ [ServiceNext]_vars => IInv'
  BY EveryStep
<1>3. QED
  BY <1>1, <1>2, PTL DEF ServiceSpec

-----------------------------------------------------------------------------
\* The rows of clearing.operations and the worker threads are always well formed.
THEOREM ServiceTyping == ServiceSpec => []ServiceTypeOK
<1>1. IInv => ServiceTypeOK
  BY DEF IInv, ServiceTypeOK, Works, Answers
<1>2. QED
  BY <1>1, Invariance, PTL

\* However many requests for one transfer race through the two transactions of
\* the handler, every one of them is answered for the row that exists, and a
\* compensation in between changes no answer already given.
THEOREM AnswersTrue == ServiceSpec => []AnswersMatchTheRow
<1>1. IInv => AnswersMatchTheRow
  BY DEF IInv, AnswersMatchTheRow, Backed
<1>2. QED
  BY <1>1, Invariance, PTL

\* The handler in two transactions with a sleep between them implements the
\* clearing service that serves each request in one.
THEOREM LooksAtomic == ServiceSpec => TwoTransactionsLookAtomic
<1>1. ServiceInit => Init
  BY DEF ServiceInit
<1>2. IInv /\ [ServiceNext]_vars => [Next]_operations
  BY EveryStep
<1>3. QED
  BY <1>1, <1>2, Invariance, PTL DEF ServiceSpec, TwoTransactionsLookAtomic, Spec
=============================================================================
