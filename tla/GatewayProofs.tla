---------------------------- MODULE GatewayProofs ----------------------------
(***************************************************************************)
(* What the Gateway owes its clients, proved for any number of POSTs, keys *)
(* and requests, any statuses the saga may show and any bounds: its rows   *)
(* are true, its outbox can be trusted, the screen settles on the stored   *)
(* outcome, and only a late PATCH takes a public status back.              *)
(***************************************************************************)
EXTENDS GatewayProperties, SequenceTheorems, TLAPS

\* A status the saga has told of the transfer and that is still true of it.
Told(t, status) ==
  /\ status \notin {"NONE", "RECIBIDA"}
  /\ stage[t] # Absent
  /\ status = "COMPENSANDO" => Saga!Progress(stage[t]) >= 4
  /\ status \in FinalPublicStatuses => t \in finished /\ status = GatewayStatus(stage[t])

\* The public rows and every PATCH, wherever it is, say what the saga told.
NewsIsTrue ==
  /\ \A k \in Keys : transfers[k] # Absent =>
       transfers[k].status = "RECIBIDA" \/ Told(transfers[k].transfer, transfers[k].status)
  /\ \A m \in late : m.to = "gateway" => Told(m.transfer, m.status)
  /\ \A i \in 1..Len(queue) :
       queue[i].to = "gateway" /\ Told(queue[i].transfer, queue[i].status)
  /\ patch # Absent => patch.to = "gateway" /\ Told(patch.transfer, patch.status)

\* The PATCH m does not take the transfer t back from a status.
Keeps(m, t, status) == m.transfer = t => Rank(status) <= Rank(m.status)

\* Nor does any PATCH the notifier still holds.
QueueKeeps(t, status) == \A i \in 1..Len(queue) : Keeps(queue[i], t, status)
NotifierKeeps(t, status) ==
  QueueKeeps(t, status) /\ (patch # Absent => Keeps(patch, t, status))

\* The PATCHes about a transfer leave in the order of its statuses: the ones the
\* notifier holds are no earlier than the row, than any it gave up on, and than
\* each other.
NewsInOrder ==
  /\ \A k \in Keys : transfers[k] # Absent =>
       NotifierKeeps(transfers[k].transfer, transfers[k].status)
  /\ \A m \in late : m.to = "gateway" => NotifierKeeps(m.transfer, m.status)
  /\ patch # Absent => QueueKeeps(patch.transfer, patch.status)
  /\ \A i, j \in 1..Len(queue) : i < j => Keeps(queue[j], queue[i].transfer, queue[i].status)

\* The key of the POST stands for the transfer it made.
Owns(c) == Existing(c) # Absent /\ Existing(c).transfer = c

\* The hand-over of a transfer, on its way from the POST that made it to the
\* saga: on record before it is sent, known to have arrived before it is marked.
HandOverOnRecord ==
  \A c \in Posts :
    /\ answer[c] \in {"created", "replayed"} => Existing(c) # Absent
    /\ task[c] # "none" => Owns(c)
    /\ task[c] \in {"sending", "accepted", "refused"} => outbox[c] # Absent
    /\ HandOver(c) \in late => outbox[c] # Absent /\ Owns(c)
    /\ task[c] = "accepted" => Handed(c) \/ losses > 0

\* What the poll has read so far is true of its transfer, and stays so.
ReadsAreTrue ==
  /\ screen.state = "off" =>
       screen.public = "NONE" /\ screen.trace = "NONE" /\ screen.shown = "NONE"
  /\ screen.state # "off" => screen.transfer \in Posts
  /\ screen.public \in {"NONE", "RECIBIDA"} \/ Told(screen.transfer, screen.public)
  /\ screen.trace \notin {"NONE", "OPEN"} =>
       screen.transfer \in finished /\ screen.trace = GatewayStatus(stage[screen.transfer])

\* A finished saga has an outcome.
FinishedIsTerminal == \A t \in finished : stage[t] \in TerminalStatuses

IInv ==
  /\ TypeOK /\ FinishedIsTerminal
  /\ NewsIsTrue /\ NewsInOrder
  /\ HandOverOnRecord /\ OutboxTellsTheTruth
  /\ ReadsAreTrue /\ TheScreenTellsTheOutcome

-----------------------------------------------------------------------------
(* The statuses and their names.                                           *)

\* The public name of a saga's status, and how far it is.
LEMMA Names ==
  /\ \A status : GatewayStatus(status) \in
       PublicStatuses \ {"RECIBIDA", "COMPENSADA"}
  /\ \A status \in SagaStatuses :
       /\ GatewayStatus(status) \in FinalPublicStatuses <=> status \in TerminalStatuses
       /\ GatewayStatus(status) = "COMPENSANDO" <=> status = "COMPENSATING"
       /\ Saga!Progress(status) >= 4 <=> status \in TerminalStatuses \cup {"COMPENSATING"}
<1>1. \A status : GatewayStatus(status) \in PublicStatuses \ {"RECIBIDA", "COMPENSADA"}
  BY DEF GatewayStatus, PublicStatuses
<1>2. FinalPublicStatuses = {"CONFIRMADA", "RECHAZADA_FONDOS", "RECHAZADA_RIESGO",
                             "RECHAZADA_RED", "FALLIDA", "COMPENSADA"}
  BY DEF FinalPublicStatuses, TerminalStatuses, GatewayStatus
<1>3. ASSUME NEW status \in SagaStatuses
      PROVE  /\ GatewayStatus(status) \in FinalPublicStatuses <=> status \in TerminalStatuses
             /\ GatewayStatus(status) = "COMPENSANDO" <=> status = "COMPENSATING"
             /\ Saga!Progress(status) >= 4 <=>
                  status \in TerminalStatuses \cup {"COMPENSATING"}
  BY <1>2 DEF SagaStatuses, TerminalStatuses, GatewayStatus, Saga!Progress
<1>4. QED
  BY <1>1, <1>3

\* The saga the Gateway is composed with speaks of the same statuses.
LEMMA SameVocabulary ==
  /\ Saga!TerminalStatuses = TerminalStatuses
  /\ \A status : Saga!GatewayStatus(status) = GatewayStatus(status)
BY DEF Saga!TerminalStatuses, TerminalStatuses, Saga!GatewayStatus, GatewayStatus

\* The rank of a public status is a number, and outcomes have the highest.
LEMMA Ranks ==
  /\ \A public : Rank(public) \in 0..3
  /\ Rank("NONE") = 0 /\ Rank("RECIBIDA") = 0 /\ Rank("COMPENSANDO") = 2
  /\ \A public \in PublicStatuses \ FinalPublicStatuses : Rank(public) < 3
  /\ \A public \in FinalPublicStatuses : Rank(public) = 3
<1>1. FinalPublicStatuses = {"CONFIRMADA", "RECHAZADA_FONDOS", "RECHAZADA_RIESGO",
                             "RECHAZADA_RED", "FALLIDA", "COMPENSADA"}
  BY DEF FinalPublicStatuses, TerminalStatuses, GatewayStatus
<1>2. QED
  BY <1>1 DEF Rank, PublicStatuses

\* What a saga told before is no further than what it tells now.
LEMMA TellingGoesOn ==
  ASSUME TypeOK, NEW t \in Posts, NEW status \in PublicStatuses, Told(t, status)
  PROVE  Rank(status) <= Rank(GatewayStatus(stage[t]))
<1>1. stage[t] \in SagaStatuses
  BY GatewayAssumption DEF TypeOK, Told
<1>2. CASE status \in FinalPublicStatuses
  BY <1>2, Ranks DEF Told
<1>3. CASE status = "COMPENSANDO"
  <2>1. stage[t] \in TerminalStatuses \cup {"COMPENSATING"}
    BY <1>1, <1>3, Names DEF Told
  <2>2. GatewayStatus(stage[t]) \in FinalPublicStatuses \cup {"COMPENSANDO"}
    BY <1>1, <2>1, Names
  <2>3. QED
    BY <1>3, <2>2, Ranks
<1>4. CASE status \notin FinalPublicStatuses \cup {"COMPENSANDO"}
  <2>1. Rank(status) <= 1
    BY <1>4 DEF Told, PublicStatuses, FinalPublicStatuses, TerminalStatuses,
                GatewayStatus, Rank
  <2>2. Rank(GatewayStatus(stage[t])) >= 1
    BY Names DEF PublicStatuses, Rank
  <2>3. QED
    BY <2>1, <2>2, Ranks
<1>5. QED
  BY <1>2, <1>3, <1>4

-----------------------------------------------------------------------------
(* What the saga does to what it told.                                     *)

\* The saga's row moves on: what it told stays told, what it ended in is final.
SagaGoesOn ==
  /\ stage' \in [Posts -> Stages \cup {Absent}] /\ finished' \subseteq Posts
  /\ FinishedIsTerminal'
  /\ \A t \in Posts : stage[t] # Absent => stage'[t] # Absent
  /\ \A t \in Posts : \A status : Told(t, status) => Told(t, status)'
  /\ \A t \in finished : t \in finished' /\ stage'[t] = stage[t]

\* Every step of a saga keeps what it told.
LEMMA SagaKeepsItsWord ==
  ASSUME TypeOK, FinishedIsTerminal,
         \/ UNCHANGED <<stage, finished>>
         \/ \E t \in Posts : Begin(t) \/ Proceed(t)
  PROVE  SagaGoesOn
<1>0. /\ stage \in [Posts -> Stages \cup {Absent}] /\ finished \subseteq Posts
      /\ Stages \subseteq SagaStatuses /\ "PENDING" \in Stages
      /\ Absent \notin SagaStatuses
  BY GatewayAssumption DEF TypeOK
<1>1. CASE UNCHANGED <<stage, finished>>
  BY <1>0, <1>1 DEF SagaGoesOn, FinishedIsTerminal, Told
<1>2. ASSUME NEW u \in Posts, Begin(u)
      PROVE  SagaGoesOn
  <2>1. /\ stage[u] = Absent /\ stage' = [stage EXCEPT ![u] = "PENDING"]
        /\ finished' = finished
    BY <1>2 DEF Begin, Saga!Begin
  <2>2. u \notin finished
    BY <1>0, <2>1 DEF FinishedIsTerminal, SagaStatuses
  <2>3. \A t \in Posts : \A status : Told(t, status) => Told(t, status)'
    BY <1>0, <2>1 DEF Told
  <2>4. FinishedIsTerminal'
    BY <1>0, <2>1, <2>2 DEF FinishedIsTerminal
  <2>5. QED
    BY <1>0, <2>1, <2>2, <2>3, <2>4 DEF SagaGoesOn
<1>3. ASSUME NEW u \in Posts, Proceed(u)
      PROVE  SagaGoesOn
  <2>1. PICK status \in Stages :
          /\ stage[u] # Absent /\ u \notin finished
          /\ stage' = [stage EXCEPT ![u] = status]
          /\ \/ finished' = finished /\ Saga!Progress(status) > Saga!Progress(stage[u])
             \/ /\ finished' = finished \cup {u} /\ status \in TerminalStatuses
    BY <1>3 DEF Proceed, Saga!Advance, Saga!Finish, Saga!Running
  <2>2. stage[u] \in SagaStatuses /\ status \in SagaStatuses
    BY <1>0, <2>1
  <2>3. Saga!Progress(stage[u]) >= 4 => Saga!Progress(status) >= 4
    <3>1. Saga!Progress(status) \in Nat /\ Saga!Progress(stage[u]) \in Nat
      BY DEF Saga!Progress
    <3>2. QED
      BY <2>1, <2>2, <3>1, Names
  <2>4. FinishedIsTerminal'
    BY <1>0, <2>1 DEF FinishedIsTerminal
  <2>5. \A t \in Posts : \A s : Told(t, s) => Told(t, s)'
    <3> SUFFICES ASSUME NEW t \in Posts, NEW s, Told(t, s)
                 PROVE  Told(t, s)'
      OBVIOUS
    <3>1. CASE t = u
      <4>1. s \notin FinalPublicStatuses /\ stage'[t] = status /\ status # Absent
        BY <1>0, <2>1, <2>2, <3>1 DEF Told
      <4>2. QED
        BY <2>3, <3>1, <4>1 DEF Told
    <3>2. CASE t # u
      <4>1. stage'[t] = stage[t] /\ (t \in finished => t \in finished')
        BY <1>0, <2>1, <3>2
      <4>2. QED
        BY <4>1 DEF Told
    <3>3. QED
      BY <3>1, <3>2
  <2>6. QED
    BY <1>0, <2>1, <2>2, <2>4, <2>5 DEF SagaGoesOn
<1>4. QED
  BY <1>1, <1>2, <1>3

-----------------------------------------------------------------------------
(* What a step that touches something else leaves as it was.               *)

\* The news stays true and in order when rows and PATCHes stay where they are.
LEMMA NewsFrame ==
  ASSUME IInv, SagaGoesOn, UNCHANGED <<transfers, queue, patch>>,
         \A m \in late' : m.to = "gateway" => m \in late
  PROVE  NewsIsTrue' /\ NewsInOrder'
<1> USE DEF SagaGoesOn
<1>0. /\ \A k \in Keys : transfers[k] # Absent => transfers[k].transfer \in Posts
      /\ \A m \in late : m.to = "gateway" => m.transfer \in Posts
      /\ \A i \in 1..Len(queue) : queue[i].transfer \in Posts
      /\ patch # Absent => patch.transfer \in Posts
  <2>1. TypeOK
    BY DEF IInv
  <2>2. \A k \in Keys : transfers[k] # Absent => transfers[k].transfer \in Posts
    BY <2>1 DEF TypeOK, Record
  <2>3. \A m \in Request : m.transfer \in Posts
    BY DEF Request
  <2>4. QED
    BY <2>1, <2>2, <2>3, ElementOfSeq DEF TypeOK
<1>1. NewsIsTrue'
  BY <1>0 DEF IInv, NewsIsTrue
<1>2. NewsInOrder'
  BY DEF IInv, NewsInOrder, NotifierKeeps, QueueKeeps, Keeps
<1>3. QED
  BY <1>1, <1>2

\* The hand-over stays on record: rows keep their transfers, no hand-over gets
\* late, and what the saga has it keeps, or something stopped.
LEMMA HandOverFrame ==
  ASSUME IInv, UNCHANGED <<answer, task, outbox>>, losses' \in {losses, losses + 1},
         \A k \in Keys : transfers[k] # Absent =>
           transfers'[k] # Absent /\ transfers'[k].transfer = transfers[k].transfer,
         \A c \in Posts : HandOver(c) \in late' => HandOver(c) \in late,
         \A c \in Posts : Handed(c) => Handed(c)' \/ losses' > 0,
         \A c \in Posts : Handed(c)' => Handed(c) \/ HandOver(c) \in late
  PROVE  HandOverOnRecord' /\ OutboxTellsTheTruth'
<1>0. /\ KeyOf \in [Posts -> Keys] /\ losses \in Nat
      /\ losses > 0 => losses' > 0
  BY GatewayAssumption DEF IInv, TypeOK
<1>1. \A c \in Posts : /\ Existing(c) # Absent => Existing(c)' # Absent
                       /\ Owns(c) => Owns(c)'
  BY <1>0 DEF Existing, Owns
<1>2. HandOverOnRecord'
  <2> SUFFICES ASSUME NEW c \in Posts
               PROVE  /\ answer'[c] \in {"created", "replayed"} => Existing(c)' # Absent
                      /\ task'[c] # "none" => Owns(c)'
                      /\ task'[c] \in {"sending", "accepted", "refused"} => outbox'[c] # Absent
                      /\ HandOver(c) \in late' => outbox'[c] # Absent /\ Owns(c)'
                      /\ task'[c] = "accepted" => Handed(c)' \/ losses' > 0
    BY DEF HandOverOnRecord, HandOver
  <2>1. /\ answer[c] \in {"created", "replayed"} => Existing(c) # Absent
        /\ task[c] # "none" => Owns(c)
        /\ task[c] \in {"sending", "accepted", "refused"} => outbox[c] # Absent
        /\ HandOver(c) \in late => outbox[c] # Absent /\ Owns(c)
        /\ task[c] = "accepted" => Handed(c) \/ losses > 0
    BY DEF IInv, HandOverOnRecord
  <2>2. QED
    BY <1>0, <1>1, <2>1
<1>3. OutboxTellsTheTruth'
  <2> SUFFICES ASSUME NEW c \in Posts
               PROVE  /\ Handed(c)' => outbox'[c] # Absent /\ Owns(c)'
                      /\ outbox'[c] = "DELIVERED" => Handed(c)' \/ losses' > 0
    BY DEF OutboxTellsTheTruth, Owns
  <2>1. /\ Handed(c) => outbox[c] # Absent /\ Owns(c)
        /\ outbox[c] = "DELIVERED" => Handed(c) \/ losses > 0
        /\ HandOver(c) \in late => outbox[c] # Absent /\ Owns(c)
    BY DEF IInv, OutboxTellsTheTruth, HandOverOnRecord, Owns
  <2>2. QED
    BY <1>0, <1>1, <2>1
<1>4. QED
  BY <1>2, <1>3

\* The browser's reads stay true while the saga goes on.
LEMMA ScreenFrame ==
  ASSUME IInv, SagaGoesOn, UNCHANGED screen
  PROVE  ReadsAreTrue' /\ TheScreenTellsTheOutcome'
<1>1. /\ ReadsAreTrue /\ TheScreenTellsTheOutcome
      /\ finished \subseteq Posts
      /\ screen.state \in {"off", "polling", "stopped"}
  BY DEF IInv, TypeOK
<1>2. ReadsAreTrue'
  BY <1>1 DEF ReadsAreTrue, SagaGoesOn
<1>3. TheScreenTellsTheOutcome'
  BY <1>1 DEF TheScreenTellsTheOutcome, SagaGoesOn
<1>4. QED
  BY <1>2, <1>3

-----------------------------------------------------------------------------
(* POST /transfers and dispatch.                                           *)

\* Where nothing of the saga changes, it keeps its word.
LEMMA SagaRests ==
  ASSUME IInv, UNCHANGED <<stage, finished>>
  PROVE  SagaGoesOn
BY SagaKeepsItsWord DEF IInv

\* A new key: its row says RECIBIDA, which nothing can take back.
LEMMA CreateKeeps ==
  ASSUME IInv, NEW c \in Posts, Create(c)
  PROVE  IInv'
<1> DEFINE k == KeyOf[c]
           row == [transfer |-> c, status |-> "RECIBIDA"]
<1>1. /\ answer[c] = "none" /\ transfers[k] = Absent
      /\ transfers' = [transfers EXCEPT ![k] = row]
      /\ answer' = [answer EXCEPT ![c] = "created"]
      /\ task' = [task EXCEPT ![c] = "queued"]
      /\ UNCHANGED <<request, outbox, accepted, stage, finished, announced, queue, patch,
                     late, screen, timeouts, losses>>
  BY DEF Create, Existing, saga, notifier, bounds
<1>2. k \in Keys /\ row \in Record /\ row # Absent
  BY GatewayAssumption, RecordAssumption DEF Record, PublicStatuses
<1>3. row.transfer = c /\ row.status = "RECIBIDA"
  OBVIOUS
<1> HIDE DEF row, k
<1>4. /\ transfers \in [Keys -> Record \cup {Absent}]
      /\ \A l \in Keys : transfers'[l] = IF l = k THEN row ELSE transfers[l]
  BY <1>1, <1>2 DEF IInv, TypeOK
<1>5. TypeOK' /\ FinishedIsTerminal'
  BY <1>1, <1>2 DEF IInv, TypeOK, FinishedIsTerminal
<1>6. SagaGoesOn
  BY <1>1, SagaRests
<1>7. NewsIsTrue'
  BY <1>1, <1>3, <1>4 DEF IInv, NewsIsTrue, Told
<1>8. NewsInOrder'
  <2>1. \A m : Keeps(m, c, "RECIBIDA")
    BY Ranks DEF Keeps
  <2>2. QED
    BY <1>1, <1>3, <1>4, <2>1 DEF IInv, NewsInOrder, NotifierKeeps, QueueKeeps, Keeps
<1>9. HandOverOnRecord' /\ OutboxTellsTheTruth'
  <2>1. \A d \in Posts : /\ Existing(d) # Absent => Existing(d)' # Absent
                         /\ Owns(d) => Owns(d)'
                         /\ Handed(d)' <=> Handed(d)
    BY <1>1, <1>2, <1>4, GatewayAssumption DEF Existing, Owns, Handed
  <2>2. Existing(c)' # Absent /\ Owns(c)'
    BY <1>2, <1>3, <1>4 DEF Existing, Owns, k
  <2>3. \A d \in Posts : /\ answer'[d] = IF d = c THEN "created" ELSE answer[d]
                         /\ task'[d] = IF d = c THEN "queued" ELSE task[d]
    BY <1>1 DEF IInv, TypeOK
  <2>4. HandOverOnRecord'
    <3> SUFFICES ASSUME NEW d \in Posts
                 PROVE  /\ answer'[d] \in {"created", "replayed"} => Existing(d)' # Absent
                        /\ task'[d] # "none" => Owns(d)'
                        /\ task'[d] \in {"sending", "accepted", "refused"} => outbox'[d] # Absent
                        /\ HandOver(d) \in late' => outbox'[d] # Absent /\ Owns(d)'
                        /\ task'[d] = "accepted" => Handed(d)' \/ losses' > 0
      BY DEF HandOverOnRecord, HandOver
    <3>1. /\ answer[d] \in {"created", "replayed"} => Existing(d) # Absent
          /\ task[d] # "none" => Owns(d)
          /\ task[d] \in {"sending", "accepted", "refused"} => outbox[d] # Absent
          /\ HandOver(d) \in late => outbox[d] # Absent /\ Owns(d)
          /\ task[d] = "accepted" => Handed(d) \/ losses > 0
      BY DEF IInv, HandOverOnRecord
    <3>2. CASE d = c
      BY <1>1, <2>1, <2>2, <2>3, <3>1, <3>2
    <3>3. CASE d # c
      BY <1>1, <2>1, <2>3, <3>1, <3>3
    <3>4. QED
      BY <3>2, <3>3
  <2>5. OutboxTellsTheTruth'
    BY <1>1, <2>1 DEF IInv, OutboxTellsTheTruth, Owns
  <2>6. QED
    BY <2>4, <2>5
<1>10. ReadsAreTrue' /\ TheScreenTellsTheOutcome'
  BY <1>1, <1>6, ScreenFrame
<1>11. QED
  BY <1>5, <1>7, <1>8, <1>9, <1>10 DEF IInv

\* A key that is taken: only the answer is new.
LEMMA RetrieveKeeps ==
  ASSUME IInv, NEW c \in Posts, Retrieve(c)
  PROVE  IInv'
<1>1. /\ Existing(c) # Absent
      /\ UNCHANGED <<request, transfers, task, outbox, accepted, stage, finished, announced,
                     queue, patch, late, screen, timeouts, losses>>
  BY DEF Retrieve, saga, notifier, bounds
<1>2. PICK reply \in {"replayed", "conflict"} : answer' = [answer EXCEPT ![c] = reply]
  BY DEF Retrieve
<1>3. TypeOK' /\ FinishedIsTerminal'
  BY <1>1, <1>2 DEF IInv, TypeOK, FinishedIsTerminal
<1>4. SagaGoesOn
  BY <1>1, SagaRests
<1>5. NewsIsTrue' /\ NewsInOrder'
  BY <1>1, <1>4, NewsFrame
<1>6. HandOverOnRecord' /\ OutboxTellsTheTruth'
  <2>1. \A d \in Posts : answer'[d] = IF d = c THEN reply ELSE answer[d]
    BY <1>2 DEF IInv, TypeOK
  <2>2. HandOverOnRecord'
    BY <1>1, <2>1 DEF IInv, HandOverOnRecord, HandOver, Existing, Owns, Handed
  <2>3. OutboxTellsTheTruth'
    BY <1>1 DEF IInv, OutboxTellsTheTruth, Existing, Handed
  <2>4. QED
    BY <2>2, <2>3
<1>7. ReadsAreTrue' /\ TheScreenTellsTheOutcome'
  BY <1>1, <1>4, ScreenFrame
<1>8. QED
  BY <1>3, <1>5, <1>6, <1>7 DEF IInv

\* The background task: the outbox is written before the hand-over is sent, and
\* marked after it was answered.
LEMMA DispatchKeeps ==
  ASSUME IInv, NEW c \in Posts, Dispatch(c) \/ HandOverFails(c)
  PROVE  IInv'
<1>1. UNCHANGED <<request, transfers, answer, stage, finished, announced, queue, patch,
                  screen, losses>>
  BY DEF Dispatch, RecordOutbox, Accept, MarkOutbox, HandOverFails, saga, notifier, bounds
<1>2. /\ \A m \in late' : m \in late \/ m = HandOver(c)
      /\ \A m \in late' : m.to = "gateway" => m \in late
  BY DEF Dispatch, RecordOutbox, Accept, MarkOutbox, HandOverFails, HandOver
<1>3. TypeOK' /\ FinishedIsTerminal'
  <2>0. HandOver(c) \in Request
    BY DEF HandOver, Request
  <2>1. CASE RecordOutbox(c) \/ MarkOutbox(c)
    BY <1>1, <2>1 DEF IInv, TypeOK, FinishedIsTerminal, RecordOutbox, MarkOutbox,
                      saga, bounds
  <2>2. CASE Accept(c)
    BY <1>1, <2>2 DEF IInv, TypeOK, FinishedIsTerminal, Accept, bounds
  <2>3. CASE HandOverFails(c)
    BY <1>1, <2>0, <2>3, GatewayAssumption
       DEF IInv, TypeOK, FinishedIsTerminal, HandOverFails, MayTimeOut, saga
  <2>4. QED
    BY <2>1, <2>2, <2>3 DEF Dispatch
<1>4. SagaGoesOn
  BY <1>1, SagaRests
<1>5. NewsIsTrue' /\ NewsInOrder'
  BY <1>1, <1>2, <1>4, NewsFrame
<1>6. HandOverOnRecord' /\ OutboxTellsTheTruth'
  <2>0. /\ \A d \in Posts : /\ Existing(d)' = Existing(d) /\ Owns(d)' = Owns(d)
                            /\ HandOver(d) = HandOver(c) => d = c
      /\ Absent \notin {"PENDING", "DELIVERED", "FAILED"}
    BY <1>1, GatewayAssumption DEF Existing, Owns, HandOver
  <2>1. /\ task \in [Posts -> {"none", "queued", "sending", "accepted", "refused", "done"}]
        /\ outbox \in [Posts -> {Absent, "PENDING", "DELIVERED", "FAILED"}]
        /\ HandOverOnRecord /\ OutboxTellsTheTruth
    BY DEF IInv, TypeOK
  <2>2. CASE RecordOutbox(c)
    <3>1. /\ \A d \in Posts : Handed(d)' <=> Handed(d)
          /\ late' = late /\ task[c] = "queued"
          /\ \A d \in Posts : /\ task'[d] = IF d = c THEN "sending" ELSE task[d]
                              /\ outbox'[d] = IF d = c THEN "PENDING" ELSE outbox[d]
      BY <2>1, <2>2 DEF RecordOutbox, Handed, saga
    <3>2. HandOverOnRecord'
      BY <1>1, <2>0, <2>1, <3>1 DEF HandOverOnRecord, HandOver
    <3>3. OutboxTellsTheTruth'
      BY <1>1, <2>0, <2>1, <3>1 DEF OutboxTellsTheTruth
    <3>4. QED
      BY <3>2, <3>3
  <2>3. CASE Accept(c)
    <3>1. /\ \A d \in Posts : Handed(d)' <=> Handed(d) \/ d = c
          /\ late' = late /\ outbox' = outbox /\ task[c] = "sending"
          /\ \A d \in Posts : task'[d] = IF d = c THEN "accepted" ELSE task[d]
      BY <1>1, <2>1, <2>3 DEF Accept, Handed
    <3>2. HandOverOnRecord'
      BY <1>1, <2>0, <2>1, <3>1 DEF HandOverOnRecord, HandOver
    <3>3. outbox[c] # Absent /\ Owns(c)
      BY <2>1, <3>1 DEF HandOverOnRecord
    <3>4. OutboxTellsTheTruth'
      BY <1>1, <2>0, <2>1, <3>1, <3>3 DEF OutboxTellsTheTruth, Owns
    <3>5. QED
      BY <3>2, <3>4
  <2>4. CASE MarkOutbox(c)
    <3>1. /\ \A d \in Posts : Handed(d)' <=> Handed(d)
          /\ late' = late /\ task[c] \in {"accepted", "refused"}
          /\ \A d \in Posts :
               /\ task'[d] = IF d = c THEN "done" ELSE task[d]
               /\ outbox'[d] = IF d # c THEN outbox[d]
                               ELSE IF task[c] = "accepted" THEN "DELIVERED" ELSE "FAILED"
      BY <2>1, <2>4 DEF MarkOutbox, Handed, saga
    <3>2. HandOverOnRecord'
      BY <1>1, <2>0, <2>1, <3>1 DEF HandOverOnRecord, HandOver
    <3>3. OutboxTellsTheTruth'
      BY <1>1, <2>0, <2>1, <3>1 DEF OutboxTellsTheTruth, HandOverOnRecord
    <3>4. QED
      BY <3>2, <3>3
  <2>5. CASE HandOverFails(c)
    <3>1. /\ \A d \in Posts : Handed(d)' <=> Handed(d)
          /\ outbox' = outbox /\ task[c] = "sending" /\ late' = late \cup {HandOver(c)}
          /\ \A d \in Posts : task'[d] = IF d = c THEN "refused" ELSE task[d]
      BY <1>1, <2>1, <2>5 DEF HandOverFails, Handed, saga
    <3>2. outbox[c] # Absent /\ Owns(c)
      BY <2>1, <3>1 DEF HandOverOnRecord
    <3>3. \A d \in Posts : HandOver(d) \in late' => HandOver(d) \in late \/ d = c
      BY <1>2, <2>0
    <3>4. HandOverOnRecord'
      BY <1>1, <2>0, <2>1, <3>1, <3>2, <3>3 DEF HandOverOnRecord, HandOver
    <3>5. OutboxTellsTheTruth'
      BY <1>1, <2>0, <2>1, <3>1 DEF OutboxTellsTheTruth
    <3>6. QED
      BY <3>4, <3>5
  <2>6. QED
    BY <2>2, <2>3, <2>4, <2>5 DEF Dispatch
<1>7. ReadsAreTrue' /\ TheScreenTellsTheOutcome'
  BY <1>1, <1>4, ScreenFrame
<1>8. QED
  BY <1>3, <1>5, <1>6, <1>7 DEF IInv

\* The Gateway stops: a hand-over that was being sent may still arrive.
LEMMA GatewayStopKeeps ==
  ASSUME IInv, GatewayStop
  PROVE  IInv'
<1>1. /\ UNCHANGED <<request, transfers, answer, outbox, accepted, stage, finished, announced,
                     queue, patch, screen, timeouts>>
      /\ losses' = losses + 1
      /\ \A m \in late' : m \in late \/ \E d \in Posts : task[d] = "sending" /\ m = HandOver(d)
      /\ \A d \in Posts : task'[d] = IF task[d] = "none" THEN "none" ELSE "done"
  BY DEF GatewayStop, saga, notifier
<1>2. TypeOK' /\ FinishedIsTerminal'
  <2>1. \A d \in Posts : HandOver(d) \in Request
    BY DEF HandOver, Request
  <2>2. late' \subseteq Request
    BY <1>1, <2>1 DEF IInv, TypeOK
  <2>3. task' \in [Posts -> {"none", "queued", "sending", "accepted", "refused", "done"}]
    BY DEF GatewayStop
  <2>4. losses' \in 0..MaxLosses
    BY GatewayAssumption DEF GatewayStop, MayLose, IInv, TypeOK
  <2>5. QED
    BY <1>1, <2>2, <2>3, <2>4 DEF IInv, TypeOK, FinishedIsTerminal
<1>3. SagaGoesOn
  BY <1>1, SagaRests
<1>4. NewsIsTrue' /\ NewsInOrder'
  <2>1. \A m \in late' : m.to = "gateway" => m \in late
    BY <1>1 DEF HandOver
  <2>2. QED
    BY <1>1, <1>3, <2>1, NewsFrame
<1>5. HandOverOnRecord' /\ OutboxTellsTheTruth'
  <2>1. /\ \A d \in Posts : /\ Existing(d)' = Existing(d) /\ Owns(d)' = Owns(d)
                            /\ Handed(d)' = Handed(d)
                            /\ HandOver(d) \in late' => HandOver(d) \in late \/ task[d] = "sending"
      /\ losses' > 0
    <3>1. \A d, e \in Posts : HandOver(d) = HandOver(e) => d = e
      BY DEF HandOver
    <3>2. QED
      BY <1>1, <3>1 DEF Existing, Owns, Handed, IInv, TypeOK
  <2>2. HandOverOnRecord'
    BY <1>1, <2>1 DEF IInv, HandOverOnRecord, HandOver
  <2>3. OutboxTellsTheTruth'
    BY <1>1, <2>1 DEF IInv, OutboxTellsTheTruth
  <2>4. QED
    BY <2>2, <2>3
<1>6. ReadsAreTrue' /\ TheScreenTellsTheOutcome'
  BY <1>1, <1>3, ScreenFrame
<1>7. QED
  BY <1>2, <1>4, <1>5, <1>6 DEF IInv

-----------------------------------------------------------------------------
(* The saga and its notifier.                                              *)

\* A run begins or goes on.
LEMMA RunKeeps ==
  ASSUME IInv, NEW t \in Posts, Run(t)
  PROVE  IInv'
<1>1. UNCHANGED <<request, transfers, answer, task, outbox, announced, queue, patch,
                  late, screen, timeouts, losses>>
  BY DEF Run, Begin, Proceed, Saga!Begin, Saga!Advance, Saga!Finish, gateway, notifier, bounds
<1>2. SagaGoesOn
  BY SagaKeepsItsWord DEF IInv, Run
<1>3. /\ accepted' \subseteq accepted
      /\ \A c \in accepted : c \in accepted' \/ stage'[c] # Absent
      /\ \A c \in Posts : stage'[c] # Absent => stage[c] # Absent \/ c \in accepted
  <2>0. "PENDING" # Absent
    BY GatewayAssumption
  <2>1. CASE Begin(t)
    BY <2>0, <2>1 DEF Begin, Saga!Begin, IInv, TypeOK
  <2>2. CASE Proceed(t)
    BY <2>2 DEF Proceed, Saga!Advance, Saga!Finish, Saga!Running, IInv, TypeOK
  <2>3. QED
    BY <2>1, <2>2 DEF Run
<1>4. TypeOK' /\ FinishedIsTerminal'
  BY <1>1, <1>2, <1>3 DEF IInv, TypeOK, SagaGoesOn
<1>5. NewsIsTrue' /\ NewsInOrder'
  BY <1>1, <1>2, NewsFrame
<1>6. HandOverOnRecord' /\ OutboxTellsTheTruth'
  <2>1. \A c \in Posts : Handed(c)' <=> Handed(c)
    BY <1>2, <1>3 DEF Handed, SagaGoesOn
  <2>2. QED
    BY <1>1, <2>1, HandOverFrame
<1>7. ReadsAreTrue' /\ TheScreenTellsTheOutcome'
  BY <1>1, <1>2, ScreenFrame
<1>8. QED
  BY <1>4, <1>5, <1>6, <1>7 DEF IInv

\* What changes only the notifier keeps the hand-over and the screen.
LEMMA NotifierFrame ==
  ASSUME IInv, UNCHANGED <<request, answer, task, outbox, accepted, stage, finished, screen, losses>>,
         \A k \in Keys : transfers[k] # Absent =>
           transfers'[k] # Absent /\ transfers'[k].transfer = transfers[k].transfer,
         \A m \in late' : m.to = "saga" => m \in late
  PROVE  /\ FinishedIsTerminal' /\ SagaGoesOn
         /\ HandOverOnRecord' /\ OutboxTellsTheTruth'
         /\ ReadsAreTrue' /\ TheScreenTellsTheOutcome'
<1>1. SagaGoesOn
  BY SagaRests
<1>2. ReadsAreTrue' /\ TheScreenTellsTheOutcome'
  BY <1>1, ScreenFrame
<1>3. \A c \in Posts : Handed(c)' <=> Handed(c)
  BY DEF Handed
<1>4. \A c \in Posts : HandOver(c) \in late' => HandOver(c) \in late
  BY DEF HandOver
<1>5. HandOverOnRecord' /\ OutboxTellsTheTruth'
  BY <1>3, <1>4, HandOverFrame
<1>6. QED
  BY <1>1, <1>2, <1>5 DEF SagaGoesOn

\* A new PATCH goes behind all the others and says what the saga says now.
LEMMA TellKeeps ==
  ASSUME IInv, NEW t \in Posts, Tell(t)
  PROVE  IInv'
<1> DEFINE news == Patch(t, GatewayStatus(stage[t]))
<1>1. /\ UNCHANGED <<request, transfers, answer, task, outbox, accepted, stage, finished,
                     patch, late, screen, timeouts, losses>>
      /\ stage[t] # Absent /\ (stage[t] \in TerminalStatuses => t \in finished)
      /\ announced' = [announced EXCEPT ![t] = GatewayStatus(stage[t])]
      /\ queue' = Append(queue, news)
  <2>1. announced' = [announced EXCEPT ![t] = GatewayStatus(stage[t])]
    BY SameVocabulary DEF Tell, Saga!Announce
  <2>2. announced'[t] = GatewayStatus(stage[t])
    BY <2>1 DEF IInv, TypeOK
  <2>3. queue' = Append(queue, news)
    BY <2>2 DEF Tell
  <2>4. QED
    BY <2>1, <2>3, SameVocabulary DEF Tell, Saga!Announce, gateway, bounds
<1>2. TypeOK
  BY DEF IInv
<1>3. news \in Request /\ GatewayStatus(stage[t]) \in PublicStatuses
  BY Names DEF Request, Patch
<1>4. news.to = "gateway" /\ news.transfer = t /\ news.status = GatewayStatus(stage[t])
  BY DEF Patch
<1>5. Told(t, news.status)
  <2>1. stage[t] \in SagaStatuses
    BY <1>1, <1>2, GatewayAssumption DEF TypeOK
  <2>2. news.status \notin {"NONE", "RECIBIDA"}
    BY <1>4, Names DEF PublicStatuses
  <2>3. QED
    BY <1>1, <1>4, <2>1, <2>2, Names DEF Told
<1> HIDE DEF news
<1>6. /\ queue' \in Seq(Request) /\ Len(queue') = Len(queue) + 1 /\ Len(queue) \in Nat
      /\ \A i \in 1..Len(queue) : queue'[i] = queue[i] /\ queue[i] \in Request
      /\ queue'[Len(queue) + 1] = news
  <2>1. queue \in Seq(Request)
    BY <1>2 DEF TypeOK
  <2>2. QED
    BY <1>1, <1>3, <2>1, AppendProperties, LenProperties, ElementOfSeq
<1>7. TypeOK'
  BY <1>1, <1>2, <1>3, <1>6 DEF TypeOK
<1>8. NewsIsTrue'
  BY <1>1, <1>4, <1>5, <1>6 DEF IInv, NewsIsTrue, Told
<1>9. NewsInOrder'
  <2>1. \A status \in PublicStatuses : Told(t, status) => Rank(status) <= Rank(news.status)
    BY <1>2, <1>4, TellingGoesOn
  <2>2. \A status \in PublicStatuses, u \in Posts :
          status = "RECIBIDA" \/ Told(u, status) => Keeps(news, u, status)
    BY <1>4, <2>1, Ranks DEF Keeps
  <2>3. \A k \in Keys : transfers[k] # Absent =>
          /\ transfers[k].status \in PublicStatuses /\ transfers[k].transfer \in Posts
          /\ Keeps(news, transfers[k].transfer, transfers[k].status)
    BY <1>2, <2>2 DEF TypeOK, Record, IInv, NewsIsTrue
  <2>4. \A m \in Request : m.to = "gateway" => m.status \in PublicStatuses /\ m.transfer \in Posts
    BY DEF Request
  <2>5. \A m \in late : m.to = "gateway" => Keeps(news, m.transfer, m.status)
    BY <1>2, <2>2, <2>4 DEF TypeOK, IInv, NewsIsTrue
  <2>6. patch # Absent => Keeps(news, patch.transfer, patch.status)
    BY <1>2, <2>2, <2>4 DEF TypeOK, IInv, NewsIsTrue
  <2>7. \A i \in 1..Len(queue) : Keeps(news, queue[i].transfer, queue[i].status)
    BY <1>6, <2>2, <2>4 DEF IInv, NewsIsTrue
  <2>8. \A u, status : QueueKeeps(u, status) /\ Keeps(news, u, status) => QueueKeeps(u, status)'
    BY <1>6 DEF QueueKeeps, Keeps
  <2>9. \A u, status : NotifierKeeps(u, status) /\ Keeps(news, u, status)
          => NotifierKeeps(u, status)'
    BY <1>1, <2>8 DEF NotifierKeeps, Keeps
  <2>10. \A i, j \in 1..Len(queue') : i < j =>
           Keeps(queue'[j], queue'[i].transfer, queue'[i].status)
    <3> SUFFICES ASSUME NEW i \in 1..Len(queue'), NEW j \in 1..Len(queue'), i < j
                 PROVE  Keeps(queue'[j], queue'[i].transfer, queue'[i].status)
      OBVIOUS
    <3>1. i \in 1..Len(queue) /\ queue'[i] = queue[i]
      BY <1>6
    <3>2. CASE j \in 1..Len(queue)
      BY <1>6, <3>1, <3>2 DEF IInv, NewsInOrder
    <3>3. CASE j = Len(queue) + 1
      BY <1>6, <2>7, <3>1, <3>3
    <3>4. QED
      BY <1>6, <3>2, <3>3
  <2>11. QED
    BY <1>1, <2>3, <2>5, <2>6, <2>8, <2>9, <2>10 DEF IInv, NewsInOrder, Keeps
<1>10. QED
  BY <1>1, <1>7, <1>8, <1>9, NotifierFrame DEF IInv

\* The notifier takes the first of its PATCHes; the others keep their order.
LEMMA TakesTheFirst ==
  ASSUME TypeOK, SendPatch
  PROVE  /\ queue' \in Seq(Request) /\ patch' \in Request /\ patch' = queue[1]
         /\ Len(queue) \in Nat \ {0} /\ Len(queue') = Len(queue) - 1
         /\ \A i \in 1..Len(queue') : queue'[i] = queue[i + 1]
<1>1. queue \in Seq(Request) /\ queue # <<>> /\ patch' = queue[1]
  BY DEF TypeOK, SendPatch, NextTask
<1>2. Len(queue) \in Nat \ {0}
  BY <1>1, EmptySeq
<1>3. queue' = SubSeq(queue, 1, 0) \o SubSeq(queue, 2, Len(queue))
  BY DEF SendPatch, NextTask
<1>4. SubSeq(queue, 1, 0) = <<>>
  BY <1>1, SubSeqEmpty
<1>5. \A i \in 1..Len(queue) : queue[i] \in Request
  BY <1>1, ElementOfSeq
<1>6. /\ SubSeq(queue, 2, Len(queue)) \in Seq(Request)
      /\ Len(SubSeq(queue, 2, Len(queue))) = Len(queue) - 1
      /\ \A i \in 1..Len(queue) - 1 : SubSeq(queue, 2, Len(queue))[i] = queue[i + 1]
  <2>1. CASE Len(queue) = 1
    <3>1. SubSeq(queue, 2, Len(queue)) = <<>>
      BY <1>1, <2>1, SubSeqEmpty
    <3>2. QED
      BY <2>1, <3>1, EmptySeq
  <2>2. CASE Len(queue) > 1
    <3>1. /\ SubSeq(queue, 2, Len(queue)) \in Seq(Request)
          /\ Len(SubSeq(queue, 2, Len(queue)))
               = IF 2 <= Len(queue) THEN Len(queue) - 2 + 1 ELSE 0
          /\ \A i \in 1..Len(queue) - 2 + 1 :
               SubSeq(queue, 2, Len(queue))[i] = queue[2 + i - 1]
      BY <1>1, <1>2, <1>5, SubSeqProperties
    <3>2. QED
      BY <1>2, <2>2, <3>1
  <2>3. \A n \in Nat \ {0} : n = 1 \/ n > 1
    OBVIOUS
  <2>4. QED
    BY <1>2, <2>1, <2>2, <2>3
<1>7. queue' = SubSeq(queue, 2, Len(queue))
  BY <1>3, <1>4, <1>6, ConcatEmptySeq
<1>8. QED
  BY <1>1, <1>2, <1>5, <1>6, <1>7

\* The first PATCH is sent.
LEMMA SendPatchKeeps ==
  ASSUME IInv, SendPatch
  PROVE  IInv'
<1>1. /\ UNCHANGED <<request, transfers, answer, task, outbox, accepted, stage, finished,
                     announced, late, screen, timeouts, losses>>
      /\ patch = Absent
  BY DEF SendPatch, gateway, saga, bounds
<1>2. TypeOK
  BY DEF IInv
<1>3. /\ queue' \in Seq(Request) /\ patch' \in Request /\ patch' = queue[1]
      /\ Len(queue) \in Nat \ {0} /\ Len(queue') = Len(queue) - 1
      /\ \A i \in 1..Len(queue') : queue'[i] = queue[i + 1]
  BY <1>2, TakesTheFirst
<1>4. TypeOK'
  BY <1>1, <1>2, <1>3 DEF TypeOK
<1>5. /\ 1 \in 1..Len(queue)
      /\ \A i \in 1..Len(queue') : i + 1 \in 1..Len(queue) /\ i + 1 > 1
  BY <1>3
<1>6. NewsIsTrue'
  BY <1>1, <1>3, <1>5 DEF IInv, NewsIsTrue, Told
<1>7. NewsInOrder'
  <2>1. \A t, status : QueueKeeps(t, status) =>
          QueueKeeps(t, status)' /\ Keeps(patch', t, status)
    BY <1>3, <1>5 DEF QueueKeeps, Keeps
  <2>2. \A t, status : NotifierKeeps(t, status) => NotifierKeeps(t, status)'
    BY <2>1 DEF NotifierKeeps, Keeps
  <2>3. QueueKeeps(patch.transfer, patch.status)'
    BY <1>3, <1>5 DEF IInv, NewsInOrder, QueueKeeps, Keeps
  <2>4. \A i, j \in 1..Len(queue') : i < j =>
          Keeps(queue'[j], queue'[i].transfer, queue'[i].status)
    <3> SUFFICES ASSUME NEW i \in 1..Len(queue'), NEW j \in 1..Len(queue'), i < j
                 PROVE  Keeps(queue'[j], queue'[i].transfer, queue'[i].status)
      OBVIOUS
    <3>1. i + 1 \in 1..Len(queue) /\ j + 1 \in 1..Len(queue) /\ i + 1 < j + 1
      BY <1>3, <1>5
    <3>2. QED
      BY <1>3, <3>1 DEF IInv, NewsInOrder
  <2>5. QED
    BY <1>1, <2>2, <2>3, <2>4 DEF IInv, NewsInOrder, Keeps
<1>8. QED
  BY <1>1, <1>4, <1>6, <1>7, NotifierFrame DEF IInv

\* What update_status does to the rows.
LEMMA UpdatesOnlyTheStatus ==
  ASSUME TypeOK, NEW m, m.transfer \in Posts, m.status \in PublicStatuses, UpdateStatus(m)
  PROVE  /\ transfers' \in [Keys -> Record \cup {Absent}]
         /\ \A k \in Keys : transfers'[k] # Absent <=> transfers[k] # Absent
         /\ \A k \in Keys : transfers[k] # Absent =>
              /\ transfers[k] \in Record
              /\ transfers'[k].transfer = transfers[k].transfer
              /\ transfers'[k].status =
                   IF transfers[k].transfer = m.transfer THEN m.status ELSE transfers[k].status
<1> SUFFICES ASSUME NEW k \in Keys
             PROVE  /\ transfers'[k] \in Record \cup {Absent}
                    /\ transfers'[k] # Absent <=> transfers[k] # Absent
                    /\ transfers[k] # Absent =>
                         /\ transfers[k] \in Record
                         /\ transfers'[k].transfer = transfers[k].transfer
                         /\ transfers'[k].status =
                              IF transfers[k].transfer = m.transfer
                              THEN m.status ELSE transfers[k].status
  BY DEF UpdateStatus
<1>1. transfers[k] \in Record \cup {Absent}
  BY DEF TypeOK
<1>2. CASE transfers[k] # Absent /\ transfers[k].transfer = m.transfer
  <2>1. transfers'[k] = [transfers[k] EXCEPT !.status = m.status]
    BY <1>2 DEF UpdateStatus
  <2>2. transfers[k] \in Record
    BY <1>1, <1>2
  <2>3. /\ transfers'[k] \in Record /\ transfers'[k].status = m.status
        /\ transfers'[k].transfer = transfers[k].transfer
    BY <2>1, <2>2 DEF Record
  <2>4. QED
    BY <1>2, <2>2, <2>3, RecordAssumption
<1>3. CASE ~(transfers[k] # Absent /\ transfers[k].transfer = m.transfer)
  BY <1>1, <1>3 DEF UpdateStatus
<1>4. QED
  BY <1>2, <1>3

\* The Gateway executes a PATCH; nobody the notifier still holds is behind it.
LEMMA PatchAnsweredKeeps ==
  ASSUME IInv, PatchAnswered
  PROVE  IInv'
<1>1. /\ UNCHANGED <<request, answer, task, outbox, accepted, stage, finished,
                     announced, queue, late, screen, timeouts, losses>>
      /\ patch # Absent /\ patch' = Absent
  BY DEF PatchAnswered, saga, bounds
<1>2. TypeOK
  BY DEF IInv
<1>3. /\ patch.to = "gateway" /\ Told(patch.transfer, patch.status)
      /\ patch.transfer \in Posts /\ patch.status \in PublicStatuses
  BY <1>1, <1>2 DEF IInv, NewsIsTrue, TypeOK, Request
<1>4. PICK m : m = patch
  OBVIOUS
<1>5. /\ transfers' \in [Keys -> Record \cup {Absent}]
      /\ \A k \in Keys : transfers'[k] # Absent <=> transfers[k] # Absent
      /\ \A k \in Keys : transfers[k] # Absent =>
           /\ transfers[k] \in Record
           /\ transfers'[k].transfer = transfers[k].transfer
           /\ transfers'[k].status =
                IF transfers[k].transfer = m.transfer THEN m.status ELSE transfers[k].status
  BY <1>2, <1>3, <1>4, UpdatesOnlyTheStatus DEF PatchAnswered
<1>6. TypeOK'
  BY <1>1, <1>2, <1>5 DEF TypeOK
<1>7. NewsIsTrue'
  BY <1>1, <1>3, <1>4, <1>5 DEF IInv, NewsIsTrue, Told
<1>8. NewsInOrder'
  <2>1. \A t, status : QueueKeeps(t, status) => NotifierKeeps(t, status)'
    BY <1>1 DEF NotifierKeeps, QueueKeeps
  <2>2. \A t, status : NotifierKeeps(t, status) => NotifierKeeps(t, status)'
    BY <2>1 DEF NotifierKeeps
  <2>3. QueueKeeps(m.transfer, m.status)
    BY <1>1, <1>4 DEF IInv, NewsInOrder
  <2>4. QED
    BY <1>1, <1>5, <2>1, <2>2, <2>3 DEF IInv, NewsInOrder, Keeps
<1>9. QED
  BY <1>1, <1>5, <1>6, <1>7, <1>8, NotifierFrame DEF IInv

\* A PATCH the notifier gave up on is behind those it still holds.
LEMMA PatchFailsKeeps ==
  ASSUME IInv, PatchFails
  PROVE  IInv'
<1>1. /\ UNCHANGED <<request, transfers, answer, task, outbox, accepted, stage, finished,
                     announced, queue, screen, losses>>
      /\ patch # Absent /\ patch' = Absent /\ late' = late \cup {patch}
      /\ timeouts' = timeouts + 1 /\ timeouts < MaxTimeouts
  BY DEF PatchFails, gateway, saga, MayTimeOut
<1>2. TypeOK
  BY DEF IInv
<1>3. TypeOK'
  BY <1>1, <1>2, GatewayAssumption DEF TypeOK
<1>4. patch.to = "gateway" /\ Told(patch.transfer, patch.status)
  BY <1>1 DEF IInv, NewsIsTrue
<1>5. NewsIsTrue'
  BY <1>1, <1>4 DEF IInv, NewsIsTrue, Told
<1>6. NewsInOrder'
  <2>1. \A t, status : QueueKeeps(t, status) => NotifierKeeps(t, status)'
    BY <1>1 DEF NotifierKeeps, QueueKeeps
  <2>2. QueueKeeps(patch.transfer, patch.status)
    BY <1>1 DEF IInv, NewsInOrder
  <2>3. QED
    BY <1>1, <2>1, <2>2 DEF IInv, NewsInOrder, NotifierKeeps, Keeps
<1>7. \A m \in late' : m.to = "saga" => m \in late
  BY <1>1, <1>4
<1>8. QED
  BY <1>1, <1>3, <1>5, <1>6, <1>7, NotifierFrame DEF IInv

\* The saga stops: the notifier forgets its PATCHes, the one it had sent may
\* still arrive, alone.
LEMMA SagaStopKeeps ==
  ASSUME IInv, SagaStop
  PROVE  IInv'
<1>1. /\ UNCHANGED <<request, transfers, answer, task, outbox, stage, finished, announced,
                     screen, timeouts>>
      /\ accepted' \subseteq accepted /\ queue' = <<>> /\ patch' = Absent
      /\ late' = IF patch = Absent THEN late ELSE late \cup {patch}
      /\ losses' = losses + 1 /\ losses < MaxLosses
  BY DEF SagaStop, gateway, MayLose
<1>2. TypeOK
  BY DEF IInv
<1>3. queue' \in Seq(Request) /\ 1..Len(queue') = {}
  BY <1>1, EmptySeq
<1>4. TypeOK'
  BY <1>1, <1>2, <1>3, GatewayAssumption DEF TypeOK
<1>5. SagaGoesOn
  BY <1>1, SagaRests
<1>6. NewsIsTrue'
  BY <1>1, <1>3 DEF IInv, NewsIsTrue, Told
<1>7. NewsInOrder'
  BY <1>1, <1>3 DEF NewsInOrder, NotifierKeeps, QueueKeeps
<1>8. HandOverOnRecord' /\ OutboxTellsTheTruth'
  <2>1. \A c \in Posts : HandOver(c) \in late' => HandOver(c) \in late
    BY <1>1 DEF HandOver, IInv, NewsIsTrue
  <2>2. losses' > 0 /\ \A c \in Posts : Handed(c)' => Handed(c)
    BY <1>1, <1>2 DEF Handed, TypeOK
  <2>3. QED
    BY <1>1, <2>1, <2>2, HandOverFrame
<1>9. ReadsAreTrue' /\ TheScreenTellsTheOutcome'
  BY <1>1, <1>5, ScreenFrame
<1>10. QED
  BY <1>4, <1>5, <1>6, <1>7, <1>8, <1>9 DEF IInv, SagaGoesOn

\* A run dies: its row, its PATCHes and what was read of it stay what they are.
LEMMA RunDiesKeeps ==
  ASSUME IInv, NEW t \in Posts, RunDies(t)
  PROVE  IInv'
<1>1. /\ UNCHANGED <<request, transfers, answer, task, outbox, stage, finished, announced,
                     queue, patch, late, screen, timeouts>>
      /\ accepted' \subseteq accepted
      /\ losses' = losses + 1 /\ losses < MaxLosses
  BY DEF RunDies, gateway, notifier, MayLose
<1>2. SagaGoesOn
  BY <1>1, SagaRests
<1>3. TypeOK' /\ FinishedIsTerminal'
  BY <1>1, GatewayAssumption DEF IInv, TypeOK, FinishedIsTerminal
<1>4. NewsIsTrue' /\ NewsInOrder'
  BY <1>1, <1>2, NewsFrame
<1>5. HandOverOnRecord' /\ OutboxTellsTheTruth'
  <2>1. losses' > 0 /\ \A c \in Posts : Handed(c)' => Handed(c)
    BY <1>1 DEF Handed, IInv, TypeOK
  <2>2. QED
    BY <1>1, <2>1, HandOverFrame
<1>6. ReadsAreTrue' /\ TheScreenTellsTheOutcome'
  BY <1>1, <1>2, ScreenFrame
<1>7. QED
  BY <1>3, <1>4, <1>5, <1>6 DEF IInv

-----------------------------------------------------------------------------
(* Late requests and the browser.                                          *)

\* A late hand-over was on record, and a late PATCH tells nothing but the truth,
\* however old it is.
LEMMA ExecuteLateKeeps ==
  ASSUME IInv, NEW m \in late, ExecuteLate(m)
  PROVE  IInv'
<1>1. /\ UNCHANGED <<request, answer, task, outbox, stage, finished, announced, queue,
                     patch, screen, timeouts, losses>>
      /\ late' = late \ {m}
  BY DEF ExecuteLate, notifier, bounds
<1>2. TypeOK /\ m \in Request
  BY DEF IInv, TypeOK
<1>3. SagaGoesOn
  BY <1>1, SagaRests
<1>4. CASE m.to = "saga"
  <2>1. UNCHANGED transfers /\ accepted' = accepted \cup {m.transfer}
    BY <1>4 DEF ExecuteLate
  <2>2. m.transfer \in Posts /\ m = HandOver(m.transfer)
    BY <1>2, <1>4 DEF Request, HandOver
  <2>3. TypeOK'
    BY <1>1, <1>2, <2>1, <2>2 DEF TypeOK
  <2>4. NewsIsTrue' /\ NewsInOrder'
    BY <1>1, <1>3, <2>1, NewsFrame
  <2>5. HandOverOnRecord' /\ OutboxTellsTheTruth'
    <3>1. \A c \in Posts : Handed(c)' => Handed(c) \/ HandOver(c) \in late
      BY <1>1, <2>1, <2>2 DEF Handed
    <3>2. \A c \in Posts : Handed(c) => Handed(c)'
      BY <1>1, <2>1 DEF Handed
    <3>3. QED
      BY <1>1, <2>1, <3>1, <3>2, HandOverFrame
  <2>6. ReadsAreTrue' /\ TheScreenTellsTheOutcome'
    BY <1>1, <1>3, ScreenFrame
  <2>7. QED
    BY <1>3, <2>3, <2>4, <2>5, <2>6 DEF IInv, SagaGoesOn
<1>5. CASE m.to = "gateway"
  <2>1. UpdateStatus(m) /\ UNCHANGED accepted
    BY <1>5 DEF ExecuteLate
  <2>2. /\ m.transfer \in Posts /\ m.status \in PublicStatuses
        /\ Told(m.transfer, m.status) /\ NotifierKeeps(m.transfer, m.status)
    BY <1>2, <1>5 DEF Request, IInv, NewsIsTrue, NewsInOrder
  <2>3. /\ transfers' \in [Keys -> Record \cup {Absent}]
        /\ \A k \in Keys : transfers'[k] # Absent <=> transfers[k] # Absent
        /\ \A k \in Keys : transfers[k] # Absent =>
             /\ transfers[k] \in Record
             /\ transfers'[k].transfer = transfers[k].transfer
             /\ transfers'[k].status =
                  IF transfers[k].transfer = m.transfer THEN m.status ELSE transfers[k].status
    BY <1>2, <2>1, <2>2, UpdatesOnlyTheStatus
  <2>4. TypeOK'
    BY <1>1, <1>2, <2>1, <2>3 DEF TypeOK
  <2>5. NewsIsTrue'
    BY <1>1, <2>2, <2>3 DEF IInv, NewsIsTrue, Told
  <2>6. NewsInOrder'
    BY <1>1, <2>2, <2>3 DEF IInv, NewsInOrder, NotifierKeeps, QueueKeeps, Keeps
  <2>7. QED
    BY <1>1, <2>1, <2>3, <2>4, <2>5, <2>6, NotifierFrame DEF IInv
<1>6. QED
  BY <1>4, <1>5 DEF ExecuteLate

\* What the browser alone changes leaves the rest as it was.
LEMMA BrowserFrame ==
  ASSUME IInv, UNCHANGED <<request, transfers, answer, task, outbox, accepted, stage, finished,
                           announced, queue, patch, late, timeouts>>,
         losses' \in {losses, losses + 1}, losses' <= MaxLosses,
         \/ screen' = screen
         \/ /\ screen'.state \in {"off", "polling", "stopped"}
            /\ screen'.transfer \in Posts \cup {Absent}
            /\ screen'.public \in PublicStatuses \cup {"NONE"}
            /\ screen'.trace \in PublicStatuses \cup {"NONE", "OPEN"}
            /\ screen'.shown \in PublicStatuses \cup {"NONE"}
            /\ screen' = [state |-> screen'.state, transfer |-> screen'.transfer,
                          public |-> screen'.public, trace |-> screen'.trace,
                          shown |-> screen'.shown]
            /\ ReadsAreTrue' /\ TheScreenTellsTheOutcome'
  PROVE  IInv'
<1>1. TypeOK'
  <2>1. screen' \in [state : {"off", "polling", "stopped"}, transfer : Posts \cup {Absent},
                     public : PublicStatuses \cup {"NONE"},
                     trace : PublicStatuses \cup {"NONE", "OPEN"},
                     shown : PublicStatuses \cup {"NONE"}]
    BY DEF IInv, TypeOK
  <2>2. losses' \in 0..MaxLosses
    BY GatewayAssumption DEF IInv, TypeOK
  <2>3. QED
    BY <2>1, <2>2 DEF IInv, TypeOK
<1>2. SagaGoesOn
  BY SagaRests
<1>3. NewsIsTrue' /\ NewsInOrder'
  BY <1>2, NewsFrame
<1>4. \A c \in Posts : Handed(c)' <=> Handed(c)
  BY DEF Handed
<1>5. HandOverOnRecord' /\ OutboxTellsTheTruth'
  BY <1>4, HandOverFrame
<1>6. ReadsAreTrue' /\ TheScreenTellsTheOutcome'
  BY <1>2, ScreenFrame
<1>7. QED
  BY <1>1, <1>2, <1>3, <1>5, <1>6 DEF IInv, SagaGoesOn

\* Browsing: a poll starts, reads the row or the trace, fails to, or shows what
\* it has; an outcome of the trace is final, and one of the row is true.
LEMMA BrowseKeeps ==
  ASSUME IInv, (\E c \in Posts : StartPolling(c)) \/ Poll \/ ReadFails
  PROVE  IInv'
<1>1. /\ UNCHANGED <<request, transfers, answer, task, outbox, accepted, stage, finished,
                     announced, queue, patch, late, timeouts>>
      /\ losses' \in {losses, losses + 1} /\ losses' <= MaxLosses
  <2>1. losses \in Nat /\ losses <= MaxLosses /\ MaxLosses \in Nat
    BY GatewayAssumption DEF IInv, TypeOK
  <2>2. QED
    BY <2>1 DEF StartPolling, Poll, ReadPublic, ReadTrace, Show, ReadFails, MayLose,
                gateway, saga, notifier, bounds
<1>2. /\ screen.state \in {"off", "polling", "stopped"}
      /\ screen.transfer \in Posts \cup {Absent}
      /\ screen.public \in PublicStatuses \cup {"NONE"}
      /\ screen.trace \in PublicStatuses \cup {"NONE", "OPEN"}
      /\ screen.shown \in PublicStatuses \cup {"NONE"}
      /\ screen = [state |-> screen.state, transfer |-> screen.transfer,
                   public |-> screen.public, trace |-> screen.trace, shown |-> screen.shown]
  BY DEF IInv, TypeOK
<1>3. ReadsAreTrue /\ TheScreenTellsTheOutcome
  BY DEF IInv
<1>4. \A t, status : Told(t, status)' <=> Told(t, status)
  BY <1>1 DEF Told
<1>5. ASSUME NEW c \in Posts, StartPolling(c)
      PROVE  IInv'
  <2>1. Existing(c).transfer \in Posts
    <3>1. Existing(c) # Absent
      BY <1>5 DEF StartPolling, IInv, HandOverOnRecord
    <3>2. Existing(c) \in Record
      BY <3>1, GatewayAssumption DEF Existing, IInv, TypeOK
    <3>3. QED
      BY <3>2 DEF Record
  <2>2. screen' = [state |-> "polling", transfer |-> Existing(c).transfer,
                   public |-> "NONE", trace |-> "NONE", shown |-> "NONE"]
    BY <1>5 DEF StartPolling, Unread
  <2>3. ReadsAreTrue' /\ TheScreenTellsTheOutcome'
    BY <2>1, <2>2 DEF ReadsAreTrue, TheScreenTellsTheOutcome
  <2>4. QED
    BY <1>1, <2>1, <2>2, <2>3, BrowserFrame
<1>6. CASE ReadPublic
  <2>1. PICK k \in Keys : /\ transfers[k] # Absent /\ transfers[k].transfer = screen.transfer
                          /\ screen' = [screen EXCEPT !.public = transfers[k].status]
    BY <1>6 DEF ReadPublic
  <2>2. screen.state = "polling"
    BY <1>6 DEF ReadPublic, Polling
  <2>3. transfers[k].status \in PublicStatuses
    BY <2>1 DEF IInv, TypeOK, Record
  <2>4. transfers[k].status = "RECIBIDA" \/ Told(screen.transfer, transfers[k].status)
    BY <2>1 DEF IInv, NewsIsTrue
  <2>5. screen' = [state |-> "polling", transfer |-> screen.transfer,
                   public |-> transfers[k].status, trace |-> screen.trace,
                   shown |-> screen.shown]
    BY <1>2, <2>1, <2>2
  <2>6. ReadsAreTrue' /\ TheScreenTellsTheOutcome'
    BY <1>1, <1>3, <1>4, <2>2, <2>4, <2>5 DEF ReadsAreTrue, TheScreenTellsTheOutcome
  <2>7. QED
    BY <1>1, <1>2, <2>3, <2>5, <2>6, BrowserFrame
<1>7. CASE ReadTrace
  <2>1. screen.state = "polling" /\ screen' = [screen EXCEPT !.trace = Outcome(screen.transfer)]
    BY <1>7 DEF ReadTrace, Polling
  <2>2. PICK trace : trace = Outcome(screen.transfer)
    OBVIOUS
  <2>3. /\ trace \in PublicStatuses \cup {"OPEN"}
        /\ trace # "OPEN" => screen.transfer \in finished
                             /\ trace = GatewayStatus(stage[screen.transfer])
    BY <2>2, Names DEF Outcome
  <2>4. screen' = [state |-> "polling", transfer |-> screen.transfer,
                   public |-> screen.public, trace |-> trace, shown |-> screen.shown]
    BY <1>2, <2>1, <2>2
  <2>5. ReadsAreTrue' /\ TheScreenTellsTheOutcome'
    BY <1>1, <1>3, <1>4, <2>1, <2>3, <2>4 DEF ReadsAreTrue, TheScreenTellsTheOutcome
  <2>6. QED
    BY <1>1, <1>2, <2>3, <2>4, <2>5, BrowserFrame
<1>8. CASE ReadFails
  <2>1. /\ screen.state = "polling"
        /\ \/ screen' = [screen EXCEPT !.trace = "OPEN"]
           \/ screen' = [screen EXCEPT !.public = "NONE", !.trace = "NONE"]
    BY <1>8 DEF ReadFails, Polling, Again
  <2>2. PICK public \in {screen.public, "NONE"}, trace \in {"OPEN", "NONE"} :
          screen' = [state |-> "polling", transfer |-> screen.transfer,
                     public |-> public, trace |-> trace, shown |-> screen.shown]
    BY <1>2, <2>1
  <2>3. ReadsAreTrue' /\ TheScreenTellsTheOutcome'
    BY <1>1, <1>3, <1>4, <2>1, <2>2 DEF ReadsAreTrue, TheScreenTellsTheOutcome
  <2>4. QED
    BY <1>1, <1>2, <2>2, <2>3, BrowserFrame
<1>9. CASE Show
  <2> DEFINE estado == Estado(screen.public, screen.trace)
             over == screen.trace # "OPEN" \/ estado \in FinalPublicStatuses
  <2>1. /\ screen.state = "polling" /\ screen.public # "NONE" /\ screen.trace # "NONE"
        /\ screen' = IF over THEN [Again EXCEPT !.state = "stopped", !.shown = estado] ELSE Again
    BY <1>9 DEF Show, Polling
  <2>0. screen.state = "polling" /\ screen.transfer \in Posts
    BY <1>3, <2>1 DEF ReadsAreTrue
  <2> HIDE DEF estado, over
  <2>2. CASE over
    <3>1. PICK shown : shown = estado
      OBVIOUS
    <3>2. screen.transfer \in finished /\ shown = GatewayStatus(stage[screen.transfer])
      <4>1. CASE screen.trace # "OPEN"
        BY <1>3, <2>1, <3>1, <4>1 DEF Estado, ReadsAreTrue, estado
      <4>2. CASE screen.trace = "OPEN"
        <5>1. shown = screen.public /\ shown \in FinalPublicStatuses
          BY <2>2, <3>1, <4>2 DEF Estado, estado, over
        <5>2. shown # "RECIBIDA" /\ shown # "NONE"
          BY <5>1, Ranks
        <5>3. Told(screen.transfer, shown)
          BY <1>3, <5>1, <5>2 DEF ReadsAreTrue
        <5>4. QED
          BY <5>1, <5>3 DEF Told
      <4>3. QED
        BY <4>1, <4>2
    <3>3. screen' = [state |-> "stopped", transfer |-> screen.transfer,
                     public |-> "NONE", trace |-> "NONE", shown |-> shown]
      BY <1>2, <2>1, <2>2, <3>1 DEF Again
    <3>4. ReadsAreTrue' /\ TheScreenTellsTheOutcome'
      BY <1>1, <2>0, <3>2, <3>3 DEF ReadsAreTrue, TheScreenTellsTheOutcome
    <3>5. shown \in PublicStatuses
      BY <3>2, Names
    <3>6. QED
      BY <1>1, <1>2, <3>3, <3>4, <3>5, BrowserFrame
  <2>3. CASE ~over
    <3>1. screen' = [state |-> "polling", transfer |-> screen.transfer,
                     public |-> "NONE", trace |-> "NONE", shown |-> screen.shown]
      BY <1>2, <2>1, <2>3 DEF Again
    <3>2. ReadsAreTrue' /\ TheScreenTellsTheOutcome'
      BY <2>0, <3>1 DEF ReadsAreTrue, TheScreenTellsTheOutcome
    <3>3. QED
      BY <1>1, <1>2, <3>1, <3>2, BrowserFrame
  <2>4. QED
    BY <2>2, <2>3
<1>10. QED
  BY <1>5, <1>6, <1>7, <1>8, <1>9 DEF Poll

-----------------------------------------------------------------------------
(* All steps together.                                                     *)

\* Nothing happens.
LEMMA StutterKeeps ==
  ASSUME IInv, UNCHANGED vars
  PROVE  IInv'
<1>1. UNCHANGED <<request, transfers, answer, task, outbox, accepted, stage, finished,
                  announced, queue, patch, late, screen, timeouts, losses>>
  BY DEF vars
<1>2. losses <= MaxLosses /\ losses' \in {losses, losses + 1} /\ losses' <= MaxLosses
  BY <1>1, GatewayAssumption DEF IInv, TypeOK
<1>3. QED
  BY <1>1, <1>2, BrowserFrame

\* Every step preserves the invariant.
LEMMA EveryStepKeeps ==
  ASSUME IInv, [Next]_vars
  PROVE  IInv'
<1>1. ASSUME NEW c \in Posts,
             Create(c) \/ Retrieve(c) \/ Dispatch(c) \/ HandOverFails(c) \/ StartPolling(c)
      PROVE  IInv'
  BY <1>1, CreateKeeps, RetrieveKeeps, DispatchKeeps, BrowseKeeps
<1>2. ASSUME NEW t \in Posts, Run(t) \/ Tell(t) \/ RunDies(t)
      PROVE  IInv'
  BY <1>2, RunKeeps, TellKeeps, RunDiesKeeps
<1>3. CASE Notify \/ PatchFails
  BY <1>3, SendPatchKeeps, PatchAnsweredKeeps, PatchFailsKeeps DEF Notify
<1>4. CASE GatewayStop \/ SagaStop
  BY <1>4, GatewayStopKeeps, SagaStopKeeps
<1>5. ASSUME NEW m \in late, ExecuteLate(m)
      PROVE  IInv'
  BY <1>5, ExecuteLateKeeps
<1>6. CASE Poll \/ ReadFails
  BY <1>6, BrowseKeeps
<1>7. CASE Rest \/ UNCHANGED vars
  BY <1>7, StutterKeeps DEF Rest
<1>8. QED
  BY <1>1, <1>2, <1>3, <1>4, <1>5, <1>6, <1>7 DEF Next

\* Nothing is registered, told or read at first.
LEMMA NothingYet ==
  ASSUME Init
  PROVE  IInv
<1>1. /\ stage = [t \in Posts |-> Absent] /\ finished = {}
      /\ announced = [t \in Posts |-> "RECIBIDA"]
  BY DEF Init, Saga!Init
<1>2. screen = [state |-> "off", transfer |-> Absent, public |-> "NONE",
                trace |-> "NONE", shown |-> "NONE"]
  BY DEF Init, Asleep, Unread
<1>3. queue = <<>> /\ queue \in Seq(Request) /\ 1..Len(queue) = {}
  BY EmptySeq DEF Init
<1>4. TypeOK
  BY <1>1, <1>2, <1>3, GatewayAssumption DEF Init, TypeOK, PublicStatuses
<1>5. NewsIsTrue /\ NewsInOrder
  BY <1>3 DEF Init, NewsIsTrue, NewsInOrder
<1>6. HandOverOnRecord
  BY DEF Init, HandOverOnRecord
<1>7. OutboxTellsTheTruth
  BY <1>1, GatewayAssumption DEF Init, OutboxTellsTheTruth, Handed
<1>8. ReadsAreTrue /\ TheScreenTellsTheOutcome
  BY <1>2 DEF ReadsAreTrue, TheScreenTellsTheOutcome
<1>9. QED
  BY <1>1, <1>4, <1>5, <1>6, <1>7, <1>8 DEF IInv, FinishedIsTerminal

\* The invariant holds for ever.
LEMMA Invariance == Spec => []IInv
<1>1. Init => IInv
  BY NothingYet
<1>2. IInv /\ [Next]_vars => IInv'
  BY EveryStepKeeps
<1>3. QED
  BY <1>1, <1>2, PTL DEF Spec

\* It takes a late PATCH to put a public status back.
LEMMA NoStepGoesBack ==
  ASSUME IInv, [Next]_vars, NEW k \in Keys, Rank(Public(k)') < Rank(Public(k))
  PROVE  \E m \in late \ late' : m.to = "gateway"
<1> SUFFICES ASSUME ~ \E m \in late \ late' : m.to = "gateway"
             PROVE  FALSE
  OBVIOUS
<1>1. CASE UNCHANGED transfers
  BY <1>1, Ranks DEF Public
<1>2. ASSUME NEW c \in Posts, Create(c)
      PROVE  FALSE
  <2>1. \/ transfers'[k] = transfers[k]
        \/ transfers[k] = Absent
    BY <1>2 DEF Create, Existing, IInv, TypeOK
  <2>2. CASE transfers'[k] = transfers[k]
    BY <2>2, Ranks DEF Public
  <2>3. CASE transfers[k] = Absent
    BY <2>3, Ranks DEF Public
  <2>4. QED
    BY <2>1, <2>2, <2>3
<1>3. CASE PatchAnswered
  <2>1. /\ TypeOK /\ patch # Absent /\ UpdateStatus(patch)
        /\ patch.to = "gateway" /\ patch \in Request
    BY <1>3 DEF PatchAnswered, IInv, NewsIsTrue, TypeOK
  <2>2. PICK m : m = patch
    OBVIOUS
  <2>3. /\ transfers'[k] # Absent <=> transfers[k] # Absent
        /\ transfers[k] # Absent => transfers'[k].status =
             IF transfers[k].transfer = m.transfer THEN m.status ELSE transfers[k].status
    BY <2>1, <2>2, UpdatesOnlyTheStatus DEF Request
  <2>4. transfers[k] # Absent /\ transfers[k].transfer = m.transfer =>
          Rank(transfers[k].status) <= Rank(m.status)
    BY <2>1, <2>2 DEF IInv, NewsInOrder, NotifierKeeps, Keeps
  <2>5. QED
    BY <2>3, <2>4, Ranks DEF Public
<1>4. ASSUME NEW m \in late, ExecuteLate(m)
      PROVE  FALSE
  <2>1. m \notin late'
    BY <1>4 DEF ExecuteLate
  <2>2. UNCHANGED transfers
    BY <1>4, <2>1 DEF ExecuteLate
  <2>3. QED
    BY <1>1, <2>2
<1>5. QED
  <2>1. CASE UNCHANGED vars \/ Rest
    BY <1>1, <2>1 DEF vars, Rest
  <2>2. ASSUME NEW c \in Posts,
               Retrieve(c) \/ Dispatch(c) \/ HandOverFails(c) \/ StartPolling(c)
                 \/ Run(c) \/ Tell(c) \/ RunDies(c)
        PROVE  UNCHANGED transfers
    BY <2>2 DEF Retrieve, Dispatch, RecordOutbox, Accept, MarkOutbox, HandOverFails,
                StartPolling, Run, Begin, Proceed, Tell, RunDies, gateway
  <2>3. SendPatch \/ PatchFails \/ GatewayStop \/ SagaStop \/ Poll \/ ReadFails
          => UNCHANGED transfers
    BY DEF SendPatch, PatchFails, GatewayStop, SagaStop, Poll, ReadPublic, ReadTrace, Show,
           ReadFails, gateway
  <2>4. QED
    BY <1>1, <1>2, <1>3, <1>4, <2>1, <2>2, <2>3 DEF Next, Notify

-----------------------------------------------------------------------------
\* Every row, request and read of the browser is well formed, always.
THEOREM Typing == Spec => []TypeOK
<1>1. IInv => TypeOK
  BY DEF IInv
<1>2. QED
  BY <1>1, Invariance, PTL

\* Whatever the saga was given is on record in the outbox and is the transfer its
\* key stands for, and what is recorded as DELIVERED did reach the saga unless
\* something stopped since.
THEOREM OutboxTrue == Spec => []OutboxTellsTheTruth
<1>1. IInv => OutboxTellsTheTruth
  BY DEF IInv
<1>2. QED
  BY <1>1, Invariance, PTL

\* The public status never runs ahead of the saga, whichever PATCHes were given
\* up on, executed late or lost.
THEOREM PublicTrue == Spec => []PublicIsTrue
<1>1. IInv => PublicIsTrue
  <2> SUFFICES ASSUME IInv, NEW k \in Keys, Public(k) \notin {"NONE", "RECIBIDA"}
               PROVE  LET t == transfers[k].transfer IN
                      /\ stage[t] # Absent
                      /\ Public(k) = "COMPENSANDO" =>
                           Saga!Progress(stage[t]) >= Saga!Progress("COMPENSATING")
                      /\ Public(k) \in FinalPublicStatuses =>
                           t \in finished /\ Public(k) = GatewayStatus(stage[t])
    BY DEF PublicIsTrue
  <2>1. transfers[k] # Absent /\ Public(k) = transfers[k].status
    BY DEF Public
  <2>2. Told(transfers[k].transfer, Public(k))
    BY <2>1 DEF IInv, NewsIsTrue
  <2>3. Saga!Progress("COMPENSATING") = 4
    BY DEF Saga!Progress
  <2>4. QED
    BY <2>2, <2>3 DEF Told
<1>2. QED
  BY <1>1, Invariance, PTL

\* A screen that stopped polling shows the outcome the saga stored, whichever of
\* its two reads came first, failed or was out of date.
THEOREM ScreenTrue == Spec => []TheScreenTellsTheOutcome
<1>1. IInv => TheScreenTellsTheOutcome
  BY DEF IInv
<1>2. QED
  BY <1>1, Invariance, PTL

\* A public status goes back only when a PATCH is executed that the notifier had
\* given up on: those it still holds arrive in the order of the saga.
THEOREM NeverBack == Spec => OnlyLatePatchesGoBack
<1>1. IInv /\ [Next]_vars =>
        [\A k \in Keys : Rank(Public(k)') < Rank(Public(k)) =>
           \E m \in late \ late' : m.to = "gateway"]_vars
  BY NoStepGoesBack
<1>2. QED
  BY <1>1, Invariance, PTL DEF Spec, OnlyLatePatchesGoBack
=============================================================================
