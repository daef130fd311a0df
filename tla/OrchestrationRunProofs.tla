------------------------ MODULE OrchestrationRunProofs ------------------------
(***************************************************************************)
(* What the orchestrated saga guarantees besides when a transfer has one   *)
(* run: any number of transfers, any deaths, any number of abandoned       *)
(* requests executed late.  What a run has done is all there in the trail, *)
(* so where it stands says what the trail, the row and the services hold.  *)
(***************************************************************************)
EXTENDS OrchestrationProofs

\* Each transfer has a single run, as each idempotency key has one request.
OneRunEach == \A r, q \in Runs : TransferOf[r] = TransferOf[q] => r = q

-----------------------------------------------------------------------------
(* The inductive invariant.                                                *)

\* The trail of a transfer of which some steps were executed and no more.
Unfolded(t, done) ==
  \A u \in Steps : Row(t, "ACTION", u) = IF u \in done THEN "EXECUTED" ELSE Absent

\* The trail of a transfer that failed at a step, with some still to be skipped.
Broken(t, s, left) ==
  \A u \in Steps : Row(t, "ACTION", u) =
    IF u \in Before(s) THEN "EXECUTED" ELSE IF u = s THEN "FAILED"
    ELSE IF u \in left THEN Absent ELSE "SKIPPED"

\* Nobody has asked to undo anything, and no late request will.
Unasked(t) ==
  /\ Undone[t] = {}
  /\ \A m \in late : TransferOf[m.run] = t => m.kind = "ACTION"

Untouched(t) == Unasked(t) /\ \A u \in Steps : Row(t, "COMPENSATION", u) = Absent

\* The status of the row when a step is entered.
StatusBefore(s) ==
  CASE s = "DEBIT"    -> "PENDING"
    [] s = "RISK"     -> "DEBITED"
    [] s = "CLEARING" -> "RISK_APPROVED"
    [] s = "CREDIT"   -> "CLEARING_PENDING"

\* A step that fails does so for a reason of its own.
Fitting(s, failure) ==
  /\ failure # "OK"
  /\ s = "DEBIT" => OutcomeFor(failure) \in {"REJECTED_FUNDS", "FAILED"}
  /\ s # "DEBIT" => OutcomeFor(failure) # "REJECTED_FUNDS"

\* A run whose steps have all succeeded so far.
Going(r) ==
  LET t == TransferOf[r]
      me == run[r]
      told == me.pc \in {"advance", "tell"}
  IN
  /\ me.failure = "OK" /\ me.clean /\ ~Finished(t) /\ Untouched(t)
  /\ Unfolded(t, IF told THEN Before(me.step) \cup {me.step} ELSE Before(me.step))
  /\ me.pc = "new" => execution[t] = Absent
  /\ me.pc # "new" => execution[t].status = IF me.pc = "tell" THEN StatusAfter[me.step]
                                           ELSE StatusBefore(me.step)
  /\ me.pc = "record" /\ me.outcome # "OK" => Fitting(me.step, me.outcome)

\* A run that has taken its last step, or failed at one.
Stopped(r) ==
  LET t == TransferOf[r]
      me == run[r]
  IN
  /\ me.clean /\ ~Finished(t) /\ Untouched(t)
  /\ \/ /\ me.failure = "OK" /\ me.pc # "skip"
        /\ Unfolded(t, Steps) /\ execution[t].status = "COMPLETED"
        /\ me.pc = "resolve" => me.todo = {}
     \/ /\ Fitting(me.step, me.failure)
        /\ Broken(t, me.step, IF me.pc = "skip" THEN me.todo ELSE {})
        /\ execution[t].status = StatusBefore(me.step)
        /\ me.pc = "skip" => me.todo \subseteq After(me.step)
        /\ me.pc = "resolve" => me.todo = Before(me.step)

\* A run that undoes what was executed before the step that failed, last first:
\* what is left to do is its step and all before.
Undoing(r) ==
  LET t == TransferOf[r]
      me == run[r]
  IN
  /\ ~Finished(t) /\ execution[t].status = "COMPENSATING"
  /\ \E s \in Steps \ {FirstStep} :
       /\ Fitting(s, me.failure)
       /\ Broken(t, s, {}) /\ me.todo \subseteq Before(s)
       /\ \A u \in Steps : IF u \in Before(s) \ me.todo
                           THEN Row(t, "COMPENSATION", u) \in RollbackStatuses
                           ELSE Row(t, "COMPENSATION", u) = Absent
       /\ me.clean <=> \A u \in Before(s) \ me.todo :
                         Row(t, "COMPENSATION", u) = "COMPENSATED"
  /\ me.todo = IF me.pc = "close" THEN {} ELSE Before(me.step) \cup {me.step}

\* A run that has written its verdict, and said so.
Settled(r) ==
  LET t == TransferOf[r] IN
  /\ Finished(t)
  /\ At(r, "report") => execution[t].status = Verdict(r)
  /\ At(r, "done") => announced[t] = GatewayStatus(execution[t].status)

Told(r) ==
  /\ run[r].pc \in {"new", "greet", "enter", "call", "record", "advance", "tell"} => Going(r)
  /\ run[r].pc \in {"skip", "settle", "resolve"} => Stopped(r)
  /\ run[r].pc \in {"alarm", "undo", "undone", "close"} => Undoing(r)
  /\ run[r].pc \in {"report", "done"} => Settled(r)

\* The rollback got to a step: all that was executed after it has been tried.
Rolled(t, s) ==
  \A u \in After(s) : Row(t, "ACTION", u) = "EXECUTED" => Row(t, "COMPENSATION", u) # Absent

\* VerdictMatchesTrail, said of one transfer.
Concluded(t) ==
  LET executed == Executed(t)
      undone(status) == {s \in Steps : Row(t, "COMPENSATION", s) = status}
  IN
  /\ execution[t].status \in TerminalStatuses
  /\ execution[t].current = "NONE"
  /\ execution[t].status = "COMPLETED" <=> executed = Steps
  /\ execution[t].compensation = "NOT_REQUIRED" <=> executed \in {{}, Steps}
  /\ execution[t].compensation = "COMPENSATED" => undone("COMPENSATED") = executed
  /\ execution[t].compensation = "COMPENSATION_FAILED" =>
       /\ undone("COMPENSATION_FAILED") # {}
       /\ undone("COMPENSATED") \cup undone("COMPENSATION_FAILED") = executed
  /\ execution[t].status # "COMPLETED" =>
       \E s \in Steps : Broken(t, s, {})

\* What stays true of a transfer when its run has died.
Lasting(t) ==
  /\ Finished(t) => Concluded(t)
  /\ execution[t] # Absent /\ execution[t].status = "COMPLETED" =>
       Unfolded(t, Steps) /\ Unasked(t)
  /\ \A s \in Undone[t] : Rolled(t, s)
  /\ \A m \in late : TransferOf[m.run] = t /\ m.kind = "COMPENSATION" => Rolled(t, m.step)

RunInv ==
  /\ IInv
  /\ \A r \in Runs : Told(r)
  /\ \A t \in Transfers : Lasting(t)
-----------------------------------------------------------------------------
(* The order of the steps, forwards and back.                              *)

\* What a step leads to is what the next one starts from.
LEMMA StatusesFollow ==
  /\ StatusBefore(FirstStep) = "PENDING" /\ StatusAfter[LastStep] = "COMPLETED"
  /\ \A s \in Steps : s # LastStep =>
       /\ StatusBefore(NextStep(s)) = StatusAfter[s]
       /\ StatusAfter[s] \in {"DEBITED", "RISK_APPROVED", "CLEARING_PENDING"}
  /\ \A s \in Steps : s # FirstStep =>
       StatusBefore(s) \in {"DEBITED", "RISK_APPROVED", "CLEARING_PENDING"}
<1>1. \A s \in Steps : s # LastStep =>
        NextStep(s) = CASE s = "DEBIT" -> "RISK" [] s = "RISK" -> "CLEARING"
                        [] s = "CLEARING" -> "CREDIT"
  <2>1. ASSUME NEW s \in Steps, s # LastStep
        PROVE  NextStep(s) = CASE s = "DEBIT" -> "RISK" [] s = "RISK" -> "CLEARING"
                               [] s = "CLEARING" -> "CREDIT"
    <3>1. \E u \in Steps : Sequence[u] = Sequence[s] + 1
      BY <2>1, StepOrder DEF Steps, LastStep
    <3>2. NextStep(s) \in Steps /\ Sequence[NextStep(s)] = Sequence[s] + 1
      BY <3>1 DEF NextStep
    <3>3. QED
      BY <2>1, <3>2, StepOrder DEF Steps, LastStep
  <2>2. QED
    BY <2>1
<1>2. QED
  BY <1>1 DEF StatusBefore, StatusAfter, Steps, FirstStep, LastStep

\* What precedes a step, the step itself and what follows it are all the steps.
LEMMA StepsAround ==
  /\ \A s \in Steps : /\ s \notin Before(s) /\ s \notin After(s)
                      /\ Before(s) \cap After(s) = {}
                      /\ Before(s) \cup {s} \cup After(s) = Steps
  /\ \A s, u \in Steps : u \in Before(s) <=> s \in After(u)
  /\ \A s \in Steps : \A u \in Before(s) : Before(u) \subseteq Before(s)
  /\ Before(LastStep) \cup {LastStep} = Steps
  /\ \A s \in Steps : Before(s) = {} <=> s = FirstStep
  /\ \A s \in Steps : After(s) = {} <=> s = LastStep
  BY StepOrder DEF Steps, Before, After, FirstStep, LastStep

\* The last of the steps before another has the rest of them before it.
LEMMA LatestBefore ==
  ASSUME NEW s \in Steps, s # FirstStep
  PROVE  /\ Latest(Before(s)) \in Steps
         /\ Before(Latest(Before(s))) \cup {Latest(Before(s))} = Before(s)
<1> DEFINE last == Latest(Before(s))
<1>1. Before(s) \in SUBSET Steps /\ Before(s) # {}
  BY StepsAround, StepDomain
<1>2. \E u \in Before(s) : \A v \in Before(s) : Sequence[u] >= Sequence[v]
  <2>1. CASE s = "RISK"
    <3>1. Before(s) = {"DEBIT"}
      BY <2>1, StepOrder DEF Before, Steps
    <3>2. QED
      BY <3>1, StepOrder
  <2>2. CASE s = "CLEARING"
    <3>1. Before(s) = {"DEBIT", "RISK"}
      BY <2>2, StepOrder DEF Before, Steps
    <3>2. QED
      BY <3>1, StepOrder
  <2>3. CASE s = "CREDIT"
    <3>1. Before(s) = {"DEBIT", "RISK", "CLEARING"}
      BY <2>3, StepOrder DEF Before, Steps
    <3>2. QED
      BY <3>1, StepOrder
  <2>4. QED
    BY <2>1, <2>2, <2>3 DEF Steps, FirstStep
<1>3. last \in Before(s) /\ \A v \in Before(s) : Sequence[last] >= Sequence[v]
  BY <1>2 DEF Latest
<1>4. last \in Steps
  BY <1>1, <1>3
<1>5. \A v \in Steps : v \in Before(s) <=> v = last \/ v \in Before(last)
  <2> HIDE DEF last
  <2>1. QED
    BY <1>3, <1>4, StepOrder DEF Before, Steps
<1>6. QED
  BY <1>1, <1>4, <1>5, StepDomain

-----------------------------------------------------------------------------
(* What the steps of others leave as it was.                               *)

\* A run knows what it knew when nobody touched its transfer.
LEMMA ToldStays ==
  ASSUME NEW q \in Runs, Told(q), run'[q] = run[q], NEW t, t = TransferOf[q],
         execution'[t] = execution[t], announced'[t] = announced[t],
         \A kind \in StepKinds, s \in Steps : Row(t, kind, s)' = Row(t, kind, s),
         Unasked(t) => Unasked(t)'
  PROVE  Told(q)'
<1>1. \A kind \in StepKinds, s \in Steps : Row(t, kind, s)' = Row(t, kind, s)
  OBVIOUS
<1>2. "ACTION" \in StepKinds /\ "COMPENSATION" \in StepKinds
  BY DEF StepKinds
<1>3. /\ Untouched(t) => Untouched(t)'
      /\ Finished(t)' <=> Finished(t)
  BY <1>1, <1>2 DEF Untouched, Finished
<1>4. \A S : Unfolded(t, S) => Unfolded(t, S)'
  BY <1>1, <1>2 DEF Unfolded
<1>5. \A s, S : Broken(t, s, S) => Broken(t, s, S)'
  BY <1>1, <1>2 DEF Broken
<1>6. Going(q) => Going(q)'
  BY <1>3, <1>4 DEF Going
<1>7. Stopped(q) => Stopped(q)'
  BY <1>3, <1>4, <1>5 DEF Stopped
<1>8. Undoing(q) => Undoing(q)'
  <2>1. SUFFICES ASSUME Undoing(q)
                 PROVE  Undoing(q)'
    OBVIOUS
  <2>2. PICK s \in Steps \ {FirstStep} :
          /\ Fitting(s, run[q].failure)
          /\ Broken(t, s, {}) /\ run[q].todo \subseteq Before(s)
          /\ \A u \in Steps : IF u \in Before(s) \ run[q].todo
                              THEN Row(t, "COMPENSATION", u) \in RollbackStatuses
                              ELSE Row(t, "COMPENSATION", u) = Absent
          /\ run[q].clean <=> \A u \in Before(s) \ run[q].todo :
                                Row(t, "COMPENSATION", u) = "COMPENSATED"
    BY <2>1 DEF Undoing
  <2>3. Broken(t, s, {})'
    BY <1>5, <2>2
  <2>4. \A u \in Steps : Row(t, "COMPENSATION", u)' = Row(t, "COMPENSATION", u)
    BY <1>1, <1>2
  <2>5. Before(s) \subseteq Steps
    BY StepDomain
  <2>6. QED
    BY <1>3, <2>1, <2>2, <2>3, <2>4, <2>5 DEF Undoing
<1>9. Settled(q) => Settled(q)'
  BY <1>3 DEF Settled, At, Verdict
<1>10. QED
  BY <1>6, <1>7, <1>8, <1>9 DEF Told

\* What lasts of a transfer lasts when its row and its trail stay and nothing is
\* undone, or asked for, but where the rollback got to.
LEMMA LastingStays ==
  ASSUME NEW t \in Transfers, Lasting(t), execution'[t] = execution[t],
         \A kind \in StepKinds, s \in Steps : Row(t, kind, s)' = Row(t, kind, s),
         execution[t].status = "COMPLETED" /\ Unasked(t) => Unasked(t)',
         \A s \in Undone'[t] : s \in Undone[t] \/ Rolled(t, s),
         \A m \in late' : m \in late \/ (TransferOf[m.run] = t /\ m.kind = "COMPENSATION" =>
                                           Rolled(t, m.step))
  PROVE  Lasting(t)'
<1>1. \A kind \in StepKinds, s \in Steps : Row(t, kind, s)' = Row(t, kind, s)
  OBVIOUS
<1>2. "ACTION" \in StepKinds /\ "COMPENSATION" \in StepKinds
  BY DEF StepKinds
<1>3. \A s : Rolled(t, s) => Rolled(t, s)'
  BY <1>1, <1>2 DEF Rolled, After
<1>4. Unfolded(t, Steps) => Unfolded(t, Steps)'
  BY <1>1, <1>2 DEF Unfolded
<1>5. Concluded(t) => Concluded(t)'
  <2>1. Executed(t)' = Executed(t)
    BY <1>1, <1>2 DEF Executed, Row
  <2>2. \A s : Broken(t, s, {}) => Broken(t, s, {})'
    BY <1>1, <1>2 DEF Broken
  <2>3. \A status : {s \in Steps : Row(t, "COMPENSATION", s)' = status} =
                    {s \in Steps : Row(t, "COMPENSATION", s) = status}
    BY <1>1, <1>2
  <2>4. QED
    BY <2>1, <2>2, <2>3 DEF Concluded
<1>6. QED
  BY <1>3, <1>4, <1>5 DEF Lasting, Finished

\* A transfer nobody has asked to undo, and whose row is not final, has no more
\* to last than that it is paid for if it says so.
LEMMA LastingUnasked ==
  ASSUME NEW t \in Transfers, Unasked(t)', ~Finished(t)',
         execution'[t] # Absent /\ execution'[t].status = "COMPLETED" => Unfolded(t, Steps)'
  PROVE  Lasting(t)'
  BY DEF Lasting, Unasked

\* A step of a run concerns its own transfer only.
LEMMA OwnStep ==
  ASSUME OneRunEach, RunInv, IInv', NEW r \in Runs,
         \A q \in Runs : q # r => run'[q] = run[q],
         \A t \in Transfers : t # TransferOf[r] =>
           /\ execution'[t] = execution[t] /\ announced'[t] = announced[t]
           /\ \A kind \in StepKinds, s \in Steps : Row(t, kind, s)' = Row(t, kind, s)
           /\ Undone'[t] = Undone[t],
         \A m \in late' : m \in late \/ m.run = r,
         Told(r)', Lasting(TransferOf[r])'
  PROVE  RunInv'
<1>1. \A q \in Runs : TransferOf[q] \in Transfers
  BY OrchestrationAssumption
<1>2. \A t \in Transfers : t # TransferOf[r] => (Unasked(t) => Unasked(t)')
  BY DEF Unasked
<1>3. ASSUME NEW q \in Runs, q # r
      PROVE  Told(q)'
  <2>1. TransferOf[q] # TransferOf[r] /\ Told(q) /\ run'[q] = run[q]
    BY <1>3 DEF OneRunEach, RunInv
  <2>2. QED
    BY <1>1, <1>2, <2>1, ToldStays
<1>4. ASSUME NEW t \in Transfers, t # TransferOf[r]
      PROVE  Lasting(t)'
  <2>1. Lasting(t)
    BY DEF RunInv
  <2>2. /\ \A s \in Undone'[t] : s \in Undone[t] \/ Rolled(t, s)
        /\ \A m \in late' : m \in late \/ (TransferOf[m.run] = t /\ m.kind = "COMPENSATION" =>
                                             Rolled(t, m.step))
    BY <1>4
  <2>3. QED
    BY <1>2, <1>4, <2>1, <2>2, LastingStays
<1>5. QED
  BY <1>3, <1>4 DEF RunInv

-----------------------------------------------------------------------------
(* Steps of a run that leave the trail and the services alone.             *)

\* What every step of a run starts from.
LEMMA Here ==
  ASSUME RunInv, NEW r \in Runs
  PROVE  /\ TransferOf[r] \in Transfers
         /\ run \in [Runs -> RunState] /\ run[r] \in RunState /\ run[r].step \in Steps
         /\ execution \in [Transfers -> Execution \cup {Absent}]
         /\ announced \in [Transfers -> PublicStatuses]
         /\ IInv /\ Placed(r) /\ Told(r) /\ Lasting(TransferOf[r])
         /\ UNCHANGED <<request, services>> => Undone' = Undone
  BY AtARun DEF RunInv, RunState

\* The trail tells the same story when nobody writes in it.
LEMMA TrailStays ==
  ASSUME NEW t, UNCHANGED trail, Undone' = Undone,
         \A m \in late' : m \in late \/ m.kind = "ACTION"
  PROVE  /\ \A S : Unfolded(t, S) <=> Unfolded(t, S)'
         /\ \A s, S : Broken(t, s, S) <=> Broken(t, s, S)'
         /\ Untouched(t) => Untouched(t)' /\ Unasked(t)'
         /\ Executed(t)' = Executed(t)
  BY DEF Unfolded, Broken, Untouched, Unasked, Executed, Row

\* Such a step of a run keeps the invariant if it leaves the run where it may
\* stand and of its transfer what lasts.
LEMMA QuietOwnStep ==
  ASSUME OneRunEach, RunInv, IInv', NEW r \in Runs, UNCHANGED <<request, services, trail>>,
         run' = [run EXCEPT ![r] = run'[r]],
         execution' = [execution EXCEPT ![TransferOf[r]] = execution'[TransferOf[r]]],
         announced' = [announced EXCEPT ![TransferOf[r]] = announced'[TransferOf[r]]],
         \A m \in late' : m \in late \/ m.run = r,
         Told(r)', Lasting(TransferOf[r])'
  PROVE  RunInv'
<1>1. Undone' = Undone
  BY Here
<1>2. \A q \in Runs : q # r => run'[q] = run[q]
  BY Here
<1>3. \A t \in Transfers : t # TransferOf[r] =>
        /\ execution'[t] = execution[t] /\ announced'[t] = announced[t]
        /\ \A kind \in StepKinds, s \in Steps : Row(t, kind, s)' = Row(t, kind, s)
        /\ Undone'[t] = Undone[t]
  BY <1>1, Here DEF Row
<1>4. QED
  BY <1>2, <1>3, OwnStep

\* A run that goes on, or stops, before anything is undone.
LEMMA GoesOn ==
  ASSUME OneRunEach, RunInv, IInv', NEW r \in Runs, UNCHANGED <<request, services, trail>>,
         run' = [run EXCEPT ![r] = run'[r]],
         execution' = [execution EXCEPT ![TransferOf[r]] = execution'[TransferOf[r]]],
         announced' = [announced EXCEPT ![TransferOf[r]] = announced'[TransferOf[r]]],
         \A m \in late' : m \in late \/ (m.run = r /\ m.kind = "ACTION"),
         Told(r)', Going(r)' \/ Stopped(r)'
  PROVE  RunInv'
<1> DEFINE t == TransferOf[r]
<1>1. t \in Transfers
  BY Here
<1>2. ~Finished(t)' /\ Unasked(t)'
  BY DEF Going, Stopped, Untouched
<1>3. execution'[t] # Absent /\ execution'[t].status = "COMPLETED" => Unfolded(t, Steps)'
  <2>1. CASE Going(r)'
    <3>1. run'[r].step \in Steps
      BY AtARun DEF IInv, SagaTypes, RunState
    <3>2. run'[r].pc = "tell" => run'[r].step # LastStep
      BY DEF IInv, Placed
    <3>3. StatusBefore(run'[r].step) # "COMPLETED"
      BY <3>1 DEF StatusBefore, Steps
    <3>4. run'[r].pc = "tell" => StatusAfter[run'[r].step] # "COMPLETED"
      BY <3>1, <3>2, StatusesFollow
    <3>5. QED
      BY <2>1, <3>3, <3>4 DEF Going
  <2>2. CASE Stopped(r)'
    <3>1. run'[r].step \in Steps
      BY AtARun DEF IInv, SagaTypes, RunState
    <3>2. StatusBefore(run'[r].step) # "COMPLETED"
      BY <3>1 DEF StatusBefore, Steps
    <3>3. QED
      BY <2>2, <3>2 DEF Stopped
  <2>3. QED
    BY <2>1, <2>2
<1>4. Lasting(t)'
  BY <1>1, <1>2, <1>3, LastingUnasked
<1>5. QED
  BY <1>4, QuietOwnStep

\* The run of a transfer creates its row.
LEMMA StartTells ==
  ASSUME OneRunEach, RunInv, IInv', NEW r \in Runs, Start(r)
  PROVE  RunInv'
<1> DEFINE t == TransferOf[r]
<1>1. /\ run' = [run EXCEPT ![r].pc = "greet"] /\ run[r].pc = "new"
      /\ execution' = [execution EXCEPT ![t] = IF @ = Absent THEN NewExecution ELSE @]
      /\ UNCHANGED <<request, services, trail, announced, late>>
  BY DEF Start, At, Goto, faults
<1>2. Going(r) /\ execution[t] = Absent /\ run[r].step = FirstStep
  BY <1>1, Here DEF Told, Going, Placed
<1>3. /\ execution'[t].status = "PENDING" /\ ~execution'[t].finished
      /\ execution' = [execution EXCEPT ![t] = execution'[t]]
  BY <1>1, <1>2, Here DEF NewExecution
<1>4. /\ run' = [run EXCEPT ![r] = run'[r]]
      /\ run'[r] = [run[r] EXCEPT !.pc = "greet"]
  BY <1>1, Here
<1>5. /\ run'[r].pc = "greet" /\ run'[r].step = FirstStep /\ run'[r].failure = run[r].failure
      /\ run'[r].clean = run[r].clean
  BY <1>2, <1>4, Here DEF RunState
<1>6. Going(r)'
  <2>1. /\ Untouched(t)' /\ \A S : Unfolded(t, S) => Unfolded(t, S)'
    BY <1>1, <1>2, Here, TrailStays DEF Going
  <2>2. run[r].failure = "OK" /\ run[r].clean /\ Unfolded(t, Before(FirstStep))
    BY <1>1, <1>2 DEF Going
  <2>3. QED
    BY <1>3, <1>5, <2>1, <2>2, StatusesFollow DEF Going, Finished
<1>7. Told(r)'
  BY <1>5, <1>6 DEF Told
<1>8. announced' = [announced EXCEPT ![t] = announced'[t]]
  BY <1>1, Here
<1>9. QED
  BY <1>1, <1>3, <1>4, <1>6, <1>7, <1>8, GoesOn

\* The only run of a transfer never finds a finished row.
LEMMA NeverReplayed ==
  ASSUME RunInv, NEW r \in Runs
  PROVE  ~Replay(r)
  BY Here DEF Replay, At, Told, Going

\* Entering a step changes what is current and nothing else.
LEMMA EnterTells ==
  ASSUME OneRunEach, RunInv, IInv', NEW r \in Runs, Enter(r)
  PROVE  RunInv'
<1> DEFINE t == TransferOf[r]
<1>1. /\ run' = [run EXCEPT ![r].pc = "call", ![r].attempt = 1] /\ run[r].pc = "enter"
      /\ execution' = [execution EXCEPT ![t].current = run[r].step]
      /\ UNCHANGED <<request, services, trail, announced, late>>
  BY DEF Enter, At, faults
<1>2. Going(r) /\ execution[t] \in Execution
  BY <1>1, Here, RowWritten DEF Told
<1>3. /\ execution'[t].status = execution[t].status
      /\ execution'[t].finished = execution[t].finished
      /\ execution' = [execution EXCEPT ![t] = execution'[t]]
      /\ execution[t] # Absent
  BY <1>1, <1>2, Here, AbsentAssumption DEF Execution
<1>4. run' = [run EXCEPT ![r] = run'[r]]
  BY <1>1, Here
<1>5. /\ run'[r].pc = "call" /\ run'[r].step = run[r].step /\ run'[r].failure = run[r].failure
      /\ run'[r].clean = run[r].clean
  BY <1>1, Here DEF RunState
<1>6. Going(r)'
  <2>1. /\ Untouched(t)' /\ \A S : Unfolded(t, S) => Unfolded(t, S)'
    BY <1>1, <1>2, Here, TrailStays DEF Going
  <2>2. /\ run[r].failure = "OK" /\ run[r].clean /\ Unfolded(t, Before(run[r].step))
        /\ execution[t].status = StatusBefore(run[r].step) /\ ~execution[t].finished
    BY <1>1, <1>2, <1>3 DEF Going, Finished
  <2>3. QED
    BY <1>3, <1>5, <2>1, <2>2 DEF Going, Finished
<1>7. Told(r)'
  BY <1>5, <1>6 DEF Told
<1>8. announced' = [announced EXCEPT ![t] = announced'[t]]
  BY <1>1, Here
<1>9. QED
  BY <1>1, <1>3, <1>4, <1>6, <1>7, <1>8, GoesOn

\* The status moves on with the step; after the last one the run settles.
LEMMA AdvanceTells ==
  ASSUME OneRunEach, RunInv, IInv', NEW r \in Runs, Advance(r)
  PROVE  RunInv'
<1> DEFINE t == TransferOf[r]
           s == run[r].step
<1>1. /\ run' = [run EXCEPT ![r].pc = IF s = LastStep THEN "settle" ELSE "tell"]
      /\ run[r].pc = "advance"
      /\ execution' = [execution EXCEPT ![t].status = StatusAfter[s]]
      /\ UNCHANGED <<request, services, trail, announced, late>>
  BY DEF Advance, At, Goto, faults
<1>2. Going(r) /\ execution[t] \in Execution /\ s \in Steps
  BY <1>1, Here, RowWritten DEF Told
<1>3. /\ execution'[t].status = StatusAfter[s]
      /\ execution'[t].finished = execution[t].finished
      /\ execution' = [execution EXCEPT ![t] = execution'[t]]
      /\ execution[t] # Absent
  BY <1>1, <1>2, Here, AbsentAssumption DEF Execution
<1>4. run' = [run EXCEPT ![r] = run'[r]]
  BY <1>1, Here
<1>5. /\ run'[r].pc = IF s = LastStep THEN "settle" ELSE "tell"
      /\ run'[r].step = s /\ run'[r].failure = run[r].failure
      /\ run'[r].clean = run[r].clean
  BY <1>1, Here DEF RunState
<1>6. /\ Untouched(t)' /\ Unfolded(t, Before(s) \cup {s})'
      /\ run[r].failure = "OK" /\ run[r].clean /\ ~execution[t].finished
  BY <1>1, <1>2, <1>3, Here, TrailStays DEF Going, Finished
<1>7. s = LastStep => Stopped(r)'
  BY <1>3, <1>5, <1>6, StatusesFollow, StepsAround DEF Stopped, Finished
<1>8. s # LastStep => Going(r)'
  BY <1>3, <1>5, <1>6 DEF Going, Finished
<1>9. Told(r)'
  BY <1>5, <1>7, <1>8 DEF Told
<1>10. announced' = [announced EXCEPT ![t] = announced'[t]]
  BY <1>1, Here
<1>11. QED
  BY <1>1, <1>3, <1>4, <1>7, <1>8, <1>9, <1>10, GoesOn

\* What is left to undo is all that was executed before the step that failed.
LEMMA SettleTells ==
  ASSUME OneRunEach, RunInv, IInv', NEW r \in Runs, Settle(r)
  PROVE  RunInv'
<1> DEFINE t == TransferOf[r]
           s == run[r].step
           executed == IF run[r].failure = "OK" THEN {} ELSE Executed(t)
<1>1. /\ run' = [run EXCEPT ![r].pc = "resolve", ![r].todo = executed]
      /\ run[r].pc = "settle"
      /\ UNCHANGED <<request, services, execution, trail, announced, late>>
  BY DEF Settle, At, faults, saga
<1>2. Stopped(r) /\ s \in Steps
  BY <1>1, Here DEF Told
<1>3. run' = [run EXCEPT ![r] = run'[r]]
  BY <1>1, Here
<1>4. /\ run'[r].pc = "resolve" /\ run'[r].todo = executed
      /\ run'[r].step = s /\ run'[r].failure = run[r].failure /\ run'[r].clean = run[r].clean
  BY <1>1, Here DEF RunState
<1>5. /\ Untouched(t)' /\ (\A S : Unfolded(t, S) => Unfolded(t, S)')
      /\ \A S : Broken(t, s, S) => Broken(t, s, S)'
  BY <1>1, <1>2, Here, TrailStays DEF Stopped
<1>6. run[r].clean /\ ~Finished(t)'
  BY <1>1, <1>2 DEF Stopped, Finished
<1>7. CASE run[r].failure = "OK"
  <2>1. Unfolded(t, Steps)' /\ execution'[t].status = "COMPLETED"
    BY <1>1, <1>2, <1>5, <1>7 DEF Stopped, Fitting
  <2>2. Stopped(r)'
    BY <1>4, <1>5, <1>6, <1>7, <2>1 DEF Stopped
  <2>3. Told(r)'
    BY <1>4, <2>2 DEF Told
  <2>4. QED
    BY <1>1, <1>3, <2>2, <2>3, Here, GoesOn
<1>8. CASE run[r].failure # "OK"
  <2>1. /\ Fitting(s, run[r].failure) /\ Broken(t, s, {})
        /\ execution[t].status = StatusBefore(s)
    BY <1>1, <1>2, <1>8 DEF Stopped
  <2>2. executed = Before(s)
    <3>1. "EXECUTED" # Absent
      BY AbsentAssumption DEF ActionStatuses
    <3>2. QED
      BY <1>2, <1>8, <2>1, <3>1, StepDomain DEF Broken, Executed, Row
  <2>3. Stopped(r)'
    BY <1>1, <1>4, <1>5, <1>6, <2>1, <2>2 DEF Stopped
  <2>4. Told(r)'
    BY <1>4, <2>3 DEF Told
  <2>5. QED
    BY <1>1, <1>3, <2>3, <2>4, Here, GoesOn
<1>9. QED
  BY <1>7, <1>8

\* While a step is undone, all that was executed after it has been tried.
LEMMA RolledSoFar ==
  ASSUME NEW r \in Runs, Undoing(r), run[r].pc # "close", run[r].step \in Steps
  PROVE  Rolled(TransferOf[r], run[r].step)
<1> DEFINE t == TransferOf[r]
           here == run[r].step
<1>1. PICK s \in Steps \ {FirstStep} :
        /\ Broken(t, s, {})
        /\ \A u \in Steps : IF u \in Before(s) \ run[r].todo
                            THEN Row(t, "COMPENSATION", u) \in RollbackStatuses
                            ELSE Row(t, "COMPENSATION", u) = Absent
  BY DEF Undoing
<1>2. "EXECUTED" # Absent /\ Absent \notin RollbackStatuses
  BY AbsentAssumption DEF ActionStatuses
<1>3. run[r].todo = Before(here) \cup {here}
  BY DEF Undoing
<1>4. ASSUME NEW u \in After(here), Row(t, "ACTION", u) = "EXECUTED"
      PROVE  Row(t, "COMPENSATION", u) # Absent
  <2>1. u \in Steps /\ u \notin run[r].todo
    BY <1>3, <1>4, StepsAround, StepDomain
  <2>2. u \in Before(s)
    BY <1>1, <1>2, <1>4, <2>1 DEF Broken
  <2>3. QED
    BY <1>1, <1>2, <2>1, <2>2
<1>5. QED
  BY <1>4 DEF Rolled

\* A run that moves while its row and its trail stay, and asks for nothing to be
\* undone but where its rollback got to.
LEMMA StaysPut ==
  ASSUME OneRunEach, RunInv, IInv', NEW r \in Runs,
         UNCHANGED <<request, services, execution, trail>>,
         run' = [run EXCEPT ![r] = run'[r]],
         announced' = [announced EXCEPT ![TransferOf[r]] = announced'[TransferOf[r]]],
         execution[TransferOf[r]].status # "COMPLETED" \/ UNCHANGED late,
         \A m \in late' : m \in late \/ (m.run = r /\ (m.kind = "COMPENSATION" =>
                                                         Rolled(TransferOf[r], m.step))),
         Told(r)'
  PROVE  RunInv'
<1> DEFINE t == TransferOf[r]
<1>1. t \in Transfers /\ Lasting(t) /\ Undone' = Undone
  BY Here
<1>2. execution[t].status = "COMPLETED" /\ Unasked(t) => Unasked(t)'
  BY <1>1 DEF Unasked
<1>3. \A kind \in StepKinds, s \in Steps : Row(t, kind, s)' = Row(t, kind, s)
  BY DEF Row
<1>4. Lasting(t)'
  BY <1>1, <1>2, <1>3, LastingStays
<1>5. execution' = [execution EXCEPT ![t] = execution'[t]]
  BY Here
<1>6. QED
  BY <1>4, <1>5, QuietOwnStep

\* The story of a rollback that goes on to another point of the same step.
LEMMA UndoingStays ==
  ASSUME NEW r \in Runs, Undoing(r), UNCHANGED <<execution, trail>>,
         run'[r].failure = run[r].failure, run'[r].clean = run[r].clean,
         run'[r].todo = run[r].todo, run'[r].step = run[r].step,
         run[r].pc # "close", run'[r].pc # "close"
  PROVE  Undoing(r)'
  BY DEF Undoing, Finished, Broken, Row

\* What a run says of its step, of its rollback or of its verdict is what the
\* row says.
LEMMA NotifyTells ==
  ASSUME OneRunEach, RunInv, IInv', NEW r \in Runs, Notify(r)
  PROVE  RunInv'
<1> DEFINE t == TransferOf[r]
           s == run[r].step
           pc == run[r].pc
<1>1. /\ run' = [run EXCEPT ![r].pc = CASE @ \in {"greet", "tell"} -> "enter"
                                        [] @ = "alarm"  -> "undo"
                                        [] @ = "report" -> "done",
                            ![r].step = IF pc = "tell" THEN NextStep(@) ELSE @]
      /\ pc \in {"greet", "tell", "alarm", "report"}
      /\ announced' = [announced EXCEPT ![t] = GatewayStatus(Said(r))]
      /\ UNCHANGED <<request, services, execution, trail, late>>
  BY DEF Notify, At, Announce, faults
<1>2. /\ run' = [run EXCEPT ![r] = run'[r]]
      /\ announced' = [announced EXCEPT ![t] = announced'[t]]
      /\ announced'[t] = GatewayStatus(Said(r))
      /\ execution' = [execution EXCEPT ![t] = execution'[t]]
  BY <1>1, Here
<1>3. /\ run'[r].failure = run[r].failure /\ run'[r].clean = run[r].clean
      /\ run'[r].todo = run[r].todo
      /\ run'[r].step = IF pc = "tell" THEN NextStep(s) ELSE s
      /\ pc \in {"greet", "tell"} => run'[r].pc = "enter"
      /\ pc = "alarm" => run'[r].pc = "undo"
      /\ pc = "report" => run'[r].pc = "done"
  BY <1>1, Here DEF RunState
<1>4. CASE pc \in {"greet", "tell"}
  <2>1. Going(r) /\ s \in Steps /\ (pc = "tell" => s # LastStep)
        /\ (pc = "greet" => s = FirstStep)
    BY <1>4, Here DEF Told, Placed
  <2>2. /\ Untouched(t)' /\ \A S : Unfolded(t, S) => Unfolded(t, S)'
    BY <1>1, <2>1, Here, TrailStays DEF Going
  <2>3. PICK next \in Steps :
          /\ next = run'[r].step
          /\ Unfolded(t, Before(next)) /\ execution[t].status = StatusBefore(next)
    <3>1. CASE pc = "greet"
      BY <1>3, <2>1, <3>1 DEF Going
    <3>2. CASE pc = "tell"
      <4>1. Unfolded(t, Before(s) \cup {s}) /\ execution[t].status = StatusAfter[s]
        BY <2>1, <3>2 DEF Going
      <4>2. /\ NextStep(s) \in Steps /\ Before(NextStep(s)) = Before(s) \cup {s}
            /\ StatusBefore(NextStep(s)) = StatusAfter[s]
        BY <2>1, <3>2, NextStepFollows, StatusesFollow
      <4>3. QED
        BY <1>3, <3>2, <4>1, <4>2
    <3>3. QED
      BY <1>4, <3>1, <3>2
  <2>4. Going(r)'
    <3>1. Unfolded(t, Before(next))'
      BY <2>2, <2>3
    <3>2. run[r].failure = "OK" /\ run[r].clean /\ ~Finished(t)' /\ run'[r].pc = "enter"
      BY <1>1, <1>3, <1>4, <2>1 DEF Going, Finished
    <3>3. QED
      BY <1>1, <1>3, <2>2, <2>3, <3>1, <3>2 DEF Going
  <2>5. Told(r)'
    BY <1>3, <1>4, <2>4 DEF Told
  <2>6. QED
    BY <1>1, <1>2, <2>4, <2>5, GoesOn
<1>5. CASE pc = "alarm"
  <2>1. Undoing(r)
    BY <1>5, Here DEF Told
  <2>2. Undoing(r)'
    BY <1>1, <1>3, <1>5, <2>1, UndoingStays
  <2>3. Told(r)'
    BY <1>3, <1>5, <2>2 DEF Told
  <2>4. QED
    BY <1>1, <1>2, <2>3, StaysPut
<1>6. CASE pc = "report"
  <2>1. Settled(r)
    BY <1>6, Here DEF Told
  <2>2. Said(r) = execution[t].status
    BY <1>6, <2>1 DEF Settled, Said, At
  <2>3. Settled(r)'
    BY <1>1, <1>2, <1>3, <1>6, <2>1, <2>2 DEF Settled, Finished, At
  <2>4. Told(r)'
    BY <1>3, <1>6, <2>3 DEF Told
  <2>5. QED
    BY <1>1, <1>2, <2>4, StaysPut
<1>7. QED
  BY <1>1, <1>4, <1>5, <1>6

-----------------------------------------------------------------------------
(* Calls.                                                                  *)

\* A request is abandoned at the step the run is at; a reversal, only when the
\* rollback has got there.
LEMMA Abandoned ==
  ASSUME RunInv, NEW r \in Runs, Calling(r), Abandon(r)
  PROVE  /\ \A m \in late' : m \in late \/
              (m.run = r /\ (m.kind = "COMPENSATION" => Rolled(TransferOf[r], m.step)))
         /\ At(r, "call") => \A m \in late' : m \in late \/ (m.run = r /\ m.kind = "ACTION")
         /\ execution[TransferOf[r]].status # "COMPLETED"
<1> DEFINE t == TransferOf[r]
           new == [run |-> r, kind |-> KindOf(r), step |-> run[r].step,
                   attempt |-> run[r].attempt]
<1>1. late' = late \cup {new} /\ run[r].pc \in {"call", "undo"} /\ run[r].step \in Steps
  BY Here DEF Abandon, Calling
<1>2. new.run = r /\ new.kind = KindOf(r) /\ new.step = run[r].step
  OBVIOUS
<1>3. CASE run[r].pc = "call"
  <2>1. Going(r) /\ new.kind = "ACTION"
    BY <1>2, <1>3, Here DEF Told, KindOf
  <2>2. execution[t].status # "COMPLETED"
    BY <1>1, <1>3, <2>1 DEF Going, StatusBefore, Steps
  <2> HIDE DEF new
  <2>3. QED
    BY <1>1, <1>2, <2>1, <2>2
<1>4. CASE run[r].pc = "undo"
  <2>1. Undoing(r) /\ ~At(r, "call")
    BY <1>4, Here DEF Told, At
  <2>2. Rolled(t, run[r].step) /\ execution[t].status # "COMPLETED"
    BY <1>1, <1>4, <2>1, RolledSoFar DEF Undoing
  <2> HIDE DEF new
  <2>3. QED
    BY <1>1, <1>2, <2>1, <2>2
<1>5. QED
  BY <1>1, <1>3, <1>4

\* An attempt that is repeated leaves a request behind and nothing else.
LEMMA RetryTells ==
  ASSUME OneRunEach, RunInv, IInv', NEW r \in Runs, Retry(r)
  PROVE  RunInv'
<1> DEFINE t == TransferOf[r]
<1>1. /\ run' = [run EXCEPT ![r].attempt = @ + 1] /\ run[r].pc \in {"call", "undo"}
      /\ Abandon(r) /\ Calling(r)
      /\ UNCHANGED <<request, services, execution, trail, announced>>
  BY DEF Retry, Calling, saga
<1>2. /\ run' = [run EXCEPT ![r] = run'[r]]
      /\ announced' = [announced EXCEPT ![t] = announced'[t]]
      /\ execution' = [execution EXCEPT ![t] = execution'[t]]
  BY <1>1, Here
<1>3. /\ run'[r].failure = run[r].failure /\ run'[r].clean = run[r].clean
      /\ run'[r].todo = run[r].todo /\ run'[r].step = run[r].step /\ run'[r].pc = run[r].pc
  BY <1>1, Here DEF RunState
<1>4. CASE run[r].pc = "call"
  <2>1. Going(r) /\ \A m \in late' : m \in late \/ (m.run = r /\ m.kind = "ACTION")
    BY <1>1, <1>4, Here, Abandoned DEF Told, At
  <2>2. /\ Untouched(t)' /\ \A S : Unfolded(t, S) => Unfolded(t, S)'
    BY <1>1, <2>1, Here, TrailStays DEF Going
  <2>3. Going(r)'
    BY <1>1, <1>3, <1>4, <2>1, <2>2 DEF Going, Finished
  <2>4. Told(r)'
    BY <1>3, <1>4, <2>3 DEF Told
  <2>5. QED
    BY <1>1, <1>2, <2>1, <2>3, <2>4, GoesOn
<1>5. CASE run[r].pc = "undo"
  <2>1. Undoing(r)
    BY <1>5, Here DEF Told
  <2>2. Undoing(r)'
    BY <1>1, <1>3, <1>5, <2>1, UndoingStays
  <2>3. Told(r)'
    BY <1>3, <1>5, <2>2 DEF Told
  <2>4. QED
    BY <1>1, <1>2, <2>3, Abandoned, StaysPut
<1>6. QED
  BY <1>1, <1>4, <1>5

\* An exhausted call is no answer a rejection could be taken from.
LEMMA GiveUpTells ==
  ASSUME OneRunEach, RunInv, IInv', NEW r \in Runs, GiveUp(r)
  PROVE  RunInv'
<1> DEFINE t == TransferOf[r]
           next == IF run[r].pc = "call" THEN "record" ELSE "undone"
<1>1. /\ run' = [run EXCEPT ![r].outcome = "SERVICE_UNAVAILABLE", ![r].pc = next]
      /\ run[r].pc \in {"call", "undo"} /\ Abandon(r) /\ Calling(r)
      /\ UNCHANGED <<request, services, execution, trail, announced>>
  BY DEF GiveUp, Calling, saga
<1>2. /\ run' = [run EXCEPT ![r] = run'[r]]
      /\ announced' = [announced EXCEPT ![t] = announced'[t]]
      /\ execution' = [execution EXCEPT ![t] = execution'[t]]
  BY <1>1, Here
<1>3. /\ run'[r].failure = run[r].failure /\ run'[r].clean = run[r].clean
      /\ run'[r].todo = run[r].todo /\ run'[r].step = run[r].step /\ run'[r].pc = next
      /\ run'[r].outcome = "SERVICE_UNAVAILABLE"
  BY <1>1, Here DEF RunState
<1>4. CASE run[r].pc = "call"
  <2>1. Going(r) /\ \A m \in late' : m \in late \/ (m.run = r /\ m.kind = "ACTION")
    BY <1>1, <1>4, Here, Abandoned DEF Told, At
  <2>2. /\ Untouched(t)' /\ \A S : Unfolded(t, S) => Unfolded(t, S)'
    BY <1>1, <2>1, Here, TrailStays DEF Going
  <2>3. Fitting(run[r].step, "SERVICE_UNAVAILABLE")
    BY DEF Fitting, OutcomeFor
  <2>4. run'[r].pc = "record"
    BY <1>3, <1>4
  <2>5. Going(r)'
    BY <1>1, <1>3, <1>4, <2>1, <2>2, <2>3, <2>4 DEF Going, Finished
  <2>6. Told(r)'
    BY <2>4, <2>5 DEF Told
  <2>7. QED
    BY <1>1, <1>2, <2>1, <2>5, <2>6, GoesOn
<1>5. CASE run[r].pc = "undo"
  <2>1. Undoing(r) /\ run[r].pc # "close" /\ run'[r].pc = "undone"
    BY <1>3, <1>5, Here DEF Told
  <2>2. Undoing(r)'
    BY <1>1, <1>3, <2>1, UndoingStays
  <2>3. Told(r)'
    BY <1>3, <1>5, <2>2 DEF Told
  <2>4. QED
    BY <1>1, <1>2, <2>3, Abandoned, StaysPut
<1>6. QED
  BY <1>1, <1>4, <1>5

\* A run that dies says no more; of its transfer what lasts lasts.
LEMMA DieTells ==
  ASSUME OneRunEach, RunInv, IInv', NEW r \in Runs, Die(r)
  PROVE  RunInv'
<1> DEFINE t == TransferOf[r]
<1>1. /\ run' = [run EXCEPT ![r].pc = "dead"]
      /\ IF Calling(r) THEN Abandon(r) ELSE UNCHANGED late
      /\ UNCHANGED <<request, services, execution, trail, announced>>
  BY DEF Die, Goto, saga
<1>2. /\ run' = [run EXCEPT ![r] = run'[r]] /\ run'[r].pc = "dead"
      /\ announced' = [announced EXCEPT ![t] = announced'[t]]
  BY <1>1, Here DEF RunState
<1>3. Told(r)'
  BY <1>2 DEF Told
<1>4. QED
  BY <1>1, <1>2, <1>3, Abandoned, StaysPut

\* A service undoes the step of the call it executes, of that transfer, or none.
LEMMA UndoneByCall ==
  ASSUME NEW t \in Transfers, NEW kind \in StepKinds, NEW s \in Steps, Served(t, kind, s)
  PROVE  /\ \A u \in Transfers : u # t => Undone'[u] = Undone[u]
         /\ kind = "ACTION" => Undone'[t] = Undone[t]
         /\ \A v \in Undone'[t] : v \in Undone[t] \/ (kind = "COMPENSATION" /\ v = s)
<1>1. \A u \in Transfers : Undone[u] \subseteq Undone'[u]
  BY DEF Served
<1>2. \A u \in Transfers : \A v \in Undone'[u] \ Undone[u] :
        u = t /\ kind = "COMPENSATION" /\ v = s
  BY DEF Served
<1>3. \A u \in Transfers : u # t => \A v : v \in Undone'[u] <=> v \in Undone[u]
  BY <1>1, <1>2
<1>4. kind = "ACTION" => \A v : v \in Undone'[t] <=> v \in Undone[t]
  BY <1>1, <1>2
<1>5. Undone \in [Transfers -> SUBSET Steps] /\ Undone' \in [Transfers -> SUBSET Steps]
  BY DEF Undone
<1>6. \A v \in Undone'[t] : v \in Undone[t] \/ (kind = "COMPENSATION" /\ v = s)
  BY <1>2
<1>7. ASSUME NEW u \in Transfers, u # t
      PROVE  Undone'[u] = Undone[u]
  BY <1>3, <1>5, <1>7
<1>8. kind = "ACTION" => Undone'[t] = Undone[t]
  BY <1>4, <1>5
<1>9. QED
  BY <1>6, <1>7, <1>8

\* An answer in time: a refusal is one the service of the step may give.
LEMMA AnsweredTells ==
  ASSUME OneRunEach, RunInv, IInv', NEW r \in Runs, Answered(r)
  PROVE  RunInv'
<1> DEFINE t == TransferOf[r]
           kind == KindOf(r)
           s == run[r].step
           reply == Reply(t, kind, s)
           next == IF run[r].pc = "call" THEN "record" ELSE "undone"
<1>1. /\ run' = [run EXCEPT ![r].outcome = reply, ![r].pc = next]
      /\ run[r].pc \in {"call", "undo"}
      /\ Serve(t, kind, s)
      /\ UNCHANGED <<request, execution, trail, announced, late>>
  BY DEF Answered, Calling, saga, faults
<1>2. /\ t \in Transfers /\ kind \in StepKinds /\ s \in Steps
      /\ run[r].pc = "call" => kind = "ACTION"
      /\ run[r].pc = "undo" => kind = "COMPENSATION"
  BY <1>1, Here DEF KindOf, StepKinds
<1>3. Served(t, kind, s)
  <2> HIDE DEF t, kind, s
  <2>1. QED
    BY <1>1, <1>2, CallsAreServed DEF RunInv, IInv
<1>4. /\ \A u \in Transfers : u # t => Undone'[u] = Undone[u]
      /\ kind = "ACTION" => Undone'[t] = Undone[t]
      /\ \A v \in Undone'[t] : v \in Undone[t] \/ (kind = "COMPENSATION" /\ v = s)
  BY <1>2, <1>3, UndoneByCall
<1>5. /\ run'[r].failure = run[r].failure /\ run'[r].clean = run[r].clean
      /\ run'[r].todo = run[r].todo /\ run'[r].step = s /\ run'[r].pc = next
      /\ run'[r].outcome = reply
      /\ \A q \in Runs : q # r => run'[q] = run[q]
  <2> HIDE DEF reply
  <2>1. QED
    BY <1>1, Here DEF RunState
<1>6. \A u \in Transfers, k \in StepKinds, v \in Steps : Row(u, k, v)' = Row(u, k, v)
  BY <1>1 DEF Row
<1>7. CASE run[r].pc = "call"
  <2>1. Going(r) /\ Undone'[t] = Undone[t]
    BY <1>2, <1>4, <1>7, Here DEF Told
  <2>2. reply # "OK" => Fitting(s, reply)
    BY <1>2, <1>3, <1>7 DEF Served, Fitting, OutcomeFor
  <2>3. Untouched(t)'
    <3>1. Undone[t] = {} /\ late' = late /\ Untouched(t)
      BY <1>1, <2>1 DEF Going, Untouched, Unasked
    <3>2. \A u \in Steps : Row(t, "COMPENSATION", u)' = Row(t, "COMPENSATION", u)
      BY <1>2, <1>6 DEF StepKinds
    <3>3. QED
      BY <2>1, <3>1, <3>2 DEF Untouched, Unasked
  <2>4. PICK here \in Steps :
          /\ here = s /\ here = run'[r].step
          /\ Unfolded(t, Before(here)) /\ execution[t].status = StatusBefore(here)
    BY <1>2, <1>5, <1>7, <2>1 DEF Going
  <2>5. Going(r)'
    <3>1. run'[r].pc = "record"
      BY <1>5, <1>7
    <3>2. run[r].failure = "OK" /\ run[r].clean /\ ~Finished(t)'
      BY <1>1, <2>1 DEF Going, Finished
    <3>3. Unfolded(t, Before(here))' /\ execution'[t].status = StatusBefore(here)
      BY <1>1, <2>4 DEF Unfolded, Row
    <3>4. run'[r].outcome # "OK" => Fitting(here, run'[r].outcome)
      BY <1>5, <2>2, <2>4
    <3> HIDE DEF reply, s
    <3>5. QED
      BY <1>5, <2>3, <2>4, <3>1, <3>2, <3>3, <3>4 DEF Going
  <2>6. Told(r)'
    BY <1>5, <1>7, <2>5 DEF Told
  <2>7. Lasting(t)'
    <3>1. Unasked(t)' /\ ~Finished(t)' /\ execution'[t].status # "COMPLETED"
      BY <1>1, <1>2, <1>7, <2>1, <2>3 DEF Going, Finished, Untouched, StatusBefore, Steps
    <3>2. QED
      BY <1>2, <3>1, LastingUnasked
  <2>8. QED
    BY <1>1, <1>4, <1>5, <1>6, <2>6, <2>7, OwnStep
<1>8. CASE run[r].pc = "undo"
  <2>1. Undoing(r) /\ Lasting(t)
    BY <1>8, Here DEF Told
  <2>2. Undoing(r)'
    <3>1. run'[r].pc # "close" /\ run[r].pc # "close"
      BY <1>5, <1>8
    <3>2. QED
      BY <1>1, <1>5, <2>1, <3>1, UndoingStays
  <2>3. Told(r)'
    BY <1>5, <1>8, <2>2 DEF Told
  <2>4. Rolled(t, s) /\ execution[t].status # "COMPLETED"
    BY <1>2, <1>8, <2>1, RolledSoFar DEF Undoing
  <2>5. Lasting(t)'
    <3>1. \A v \in Undone'[t] : v \in Undone[t] \/ Rolled(t, v)
      BY <1>4, <2>4
    <3>2. QED
      BY <1>1, <1>2, <1>6, <2>1, <2>4, <3>1, LastingStays
  <2>6. QED
    BY <1>1, <1>4, <1>5, <1>6, <2>3, <2>5, OwnStep
<1>9. QED
  BY <1>1, <1>7, <1>8

\* A late reversal undoes a step the rollback had got to.
LEMMA ExecuteLateTells ==
  ASSUME RunInv, IInv', NEW m \in late, ExecuteLate(m)
  PROVE  RunInv'
<1> DEFINE t == TransferOf[m.run]
<1>1. /\ Serve(t, m.kind, m.step) /\ late' = late \ {m}
      /\ UNCHANGED <<request, execution, trail, announced, run>>
  BY DEF ExecuteLate, saga
<1>2. /\ t \in Transfers /\ m.kind \in StepKinds /\ m.step \in Steps
  BY OrchestrationAssumption DEF RunInv, IInv, SagaTypes, Message
<1>3. Served(t, m.kind, m.step)
  BY <1>1, <1>2, CallsAreServed DEF RunInv, IInv
<1>4. /\ \A u \in Transfers : u # t => Undone'[u] = Undone[u]
      /\ m.kind = "ACTION" => Undone'[t] = Undone[t]
      /\ \A v \in Undone'[t] : v \in Undone[t] \/ (m.kind = "COMPENSATION" /\ v = m.step)
  BY <1>2, <1>3, UndoneByCall
<1>5. \A u \in Transfers : Unasked(u) => Unasked(u)'
  BY <1>1, <1>2, <1>4 DEF Unasked, StepKinds
<1>6. \A u \in Transfers, k \in StepKinds, v \in Steps : Row(u, k, v)' = Row(u, k, v)
  BY <1>1 DEF Row
<1>7. ASSUME NEW q \in Runs
      PROVE  Told(q)'
  <2>1. TransferOf[q] \in Transfers /\ Told(q)
    BY Here
  <2>2. QED
    BY <1>1, <1>5, <1>6, <2>1, ToldStays
<1>8. ASSUME NEW u \in Transfers
      PROVE  Lasting(u)'
  <2>1. Lasting(u) /\ Lasting(t)
    BY <1>2 DEF RunInv
  <2>2. \A v \in Undone'[u] : v \in Undone[u] \/ Rolled(u, v)
    <3>1. m.kind = "COMPENSATION" => Rolled(t, m.step)
      BY <2>1 DEF Lasting
    <3>2. CASE u = t
      BY <1>4, <3>1, <3>2
    <3>3. CASE u # t
      BY <1>4, <3>3
    <3>4. QED
      BY <3>2, <3>3
  <2>3. QED
    BY <1>1, <1>5, <1>6, <2>1, <2>2, LastingStays
<1>9. QED
  BY <1>7, <1>8 DEF RunInv

-----------------------------------------------------------------------------
(* Steps of a run that write in the trail.                                 *)

\* One row of the trail changes.
LEMMA RowsWritten ==
  ASSUME RunInv, NEW t \in Transfers, NEW kind \in StepKinds, NEW s \in Steps, NEW status,
         Write(t, kind, s, status)
  PROVE  \A u \in Transfers, k \in StepKinds, v \in Steps :
           Row(u, k, v)' = IF u = t /\ k = kind /\ v = s THEN status ELSE Row(u, k, v)
<1>1. /\ trail \in [Transfers \X StepKinds \X Steps ->
                      ActionStatuses \cup RollbackStatuses \cup {Absent}]
      /\ trail' = [trail EXCEPT ![<<t, kind, s>>] = status]
  BY DEF RunInv, IInv, SagaTypes, Write
<1>2. QED
  BY <1>1 DEF Row

\* A run that writes what became of a step before anything is undone.
LEMMA WritesOn ==
  ASSUME OneRunEach, RunInv, IInv', NEW r \in Runs,
         UNCHANGED <<request, services, execution, announced, late>>,
         run' = [run EXCEPT ![r] = run'[r]],
         NEW s \in Steps, NEW status, Write(TransferOf[r], "ACTION", s, status),
         Untouched(TransferOf[r]), ~Finished(TransferOf[r]),
         execution[TransferOf[r]].status # "COMPLETED", Told(r)'
  PROVE  RunInv'
<1> DEFINE t == TransferOf[r]
<1>1. t \in Transfers /\ Undone' = Undone /\ "ACTION" \in StepKinds
  BY Here DEF StepKinds
<1>2. \A u \in Transfers : u # t =>
        \A k \in StepKinds, v \in Steps : Row(u, k, v)' = Row(u, k, v)
  BY <1>1, RowsWritten
<1>3. \A q \in Runs : q # r => run'[q] = run[q]
  BY Here
<1>4. Lasting(t)'
  BY <1>1, LastingUnasked DEF Untouched, Unasked, Finished
<1>5. QED
  BY <1>1, <1>2, <1>3, <1>4, OwnStep

\* Nothing is undone when a step is written.
LEMMA StaysUntouched ==
  ASSUME RunInv, NEW t \in Transfers, NEW s \in Steps, NEW status,
         Write(t, "ACTION", s, status), UNCHANGED <<request, services, late>>, Untouched(t)
  PROVE  Untouched(t)'
<1>1. \A u \in Steps : Row(t, "COMPENSATION", u)' = Row(t, "COMPENSATION", u)
  BY RowsWritten DEF StepKinds
<1>2. Undone' = Undone
  BY ServicesQuiet DEF RunInv, IInv
<1>3. QED
  BY <1>1, <1>2 DEF Untouched, Unasked

\* A step that succeeds is executed after those before it.
LEMMA RecordSuccessTells ==
  ASSUME OneRunEach, RunInv, IInv', NEW r \in Runs, RecordSuccess(r)
  PROVE  RunInv'
<1> DEFINE t == TransferOf[r]
<1>1. PICK s \in Steps : s = run[r].step
  BY Here
<1>2. /\ run' = [run EXCEPT ![r].pc = "advance"] /\ run[r].pc = "record"
      /\ Write(t, "ACTION", s, "EXECUTED")
      /\ UNCHANGED <<request, services, execution, announced, late>>
  BY <1>1 DEF RecordSuccess, At, Goto, faults
<1>3. Going(r) /\ t \in Transfers
  BY <1>2, Here DEF Told
<1>4. /\ run' = [run EXCEPT ![r] = run'[r]] /\ run'[r].pc = "advance"
      /\ run'[r].failure = run[r].failure /\ run'[r].clean = run[r].clean
      /\ run'[r].step = s
  BY <1>1, <1>2, Here DEF RunState
<1>5. /\ Untouched(t) /\ ~Finished(t) /\ execution[t].status = StatusBefore(s)
      /\ Unfolded(t, Before(s)) /\ run[r].failure = "OK" /\ run[r].clean
  BY <1>1, <1>2, <1>3 DEF Going
<1>6. execution[t].status # "COMPLETED"
  BY <1>5 DEF StatusBefore, Steps
<1>7. Going(r)'
  <2>1. Untouched(t)'
    BY <1>2, <1>3, <1>5, StaysUntouched
  <2>2. Unfolded(t, Before(s) \cup {s})'
    BY <1>2, <1>3, <1>5, RowsWritten DEF Unfolded, StepKinds
  <2>3. QED
    BY <1>2, <1>4, <1>5, <2>1, <2>2 DEF Going, Finished
<1>8. Told(r)'
  BY <1>4, <1>7 DEF Told
<1>9. QED
  BY <1>2, <1>4, <1>5, <1>6, <1>8, WritesOn

\* A step that fails leaves those after it to be skipped.
LEMMA RecordFailureTells ==
  ASSUME OneRunEach, RunInv, IInv', NEW r \in Runs, RecordFailure(r)
  PROVE  RunInv'
<1> DEFINE t == TransferOf[r]
<1>1. PICK s \in Steps : s = run[r].step
  BY Here
<1>2. /\ run' = [run EXCEPT ![r].failure = run[r].outcome, ![r].todo = After(s),
                            ![r].pc = IF After(s) = {} THEN "settle" ELSE "skip"]
      /\ run[r].pc = "record" /\ run[r].outcome # "OK"
      /\ Write(t, "ACTION", s, "FAILED")
      /\ UNCHANGED <<request, services, execution, announced, late>>
  BY <1>1 DEF RecordFailure, At, faults
<1>3. Going(r) /\ t \in Transfers
  BY <1>2, Here DEF Told
<1>4. /\ run' = [run EXCEPT ![r] = run'[r]]
      /\ run'[r].pc = IF After(s) = {} THEN "settle" ELSE "skip"
      /\ run'[r].failure = run[r].outcome /\ run'[r].clean = run[r].clean
      /\ run'[r].step = s /\ run'[r].todo = After(s)
  BY <1>1, <1>2, Here DEF RunState
<1>5. /\ Untouched(t) /\ ~Finished(t) /\ execution[t].status = StatusBefore(s)
      /\ Unfolded(t, Before(s)) /\ Fitting(s, run[r].outcome) /\ run[r].clean
  BY <1>1, <1>2, <1>3 DEF Going
<1>6. execution[t].status # "COMPLETED"
  BY <1>5 DEF StatusBefore, Steps
<1>7. Stopped(r)'
  <2>1. Untouched(t)' /\ ~Finished(t)'
    BY <1>2, <1>3, <1>5, StaysUntouched DEF Finished
  <2>2. Broken(t, s, After(s))'
    <3>1. \A u \in Steps : Row(t, "ACTION", u)' =
            IF u = s THEN "FAILED" ELSE IF u \in Before(s) THEN "EXECUTED" ELSE Absent
      BY <1>2, <1>3, <1>5, RowsWritten DEF Unfolded, StepKinds
    <3>2. QED
      BY <3>1, StepsAround DEF Broken
  <2>3. PICK failure : failure = run[r].outcome
    OBVIOUS
  <2>4. Fitting(s, failure) /\ run'[r].failure = failure
    BY <1>4, <1>5, <2>3
  <2>5. CASE After(s) = {}
    <3>1. Broken(t, s, {})' /\ run'[r].pc = "settle"
      BY <1>4, <2>2, <2>5
    <3>2. QED
      BY <1>2, <1>4, <1>5, <2>1, <2>4, <3>1 DEF Stopped
  <2>6. CASE After(s) # {}
    <3>1. run'[r].pc = "skip"
      BY <1>4, <2>6
    <3>2. QED
      BY <1>2, <1>4, <1>5, <2>1, <2>2, <2>4, <3>1 DEF Stopped
  <2>7. QED
    BY <2>5, <2>6
<1>8. Told(r)'
  BY <1>4, <1>7 DEF Told
<1>9. QED
  BY <1>2, <1>4, <1>5, <1>6, <1>8, WritesOn

\* What is skipped is no longer left; when nothing is left the run settles.
LEMMA SkipTells ==
  ASSUME OneRunEach, RunInv, IInv', NEW r \in Runs, Skip(r)
  PROVE  RunInv'
<1> DEFINE t == TransferOf[r]
<1>1. PICK s \in Steps : s = run[r].step
  BY Here
<1>2. /\ run[r].pc = "skip" /\ run[r].todo \in SUBSET Steps /\ run[r].todo # {}
  BY Here DEF Skip, At, Placed, RunState
<1>3. PICK todo \in SUBSET Steps : todo = run[r].todo
  BY <1>2
<1>4. PICK next \in todo : next = Earliest(run[r].todo)
  BY <1>2, <1>3, ExtremesBelong
<1>5. /\ run' = [run EXCEPT ![r].todo = todo \ {next},
                            ![r].pc = IF todo = {next} THEN "settle" ELSE "skip"]
      /\ Write(t, "ACTION", next, "SKIPPED")
      /\ UNCHANGED <<request, services, execution, announced, late>>
  BY <1>3, <1>4, Here DEF Skip, faults, RunState
<1>6. Stopped(r) /\ t \in Transfers /\ next \in Steps
  BY <1>2, <1>4, Here DEF Told
<1>7. /\ run' = [run EXCEPT ![r] = run'[r]]
      /\ run'[r].pc = IF todo = {next} THEN "settle" ELSE "skip"
      /\ run'[r].failure = run[r].failure /\ run'[r].clean = run[r].clean
      /\ run'[r].step = s /\ run'[r].todo = todo \ {next}
  BY <1>1, <1>5, Here DEF RunState
<1>8. /\ Untouched(t) /\ ~Finished(t) /\ execution[t].status = StatusBefore(s)
      /\ Broken(t, s, todo) /\ Fitting(s, run[r].failure) /\ run[r].clean
      /\ todo \subseteq After(s)
  BY <1>1, <1>2, <1>3, <1>6 DEF Stopped
<1>9. execution[t].status # "COMPLETED"
  BY <1>8 DEF StatusBefore, Steps
<1>10. Stopped(r)'
  <2>1. Untouched(t)' /\ ~Finished(t)'
    BY <1>5, <1>6, <1>8, StaysUntouched DEF Finished
  <2>2. Broken(t, s, todo \ {next})'
    <3>1. next \notin Before(s) /\ next # s
      BY <1>4, <1>8, StepsAround
    <3>2. \A u \in Steps : Row(t, "ACTION", u)' =
            IF u = next THEN "SKIPPED" ELSE Row(t, "ACTION", u)
      BY <1>5, <1>6, RowsWritten DEF StepKinds
    <3>3. QED
      BY <1>8, <3>1, <3>2 DEF Broken
  <2>3. CASE todo = {next}
    <3>1. Broken(t, s, {})' /\ run'[r].pc = "settle"
      BY <1>7, <2>2, <2>3
    <3>2. QED
      BY <1>5, <1>7, <1>8, <2>1, <3>1 DEF Stopped
  <2>4. CASE todo # {next}
    <3>1. run'[r].pc = "skip" /\ todo \ {next} \subseteq After(s)
      BY <1>7, <1>8, <2>4
    <3>2. QED
      BY <1>5, <1>7, <1>8, <2>1, <2>2, <3>1 DEF Stopped
  <2>5. QED
    BY <2>3, <2>4
<1>11. Told(r)'
  BY <1>7, <1>10 DEF Told
<1>12. QED
  BY <1>5, <1>6, <1>7, <1>8, <1>9, <1>11, WritesOn

\* The reversal of a step is written, done or failed, and the step before it is
\* next: what remains to undo is a shorter beginning of the saga.
LEMMA RecordRollbackTells ==
  ASSUME OneRunEach, RunInv, IInv', NEW r \in Runs, RecordRollback(r)
  PROVE  RunInv'
<1> DEFINE t == TransferOf[r]
<1>1. PICK s \in Steps : s = run[r].step
  BY Here
<1>2. PICK outcome : outcome = run[r].outcome
  OBVIOUS
<1>3. PICK status \in RollbackStatuses :
        status = IF outcome = "OK" THEN "COMPENSATED" ELSE "COMPENSATION_FAILED"
  BY DEF RollbackStatuses
<1>4. run[r].pc = "undone" /\ Undoing(r) /\ t \in Transfers /\ Lasting(t)
  BY Here DEF RecordRollback, At, Told
<1>5. run[r].todo = Before(s) \cup {s}
  BY <1>1, <1>4 DEF Undoing
<1>6. (Before(s) \cup {s}) \ {s} = Before(s)
  BY StepsAround
<1>7. PICK next \in Steps : next = IF Before(s) = {} THEN s ELSE Latest(Before(s))
  <2>1. Before(s) # {} => Latest(Before(s)) \in Steps
    BY StepsAround, LatestBefore
  <2>2. QED
    BY <2>1
<1>8. /\ run' = [run EXCEPT
           ![r].todo = Before(s), ![r].clean = @ /\ outcome = "OK",
           ![r].pc = IF Before(s) = {} THEN "close" ELSE "undo",
           ![r].step = next, ![r].attempt = 1]
      /\ Write(t, "COMPENSATION", s, status)
      /\ UNCHANGED <<request, services, execution, announced, late>>
  <2>1. /\ Write(t, "COMPENSATION", s, status)
        /\ UNCHANGED <<request, services, execution, announced, late>>
    BY <1>1, <1>2, <1>3 DEF RecordRollback, faults
  <2>2. run' = [run EXCEPT
          ![r].todo = Before(s),
          ![r].clean = @ /\ run[r].outcome = "OK",
          ![r].pc = IF Before(s) = {} THEN "close" ELSE "undo",
          ![r].step = IF Before(s) = {} THEN @ ELSE Latest(Before(s)),
          ![r].attempt = 1]
    BY <1>1, <1>5, <1>6 DEF RecordRollback
  <2>3. QED
    BY <1>1, <1>2, <1>7, <2>1, <2>2, Here DEF RunState
<1>9. /\ run'[r].todo = Before(s) /\ run'[r].failure = run[r].failure
      /\ run'[r].clean <=> run[r].clean /\ outcome = "OK"
      /\ run'[r].pc = IF Before(s) = {} THEN "close" ELSE "undo"
      /\ run'[r].step = next
      /\ \A q \in Runs : q # r => run'[q] = run[q]
  BY <1>8, Here DEF RunState
<1>10. /\ \A u \in Transfers : u # t =>
            \A k \in StepKinds, v \in Steps : Row(u, k, v)' = Row(u, k, v)
       /\ \A u \in Steps : Row(t, "ACTION", u)' = Row(t, "ACTION", u)
       /\ \A u \in Steps : Row(t, "COMPENSATION", u)' =
                             IF u = s THEN status ELSE Row(t, "COMPENSATION", u)
  <2>1. "ACTION" \in StepKinds /\ "COMPENSATION" \in StepKinds
    BY DEF StepKinds
  <2>2. \A u \in Transfers, k \in StepKinds, v \in Steps :
          Row(u, k, v)' = IF u = t /\ k = "COMPENSATION" /\ v = s THEN status
                          ELSE Row(u, k, v)
    <3>1. Write(t, "COMPENSATION", s, status) /\ t \in Transfers
      BY <1>4, <1>8
    <3> HIDE DEF t
    <3>2. QED
      BY <2>1, <3>1, RowsWritten
  <2>3. QED
    BY <1>4, <2>1, <2>2
<1>11. Undone' = Undone
  BY <1>8, Here
<1>12. PICK f \in Steps \ {FirstStep} :
         /\ Fitting(f, run[r].failure)
         /\ Broken(t, f, {}) /\ run[r].todo \subseteq Before(f)
         /\ \A u \in Steps : IF u \in Before(f) \ run[r].todo
                             THEN Row(t, "COMPENSATION", u) \in RollbackStatuses
                             ELSE Row(t, "COMPENSATION", u) = Absent
         /\ run[r].clean <=> \A u \in Before(f) \ run[r].todo :
                               Row(t, "COMPENSATION", u) = "COMPENSATED"
  BY <1>4 DEF Undoing
<1>13. PICK failure : failure = run[r].failure /\ failure = run'[r].failure
  BY <1>9
<1>14. Undoing(r)'
  <2>1. ~Finished(t)' /\ execution'[t].status = "COMPENSATING"
    BY <1>4, <1>8 DEF Undoing, Finished
  <2>2. Broken(t, f, {})' /\ Before(s) \subseteq Before(f)
    BY <1>5, <1>10, <1>12 DEF Broken
  <2>3. \A u \in Steps : u \in Before(f) \ Before(s) <=> u = s \/ u \in Before(f) \ run[r].todo
    BY <1>5, <1>12, StepsAround
  <2>4. \A u \in Steps : IF u \in Before(f) \ Before(s)
                         THEN Row(t, "COMPENSATION", u)' \in RollbackStatuses
                         ELSE Row(t, "COMPENSATION", u)' = Absent
    BY <1>10, <1>12, <2>3
  <2>5. run'[r].clean <=> \A u \in Before(f) \ Before(s) :
                            Row(t, "COMPENSATION", u)' = "COMPENSATED"
    <3>1. \A u \in Steps : u = s => Row(t, "COMPENSATION", u)' = status
      BY <1>10
    <3>2. \A u \in Before(f) \ run[r].todo :
            Row(t, "COMPENSATION", u)' = Row(t, "COMPENSATION", u)
      BY <1>5, <1>10, StepDomain
    <3>3. status = "COMPENSATED" <=> outcome = "OK"
      BY <1>3
    <3>4. Before(f) \subseteq Steps
      BY StepDomain
    <3>5. QED
      BY <1>9, <1>12, <2>3, <3>1, <3>2, <3>3, <3>4
  <2>6. Before(s) = IF run'[r].pc = "close" THEN {} ELSE Before(next) \cup {next}
    BY <1>7, <1>9, LatestBefore, StepsAround
  <2>7. QED
    BY <1>9, <1>12, <1>13, <2>1, <2>2, <2>4, <2>5, <2>6 DEF Undoing
<1>15. Told(r)'
  BY <1>9, <1>14 DEF Told
<1>16. Lasting(t)'
  <2>1. \A u \in Steps : Rolled(t, u) => Rolled(t, u)'
    <3>1. Absent \notin RollbackStatuses
      BY AbsentAssumption
    <3>2. QED
      BY <1>3, <1>10, <3>1, StepDomain DEF Rolled
  <2>2. ~Finished(t)' /\ execution'[t].status # "COMPLETED"
    BY <1>14 DEF Undoing
  <2>3. \A u \in Undone[t] : u \in Steps
    BY <1>4 DEF Undone
  <2>4. \A m \in late : m.step \in Steps
    BY Here DEF IInv, SagaTypes, Message
  <2>5. QED
    BY <1>4, <1>8, <1>11, <2>1, <2>2, <2>3, <2>4 DEF Lasting
<1>17. QED
  BY <1>8, <1>9, <1>10, <1>11, <1>15, <1>16, OwnStep

\* The rollback begins with the last step executed, nothing undone yet.
LEMMA BeginRollbackTells ==
  ASSUME OneRunEach, RunInv, IInv', NEW r \in Runs, BeginRollback(r)
  PROVE  RunInv'
<1> DEFINE t == TransferOf[r]
<1>1. PICK s \in Steps : s = run[r].step
  BY Here
<1>2. PICK failure : failure = run[r].failure
  OBVIOUS
<1>3. run[r].pc = "resolve" /\ failure # "OK" /\ run[r].todo # {} /\ Stopped(r)
  BY <1>2, Here DEF BeginRollback, At, Told
<1>4. /\ run[r].clean /\ ~Finished(t) /\ Untouched(t) /\ Fitting(s, failure)
      /\ Broken(t, s, {}) /\ run[r].todo = Before(s)
  BY <1>1, <1>2, <1>3 DEF Stopped
<1>5. s # FirstStep
  BY <1>3, <1>4, StepDomain
<1>6. PICK last \in Steps : /\ last = Latest(Before(s))
                            /\ Before(last) \cup {last} = Before(s)
  BY <1>5, LatestBefore
<1>7. /\ run' = [run EXCEPT ![r].pc = "alarm", ![r].step = last, ![r].attempt = 1]
      /\ execution' = [execution EXCEPT ![t].status = "COMPENSATING",
                                        ![t].compensation = "COMPENSATING",
                                        ![t].error = failure]
      /\ UNCHANGED <<request, services, trail, announced, late>>
  BY <1>2, <1>4, <1>6 DEF BeginRollback, faults
<1>8. execution[t] \in Execution /\ t \in Transfers
  BY <1>3, Here, RowWritten
<1>9. /\ execution'[t].status = "COMPENSATING"
      /\ execution'[t].finished = execution[t].finished
      /\ execution' = [execution EXCEPT ![t] = execution'[t]]
      /\ execution[t] # Absent
  BY <1>7, <1>8, Here, AbsentAssumption DEF Execution
<1>10. /\ run' = [run EXCEPT ![r] = run'[r]] /\ run'[r].pc = "alarm"
       /\ run'[r].step = last /\ run'[r].todo = Before(s)
       /\ run'[r].failure = failure /\ run'[r].clean
  BY <1>2, <1>4, <1>7, Here DEF RunState
<1>11. Broken(t, s, {})' /\ Untouched(t)' /\ ~Finished(t)'
  BY <1>4, <1>7, <1>9, Here, TrailStays DEF Finished
<1>12. Undoing(r)'
  BY <1>4, <1>5, <1>6, <1>9, <1>10, <1>11 DEF Undoing, Untouched
<1>13. Told(r)'
  BY <1>10, <1>12 DEF Told
<1>14. Lasting(t)'
  BY <1>8, <1>9, <1>11, LastingUnasked DEF Untouched
<1>15. announced' = [announced EXCEPT ![t] = announced'[t]]
  BY <1>7, Here
<1>16. QED
  BY <1>7, <1>9, <1>10, <1>13, <1>14, <1>15, QuietOwnStep

-----------------------------------------------------------------------------
(* The verdict.                                                            *)

\* What is recorded as executed is what the story of the trail says.
LEMMA ExecutedTold ==
  ASSUME NEW t \in Transfers
  PROVE  /\ Unfolded(t, Steps) => Executed(t) = Steps
         /\ \A s \in Steps : Broken(t, s, {}) => Executed(t) = Before(s)
<1>1. "EXECUTED" # Absent
  BY AbsentAssumption DEF ActionStatuses
<1>2. QED
  BY <1>1, StepDomain DEF Unfolded, Broken, Executed, Row

\* A verdict the trail bears out is one the run may finish with.
LEMMA FinishTells ==
  ASSUME OneRunEach, RunInv, IInv', NEW r \in Runs, NEW status, NEW compensation,
         Finish(r, status, compensation), run[r].pc \in {"resolve", "close"},
         status = Verdict(r), status \in TerminalStatuses,
         status = "COMPLETED" <=> Executed(TransferOf[r]) = Steps,
         compensation = "NOT_REQUIRED" <=> Executed(TransferOf[r]) \in {{}, Steps},
         compensation = "COMPENSATED" =>
           {s \in Steps : Row(TransferOf[r], "COMPENSATION", s) = "COMPENSATED"}
             = Executed(TransferOf[r]),
         compensation = "COMPENSATION_FAILED" =>
           /\ {s \in Steps : Row(TransferOf[r], "COMPENSATION", s) = "COMPENSATION_FAILED"} # {}
           /\ {s \in Steps : Row(TransferOf[r], "COMPENSATION", s) = "COMPENSATED"} \cup
              {s \in Steps : Row(TransferOf[r], "COMPENSATION", s) = "COMPENSATION_FAILED"}
                = Executed(TransferOf[r]),
         status = "COMPLETED" => Unfolded(TransferOf[r], Steps) /\ Unasked(TransferOf[r]),
         status # "COMPLETED" => \E s \in Steps : Broken(TransferOf[r], s, {})
  PROVE  RunInv'
<1> DEFINE t == TransferOf[r]
           error == IF run[r].failure = "OK" THEN execution[t].error ELSE run[r].failure
           row == [status |-> status, compensation |-> compensation, current |-> "NONE",
                   error |-> error, finished |-> TRUE]
<1>1. /\ execution' = [execution EXCEPT ![t] = row]
      /\ run' = [run EXCEPT ![r].pc = "report"]
      /\ UNCHANGED <<request, services, trail, announced, late>>
  BY DEF Finish, Goto, faults
<1>2. /\ t \in Transfers /\ Lasting(t) /\ Undone' = Undone
  BY <1>1, Here
<1>3. execution' = [execution EXCEPT ![t] = execution'[t]] /\ execution'[t] = row
  BY <1>1, Here
<1>4. /\ execution'[t].status = status /\ execution'[t].compensation = compensation
      /\ execution'[t].current = "NONE" /\ execution'[t].finished
  BY <1>3
<1>5. /\ run' = [run EXCEPT ![r] = run'[r]] /\ run'[r].pc = "report"
      /\ run'[r].failure = run[r].failure
  BY <1>1, Here DEF RunState
<1>6. Finished(t)'
  <2>1. execution'[t] # Absent
    BY <1>2, <1>5 DEF IInv, Placed
  <2>2. QED
    BY <1>4, <2>1 DEF Finished
<1>7. Told(r)'
  <2>1. Verdict(r)' = status
    BY <1>5 DEF Verdict
  <2>2. Settled(r)'
    BY <1>4, <1>5, <1>6, <2>1 DEF Settled, At
  <2>3. QED
    BY <1>5, <2>2 DEF Told
<1>8. Lasting(t)'
  <2>1. /\ \A s : Broken(t, s, {}) => Broken(t, s, {})'
        /\ Unfolded(t, Steps) => Unfolded(t, Steps)'
        /\ Unasked(t) => Unasked(t)'
        /\ \A s : Rolled(t, s) => Rolled(t, s)'
    BY <1>1, <1>2 DEF Broken, Unfolded, Unasked, Rolled, Row
  <2>2. Executed(t)' = Executed(t)
    BY <1>1 DEF Executed
  <2>3. \A x : {s \in Steps : Row(t, "COMPENSATION", s)' = x} =
               {s \in Steps : Row(t, "COMPENSATION", s) = x}
    BY <1>1 DEF Row
  <2>4. Concluded(t)'
    <3> HIDE DEF t
    <3>1. (status # "COMPLETED" => \E s \in Steps : Broken(t, s, {})')
      BY <2>1 DEF t
    <3>2. QED
      BY <1>4, <2>2, <2>3, <3>1 DEF Concluded, t
  <2>5. \A s \in Undone'[t] : Rolled(t, s)'
    BY <1>2, <2>1 DEF Lasting
  <2>6. \A m \in late' : TransferOf[m.run] = t /\ m.kind = "COMPENSATION" =>
                           Rolled(t, m.step)'
    BY <1>1, <1>2, <2>1 DEF Lasting
  <2>7. QED
    BY <1>4, <2>1, <2>4, <2>5, <2>6 DEF Lasting
<1>9. announced' = [announced EXCEPT ![t] = announced'[t]]
  BY <1>1, Here
<1>10. QED
  BY <1>1, <1>3, <1>5, <1>7, <1>8, <1>9, QuietOwnStep

\* A run whose steps all succeeded completes its transfer.
LEMMA CompleteTells ==
  ASSUME OneRunEach, RunInv, IInv', NEW r \in Runs, Complete(r)
  PROVE  RunInv'
<1> DEFINE t == TransferOf[r]
<1>1. /\ run[r].pc = "resolve" /\ run[r].failure = "OK" /\ Stopped(r) /\ t \in Transfers
      /\ Finish(r, Verdict(r), "NOT_REQUIRED")
  BY Here DEF Complete, At, Told
<1>2. Unfolded(t, Steps) /\ Unasked(t)
  BY <1>1 DEF Stopped, Untouched, Fitting
<1>3. Executed(t) = Steps
  BY <1>1, <1>2, ExecutedTold
<1>4. Verdict(r) = "COMPLETED" /\ "COMPLETED" \in TerminalStatuses
  BY <1>1 DEF Verdict, TerminalStatuses
<1>5. QED
  BY <1>1, <1>2, <1>3, <1>4, FinishTells

\* What a failed run ends in is terminal and no success.
LEMMA VerdictFails ==
  ASSUME NEW r \in Runs, run[r].failure # "OK"
  PROVE  Verdict(r) \in TerminalStatuses /\ Verdict(r) # "COMPLETED"
  BY DEF Verdict, OutcomeFor, TerminalStatuses

\* A run that failed with nothing executed rejects its transfer.
LEMMA RejectTells ==
  ASSUME OneRunEach, RunInv, IInv', NEW r \in Runs, Reject(r)
  PROVE  RunInv'
<1> DEFINE t == TransferOf[r]
<1>1. /\ run[r].pc = "resolve" /\ run[r].failure # "OK" /\ run[r].todo = {}
      /\ Stopped(r) /\ t \in Transfers /\ run[r].step \in Steps
      /\ Finish(r, Verdict(r), "NOT_REQUIRED")
  BY Here DEF Reject, At, Told
<1>2. Broken(t, run[r].step, {}) /\ Before(run[r].step) = {}
  BY <1>1 DEF Stopped
<1>3. Executed(t) = {} /\ Executed(t) # Steps
  BY <1>1, <1>2, ExecutedTold DEF Steps
<1>4. Verdict(r) \in TerminalStatuses /\ Verdict(r) # "COMPLETED"
  BY <1>1, VerdictFails
<1>5. QED
  BY <1>1, <1>2, <1>3, <1>4, FinishTells

\* A run that has tried every reversal says whether they all went through.
LEMMA CloseTells ==
  ASSUME OneRunEach, RunInv, IInv', NEW r \in Runs, Close(r)
  PROVE  RunInv'
<1> DEFINE t == TransferOf[r]
           undone(x) == {s \in Steps : Row(t, "COMPENSATION", s) = x}
<1>1. /\ run[r].pc = "close" /\ Undoing(r) /\ t \in Transfers
  BY Here DEF Close, At, Told
<1>2. PICK compensation :
        /\ compensation = IF run[r].clean THEN "COMPENSATED" ELSE "COMPENSATION_FAILED"
        /\ Finish(r, Verdict(r), compensation)
  BY DEF Close
<1>3. PICK f \in Steps \ {FirstStep} :
        /\ Fitting(f, run[r].failure) /\ Broken(t, f, {})
        /\ \A u \in Steps : IF u \in Before(f)
                            THEN Row(t, "COMPENSATION", u) \in RollbackStatuses
                            ELSE Row(t, "COMPENSATION", u) = Absent
        /\ run[r].clean <=> \A u \in Before(f) :
                              Row(t, "COMPENSATION", u) = "COMPENSATED"
  <2>1. run[r].todo = {}
    BY <1>1 DEF Undoing
  <2>2. QED
    BY <1>1, <2>1 DEF Undoing
<1>4. Executed(t) = Before(f) /\ Before(f) # {} /\ Before(f) # Steps /\ Before(f) \subseteq Steps
  BY <1>1, <1>3, ExecutedTold, StepsAround, StepDomain
<1>5. Verdict(r) \in TerminalStatuses /\ Verdict(r) # "COMPLETED"
  BY <1>3, VerdictFails DEF Fitting
<1>6. Absent # "COMPENSATED" /\ Absent # "COMPENSATION_FAILED"
  BY AbsentAssumption DEF RollbackStatuses
<1>7. \A u \in Steps : \/ u \in Before(f) /\ Row(t, "COMPENSATION", u) = "COMPENSATED"
                       \/ u \in Before(f) /\ Row(t, "COMPENSATION", u) = "COMPENSATION_FAILED"
                       \/ u \notin Before(f) /\ Row(t, "COMPENSATION", u) = Absent
  BY <1>3 DEF RollbackStatuses
<1>8. undone("COMPENSATED") \cup undone("COMPENSATION_FAILED") = Before(f)
  BY <1>4, <1>6, <1>7
<1>9. run[r].clean => undone("COMPENSATED") = Before(f)
  BY <1>3, <1>4, <1>6, <1>7
<1>10. ~run[r].clean => undone("COMPENSATION_FAILED") # {}
  BY <1>3, <1>4, <1>7
<1>11. Executed(t) \notin {{}, Steps} /\ compensation # "NOT_REQUIRED"
  BY <1>2, <1>4
<1>12. compensation = "COMPENSATED" => undone("COMPENSATED") = Executed(t)
  BY <1>2, <1>4, <1>9
<1>13. compensation = "COMPENSATION_FAILED" =>
         /\ undone("COMPENSATION_FAILED") # {}
         /\ undone("COMPENSATED") \cup undone("COMPENSATION_FAILED") = Executed(t)
  BY <1>2, <1>4, <1>8, <1>10
<1>14. QED
  BY <1>1, <1>2, <1>3, <1>4, <1>5, <1>11, <1>12, <1>13, FinishTells

-----------------------------------------------------------------------------
(* The invariant holds.                                                    *)

\* Before anything happens nothing is written, done or asked for.
LEMMA InitTells == Init => RunInv
<1> SUFFICES ASSUME Init
             PROVE  RunInv
  OBVIOUS
<1>1. IInv
  BY InitPlaces
<1>2. \A t \in Transfers : execution[t] = Absent /\ Undone[t] = {}
  BY ServicesStart DEF Init, StoreInit
<1>3. \A t \in Transfers, k \in StepKinds, s \in Steps : Row(t, k, s) = Absent
  BY DEF Init, StoreInit, Row
<1>4. late = {}
  BY DEF Init
<1>5. \A t \in Transfers : Unasked(t) /\ ~Finished(t) /\ Untouched(t) /\ Lasting(t)
  BY <1>2, <1>3, <1>4 DEF Unasked, Untouched, Finished, Lasting, StepKinds
<1>6. ASSUME NEW r \in Runs
      PROVE  Told(r)
  <2>1. run[r] = NewRun /\ TransferOf[r] \in Transfers
    BY OrchestrationAssumption DEF Init
  <2>2. /\ run[r].pc = "new" /\ run[r].step = FirstStep /\ run[r].failure = "OK"
        /\ run[r].clean
    BY <2>1 DEF NewRun
  <2>3. Unfolded(TransferOf[r], Before(FirstStep))
    BY <1>3, <2>1, StepDomain DEF Unfolded, StepKinds
  <2>4. Going(r)
    BY <1>2, <1>5, <2>1, <2>2, <2>3 DEF Going
  <2>5. QED
    BY <2>2, <2>4 DEF Told
<1>7. QED
  BY <1>1, <1>5, <1>6 DEF RunInv

\* Every step, of a run, of a service or of a fault, keeps the invariant.
LEMMA NextTells == OneRunEach /\ RunInv /\ [Next]_vars => RunInv'
<1> SUFFICES ASSUME OneRunEach, RunInv, [Next]_vars
             PROVE  RunInv'
  OBVIOUS
<1>1. IInv'
  BY NextPlaces DEF RunInv
<1>2. ASSUME NEW r \in Runs, Step(r) \/ Die(r)
      PROVE  RunInv'
  BY <1>1, <1>2, StartTells, NeverReplayed, NotifyTells, EnterTells, AnsweredTells,
     RetryTells, GiveUpTells, RecordSuccessTells, RecordFailureTells, AdvanceTells,
     SkipTells, SettleTells, CompleteTells, RejectTells, BeginRollbackTells,
     RecordRollbackTells, CloseTells, DieTells DEF Step
<1>3. ASSUME NEW m \in late, ExecuteLate(m)
      PROVE  RunInv'
  BY <1>1, <1>3, ExecuteLateTells
<1>4. ASSUME UNCHANGED vars
      PROVE  RunInv'
  <2>1. UNCHANGED <<request, services, execution, trail, announced, run, late>>
    BY <1>4 DEF vars, services
  <2>2. Undone' = Undone
    BY <2>1, ServicesQuiet DEF RunInv, IInv
  <2>3. \A t \in Transfers, k \in StepKinds, s \in Steps : Row(t, k, s)' = Row(t, k, s)
    BY <2>1 DEF Row
  <2>4. \A t \in Transfers : Unasked(t) => Unasked(t)'
    BY <2>1, <2>2 DEF Unasked
  <2>5. ASSUME NEW q \in Runs
        PROVE  Told(q)'
    <3>1. TransferOf[q] \in Transfers /\ Told(q)
      BY Here
    <3>2. QED
      BY <2>1, <2>3, <2>4, <3>1, ToldStays
  <2>6. ASSUME NEW t \in Transfers
        PROVE  Lasting(t)'
    <3>1. Lasting(t)
      BY DEF RunInv
    <3>2. QED
      BY <2>1, <2>2, <2>3, <2>4, <3>1, LastingStays
  <2>7. QED
    BY <1>1, <2>5, <2>6 DEF RunInv
<1>5. QED
  BY <1>2, <1>3, <1>4 DEF Next, Rest

\* The invariant holds wherever transfers have one run each.
LEMMA RunInvariance == OneRunEach => (Spec => []RunInv)
<1>1. SUFFICES ASSUME OneRunEach
               PROVE  Spec => []RunInv
  OBVIOUS
<1>2. RunInv /\ [Next]_vars => RunInv'
  BY <1>1, NextTells
<1>3. QED
  BY <1>2, InitTells, PTL DEF Spec

-----------------------------------------------------------------------------
(* What follows.                                                           *)

\* The rollback runs strictly backwards: no step is undone at its service, by a
\* call in time or a late one, before the reversal of every later executed step
\* was tried and written.
THEOREM RollbackBackwards == OneRunEach => (Spec => []RollbackInReverse)
<1>1. SUFFICES ASSUME OneRunEach
               PROVE  Spec => []RollbackInReverse
  OBVIOUS
<1>2. RunInv => RollbackInReverse
  <2>1. ASSUME RunInv, NEW t \in Transfers, NEW s \in Steps, Reverted(t, s)
        PROVE  Rolled(t, s)
    BY <2>1 DEF RunInv, Lasting, Undone
  <2>2. QED
    BY <2>1 DEF RollbackInReverse, Rolled
<1>3. Spec => []RunInv
  BY <1>1, RunInvariance
<1>4. QED
  BY <1>2, <1>3, PTL

\* What a finished execution says of its transfer is what its trail says step by
\* step, also when reversals failed or a run died on the way.
THEOREM VerdictTrue == OneRunEach => (Spec => []VerdictMatchesTrail)
<1>1. SUFFICES ASSUME OneRunEach
               PROVE  Spec => []VerdictMatchesTrail
  OBVIOUS
<1>2. RunInv => VerdictMatchesTrail
  <2>1. ASSUME RunInv, NEW t \in Transfers, Finished(t)
        PROVE  Concluded(t)
    BY <2>1 DEF RunInv, Lasting
  <2>2. ASSUME NEW t \in Transfers, NEW s \in Steps, Broken(t, s, {})
        PROVE  /\ Row(t, "ACTION", s) = "FAILED"
               /\ Executed(t) = Before(s)
               /\ \A u \in After(s) : Row(t, "ACTION", u) = "SKIPPED"
    <3>1. Executed(t) = Before(s)
      BY <2>2, ExecutedTold
    <3>2. QED
      BY <2>2, <3>1, StepsAround, StepDomain DEF Broken
  <2>3. QED
    BY <2>1, <2>2 DEF VerdictMatchesTrail, Concluded
<1>3. Spec => []RunInv
  BY <1>1, RunInvariance
<1>4. QED
  BY <1>2, <1>3, PTL

\* A transfer said to be completed is paid for on both sides, now and after.
THEOREM CompletedMoved == OneRunEach => (Spec => []CompletedMeansMoved)
<1>1. SUFFICES ASSUME OneRunEach
               PROVE  Spec => []CompletedMeansMoved
  OBVIOUS
<1>2. RunInv => CompletedMeansMoved
  <2>1. ASSUME RunInv, NEW t \in Transfers, execution[t] # Absent,
               execution[t].status = "COMPLETED", NEW s \in Steps
        PROVE  Standing(t, s)
    <3>1. Unfolded(t, Steps) /\ Unasked(t)
      BY <2>1 DEF RunInv, Lasting
    <3>2. trail[<<t, "ACTION", s>>] = "EXECUTED" /\ Undone[t] = {}
      BY <3>1 DEF Unfolded, Unasked, Row
    <3>3. Committed(t, s) /\ ~Reverted(t, s)
      BY <2>1, <3>2 DEF RunInv, IInv, Audited, Done, Undone
    <3>4. QED
      BY <3>3 DEF Standing
  <2>2. QED
    BY <2>1 DEF CompletedMeansMoved
<1>3. Spec => []RunInv
  BY <1>1, RunInvariance
<1>4. QED
  BY <1>2, <1>3, PTL

-----------------------------------------------------------------------------
(* What a step does to the row of its transfer.                            *)

\* The row of a transfer is created, or moves on while it is not final, or is
\* announced as it is: an outcome, when it is final.
Moved(t) ==
  \/ UNCHANGED <<execution, announced>>
  \/ /\ execution[t] = Absent
     /\ execution' = [execution EXCEPT ![t] = NewExecution]
     /\ UNCHANGED announced
  \/ /\ execution[t] \in Execution /\ ~execution[t].finished
     /\ \E row \in Execution :
          /\ execution' = [execution EXCEPT ![t] = row]
          /\ \/ row.status = execution[t].status
             \/ row.status \in Successors(execution[t].status)
          /\ row.finished => row.status \in TerminalStatuses
     /\ UNCHANGED announced
  \/ /\ execution[t] \in Execution
     /\ execution[t].status \in TerminalStatuses => execution[t].finished
     /\ announced' = [announced EXCEPT ![t] = GatewayStatus(execution[t].status)]
     /\ UNCHANGED execution

\* Each status of the coordinator has the next one, a rollback or an early
\* rejection among its successors.
LEMMA Leads ==
  /\ \A s \in Steps : StatusAfter[s] \in Successors(StatusBefore(s))
  /\ \A s \in Steps \ {FirstStep} : "COMPENSATING" \in Successors(StatusBefore(s))
  /\ {"REJECTED_FUNDS", "FAILED"} \subseteq Successors(StatusBefore(FirstStep))
  /\ {"REJECTED_RISK", "REJECTED_NETWORK", "FAILED"} \subseteq Successors("COMPENSATING")
  /\ Successors("COMPLETED") = {}
  BY DEF Steps, FirstStep, StatusAfter, StatusBefore, Successors

\* A run at work after a step of its own has its row.
LEMMA RowKept ==
  ASSUME RunInv', NEW r \in Runs, run'[r].pc \notin {"new", "done", "dead"}
  PROVE  execution'[TransferOf[r]] \in Execution
<1>1. Placed(r)' /\ execution' \in [Transfers -> Execution \cup {Absent}]
  BY DEF RunInv, IInv, SagaTypes
<1>2. TransferOf[r] \in Transfers
  BY OrchestrationAssumption
<1>3. QED
  BY <1>1, <1>2 DEF Placed

\* A row that a run rewrites moves on, and to a verdict when it is final.
LEMMA Rewrites ==
  ASSUME RunInv, RunInv', NEW r \in Runs, run[r].pc \notin {"new", "done", "dead"},
         run'[r].pc \notin {"new", "done", "dead"}, ~Finished(TransferOf[r]),
         execution' = [execution EXCEPT ![TransferOf[r]] = execution'[TransferOf[r]]],
         UNCHANGED announced, NEW status, status = execution'[TransferOf[r]].status,
         \/ status = execution[TransferOf[r]].status
         \/ status \in Successors(execution[TransferOf[r]].status),
         execution'[TransferOf[r]].finished => status \in TerminalStatuses
  PROVE  Moved(TransferOf[r])
<1> DEFINE t == TransferOf[r]
<1>1. execution[t] \in Execution /\ execution'[t] \in Execution
  BY Here, RowWritten, RowKept
<1>2. ~execution[t].finished
  BY <1>1, AbsentAssumption DEF Finished
<1>3. PICK row \in Execution : row = execution'[t]
  BY <1>1
<1>4. execution' = [execution EXCEPT ![t] = row]
  BY <1>3
<1>5. QED
  BY <1>1, <1>2, <1>3, <1>4 DEF Moved

\* Of its own accord a run moves the row of its transfer and no other.
LEMMA RunMoves ==
  ASSUME RunInv, RunInv', NEW r \in Runs, Step(r)
  PROVE  Moved(TransferOf[r])
<1> DEFINE t == TransferOf[r]
<1>1. t \in Transfers /\ run[r].step \in Steps /\ run \in [Runs -> RunState]
  BY Here
<1>2. CASE Start(r)
  <2>1. execution[t] = Absent
    BY <1>2, Here DEF Start, At, Told, Going
  <2>2. execution' = [execution EXCEPT ![t] = NewExecution] /\ UNCHANGED announced
    BY <1>2, <2>1, Here DEF Start
  <2>3. QED
    BY <2>1, <2>2 DEF Moved
<1>3. CASE Notify(r)
  <2>1. /\ announced' = [announced EXCEPT ![t] = GatewayStatus(Said(r))]
        /\ UNCHANGED execution /\ run[r].pc \in {"greet", "tell", "alarm", "report"}
    BY <1>3 DEF Notify, Announce
  <2>2. Said(r) = execution[t].status /\ (Said(r) \in TerminalStatuses => Finished(t))
    <3>1. CASE run[r].pc = "greet"
      <4>1. Going(r) /\ run[r].step = FirstStep
        BY <3>1, Here DEF Told, Placed
      <4>2. execution[t].status = "PENDING"
        BY <3>1, <4>1, StatusesFollow DEF Going
      <4>3. QED
        BY <3>1, <4>2 DEF Said, At, TerminalStatuses
    <3>2. CASE run[r].pc = "tell"
      <4>1. Going(r) /\ run[r].step # LastStep
        BY <3>2, Here DEF Told, Placed
      <4>2. StatusAfter[run[r].step] \in {"DEBITED", "RISK_APPROVED", "CLEARING_PENDING"}
        BY <1>1, <4>1, StatusesFollow
      <4>3. Said(r) = StatusAfter[run[r].step]
        BY <3>2 DEF Said, At
      <4>4. QED
        BY <3>2, <4>1, <4>2, <4>3 DEF Going, TerminalStatuses
    <3>3. CASE run[r].pc = "alarm"
      BY <3>3, Here DEF Said, At, Told, Undoing, TerminalStatuses
    <3>4. CASE run[r].pc = "report"
      BY <3>4, Here DEF Said, At, Told, Settled
    <3>5. QED
      BY <2>1, <3>1, <3>2, <3>3, <3>4
  <2>3. execution[t] \in Execution
    BY <2>1, Here, RowWritten
  <2>4. QED
    BY <2>1, <2>2, <2>3 DEF Moved, Finished
<1>4. CASE Enter(r)
  <2>1. /\ execution' = [execution EXCEPT ![t].current = run[r].step]
        /\ run' = [run EXCEPT ![r].pc = "call", ![r].attempt = 1] /\ run[r].pc = "enter"
        /\ UNCHANGED announced
    BY <1>4 DEF Enter, At
  <2>2. execution[t] \in Execution /\ ~Finished(t) /\ run'[r].pc = "call"
    BY <1>1, <2>1, Here, RowWritten DEF Told, Going, RunState
  <2>3. /\ execution' = [execution EXCEPT ![t] = execution'[t]]
        /\ execution'[t].status = execution[t].status
        /\ execution'[t].finished = execution[t].finished
    BY <2>1, <2>2, Here DEF Execution
  <2>4. ~execution'[t].finished
    BY <2>2, <2>3, AbsentAssumption DEF Finished
  <2>5. QED
    BY <2>1, <2>2, <2>3, <2>4, Rewrites
<1>5. CASE Advance(r)
  <2>1. /\ execution' = [execution EXCEPT ![t].status = StatusAfter[run[r].step]]
        /\ run[r].pc = "advance" /\ UNCHANGED announced
        /\ run' = [run EXCEPT ![r].pc = IF run[r].step = LastStep THEN "settle" ELSE "tell"]
    BY <1>5 DEF Advance, At, Goto
  <2>2. /\ execution[t] \in Execution /\ ~Finished(t) /\ run'[r].pc \in {"settle", "tell"}
        /\ execution[t].status = StatusBefore(run[r].step)
    BY <1>1, <2>1, Here, RowWritten DEF Told, Going, RunState
  <2>3. /\ execution' = [execution EXCEPT ![t] = execution'[t]]
        /\ execution'[t].status = StatusAfter[run[r].step]
        /\ execution'[t].finished = execution[t].finished
    BY <2>1, <2>2, Here DEF Execution
  <2>4. ~execution'[t].finished
    BY <2>2, <2>3, AbsentAssumption DEF Finished
  <2>5. StatusAfter[run[r].step] \in Successors(execution[t].status)
    BY <1>1, <2>2, Leads
  <2>6. QED
    BY <2>1, <2>2, <2>3, <2>4, <2>5, Rewrites
<1>6. CASE BeginRollback(r)
  <2>1. /\ execution' = [execution EXCEPT ![t].status = "COMPENSATING",
                                          ![t].compensation = "COMPENSATING",
                                          ![t].error = run[r].failure]
        /\ run[r].pc = "resolve" /\ run[r].failure # "OK" /\ run[r].todo # {}
        /\ UNCHANGED announced
        /\ run' = [run EXCEPT ![r].pc = "alarm", ![r].step = Latest(run[r].todo),
                              ![r].attempt = 1]
    BY <1>6 DEF BeginRollback, At
  <2>2. /\ execution[t] \in Execution /\ ~Finished(t) /\ run'[r].pc = "alarm"
        /\ execution[t].status = StatusBefore(run[r].step) /\ run[r].step # FirstStep
    <3>1. Stopped(r) /\ execution[t] \in Execution
      BY <2>1, Here, RowWritten DEF Told
    <3>2. run'[r].pc = "alarm"
      BY <1>1, <2>1 DEF RunState
    <3>3. QED
      BY <2>1, <3>1, <3>2, StepDomain DEF Stopped
  <2>3. /\ execution' = [execution EXCEPT ![t] = execution'[t]]
        /\ execution'[t].status = "COMPENSATING"
        /\ execution'[t].finished = execution[t].finished
    BY <2>1, <2>2, Here DEF Execution
  <2>4. ~execution'[t].finished
    BY <2>2, <2>3, AbsentAssumption DEF Finished
  <2>5. "COMPENSATING" \in Successors(execution[t].status)
    BY <1>1, <2>2, Leads
  <2>6. QED
    BY <2>1, <2>2, <2>3, <2>4, <2>5, Rewrites
<1>7. CASE Complete(r) \/ Reject(r) \/ Close(r)
  <2>1. PICK compensation : Finish(r, Verdict(r), compensation)
    BY <1>7 DEF Complete, Reject, Close
  <2>2. /\ execution' = [execution EXCEPT ![t] = execution'[t]]
        /\ execution'[t].status = Verdict(r)
        /\ run' = [run EXCEPT ![r].pc = "report"] /\ UNCHANGED announced
    BY <1>1, <2>1, Here DEF Finish, Goto
  <2>3. run'[r].pc = "report" /\ run[r].pc \in {"resolve", "close"}
    BY <1>1, <1>7, <2>2 DEF RunState, Complete, Reject, Close, At
  <2>4. ~Finished(t)
    BY <2>3, Here DEF Told, Stopped, Undoing
  <2>5. Verdict(r) \in TerminalStatuses
    BY VerdictFails DEF Verdict, TerminalStatuses
  <2>6. \/ Verdict(r) = execution[t].status
        \/ Verdict(r) \in Successors(execution[t].status)
    <3>1. CASE Complete(r)
      BY <3>1, Here DEF Complete, At, Told, Stopped, Fitting, Verdict
    <3>2. CASE Reject(r)
      <4>1. /\ run[r].failure # "OK" /\ Fitting(run[r].step, run[r].failure)
            /\ Before(run[r].step) = {} /\ execution[t].status = StatusBefore(run[r].step)
        BY <3>2, Here DEF Reject, At, Told, Stopped
      <4>2. run[r].step = FirstStep
        BY <1>1, <4>1, StepsAround
      <4>3. Verdict(r) \in {"REJECTED_FUNDS", "FAILED"}
        BY <4>1, <4>2 DEF Fitting, FirstStep, Verdict
      <4>4. QED
        BY <4>1, <4>2, <4>3, Leads
    <3>3. CASE Close(r)
      <4>1. /\ execution[t].status = "COMPENSATING"
            /\ \E s \in Steps \ {FirstStep} : Fitting(s, run[r].failure)
        BY <3>3, Here DEF Close, At, Told, Undoing
      <4>2. /\ run[r].failure # "OK" /\ OutcomeFor(run[r].failure) # "REJECTED_FUNDS"
        BY <4>1 DEF Fitting, FirstStep
      <4>3. Verdict(r) \in {"REJECTED_RISK", "REJECTED_NETWORK", "FAILED"}
        BY <4>2 DEF Verdict, OutcomeFor
      <4>4. QED
        BY <4>1, <4>3, Leads
    <3>4. QED
      BY <1>7, <3>1, <3>2, <3>3
  <2>7. QED
    BY <2>2, <2>3, <2>4, <2>5, <2>6, Rewrites
<1>8. CASE UNCHANGED <<execution, announced>>
  BY <1>8 DEF Moved
<1>9. ~Replay(r)
  BY NeverReplayed
<1>10. QED
  BY <1>2, <1>3, <1>4, <1>5, <1>6, <1>7, <1>8, <1>9
     DEF Step, Answered, Retry, GiveUp, RecordSuccess, RecordFailure, Skip, Settle,
         RecordRollback, saga

\* A run writes in the trail of its own transfer, and only before the verdict.
LEMMA RunWrites ==
  ASSUME RunInv, NEW r \in Runs, Step(r)
  PROVE  \/ UNCHANGED trail
         \/ /\ ~Finished(TransferOf[r])
            /\ \A u \in Transfers : u # TransferOf[r] =>
                 \A k \in StepKinds, v \in Steps : Row(u, k, v)' = Row(u, k, v)
<1> DEFINE t == TransferOf[r]
<1>1. t \in Transfers /\ "ACTION" \in StepKinds /\ "COMPENSATION" \in StepKinds
  BY Here DEF StepKinds
<1>2. CASE RecordSuccess(r) \/ RecordFailure(r)
  <2>1. PICK status : Write(t, "ACTION", run[r].step, status)
    BY <1>2 DEF RecordSuccess, RecordFailure
  <2>2. ~Finished(t) /\ run[r].step \in Steps
    BY <1>2, Here DEF RecordSuccess, RecordFailure, At, Told, Going
  <2>3. QED
    BY <1>1, <2>1, <2>2, RowsWritten
<1>3. CASE Skip(r)
  <2>1. PICK s \in Steps : Write(t, "ACTION", s, "SKIPPED")
    <3>1. run[r].todo \in SUBSET Steps /\ run[r].todo # {}
      BY <1>3, Here DEF Skip, At, Placed, RunState
    <3>2. Earliest(run[r].todo) \in Steps
      BY <3>1, ExtremesBelong
    <3>3. QED
      BY <1>3, <3>2 DEF Skip
  <2>2. ~Finished(t)
    BY <1>3, Here DEF Skip, At, Told, Stopped
  <2>3. QED
    BY <1>1, <2>1, <2>2, RowsWritten
<1>4. CASE RecordRollback(r)
  <2>1. PICK status : Write(t, "COMPENSATION", run[r].step, status)
    BY <1>4 DEF RecordRollback
  <2>2. ~Finished(t) /\ run[r].step \in Steps
    BY <1>4, Here DEF RecordRollback, At, Told, Undoing
  <2>3. QED
    BY <1>1, <2>1, <2>2, RowsWritten
<1>5. QED
  BY <1>2, <1>3, <1>4
     DEF Step, Start, Replay, Notify, Enter, Answered, Retry, GiveUp, Advance, Settle,
         Complete, Reject, BeginRollback, Close, Finish, saga

\* Of all the steps there are, those of a run of the transfer touch its row, its
\* announcement and its trail.
LEMMA EveryMove ==
  ASSUME RunInv, RunInv', [Next]_vars
  PROVE  /\ \/ UNCHANGED <<execution, announced>>
            \/ \E t \in Transfers : Moved(t)
         /\ \A t \in Transfers : Finished(t) =>
              \A k \in StepKinds, s \in Steps : Row(t, k, s)' = Row(t, k, s)
<1>1. ASSUME NEW r \in Runs, Step(r)
      PROVE  /\ \E t \in Transfers : Moved(t)
             /\ \A t \in Transfers : Finished(t) =>
                  \A k \in StepKinds, s \in Steps : Row(t, k, s)' = Row(t, k, s)
  <2>1. TransferOf[r] \in Transfers /\ Moved(TransferOf[r])
    BY <1>1, Here, RunMoves
  <2>2. UNCHANGED trail => \A t \in Transfers, k \in StepKinds, s \in Steps :
                             Row(t, k, s)' = Row(t, k, s)
    BY DEF Row
  <2>3. QED
    BY <1>1, <2>1, <2>2, RunWrites
<1>2. ASSUME UNCHANGED <<execution, announced, trail>>
      PROVE  \A t \in Transfers, k \in StepKinds, s \in Steps : Row(t, k, s)' = Row(t, k, s)
  BY <1>2 DEF Row
<1>3. \/ \E r \in Runs : Step(r)
      \/ UNCHANGED <<execution, announced, trail>>
  BY DEF Next, Die, ExecuteLate, Rest, saga, vars
<1>4. QED
  BY <1>1, <1>2, <1>3

\* A finished execution is never written again, nor is its trail: a late answer
\* or a run that outlives its verdict changes neither.
THEOREM FinishedStays == OneRunEach => (Spec => FinishedIsFinal)
<1>1. SUFFICES ASSUME OneRunEach
               PROVE  Spec => FinishedIsFinal
  OBVIOUS
<1>2. RunInv /\ RunInv' /\ [Next]_vars =>
        [\A t \in Transfers : Finished(t) =>
           /\ execution'[t] = execution[t]
           /\ \A kind \in StepKinds, s \in Steps : trail'[<<t, kind, s>>] = Row(t, kind, s)]_vars
  <2>1. ASSUME RunInv, RunInv', [Next]_vars, NEW t \in Transfers, Finished(t)
        PROVE  /\ execution'[t] = execution[t]
               /\ \A kind \in StepKinds, s \in Steps :
                    trail'[<<t, kind, s>>] = Row(t, kind, s)
    <3>1. execution'[t] = execution[t]
      <4>1. execution \in [Transfers -> Execution \cup {Absent}]
        BY <2>1 DEF RunInv, IInv, SagaTypes
      <4>2. ASSUME NEW u \in Transfers, Moved(u)
            PROVE  execution'[t] = execution[t]
        BY <2>1, <4>1, <4>2, AbsentAssumption DEF Moved, Finished
      <4>3. QED
        BY <2>1, <4>2, EveryMove
    <3>2. \A kind \in StepKinds, s \in Steps : trail'[<<t, kind, s>>] = Row(t, kind, s)
      BY <2>1, EveryMove DEF Row
    <3>3. QED
      BY <3>1, <3>2
  <2>2. QED
    BY <2>1
<1>3. Spec => []RunInv
  BY <1>1, RunInvariance
<1>4. QED
  BY <1>2, <1>3, PTL DEF Spec, FinishedIsFinal

\* An execution moves only along the table of the design document, one status
\* at a time, and never leaves a terminal status.
THEOREM StatusKeepsToTheTable == OneRunEach => (Spec => StatusFollowsTheTable)
<1>1. SUFFICES ASSUME OneRunEach
               PROVE  Spec => StatusFollowsTheTable
  OBVIOUS
<1>2. RunInv /\ RunInv' /\ [Next]_vars =>
        [\A t \in Transfers : execution[t] # Absent =>
           \/ execution'[t].status = execution[t].status
           \/ execution'[t].status \in Successors(execution[t].status)]_vars
  <2>1. ASSUME RunInv, RunInv', [Next]_vars, NEW t \in Transfers, execution[t] # Absent
        PROVE  \/ execution'[t].status = execution[t].status
               \/ execution'[t].status \in Successors(execution[t].status)
    <3>1. execution \in [Transfers -> Execution \cup {Absent}]
      BY <2>1 DEF RunInv, IInv, SagaTypes
    <3>2. ASSUME NEW u \in Transfers, Moved(u)
          PROVE  \/ execution'[t].status = execution[t].status
                 \/ execution'[t].status \in Successors(execution[t].status)
      BY <2>1, <3>1, <3>2 DEF Moved
    <3>3. QED
      BY <2>1, <3>2, EveryMove
  <2>2. QED
    BY <2>1
<1>3. Spec => []RunInv
  BY <1>1, RunInvariance
<1>4. QED
  BY <1>2, <1>3, PTL DEF Spec, StatusFollowsTheTable

\* A row that exists is no missing row, and it is rewritten from one status to
\* another: that is what the lifecycle sees of it.
LEMMA StageOfRow ==
  ASSUME execution \in [Transfers -> Execution \cup {Absent}], NEW t \in Transfers,
         NEW row \in Execution, execution' = [execution EXCEPT ![t] = row],
         NEW stage, stage = [u \in Transfers |-> IF execution[u] = Absent THEN Absent
                                                 ELSE execution[u].status],
         NEW finished, finished = {u \in Transfers : Finished(u)}
  PROVE  /\ [u \in Transfers |-> IF execution'[u] = Absent THEN Absent
                                 ELSE execution'[u].status]
              = [stage EXCEPT ![t] = row.status]
         /\ {u \in Transfers : Finished(u)'} =
              IF row.finished THEN finished \cup {t} ELSE finished \ {t}
<1>1. execution'[t] = row /\ row # Absent
  BY AbsentAssumption
<1>2. \A u \in Transfers : u # t => execution'[u] = execution[u]
  OBVIOUS
<1>3. \A u \in Transfers : Finished(u)' <=> IF u = t THEN row.finished ELSE Finished(u)
  BY <1>1, <1>2 DEF Finished
<1>4. row.finished \in BOOLEAN
  BY DEF Execution
<1>5. QED
  BY <1>1, <1>2, <1>3, <1>4

\* A status leads only to statuses further on.
LEMMA SuccessorsProgress ==
  \A status \in SagaStatuses : \A next \in Successors(status) :
    /\ next \in SagaStatuses
    /\ Lifecycle!Progress(next) > Lifecycle!Progress(status)
    /\ status \notin TerminalStatuses
  BY DEF Successors, Lifecycle!Progress, SagaStatuses, TerminalStatuses

\* Whatever moves the row of a transfer is a move of the lifecycle.
LEMMA MovesOfTheLifecycle ==
  ASSUME execution \in [Transfers -> Execution \cup {Absent}], NEW t \in Transfers, Moved(t)
  PROVE  [Lifecycle!Next]_(Lifecycle!lifecycleVars)
<1> DEFINE stage == [u \in Transfers |-> IF execution[u] = Absent THEN Absent
                                         ELSE execution[u].status]
           finished == {u \in Transfers : Finished(u)}
<1>0. /\ Lifecycle!TerminalStatuses = TerminalStatuses
      /\ \A status : Lifecycle!GatewayStatus(status) = GatewayStatus(status)
  BY DEF Lifecycle!TerminalStatuses, TerminalStatuses, Lifecycle!GatewayStatus, GatewayStatus
<1>1. CASE UNCHANGED <<execution, announced>>
  BY <1>1 DEF Lifecycle!lifecycleVars, Finished
<1>2. CASE /\ execution[t] = Absent
           /\ execution' = [execution EXCEPT ![t] = NewExecution]
           /\ UNCHANGED announced
  <2>1. PICK row \in Execution :
          row = NewExecution /\ row.status = "PENDING" /\ row.finished = FALSE
    <3>1. /\ NewExecution \in Execution
          /\ NewExecution.status = "PENDING" /\ NewExecution.finished = FALSE
      BY DEF NewExecution, Execution, SagaStatuses, CompensationStatuses
    <3>2. QED
      BY <3>1
  <2>2. t \notin finished /\ stage[t] = Absent
    BY <1>2 DEF Finished
  <2>3. stage' = [stage EXCEPT ![t] = "PENDING"] /\ finished' = finished
    <3>1. /\ stage' = [stage EXCEPT ![t] = row.status]
          /\ finished' = IF row.finished THEN finished \cup {t} ELSE finished \ {t}
      BY <1>2, <2>1, StageOfRow
    <3>2. QED
      BY <2>1, <2>2, <3>1
  <2>4. Lifecycle!Begin(t)
    BY <1>2, <2>2, <2>3 DEF Lifecycle!Begin
  <2>5. QED
    BY <2>4 DEF Lifecycle!Next, Lifecycle!Move
<1>3. CASE /\ execution[t] \in Execution /\ ~execution[t].finished
           /\ \E row \in Execution :
                /\ execution' = [execution EXCEPT ![t] = row]
                /\ \/ row.status = execution[t].status
                   \/ row.status \in Successors(execution[t].status)
                /\ row.finished => row.status \in TerminalStatuses
           /\ UNCHANGED announced
  <2>1. PICK row \in Execution :
          /\ execution' = [execution EXCEPT ![t] = row]
          /\ \/ row.status = execution[t].status
             \/ row.status \in Successors(execution[t].status)
          /\ row.finished => row.status \in TerminalStatuses
    BY <1>3
  <2>2. /\ execution[t] # Absent /\ t \notin finished /\ stage[t] = execution[t].status
        /\ stage[t] \in SagaStatuses /\ row.status \in SagaStatuses /\ row.finished \in BOOLEAN
    BY <1>3, AbsentAssumption DEF Finished, Execution
  <2>3. /\ stage' = [stage EXCEPT ![t] = row.status]
        /\ finished' = IF row.finished THEN finished \cup {t} ELSE finished \ {t}
    BY <2>1, StageOfRow
  <2>4. stage[t] # Absent
    BY <2>2, AbsentAssumption
  <2>5. row.status # stage[t] =>
          /\ Lifecycle!Progress(row.status) > Lifecycle!Progress(stage[t])
          /\ stage[t] \notin TerminalStatuses
    BY <2>1, <2>2, SuccessorsProgress
  <2>6. CASE row.finished
    <3>1. Lifecycle!Finish(t, row.status)
      BY <1>3, <1>0, <2>2, <2>3, <2>4, <2>5, <2>6 DEF Lifecycle!Finish, Lifecycle!Running
    <3>2. row.status \in SagaStatuses \cap Lifecycle!TerminalStatuses
      BY <1>0, <2>1, <2>2, <2>6
    <3>3. QED
      BY <3>1, <3>2 DEF Lifecycle!Next, Lifecycle!Move
  <2>7. CASE ~row.finished /\ row.status # stage[t]
    <3>1. Lifecycle!Advance(t, row.status)
      BY <1>3, <2>2, <2>3, <2>4, <2>5, <2>7 DEF Lifecycle!Advance, Lifecycle!Running
    <3>2. QED
      BY <2>2, <3>1 DEF Lifecycle!Next, Lifecycle!Move
  <2>8. CASE ~row.finished /\ row.status = stage[t]
    BY <1>3, <2>2, <2>3, <2>8 DEF Lifecycle!lifecycleVars
  <2>9. QED
    BY <2>6, <2>7, <2>8
<1>4. CASE /\ execution[t] \in Execution
           /\ execution[t].status \in TerminalStatuses => execution[t].finished
           /\ announced' = [announced EXCEPT ![t] = GatewayStatus(execution[t].status)]
           /\ UNCHANGED execution
  <2>1. stage' = stage /\ finished' = finished
    BY <1>4 DEF Finished
  <2>2. /\ stage[t] = execution[t].status /\ stage[t] # Absent
        /\ execution[t].status \in TerminalStatuses => t \in finished
    BY <1>4, AbsentAssumption DEF Finished, Execution
  <2>3. Lifecycle!Announce(t)
    BY <1>0, <1>4, <2>1, <2>2 DEF Lifecycle!Announce
  <2>4. QED
    BY <2>3 DEF Lifecycle!Next, Lifecycle!Move
<1>6. QED
  BY <1>1, <1>2, <1>3, <1>4 DEF Moved

\* The row and the announcements of the orchestrated saga are those of the
\* lifecycle the Gateway is built on; the last thing a run says before it returns
\* is the outcome its row holds.
THEOREM TheLifecycleIsFollowed == OneRunEach => (Spec => FollowsTheLifecycle)
<1>1. SUFFICES ASSUME OneRunEach
               PROVE  Spec => FollowsTheLifecycle
  OBVIOUS
<1>2. Init => Lifecycle!Init
  BY DEF Init, StoreInit, Lifecycle!Init, Finished
<1>3. RunInv /\ RunInv' /\ [Next]_vars => [Lifecycle!Next]_(Lifecycle!lifecycleVars)
  <2>1. ASSUME RunInv, RunInv', [Next]_vars
        PROVE  [Lifecycle!Next]_(Lifecycle!lifecycleVars)
    <3>1. execution \in [Transfers -> Execution \cup {Absent}]
      BY <2>1 DEF RunInv, IInv, SagaTypes
    <3>2. UNCHANGED <<execution, announced>> => UNCHANGED Lifecycle!lifecycleVars
      BY DEF Lifecycle!lifecycleVars, Finished
    <3>3. QED
      BY <2>1, <3>1, <3>2, EveryMove, MovesOfTheLifecycle
  <2>2. QED
    BY <2>1
<1>4. RunInv /\ RunInv' /\ [Next]_vars =>
        [\A r \in Runs : run'[r].pc = "done" =>
           announced'[TransferOf[r]] = GatewayStatus(execution'[TransferOf[r]].status)]_vars
  <2>1. ASSUME RunInv', NEW r \in Runs, run'[r].pc = "done"
        PROVE  announced'[TransferOf[r]] = GatewayStatus(execution'[TransferOf[r]].status)
    BY <2>1 DEF RunInv, Told, Settled, At
  <2>2. QED
    BY <2>1
<1>5. Spec => []RunInv
  BY <1>1, RunInvariance
<1>6. QED
  BY <1>2, <1>3, <1>4, <1>5, PTL DEF Spec, FollowsTheLifecycle, Lifecycle!Spec

-----------------------------------------------------------------------------
(* All or nothing.  Until a call goes unanswered, a run knows what became  *)
(* of every call it made, and a request in flight is that of a dead run.   *)

\* What a run was told is so: what a service refused did not take effect, and what
\* the run undoes a service never refuses to undo.
Certain(r) ==
  /\ At(r, "record") /\ run[r].outcome # "OK" => run[r].step \notin Done[TransferOf[r]]
  /\ At(r, "undone") => run[r].outcome = "OK"

\* The trail denies nothing that was done.
Confirmed(t) ==
  \A s \in Steps : /\ s \in Done[t] => Row(t, "ACTION", s) \notin {"FAILED", "SKIPPED"}
                   /\ Row(t, "COMPENSATION", s) # "COMPENSATION_FAILED"

\* A request in flight is the one call its dead run was making: a step nothing is
\* known of, before anything was undone, or the reversal of a step of a transfer
\* that will not be credited.  Nobody will finish that transfer.
Orphan(m) ==
  LET t == TransferOf[m.run] IN
  /\ At(m.run, "dead") /\ ~Finished(t)
  /\ m.kind = "ACTION" => Undone[t] = {} /\ Row(t, "ACTION", m.step) = Absent
  /\ m.kind = "COMPENSATION" => m.step # "CREDIT" /\ "CREDIT" \notin Done[t]

PromptInv ==
  /\ \A r \in Runs : Certain(r)
  /\ \A t \in Transfers : Confirmed(t)
  /\ \A m \in late : Orphan(m)
  /\ \A m, n \in late : m.run = n.run => m = n

\* A step on one transfer, of its run or of a request that run left behind, leaves
\* what is known of the others.
LEMMA OneTransfer ==
  ASSUME OneRunEach, RunInv, PromptInv, NEW r \in Runs,
         \A q \in Runs : q # r => run'[q] = run[q],
         \A t \in Transfers : t # TransferOf[r] =>
           /\ execution'[t] = execution[t]
           /\ \A kind \in StepKinds, s \in Steps : Row(t, kind, s)' = Row(t, kind, s)
           /\ Done'[t] = Done[t] /\ Undone'[t] = Undone[t],
         \A m \in late' : (m \in late /\ m.run # r) \/ (m.run = r /\ Orphan(m)'),
         \A m, n \in late' : m.run = r /\ n.run = r => m = n,
         Certain(r)', Confirmed(TransferOf[r])'
  PROVE  PromptInv'
<1>1. \A q \in Runs : TransferOf[q] \in Transfers
  BY OrchestrationAssumption
<1>2. "ACTION" \in StepKinds /\ "COMPENSATION" \in StepKinds
  BY DEF StepKinds
<1>3. \A q \in Runs : q # r => TransferOf[q] # TransferOf[r]
  BY DEF OneRunEach
<1>4. ASSUME NEW q \in Runs, q # r
      PROVE  Certain(q)'
  <2>1. Certain(q) /\ run'[q] = run[q] /\ Done'[TransferOf[q]] = Done[TransferOf[q]]
    BY <1>1, <1>3, <1>4 DEF PromptInv
  <2>2. QED
    BY <2>1 DEF Certain, At
<1>5. ASSUME NEW t \in Transfers, t # TransferOf[r]
      PROVE  Confirmed(t)'
  <2>1. /\ Confirmed(t) /\ Done'[t] = Done[t]
        /\ \A s \in Steps : /\ Row(t, "ACTION", s)' = Row(t, "ACTION", s)
                            /\ Row(t, "COMPENSATION", s)' = Row(t, "COMPENSATION", s)
    BY <1>2, <1>5 DEF PromptInv
  <2>2. QED
    BY <2>1 DEF Confirmed
<1>6. late \subseteq Message
  BY DEF RunInv, IInv, SagaTypes
<1>7. ASSUME NEW m \in late', m \in late, m.run # r
      PROVE  Orphan(m)'
  <2> DEFINE t == TransferOf[m.run]
  <2>1. m.run \in Runs /\ m.step \in Steps /\ Orphan(m)
    BY <1>6, <1>7 DEF Message, PromptInv
  <2>2. /\ t \in Transfers /\ t # TransferOf[r] /\ run'[m.run] = run[m.run]
    BY <1>1, <1>3, <1>7, <2>1
  <2>3. /\ execution'[t] = execution[t] /\ Done'[t] = Done[t] /\ Undone'[t] = Undone[t]
        /\ Row(t, "ACTION", m.step)' = Row(t, "ACTION", m.step)
    BY <1>2, <2>1, <2>2
  <2>4. QED
    BY <2>1, <2>2, <2>3 DEF Orphan, At, Finished
<1>8. \A m \in late' : Orphan(m)'
  BY <1>7
<1>9. \A m, n \in late' : m.run = n.run => m = n
  BY DEF PromptInv
<1>10. QED
  BY <1>4, <1>5, <1>8, <1>9 DEF PromptInv

\* A live run has nothing in flight.
LEMMA NothingInFlight ==
  ASSUME PromptInv, NEW r \in Runs, ~At(r, "dead")
  PROVE  \A m \in late : m.run # r
  BY DEF PromptInv, Orphan

\* What was done in the order of the steps and is known to have failed somewhere was
\* not done from there on.
LEMMA StoppedThere ==
  ASSUME RunInv, PromptInv, NEW t \in Transfers, NEW s \in Steps,
         Row(t, "ACTION", s) = "FAILED"
  PROVE  Done[t] \subseteq Before(s)
<1>1. s \notin Done[t]
  BY DEF PromptInv, Confirmed
<1>2. \A u \in Done[t] : Before(u) \subseteq Done[t]
  BY DEF RunInv, IInv, Ordered
<1>3. Done[t] \subseteq Steps
  BY Effects DEF EffectsOf
<1>4. ASSUME NEW u \in Done[t], u \notin Before(s)
      PROVE  FALSE
  <2>1. u \in Steps /\ u # s
    BY <1>1, <1>3, <1>4
  <2>2. u \in After(s)
    BY <1>4, <2>1, StepsAround
  <2>3. s \in Before(u)
    BY <2>1, <2>2, StepsAround
  <2>4. QED
    BY <1>1, <1>2, <2>3
<1>5. QED
  BY <1>4

\* Steps of a run that call no service and write nothing in the trail.
Quiet(r) ==
  \/ Start(r) \/ Replay(r) \/ Notify(r) \/ Enter(r) \/ Advance(r) \/ Settle(r)
  \/ Complete(r) \/ Reject(r) \/ BeginRollback(r) \/ Close(r)

\* They are steps of a live run that lead to no answer, and touch only its row.
LEMMA QuietMoves ==
  ASSUME RunInv, NEW r \in Runs, Quiet(r)
  PROVE  /\ UNCHANGED <<request, services, trail, late>> /\ timeouts' = timeouts
         /\ \A q \in Runs : q # r => run'[q] = run[q]
         /\ \A t \in Transfers : t # TransferOf[r] => execution'[t] = execution[t]
         /\ ~At(r, "dead") /\ run'[r].pc \notin {"record", "undone"}
<1> DEFINE t == TransferOf[r]
<1>0. /\ run \in [Runs -> RunState] /\ t \in Transfers
      /\ execution \in [Transfers -> Execution \cup {Absent}]
  BY Here
<1>1. CASE Start(r)
  BY <1>0, <1>1 DEF Start, At, Goto, faults, RunState
<1>2. CASE Replay(r)
  BY <1>0, <1>2 DEF Replay, At, Goto, faults, saga, RunState
<1>3. CASE Notify(r)
  <2>1. /\ run[r].pc \in {"greet", "tell", "alarm", "report"}
        /\ UNCHANGED <<request, services, execution, trail, late, timeouts>>
        /\ run' = [run EXCEPT ![r].pc = CASE @ \in {"greet", "tell"} -> "enter"
                                          [] @ = "alarm"  -> "undo"
                                          [] @ = "report" -> "done",
                              ![r].step = IF At(r, "tell") THEN NextStep(@) ELSE @]
    BY <1>3 DEF Notify, faults
  <2>2. run'[r].pc \in {"enter", "undo", "done"} /\ \A q \in Runs : q # r => run'[q] = run[q]
    BY <1>0, <2>1 DEF RunState
  <2>3. QED
    BY <2>1, <2>2 DEF At
<1>4. CASE Enter(r)
  BY <1>0, <1>4 DEF Enter, At, faults, RunState
<1>5. CASE Advance(r)
  <2>1. PICK pc : pc = IF run[r].step = LastStep THEN "settle" ELSE "tell"
    OBVIOUS
  <2>2. run' = [run EXCEPT ![r].pc = pc]
    BY <1>5, <2>1 DEF Advance, Goto
  <2>3. QED
    BY <1>0, <1>5, <2>1, <2>2 DEF Advance, At, faults, RunState
<1>6. CASE Settle(r)
  <2>1. PICK todo : run' = [run EXCEPT ![r].pc = "resolve", ![r].todo = todo]
    BY <1>6 DEF Settle
  <2>2. QED
    BY <1>0, <1>6, <2>1 DEF Settle, At, faults, saga, RunState
<1>7. CASE Complete(r) \/ Reject(r) \/ Close(r)
  <2>1. PICK status, compensation : Finish(r, status, compensation)
    BY <1>7 DEF Complete, Reject, Close
  <2>2. ~At(r, "dead")
    BY <1>7 DEF Complete, Reject, Close, At
  <2>3. QED
    BY <1>0, <2>1, <2>2 DEF Finish, At, Goto, faults, RunState
<1>8. CASE BeginRollback(r)
  <2>1. PICK step : run' = [run EXCEPT ![r].pc = "alarm", ![r].step = step, ![r].attempt = 1]
    BY <1>8 DEF BeginRollback
  <2>2. QED
    BY <1>0, <1>8, <2>1 DEF BeginRollback, At, faults, RunState
<1>9. QED
  BY <1>1, <1>2, <1>3, <1>4, <1>5, <1>6, <1>7, <1>8 DEF Quiet

\* They leave all that is known as it was.
LEMMA QuietPrompt ==
  ASSUME OneRunEach, RunInv, PromptInv, NEW r \in Runs, Quiet(r)
  PROVE  PromptInv'
<1> DEFINE t == TransferOf[r]
<1>1. /\ UNCHANGED <<request, services, trail, late>>
      /\ \A q \in Runs : q # r => run'[q] = run[q]
      /\ \A u \in Transfers : u # t => execution'[u] = execution[u]
      /\ ~At(r, "dead") /\ run'[r].pc \notin {"record", "undone"}
  BY QuietMoves
<1>2. Done' = Done /\ Undone' = Undone
  BY <1>1, ServicesQuiet DEF RunInv, IInv
<1>3. Certain(r)'
  BY <1>1 DEF Certain, At
<1>4. Confirmed(t) /\ t \in Transfers
  BY Here DEF PromptInv
<1>5. Confirmed(t)'
  BY <1>1, <1>2, <1>4 DEF Confirmed, Row
<1>6. \A m \in late' : m \in late /\ m.run # r
  BY <1>1, NothingInFlight
<1>7. \A u \in Transfers, kind \in StepKinds, s \in Steps : Row(u, kind, s)' = Row(u, kind, s)
  BY <1>1 DEF Row
<1>8. QED
  BY <1>1, <1>2, <1>3, <1>5, <1>6, <1>7, OneTransfer

\* Steps of a run that write in the trail: a step is written as failed, or as never
\* attempted, only if it did not take effect, and no reversal fails.
LEMMA WritePrompt ==
  ASSUME OneRunEach, RunInv, PromptInv, NEW r \in Runs,
         RecordSuccess(r) \/ RecordFailure(r) \/ Skip(r) \/ RecordRollback(r)
  PROVE  PromptInv'
<1> DEFINE t == TransferOf[r]
<1>0. /\ run \in [Runs -> RunState] /\ t \in Transfers /\ run[r].step \in Steps
      /\ "ACTION" \in StepKinds /\ "COMPENSATION" \in StepKinds
  BY Here DEF StepKinds
<1>1. /\ UNCHANGED <<request, services, execution, late>>
      /\ run[r].pc \in {"record", "skip", "undone"}
  BY DEF RecordSuccess, RecordFailure, Skip, RecordRollback, At, faults
<1>2. Done' = Done /\ Undone' = Undone
  BY <1>1, ServicesQuiet DEF RunInv, IInv
<1>3. /\ run' = [run EXCEPT ![r] = run'[r]]
      /\ run'[r].pc \notin {"record", "undone"}
  <2>1. CASE RecordSuccess(r)
    BY <1>0, <2>1 DEF RecordSuccess, Goto, RunState
  <2>2. CASE RecordFailure(r)
    <3>1. PICK pc \in {"settle", "skip"} : pc = IF After(run[r].step) = {} THEN "settle" ELSE "skip"
      OBVIOUS
    <3>2. PICK todo : run' = [run EXCEPT ![r].failure = run[r].outcome, ![r].todo = todo,
                                         ![r].pc = pc]
      BY <2>2, <3>1 DEF RecordFailure
    <3>3. QED
      BY <1>0, <3>2 DEF RunState
  <2>3. CASE Skip(r)
    <3>1. PICK pc \in {"settle", "skip"} :
            pc = IF run[r].todo = {Earliest(run[r].todo)} THEN "settle" ELSE "skip"
      OBVIOUS
    <3>2. PICK todo : run' = [run EXCEPT ![r].todo = todo, ![r].pc = pc]
      BY <1>0, <2>3, <3>1 DEF Skip, RunState
    <3>3. QED
      BY <1>0, <3>2 DEF RunState
  <2>4. CASE RecordRollback(r)
    <3>1. PICK pc \in {"close", "undo"} :
            pc = IF run[r].todo \ {run[r].step} = {} THEN "close" ELSE "undo"
      OBVIOUS
    <3>2. PICK todo, clean, step :
            run' = [run EXCEPT ![r].todo = todo, ![r].clean = clean, ![r].pc = pc,
                               ![r].step = step, ![r].attempt = 1]
      BY <1>0, <2>4, <3>1 DEF RecordRollback, RunState
    <3>3. QED
      BY <1>0, <3>2 DEF RunState
  <2>5. QED
    BY <2>1, <2>2, <2>3, <2>4
<1>4. Confirmed(t) /\ Told(r) /\ Placed(r) /\ Certain(r)
  BY Here DEF PromptInv
<1>5. PICK kind \in StepKinds, s \in Steps, status \in ActionStatuses \cup RollbackStatuses :
        /\ Write(t, kind, s, status)
        /\ kind = "ACTION" /\ status \in {"FAILED", "SKIPPED"} => s \notin Done[t]
        /\ kind = "COMPENSATION" => status # "COMPENSATION_FAILED"
  <2>1. CASE RecordSuccess(r)
    <3>1. Write(t, "ACTION", run[r].step, "EXECUTED")
      BY <2>1 DEF RecordSuccess
    <3>2. QED
      BY <1>0, <3>1 DEF ActionStatuses
  <2>2. CASE RecordFailure(r)
    <3>1. Write(t, "ACTION", run[r].step, "FAILED") /\ run[r].step \notin Done[t]
      BY <1>4, <2>2 DEF RecordFailure, Certain
    <3>2. QED
      BY <1>0, <3>1 DEF ActionStatuses
  <2>3. CASE Skip(r)
    <3>1. /\ run[r].pc = "skip" /\ Stopped(r) /\ run[r].todo # {} /\ run[r].todo \in SUBSET Steps
      BY <1>0, <1>4, <2>3 DEF Skip, At, Told, Placed, RunState
    <3>2. PICK s \in run[r].todo : s = Earliest(run[r].todo)
      BY <3>1, ExtremesBelong
    <3>3. /\ Broken(t, run[r].step, run[r].todo) /\ run[r].todo \subseteq After(run[r].step)
      BY <3>1 DEF Stopped
    <3>4. Row(t, "ACTION", run[r].step) = "FAILED"
      BY <1>0, <3>3, StepsAround DEF Broken
    <3>5. Done[t] \subseteq Before(run[r].step)
      BY <1>0, <3>4, StoppedThere
    <3>6. s \in Steps /\ s \notin Done[t]
      BY <1>0, <3>1, <3>3, <3>5, StepsAround
    <3>7. Write(t, "ACTION", s, "SKIPPED")
      BY <2>3, <3>2 DEF Skip
    <3>8. QED
      BY <1>0, <3>6, <3>7 DEF ActionStatuses
  <2>4. CASE RecordRollback(r)
    <3>1. run[r].outcome = "OK"
      BY <1>4, <2>4 DEF RecordRollback, Certain
    <3>2. Write(t, "COMPENSATION", run[r].step, "COMPENSATED")
      BY <2>4, <3>1 DEF RecordRollback
    <3>3. QED
      BY <1>0, <3>2 DEF RollbackStatuses
  <2>5. QED
    BY <2>1, <2>2, <2>3, <2>4
<1>6. \A u \in Transfers, k \in StepKinds, v \in Steps :
        Row(u, k, v)' = IF u = t /\ k = kind /\ v = s THEN status ELSE Row(u, k, v)
  BY <1>0, <1>5, RowsWritten
<1>7. Confirmed(t)'
  <2>1. \A v \in Steps : v \in Done'[t] => Row(t, "ACTION", v)' \notin {"FAILED", "SKIPPED"}
    BY <1>0, <1>2, <1>4, <1>5, <1>6 DEF Confirmed
  <2>2. \A v \in Steps : Row(t, "COMPENSATION", v)' # "COMPENSATION_FAILED"
    BY <1>0, <1>4, <1>5, <1>6 DEF Confirmed
  <2>3. QED
    BY <2>1, <2>2 DEF Confirmed
<1>8. Certain(r)'
  BY <1>3 DEF Certain, At
<1>9. \A m \in late' : m \in late /\ m.run # r
  BY <1>1, NothingInFlight DEF At
<1>10. \A u \in Transfers : u # t =>
         /\ execution'[u] = execution[u] /\ Done'[u] = Done[u] /\ Undone'[u] = Undone[u]
         /\ \A k \in StepKinds, v \in Steps : Row(u, k, v)' = Row(u, k, v)
  BY <1>1, <1>2, <1>6
<1>11. \A q \in Runs : q # r => run'[q] = run[q]
  BY <1>0, <1>3
<1>12. QED
  BY <1>7, <1>8, <1>9, <1>10, <1>11, OneTransfer

\* What a run may call: a step nothing is known of, after those before it took effect
\* and before anything was undone; or the reversal of a step that took effect, of a
\* transfer that will not be credited.
LEMMA CallAtHand ==
  ASSUME RunInv, PromptInv, NEW r \in Runs, Calling(r)
  PROVE  LET t == TransferOf[r]
             s == run[r].step
         IN  /\ t \in Transfers /\ s \in Steps /\ KindOf(r) \in StepKinds /\ ~Finished(t)
             /\ KindOf(r) = IF At(r, "call") THEN "ACTION" ELSE "COMPENSATION"
             /\ KindOf(r) = "ACTION" => /\ Undone[t] = {} /\ Before(s) \subseteq Done[t]
                                        /\ Row(t, "ACTION", s) = Absent
             /\ KindOf(r) = "COMPENSATION" => /\ s \in Done[t] /\ s # "CREDIT"
                                              /\ "CREDIT" \notin Done[t]
<1> DEFINE t == TransferOf[r]
<1>0. PICK s \in Steps : s = run[r].step
  BY Here
<1>1. /\ t \in Transfers /\ run[r].pc \in {"call", "undo"} /\ Placed(r) /\ Told(r)
      /\ KindOf(r) = IF At(r, "call") THEN "ACTION" ELSE "COMPENSATION"
  BY Here DEF Calling, KindOf, At
<1>2. CASE run[r].pc = "call"
  <2>1. /\ ~Finished(t) /\ Undone[t] = {} /\ Before(s) \subseteq Done[t]
        /\ Unfolded(t, Before(s))
    BY <1>0, <1>1, <1>2 DEF Told, Going, Untouched, Unasked, Placed
  <2>2. Row(t, "ACTION", s) = Absent
    BY <2>1, StepsAround DEF Unfolded
  <2>3. QED
    BY <1>0, <1>1, <1>2, <2>1, <2>2 DEF At, StepKinds
<1>3. CASE run[r].pc = "undo"
  <2>1. Undoing(r) /\ s \in run[r].todo /\ run[r].todo \subseteq Done[t]
    BY <1>0, <1>1, <1>3 DEF Told, Placed
  <2>2. PICK f \in Steps : Broken(t, f, {}) /\ run[r].todo \subseteq Before(f)
    BY <2>1 DEF Undoing
  <2>3. Row(t, "ACTION", f) = "FAILED"
    BY <2>2, StepsAround DEF Broken
  <2>4. Done[t] \subseteq Before(f)
    BY <1>1, <2>3, StoppedThere
  <2>5. "CREDIT" \notin Before(f)
    BY StepOrder DEF Before, Steps
  <2>6. ~Finished(t)
    BY <2>1 DEF Undoing
  <2>7. QED
    BY <1>0, <1>1, <1>3, <2>1, <2>4, <2>5, <2>6 DEF At, StepKinds
<1>4. QED
  BY <1>1, <1>2, <1>3

\* A service makes the step of the call it executes take effect, or none.
LEMMA DoneByCall ==
  ASSUME NEW t \in Transfers, NEW kind \in StepKinds, NEW s \in Steps, Served(t, kind, s)
  PROVE  /\ \A u \in Transfers : u # t => Done'[u] = Done[u] /\ Undone'[u] = Undone[u]
         /\ \A v \in Done'[t] : v \in Done[t] \/ (kind = "ACTION" /\ v = s)
<1>1. \A u \in Transfers : Done[u] \subseteq Done'[u]
  BY DEF Served
<1>2. \A u \in Transfers : \A v \in Done'[u] \ Done[u] : u = t /\ kind = "ACTION" /\ v = s
  BY DEF Served
<1>3. Done \in [Transfers -> SUBSET Steps] /\ Done' \in [Transfers -> SUBSET Steps]
  BY DEF Done
<1>4. ASSUME NEW u \in Transfers, u # t
      PROVE  Done'[u] = Done[u]
  BY <1>1, <1>2, <1>3, <1>4
<1>5. \A v \in Done'[t] : v \in Done[t] \/ (kind = "ACTION" /\ v = s)
  BY <1>2
<1>6. QED
  BY <1>4, <1>5, UndoneByCall

\* An answer in time tells the truth.
LEMMA AnsweredPrompt ==
  ASSUME OneRunEach, RunInv, PromptInv, NEW r \in Runs, Answered(r)
  PROVE  PromptInv'
<1> DEFINE t == TransferOf[r]
<1>0. PICK s \in Steps, kind \in StepKinds : s = run[r].step /\ kind = KindOf(r)
  BY CallAtHand DEF Answered
<1>1. /\ t \in Transfers
      /\ kind = IF At(r, "call") THEN "ACTION" ELSE "COMPENSATION"
      /\ kind = "ACTION" => Undone[t] = {} /\ Row(t, "ACTION", s) = Absent
      /\ kind = "COMPENSATION" => s \in Done[t] /\ s # "CREDIT"
  BY <1>0, CallAtHand DEF Answered
<1>2. PICK reply : reply = Reply(t, kind, s)
  OBVIOUS
<1>3. /\ Serve(t, kind, s) /\ run[r].pc \in {"call", "undo"}
      /\ run' = [run EXCEPT ![r].outcome = reply,
                            ![r].pc = IF @ = "call" THEN "record" ELSE "undone"]
      /\ UNCHANGED <<request, execution, trail, late>>
  BY <1>0, <1>2 DEF Answered, Calling, saga, faults
<1>4. /\ run'[r].outcome = reply
      /\ run'[r].pc = IF kind = "ACTION" THEN "record" ELSE "undone"
      /\ run'[r].step = s
      /\ \A q \in Runs : q # r => run'[q] = run[q]
  BY <1>0, <1>1, <1>3, Here DEF RunState, At
<1>5. Served(t, kind, s)
  BY <1>1, <1>3, CallsAreServed DEF RunInv, IInv
<1>6. /\ \A u \in Transfers : u # t => Done'[u] = Done[u] /\ Undone'[u] = Undone[u]
      /\ \A v \in Done'[t] : v \in Done[t] \/ (kind = "ACTION" /\ v = s)
  BY <1>1, <1>5, DoneByCall
<1>7. Certain(r)'
  <2>1. kind = "ACTION" /\ reply # "OK" => s \notin Done'[t]
    BY <1>2, <1>5 DEF Served
  <2>2. kind = "COMPENSATION" => reply = "OK"
    BY <1>1, <1>2, <1>5 DEF Served
  <2>3. QED
    BY <1>0, <1>4, <2>1, <2>2 DEF Certain, At, StepKinds
<1>8. \A u \in Transfers, k \in StepKinds, v \in Steps : Row(u, k, v)' = Row(u, k, v)
  BY <1>3 DEF Row
<1>9. Confirmed(t)'
  <2>1. Confirmed(t)
    BY <1>1 DEF PromptInv
  <2>2. \A v \in Steps : /\ Row(t, "ACTION", v)' = Row(t, "ACTION", v)
                         /\ Row(t, "COMPENSATION", v)' = Row(t, "COMPENSATION", v)
    BY <1>1, <1>8 DEF StepKinds
  <2>3. Absent \notin {"FAILED", "SKIPPED"}
    BY AbsentAssumption DEF ActionStatuses
  <2>4. QED
    BY <1>1, <1>6, <2>1, <2>2, <2>3 DEF Confirmed
<1>10. \A m \in late' : m \in late /\ m.run # r
  BY <1>3, NothingInFlight DEF At
<1>11. QED
  BY <1>3, <1>4, <1>6, <1>7, <1>8, <1>9, <1>10, OneTransfer

\* A run that dies leaves the call it was making in flight.
LEMMA DiePrompt ==
  ASSUME OneRunEach, RunInv, PromptInv, NEW r \in Runs, Die(r)
  PROVE  PromptInv'
<1> DEFINE t == TransferOf[r]
<1>1. /\ run' = [run EXCEPT ![r].pc = "dead"] /\ ~At(r, "dead")
      /\ IF Calling(r) THEN Abandon(r) ELSE UNCHANGED late
      /\ UNCHANGED <<request, services, execution, trail>>
  BY DEF Die, Goto, saga, Ended, At
<1>2. run'[r].pc = "dead" /\ \A q \in Runs : q # r => run'[q] = run[q]
  BY <1>1, Here DEF RunState
<1>3. /\ Done' = Done /\ Undone' = Undone /\ t \in Transfers
      /\ \A u \in Transfers, k \in StepKinds, v \in Steps : Row(u, k, v)' = Row(u, k, v)
  BY <1>1, Here, ServicesQuiet DEF RunInv, IInv, Row
<1>4. Confirmed(t)' /\ Certain(r)'
  <2>1. Confirmed(t)
    BY <1>3 DEF PromptInv
  <2>2. QED
    BY <1>1, <1>2, <1>3, <2>1 DEF Confirmed, Certain, At, Row
<1>5. /\ \A m \in late' : (m \in late /\ m.run # r) \/ (m.run = r /\ Orphan(m)')
      /\ \A m, n \in late' : m.run = r /\ n.run = r => m = n
  <2>1. \A m \in late : m.run # r
    BY <1>1, NothingInFlight
  <2>2. CASE ~Calling(r)
    BY <1>1, <2>1, <2>2
  <2>3. CASE Calling(r)
    <3>1. PICK m : m = [run |-> r, kind |-> KindOf(r), step |-> run[r].step,
                        attempt |-> run[r].attempt]
      OBVIOUS
    <3>2. late' = late \cup {m} /\ m.run = r /\ m.kind = KindOf(r) /\ m.step = run[r].step
      BY <1>1, <2>3, <3>1 DEF Abandon
    <3>3. /\ ~Finished(t) /\ m.step \in Steps
          /\ m.kind = "ACTION" => Undone[t] = {} /\ Row(t, "ACTION", m.step) = Absent
          /\ m.kind = "COMPENSATION" => m.step # "CREDIT" /\ "CREDIT" \notin Done[t]
      BY <2>3, <3>2, CallAtHand
    <3>4. Orphan(m)'
      BY <1>1, <1>2, <1>3, <3>2, <3>3 DEF Orphan, At, Finished, Row
    <3>5. QED
      BY <2>1, <3>2, <3>4
  <2>4. QED
    BY <2>2, <2>3
<1>6. QED
  BY <1>1, <1>2, <1>3, <1>4, <1>5, OneTransfer

\* A request in flight that is executed is gone, and its run with it.
LEMMA ExecuteLatePrompt ==
  ASSUME OneRunEach, RunInv, PromptInv, NEW m \in late, ExecuteLate(m)
  PROVE  PromptInv'
<1> DEFINE t == TransferOf[m.run]
<1>1. /\ Serve(t, m.kind, m.step) /\ late' = late \ {m}
      /\ UNCHANGED <<request, execution, trail, run>>
  BY DEF ExecuteLate, saga
<1>2. /\ t \in Transfers /\ m.run \in Runs /\ m.kind \in StepKinds /\ m.step \in Steps
  BY OrchestrationAssumption DEF RunInv, IInv, SagaTypes, Message
<1>3. Orphan(m)
  BY DEF PromptInv
<1>4. Served(t, m.kind, m.step)
  BY <1>1, <1>2, CallsAreServed DEF RunInv, IInv
<1>5. /\ \A u \in Transfers : u # t => Done'[u] = Done[u] /\ Undone'[u] = Undone[u]
      /\ \A v \in Done'[t] : v \in Done[t] \/ (m.kind = "ACTION" /\ v = m.step)
  BY <1>2, <1>4, DoneByCall
<1>6. \A u \in Transfers, k \in StepKinds, v \in Steps : Row(u, k, v)' = Row(u, k, v)
  BY <1>1 DEF Row
<1>7. Confirmed(t)'
  <2>1. Confirmed(t)
    BY <1>2 DEF PromptInv
  <2>2. \A v \in Steps : /\ Row(t, "ACTION", v)' = Row(t, "ACTION", v)
                         /\ Row(t, "COMPENSATION", v)' = Row(t, "COMPENSATION", v)
    BY <1>2, <1>6 DEF StepKinds
  <2>3. Absent \notin {"FAILED", "SKIPPED"}
    BY AbsentAssumption DEF ActionStatuses
  <2>4. m.kind = "ACTION" => Row(t, "ACTION", m.step) = Absent
    BY <1>3 DEF Orphan
  <2>5. QED
    BY <1>5, <2>1, <2>2, <2>3, <2>4 DEF Confirmed
<1>8. Certain(m.run)'
  BY <1>1, <1>3 DEF Orphan, Certain, At
<1>9. \A n \in late' : n \in late /\ n.run # m.run
  BY <1>1 DEF PromptInv
<1>10. QED
  BY <1>1, <1>2, <1>5, <1>6, <1>7, <1>8, <1>9, OneTransfer

\* Nothing has been called yet.
LEMMA InitPrompt == Init => PromptInv
<1>1. SUFFICES ASSUME Init
               PROVE  PromptInv
  OBVIOUS
<1>2. \A t \in Transfers : Done[t] = {} /\ Undone[t] = {}
  BY <1>1, ServicesStart DEF Init
<1>3. \A r \in Runs : run[r].pc = "new"
  BY <1>1 DEF Init, NewRun
<1>4. \A r \in Runs : Certain(r)
  BY <1>3 DEF Certain, At
<1>5. \A t \in Transfers : Confirmed(t)
  BY <1>1, <1>2, AbsentAssumption
     DEF Init, StoreInit, Confirmed, Row, StepKinds, RollbackStatuses
<1>6. late = {}
  BY <1>1 DEF Init
<1>7. QED
  BY <1>4, <1>5, <1>6 DEF PromptInv

\* What is known lasts as long as every call is answered.
LEMMA PromptInvariance ==
  ASSUME OneRunEach, RunInv, PromptInv, timeouts' = timeouts, [Next]_vars
  PROVE  PromptInv'
<1>0. timeouts + 1 # timeouts
  BY DEF RunInv, IInv, SagaTypes
<1>1. ASSUME NEW r \in Runs, Step(r)
      PROVE  PromptInv'
  <2>1. ~Retry(r) /\ ~GiveUp(r)
    BY <1>0 DEF Retry, GiveUp
  <2>2. QED
    BY <1>1, <2>1, QuietPrompt, WritePrompt, AnsweredPrompt DEF Step, Quiet
<1>2. ASSUME UNCHANGED vars
      PROVE  PromptInv'
  <2>1. Done' = Done /\ Undone' = Undone
    BY <1>2, ServicesQuiet DEF RunInv, IInv, vars, services
  <2>2. QED
    BY <1>2, <2>1 DEF vars, PromptInv, Certain, Confirmed, Orphan, At, Finished, Row
<1>3. QED
  BY <1>1, <1>2, DiePrompt, ExecuteLatePrompt DEF Next, Rest

-----------------------------------------------------------------------------
\* Of a transfer with a verdict: if its debit stands so does its credit, and
\* completed is said of a credited transfer.
Whole ==
  \A t \in Transfers : Finished(t) /\ execution[t].compensation # "COMPENSATING" =>
    /\ Standing(t, "DEBIT") => Standing(t, "CREDIT")
    /\ execution[t].status = "COMPLETED" => Standing(t, "CREDIT")

\* A verdict is given when the transfer is whole.
LEMMA VerdictsAreWhole == RunInv /\ PromptInv => Whole
<1>1. SUFFICES ASSUME RunInv, PromptInv, NEW t \in Transfers, Finished(t),
                      execution[t].compensation # "COMPENSATING"
               PROVE  /\ Standing(t, "DEBIT") => Standing(t, "CREDIT")
                      /\ execution[t].status = "COMPLETED" => Standing(t, "CREDIT")
  BY DEF Whole
<1>2. /\ Lasting(t) /\ Concluded(t) /\ Confirmed(t) /\ Audited /\ execution[t] # Absent
      /\ "DEBIT" \in Steps /\ "CREDIT" \in Steps
  BY <1>1 DEF RunInv, IInv, PromptInv, Lasting, Finished, Steps
<1>3. /\ Standing(t, "DEBIT") <=> "DEBIT" \in Done[t] \ Undone[t]
      /\ Standing(t, "CREDIT") <=> "CREDIT" \in Done[t] \ Undone[t]
  BY <1>2, StandingSteps
<1>4. CASE execution[t].status = "COMPLETED"
  <2>1. Unfolded(t, Steps) /\ Undone[t] = {}
    BY <1>2, <1>4 DEF Lasting, Unasked
  <2>2. "CREDIT" \in Done[t]
    BY <1>2, <2>1 DEF Unfolded, Audited, Row
  <2>3. QED
    BY <1>3, <2>1, <2>2
<1>5. CASE execution[t].status # "COMPLETED"
  <2>1. PICK s \in Steps : Broken(t, s, {})
    BY <1>2, <1>5 DEF Concluded
  <2>2. /\ Done[t] \subseteq Before(s) /\ Executed(t) = Before(s)
    <3>1. Row(t, "ACTION", s) = "FAILED"
      BY <2>1, StepsAround DEF Broken
    <3>2. Executed(t) = Before(s)
      BY <2>1, StepDomain DEF Broken, Executed, Row
    <3>3. QED
      BY <1>1, <3>1, <3>2, StoppedThere
  <2>3. execution[t].compensation \in {"NOT_REQUIRED", "COMPENSATED"}
    <3>1. execution[t].compensation \in CompensationStatuses
      BY <1>1, <1>2 DEF RunInv, IInv, SagaTypes, Execution
    <3>2. execution[t].compensation # "COMPENSATION_FAILED"
      BY <1>2 DEF Concluded, Confirmed
    <3>3. QED
      BY <1>1, <3>1, <3>2 DEF CompensationStatuses
  <2>4. CASE execution[t].compensation = "NOT_REQUIRED"
    <3>1. Executed(t) = {}
      BY <1>2, <1>5, <2>4 DEF Concluded
    <3>2. QED
      BY <1>3, <1>5, <2>2, <3>1
  <2>5. CASE execution[t].compensation = "COMPENSATED"
    <3>1. {u \in Steps : Row(t, "COMPENSATION", u) = "COMPENSATED"} = Before(s)
      BY <1>2, <2>2, <2>5 DEF Concluded
    <3>2. "DEBIT" \in Done[t] => "DEBIT" \in Undone[t]
      BY <1>2, <2>2, <3>1 DEF Audited, Row
    <3>3. QED
      BY <1>3, <1>5, <3>2
  <2>6. QED
    BY <2>3, <2>4, <2>5
<1>6. QED
  BY <1>4, <1>5

\* Every call is one the saga may make, in time or late, for a live run or a dead one.
LEMMA CallsAreRightful ==
  ASSUME RunInv, PromptInv
  PROVE  /\ \A r \in Runs : Calling(r) => Rightful(TransferOf[r], KindOf(r), run[r].step)
         /\ \A m \in late : Rightful(TransferOf[m.run], m.kind, m.step)
         /\ \A t \in Transfers : "CREDIT" \in Done[t] => "DEBIT" \in Done[t]
<1>1. ASSUME NEW r \in Runs, Calling(r)
      PROVE  Rightful(TransferOf[r], KindOf(r), run[r].step)
  BY <1>1, CallAtHand DEF Rightful
<1>2. ASSUME NEW m \in late
      PROVE  Rightful(TransferOf[m.run], m.kind, m.step)
  BY DEF PromptInv, Orphan, RunInv, IInv, Carried, Rightful
<1>3. \A t \in Transfers : "CREDIT" \in Done[t] => "DEBIT" \in Done[t]
  BY DebitBeforeCredit DEF RunInv, IInv, Ordered
<1>4. QED
  BY <1>1, <1>2, <1>3

\* While no service works and no row is written nobody notices anything.
LEMMA NothingSeen ==
  ASSUME UNCHANGED <<request, services, execution>>
  PROVE  UNCHANGED Promise!promiseVars
  BY DEF services, Promise!promiseVars, PromisedFunds, PromisedFate, OnItsWay, InTransit,
         Finished, Standing, Committed, Reverted, Party, Account!Recorded, Risk!Evaluated,
         Network!Registered

\* Each step of the saga is a step of the promise, or is not noticed.
LEMMA StepKeepsPromise ==
  ASSUME OneRunEach, RunInv, RunInv', PromptInv, timeouts' = timeouts => PromptInv',
         [Next]_vars
  PROVE  [Promise!Next]_(Promise!promiseVars)
<1>1. ServiceTypes /\ ServicesAgree
  BY DEF RunInv, IInv
<1>2. ASSUME NEW r \in Runs, Answered(r)
      PROVE  [Promise!Next]_(Promise!promiseVars)
  <2>1. PICK t \in Transfers, kind \in StepKinds, s \in Steps :
          t = TransferOf[r] /\ kind = KindOf(r) /\ s = run[r].step
    BY <1>2, CallAtHand DEF Answered
  <2>2. /\ Serve(t, kind, s) /\ UNCHANGED <<request, execution>>
        /\ Rightful(t, kind, s) /\ ("CREDIT" \in Done[t] => "DEBIT" \in Done[t])
    BY <1>2, <2>1, CallsAreRightful DEF Answered, saga
  <2>3. QED
    BY <1>1, <2>2, CallKeepsPromise
<1>3. ASSUME NEW m \in late, ExecuteLate(m)
      PROVE  [Promise!Next]_(Promise!promiseVars)
  <2>1. PICK t \in Transfers : t = TransferOf[m.run]
    BY OrchestrationAssumption DEF RunInv, IInv, SagaTypes, Message
  <2>2. m.kind \in StepKinds /\ m.step \in Steps
    BY DEF RunInv, IInv, SagaTypes, Message
  <2>3. /\ Serve(t, m.kind, m.step) /\ UNCHANGED <<request, execution>>
        /\ Rightful(t, m.kind, m.step) /\ ("CREDIT" \in Done[t] => "DEBIT" \in Done[t])
    BY <1>3, <2>1, CallsAreRightful DEF ExecuteLate, saga
  <2>4. QED
    BY <1>1, <2>2, <2>3, CallKeepsPromise
<1>4. ASSUME NEW r \in Runs, Quiet(r)
      PROVE  [Promise!Next]_(Promise!promiseVars)
  <2>1. PICK t \in Transfers : t = TransferOf[r]
    BY Here
  <2>2. /\ UNCHANGED <<request, services>> /\ timeouts' = timeouts
        /\ \A u \in Transfers \ {t} : execution'[u] = execution[u]
    BY <1>4, <2>1, QuietMoves
  <2>3. Moved(t) /\ execution \in [Transfers -> Execution \cup {Absent}]
    BY <1>4, <2>1, RunMoves, Here DEF Quiet, Step
  <2>4. Finished(t) => execution'[t] = execution[t]
    BY <2>3, AbsentAssumption DEF Moved, Finished
  <2>5. ASSUME ~Finished(t), Finished(t)'
        PROVE  execution'[t].compensation # "COMPENSATING"
    <3>1. execution[t] = Absent \/ execution[t] \in Execution
      BY <2>3
    <3>2. ~(execution[t] \in Execution /\ execution'[t].finished = execution[t].finished)
      BY <2>3, <2>5, AbsentAssumption DEF Finished
    <3>3. CASE Complete(r) \/ Reject(r)
      <4>1. Finish(r, Verdict(r), "NOT_REQUIRED")
        BY <3>3 DEF Complete, Reject
      <4>2. QED
        BY <2>1, <2>3, <4>1 DEF Finish
    <3>4. CASE Close(r)
      <4>1. PICK c : c = (IF run[r].clean THEN "COMPENSATED" ELSE "COMPENSATION_FAILED")
        OBVIOUS
      <4>2. Finish(r, Verdict(r), c)
        BY <3>4, <4>1 DEF Close
      <4>3. QED
        BY <2>1, <2>3, <4>1, <4>2 DEF Finish
    <3>5. CASE Start(r)
      <4>1. execution'[t] = IF execution[t] = Absent THEN NewExecution ELSE execution[t]
        BY <2>1, <2>3, <3>5 DEF Start
      <4>2. QED
        BY <2>5, <3>1, <3>2, <4>1 DEF NewExecution, Finished
    <3>6. CASE Enter(r) \/ Advance(r) \/ BeginRollback(r)
      <4>1. execution[t] \in Execution
        <5>1. run[r].pc \notin {"new", "done", "dead"} /\ IInv
          BY <3>6 DEF Enter, Advance, BeginRollback, At, RunInv
        <5>2. QED
          BY <2>1, <5>1, RowWritten
      <4>2. execution'[t].finished = execution[t].finished
        <5>1. CASE Enter(r)
          BY <2>1, <2>3, <4>1, <5>1 DEF Enter, Execution
        <5>2. CASE Advance(r)
          BY <2>1, <2>3, <4>1, <5>2 DEF Advance, Execution
        <5>3. CASE BeginRollback(r)
          BY <2>1, <2>3, <4>1, <5>3 DEF BeginRollback, Execution
        <5>4. QED
          BY <3>6, <5>1, <5>2, <5>3
      <4>3. QED
        BY <3>2, <4>1, <4>2
    <3>7. CASE UNCHANGED execution
      BY <2>5, <3>7 DEF Finished
    <3>8. QED
      BY <1>4, <3>3, <3>4, <3>5, <3>6, <3>7 DEF Quiet, Replay, Notify, Settle, saga
  <2>6. ~Finished(t) /\ Finished(t)' => /\ Standing(t, "DEBIT") => Standing(t, "CREDIT")
                                        /\ execution'[t].status = "COMPLETED" => Standing(t, "CREDIT")
    <3>1. RunInv' /\ PromptInv' => Whole'
      BY VerdictsAreWhole, PTL
    <3>2. RunInv' /\ PromptInv'
      BY <2>2
    <3>3. /\ Standing(t, "DEBIT")' <=> Standing(t, "DEBIT")
          /\ Standing(t, "CREDIT")' <=> Standing(t, "CREDIT")
      <4>1. Done' = Done /\ Undone' = Undone
        BY <1>1, <2>2, ServicesQuiet
      <4>2. QED
        BY <4>1, StandingSteps DEF Steps
    <3>4. QED
      BY <2>5, <3>1, <3>2, <3>3 DEF Whole
  <2>7. QED
    BY <1>1, <2>2, <2>4, <2>6, RowKeepsPromise
<1>5. CASE UNCHANGED <<request, services, execution>>
  BY <1>5, NothingSeen
<1>6. QED
  <2>1. ASSUME NEW r \in Runs, Step(r)
        PROVE  [Promise!Next]_(Promise!promiseVars)
    <3>1. \/ Answered(r) \/ Quiet(r)
          \/ UNCHANGED <<request, services, execution>>
      BY <2>1 DEF Step, Quiet, Retry, GiveUp, RecordSuccess, RecordFailure, Skip,
                  RecordRollback, saga
    <3>2. QED
      BY <1>2, <1>4, <1>5, <3>1
  <2>2. ASSUME NEW r \in Runs, Die(r)
        PROVE  UNCHANGED <<request, services, execution>>
    BY <2>2 DEF Die, saga
  <2>3. UNCHANGED vars => UNCHANGED <<request, services, execution>>
    BY DEF vars, services
  <2>4. QED
    BY <1>3, <1>5, <2>1, <2>2, <2>3 DEF Next, Rest

\* The detailed saga keeps the promise made to the owners of the accounts, whichever
\* runs die and whatever requests they leave in flight: until a call a run waits for
\* goes unanswered, each step commits a transfer whole, refuses it or is not noticed.
THEOREM NobodyIsOutOfPocket == OneRunEach => (Spec => AllOrNothing)
<1>1. SUFFICES ASSUME OneRunEach
               PROVE  Spec => AllOrNothing
  OBVIOUS
<1>2. Init => Promise!Init /\ (timeouts = 0 => PromptInv)
  BY PromiseStarts, InitPrompt DEF Init
<1>3. RunInv /\ RunInv' /\ (timeouts = 0 => PromptInv) /\ [Next]_vars =>
        (timeouts = 0 => PromptInv)'
  <2>1. SUFFICES ASSUME RunInv, RunInv', timeouts = 0 => PromptInv, [Next]_vars, timeouts' = 0
                 PROVE  PromptInv'
    OBVIOUS
  <2>2. timeouts' = timeouts
    <3>1. timeouts \in Nat /\ (timeouts' = timeouts \/ timeouts' = timeouts + 1)
      <4>1. \A r \in Runs : Step(r) => timeouts' = timeouts \/ timeouts' = timeouts + 1
        BY DEF Step, Start, Replay, Notify, Enter, Answered, Retry, GiveUp, RecordSuccess,
               RecordFailure, Advance, Skip, Settle, Complete, Reject, BeginRollback,
               RecordRollback, Close, Finish, faults
      <4>2. QED
        BY <2>1, <4>1, OrchestrationAssumption
           DEF Next, Die, ExecuteLate, Rest, vars, RunInv, IInv, SagaTypes
    <3>2. QED
      BY <2>1, <3>1
  <2>3. QED
    BY <1>1, <2>1, <2>2, PromptInvariance
<1>4. RunInv /\ RunInv' /\ (timeouts = 0 => PromptInv) /\ [Next]_vars =>
        [timeouts = 0 => [Promise!Next]_(Promise!promiseVars)]_vars
  BY <1>1, PromptInvariance, StepKeepsPromise
<1>5. Spec => []RunInv
  BY <1>1, RunInvariance
<1>6. QED
  BY <1>2, <1>3, <1>4, <1>5, PTL DEF Spec, AllOrNothing
=============================================================================
