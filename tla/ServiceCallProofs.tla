-------------------------- MODULE ServiceCallProofs --------------------------
(***************************************************************************)
(* What a saga may rely on when one of its services executes a call, for   *)
(* any accounts, transfers and requests: the lemma CallsAreServed; and what  *)
(* a call does to the money as the account holders are promised to see it: *)
(* the lemma CallKeepsPromise.  It is all that the proofs about a saga     *)
(* know of the services.                                                   *)
(***************************************************************************)
EXTENDS SagaProperties, TLAPS

Ledger == INSTANCE AccountServiceProofs

\* The steps of each transfer that took effect, and those that were undone.
Done == [t \in Transfers |-> {s \in Steps : Committed(t, s)}]
Undone == [t \in Transfers |-> {s \in Steps : Reverted(t, s)}]

ServiceTypes ==
  /\ request \in [Transfers -> Requests]
  /\ Account!TypeOK
  /\ Risk!TypeOK
  /\ Network!TypeOK

\* What the services recorded of a transfer is what its client asked for, and a
\* rejection always carries its reason.
ServicesAgree ==
  \A t \in Transfers :
    /\ \A a \in AccountIds, op \in Account!Operations : ledger[<<t, a, op>>] # Absent =>
         a \in Accounts /\ ledger[<<t, a, op>>].amount = request[t].amount
    /\ evaluations[t] # Absent =>
         /\ evaluations[t].subject = Risk!Subject(request[t])
         /\ evaluations[t].status = "RISK_REJECTED" => evaluations[t].error # "OK"
    /\ operations[t] # Absent =>
         /\ operations[t].subject = Network!Subject(request[t])
         /\ operations[t].status = "REJECTED_NETWORK" => operations[t].error # "OK"

-----------------------------------------------------------------------------
\* A call that takes effect at the account service found its row missing; a
\* compensation found its original.
LEMMA AccountGuards ==
  ASSUME NEW t \in Transfers, NEW a \in AccountIds, NEW op \in Account!Operations,
         NEW amount \in Amounts, Account!TakesEffect(t, a, op, amount)
  PROVE  /\ a \in Accounts
         /\ ledger[<<t, a, op>>] = Absent
         /\ op \in Account!Withdrawals => ~(balance[a] < amount)
         /\ op \in Account!Compensations => ledger[<<t, a, Account!Original(op)>>] # Absent
  BY DEF Account!TakesEffect, Account!Answer, Account!Overdraws, Account!Recorded

\* No call makes a balance negative or the ledger malformed.
LEMMA AccountTypes ==
  ASSUME Account!TypeOK, NEW t \in Transfers, NEW a \in AccountIds,
         NEW op \in Account!Operations, NEW amount \in Amounts,
         Account!Serve(t, a, op, amount)
  PROVE  Account!TypeOK'
<1>1. CASE Account!Decline(t, a, op, amount)
  BY <1>1 DEF Account!Decline, Account!vars, Account!TypeOK
<1>2. CASE Account!Apply(t, a, op, amount)
  <2>0. Account!TakesEffect(t, a, op, amount)
    BY <1>2 DEF Account!Apply
  <2>1. amount \in Nat /\ a \in Accounts /\ balance[a] \in Nat
    BY <2>0, AccountGuards, RequestsAssumption DEF Account!TypeOK, Amounts
  <2>2. Account!BalanceAfter(a, op, amount) \in Nat
    <3>1. op \in Account!Withdrawals => ~(balance[a] < amount)
      BY <2>0, AccountGuards
    <3>2. QED
      BY <2>1, <3>1 DEF Account!BalanceAfter
  <2>3. balance' \in [Accounts -> Nat]
    BY <1>2, <2>2 DEF Account!Apply, Account!TypeOK
  <2>4. Account!NewEntry(a, op, amount) \in Account!Entry
    BY <2>2 DEF Account!NewEntry, Account!Entry
  <2>5. ASSUME NEW k \in Transfers \X AccountIds \X Account!Operations
        PROVE  ledger'[k] \in Account!Entry \cup {Absent}
    <3>0. ledger[k] \in Account!Entry \cup {Absent}
      BY DEF Account!TypeOK
    <3>1. CASE k = <<t, a, op>>
      BY <1>2, <2>4, <3>1 DEF Account!Apply
    <3>2. CASE k # <<t, a, op>> /\ op \in Account!Compensations
                 /\ k = <<t, a, Account!Original(op)>>
      <4>1. ledger[k] \in Account!Entry
        BY <2>0, <3>0, <3>2, AccountGuards
      <4>2. Account!Flagged(ledger[k]) \in Account!Entry
        BY <4>1 DEF Account!Entry, Account!Flagged
      <4>3. ledger'[k] = Account!Flagged(ledger[k])
        BY <1>2, <3>2 DEF Account!Apply
      <4>4. QED
        BY <4>2, <4>3
    <3>3. CASE k # <<t, a, op>> /\ ~(op \in Account!Compensations
                                      /\ k = <<t, a, Account!Original(op)>>)
      BY <1>2, <3>0, <3>3 DEF Account!Apply
    <3>4. QED
      BY <3>1, <3>2, <3>3
  <2>6. ledger' = [k \in Transfers \X AccountIds \X Account!Operations |-> ledger'[k]]
    BY <1>2 DEF Account!Apply
  <2>7. ledger' \in [Transfers \X AccountIds \X Account!Operations ->
                      Account!Entry \cup {Absent}]
    BY <2>5, <2>6
  <2>8. QED
    BY <2>3, <2>7 DEF Account!TypeOK
<1>3. QED
  BY <1>1, <1>2 DEF Account!Serve

\* What a request does to the ledger: at most one row appears, with the amount
\* asked for; no row goes and no amount changes.
LEMMA AccountStep ==
  ASSUME Account!TypeOK, NEW t \in Transfers, NEW a \in AccountIds,
         NEW op \in Account!Operations, NEW amount \in Amounts,
         Account!Serve(t, a, op, amount),
         NEW u \in Transfers, NEW b \in AccountIds, NEW o \in Account!Operations
  PROVE  /\ ledger[<<u, b, o>>] # Absent =>
              /\ ledger'[<<u, b, o>>] # Absent
              /\ ledger'[<<u, b, o>>].amount = ledger[<<u, b, o>>].amount
         /\ ledger[<<u, b, o>>] = Absent /\ ledger'[<<u, b, o>>] # Absent =>
              /\ u = t /\ b = a /\ o = op /\ a \in Accounts
              /\ ledger'[<<u, b, o>>].amount = amount
         /\ Account!Answer(t, a, op, amount) = "OK" => ledger'[<<t, a, op>>] # Absent
<1>0. <<u, b, o>> \in Transfers \X AccountIds \X Account!Operations
  OBVIOUS
<1>0a. <<t, a, op>> \in Transfers \X AccountIds \X Account!Operations
  OBVIOUS
<1>0b. ledger'[<<u, b, o>>] \in Account!Entry \cup {Absent}
  BY <1>0, AccountTypes DEF Account!TypeOK
<1>1. CASE Account!Decline(t, a, op, amount)
  BY <1>1 DEF Account!Decline, Account!vars, Account!TakesEffect, Account!Recorded
<1>2. CASE Account!Apply(t, a, op, amount)
  <2>0. Account!TakesEffect(t, a, op, amount)
    BY <1>2 DEF Account!Apply
  <2>1. /\ a \in Accounts
        /\ ledger[<<t, a, op>>] = Absent
        /\ op \in Account!Compensations => ledger[<<t, a, Account!Original(op)>>] # Absent
    BY <2>0, AccountGuards
  <2>2. ledger'[<<t, a, op>>] = Account!NewEntry(a, op, amount)
    BY <1>2, <1>0a DEF Account!Apply
  <2>3. /\ ledger'[<<t, a, op>>].amount = amount
        /\ ledger'[<<t, a, op>>] # Absent
    <3>1. Account!NewEntry(a, op, amount).amount = amount
      BY DEF Account!NewEntry
    <3>2. ledger'[<<t, a, op>>] \in Account!Entry
      <4>1. balance'[a] = Account!BalanceAfter(a, op, amount) /\ balance'[a] \in Nat
        BY <1>2, <2>1, AccountTypes DEF Account!Apply, Account!TypeOK
      <4>2. QED
        BY <2>2, <4>1 DEF Account!NewEntry, Account!Entry
    <3>3. QED
      BY <2>2, <3>1, <3>2, ServiceRowsAssumption
  <2>4. CASE <<u, b, o>> = <<t, a, op>>
    BY <2>1, <2>3, <2>4
  <2>5. CASE <<u, b, o>> # <<t, a, op>> /\ op \in Account!Compensations
               /\ <<u, b, o>> = <<t, a, Account!Original(op)>>
    <3>1. ledger'[<<u, b, o>>] = Account!Flagged(ledger[<<u, b, o>>])
      BY <1>2, <1>0, <2>5 DEF Account!Apply
    <3>2. ledger[<<u, b, o>>] # Absent
      BY <2>1, <2>5
    <3>3. ledger[<<u, b, o>>] \in Account!Entry
      BY <1>0, <3>2 DEF Account!TypeOK
    <3>4. /\ Account!Flagged(ledger[<<u, b, o>>]) \in Account!Entry
          /\ Account!Flagged(ledger[<<u, b, o>>]).amount = ledger[<<u, b, o>>].amount
      BY <3>3 DEF Account!Entry, Account!Flagged
    <3>5. QED
      BY <2>3, <3>1, <3>2, <3>4, ServiceRowsAssumption
  <2>6. CASE <<u, b, o>> # <<t, a, op>> /\ ~(op \in Account!Compensations
               /\ <<u, b, o>> = <<t, a, Account!Original(op)>>)
    <3>1. ledger'[<<u, b, o>>] = ledger[<<u, b, o>>]
      BY <1>2, <1>0, <2>6 DEF Account!Apply
    <3>2. QED
      BY <2>3, <3>1
  <2>7. QED
    BY <2>4, <2>5, <2>6
<1>3. QED
  BY <1>1, <1>2 DEF Account!Serve

-----------------------------------------------------------------------------
\* Which operation of the account service a step's call is.
LEMMA AccountOperations ==
  ASSUME NEW kind \in StepKinds, NEW s \in {"DEBIT", "CREDIT"}
  PROVE  /\ AccountOperation(kind, s) \in Account!Operations
         /\ kind = "ACTION" => AccountOperation(kind, s) =
              IF s = "DEBIT" THEN "debit" ELSE "credit"
         /\ kind = "COMPENSATION" => AccountOperation(kind, s) =
              IF s = "DEBIT" THEN "debit_compensate" ELSE "credit_compensate"
  BY DEF StepKinds, AccountOperation, Account!Operations, Account!Compensations

\* What it means at each service that a step took effect, or was undone.
EffectsOf(t) ==
  /\ "DEBIT" \in Done[t] <=> ledger[<<t, request[t].source, "debit">>] # Absent
  /\ "CREDIT" \in Done[t] <=> ledger[<<t, request[t].destination, "credit">>] # Absent
  /\ "RISK" \in Done[t] <=>
       evaluations[t] # Absent /\ evaluations[t].status # "RISK_REJECTED"
  /\ "CLEARING" \in Done[t] <=>
       operations[t] # Absent /\ operations[t].status # "REJECTED_NETWORK"
  /\ "DEBIT" \in Undone[t] <=> ledger[<<t, request[t].source, "debit_compensate">>] # Absent
  /\ "CREDIT" \in Undone[t] <=>
       ledger[<<t, request[t].destination, "credit_compensate">>] # Absent
  /\ "RISK" \in Undone[t] <=>
       evaluations[t] # Absent /\ evaluations[t].status = "COMPENSATED"
  /\ "CLEARING" \in Undone[t] <=>
       operations[t] # Absent /\ operations[t].status = "COMPENSATED"
  /\ Done[t] \subseteq Steps /\ Undone[t] \subseteq Steps

\* Done and Undone are read off the services' rows.
LEMMA Effects ==
  ASSUME NEW t \in Transfers
  PROVE  EffectsOf(t)
<1>1. \A s \in Steps : s \in Done[t] <=> Committed(t, s)
  BY DEF Done
<1>2. \A s \in Steps : s \in Undone[t] <=> Reverted(t, s)
  BY DEF Undone
<1>3. Done[t] \subseteq Steps /\ Undone[t] \subseteq Steps
  BY DEF Done, Undone
<1>4. /\ Committed(t, "DEBIT") <=> ledger[<<t, request[t].source, "debit">>] # Absent
      /\ Committed(t, "CREDIT") <=> ledger[<<t, request[t].destination, "credit">>] # Absent
      /\ Committed(t, "RISK") <=>
           evaluations[t] # Absent /\ evaluations[t].status # "RISK_REJECTED"
      /\ Committed(t, "CLEARING") <=>
           operations[t] # Absent /\ operations[t].status # "REJECTED_NETWORK"
  BY DEF Committed, Party, Account!Recorded, Risk!Evaluated, Network!Registered
<1>5. /\ Reverted(t, "DEBIT") <=> ledger[<<t, request[t].source, "debit_compensate">>] # Absent
      /\ Reverted(t, "CREDIT") <=>
           ledger[<<t, request[t].destination, "credit_compensate">>] # Absent
      /\ Reverted(t, "RISK") <=>
           evaluations[t] # Absent /\ evaluations[t].status = "COMPENSATED"
      /\ Reverted(t, "CLEARING") <=>
           operations[t] # Absent /\ operations[t].status = "COMPENSATED"
  BY DEF Reverted, Party, Account!Recorded, Risk!Evaluated, Network!Registered
<1>6. QED
  BY <1>1, <1>2, <1>3, <1>4, <1>5 DEF Steps, EffectsOf

\* The same of the rows after a step.
LEMMA EffectsAfter ==
  ASSUME NEW t \in Transfers
  PROVE  EffectsOf(t)'
<1>1. \A u \in Transfers : EffectsOf(u)
  BY Effects
<1>2. (\A u \in Transfers : EffectsOf(u))'
  BY <1>1, PTL
<1>3. QED
  BY <1>2

\* What a saga may rely on when a service executes a call: nothing that took
\* effect is forgotten, only the called step may newly take effect or be undone, a
\* success is a fact at the service and so is a failure, only a debit lacks funds,
\* only the risk service rejects for risk and only clearing times out there, and what
\* took effect can be undone, except a credit whose money has been spent.
Served(t, kind, s) ==
  /\ ServiceTypes' /\ ServicesAgree'
  /\ \A u \in Transfers : Done[u] \subseteq Done'[u] /\ Undone[u] \subseteq Undone'[u]
  /\ \A u \in Transfers : \A v \in Done'[u] \ Done[u] : u = t /\ kind = "ACTION" /\ v = s
  /\ \A u \in Transfers : \A v \in Undone'[u] \ Undone[u] :
       u = t /\ kind = "COMPENSATION" /\ v = s
  /\ kind = "ACTION" /\ Reply(t, kind, s) = "OK" => s \in Done'[t]
  /\ kind = "ACTION" /\ Reply(t, kind, s) # "OK" => s \notin Done'[t]
  /\ kind = "COMPENSATION" /\ Reply(t, kind, s) = "OK" => s \in Undone'[t]
  /\ Reply(t, kind, s) \in ErrorCodes \cup {"OK"}
  /\ kind = "ACTION" /\ Reply(t, kind, s) = "INSUFFICIENT_FUNDS" => s = "DEBIT"
  /\ kind = "ACTION" /\ Reply(t, kind, s) \in {"RISK_REJECTED", "RISK_LIMIT_EXCEEDED"} =>
       s = "RISK"
  /\ kind = "ACTION" /\ Reply(t, kind, s) = "CLEARING_TIMEOUT" => s = "CLEARING"
  /\ kind = "COMPENSATION" /\ s \in Done[t] =>
       \/ Reply(t, kind, s) = "OK"
       \/ s = "CREDIT" /\ Reply(t, kind, s) = "INSUFFICIENT_FUNDS"

\* A call to the account service, seen from the saga.
LEMMA AccountServes ==
  ASSUME ServiceTypes, ServicesAgree, NEW t \in Transfers, NEW kind \in StepKinds,
         NEW s \in {"DEBIT", "CREDIT"}, Serve(t, kind, s), UNCHANGED request
  PROVE  Served(t, kind, s)
<1> DEFINE a == Party(t, s)
           op == AccountOperation(kind, s)
           amount == request[t].amount
<1>1. /\ a \in AccountIds
      /\ amount \in Amounts
      /\ op \in Account!Operations
      /\ \A u \in Transfers : /\ request[u].source \in AccountIds
                              /\ request[u].destination \in AccountIds
  BY AccountOperations, RequestsAssumption DEF ServiceTypes, Party, Amounts
<1>2. /\ Account!Serve(t, a, op, amount)
      /\ UNCHANGED <<evaluations, operations>>
  BY DEF Serve
<1>3. Account!TypeOK /\ Account!TypeOK'
  BY <1>1, <1>2, AccountTypes DEF ServiceTypes
<1>4. ServiceTypes'
  BY <1>2, <1>3 DEF ServiceTypes, Risk!TypeOK, Network!TypeOK
<1>5. \A u \in Transfers, b \in AccountIds, o \in Account!Operations :
        /\ ledger[<<u, b, o>>] # Absent =>
              /\ ledger'[<<u, b, o>>] # Absent
              /\ ledger'[<<u, b, o>>].amount = ledger[<<u, b, o>>].amount
        /\ ledger[<<u, b, o>>] = Absent /\ ledger'[<<u, b, o>>] # Absent =>
              /\ u = t /\ b = a /\ o = op /\ a \in Accounts
              /\ ledger'[<<u, b, o>>].amount = amount
        /\ Account!Answer(t, a, op, amount) = "OK" => ledger'[<<t, a, op>>] # Absent
  <2> HIDE DEF a, op, amount
  <2>1. SUFFICES ASSUME NEW u \in Transfers, NEW b \in AccountIds,
                        NEW o \in Account!Operations
                 PROVE  /\ ledger[<<u, b, o>>] # Absent =>
                              /\ ledger'[<<u, b, o>>] # Absent
                              /\ ledger'[<<u, b, o>>].amount = ledger[<<u, b, o>>].amount
                        /\ ledger[<<u, b, o>>] = Absent /\ ledger'[<<u, b, o>>] # Absent =>
                              /\ u = t /\ b = a /\ o = op /\ a \in Accounts
                              /\ ledger'[<<u, b, o>>].amount = amount
                        /\ Account!Answer(t, a, op, amount) = "OK" =>
                             ledger'[<<t, a, op>>] # Absent
    OBVIOUS
  <2>2. Account!Serve(t, a, op, amount) /\ Account!TypeOK
    BY <1>2, <1>3
  <2>3. QED
    BY <1>1, <2>2, AccountStep
<1>6. ServicesAgree'
  BY <1>2, <1>5 DEF ServicesAgree
<1>7. Reply(t, kind, s) = Account!Answer(t, a, op, amount)
  BY DEF Reply
<1>8. Reply(t, kind, s) \in ErrorCodes \cup {"OK"}
  BY <1>7 DEF Account!Answer, ErrorCodes
<1>9. op \in Account!Operations
      /\ op = IF kind = "ACTION" THEN IF s = "DEBIT" THEN "debit" ELSE "credit"
              ELSE IF s = "DEBIT" THEN "debit_compensate" ELSE "credit_compensate"
  BY AccountOperations DEF StepKinds
<1>10. \A u \in Transfers : EffectsOf(u) /\ EffectsOf(u)'
  BY Effects, EffectsAfter
<1>11. ASSUME NEW u \in Transfers
       PROVE  /\ Done[u] \subseteq Done'[u] /\ Undone[u] \subseteq Undone'[u]
              /\ \A v \in Done'[u] \ Done[u] : u = t /\ kind = "ACTION" /\ v = s
              /\ \A v \in Undone'[u] \ Undone[u] : u = t /\ kind = "COMPENSATION" /\ v = s
  <2> HIDE DEF a, op, amount
  <2>2. {"debit", "credit", "debit_compensate", "credit_compensate"} = Account!Operations
    BY DEF Account!Operations, Account!Compensations
  <2>3. ASSUME NEW b \in AccountIds, NEW o \in Account!Operations
        PROVE  /\ ledger[<<u, b, o>>] # Absent => ledger'[<<u, b, o>>] # Absent
               /\ ledger[<<u, b, o>>] = Absent /\ ledger'[<<u, b, o>>] # Absent =>
                    u = t /\ o = op
    BY <1>5
  <2>4. request'[u] = request[u] /\ request[u].source \in AccountIds
          /\ request[u].destination \in AccountIds
    BY <1>1
  <2>5. EffectsOf(u) /\ EffectsOf(u)' /\ UNCHANGED <<evaluations, operations>>
    BY <1>2, <1>10
  <2>6. /\ Done[u] \subseteq Done'[u] /\ Undone[u] \subseteq Undone'[u]
        /\ "RISK" \in Done'[u] <=> "RISK" \in Done[u]
        /\ "CLEARING" \in Done'[u] <=> "CLEARING" \in Done[u]
        /\ "RISK" \in Undone'[u] <=> "RISK" \in Undone[u]
        /\ "CLEARING" \in Undone'[u] <=> "CLEARING" \in Undone[u]
    BY <2>2, <2>3, <2>4, <2>5 DEF EffectsOf, Steps
  <2>7. "DEBIT" \in Done'[u] /\ "DEBIT" \notin Done[u] => u = t /\ op = "debit"
    BY <2>2, <2>3, <2>4, <2>5 DEF EffectsOf
  <2>8. "CREDIT" \in Done'[u] /\ "CREDIT" \notin Done[u] => u = t /\ op = "credit"
    BY <2>2, <2>3, <2>4, <2>5 DEF EffectsOf
  <2>9. \A v \in Done'[u] \ Done[u] : u = t /\ kind = "ACTION" /\ v = s
    BY <1>9, <2>5, <2>6, <2>7, <2>8 DEF EffectsOf, Steps, StepKinds
  <2>10. "DEBIT" \in Undone'[u] /\ "DEBIT" \notin Undone[u] =>
           u = t /\ op = "debit_compensate"
    BY <2>2, <2>3, <2>4, <2>5 DEF EffectsOf
  <2>11. "CREDIT" \in Undone'[u] /\ "CREDIT" \notin Undone[u] =>
           u = t /\ op = "credit_compensate"
    BY <2>2, <2>3, <2>4, <2>5 DEF EffectsOf
  <2>12. \A v \in Undone'[u] \ Undone[u] : u = t /\ kind = "COMPENSATION" /\ v = s
    BY <1>9, <2>5, <2>6, <2>10, <2>11 DEF EffectsOf, Steps, StepKinds
  <2>13. QED
    BY <2>6, <2>9, <2>12
<1>12. /\ kind = "ACTION" /\ Reply(t, kind, s) = "OK" => s \in Done'[t]
       /\ kind = "COMPENSATION" /\ Reply(t, kind, s) = "OK" => s \in Undone'[t]
  BY <1>1, <1>5, <1>7, <1>9, <1>10 DEF EffectsOf, Party
<1>13. ASSUME kind = "COMPENSATION", s \in Done[t]
       PROVE  \/ Reply(t, kind, s) = "OK"
              \/ s = "CREDIT" /\ Reply(t, kind, s) = "INSUFFICIENT_FUNDS"
  <2>1. /\ op \in Account!Compensations
        /\ Account!Original(op) = IF s = "DEBIT" THEN "debit" ELSE "credit"
    BY <1>9, <1>13 DEF Account!Compensations, Account!Original, StepKinds
  <2>2. /\ ledger[<<t, a, Account!Original(op)>>] # Absent
        /\ Account!Original(op) \in Account!Operations
    BY <1>10, <1>13, <2>1 DEF EffectsOf, Party, Account!Operations
  <2>3. /\ a \in Accounts
        /\ ledger[<<t, a, Account!Original(op)>>].amount = amount
        /\ ledger[<<t, a, op>>] # Absent => ledger[<<t, a, op>>].amount = amount
    BY <1>1, <2>2 DEF ServicesAgree
  <2>4. op \in Account!Withdrawals => s = "CREDIT"
    BY <1>9, <1>13 DEF Account!Withdrawals, StepKinds
  <2>5. QED
    BY <1>7, <2>1, <2>2, <2>3, <2>4
       DEF Account!Answer, Account!Recorded, Account!Contradicts, Account!Overdraws
<1>14. ASSUME kind = "ACTION"
       PROVE  /\ Reply(t, kind, s) = "INSUFFICIENT_FUNDS" => s = "DEBIT"
              /\ Reply(t, kind, s) \notin {"RISK_REJECTED", "RISK_LIMIT_EXCEEDED",
                                             "CLEARING_TIMEOUT"}
  <2>1. op \in Account!Withdrawals => s = "DEBIT"
    BY <1>9, <1>14 DEF Account!Withdrawals
  <2>2. QED
    BY <1>7, <2>1 DEF Account!Answer, Account!Overdraws
<1>15. ASSUME kind = "ACTION", Reply(t, kind, s) # "OK"
       PROVE  s \notin Done'[t]
  <2>1. /\ op \notin Account!Compensations /\ op = IF s = "DEBIT" THEN "debit" ELSE "credit"
    BY <1>9, <1>15 DEF Account!Compensations
  <2>2. UNCHANGED ledger
    BY <1>2, <1>7, <1>15
       DEF Account!Serve, Account!Apply, Account!Decline, Account!TakesEffect, Account!vars
  <2>3. ledger[<<t, a, op>>] = Absent
    <3>1. ledger[<<t, a, op>>] # Absent =>
            a \in Accounts /\ ledger[<<t, a, op>>].amount = amount
      BY <1>1 DEF ServicesAgree
    <3>2. QED
      BY <1>7, <1>15, <3>1 DEF Account!Answer, Account!Recorded, Account!Contradicts
  <2>4. /\ s = "DEBIT" => a = request'[t].source
        /\ s = "CREDIT" => a = request'[t].destination
    BY DEF Party
  <2>5. QED
    BY <1>10, <2>1, <2>2, <2>3, <2>4 DEF EffectsOf
<1>16. QED
  BY <1>4, <1>6, <1>8, <1>11, <1>12, <1>13, <1>14, <1>15 DEF Served

\* A call to the risk service, seen from the saga.
LEMMA RiskServes ==
  ASSUME ServiceTypes, ServicesAgree, NEW t \in Transfers, NEW kind \in StepKinds,
         Serve(t, kind, "RISK"), UNCHANGED request
  PROVE  Served(t, kind, "RISK")
<1> DEFINE q == request[t]
           row == evaluations[t]
<1>1. /\ q \in Requests /\ q.forceRisk \in BOOLEAN /\ q.amount \in Nat /\ RiskMaxAmount \in Nat
      /\ row \in Risk!Evaluation \cup {Absent}
      /\ UNCHANGED <<balance, ledger, operations>>
      /\ IF kind = "ACTION" THEN Risk!Check(t, q) ELSE Risk!Compensate(t)
  BY RequestsAssumption, ServicesAssumption DEF ServiceTypes, Risk!TypeOK, Serve
<1>2. /\ Risk!Verdict(q) \in {"OK", "RISK_REJECTED", "RISK_LIMIT_EXCEEDED"}
      /\ Risk!NewEvaluation(q) \in Risk!Evaluation
      /\ Risk!NewEvaluation(q).subject = Risk!Subject(q)
      /\ Risk!NewEvaluation(q).error = Risk!Verdict(q)
      /\ Risk!NewEvaluation(q).status \in {"RISK_APPROVED", "RISK_REJECTED"}
      /\ Risk!NewEvaluation(q).status = "RISK_REJECTED" <=> Risk!Verdict(q) # "OK"
  <2>1. Risk!Verdict(q) \in {"OK", "RISK_REJECTED", "RISK_LIMIT_EXCEEDED"}
    BY DEF Risk!Verdict
  <2>2. Risk!Subject(q) \in Risk!Subjects
    BY <1>1 DEF Risk!Subjects
  <2>3. QED
    BY <2>1, <2>2 DEF Risk!NewEvaluation, Risk!Evaluation
<1>3. Absent \notin Risk!Evaluation
  BY ServiceRowsAssumption
\* The row after the call.
<1>4. /\ kind = "ACTION" =>
           evaluations'[t] = IF row = Absent THEN Risk!NewEvaluation(q) ELSE row
      /\ kind = "COMPENSATION" /\ row # Absent /\ row.status # "RISK_REJECTED" =>
           evaluations'[t] = [subject |-> row.subject, status |-> "COMPENSATED",
                              error |-> row.error]
      /\ kind = "COMPENSATION" /\ ~(row # Absent /\ row.status # "RISK_REJECTED") =>
           evaluations'[t] = row
      /\ \A u \in Transfers \ {t} : evaluations'[u] = evaluations[u]
      /\ evaluations' = [u \in Transfers |-> evaluations'[u]]
  BY <1>1 DEF ServiceTypes, Risk!TypeOK, Risk!Check, Risk!Compensate, Risk!Evaluated,
              Risk!CompensateAnswer, StepKinds
<1>5. evaluations'[t] \in Risk!Evaluation \cup {Absent}
  BY <1>1, <1>2, <1>4 DEF Risk!Evaluation, StepKinds
<1>6. Risk!TypeOK'
  BY <1>4, <1>5 DEF ServiceTypes, Risk!TypeOK
<1>7. ServiceTypes'
  BY <1>1, <1>6 DEF ServiceTypes, Account!TypeOK, Network!TypeOK
<1>8. /\ evaluations'[t] # Absent => /\ evaluations'[t].subject = Risk!Subject(q)
                                     /\ evaluations'[t].status = "RISK_REJECTED" =>
                                          evaluations'[t].error # "OK"
      /\ row # Absent => /\ row.subject = Risk!Subject(q)
                         /\ row.status = "RISK_REJECTED" => row.error # "OK"
  BY <1>1, <1>2, <1>4 DEF ServicesAgree, StepKinds
<1>9. ServicesAgree'
  BY <1>1, <1>4, <1>8 DEF ServicesAgree
<1>10. \A u \in Transfers : EffectsOf(u) /\ EffectsOf(u)'
  BY Effects, EffectsAfter
<1>11. /\ row # Absent /\ row.status # "RISK_REJECTED" =>
            evaluations'[t] # Absent /\ evaluations'[t].status # "RISK_REJECTED"
       /\ row # Absent /\ row.status = "COMPENSATED" =>
            evaluations'[t] # Absent /\ evaluations'[t].status = "COMPENSATED"
       /\ evaluations'[t] # Absent /\ evaluations'[t].status # "RISK_REJECTED" =>
            \/ kind = "ACTION"
            \/ row # Absent /\ row.status # "RISK_REJECTED"
       /\ evaluations'[t] # Absent /\ evaluations'[t].status = "COMPENSATED" =>
            \/ kind = "COMPENSATION"
            \/ row # Absent /\ row.status = "COMPENSATED"
  BY <1>1, <1>2, <1>3, <1>4 DEF Risk!Evaluation, StepKinds
<1>12. ASSUME NEW u \in Transfers
       PROVE  /\ Done[u] \subseteq Done'[u] /\ Undone[u] \subseteq Undone'[u]
              /\ \A v \in Done'[u] \ Done[u] : u = t /\ kind = "ACTION" /\ v = "RISK"
              /\ \A v \in Undone'[u] \ Undone[u] :
                   u = t /\ kind = "COMPENSATION" /\ v = "RISK"
  <2>1. EffectsOf(u) /\ EffectsOf(u)' /\ UNCHANGED <<request, ledger, operations>>
    BY <1>1, <1>10
  <2>2. /\ \A v \in Steps : v # "RISK" => (v \in Done'[u] <=> v \in Done[u])
        /\ \A v \in Steps : v # "RISK" => (v \in Undone'[u] <=> v \in Undone[u])
        /\ Done[u] \subseteq Steps /\ Undone[u] \subseteq Steps
        /\ Done'[u] \subseteq Steps /\ Undone'[u] \subseteq Steps
    BY <2>1 DEF EffectsOf, Steps
  <2>3. /\ "RISK" \in Done[u] => "RISK" \in Done'[u]
        /\ "RISK" \in Undone[u] => "RISK" \in Undone'[u]
        /\ "RISK" \in Done'[u] /\ "RISK" \notin Done[u] => u = t /\ kind = "ACTION"
        /\ "RISK" \in Undone'[u] /\ "RISK" \notin Undone[u] => u = t /\ kind = "COMPENSATION"
    <3>1. CASE u = t
      BY <1>11, <2>1, <3>1 DEF EffectsOf
    <3>2. CASE u # t
      BY <1>4, <2>1, <3>2 DEF EffectsOf
    <3>3. QED
      BY <3>1, <3>2
  <2>4. QED
    BY <2>2, <2>3
<1>13. /\ kind = "ACTION" => Reply(t, kind, "RISK") = Risk!CheckAnswer(t, q)
       /\ kind = "COMPENSATION" => Reply(t, kind, "RISK") = Risk!CompensateAnswer(t)
  BY DEF Reply
<1>14. /\ kind = "ACTION" /\ Reply(t, kind, "RISK") = "OK" => "RISK" \in Done'[t]
       /\ kind = "COMPENSATION" /\ Reply(t, kind, "RISK") = "OK" => "RISK" \in Undone'[t]
       /\ Reply(t, kind, "RISK") \in ErrorCodes \cup {"OK"}
       /\ kind = "COMPENSATION" /\ "RISK" \in Done[t] => Reply(t, kind, "RISK") = "OK"
  <2>1. ASSUME kind = "ACTION", row = Absent
        PROVE  /\ Reply(t, kind, "RISK") = Risk!Verdict(q)
               /\ evaluations'[t] = Risk!NewEvaluation(q)
    BY <1>4, <1>13, <2>1 DEF Risk!CheckAnswer, Risk!Evaluated
  <2>2. ASSUME kind = "ACTION", row # Absent
        PROVE  /\ Reply(t, kind, "RISK") = "OK" => row.status # "RISK_REJECTED"
               /\ Reply(t, kind, "RISK") \in ErrorCodes \cup {"OK"}
               /\ evaluations'[t] = row
    <3>1. Reply(t, kind, "RISK") = Risk!Reported(row)
      BY <1>8, <1>13, <2>2 DEF Risk!CheckAnswer, Risk!Evaluated
    <3>2. QED
      BY <1>1, <1>4, <1>8, <2>2, <3>1 DEF Risk!Reported, Risk!Evaluation, ErrorCodes
  <2>3. ASSUME kind = "COMPENSATION"
        PROVE  /\ Reply(t, kind, "RISK") = "OK" <=>
                    row # Absent /\ row.status # "RISK_REJECTED"
               /\ Reply(t, kind, "RISK") \in ErrorCodes \cup {"OK"}
    BY <1>13, <2>3 DEF Risk!CompensateAnswer, Risk!Evaluated, ErrorCodes
  <2>4. ASSUME kind = "ACTION"
        PROVE  /\ Reply(t, kind, "RISK") = "OK" => "RISK" \in Done'[t]
               /\ Reply(t, kind, "RISK") \in ErrorCodes \cup {"OK"}
    BY <1>2, <1>3, <1>10, <2>1, <2>2, <2>4 DEF EffectsOf, ErrorCodes
  <2>5. ASSUME kind = "COMPENSATION"
        PROVE  /\ Reply(t, kind, "RISK") = "OK" => "RISK" \in Undone'[t]
               /\ "RISK" \in Done[t] => Reply(t, kind, "RISK") = "OK"
    <3>1. row # Absent /\ row.status # "RISK_REJECTED" =>
            evaluations'[t] # Absent /\ evaluations'[t].status = "COMPENSATED"
      BY <1>1, <1>3, <1>4, <2>5 DEF Risk!Evaluation
    <3>2. QED
      BY <1>10, <2>3, <2>5, <3>1 DEF EffectsOf
  <2>6. QED
    BY <2>3, <2>4, <2>5 DEF StepKinds
<1>15. kind = "ACTION" =>
         Reply(t, kind, "RISK") \notin {"INSUFFICIENT_FUNDS", "CLEARING_TIMEOUT"}
  <2>1. row # Absent =>
          /\ row.error \in {"OK", "RISK_REJECTED", "RISK_LIMIT_EXCEEDED"}
          /\ Risk!Reported(row) \in {"OK", "RISK_REJECTED", "RISK_LIMIT_EXCEEDED"}
    BY <1>1 DEF Risk!Reported, Risk!Evaluation
  <2>2. Risk!CheckAnswer(t, q) \notin {"INSUFFICIENT_FUNDS", "CLEARING_TIMEOUT"}
    BY <1>2, <2>1 DEF Risk!CheckAnswer, Risk!Evaluated
  <2>3. QED
    BY <1>13, <2>2
<1>16. kind = "ACTION" /\ Reply(t, kind, "RISK") # "OK" => "RISK" \notin Done'[t]
  <2>1. SUFFICES ASSUME kind = "ACTION", Reply(t, kind, "RISK") # "OK"
                 PROVE  evaluations'[t] # Absent => evaluations'[t].status = "RISK_REJECTED"
    BY <1>10 DEF EffectsOf
  <2>2. CASE row = Absent
    BY <1>2, <1>4, <1>13, <2>1, <2>2 DEF Risk!CheckAnswer, Risk!Evaluated
  <2>3. CASE row # Absent
    <3>1. Reply(t, kind, "RISK") = Risk!Reported(row) /\ evaluations'[t] = row
      BY <1>4, <1>8, <1>13, <2>1, <2>3 DEF Risk!CheckAnswer, Risk!Evaluated
    <3>2. QED
      BY <1>1, <2>1, <2>3, <3>1 DEF Risk!Reported, Risk!Evaluation
  <2>4. QED
    BY <2>2, <2>3
<1>17. QED
  BY <1>7, <1>9, <1>12, <1>14, <1>15, <1>16 DEF Served

\* A call to the clearing service, seen from the saga.
LEMMA NetworkServes ==
  ASSUME ServiceTypes, ServicesAgree, NEW t \in Transfers, NEW kind \in StepKinds,
         Serve(t, kind, "CLEARING"), UNCHANGED request
  PROVE  Served(t, kind, "CLEARING")
<1> DEFINE q == request[t]
           row == operations[t]
<1>1. /\ q \in Requests /\ q.forceClearing \in BOOLEAN /\ SlowNetwork \in BOOLEAN
      /\ row \in Network!Operation \cup {Absent}
      /\ UNCHANGED <<balance, ledger, evaluations>>
      /\ IF kind = "ACTION" THEN Network!Transfer(t, q) ELSE Network!Compensate(t)
  BY RequestsAssumption, ServicesAssumption DEF ServiceTypes, Network!TypeOK, Serve
<1>2. /\ Network!Verdict(q) \in {"OK", "CLEARING_TIMEOUT"}
      /\ Network!NewOperation(q) \in Network!Operation
      /\ Network!NewOperation(q).subject = Network!Subject(q)
      /\ Network!NewOperation(q).error = Network!Verdict(q)
      /\ Network!NewOperation(q).status \in {"COMPLETED", "REJECTED_NETWORK"}
      /\ Network!NewOperation(q).status = "REJECTED_NETWORK" <=> Network!Verdict(q) # "OK"
  <2>1. Network!Verdict(q) \in {"OK", "CLEARING_TIMEOUT"}
    BY DEF Network!Verdict
  <2>2. Network!Subject(q) \in Network!Subjects
    BY <1>1 DEF Network!Subjects
  <2>3. QED
    BY <2>1, <2>2 DEF Network!NewOperation, Network!Operation
<1>3. Absent \notin Network!Operation
  BY ServiceRowsAssumption
\* The row after the call.
<1>4. /\ kind = "ACTION" =>
           operations'[t] = IF row = Absent THEN Network!NewOperation(q) ELSE row
      /\ kind = "COMPENSATION" /\ row # Absent /\ row.status # "REJECTED_NETWORK" =>
           operations'[t] = [subject |-> row.subject, status |-> "COMPENSATED",
                              error |-> row.error]
      /\ kind = "COMPENSATION" /\ ~(row # Absent /\ row.status # "REJECTED_NETWORK") =>
           operations'[t] = row
      /\ \A u \in Transfers \ {t} : operations'[u] = operations[u]
      /\ operations' = [u \in Transfers |-> operations'[u]]
  BY <1>1 DEF ServiceTypes, Network!TypeOK, Network!Transfer, Network!Compensate,
              Network!Registered, Network!CompensateAnswer, StepKinds
<1>5. operations'[t] \in Network!Operation \cup {Absent}
  BY <1>1, <1>2, <1>4 DEF Network!Operation, StepKinds
<1>6. Network!TypeOK'
  BY <1>4, <1>5 DEF ServiceTypes, Network!TypeOK
<1>7. ServiceTypes'
  BY <1>1, <1>6 DEF ServiceTypes, Account!TypeOK, Risk!TypeOK
<1>8. /\ operations'[t] # Absent => /\ operations'[t].subject = Network!Subject(q)
                                    /\ operations'[t].status = "REJECTED_NETWORK" =>
                                          operations'[t].error # "OK"
      /\ row # Absent => /\ row.subject = Network!Subject(q)
                         /\ row.status = "REJECTED_NETWORK" => row.error # "OK"
  BY <1>1, <1>2, <1>4 DEF ServicesAgree, StepKinds
<1>9. ServicesAgree'
  BY <1>1, <1>4, <1>8 DEF ServicesAgree
<1>10. \A u \in Transfers : EffectsOf(u) /\ EffectsOf(u)'
  BY Effects, EffectsAfter
<1>11. /\ row # Absent /\ row.status # "REJECTED_NETWORK" =>
            operations'[t] # Absent /\ operations'[t].status # "REJECTED_NETWORK"
       /\ row # Absent /\ row.status = "COMPENSATED" =>
            operations'[t] # Absent /\ operations'[t].status = "COMPENSATED"
       /\ operations'[t] # Absent /\ operations'[t].status # "REJECTED_NETWORK" =>
            \/ kind = "ACTION"
            \/ row # Absent /\ row.status # "REJECTED_NETWORK"
       /\ operations'[t] # Absent /\ operations'[t].status = "COMPENSATED" =>
            \/ kind = "COMPENSATION"
            \/ row # Absent /\ row.status = "COMPENSATED"
  BY <1>1, <1>2, <1>3, <1>4 DEF Network!Operation, StepKinds
<1>12. ASSUME NEW u \in Transfers
       PROVE  /\ Done[u] \subseteq Done'[u] /\ Undone[u] \subseteq Undone'[u]
              /\ \A v \in Done'[u] \ Done[u] : u = t /\ kind = "ACTION" /\ v = "CLEARING"
              /\ \A v \in Undone'[u] \ Undone[u] :
                   u = t /\ kind = "COMPENSATION" /\ v = "CLEARING"
  <2>1. EffectsOf(u) /\ EffectsOf(u)' /\ UNCHANGED <<request, ledger, evaluations>>
    BY <1>1, <1>10
  <2>2. /\ \A v \in Steps : v # "CLEARING" => (v \in Done'[u] <=> v \in Done[u])
        /\ \A v \in Steps : v # "CLEARING" => (v \in Undone'[u] <=> v \in Undone[u])
        /\ Done[u] \subseteq Steps /\ Undone[u] \subseteq Steps
        /\ Done'[u] \subseteq Steps /\ Undone'[u] \subseteq Steps
    BY <2>1 DEF EffectsOf, Steps
  <2>3. /\ "CLEARING" \in Done[u] => "CLEARING" \in Done'[u]
        /\ "CLEARING" \in Undone[u] => "CLEARING" \in Undone'[u]
        /\ "CLEARING" \in Done'[u] /\ "CLEARING" \notin Done[u] => u = t /\ kind = "ACTION"
        /\ "CLEARING" \in Undone'[u] /\ "CLEARING" \notin Undone[u] => u = t /\ kind = "COMPENSATION"
    <3>1. CASE u = t
      BY <1>11, <2>1, <3>1 DEF EffectsOf
    <3>2. CASE u # t
      BY <1>4, <2>1, <3>2 DEF EffectsOf
    <3>3. QED
      BY <3>1, <3>2
  <2>4. QED
    BY <2>2, <2>3
<1>13. /\ kind = "ACTION" => Reply(t, kind, "CLEARING") = Network!TransferAnswer(t, q)
       /\ kind = "COMPENSATION" => Reply(t, kind, "CLEARING") = Network!CompensateAnswer(t)
  BY DEF Reply
<1>14. /\ kind = "ACTION" /\ Reply(t, kind, "CLEARING") = "OK" => "CLEARING" \in Done'[t]
       /\ kind = "COMPENSATION" /\ Reply(t, kind, "CLEARING") = "OK" =>
            "CLEARING" \in Undone'[t]
       /\ Reply(t, kind, "CLEARING") \in ErrorCodes \cup {"OK"}
       /\ kind = "COMPENSATION" /\ "CLEARING" \in Done[t] => Reply(t, kind, "CLEARING") = "OK"
  <2>1. ASSUME kind = "ACTION", row = Absent
        PROVE  /\ Reply(t, kind, "CLEARING") = Network!Verdict(q)
               /\ operations'[t] = Network!NewOperation(q)
    BY <1>4, <1>13, <2>1 DEF Network!TransferAnswer, Network!Replay, Network!Registered
  <2>2. ASSUME kind = "ACTION", row # Absent
        PROVE  /\ Reply(t, kind, "CLEARING") = "OK" => row.status # "REJECTED_NETWORK"
               /\ Reply(t, kind, "CLEARING") \in ErrorCodes \cup {"OK"}
               /\ operations'[t] = row
    <3>1. Reply(t, kind, "CLEARING") = Network!Reported(row)
      BY <1>8, <1>13, <2>2 DEF Network!TransferAnswer, Network!Replay, Network!Registered
    <3>2. QED
      BY <1>1, <1>4, <1>8, <2>2, <3>1 DEF Network!Reported, Network!Operation, ErrorCodes
  <2>3. ASSUME kind = "COMPENSATION"
        PROVE  /\ Reply(t, kind, "CLEARING") = "OK" <=>
                    row # Absent /\ row.status # "REJECTED_NETWORK"
               /\ Reply(t, kind, "CLEARING") \in ErrorCodes \cup {"OK"}
    BY <1>13, <2>3 DEF Network!CompensateAnswer, Network!Registered, ErrorCodes
  <2>4. ASSUME kind = "ACTION"
        PROVE  /\ Reply(t, kind, "CLEARING") = "OK" => "CLEARING" \in Done'[t]
               /\ Reply(t, kind, "CLEARING") \in ErrorCodes \cup {"OK"}
    BY <1>2, <1>3, <1>10, <2>1, <2>2, <2>4 DEF EffectsOf, ErrorCodes
  <2>5. ASSUME kind = "COMPENSATION"
        PROVE  /\ Reply(t, kind, "CLEARING") = "OK" => "CLEARING" \in Undone'[t]
               /\ "CLEARING" \in Done[t] => Reply(t, kind, "CLEARING") = "OK"
    <3>1. row # Absent /\ row.status # "REJECTED_NETWORK" =>
            operations'[t] # Absent /\ operations'[t].status = "COMPENSATED"
      BY <1>1, <1>3, <1>4, <2>5 DEF Network!Operation
    <3>2. QED
      BY <1>10, <2>3, <2>5, <3>1 DEF EffectsOf
  <2>6. QED
    BY <2>3, <2>4, <2>5 DEF StepKinds
<1>15. kind = "ACTION" =>
         Reply(t, kind, "CLEARING") \notin {"INSUFFICIENT_FUNDS", "RISK_REJECTED",
                                          "RISK_LIMIT_EXCEEDED"}
  <2>1. row # Absent =>
          /\ row.error \in {"OK", "CLEARING_TIMEOUT"}
          /\ Network!Reported(row) \in {"OK", "CLEARING_TIMEOUT"}
    BY <1>1 DEF Network!Reported, Network!Operation
  <2>2. Network!TransferAnswer(t, q) \in {"OK", "CLEARING_TIMEOUT", "IDEMPOTENCY_CONFLICT"}
    BY <1>2, <2>1 DEF Network!TransferAnswer, Network!Replay, Network!Registered
  <2>3. QED
    BY <1>13, <2>2
<1>16. kind = "ACTION" /\ Reply(t, kind, "CLEARING") # "OK" => "CLEARING" \notin Done'[t]
  <2>1. SUFFICES ASSUME kind = "ACTION", Reply(t, kind, "CLEARING") # "OK"
                 PROVE  operations'[t] # Absent => operations'[t].status = "REJECTED_NETWORK"
    BY <1>10 DEF EffectsOf
  <2>2. CASE row = Absent
    BY <1>2, <1>4, <1>13, <2>1, <2>2 DEF Network!TransferAnswer, Network!Replay, Network!Registered
  <2>3. CASE row # Absent
    <3>1. Reply(t, kind, "CLEARING") = Network!Reported(row) /\ operations'[t] = row
      BY <1>4, <1>8, <1>13, <2>1, <2>3 DEF Network!TransferAnswer, Network!Replay, Network!Registered
    <3>2. QED
      BY <1>1, <2>1, <2>3, <3>1 DEF Network!Reported, Network!Operation
  <2>4. QED
    BY <2>2, <2>3
<1>17. QED
  BY <1>7, <1>9, <1>12, <1>14, <1>15, <1>16 DEF Served
-----------------------------------------------------------------------------
\* Whichever service executes a call, in time or late, the saga may rely on it.
LEMMA CallsAreServed ==
  ASSUME ServiceTypes, ServicesAgree, NEW t \in Transfers, NEW kind \in StepKinds,
         NEW s \in Steps, Serve(t, kind, s), UNCHANGED request
  PROVE  Served(t, kind, s)
<1>1. CASE s \in {"DEBIT", "CREDIT"}
  BY <1>1, AccountServes
<1>2. CASE s = "RISK"
  BY <1>2, RiskServes
<1>3. CASE s = "CLEARING"
  BY <1>3, NetworkServes
<1>4. QED
  BY <1>1, <1>2, <1>3 DEF Steps

\* While no service works nothing takes effect and nothing is undone.
LEMMA ServicesQuiet ==
  ASSUME ServiceTypes, ServicesAgree, UNCHANGED <<request, services>>
  PROVE  ServiceTypes' /\ ServicesAgree' /\ Done' = Done /\ Undone' = Undone
<1>1. UNCHANGED <<request, balance, ledger, evaluations, operations>>
  BY DEF services
<1>2. ServiceTypes' /\ ServicesAgree'
  BY <1>1 DEF ServiceTypes, ServicesAgree, Account!TypeOK, Risk!TypeOK, Network!TypeOK
<1>3. \A t \in Transfers : EffectsOf(t) /\ EffectsOf(t)'
  BY Effects, EffectsAfter
<1>4. ASSUME NEW t \in Transfers
      PROVE  Done'[t] = Done[t] /\ Undone'[t] = Undone[t]
  <2>1. /\ \A s \in Steps : s \in Done'[t] <=> s \in Done[t]
        /\ \A s \in Steps : s \in Undone'[t] <=> s \in Undone[t]
    <3>1. /\ EffectsOf(t) /\ EffectsOf(t)'
          /\ UNCHANGED <<request, ledger, evaluations, operations>>
      BY <1>1, <1>3
    <3>2. QED
      BY <3>1 DEF EffectsOf, Steps
  <2>2. /\ Done[t] \subseteq Steps /\ Done'[t] \subseteq Steps
        /\ Undone[t] \subseteq Steps /\ Undone'[t] \subseteq Steps
    BY <1>3 DEF EffectsOf
  <2>3. QED
    BY <2>1, <2>2
<1>5. QED
  BY <1>2, <1>4 DEF Done, Undone

\* Nothing has been recorded yet.
LEMMA ServicesStart ==
  ASSUME request \in [Transfers -> Requests], Account!Init, Risk!Init, Network!Init
  PROVE  /\ ServiceTypes /\ ServicesAgree
         /\ \A t \in Transfers : Done[t] = {} /\ Undone[t] = {}
<1>1. ServiceTypes /\ ServicesAgree
  BY ServicesAssumption
     DEF ServiceTypes, ServicesAgree, Account!Init, Risk!Init, Network!Init,
         Account!TypeOK, Risk!TypeOK, Network!TypeOK
<1>2. ASSUME NEW t \in Transfers
      PROVE  Done[t] = {} /\ Undone[t] = {}
  <2>1. EffectsOf(t)
    BY Effects
  <2>2. /\ \A a \in AccountIds, op \in Account!Operations : ledger[<<t, a, op>>] = Absent
        /\ evaluations[t] = Absent /\ operations[t] = Absent
        /\ request[t].source \in AccountIds /\ request[t].destination \in AccountIds
        /\ "debit" \in Account!Operations /\ "credit" \in Account!Operations
        /\ "debit_compensate" \in Account!Operations
        /\ "credit_compensate" \in Account!Operations
    BY RequestsAssumption
       DEF Account!Init, Risk!Init, Network!Init, Account!Operations,
           Account!Compensations
  <2>3. QED
    BY <2>1, <2>2 DEF EffectsOf, Steps
<1>3. QED
  BY <1>1, <1>2

-----------------------------------------------------------------------------
(* The money, as the account holders are promised to see it.               *)

\* The sums of the account service's own proofs are sums here, and what those
\* proofs assume of the service holds of it as a saga calls it.
LEMMA SameSums ==
  /\ \A f : Ledger!SumFunction(f) = SumFunction(f)
  /\ \A S : Ledger!IsFiniteSet(S) <=> IsFiniteSet(S)
  /\ Ledger!IsFiniteSet(Transfers) /\ Accounts \subseteq AccountIds
  /\ Amounts \subseteq Nat \ {0} /\ InitialBalance \in [Accounts -> Nat]
  /\ Absent \notin Ledger!Entry
<1>1. ASSUME NEW f
      PROVE  Ledger!SumFunction(f) = SumFunction(f)
  BY DEF SumFunction, SumFunctionOnSet, FoldFunctionOnSet, MapThenFoldSet,
         Ledger!SumFunction, Ledger!SumFunctionOnSet, Ledger!FoldFunctionOnSet,
         Ledger!MapThenFoldSet
<1>2. ASSUME NEW S
      PROVE  Ledger!IsFiniteSet(S) <=> IsFiniteSet(S)
  BY DEF IsFiniteSet, Ledger!IsFiniteSet
<1>3. QED
  BY <1>1, <1>2, ServicesAssumption, RequestsAssumption, ServiceRowsAssumption
     DEF Amounts, Ledger!Entry, Account!Entry

\* No term of a finite sum of naturals exceeds the sum.
LEMMA SumBounds ==
  ASSUME NEW S, IsFiniteSet(S), NEW f \in [S -> Nat]
  PROVE  SumFunction(f) \in Nat /\ \A x \in S : f[x] <= SumFunction(f)
<1>1. Ledger!SumFunction(f) \in Nat /\ \A x \in S : f[x] <= Ledger!SumFunction(f)
  BY SameSums, Ledger!SumBounds
<1>2. QED
  BY <1>1, SameSums

\* One term of a finite sum changes: so does the sum, by as much.
LEMMA SumChanges ==
  ASSUME NEW S, IsFiniteSet(S), NEW x \in S,
         NEW f \in [S -> Int], NEW g \in [S -> Int],
         \A y \in S : y # x => g[y] = f[y]
  PROVE  /\ SumFunction(f) \in Int
         /\ SumFunction(g) = SumFunction(f) + g[x] - f[x]
<1>1. /\ Ledger!SumFunction(f) \in Int
      /\ Ledger!SumFunction(g) = Ledger!SumFunction(f) + g[x] - f[x]
  BY SameSums, Ledger!SumChanges
<1>2. QED
  BY <1>1, SameSums

\* A step stands when it took effect and was not undone.
LEMMA StandingSteps ==
  ASSUME NEW t \in Transfers, NEW s \in Steps
  PROVE  /\ Standing(t, s) <=> s \in Done[t] \ Undone[t]
         /\ Standing(t, s)' <=> s \in Done'[t] \ Undone'[t]
<1>1. \A u \in Transfers : \A v \in Steps : Standing(u, v) <=> v \in Done[u] \ Undone[u]
  BY DEF Standing, Done, Undone
<1>2. (\A u \in Transfers : \A v \in Steps : Standing(u, v) <=> v \in Done[u] \ Undone[u])'
  BY <1>1, PTL
<1>3. \A u \in Transfers : \A v \in Steps : Standing(u, v)' <=> v \in Done'[u] \ Undone'[u]
  BY <1>2
<1>4. QED
  BY <1>1, <1>3

\* A transfer looks the same while its row stays and its two sides stand as before.
LEMMA LooksTheSame ==
  ASSUME NEW t \in Transfers, execution'[t] = execution[t],
         Standing(t, "DEBIT")' <=> Standing(t, "DEBIT"),
         Standing(t, "CREDIT")' <=> Standing(t, "CREDIT")
  PROVE  /\ InTransit(t)' <=> InTransit(t)
         /\ PromisedFate'[t] = PromisedFate[t]
<1>1. Finished(t)' <=> Finished(t)
  BY DEF Finished
<1>2. QED
  BY <1>1 DEF InTransit, PromisedFate

\* What a transfer adds to the funds of an account, and what an account has, are
\* naturals; the money on its way is part of the funds.
LEMMA FundsTyped ==
  ASSUME ServiceTypes, NEW a \in Accounts
  PROVE  /\ balance[a] \in Nat /\ PromisedFunds[a] \in Nat
         /\ balance[a] <= PromisedFunds[a]
         /\ \A t \in Transfers : /\ request[t].amount \in Nat \ {0}
                                 /\ OnItsWay(t, a) \in Nat
                                 /\ balance[a] + OnItsWay(t, a) <= PromisedFunds[a]
<1> DEFINE f == [t \in Transfers |-> OnItsWay(t, a)]
<1>1. \A t \in Transfers : request[t].amount \in Nat \ {0} /\ OnItsWay(t, a) \in Nat
  BY RequestsAssumption DEF ServiceTypes, OnItsWay
<1>2. f \in [Transfers -> Nat] /\ IsFiniteSet(Transfers)
  BY <1>1, ServicesAssumption
<1>3. SumFunction(f) \in Nat /\ \A t \in Transfers : f[t] <= SumFunction(f)
  <2> HIDE DEF f
  <2>1. QED
    BY <1>2, SumBounds
<1>4. balance[a] \in Nat
  BY DEF ServiceTypes, Account!TypeOK
<1>5. PromisedFunds[a] = balance[a] + SumFunction(f)
  BY DEF PromisedFunds
<1>6. \A t \in Transfers : OnItsWay(t, a) <= SumFunction(f)
  BY <1>3
<1>7. QED
  <2> HIDE DEF f
  <2>1. QED
    BY <1>1, <1>3, <1>4, <1>5, <1>6

\* The funds of an account change by what its balance does and by what goes on, or
\* comes off, its way.
LEMMA FundsMove ==
  ASSUME ServiceTypes, ServiceTypes', UNCHANGED request, NEW t \in Transfers,
         \A u \in Transfers \ {t} : InTransit(u)' <=> InTransit(u),
         NEW a \in Accounts
  PROVE  PromisedFunds'[a] = PromisedFunds[a] + (balance'[a] - balance[a])
                               + (OnItsWay(t, a)' - OnItsWay(t, a))
<1> DEFINE f == [u \in Transfers |-> OnItsWay(u, a)]
           g == [u \in Transfers |-> OnItsWay(u, a)']
<1>1. \A u \in Transfers : request[u].amount \in Nat
  BY RequestsAssumption DEF ServiceTypes
<1>2. \A u \in Transfers : OnItsWay(u, a) \in Int /\ OnItsWay(u, a)' \in Int
  BY <1>1 DEF OnItsWay
<1>3. \A u \in Transfers : u # t => OnItsWay(u, a)' = OnItsWay(u, a)
  BY DEF OnItsWay
<1>4. /\ f \in [Transfers -> Int] /\ g \in [Transfers -> Int]
      /\ IsFiniteSet(Transfers)
      /\ \A u \in Transfers : u # t => g[u] = f[u]
  BY <1>2, <1>3, ServicesAssumption
<1>5. /\ SumFunction(f) \in Int
      /\ SumFunction(g) = SumFunction(f) + g[t] - f[t]
  <2> HIDE DEF f, g
  <2>1. QED
    BY <1>4, SumChanges
<1>6. /\ PromisedFunds[a] = balance[a] + SumFunction(f)
      /\ PromisedFunds'[a] = balance'[a] + SumFunction(g)
  BY DEF PromisedFunds
<1>7. f[t] = OnItsWay(t, a) /\ g[t] = OnItsWay(t, a)'
  OBVIOUS
<1>8. balance[a] \in Int /\ balance'[a] \in Int
  BY DEF ServiceTypes, Account!TypeOK
<1>9. QED
  <2> HIDE DEF f, g
  <2>1. QED
    BY <1>2, <1>5, <1>6, <1>7, <1>8

\* What a call does to the money: nothing, or it moves the amount at the account it
\* names, and then it is new there and a compensation has something to undo.
LEMMA CallMovesFunds ==
  ASSUME ServiceTypes, ServicesAgree, NEW t \in Transfers, NEW kind \in StepKinds,
         NEW s \in Steps, Serve(t, kind, s), UNCHANGED request
  PROVE  \/ /\ UNCHANGED balance
            /\ \A v \in {"DEBIT", "CREDIT"} : /\ v \in Done'[t] <=> v \in Done[t]
                                              /\ v \in Undone'[t] <=> v \in Undone[t]
         \/ /\ s \in {"DEBIT", "CREDIT"} /\ Party(t, s) \in Accounts
            /\ balance' = [balance EXCEPT ![Party(t, s)] =
                 IF kind = "ACTION" <=> s = "DEBIT" THEN @ - request[t].amount
                                                    ELSE @ + request[t].amount]
            /\ kind = "ACTION" => s \notin Done[t] /\ s \in Done'[t]
            /\ kind = "COMPENSATION" =>
                 s \in Done[t] /\ s \notin Undone[t] /\ s \in Undone'[t]
<1> DEFINE a == Party(t, s)
           op == AccountOperation(kind, s)
           amount == request[t].amount
<1>1. EffectsOf(t) /\ EffectsOf(t)'
  BY Effects, EffectsAfter
<1>2. CASE UNCHANGED <<balance, ledger>>
  BY <1>1, <1>2 DEF EffectsOf
<1>3. CASE s \in {"DEBIT", "CREDIT"} /\ Account!Apply(t, a, op, amount)
  <2>1. a \in AccountIds /\ amount \in Amounts /\ op \in Account!Operations
    BY <1>3, AccountOperations, RequestsAssumption DEF ServiceTypes, Party, Amounts
  <2>2. op = IF kind = "ACTION" THEN IF s = "DEBIT" THEN "debit" ELSE "credit"
             ELSE IF s = "DEBIT" THEN "debit_compensate" ELSE "credit_compensate"
    BY <1>3, AccountOperations DEF StepKinds
  <2>3. /\ a \in Accounts /\ ledger[<<t, a, op>>] = Absent
        /\ op \in Account!Compensations => ledger[<<t, a, Account!Original(op)>>] # Absent
    <3> HIDE DEF a, op, amount
    <3>1. Account!TakesEffect(t, a, op, amount)
      BY <1>3 DEF Account!Apply
    <3>2. QED
      BY <2>1, <3>1, AccountGuards
  <2>4. ledger'[<<t, a, op>>] # Absent
    <3> HIDE DEF a, op, amount
    <3>1. Account!Serve(t, a, op, amount) /\ Account!TypeOK
      BY <1>3 DEF Account!Serve, ServiceTypes
    <3>2. Account!Answer(t, a, op, amount) = "OK"
      BY <1>3 DEF Account!Apply, Account!TakesEffect
    <3>3. QED
      BY <2>1, <3>1, <3>2, AccountStep
  <2>5. balance' = [balance EXCEPT ![a] =
                      IF kind = "ACTION" <=> s = "DEBIT" THEN @ - amount ELSE @ + amount]
    <3>1. op \in Account!Withdrawals <=> (kind = "ACTION" <=> s = "DEBIT")
      BY <1>3, <2>2 DEF Account!Withdrawals, StepKinds
    <3>2. balance' = [balance EXCEPT ![a] = Account!BalanceAfter(a, op, amount)]
      BY <1>3 DEF Account!Apply
    <3>3. QED
      BY <3>1, <3>2 DEF Account!BalanceAfter
  <2>6. kind = "ACTION" => s \notin Done[t] /\ s \in Done'[t]
    BY <1>1, <1>3, <2>2, <2>3, <2>4 DEF EffectsOf, Party
  <2>7. ASSUME kind = "COMPENSATION"
        PROVE  s \in Done[t] /\ s \notin Undone[t] /\ s \in Undone'[t]
    <3>1. /\ op \in Account!Compensations
          /\ Account!Original(op) = IF s = "DEBIT" THEN "debit" ELSE "credit"
      BY <1>3, <2>2, <2>7 DEF Account!Compensations, Account!Original
    <3>2. QED
      BY <1>1, <1>3, <2>2, <2>3, <2>4, <2>7, <3>1 DEF EffectsOf, Party
  <2>8. QED
    BY <1>3, <2>3, <2>5, <2>6, <2>7
<1>4. QED
  BY <1>2, <1>3 DEF Serve, Account!Serve, Account!Decline, Account!vars

\* A call that a saga may make of a transfer: of a decided one only such as have no
\* effect; before that, steps forward in their order as long as nothing was undone,
\* and back as long as the credit was not made, which is never taken back.
Rightful(t, kind, s) ==
  \/ kind = "ACTION" /\ s \in Done[t]
  \/ kind = "COMPENSATION" /\ (s \in Undone[t] \/ s \notin Done[t])
  \/ /\ ~Finished(t)
     /\ kind = "ACTION" => Undone[t] = {} /\ Before(s) \subseteq Done[t]
     /\ kind = "COMPENSATION" => s # "CREDIT" /\ "CREDIT" \notin Done[t]

\* The debit precedes the credit.
LEMMA DebitBeforeCredit == "DEBIT" \in Before("CREDIT")
  BY DEF Before, Sequence, Steps

\* Nothing is seen of a step that keeps the row of its transfer, how its sides stand
\* and, for each account, what it has with what is on its way.
LEMMA Unseen ==
  ASSUME ServiceTypes, ServiceTypes', UNCHANGED <<request, execution>>,
         NEW t \in Transfers,
         \A u \in Transfers \ {t}, v \in {"DEBIT", "CREDIT"} : Standing(u, v)' <=> Standing(u, v),
         Standing(t, "CREDIT")' <=> Standing(t, "CREDIT"),
         \A a \in Accounts : balance'[a] + OnItsWay(t, a)' = balance[a] + OnItsWay(t, a)
  PROVE  UNCHANGED Promise!promiseVars
<1>1. \A u \in Transfers \ {t} : /\ InTransit(u)' <=> InTransit(u)
                                 /\ PromisedFate'[u] = PromisedFate[u]
  BY LooksTheSame
<1>2. PromisedFate'[t] = PromisedFate[t]
  BY DEF PromisedFate, Finished
<1>3. PromisedFate' = PromisedFate
  BY <1>1, <1>2 DEF PromisedFate
<1>4. ASSUME NEW a \in Accounts
      PROVE  PromisedFunds'[a] = PromisedFunds[a]
  <2>1. PromisedFunds'[a] = PromisedFunds[a] + (balance'[a] - balance[a])
                              + (OnItsWay(t, a)' - OnItsWay(t, a))
    BY <1>1, FundsMove
  <2>2. balance'[a] + OnItsWay(t, a)' = balance[a] + OnItsWay(t, a)
    OBVIOUS
  <2>3. /\ balance[a] \in Int /\ balance'[a] \in Int /\ PromisedFunds[a] \in Int
        /\ OnItsWay(t, a) \in Int /\ OnItsWay(t, a)' \in Int
    <3>1. \A u \in Transfers : request[u].amount \in Nat
      BY RequestsAssumption DEF ServiceTypes
    <3>2. OnItsWay(t, a) \in Int /\ OnItsWay(t, a)' \in Int
      BY <3>1 DEF OnItsWay
    <3>3. QED
      BY <3>2, FundsTyped DEF ServiceTypes, Account!TypeOK
  <2>4. QED
    BY <2>1, <2>2, <2>3
<1>5. PromisedFunds' = PromisedFunds
  BY <1>4 DEF PromisedFunds
<1>6. QED
  BY <1>3, <1>5 DEF Promise!promiseVars

\* The credit of a transfer whose debit stands is the moment the transfer commits:
\* the money on its way arrives.
LEMMA CreditCommits ==
  ASSUME ServiceTypes, ServiceTypes', ServicesAgree, UNCHANGED <<request, execution>>,
         NEW t \in Transfers, ~Finished(t), Standing(t, "DEBIT"), Standing(t, "DEBIT")',
         ~Standing(t, "CREDIT"), Standing(t, "CREDIT")',
         \A u \in Transfers \ {t}, v \in {"DEBIT", "CREDIT"} : Standing(u, v)' <=> Standing(u, v),
         request[t].destination \in Accounts,
         balance' = [balance EXCEPT ![request[t].destination] = @ + request[t].amount]
  PROVE  Promise!Next
<1> DEFINE q == request[t]
<1>1. /\ q.source \in AccountIds /\ q.source # q.destination
      /\ q.amount \in Nat \ {0} /\ "debit" \in Account!Operations
  BY RequestsAssumption DEF ServiceTypes, Account!Operations
<1>2. q.source \in Accounts
  <2>1. ledger[<<t, q.source, "debit">>] # Absent
    BY DEF Standing, Committed, Party, Account!Recorded
  <2>2. QED
    BY <1>1, <2>1 DEF ServicesAgree
<1>3. InTransit(t) /\ ~InTransit(t)'
  BY DEF InTransit
<1>4. \A u \in Transfers \ {t} : /\ InTransit(u)' <=> InTransit(u)
                                 /\ PromisedFate'[u] = PromisedFate[u]
  BY LooksTheSame
<1>5. /\ PromisedFate[t] = "open" /\ PromisedFate'[t] = "moved"
      /\ PromisedFate' = [u \in Transfers |-> PromisedFate'[u]]
      /\ PromisedFate = [u \in Transfers |-> PromisedFate[u]]
  BY DEF PromisedFate
<1>6. PromisedFate' = [PromisedFate EXCEPT ![t] = "moved"]
  <2> DEFINE fate == PromisedFate
             next == PromisedFate'
  <2> HIDE DEF fate, next
  <2>1. /\ next = [u \in Transfers |-> next[u]] /\ fate = [u \in Transfers |-> fate[u]]
        /\ next[t] = "moved" /\ \A u \in Transfers \ {t} : next[u] = fate[u]
    BY <1>4, <1>5 DEF fate, next
  <2>2. next = [fate EXCEPT ![t] = "moved"]
    BY <2>1
  <2>3. QED
    BY <2>2 DEF fate, next
<1>7. ASSUME NEW a \in Accounts
      PROVE  PromisedFunds'[a] = IF a = q.source THEN PromisedFunds[a] - q.amount
                                 ELSE IF a = q.destination THEN PromisedFunds[a] + q.amount
                                 ELSE PromisedFunds[a]
  <2>1. PromisedFunds'[a] = PromisedFunds[a] + (balance'[a] - balance[a])
                              + (OnItsWay(t, a)' - OnItsWay(t, a))
    BY <1>4, FundsMove
  <2>2. /\ OnItsWay(t, a) = IF a = q.source THEN q.amount ELSE 0
        /\ OnItsWay(t, a)' = 0
    BY <1>3 DEF OnItsWay
  <2>3. balance[a] \in Int /\ PromisedFunds[a] \in Int
    BY FundsTyped
  <2>4. balance'[a] = IF a = q.destination THEN balance[a] + q.amount ELSE balance[a]
    BY DEF ServiceTypes, Account!TypeOK
  <2>5. QED
    BY <1>1, <2>1, <2>2, <2>3, <2>4
<1>8. PromisedFunds[q.source] >= q.amount
  <2>1. OnItsWay(t, q.source) = q.amount
    BY <1>3 DEF OnItsWay
  <2>2. /\ balance[q.source] \in Nat /\ PromisedFunds[q.source] \in Nat
        /\ balance[q.source] + q.amount <= PromisedFunds[q.source]
    BY <1>2, <2>1, FundsTyped
  <2>3. QED
    BY <1>1, <2>2
<1>9. PromisedFunds' = Promise!Move(q)
  <2> DEFINE funds == PromisedFunds
             next == PromisedFunds'
  <2>1. /\ funds = [a \in Accounts |-> funds[a]] /\ next = [a \in Accounts |-> next[a]]
    BY DEF PromisedFunds
  <2>2. Promise!Move(q) = [[funds EXCEPT ![q.source] = @ - q.amount]
                             EXCEPT ![q.destination] = @ + q.amount]
    BY DEF Promise!Move
  <2>3. \A a \in Accounts : next[a] = IF a = q.source THEN funds[a] - q.amount
                                      ELSE IF a = q.destination THEN funds[a] + q.amount
                                      ELSE funds[a]
    BY <1>7
  <2> HIDE DEF funds, next
  <2>4. next = [[funds EXCEPT ![q.source] = @ - q.amount]
                             EXCEPT ![q.destination] = @ + q.amount]
    BY <1>1, <1>2, <2>1, <2>3
  <2>5. QED
    BY <2>2, <2>4 DEF funds, next
<1>10. Promise!Commit(t)
  BY <1>2, <1>5, <1>6, <1>8, <1>9 DEF Promise!Commit
<1>11. QED
  BY <1>10 DEF Promise!Next, Promise!Decide

\* Whatever service executes a rightful call, in time or late, for a live saga or a
\* dead one: the transfer commits with its credit, and no other call is noticed.
LEMMA CallKeepsPromise ==
  ASSUME ServiceTypes, ServicesAgree, NEW t \in Transfers, NEW kind \in StepKinds,
         NEW s \in Steps, Serve(t, kind, s), UNCHANGED <<request, execution>>,
         Rightful(t, kind, s), "CREDIT" \in Done[t] => "DEBIT" \in Done[t]
  PROVE  [Promise!Next]_(Promise!promiseVars)
<1>1. /\ ServiceTypes'
      /\ \A u \in Transfers \ {t} : Done'[u] = Done[u] /\ Undone'[u] = Undone[u]
      /\ \A v \in Steps \ {s} : /\ v \in Done'[t] <=> v \in Done[t]
                                /\ v \in Undone'[t] <=> v \in Undone[t]
      /\ kind = "ACTION" => Undone'[t] = Undone[t]
      /\ kind = "COMPENSATION" => Done'[t] = Done[t]
  <2>1. Served(t, kind, s)
    BY CallsAreServed
  <2>2. QED
    BY <2>1 DEF Served, StepKinds
<1>2. /\ "DEBIT" \in Steps /\ "CREDIT" \in Steps
      /\ \A u \in Transfers, v \in Steps : /\ Standing(u, v) <=> v \in Done[u] \ Undone[u]
                                           /\ Standing(u, v)' <=> v \in Done'[u] \ Undone'[u]
  BY StandingSteps DEF Steps
<1>3. \A u \in Transfers \ {t}, v \in {"DEBIT", "CREDIT"} : Standing(u, v)' <=> Standing(u, v)
  BY <1>1, <1>2
<1>4. /\ request[t].source \in AccountIds /\ request[t].source # request[t].destination
      /\ request[t].amount \in Nat \ {0}
      /\ \A a \in Accounts : balance[a] \in Nat
  BY RequestsAssumption, FundsTyped DEF ServiceTypes
<1>5. Finished(t)' <=> Finished(t)
  BY DEF Finished
<1>6. CASE /\ UNCHANGED balance
           /\ \A v \in {"DEBIT", "CREDIT"} : /\ v \in Done'[t] <=> v \in Done[t]
                                             /\ v \in Undone'[t] <=> v \in Undone[t]
  <2>1. \A v \in {"DEBIT", "CREDIT"} : Standing(t, v)' <=> Standing(t, v)
    BY <1>2, <1>6
  <2>2. InTransit(t)' <=> InTransit(t)
    BY <2>1, LooksTheSame
  <2>3. \A a \in Accounts : balance'[a] + OnItsWay(t, a)' = balance[a] + OnItsWay(t, a)
    BY <1>6, <2>2 DEF OnItsWay
  <2>4. QED
    BY <1>1, <1>3, <2>1, <2>3, Unseen
<1>7. CASE /\ s \in {"DEBIT", "CREDIT"} /\ Party(t, s) \in Accounts
           /\ balance' = [balance EXCEPT ![Party(t, s)] =
                IF kind = "ACTION" <=> s = "DEBIT" THEN @ - request[t].amount
                                                   ELSE @ + request[t].amount]
           /\ kind = "ACTION" => s \notin Done[t] /\ s \in Done'[t]
           /\ kind = "COMPENSATION" =>
                s \in Done[t] /\ s \notin Undone[t] /\ s \in Undone'[t]
  <2>1. /\ ~Finished(t)
        /\ kind = "ACTION" => Undone[t] = {} /\ Before(s) \subseteq Done[t]
        /\ kind = "COMPENSATION" => s = "DEBIT" /\ "CREDIT" \notin Done[t]
    BY <1>7 DEF Rightful
  <2>2. CASE kind = "ACTION" /\ s = "CREDIT"
    <3>1. /\ Standing(t, "DEBIT") /\ Standing(t, "DEBIT")'
          /\ ~Standing(t, "CREDIT") /\ Standing(t, "CREDIT")'
      BY <1>1, <1>2, <1>7, <2>1, <2>2, DebitBeforeCredit
    <3>2. /\ request[t].destination \in Accounts
          /\ balance' = [balance EXCEPT ![request[t].destination] = @ + request[t].amount]
      BY <1>7, <2>2 DEF Party
    <3>3. QED
      BY <1>1, <1>3, <2>1, <3>1, <3>2, CreditCommits
  <2>3. CASE s = "DEBIT"
    <3>1. /\ ~Standing(t, "CREDIT") /\ ~Standing(t, "CREDIT")'
          /\ kind = "ACTION" => ~Standing(t, "DEBIT") /\ Standing(t, "DEBIT")'
          /\ kind = "COMPENSATION" => Standing(t, "DEBIT") /\ ~Standing(t, "DEBIT")'
      <4>1. "CREDIT" \notin Done[t] /\ "CREDIT" \notin Done'[t]
        BY <1>1, <1>2, <1>7, <2>1, <2>3 DEF StepKinds
      <4>2. ~Standing(t, "CREDIT") /\ ~Standing(t, "CREDIT")'
        BY <1>2, <4>1
      <4>3. kind = "ACTION" => ~Standing(t, "DEBIT") /\ Standing(t, "DEBIT")'
        BY <1>1, <1>2, <1>7, <2>1, <2>3
      <4>4. kind = "COMPENSATION" => Standing(t, "DEBIT") /\ ~Standing(t, "DEBIT")'
        BY <1>2, <1>7, <2>3
      <4>5. QED
        BY <4>2, <4>3, <4>4
    <3>2. ASSUME NEW a \in Accounts
          PROVE  balance'[a] + OnItsWay(t, a)' = balance[a] + OnItsWay(t, a)
      <4>1. balance'[a] = IF a = request[t].source
                          THEN IF kind = "ACTION" THEN balance[a] - request[t].amount
                                                  ELSE balance[a] + request[t].amount
                          ELSE balance[a]
        BY <1>7, <2>3 DEF Party, ServiceTypes, Account!TypeOK
      <4>2. /\ OnItsWay(t, a) = IF a = request[t].source /\ kind # "ACTION"
                                THEN request[t].amount ELSE 0
            /\ OnItsWay(t, a)' = IF a = request[t].source /\ kind = "ACTION"
                                 THEN request[t].amount ELSE 0
        BY <1>5, <2>1, <3>1 DEF OnItsWay, InTransit, StepKinds
      <4>3. QED
        BY <1>4, <4>1, <4>2
    <3>3. QED
      BY <1>1, <1>3, <3>1, <3>2, Unseen
  <2>4. QED
    BY <1>7, <2>1, <2>2, <2>3 DEF StepKinds
<1>8. QED
  BY <1>6, <1>7, CallMovesFunds

\* A step that rewrites the row of a transfer and calls no service is not noticed,
\* unless it finishes the row: then the transfer must not be half done, nor be called
\* completed without its credit, and if nothing moved it is refused.
LEMMA RowKeepsPromise ==
  ASSUME ServiceTypes, ServicesAgree, UNCHANGED <<request, services>>, NEW t \in Transfers,
         \A u \in Transfers \ {t} : execution'[u] = execution[u],
         Finished(t) => execution'[t] = execution[t],
         ~Finished(t) /\ Finished(t)' =>
           /\ Standing(t, "DEBIT") => Standing(t, "CREDIT")
           /\ execution'[t].status = "COMPLETED" => Standing(t, "CREDIT")
  PROVE  [Promise!Next]_(Promise!promiseVars)
<1>1. ServiceTypes' /\ Done' = Done /\ Undone' = Undone
  BY ServicesQuiet
<1>2. \A u \in Transfers, v \in {"DEBIT", "CREDIT"} : Standing(u, v)' <=> Standing(u, v)
  BY <1>1, StandingSteps DEF Steps
<1>3. UNCHANGED balance
  BY DEF services
<1>4. \A u \in Transfers \ {t} : /\ InTransit(u)' <=> InTransit(u)
                                 /\ PromisedFate'[u] = PromisedFate[u]
  BY <1>2, LooksTheSame
<1>5. InTransit(t)' <=> InTransit(t)
  <2>1. CASE Finished(t)
    <3>1. execution'[t] = execution[t]
      BY <2>1
    <3>2. QED
      BY <1>2, <3>1, LooksTheSame
  <2>2. CASE ~Finished(t) /\ ~Finished(t)'
    BY <1>2, <2>2 DEF InTransit
  <2>3. CASE ~Finished(t) /\ Finished(t)'
    BY <1>2, <2>3 DEF InTransit
  <2>4. QED
    BY <2>1, <2>2, <2>3
<1>6. PromisedFunds' = PromisedFunds
  <2>1. \A u \in Transfers, a \in Accounts : OnItsWay(u, a)' = OnItsWay(u, a)
    BY <1>4, <1>5 DEF OnItsWay
  <2>2. ASSUME NEW a \in Accounts
        PROVE  PromisedFunds'[a] = PromisedFunds[a]
    <3>1. [u \in Transfers |-> OnItsWay(u, a)'] = [u \in Transfers |-> OnItsWay(u, a)]
      BY <2>1
    <3>2. QED
      BY <1>3, <3>1 DEF PromisedFunds
  <2>3. QED
    BY <2>2 DEF PromisedFunds
<1>7. CASE PromisedFate'[t] = PromisedFate[t]
  <2>1. PromisedFate' = PromisedFate
    BY <1>4, <1>7 DEF PromisedFate
  <2>2. QED
    BY <1>6, <2>1 DEF Promise!promiseVars
<1>8. CASE PromisedFate'[t] # PromisedFate[t]
  <2>1. ~Finished(t) /\ Finished(t)' /\ ~Standing(t, "CREDIT") /\ ~Standing(t, "CREDIT")'
    BY <1>2, <1>8 DEF PromisedFate, Finished
  <2>2. PromisedFate[t] = "open" /\ PromisedFate'[t] = "void"
    BY <2>1 DEF PromisedFate
  <2>3. PromisedFate' = [PromisedFate EXCEPT ![t] = "void"]
    <3> DEFINE fate == PromisedFate
               next == PromisedFate'
    <3>1. next = [u \in Transfers |-> next[u]] /\ fate = [u \in Transfers |-> fate[u]]
      BY DEF PromisedFate
    <3>2. next[t] = "void" /\ \A u \in Transfers \ {t} : next[u] = fate[u]
      BY <1>4, <2>2
    <3> HIDE DEF fate, next
    <3>3. next = [fate EXCEPT ![t] = "void"]
      BY <3>1, <3>2
    <3>4. QED
      BY <3>3 DEF fate, next
  <2>4. Promise!Refuse(t)
    BY <1>6, <2>2, <2>3 DEF Promise!Refuse
  <2>5. QED
    BY <2>4 DEF Promise!Next, Promise!Decide
<1>9. QED
  BY <1>7, <1>8

\* A saga that has not begun has promised what it has: the seeded balances, and
\* every transfer open.
LEMMA PromiseStarts ==
  ASSUME request \in [Transfers -> Requests], Account!Init, Risk!Init, Network!Init, StoreInit
  PROVE  Promise!Init
<1>1. ServiceTypes /\ \A t \in Transfers : Done[t] = {} /\ Undone[t] = {}
  BY ServicesStart
<1>2. \A t \in Transfers : ~Standing(t, "DEBIT") /\ ~Standing(t, "CREDIT") /\ ~Finished(t)
  BY <1>1, StandingSteps DEF Steps, StoreInit, Finished
<1>3. PromisedFate = [t \in Transfers |-> "open"]
  BY <1>2 DEF PromisedFate
<1>4. ASSUME NEW a \in Accounts
      PROVE  PromisedFunds[a] = InitialBalance[a]
  <2> DEFINE f == [t \in Transfers |-> OnItsWay(t, a)]
  <2>1. \A t \in Transfers : OnItsWay(t, a) = 0
    BY <1>2 DEF OnItsWay, InTransit
  <2>2. /\ f \in [Transfers -> Int] /\ \A t \in Transfers : f[t] = 0
        /\ IsFiniteSet(Transfers)
    BY <2>1, ServicesAssumption
  <2>3. SumFunction(f) = 0
    <3> HIDE DEF f
    <3>1. Ledger!SumFunction(f) = 0
      BY <2>2, SameSums, Ledger!SumOfZeros
    <3>2. QED
      BY <3>1, SameSums
  <2>4. balance[a] = InitialBalance[a] /\ InitialBalance[a] \in Nat
    BY ServicesAssumption DEF Account!Init
  <2>5. PromisedFunds[a] = balance[a] + SumFunction(f)
    BY DEF PromisedFunds
  <2>6. QED
    BY <2>3, <2>4, <2>5
<1>5. PromisedFunds = InitialBalance
  BY <1>4, ServicesAssumption DEF PromisedFunds
<1>6. QED
  BY <1>3, <1>5 DEF Promise!Init
=============================================================================
