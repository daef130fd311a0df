------------------------ MODULE AccountServiceProofs ------------------------
(***************************************************************************)
(* What the account service guarantees for any set of accounts, transfers  *)
(* and amounts, and what the sum of a function over a finite set does when *)
(* one of its values changes, which every account of money rests on.       *)
(***************************************************************************)
EXTENDS AccountService, FiniteSetTheorems, TLAPS

\* Every step of the service serves one request.
LEMMA NextServes ==
  ASSUME Next
  PROVE  \E t \in Transfers, a \in AccountIds, op \in Operations, amount \in Amounts :
           Serve(t, a, op, amount)
  BY DEF Next, Debit, Credit, CompensateDebit, CompensateCredit, Operations, Compensations

\* A request that takes effect names a known account, is not recorded yet, does
\* not overdraw, and a compensation finds its original with the same amount.
LEMMA EffectGuards ==
  ASSUME NEW t \in Transfers, NEW a \in AccountIds, NEW op \in Operations,
         NEW amount \in Amounts, Apply(t, a, op, amount)
  PROVE  /\ a \in Accounts
         /\ ledger[<<t, a, op>>] = Absent
         /\ op \in Withdrawals => ~(balance[a] < amount)
         /\ op \in Compensations => /\ ledger[<<t, a, Original(op)>>] # Absent
                                    /\ ledger[<<t, a, Original(op)>>].amount = amount
<1>1. TakesEffect(t, a, op, amount)
  BY DEF Apply
<1>2. QED
  BY <1>1 DEF TakesEffect, Answer, Overdraws, Contradicts, Recorded

\* The types are inductive on their own: the overdraft check is what keeps a
\* balance a natural number.
LEMMA TypeInvariance ==
  ASSUME TypeOK, NEW t \in Transfers, NEW a \in AccountIds, NEW op \in Operations,
         NEW amount \in Amounts, Serve(t, a, op, amount)
  PROVE  TypeOK'
<1>1. CASE Decline(t, a, op, amount)
  BY <1>1 DEF Decline, vars, TypeOK
<1>2. CASE Apply(t, a, op, amount)
  <2>0. /\ ledger[<<t, a, op>>] = Absent
        /\ op \in Compensations => /\ ledger[<<t, a, Original(op)>>] # Absent
                                   /\ ledger[<<t, a, Original(op)>>].amount = amount
    BY <1>2, EffectGuards
  <2>1. amount \in Nat /\ a \in Accounts /\ balance[a] \in Nat
    BY <1>2, EffectGuards, AccountsAssumption DEF TypeOK
  <2>2. BalanceAfter(a, op, amount) \in Nat
    <3>1. CASE op \in Withdrawals
      <4>1. ~(balance[a] < amount)
        BY <1>2, <3>1, EffectGuards
      <4>2. QED
        BY <2>1, <3>1, <4>1 DEF BalanceAfter
    <3>2. CASE op \notin Withdrawals
      BY <2>1, <3>2 DEF BalanceAfter
    <3>3. QED
      BY <3>1, <3>2
  <2>3. balance' \in [Accounts -> Nat]
    BY <1>2, <2>2 DEF Apply, TypeOK
  <2>4. NewEntry(a, op, amount) \in Entry
    BY <2>2 DEF NewEntry, Entry
  <2>5. ASSUME NEW k \in Transfers \X AccountIds \X Operations
        PROVE  ledger'[k] \in Entry \cup {Absent}
    <3>0. /\ ledger[k] \in Entry \cup {Absent}
          /\ DOMAIN ledger = Transfers \X AccountIds \X Operations
      BY DEF TypeOK
    <3>1. CASE k = <<t, a, op>>
      BY <1>2, <2>4, <3>0, <3>1 DEF Apply
    <3>2. CASE k # <<t, a, op>> /\ op \in Compensations /\ k = <<t, a, Original(op)>>
      <4>1. ledger[k] \in Entry
        <5>1. ledger[<<t, a, Original(op)>>] # Absent
          BY <2>0, <3>2
        <5>2. QED
          BY <3>0, <3>2, <5>1
      <4>2. Flagged(ledger[k]) \in Entry
        BY <4>1 DEF Entry, Flagged
      <4>3. ledger'[k] = Flagged(ledger[k])
        BY <1>2, <3>0, <3>2 DEF Apply
      <4>4. QED
        BY <4>2, <4>3
    <3>3. CASE k # <<t, a, op>> /\ ~(op \in Compensations /\ k = <<t, a, Original(op)>>)
      BY <1>2, <3>0, <3>3 DEF Apply
    <3>4. QED
      BY <3>1, <3>2, <3>3
  <2>6. DOMAIN ledger = Transfers \X AccountIds \X Operations
    BY DEF TypeOK
  <2>7. ledger' = [k \in Transfers \X AccountIds \X Operations |-> ledger'[k]]
    BY <1>2, <2>6 DEF Apply
  <2>8. ledger' \in [Transfers \X AccountIds \X Operations -> Entry \cup {Absent}]
    BY <2>5, <2>7
  <2>a. QED
    BY <2>3, <2>8 DEF TypeOK
<1>3. QED
  BY <1>1, <1>2 DEF Serve

\* No operation ever makes a balance negative or the ledger malformed.
THEOREM TypeCorrect == Spec => []TypeOK
<1>1. Init => TypeOK
  BY AccountsAssumption DEF Init, TypeOK
<1>2. TypeOK /\ [Next]_vars => TypeOK'
  <2>1. CASE Next
    BY <2>1, NextServes, TypeInvariance
  <2>2. CASE UNCHANGED vars
    BY <2>2 DEF vars, TypeOK
  <2>3. QED
    BY <2>1, <2>2
<1>3. QED
  BY <1>1, <1>2, PTL DEF Spec

-----------------------------------------------------------------------------
\* How a request that takes effect changes the ledger: its own entry appears,
\* the entry it compensates is flagged, every other row is untouched.
LEMMA LedgerStep ==
  ASSUME TypeOK, NEW t \in Transfers, NEW a \in AccountIds, NEW op \in Operations,
         NEW amount \in Amounts, Apply(t, a, op, amount),
         NEW k \in Transfers \X AccountIds \X Operations
  PROVE  /\ k = <<t, a, op>> => ledger'[k] = NewEntry(a, op, amount)
         /\ k = <<t, a, Original(op)>> /\ op \in Compensations =>
              ledger'[k] = Flagged(ledger[k])
         /\ k # <<t, a, op>> /\ ~(op \in Compensations /\ k = <<t, a, Original(op)>>) =>
              ledger'[k] = ledger[k]
<1>1. op \in Compensations => Original(op) # op
  BY DEF Compensations, Original
<1>2. QED
  BY <1>1 DEF Apply

\* A recorded entry stays, with its amount and balance, and only the flag may
\* change: no request overwrites the record of another.
LEMMA EntriesPersist ==
  ASSUME TypeOK, NEW t \in Transfers, NEW a \in AccountIds, NEW op \in Operations,
         NEW amount \in Amounts, Serve(t, a, op, amount),
         NEW k \in Transfers \X AccountIds \X Operations, ledger[k] # Absent
  PROVE  /\ ledger'[k] # Absent
         /\ ledger'[k].amount = ledger[k].amount
         /\ ledger'[k].balanceAfter = ledger[k].balanceAfter
<1>1. CASE Decline(t, a, op, amount)
  BY <1>1 DEF Decline, vars
<1>2. CASE Apply(t, a, op, amount)
  <2>0. /\ ledger[<<t, a, op>>] = Absent
        /\ op \in Compensations => /\ ledger[<<t, a, Original(op)>>] # Absent
                                   /\ ledger[<<t, a, Original(op)>>].amount = amount
    BY <1>2, EffectGuards
  <2>1. k # <<t, a, op>>
    BY <2>0
  <2>2. CASE op \in Compensations /\ k = <<t, a, Original(op)>>
    <3>1. ledger'[k] = Flagged(ledger[k])
      BY <1>2, <2>2, LedgerStep
    <3>2. ledger[k] \in Entry
      BY DEF TypeOK
    <3>3. Flagged(ledger[k]) \in Entry
      BY <3>2 DEF Entry, Flagged
    <3>4. Flagged(ledger[k]) # Absent
      BY <3>3, AbsentAssumption
    <3>5. /\ Flagged(ledger[k]).amount = ledger[k].amount
          /\ Flagged(ledger[k]).balanceAfter = ledger[k].balanceAfter
      BY DEF Flagged
    <3>6. QED
      BY <3>1, <3>4, <3>5
  <2>3. CASE ~(op \in Compensations /\ k = <<t, a, Original(op)>>)
    BY <1>2, <2>1, <2>3, LedgerStep
  <2>4. QED
    BY <2>2, <2>3
<1>3. QED
  BY <1>1, <1>2 DEF Serve

\* A request that takes effect leaves its entry in the ledger.
LEMMA EffectIsRecorded ==
  ASSUME TypeOK, NEW t \in Transfers, NEW a \in AccountIds, NEW op \in Operations,
         NEW amount \in Amounts, Apply(t, a, op, amount)
  PROVE  ledger'[<<t, a, op>>] # Absent
<1>1. <<t, a, op>> \in Transfers \X AccountIds \X Operations
  OBVIOUS
<1>2. ledger'[<<t, a, op>>] = NewEntry(a, op, amount)
  BY <1>1, LedgerStep
<1>3. TypeOK'
  BY TypeInvariance DEF Serve
<1>4. BalanceAfter(a, op, amount) \in Nat
  <2>1. a \in Accounts
    BY EffectGuards
  <2>2. balance'[a] \in Nat /\ balance \in [Accounts -> Nat]
    BY <1>3, <2>1 DEF TypeOK
  <2>3. QED
    BY <2>1, <2>2 DEF Apply
<1>5. NewEntry(a, op, amount) \in Entry
  BY <1>4 DEF NewEntry, Entry
<1>6. QED
  BY <1>2, <1>5, AbsentAssumption

\* The pairing of compensations and originals survives every request.
LEMMA BackingInvariance ==
  ASSUME TypeOK, CompensationBacked,
         NEW t \in Transfers, NEW a \in AccountIds, NEW op \in Operations,
         NEW amount \in Amounts, Serve(t, a, op, amount)
  PROVE  CompensationBacked'
<1>1. CASE Decline(t, a, op, amount)
  BY <1>1 DEF Decline, vars, CompensationBacked, Recorded
<1>2. CASE Apply(t, a, op, amount)
  <2>a. /\ ledger[<<t, a, op>>] = Absent
        /\ op \in Compensations => /\ ledger[<<t, a, Original(op)>>] # Absent
                                   /\ ledger[<<t, a, Original(op)>>].amount = amount
    BY <1>2, EffectGuards
  <2> SUFFICES ASSUME NEW u \in Transfers, NEW b \in AccountIds, NEW c \in Compensations
               PROVE  LET original == ledger'[<<u, b, Original(c)>>]
                      IN  /\ ledger'[<<u, b, c>>] # Absent =>
                               /\ original # Absent
                               /\ original.compensated
                               /\ original.amount = ledger'[<<u, b, c>>].amount
                          /\ original # Absent /\ original.compensated =>
                               ledger'[<<u, b, c>>] # Absent
    BY DEF CompensationBacked, Recorded
  <2> DEFINE own == <<u, b, c>>
             orig == <<u, b, Original(c)>>
  <2>0. /\ own \in Transfers \X AccountIds \X Operations
        /\ orig \in Transfers \X AccountIds \X Operations
        /\ Original(c) \notin Compensations
    BY DEF Compensations, Operations, Original
  <2>1. /\ ledger[own] # Absent =>
             ledger[orig] # Absent /\ ledger[orig].compensated
               /\ ledger[orig].amount = ledger[own].amount
        /\ ledger[orig] # Absent /\ ledger[orig].compensated => ledger[own] # Absent
    BY DEF CompensationBacked, Recorded
  <2>2. CASE own = <<t, a, op>>
    <3>1. op \in Compensations /\ orig = <<t, a, Original(op)>> /\ op = c
      BY <2>2
    <3>2. ledger'[own] = NewEntry(a, op, amount) /\ ledger'[orig] = Flagged(ledger[orig])
      BY <1>2, <2>0, <2>2, <3>1, LedgerStep
    <3>3. ledger[orig] # Absent /\ ledger[orig].amount = amount
      BY <2>a, <3>1
    <3>4. ledger[orig] \in Entry
      BY <2>0, <3>3 DEF TypeOK
    <3>5. Flagged(ledger[orig]) \in Entry
      BY <3>4 DEF Entry, Flagged
    <3>6. Flagged(ledger[orig]) # Absent
      BY <3>5, AbsentAssumption
    <3>7. ledger'[own] # Absent
      BY <1>2, <2>2, EffectIsRecorded
    <3>8. QED
      BY <3>2, <3>3, <3>6, <3>7 DEF Flagged, NewEntry
  <2>3. CASE orig = <<t, a, op>>
    <3>1. op \notin Compensations /\ op = Original(c)
      BY <2>0, <2>3
    <3>2. ledger'[orig] = NewEntry(a, op, amount)
      BY <1>2, <2>0, <2>3, LedgerStep
    <3>3. ledger[orig] = Absent
      BY <2>a, <2>3
    <3>4. ledger[own] = Absent
      BY <2>1, <3>3
    <3>5. ledger'[own] = ledger[own]
      BY <1>2, <2>0, <3>1, LedgerStep
    <3>6. ~ledger'[orig].compensated
      BY <3>2 DEF NewEntry
    <3>7. QED
      BY <3>4, <3>5, <3>6
  <2>4. CASE own # <<t, a, op>> /\ orig # <<t, a, op>>
    <3>1. ~(op \in Compensations /\ orig = <<t, a, Original(op)>>)
      BY <2>4 DEF Compensations, Original
    <3>2. own # <<t, a, Original(op)>>
      BY DEF Compensations, Original
    <3>3. ledger'[own] = ledger[own] /\ ledger'[orig] = ledger[orig]
      BY <1>2, <2>0, <2>4, <3>1, <3>2, LedgerStep
    <3>4. QED
      BY <2>1, <3>3
  <2>5. QED
    BY <2>2, <2>3, <2>4
<1>3. QED
  BY <1>1, <1>2 DEF Serve

\* A compensation is recorded exactly when its original is flagged, for the
\* same amount, in every reachable state.
THEOREM CompensationIsBacked == Spec => []CompensationBacked
<1>1. Init => CompensationBacked
  BY DEF Init, CompensationBacked, Recorded, Compensations, Operations, Original
<1>2. TypeOK /\ CompensationBacked /\ [Next]_vars => CompensationBacked'
  <2>1. CASE Next
    BY <2>1, NextServes, BackingInvariance
  <2>2. CASE UNCHANGED vars
    BY <2>2 DEF vars, CompensationBacked, Recorded
  <2>3. QED
    BY <2>1, <2>2
<1>3. QED
  BY <1>1, <1>2, TypeCorrect, PTL DEF Spec

\* A retry of a recorded operation is answered as it was the first time.
THEOREM RetriesSeeTheSameAnswer == Spec => AnswersAreStable
<1>1. ASSUME TypeOK, Next, NEW t \in Transfers, NEW a \in AccountIds,
             NEW op \in Operations, NEW amount \in Amounts, Recorded(t, a, op)
      PROVE  /\ Answer(t, a, op, amount)' = Answer(t, a, op, amount)
             /\ ledger'[<<t, a, op>>].balanceAfter = ledger[<<t, a, op>>].balanceAfter
  <2>1. /\ ledger'[<<t, a, op>>] # Absent
        /\ ledger'[<<t, a, op>>].amount = ledger[<<t, a, op>>].amount
        /\ ledger'[<<t, a, op>>].balanceAfter = ledger[<<t, a, op>>].balanceAfter
    BY <1>1, NextServes, EntriesPersist DEF Recorded
  <2>2. QED
    BY <1>1, <2>1 DEF Answer, Recorded, Contradicts
<1>2. ASSUME TypeOK, [Next]_vars
      PROVE  [\A t \in Transfers, a \in AccountIds, op \in Operations, amount \in Amounts :
                Recorded(t, a, op) =>
                  /\ Answer(t, a, op, amount)' = Answer(t, a, op, amount)
                  /\ ledger'[<<t, a, op>>].balanceAfter =
                       ledger[<<t, a, op>>].balanceAfter]_vars
  BY <1>1, <1>2
<1>3. QED
  BY <1>2, TypeCorrect, PTL DEF Spec, AnswersAreStable

-----------------------------------------------------------------------------
(* Sums.                                                                   *)

\* A nonempty set of naturals has a least member.
LEMMA NatMin ==
  ASSUME NEW T \in SUBSET Nat, T # {}
  PROVE  \E n \in T : \A m \in T : n <= m
<1>1. \E R : IsWellFoundedOn(R, Nat) /\ \A m, n \in Nat : m < n => <<m, n>> \in R
  <2>1. \A m, n \in Nat : m < n => <<m, n>> \in OpToRel(<, Nat)
    BY DEF OpToRel
  <2>2. QED
    BY <2>1, NatLessThanWellFounded, Zenon
<1>2. PICK R : IsWellFoundedOn(R, Nat) /\ \A m, n \in Nat : m < n => <<m, n>> \in R
  BY <1>1, Zenon
<1>3. PICK n \in T : \A m \in T : ~(<<m, n>> \in R)
  <2>1. IsWellFoundedOn(R, Nat) /\ T \subseteq Nat
    BY <1>2
  <2>2. QED
    BY <2>1, WFMin
<1>4. ASSUME NEW m \in T
      PROVE  n <= m
  <2>1. m \in Nat /\ n \in Nat /\ ~(m < n)
    BY <1>2, <1>3
  <2>2. QED
    BY <2>1
<1>5. QED
  BY <1>4

\* A member of a set, the one a fold over it takes first.
Pick(s) == CHOOSE x \in s : TRUE

\* What holds of the empty set, and of a set when it holds of what is left once
\* its chosen member is taken, holds of every subset of a finite set.
LEMMA SubsetsGrow ==
  ASSUME NEW S, IsFiniteSet(S), NEW Good \in SUBSET SUBSET S, {} \in Good,
         \A s \in SUBSET S : s # {} /\ s \ {Pick(s)} \in Good => s \in Good
  PROVE  Good = SUBSET S
<1>1. SUFFICES ASSUME Good # SUBSET S
               PROVE  FALSE
  OBVIOUS
<1>2. DEFINE Sizes == {Cardinality(s) : s \in (SUBSET S) \ Good}
<1>3. \A s \in SUBSET S : IsFiniteSet(s) /\ Cardinality(s) \in Nat
  BY FS_Subset, FS_CardinalityType
<1>4. Sizes \in SUBSET Nat /\ Sizes # {}
  BY <1>1, <1>3
<1>5. PICK n \in Sizes : \A m \in Sizes : n <= m
  <2> HIDE DEF Sizes
  <2>1. QED
    BY <1>4, NatMin
<1>6. PICK s \in (SUBSET S) \ Good : Cardinality(s) = n
  BY <1>5
<1>7. s # {} /\ Pick(s) \in s
  BY <1>6 DEF Pick
<1>8. Cardinality(s \ {Pick(s)}) = Cardinality(s) - 1 /\ Cardinality(s) \in Nat
  BY <1>3, <1>7, FS_RemoveElement
<1>9. s \ {Pick(s)} \in SUBSET S
  BY <1>6
<1>10. s \ {Pick(s)} \in Good
  <2>1. SUFFICES ASSUME s \ {Pick(s)} \notin Good
                 PROVE  FALSE
    OBVIOUS
  <2>2. Cardinality(s \ {Pick(s)}) \in Sizes
    BY <1>9, <2>1
  <2>3. n <= Cardinality(s \ {Pick(s)})
    BY <1>5, <2>2
  <2>4. QED
    BY <1>6, <1>8, <2>3
<1>11. QED
  BY <1>6, <1>7, <1>10

\* The partial sums of f over the subsets of its domain.
Partial(f, it) ==
  it = [s \in SUBSET DOMAIN f |-> IF s = {} THEN 0 ELSE f[Pick(s)] + it[s \ {Pick(s)}]]

\* A sum is the last of the partial sums.
LEMMA SumUnfolds ==
  ASSUME NEW f
  PROVE SumFunction(f) = (CHOOSE it : Partial(f, it))[DOMAIN f]
BY DEF SumFunction, SumFunctionOnSet, FoldFunctionOnSet, MapThenFoldSet, Partial, Pick

\* There are such partial sums, so the fold that defines a sum is not empty.
LEMMA FoldExists ==
  ASSUME NEW S, IsFiniteSet(S), NEW f \in [S -> Int]
  PROVE  \E it : Partial(f, it)
<1> DEFINE D(n) == {s \in SUBSET S : Cardinality(s) <= n}
           Value(s, g) == IF s = {} THEN 0 ELSE f[Pick(s)] + g[s \ {Pick(s)}]
           Good(n) == \E g : g = [s \in D(n) |-> Value(s, g)]
<1>0. \A s \in SUBSET S : IsFiniteSet(s) /\ Cardinality(s) \in Nat
  BY FS_Subset, FS_CardinalityType
<1>1. \A s \in SUBSET S : s # {} => /\ s \ {Pick(s)} \in SUBSET S
                                    /\ Cardinality(s \ {Pick(s)}) = Cardinality(s) - 1
  <2>1. SUFFICES ASSUME NEW s \in SUBSET S, s # {}
                 PROVE  /\ s \ {Pick(s)} \in SUBSET S
                        /\ Cardinality(s \ {Pick(s)}) = Cardinality(s) - 1
    OBVIOUS
  <2>2. Pick(s) \in s
    BY <2>1 DEF Pick
  <2>3. QED
    BY <1>0, <2>2, FS_RemoveElement
<1>2. Good(0)
  <2>1. \A s \in D(0) : s = {}
    <3>1. SUFFICES ASSUME NEW s \in D(0)
                   PROVE  s = {}
      OBVIOUS
    <3>2. IsFiniteSet(s) /\ Cardinality(s) \in Nat /\ Cardinality(s) <= 0
      BY <1>0
    <3>3. Cardinality(s) = 0
      BY <3>2
    <3>4. QED
      BY <3>2, <3>3, FS_EmptySet
  <2> DEFINE g == [s \in D(0) |-> 0]
  <2>2. g = [s \in D(0) |-> Value(s, g)]
    BY <2>1
  <2>3. QED
    BY <2>2
<1>3. ASSUME NEW n \in Nat, Good(n)
      PROVE  Good(n + 1)
  <2>1. PICK g : g = [s \in D(n) |-> Value(s, g)]
    BY <1>3
  <2> DEFINE h == [s \in D(n + 1) |-> Value(s, g)]
  <2>2. \A s \in D(n) : h[s] = g[s]
    <3>1. \A s \in D(n) : s \in D(n + 1)
      BY <1>0
    <3>2. \A s \in D(n) : h[s] = Value(s, g)
      BY <3>1
    <3>3. \A s \in D(n) : g[s] = Value(s, g)
      BY <2>1
    <3>4. QED
      BY <3>2, <3>3
  <2>3. ASSUME NEW s \in D(n + 1)
        PROVE  Value(s, h) = Value(s, g)
    <3>1. CASE s = {}
      BY <3>1
    <3>2. CASE s # {}
      <4>1. Cardinality(s) <= n + 1 /\ Cardinality(s) \in Nat
        BY <1>0
      <4>2. s \ {Pick(s)} \in SUBSET S /\ Cardinality(s \ {Pick(s)}) = Cardinality(s) - 1
        BY <1>1, <3>2
      <4>3. s \ {Pick(s)} \in D(n)
        BY <4>1, <4>2
      <4>4. h[s \ {Pick(s)}] = g[s \ {Pick(s)}]
        BY <2>2, <4>3
      <4> HIDE DEF h
      <4>5. QED
        BY <3>2, <4>4
    <3>3. QED
      BY <3>1, <3>2
  <2>4. h = [s \in D(n + 1) |-> Value(s, h)]
    BY <2>3
  <2>5. QED
    BY <2>4
<1>4. \A n \in Nat : Good(n)
  <2> HIDE DEF Good
  <2> DEFINE Bad == {n \in Nat : ~Good(n)}
  <2>1. SUFFICES ASSUME Bad # {}
                 PROVE  FALSE
    OBVIOUS
  <2>2. PICK n \in Bad : \A m \in Bad : n <= m
    <3>1. Bad \in SUBSET Nat
      OBVIOUS
    <3> HIDE DEF Bad
    <3>2. QED
      BY <2>1, <3>1, NatMin
  <2>3. n \in Nat /\ n # 0
    BY <1>2, <2>2
  <2>4. n - 1 \in Nat /\ n - 1 \notin Bad
    BY <2>2, <2>3
  <2>5. Good((n - 1) + 1)
    BY <1>3, <2>4
  <2>6. (n - 1) + 1 = n
    BY <2>3
  <2>7. QED
    BY <2>2, <2>5, <2>6
<1>5. Cardinality(S) \in Nat /\ D(Cardinality(S)) = SUBSET S
  BY FS_Subset, FS_CardinalityType
<1>6. PICK g : g = [s \in D(Cardinality(S)) |-> Value(s, g)]
  BY <1>4, <1>5
<1>7. g = [s \in SUBSET S |-> Value(s, g)]
  BY <1>5, <1>6
<1>8. DOMAIN f = SUBSET S \/ DOMAIN f = S
  OBVIOUS
<1>9. Partial(f, g)
  BY <1>7 DEF Partial
<1>10. QED
  BY <1>9

\* A sum is what its partial sums come to.
LEMMA SumOfPartials ==
  ASSUME NEW S, IsFiniteSet(S), NEW f \in [S -> Int]
  PROVE  \E it \in [SUBSET S -> Int] :
           /\ it[{}] = 0
           /\ \A s \in SUBSET S : s # {} =>
                Pick(s) \in s /\ it[s] = f[Pick(s)] + it[s \ {Pick(s)}]
           /\ SumFunction(f) = it[S]
<1> DEFINE it == CHOOSE h : Partial(f, h)
<1>1. Partial(f, it)
  BY FoldExists
<1>2. SumFunction(f) = it[S]
  BY SumUnfolds
<1> HIDE DEF it
<1>3. it = [s \in SUBSET S |-> IF s = {} THEN 0 ELSE f[Pick(s)] + it[s \ {Pick(s)}]]
  BY <1>1 DEF Partial
<1>4. it[{}] = 0
  BY <1>3
<1>5. ASSUME NEW s \in SUBSET S, s # {}
      PROVE  Pick(s) \in s /\ it[s] = f[Pick(s)] + it[s \ {Pick(s)}]
  BY <1>3, <1>5 DEF Pick
<1> DEFINE Good == {s \in SUBSET S : it[s] \in Int}
<1>6. ASSUME NEW s \in SUBSET S, s # {}, s \ {Pick(s)} \in Good
      PROVE  s \in Good
  BY <1>5, <1>6
<1>7. {} \in Good /\ Good \in SUBSET SUBSET S
  BY <1>4
<1>8. Good = SUBSET S
  <2> HIDE DEF Good
  <2>1. QED
    BY <1>6, <1>7, SubsetsGrow
<1>9. it \in [SUBSET S -> Int]
  BY <1>3, <1>8
<1>10. QED
  BY <1>2, <1>4, <1>5, <1>9

\* One term of a sum changes: so does the sum, by as much.
LEMMA SumChanges ==
  ASSUME NEW S, IsFiniteSet(S), NEW x \in S,
         NEW f \in [S -> Int], NEW g \in [S -> Int],
         \A y \in S : y # x => g[y] = f[y]
  PROVE  /\ SumFunction(f) \in Int
         /\ SumFunction(g) = SumFunction(f) + g[x] - f[x]
<1>1. PICK a \in [SUBSET S -> Int] :
        /\ a[{}] = 0
        /\ \A s \in SUBSET S : s # {} =>
             Pick(s) \in s /\ a[s] = f[Pick(s)] + a[s \ {Pick(s)}]
        /\ SumFunction(f) = a[S]
  BY SumOfPartials
<1>2. PICK b \in [SUBSET S -> Int] :
        /\ b[{}] = 0
        /\ \A s \in SUBSET S : s # {} =>
             Pick(s) \in s /\ b[s] = g[Pick(s)] + b[s \ {Pick(s)}]
        /\ SumFunction(g) = b[S]
  BY SumOfPartials
<1> DEFINE Good == {s \in SUBSET S : b[s] = a[s] + (IF x \in s THEN g[x] - f[x] ELSE 0)}
<1>3. ASSUME NEW s \in SUBSET S, s # {}, s \ {Pick(s)} \in Good
      PROVE  s \in Good
  <2>1. /\ Pick(s) \in s
        /\ a[s] = f[Pick(s)] + a[s \ {Pick(s)}]
        /\ b[s] = g[Pick(s)] + b[s \ {Pick(s)}]
    BY <1>1, <1>2, <1>3
  <2>2. /\ f[Pick(s)] \in Int /\ g[Pick(s)] \in Int /\ f[x] \in Int /\ g[x] \in Int
        /\ a[s \ {Pick(s)}] \in Int /\ b[s \ {Pick(s)}] \in Int
    BY <2>1
  <2>3. b[s \ {Pick(s)}] =
          a[s \ {Pick(s)}] + (IF x \in s \ {Pick(s)} THEN g[x] - f[x] ELSE 0)
    BY <1>3
  <2>4. CASE Pick(s) = x
    BY <2>1, <2>2, <2>3, <2>4
  <2>5. CASE Pick(s) # x
    <3>1. g[Pick(s)] = f[Pick(s)]
      BY <2>1, <2>5
    <3>2. x \in s \ {Pick(s)} <=> x \in s
      BY <2>5
    <3>3. QED
      BY <2>1, <2>2, <2>3, <3>1, <3>2
  <2>6. QED
    BY <2>4, <2>5
<1>4. {} \in Good /\ Good \in SUBSET SUBSET S
  BY <1>1, <1>2
<1>5. Good = SUBSET S
  <2> HIDE DEF Good
  <2>1. QED
    BY <1>3, <1>4, SubsetsGrow
<1>6. b[S] = a[S] + g[x] - f[x]
  <2>1. S \in Good
    BY <1>5
  <2>2. a[S] \in Int /\ b[S] \in Int /\ f[x] \in Int /\ g[x] \in Int
    OBVIOUS
  <2>3. QED
    BY <2>1, <2>2
<1>7. QED
  BY <1>1, <1>2, <1>6

\* A sum of zeros is zero.
LEMMA SumOfZeros ==
  ASSUME NEW S, IsFiniteSet(S), NEW f \in [S -> Int], \A x \in S : f[x] = 0
  PROVE  SumFunction(f) = 0
<1>1. PICK a \in [SUBSET S -> Int] :
        /\ a[{}] = 0
        /\ \A s \in SUBSET S : s # {} =>
             Pick(s) \in s /\ a[s] = f[Pick(s)] + a[s \ {Pick(s)}]
        /\ SumFunction(f) = a[S]
  BY SumOfPartials
<1> DEFINE Good == {s \in SUBSET S : a[s] = 0}
<1>2. ASSUME NEW s \in SUBSET S, s # {}, s \ {Pick(s)} \in Good
      PROVE  s \in Good
  BY <1>1, <1>2
<1>3. {} \in Good /\ Good \in SUBSET SUBSET S
  BY <1>1
<1>4. Good = SUBSET S
  <2> HIDE DEF Good
  <2>1. QED
    BY <1>2, <1>3, SubsetsGrow
<1>5. QED
  BY <1>1, <1>4

\* No term of a sum of naturals exceeds the sum.
LEMMA SumBounds ==
  ASSUME NEW S, IsFiniteSet(S), NEW f \in [S -> Nat]
  PROVE  SumFunction(f) \in Nat /\ \A x \in S : f[x] <= SumFunction(f)
<1>0. f \in [S -> Int]
  OBVIOUS
<1>1. PICK a \in [SUBSET S -> Int] :
        /\ a[{}] = 0
        /\ \A s \in SUBSET S : s # {} =>
             Pick(s) \in s /\ a[s] = f[Pick(s)] + a[s \ {Pick(s)}]
        /\ SumFunction(f) = a[S]
  BY <1>0, SumOfPartials
<1> DEFINE Good == {s \in SUBSET S : a[s] \in Nat /\ \A x \in s : f[x] <= a[s]}
<1>2. ASSUME NEW s \in SUBSET S, s # {}, s \ {Pick(s)} \in Good
      PROVE  s \in Good
  <2>1. /\ Pick(s) \in s
        /\ a[s] = f[Pick(s)] + a[s \ {Pick(s)}]
    BY <1>1, <1>2
  <2>2. f[Pick(s)] \in Nat /\ a[s \ {Pick(s)}] \in Nat
    BY <1>2, <2>1
  <2>3. ASSUME NEW x \in s
        PROVE  f[x] <= a[s]
    <3>1. CASE x = Pick(s)
      BY <2>1, <2>2, <3>1
    <3>2. CASE x # Pick(s)
      <4>1. f[x] \in Nat /\ f[x] <= a[s \ {Pick(s)}]
        BY <1>2, <3>2
      <4>2. QED
        BY <2>1, <2>2, <4>1
    <3>3. QED
      BY <3>1, <3>2
  <2>4. a[s] \in Nat
    BY <2>1, <2>2
  <2>5. QED
    BY <2>3, <2>4
<1>3. {} \in Good /\ Good \in SUBSET SUBSET S
  BY <1>1
<1>4. Good = SUBSET S
  <2> HIDE DEF Good
  <2>1. QED
    BY <1>2, <1>3, SubsetsGrow
<1>5. QED
  BY <1>1, <1>4

-----------------------------------------------------------------------------
(* The ledger and the balances.                                            *)

\* What the constants are.
LEMMA Constants ==
  /\ IsFiniteSet(Transfers)
  /\ \A amount \in Amounts : amount \in Int
  /\ \A a \in Accounts : a \in AccountIds /\ InitialBalance[a] \in Int
  BY AccountsAssumption

\* Every share is a number.
LEMMA SharesTyped ==
  ASSUME TypeOK, NEW a \in AccountIds, NEW op \in Operations
  PROVE  [t \in Transfers |-> Share(t, a, op)] \in [Transfers -> Int]
<1>1. ASSUME NEW t \in Transfers
      PROVE  Share(t, a, op) \in Int
  <2>1. ledger[<<t, a, op>>] \in Entry \cup {Absent}
    BY DEF TypeOK
  <2>2. CASE ledger[<<t, a, op>>] = Absent
    BY <2>2 DEF Share, Recorded
  <2>3. CASE ledger[<<t, a, op>>] \in Entry
    <3>1. ledger[<<t, a, op>>].amount \in Amounts
      BY <2>3 DEF Entry
    <3>2. ledger[<<t, a, op>>].amount \in Int
      BY <3>1, Constants
    <3>3. QED
      BY <3>2 DEF Share
  <2>4. QED
    BY <2>1, <2>2, <2>3
<1>2. QED
  BY <1>1

\* A request that takes effect adds its amount to the total of its operation on
\* its account, and to no other.
LEMMA TotalsMove ==
  ASSUME TypeOK, NEW t \in Transfers, NEW a \in AccountIds, NEW op \in Operations,
         NEW amount \in Amounts, Apply(t, a, op, amount),
         NEW b \in AccountIds, NEW c \in Operations
  PROVE  /\ Total(b, c) \in Int
         /\ Total(b, c)' = Total(b, c) + (IF b = a /\ c = op THEN amount ELSE 0)
<1>0. /\ ledger[<<t, a, op>>] = Absent
      /\ op \in Compensations => /\ ledger[<<t, a, Original(op)>>] # Absent
                                 /\ ledger[<<t, a, Original(op)>>].amount = amount
  BY EffectGuards
<1> DEFINE f == [u \in Transfers |-> Share(u, b, c)]
           g == [u \in Transfers |-> Share(u, b, c)']
<1>1. TypeOK'
  BY TypeInvariance DEF Serve
<1>2. ASSUME NEW u \in Transfers
      PROVE  Share(u, b, c)' = IF u = t /\ b = a /\ c = op THEN amount ELSE Share(u, b, c)
  <2> DEFINE k == <<u, b, c>>
  <2>1. k \in Transfers \X AccountIds \X Operations
    OBVIOUS
  <2>2. CASE k = <<t, a, op>>
    <3>1. ledger'[k] = NewEntry(a, op, amount)
      BY <2>1, <2>2, LedgerStep
    <3>2. ledger'[k] # Absent
      BY <2>2, EffectIsRecorded
    <3>3. QED
      BY <2>2, <3>1, <3>2 DEF Share, Recorded, NewEntry
  <2>3. CASE k # <<t, a, op>>
    <3>1. CASE ledger[k] = Absent
      <4>1. ~(op \in Compensations /\ k = <<t, a, Original(op)>>)
        BY <1>0, <3>1
      <4>2. ledger'[k] = ledger[k]
        BY <2>1, <2>3, <4>1, LedgerStep
      <4>3. QED
        BY <2>3, <3>1, <4>2 DEF Share, Recorded
    <3>2. CASE ledger[k] # Absent
      <4>1. ledger'[k] # Absent /\ ledger'[k].amount = ledger[k].amount
        BY <2>1, <3>2, EntriesPersist DEF Serve
      <4>2. QED
        BY <2>3, <3>2, <4>1 DEF Share, Recorded
    <3>3. QED
      BY <3>1, <3>2
  <2>4. QED
    BY <2>2, <2>3
<1>3. f \in [Transfers -> Int]
  BY SharesTyped
<1>4. amount \in Int
  BY Constants
<1>5. g \in [Transfers -> Int] /\ \A u \in Transfers : u # t => g[u] = f[u]
  BY <1>2, <1>3, <1>4
<1>6. IsFiniteSet(Transfers)
  BY Constants
<1>7. g[t] - f[t] = IF b = a /\ c = op THEN amount ELSE 0
  <2>1. CASE b = a /\ c = op
    <3>1. f[t] = 0
      BY <1>0, <2>1 DEF Share, Recorded
    <3>2. g[t] = amount
      BY <1>2, <2>1
    <3>3. QED
      BY <1>4, <2>1, <3>1, <3>2
  <2>2. CASE ~(b = a /\ c = op)
    <3>1. g[t] = f[t] /\ f[t] \in Int
      BY <1>2, <1>3, <2>2
    <3>2. QED
      BY <2>2, <3>1
  <2>3. QED
    BY <2>1, <2>2
<1>8. /\ SumFunction(f) \in Int
      /\ SumFunction(g) = SumFunction(f) + g[t] - f[t]
  <2> HIDE DEF f, g
  <2>1. QED
    BY <1>3, <1>5, <1>6, SumChanges
<1>9. /\ Total(b, c) = SumFunction(f)
      /\ Total(b, c)' = SumFunction(g)
  BY DEF Total
<1>10. g[t] \in Int /\ f[t] \in Int
  BY <1>3, <1>5
<1>11. QED
  <2> HIDE DEF f, g
  <2>1. QED
    BY <1>7, <1>8, <1>9, <1>10

\* A balance and the ledger's account of it move together.
LEMMA ExplanationInvariance ==
  ASSUME TypeOK, LedgerExplainsBalance,
         NEW t \in Transfers, NEW a \in AccountIds, NEW op \in Operations,
         NEW amount \in Amounts, Serve(t, a, op, amount)
  PROVE  LedgerExplainsBalance'
<1>1. CASE Decline(t, a, op, amount)
  BY <1>1 DEF Decline, vars, LedgerExplainsBalance, Total, Share, Recorded
<1>2. CASE Apply(t, a, op, amount)
  <2>1. SUFFICES ASSUME NEW b \in Accounts
                 PROVE  balance'[b] = InitialBalance[b]
                          + Total(b, "credit")' + Total(b, "debit_compensate")'
                          - Total(b, "debit")' - Total(b, "credit_compensate")'
    BY DEF LedgerExplainsBalance
  <2>2. /\ b \in AccountIds /\ InitialBalance[b] \in Int /\ amount \in Int
        /\ balance[b] \in Int /\ balance \in [Accounts -> Nat] /\ a \in Accounts
    <3>1. a \in Accounts
      BY <1>2, EffectGuards
    <3>2. QED
      BY <3>1, Constants DEF TypeOK
  <2>3. Operations = {"debit", "credit", "debit_compensate", "credit_compensate"}
    BY DEF Operations, Compensations
  <2>4. \A c \in Operations :
          /\ Total(b, c) \in Int
          /\ Total(b, c)' = Total(b, c) + (IF b = a /\ c = op THEN amount ELSE 0)
    BY <1>2, <2>2, TotalsMove
  <2>5. balance[b] = InitialBalance[b] + Total(b, "credit") + Total(b, "debit_compensate")
                       - Total(b, "debit") - Total(b, "credit_compensate")
    BY DEF LedgerExplainsBalance
  <2>6. balance'[b] = IF b # a THEN balance[b]
                      ELSE IF op \in Withdrawals THEN balance[b] - amount
                      ELSE balance[b] + amount
    BY <1>2, <2>2 DEF Apply, BalanceAfter
  <2> HIDE DEF Total
  <2>7. CASE b # a
    BY <2>2, <2>3, <2>4, <2>5, <2>6, <2>7
  <2>8. CASE b = a
    BY <2>2, <2>3, <2>4, <2>5, <2>6, <2>8 DEF Withdrawals
  <2>9. QED
    BY <2>7, <2>8
<1>3. QED
  BY <1>1, <1>2 DEF Serve

\* At first nothing was moved, and every balance is the seeded one.
LEMMA NothingMovedAtFirst ==
  ASSUME Init, NEW a \in AccountIds, NEW op \in Operations
  PROVE  Total(a, op) = 0
<1> DEFINE f == [t \in Transfers |-> Share(t, a, op)]
<1>1. f \in [Transfers -> Int] /\ \A t \in Transfers : f[t] = 0
  BY DEF Init, Share, Recorded
<1>2. IsFiniteSet(Transfers)
  BY Constants
<1>3. SumFunction(f) = 0
  <2> HIDE DEF f
  <2>1. QED
    BY <1>1, <1>2, SumOfZeros
<1>4. QED
  BY <1>3 DEF Total

\* Whatever was retried, refused or compensated, every balance is what the
\* ledger says it should be.
THEOREM TheLedgerExplainsEveryBalance == Spec => []LedgerExplainsBalance
<1>1. Init => LedgerExplainsBalance
  <2>1. SUFFICES ASSUME Init, NEW a \in Accounts
                 PROVE  balance[a] = InitialBalance[a]
                          + Total(a, "credit") + Total(a, "debit_compensate")
                          - Total(a, "debit") - Total(a, "credit_compensate")
    BY DEF LedgerExplainsBalance
  <2>2. /\ a \in AccountIds /\ InitialBalance[a] \in Int
        /\ balance[a] = InitialBalance[a]
    BY <2>1, Constants DEF Init
  <2>3. \A op \in Operations : Total(a, op) = 0
    BY <2>1, <2>2, NothingMovedAtFirst
  <2>4. QED
    BY <2>2, <2>3 DEF Operations, Compensations
<1>2. TypeOK /\ LedgerExplainsBalance /\ [Next]_vars => LedgerExplainsBalance'
  <2>1. CASE Next
    BY <2>1, NextServes, ExplanationInvariance
  <2>2. CASE UNCHANGED vars
    BY <2>2 DEF vars, LedgerExplainsBalance, Total, Share, Recorded
  <2>3. QED
    BY <2>1, <2>2
<1>3. QED
  BY <1>1, <1>2, TypeCorrect, PTL DEF Spec
=============================================================================
