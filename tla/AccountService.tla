--------------------------- MODULE AccountService ---------------------------
(***************************************************************************)
(* The account service: balances and the ledger that makes every debit,    *)
(* credit and compensation idempotent by transfer identifier.              *)
(*                                                                         *)
(* Each operation is one database transaction that locks the account row   *)
(* before it reads the ledger, so an operation is one atomic step.  A row  *)
(* of account.ledger_entries is identified by (transfer, account,          *)
(* operation); the status column is a function of the operation and is     *)
(* left out.                                                               *)
(***************************************************************************)
EXTENDS Integers, FiniteSetsExt

CONSTANTS Transfers,       \* transfer identifiers
          Accounts,        \* rows of account.accounts
          AccountIds,      \* identifiers a request may name, known or not
          Amounts,         \* amounts a request may carry
          InitialBalance,  \* the seeded balance of each account
          Absent           \* "no such row"

ASSUME AccountsAssumption ==
  /\ IsFiniteSet(Transfers)
  /\ Accounts \subseteq AccountIds
  /\ Amounts \subseteq Nat \ {0}
  /\ InitialBalance \in [Accounts -> Nat]

VARIABLES balance, ledger

vars == <<balance, ledger>>

Compensations == {"debit_compensate", "credit_compensate"}
Operations == {"debit", "credit"} \cup Compensations

\* The operations that take money out of the account (direction = -1).
Withdrawals == {"debit", "credit_compensate"}

\* The operation a compensation undoes.
Original(op) == IF op = "debit_compensate" THEN "debit" ELSE "credit"

Entry == [amount : Amounts, balanceAfter : Nat, compensated : BOOLEAN]

ASSUME AbsentAssumption == Absent \notin Entry

-----------------------------------------------------------------------------
Recorded(t, a, op) == ledger[<<t, a, op>>] # Absent

\* Mutant: a retry of an operation that was compensated is refused.
ContradictsOnceCompensated(t, a, op, amount) ==
  ledger[<<t, a, op>>].amount # amount \/ ledger[<<t, a, op>>].compensated

Contradicts(t, a, op, amount) == ledger[<<t, a, op>>].amount # amount

\* Mutant: the funds are never checked.
OverdrawsUnchecked(a, op, amount) == FALSE

Overdraws(a, op, amount) == op \in Withdrawals /\ balance[a] < amount

\* What the service answers to the request: "OK" or the error code of the
\* first check that fails, in the order the handler makes them.
Answer(t, a, op, amount) ==
  IF a \notin Accounts THEN "ACCOUNT_NOT_FOUND"
  ELSE IF Recorded(t, a, op)
    THEN IF Contradicts(t, a, op, amount) THEN "IDEMPOTENCY_CONFLICT" ELSE "OK"
  ELSE IF op \in Compensations /\ ~Recorded(t, a, Original(op))
    THEN "ORIGINAL_OPERATION_NOT_FOUND"
  ELSE IF op \in Compensations /\ Contradicts(t, a, Original(op), amount)
    THEN "IDEMPOTENCY_CONFLICT"
  ELSE IF Overdraws(a, op, amount) THEN "INSUFFICIENT_FUNDS" ELSE "OK"

\* Mutant: a retry is applied again.
TakesEffectAgain(t, a, op, amount) == Answer(t, a, op, amount) = "OK"

TakesEffect(t, a, op, amount) ==
  Answer(t, a, op, amount) = "OK" /\ ~Recorded(t, a, op)

\* Mutant: compensating a credit pays it a second time.
BalanceAfterWrongWay(a, op, amount) ==
  IF op = "debit" THEN balance[a] - amount ELSE balance[a] + amount

BalanceAfter(a, op, amount) ==
  IF op \in Withdrawals THEN balance[a] - amount ELSE balance[a] + amount

NewEntry(a, op, amount) ==
  [amount       |-> amount,
   balanceAfter |-> BalanceAfter(a, op, amount),
   compensated  |-> FALSE]

\* Mutant: the original entry is not flagged.
FlaggedNever(entry) == entry

Flagged(entry) ==
  [amount |-> entry.amount, balanceAfter |-> entry.balanceAfter, compensated |-> TRUE]

\* A fresh operation moves the balance and inserts its entry; a compensation
\* also flags the entry of the operation it undoes.
Apply(t, a, op, amount) ==
  /\ TakesEffect(t, a, op, amount)
  /\ balance' = [balance EXCEPT ![a] = BalanceAfter(a, op, amount)]
  /\ ledger' = [k \in Transfers \X AccountIds \X Operations |->
       IF k = <<t, a, op>> THEN NewEntry(a, op, amount)
       ELSE IF op \in Compensations /\ k = <<t, a, Original(op)>>
         THEN Flagged(ledger[k])
       ELSE ledger[k]]

\* A retry is answered from the ledger, a refusal rolls back.
Decline(t, a, op, amount) ==
  ~TakesEffect(t, a, op, amount) /\ UNCHANGED vars

Serve(t, a, op, amount) == Apply(t, a, op, amount) \/ Decline(t, a, op, amount)

Debit(t, a, amount)            == Serve(t, a, "debit", amount)
Credit(t, a, amount)           == Serve(t, a, "credit", amount)
CompensateDebit(t, a, amount)  == Serve(t, a, "debit_compensate", amount)
CompensateCredit(t, a, amount) == Serve(t, a, "credit_compensate", amount)

Init == /\ balance = InitialBalance
        /\ ledger = [k \in Transfers \X AccountIds \X Operations |-> Absent]

Next == \E t \in Transfers, a \in AccountIds, amount \in Amounts :
          \/ Debit(t, a, amount)
          \/ Credit(t, a, amount)
          \/ CompensateDebit(t, a, amount)
          \/ CompensateCredit(t, a, amount)

Spec == Init /\ [][Next]_vars

-----------------------------------------------------------------------------
\* Balances never go negative and every ledger row is well formed.
TypeOK ==
  /\ balance \in [Accounts -> Nat]
  /\ ledger \in [Transfers \X AccountIds \X Operations -> Entry \cup {Absent}]

\* What operation op on account a moved for a transfer, and for all of them.
Share(t, a, op) == IF Recorded(t, a, op) THEN ledger[<<t, a, op>>].amount ELSE 0
Total(a, op) == SumFunction([t \in Transfers |-> Share(t, a, op)])

\* The ledger explains every balance: whatever was retried, refused or
\* compensated, a balance is the seeded one plus what the ledger recorded in
\* minus what it recorded out (the account row and its entry commit together).
LedgerExplainsBalance ==
  \A a \in Accounts :
    balance[a] = InitialBalance[a]
                   + Total(a, "credit") + Total(a, "debit_compensate")
                   - Total(a, "debit") - Total(a, "credit_compensate")

\* An entry is flagged compensated exactly when its compensation is recorded,
\* for the same amount: no operation is undone twice, or undone without a trace.
CompensationBacked ==
  \A t \in Transfers, a \in AccountIds, op \in Compensations :
    LET original == ledger[<<t, a, Original(op)>>]
    IN  /\ Recorded(t, a, op) =>
             /\ Recorded(t, a, Original(op))
             /\ original.compensated
             /\ original.amount = ledger[<<t, a, op>>].amount
        /\ Recorded(t, a, Original(op)) /\ original.compensated =>
             Recorded(t, a, op)

\* Idempotency as its clients rely on it: once an operation is recorded, every
\* later retry of it is answered with the same verdict and the same balance,
\* even after the operation has been compensated.
AnswersAreStable ==
  [][\A t \in Transfers, a \in AccountIds, op \in Operations, amount \in Amounts :
       Recorded(t, a, op) =>
         /\ Answer(t, a, op, amount)' = Answer(t, a, op, amount)
         /\ ledger'[<<t, a, op>>].balanceAfter = ledger[<<t, a, op>>].balanceAfter]_vars

=============================================================================
