--------------------------- MODULE TransferPromise ---------------------------
(***************************************************************************)
(* What a saga promises to the owners of the accounts, with no mention of  *)
(* steps, services or messages: every transfer is decided once, and either *)
(* the whole amount moves from source to destination in one step, or       *)
(* nothing moves at all.                                                   *)
(***************************************************************************)
EXTENDS Integers, FiniteSetsExt

CONSTANTS Transfers, Accounts, InitialBalance, Requests

VARIABLES request,  \* the transfer each identifier asks for
          funds,    \* the money of each account
          fate      \* what became of each transfer

promiseVars == <<request, funds, fate>>

Move(q) ==
  LET taken == [funds EXCEPT ![q.source] = @ - q.amount]
  IN  [taken EXCEPT ![q.destination] = @ + q.amount]

Commit(t) ==
  LET q == request[t] IN
  /\ fate[t] = "open"
  /\ q.source \in Accounts /\ q.destination \in Accounts
  /\ funds[q.source] >= q.amount
  /\ funds' = Move(q)
  /\ fate' = [fate EXCEPT ![t] = "moved"]
  /\ UNCHANGED request

Refuse(t) ==
  /\ fate[t] = "open"
  /\ fate' = [fate EXCEPT ![t] = "void"]
  /\ UNCHANGED <<request, funds>>

Decide(t) == Commit(t) \/ Refuse(t)

Init == /\ request \in [Transfers -> Requests]
        /\ funds = InitialBalance
        /\ fate = [t \in Transfers |-> "open"]

Next == \E t \in Transfers : Decide(t)

\* Every transfer is decided in the end.
Spec == Init /\ [][Next]_promiseVars /\ \A t \in Transfers : WF_promiseVars(Decide(t))
=============================================================================
