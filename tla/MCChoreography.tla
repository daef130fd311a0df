---------------------------- MODULE MCChoreography ----------------------------
(***************************************************************************)
(* Instances of the choreographed saga: one transfer between the known     *)
(* accounts A and B, or from or to one no table knows.                     *)
(***************************************************************************)
EXTENDS ChoreographyProperties, TLC

CONSTANTS t1, c1, c2

Ask(source, destination, amount, forceRisk, forceClearing) ==
  [source |-> source, destination |-> destination, amount |-> amount,
   forceRisk |-> forceRisk, forceClearing |-> forceClearing]

Completes == Ask("A", "B", 1, FALSE, FALSE)
LacksFunds == Ask("B", "A", 2, FALSE, FALSE)
RiskRejects == Ask("A", "B", 1, TRUE, FALSE)
ClearingFails == Ask("A", "B", 1, FALSE, TRUE)
NobodyToCredit == Ask("A", "ghost", 1, FALSE, FALSE)
NobodyToDebit == Ask("ghost", "B", 1, FALSE, FALSE)

\* With a service that gives up, these lead to every rollback there is.
EveryBranch == {Completes, LacksFunds, RiskRejects}

\* Every way the choreography itself comes to an end: completed, and refused by
\* the debit, by risk, by clearing and by the credit.
EveryEnd == {Completes, LacksFunds, RiskRejects, ClearingFails, NobodyToCredit}

\* And the one it leaves open.
EveryRefusal == EveryEnd \cup {NobodyToDebit}

Balances == [a \in {"A", "B"} |-> IF a = "A" THEN 3 ELSE 1]
KnownAccounts == {"A", "B"}
NamedAccounts == {"A", "B", "ghost"}

NoAudit == Workers \cup {"projector"}
AllConsumers == Workers \cup Observers

\* How far a participant may lag; nobody waits for the observers.
ThreeEach == [p \in NoAudit |-> 3]
AuditKeepsUp == [p \in AllConsumers |-> CASE p = "audit" -> 1 [] p = "projector" -> 2 [] OTHER -> 3]

OneCall == [c \in {c1} |-> t1]
CallSymmetry == Permutations({c1, c2})
TwoCalls == [c \in {c1, c2} |-> t1]
===============================================================================
