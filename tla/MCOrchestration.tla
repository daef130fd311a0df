--------------------------- MODULE MCOrchestration ---------------------------
(***************************************************************************)
(* Instances of the orchestrated saga.  A and B are known accounts, ghost  *)
(* is one no table knows: a transfer to it fails at the last step, after   *)
(* clearing.  Amounts above 2 exceed the risk limit of the instances.      *)
(***************************************************************************)
EXTENDS OrchestrationProperties, TLC

CONSTANTS t1, t2, r1, r2

Ask(source, destination, amount, forceRisk, forceClearing) ==
  [source |-> source, destination |-> destination, amount |-> amount,
   forceRisk |-> forceRisk, forceClearing |-> forceClearing]

\* One request for each way a saga can go: completed, no funds, unknown source,
\* risk rejected by force and by amount, clearing timeout, unknown destination.
EveryOutcome ==
  {Ask("A", "B", 1, FALSE, FALSE), Ask("B", "A", 2, FALSE, FALSE),
   Ask("ghost", "B", 1, FALSE, FALSE),
   Ask("A", "B", 1, TRUE, FALSE), Ask("A", "B", 3, FALSE, FALSE),
   Ask("A", "B", 1, FALSE, TRUE), Ask("A", "ghost", 1, FALSE, FALSE)}

\* The same without the two whose runs differ from another only in an error code.
OverlapOutcomes ==
  EveryOutcome \ {Ask("ghost", "B", 1, FALSE, FALSE), Ask("A", "B", 3, FALSE, FALSE)}

\* Requests that compete for the same money in both directions.
Contention ==
  {Ask("A", "B", 2, FALSE, FALSE), Ask("B", "A", 2, FALSE, FALSE),
   Ask("A", "B", 1, TRUE, FALSE), Ask("A", "B", 2, FALSE, TRUE),
   Ask("B", "ghost", 1, FALSE, FALSE)}

Balances == [a \in {"A", "B"} |-> IF a = "A" THEN 3 ELSE 1]
TightBalances == [a \in {"A", "B"} |-> IF a = "A" THEN 1 ELSE 2]
KnownAccounts == {"A", "B"}
NamedAccounts == {"A", "B", "ghost"}

OneRun == [r \in {r1} |-> t1]
TwoRunsOfOne == [r \in {r1, r2} |-> t1]
\* Two runs of one transfer are interchangeable.
RunSymmetry == Permutations({r1, r2})

OneRunEach == [r \in {r1, r2} |-> IF r = r1 THEN t1 ELSE t2]
=============================================================================
