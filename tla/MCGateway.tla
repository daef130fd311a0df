------------------------------ MODULE MCGateway ------------------------------
(***************************************************************************)
(* Instance of the Gateway: two POSTs with one Idempotency-Key, for the    *)
(* same or for different requests.                                         *)
(***************************************************************************)
EXTENDS GatewayProperties

CONSTANTS c1, c2, k1

SameOrNot == {[c \in {c1, c2} |-> "this"], [c \in {c1, c2} |-> IF c = c1 THEN "this" ELSE "that"]}

OneKey == [c \in {c1, c2} |-> k1]

\* A saga that completes, or rolls back and fails.
ShortSaga == {"PENDING", "COMPENSATING", "COMPLETED", "FAILED"}
=============================================================================
