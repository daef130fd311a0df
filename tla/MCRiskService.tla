---------------------------- MODULE MCRiskService ----------------------------
EXTENDS RiskService

\* Amount 1 is within the limit of 1, amount 2 above it.
MCRequests ==
  [source : {"A"}, destination : {"B"}, amount : {1, 2}, forceRisk : BOOLEAN]
=============================================================================
