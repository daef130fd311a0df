-------------------------- MODULE MCClearingService --------------------------
EXTENDS ClearingService

MCRequests ==
  [source : {"A"}, destination : {"B"}, amount : {1}, forceClearing : BOOLEAN]
=============================================================================
