-------------------------- MODULE MCAccountService --------------------------
EXTENDS AccountService

CONSTANTS acc1, ghost

MCInitialBalance == [a \in {acc1} |-> 2]
=============================================================================
