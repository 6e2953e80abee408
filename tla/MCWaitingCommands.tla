------------------------- MODULE MCWaitingCommands -------------------------
EXTENDS WaitingCommands
=============================================================================
