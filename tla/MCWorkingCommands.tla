------------------------- MODULE MCWorkingCommands --------------------------
EXTENDS WorkingCommands, TLC

Symmetry == Permutations(Processes) \cup Permutations(Operations)
=============================================================================
