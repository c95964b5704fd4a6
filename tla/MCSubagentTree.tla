---------------------------- MODULE MCSubagentTree ----------------------------
EXTENDS SubagentTree, TLC

Symmetry == Permutations(Sessions) \cup Permutations(Attempts)
===============================================================================
