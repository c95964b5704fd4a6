---------------------------- MODULE MCMcpExchange -----------------------------
EXTENDS McpExchange, TLC

CONSTANT MaxEvents  \* how many of these one behaviour has (a bound)

\* What happens to an exchange from outside.
Events ==
  Cardinality(outer) + Cardinality(gaveUp) + Cardinality(closed)
    + (IF inputClosed THEN 1 ELSE 0)
FewEvents == Events <= MaxEvents

Symmetry == Permutations(Ops) \cup Permutations(Ids)
===============================================================================
