---------------------------- MODULE MCHttpStreams -----------------------------
EXTENDS HttpStreams, TLC

CONSTANT MaxEvents  \* how many of these one behaviour has (a bound)

\* What clients and the agent bring to a connection.
Events ==
  Cardinality({r \in Reqs : post[r] # "none"})
    + Cardinality({g \in Gets : gpc[g] # "none"})
    + Cardinality({e \in {"delete", "post"} : ender[e] # "none"})
    + (IF agent = "run" THEN 0 ELSE 1)
FewEvents == Events <= MaxEvents

\* Sessions are alike, and so are GETs: of 1 and 2, 1 comes first.
Symmetry == Permutations(Sessions)
InOrder == \A g, h \in Gets : g < h /\ gpc[h] # "none" => gpc[g] # "none"
===============================================================================
