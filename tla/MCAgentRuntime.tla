---------------------------- MODULE MCAgentRuntime -----------------------------
EXTENDS AgentRuntime

CONSTANTS r1, r2, i1, i2, s1, s2

\* Requests, ids and sessions are interchangeable: r1 is read first, with the
\* first id and in the first session.  r2 has both from r1, or neither.
MCInit ==
  /\ RuntimeInit
  /\ <<id[r1], session[r1]>> = <<i1, s1>>
  /\ <<id[r2], session[r2]>> \in {<<i1, s1>>, <<i2, s2>>}

MCFair == MCInit /\ [][RuntimeNext]_runtimeVars /\ Fairness

InOrder == ReadAlready(r2) => ReadAlready(r1)
===============================================================================
