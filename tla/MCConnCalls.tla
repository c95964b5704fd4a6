------------------------------ MODULE MCConnCalls ------------------------------
EXTENDS ConnCalls, TLC

CONSTANT MaxEvents  \* how many of these one behaviour has (a bound)

\* What happens to the calls from outside.
Events ==
  Cardinality({c \in Calls : Ended(c)}) + Cardinality({c \in Calls : answers[c] > 0})
    + Cardinality({c \in Calls : answers[c] > 1})
    + (IF sealed \/ Stopped THEN 1 ELSE 0)
FewEvents == Events <= MaxEvents
===============================================================================
