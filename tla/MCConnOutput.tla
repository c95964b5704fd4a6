----------------------------- MODULE MCConnOutput -----------------------------
EXTENDS ConnOutput

CONSTANT Casts  \* which goroutines, beside the loops, a behaviour brings together

\* Those who did something so far.
Actors ==
  {s \in Senders : spc[s] # "idle"} \cup {d \in Shutdowns : dpc[d] # "idle"}
    \cup {c \in Closers : cpc[c] # "idle"}
    \cup {p \in Users \cup Shutdowns : ctx[p] # "live"}
OneCast == \E cast \in Casts : Actors \subseteq cast

\* Three of them act, or two and the context of one ends.
Few ==
  Cardinality(Actors) + Cardinality({p \in Users \cup Shutdowns : Ended(p)}) <= 3
===============================================================================
