-------------------------- MODULE SubagentTreeProofs --------------------------
(***************************************************************************)
(* Proofs about SubagentTree, for every set of sessions and of attempts.   *)
(* The walks up and down the tree are stated as sets they do not leave, so *)
(* no step needs an induction: a walk that misses a session is refuted by  *)
(* the set of those the walk does not miss, or by its complement.          *)
(***************************************************************************)
EXTENDS SubagentTree, TLAPS

Acyclic ==
  \A S \in SUBSET {c \in Sessions : IsChild(c)} :
    S # {} => \E c \in S : parent[c] \notin S
Indexed == \A p \in Sessions : children[p] = {c \in Sessions : parent[c] = p}

LEMMA ForestParts == Forest <=> Acyclic /\ Indexed
BY DEF Forest, Acyclic, Indexed

\* The attempt in progress is exactly the latest one of its session that
\* neither returned nor was replaced.
RestoresAreExact ==
  /\ \A s \in Sessions, r \in Attempts :
       restores[s] = r => InProgress(r) /\ session[r] = s /\ r \notin passed
  /\ \A r \in Attempts :
       /\ call[r] # "idle" => session[r] \in Sessions
       /\ InProgress(r) /\ r \notin passed => restores[session[r]] = r
       /\ r \in inFlight => call[r] # "idle" /\ r \notin answered
       /\ r \in inFlight /\ r \notin passed => InProgress(r)
       /\ call[r] = "idle" => r \notin passed /\ r \notin answered

\* What was reported during an attempt lies below its session as long as the
\* attempt may still fail.
ReportsLieBelow ==
  \A s \in Sessions, r \in Attempts :
    current[s] # None /\ during[s] = r =>
      \/ InProgress(r) /\ r \notin passed /\ s \in Subtree(session[r])
      \/ call[r] = "ok"

\* A call that has not begun is named by no report.
BegunIsNamed ==
  \A s \in Sessions : current[s] \in Attempts => call[current[s]] # "idle"

IInv ==
  /\ TypeOK
  /\ Acyclic
  /\ Indexed
  /\ RestoresAreExact
  /\ HistoryIsHidden
  /\ ReportsLieBelow
  /\ BegunIsNamed

(***************************************************************************)
(* Walks.                                                                  *)
(***************************************************************************)
LEMMA SelfIsAbove == \A s \in Sessions : Above(s, s)
BY DEF Above

\* Every chain has a top, as the sessions above s cannot all be children.
LEMMA RootExists ==
  ASSUME TypeOK, Acyclic, NEW s \in Sessions
  PROVE  Root(s) \in Sessions /\ Above(Root(s), s) /\ ~IsChild(Root(s))
<1> DEFINE U == {a \in Sessions : Above(a, s)}
<1>1. s \in U
  BY SelfIsAbove
<1>2. \A a \in U : IsChild(a) => parent[a] \in U
  <2> SUFFICES ASSUME NEW a \in U, IsChild(a) PROVE parent[a] \in U
    OBVIOUS
  <2>1. parent[a] \in Sessions
    BY DEF TypeOK, IsChild
  <2>2. ASSUME NEW S \in SUBSET Sessions, s \in S, Upward(S) PROVE parent[a] \in S
    BY <2>2 DEF Above, Upward
  <2> QED
    BY <2>1, <2>2 DEF Above
<1>3. \E a \in U : ~IsChild(a)
  <2> SUFFICES ASSUME \A a \in U : IsChild(a) PROVE FALSE
    OBVIOUS
  <2>1. U \in SUBSET {c \in Sessions : IsChild(c)}
    OBVIOUS
  <2> QED
    BY <2>1, <1>1, <1>2 DEF Acyclic
<1> QED
  BY <1>3 DEF Root

\* And only one: the sessions below a top are closed upward.
LEMMA RootIsUnique ==
  ASSUME TypeOK, Acyclic, NEW s \in Sessions, NEW a \in Sessions,
         Above(a, s), ~IsChild(a)
  PROVE  Root(s) = a
<1> DEFINE b == Root(s)
<1>1. b \in Sessions /\ Above(b, s) /\ ~IsChild(b)
  BY RootExists
<1> DEFINE X == {x \in Sessions : Above(a, x)}
<1>2. Upward(X)
  <2> SUFFICES ASSUME NEW x \in X, IsChild(x) PROVE parent[x] \in X
    BY DEF Upward
  <2>1. parent[x] \in Sessions
    BY DEF TypeOK, IsChild
  <2>2. ASSUME NEW S \in SUBSET Sessions, parent[x] \in S, Upward(S) PROVE a \in S
    <3>1. S \cup {x} \in SUBSET Sessions /\ x \in S \cup {x}
      OBVIOUS
    <3>2. Upward(S \cup {x})
      BY <2>2 DEF Upward
    <3>3. a \in S \cup {x}
      BY <3>1, <3>2 DEF Above
    <3>4. a # x
      OBVIOUS
    <3> QED
      BY <3>3, <3>4
  <2> QED
    BY <2>1, <2>2 DEF Above
<1>3. Above(a, b)
  <2>1. X \in SUBSET Sessions /\ s \in X
    OBVIOUS
  <2> QED
    BY <2>1, <1>1, <1>2 DEF Above
<1>4. Upward({b}) /\ {b} \in SUBSET Sessions
  BY <1>1 DEF Upward
<1>5. a \in {b}
  BY <1>3, <1>4 DEF Above
<1> QED
  BY <1>5

\* The index down and the walk up agree.
LEMMA DescendantsAreBelow ==
  ASSUME TypeOK, Indexed, NEW a \in Sessions, NEW c \in Sessions, c # a
  PROVE  c \in Descendants(a) <=> Above(a, c)
<1>1. ASSUME c \in Descendants(a), NEW S \in SUBSET Sessions, c \in S, Upward(S)
      PROVE  a \in S
  <2> SUFFICES ASSUME a \notin S PROVE FALSE
    OBVIOUS
  <2>1. Sessions \ S \in SUBSET Sessions /\ a \in Sessions \ S
    OBVIOUS
  <2>2. Downward(Sessions \ S)
    <3> SUFFICES ASSUME NEW p \in Sessions \ S, NEW x \in children[p]
                 PROVE  x \in Sessions \ S
      BY DEF Downward
    <3>1. x \in Sessions /\ parent[x] = p
      BY DEF Indexed
    <3>2. IsChild(x)
      BY <3>1, NoneAssumption DEF IsChild
    <3> QED
      BY <3>1, <3>2, <1>1 DEF Upward
  <2>3. c \in Sessions \ S
    BY <2>1, <2>2, <1>1 DEF Descendants
  <2> QED
    BY <2>3, <1>1
<1>2. ASSUME Above(a, c), NEW S \in SUBSET Sessions, a \in S, Downward(S)
      PROVE  c \in S
  <2> SUFFICES ASSUME c \notin S PROVE FALSE
    OBVIOUS
  <2>1. Sessions \ S \in SUBSET Sessions /\ c \in Sessions \ S
    OBVIOUS
  <2>2. Upward(Sessions \ S)
    <3> SUFFICES ASSUME NEW x \in Sessions \ S, IsChild(x)
                 PROVE  parent[x] \in Sessions \ S
      BY DEF Upward
    <3>1. parent[x] \in Sessions
      BY DEF TypeOK, IsChild
    <3>2. x \in children[parent[x]]
      BY <3>1 DEF Indexed
    <3> QED
      BY <3>1, <3>2, <1>2 DEF Downward
  <2>3. a \in Sessions \ S
    BY <2>1, <2>2, <1>2 DEF Above
  <2> QED
    BY <2>3, <1>2
<1>3. c \in Descendants(a) => Above(a, c)
  BY <1>1 DEF Above
<1>4. Above(a, c) => c \in Descendants(a)
  BY <1>2 DEF Descendants
<1> QED
  BY <1>3, <1>4

(***************************************************************************)
(* The inductive invariant.                                                *)
(***************************************************************************)
LEMMA InitHolds == Init => IInv
<1> SUFFICES ASSUME Init PROVE IInv
  OBVIOUS
<1> USE NoneAssumption DEF Init
<1>1. TypeOK
  BY DEF TypeOK
<1>2. Acyclic /\ Indexed
  BY DEF Acyclic, Indexed, IsChild
<1>3. RestoresAreExact /\ HistoryIsHidden /\ ReportsLieBelow /\ BegunIsNamed
  BY DEF RestoresAreExact, HistoryIsHidden, ReportsLieBelow, BegunIsNamed, InProgress
<1> QED
  BY <1>1, <1>2, <1>3 DEF IInv

\* A new child never closes a cycle: the walk up from its parent misses it.
LEMMA AnnounceKeepsForest ==
  ASSUME IInv, NEW p \in Sessions, NEW c \in Sessions, Announce(p, c)
  PROVE  TypeOK' /\ Acyclic' /\ Indexed'
<1> USE DEF IInv
<1>1. TypeOK'
  <2>1. parent' \in [Sessions -> Sessions \cup {None}]
    BY DEF TypeOK, Announce
  <2>2. children' \in [Sessions -> SUBSET Sessions]
    BY DEF TypeOK, Announce
  <2>3. Sources(p) \subseteq Attempts \cup {Live}
    BY DEF Sources, TypeOK
  <2>4. restores[Root(p)] \in Attempts \cup {None}
    BY RootExists DEF TypeOK
  <2>5. PICK v \in Attempts \cup {Live, None}, d \in Attempts \cup {None} :
          Report(c, v, d)
    <3>1. PICK source \in Sources(p), patch \in {"omitted", "null", "value"} :
            IF patch = "omitted" \/ Historical(p)
            THEN Report(c, IF IsChild(c) THEN current[c] ELSE None, during[c])
            ELSE Report(c, IF patch = "null" THEN None ELSE source, restores[Root(p)])
      BY DEF Announce
    <3>2. CASE patch = "omitted" \/ Historical(p)
      BY <3>1, <3>2 DEF TypeOK
    <3>3. CASE ~(patch = "omitted" \/ Historical(p))
      BY <3>1, <3>3, <2>3, <2>4 DEF TypeOK
    <3> QED
      BY <3>2, <3>3
  <2>6. current' \in [Sessions -> Attempts \cup {Live, None}]
    BY <2>5 DEF TypeOK, Report
  <2>7. during' \in [Sessions -> Attempts \cup {None}]
    BY <2>5 DEF TypeOK, Report
  <2> QED
    BY <2>1, <2>2, <2>6, <2>7 DEF TypeOK, Announce, attemptVars
<1>2. CASE IsChild(c)
  <2>1. parent[c] = p /\ parent' = parent
    BY <1>2 DEF Announce, Refused, TypeOK
  <2>2. children' = children
    BY <2>1, <1>2 DEF Announce, Indexed, TypeOK
  <2> QED
    BY <1>1, <2>1, <2>2 DEF Acyclic, Indexed, IsChild
<1>3. CASE ~IsChild(c)
  <2>1. c # p /\ parent[c] = None
    BY <1>3 DEF Announce, Refused, IsChild
  <2>2. parent' = [parent EXCEPT ![c] = p]
    BY DEF Announce
  <2>3. PICK S \in SUBSET Sessions : p \in S /\ Upward(S) /\ c \notin S
    BY <1>3 DEF Announce, Refused, Above
  <2>4. Acyclic'
    <3> SUFFICES ASSUME NEW T \in SUBSET {x \in Sessions : parent'[x] # None},
                        T # {}
                 PROVE  \E x \in T : parent'[x] \notin T
      BY DEF Acyclic, IsChild
    <3>1. \A x \in Sessions : x # c => parent'[x] = parent[x]
      BY <2>2 DEF TypeOK
    <3>2. parent'[c] = p
      BY <2>2 DEF TypeOK
    <3>3. CASE T \cap S # {}
      <4>1. T \cap S \in SUBSET {x \in Sessions : IsChild(x)}
        BY <2>3, <3>1 DEF IsChild
      <4>2. PICK x \in T \cap S : parent[x] \notin T \cap S
        BY <4>1, <3>3 DEF Acyclic
      <4>3. x # c /\ IsChild(x)
        BY <2>3, <4>1
      <4>4. parent[x] \in S
        BY <4>3, <2>3 DEF Upward
      <4> QED
        BY <4>2, <4>3, <4>4, <3>1
    <3>4. CASE T \cap S = {} /\ c \in T
      BY <3>4, <3>2, <2>3
    <3>5. CASE c \notin T
      <4>1. T \in SUBSET {x \in Sessions : IsChild(x)}
        BY <3>5, <3>1 DEF IsChild
      <4> QED
        BY <4>1, <3>5, <3>1 DEF Acyclic
    <3> QED
      BY <3>3, <3>4, <3>5
  <2>5. Indexed'
    <3> SUFFICES ASSUME NEW q \in Sessions
                 PROVE  children'[q] = {x \in Sessions : parent'[x] = q}
      BY DEF Indexed
    <3>1. children[q] = {x \in Sessions : parent[x] = q}
      BY DEF Indexed
    <3>2. children'[q] = IF q = p THEN children[q] \cup {c} ELSE children[q]
      BY DEF Announce, TypeOK
    <3>3. \A x \in Sessions : parent'[x] = IF x = c THEN p ELSE parent[x]
      BY <2>2 DEF TypeOK
    <3>4. c \notin children[q]
      BY <3>1, <2>1, NoneAssumption
    <3> QED
      BY <3>1, <3>2, <3>3, <3>4
  <2> QED
    BY <1>1, <2>4, <2>5
<1> QED
  BY <1>1, <1>2, <1>3

\* The tree only grows, so nothing leaves the descendants of a session.
LEMMA DescendantsStay ==
  ASSUME IInv, NEW p \in Sessions, NEW c \in Sessions, Announce(p, c),
         NEW a \in Sessions
  PROVE  Descendants(a) \subseteq Descendants(a)'
<1>1. \A q \in Sessions : children[q] \subseteq children'[q]
  BY DEF IInv, TypeOK, Announce
<1> SUFFICES ASSUME NEW x \in Descendants(a),
                    NEW S \in SUBSET Sessions, a \in S,
                    \A q \in S : children'[q] \subseteq S
             PROVE  x \in S
  BY DEF Descendants, Downward
<1>2. Downward(S)
  BY <1>1 DEF Downward
<1> QED
  BY <1>2 DEF Descendants

\* A replay of the attempt in progress, received below its session, is seen
\* to be history.
LEMMA ReplayIsSeen ==
  ASSUME IInv, NEW s \in Sessions, NEW r \in Sources(s) \cap Attempts
  PROVE  Historical(s) \/ r \in passed \/ IsChild(session[r])
<1> USE DEF IInv
<1> SUFFICES ASSUME r \notin passed, ~IsChild(session[r]) PROVE Historical(s)
  OBVIOUS
<1>1. r \in replay /\ r \in inFlight /\ s \in {session[r]} \cup Descendants(session[r])
  BY NoneAssumption DEF Sources
<1>2. session[r] \in Sessions /\ restores[session[r]] = r /\ r \notin answered
  BY <1>1 DEF RestoresAreExact, InProgress
<1>3. Above(session[r], s)
  <2>1. CASE s = session[r]
    BY <2>1, SelfIsAbove
  <2>2. CASE s # session[r]
    BY <2>2, <1>1, <1>2, DescendantsAreBelow
  <2> QED
    BY <2>1, <2>2
<1>4. Root(s) = session[r]
  BY <1>2, <1>3, RootIsUnique
<1> QED
  BY <1>1, <1>2, <1>4 DEF Historical

\* What a report takes for the attempt in progress is the attempt of its root.
LEMMA RootAttempt ==
  ASSUME IInv, NEW s \in Sessions, NEW r \in Attempts, restores[Root(s)] = r
  PROVE  /\ InProgress(r) /\ r \notin passed /\ session[r] = Root(s)
         /\ s \in Subtree(session[r])
<1> USE DEF IInv
<1>1. Root(s) \in Sessions /\ Above(Root(s), s) /\ ~IsChild(Root(s))
  BY RootExists
<1>2. InProgress(r) /\ r \notin passed /\ session[r] = Root(s)
  BY <1>1 DEF RestoresAreExact
<1>3. CASE s = Root(s)
  BY <1>1, <1>2, <1>3 DEF Subtree
<1>4. CASE s # Root(s)
  BY <1>1, <1>2, <1>4, DescendantsAreBelow DEF Subtree
<1> QED
  BY <1>2, <1>3, <1>4

LEMMA AnnounceHolds ==
  ASSUME IInv, NEW p \in Sessions, NEW c \in Sessions, Announce(p, c)
  PROVE  IInv'
<1> USE DEF IInv
<1>1. TypeOK' /\ Acyclic' /\ Indexed'
  BY AnnounceKeepsForest
<1>2. RestoresAreExact'
  BY DEF Announce, attemptVars, RestoresAreExact, InProgress
<1>3. PICK source \in Sources(p), patch \in {"omitted", "null", "value"} :
        IF patch = "omitted" \/ Historical(p)
        THEN Report(c, IF IsChild(c) THEN current[c] ELSE None, during[c])
        ELSE Report(c, IF patch = "null" THEN None ELSE source, restores[Root(p)])
  BY DEF Announce
<1>4. \A s \in Sessions : s # c => current'[s] = current[s] /\ during'[s] = during[s]
  BY <1>3 DEF Report, TypeOK
<1>5. \A s \in Sessions : /\ IsChild(s) => IsChild(s)'
                          /\ s # c => (IsChild(s) <=> IsChild(s)')
  BY NoneAssumption DEF Announce, IsChild, TypeOK
<1>6. \/ current'[c] = None
      \/ IsChild(c) /\ current'[c] = current[c] /\ during'[c] = during[c]
      \/ ~Historical(p) /\ current'[c] = source /\ during'[c] = restores[Root(p)]
  <2>1. CASE patch = "omitted" \/ Historical(p)
    BY <1>3, <2>1 DEF Report, TypeOK
  <2>2. CASE ~(patch = "omitted" \/ Historical(p))
    BY <1>3, <2>2 DEF Report, TypeOK
  <2> QED
    BY <2>1, <2>2
<1>7. UNCHANGED <<call, session, passed, restores>>
  BY DEF Announce, attemptVars
<1>9. source \in Attempts => call[source] # "idle" /\ session[source] \in Sessions
  BY NoneAssumption DEF Sources, RestoresAreExact, InProgress
<1>13. passed' = passed
  BY DEF Announce
<1>10. HistoryIsHidden'
  <2> SUFFICES ASSUME NEW s \in Sessions, current'[s] \in Attempts
               PROVE  current'[s] \in passed \/ parent'[session[current'[s]]] # None
    BY <1>7, <1>13 DEF HistoryIsHidden, IsChild
  <2>1. CASE current'[s] = current[s]
    <3>1. current[s] \in passed \/ IsChild(session[current[s]])
      BY <2>1 DEF HistoryIsHidden
    <3>2. session[current[s]] \in Sessions
      BY <2>1 DEF BegunIsNamed, RestoresAreExact
    <3>3. CASE current[s] \in passed
      BY <3>3, <2>1
    <3>4. CASE IsChild(session[current[s]])
      BY <3>4, <3>2, <1>5, <2>1 DEF IsChild
    <3> QED
      BY <3>1, <3>3, <3>4
  <2>2. CASE s = c /\ ~Historical(p) /\ current'[c] = source
    <3>1. source \in passed \/ IsChild(session[source])
      BY <2>2, ReplayIsSeen
    <3> QED
      BY <3>1, <2>2, <1>9, <1>5 DEF IsChild
  <2> QED
    BY <2>1, <2>2, <1>4, <1>6, NoneAssumption
<1>11. BegunIsNamed'
  BY <1>4, <1>6, <1>7, <1>9, NoneAssumption DEF BegunIsNamed
<1>12. ReportsLieBelow'
  <2> SUFFICES ASSUME NEW s \in Sessions, NEW r \in Attempts,
                      current'[s] # None, during'[s] = r, call[r] # "ok"
               PROVE  InProgress(r) /\ r \notin passed /\ s \in Subtree(session[r])'
    BY <1>7 DEF ReportsLieBelow, InProgress
  <2>1. \A a \in Sessions : Descendants(a) \subseteq Descendants(a)'
    BY DescendantsStay
  <2>2. CASE current'[s] = current[s] /\ during'[s] = during[s] /\ (s = c => IsChild(c))
    <3>1. InProgress(r) /\ r \notin passed /\ s \in Subtree(session[r])
      BY <2>2 DEF ReportsLieBelow
    <3>2. session[r] \in Sessions
      BY <3>1 DEF RestoresAreExact, InProgress
    <3>3. CASE s \in Descendants(session[r])
      BY <3>1, <3>2, <3>3, <2>1, <1>7 DEF Subtree
    <3>4. CASE s = session[r] /\ ~IsChild(s)
      BY <3>1, <3>4, <2>2, <1>5, <1>7 DEF Subtree
    <3> QED
      BY <3>1, <3>3, <3>4 DEF Subtree
  <2>3. CASE s = c /\ during'[c] = restores[Root(p)]
    <3>1. PICK a \in Sessions : a = Root(p)
      BY RootExists
    <3>2. InProgress(r) /\ r \notin passed /\ session[r] = a /\ p \in Subtree(a)
      BY <2>3, <3>1, RootAttempt
    <3>3. Above(a, p) /\ ~IsChild(a)
      BY <3>1, RootExists
    <3>4. c # a /\ c \in children'[p]
      BY <3>3 DEF Announce, Refused, TypeOK
    <3>5. c \in Descendants(a)'
      <4> SUFFICES ASSUME NEW S \in SUBSET Sessions, a \in S,
                          \A q \in S : children'[q] \subseteq S
                   PROVE  c \in S
        BY <3>4 DEF Descendants, Downward
      <4>1. Downward(S)
        BY DEF Downward, Announce, TypeOK
      <4>2. p \in S
        BY <3>2, <4>1 DEF Subtree, Descendants
      <4> QED
        BY <3>4, <4>2
    <3>6. c \in Subtree(a)'
      BY <3>5 DEF Subtree
    <3> QED
      BY <3>2, <3>6, <2>3, <1>7
  <2> QED
    BY <2>2, <2>3, <1>4, <1>6
<1> QED
  BY <1>1, <1>2, <1>10, <1>11, <1>12

LEMMA ReportStateHolds ==
  ASSUME IInv, NEW s \in Sessions, ReportState(s)
  PROVE  IInv'
<1> USE DEF IInv
<1>1. PICK source \in Sources(s) :
        IF Historical(s) THEN UNCHANGED <<current, during>>
        ELSE Report(s, source, restores[Root(s)])
  BY DEF ReportState
<1>2. UNCHANGED <<parent, children, restores, call, session, replay, answered, inFlight,
                  passed>>
  BY DEF ReportState, treeVars, attemptVars
<1>3. Acyclic' /\ Indexed' /\ RestoresAreExact'
  BY <1>2 DEF Acyclic, Indexed, RestoresAreExact, IsChild, InProgress
<1>4. CASE Historical(s)
  BY <1>1, <1>2, <1>3, <1>4 DEF TypeOK, HistoryIsHidden, ReportsLieBelow,
     BegunIsNamed, IsChild, InProgress, Subtree, Descendants, Downward
<1>5. CASE ~Historical(s)
  <2>1. /\ current' = [current EXCEPT ![s] = source]
        /\ during' = [during EXCEPT ![s] = restores[Root(s)]]
    BY <1>1, <1>5 DEF Report
  <2>2. restores[Root(s)] \in Attempts \cup {None}
    BY RootExists DEF TypeOK
  <2>3. source \in Attempts \cup {Live}
    BY DEF Sources, TypeOK
  <2>4. TypeOK'
    BY <1>2, <2>1, <2>2, <2>3 DEF TypeOK
  <2>5. source \in Attempts =>
          call[source] # "idle" /\ (source \in passed \/ IsChild(session[source]))
    BY <1>5, ReplayIsSeen, NoneAssumption DEF Sources, RestoresAreExact
  <2>6. HistoryIsHidden' /\ BegunIsNamed'
    BY <1>2, <2>1, <2>5 DEF HistoryIsHidden, BegunIsNamed, TypeOK, IsChild
  <2>7. \A r \in Attempts : restores[Root(s)] = r =>
          InProgress(r) /\ r \notin passed /\ s \in Subtree(session[r])
    BY RootAttempt
  <2>8. \A r \in Attempts : Subtree(session[r]) = Subtree(session[r])'
    BY <1>2 DEF Subtree, Descendants, Downward, IsChild
  <2>9. ReportsLieBelow'
    BY <1>2, <2>1, <2>7, <2>8 DEF ReportsLieBelow, InProgress, TypeOK
  <2> QED
    BY <1>3, <2>4, <2>6, <2>9
<1> QED
  BY <1>4, <1>5

\* What invalidating leaves alone, it leaves as it was.
LEMMA InvalidateOnlyClears ==
  ASSUME TypeOK, NEW S, Invalidate(S)
  PROVE  /\ current' \in [Sessions -> Attempts \cup {Live, None}]
         /\ \A s \in Sessions : current'[s] # None => current'[s] = current[s] /\ s \notin S
BY DEF Invalidate, TypeOK

LEMMA SettledHolds ==
  ASSUME IInv, NEW r \in Attempts, Settled(r)
  PROVE  IInv'
<1> USE DEF IInv
<1>1. /\ UNCHANGED <<parent, children, current, restores, call, session, replay, passed, during>>
      /\ inFlight' = inFlight \ {r} /\ answered' \in {answered, answered \cup {r}}
      /\ r \in inFlight
  BY DEF Settled, treeVars
<1>2. TypeOK'
  BY <1>1 DEF TypeOK, Settled
<1>3. \A q \in Attempts : (InProgress(q) <=> InProgress(q)')
                        /\ (call[q] = "ok" <=> call'[q] = "ok")
                        /\ (call[q] = "idle" <=> call'[q] = "idle")
  BY <1>1 DEF InProgress
<1>4. \A q \in Attempts : q \in inFlight' \/ call[q] = "idle" => q \notin answered'
  BY <1>1 DEF RestoresAreExact
<1>5. RestoresAreExact'
  BY <1>1, <1>3, <1>4 DEF RestoresAreExact
<1>6. Acyclic' /\ Indexed' /\ HistoryIsHidden'
  BY <1>1 DEF Acyclic, Indexed, HistoryIsHidden, IsChild
<1>7. \A q \in Attempts : Subtree(session[q]) = Subtree(session[q])'
  BY <1>1 DEF Subtree, Descendants, Downward, IsChild
<1>8. ReportsLieBelow' /\ BegunIsNamed'
  BY <1>1, <1>3, <1>7 DEF ReportsLieBelow, BegunIsNamed
<1> QED
  BY <1>2, <1>5, <1>6, <1>8

LEMMA BeginRestoreHolds ==
  ASSUME IInv, NEW r \in Attempts, NEW s \in Sessions, BeginRestore(r, s)
  PROVE  IInv'
<1> USE DEF IInv
<1>1. UNCHANGED <<parent, children, answered, during>>
  BY DEF BeginRestore, treeVars
<1>2. /\ call[r] = "idle" /\ call' = [call EXCEPT ![r] = "running"]
      /\ inFlight' = inFlight \cup {r}
      /\ session' = [session EXCEPT ![r] = s]
      /\ restores' = [restores EXCEPT ![s] = r]
      /\ passed' = passed \cup ({restores[s]} \ {None})
      /\ ~IsChild(s)
  BY DEF BeginRestore
<1>3. \A x \in Sessions : current'[x] # None =>
        current'[x] = current[x] /\ x \notin Subtree(s)
  BY InvalidateOnlyClears DEF BeginRestore
<1>4. TypeOK'
  BY <1>1, <1>2, InvalidateOnlyClears DEF BeginRestore, TypeOK
<1>5. r \notin passed /\ \A x \in Sessions : restores[x] # r
  <2>1. \A x \in Sessions : restores[x] # r
    BY <1>2 DEF RestoresAreExact, InProgress
  <2> QED
    BY <2>1, <1>2 DEF RestoresAreExact
<1>6. RestoresAreExact'
  <2>1. /\ call'[r] = "running" /\ session'[r] = s /\ restores'[s] = r /\ r \notin passed'
        /\ \A q \in Attempts \ {r} : call'[q] = call[q] /\ session'[q] = session[q]
        /\ \A x \in Sessions \ {s} : restores'[x] = restores[x]
    BY <1>2, <1>5 DEF TypeOK
  <2>2. ASSUME NEW x \in Sessions, NEW q \in Attempts, restores'[x] = q
        PROVE  InProgress(q)' /\ session'[q] = x /\ q \notin passed'
    <3>1. CASE x = s
      BY <3>1, <2>1, <2>2 DEF InProgress
    <3>2. CASE x # s
      <4>1. restores[x] = q /\ q # r
        BY <3>2, <2>1, <2>2, <1>5
      <4>2. restores[s] # q
        BY <4>1, <3>2 DEF RestoresAreExact
      <4> QED
        BY <4>1, <4>2, <2>1, <1>2 DEF RestoresAreExact, InProgress
    <3> QED
      BY <3>1, <3>2
  <2>3. ASSUME NEW q \in Attempts, InProgress(q)', q \notin passed'
        PROVE  restores'[session'[q]] = q
    <3>1. CASE q = r
      BY <3>1, <2>1
    <3>2. CASE q # r
      <4>1. InProgress(q) /\ q \notin passed /\ restores[s] # q
        BY <3>2, <2>1, <2>3, <1>2, NoneAssumption DEF InProgress
      <4>2. restores[session[q]] = q /\ session[q] \in Sessions /\ session[q] # s
        BY <4>1 DEF RestoresAreExact, InProgress
      <4> QED
        BY <3>2, <4>2, <2>1
    <3> QED
      BY <3>1, <3>2
  <2>4. ASSUME NEW q \in Attempts
        PROVE  /\ call'[q] # "idle" => session'[q] \in Sessions
               /\ q \in inFlight' => call'[q] # "idle" /\ q \notin answered'
               /\ q \in inFlight' /\ q \notin passed' => InProgress(q)'
               /\ call'[q] = "idle" => q \notin passed' /\ q \notin answered'
    <3>1. call'[q] = "idle" => q # r /\ call[q] = "idle"
      BY <2>1
    <3>2. call[q] = "idle" => restores[s] # q
      BY DEF RestoresAreExact, InProgress
    <3> QED
      BY <3>1, <3>2, <2>1, <1>1, <1>2, NoneAssumption DEF RestoresAreExact, InProgress
  <2> QED
    BY <2>2, <2>3, <2>4 DEF RestoresAreExact
<1>7. Acyclic' /\ Indexed'
  BY <1>1 DEF Acyclic, Indexed, IsChild
<1>9. HistoryIsHidden' /\ BegunIsNamed'
  <2> SUFFICES ASSUME NEW x \in Sessions, current'[x] \in Attempts
               PROVE  /\ call'[current'[x]] # "idle"
                      /\ \/ current'[x] \in passed'
                         \/ parent'[session'[current'[x]]] # None
    BY DEF HistoryIsHidden, BegunIsNamed, IsChild
  <2>1. PICK q \in Attempts : q = current'[x]
    OBVIOUS
  <2>2. current[x] = q
    BY <2>1, <1>3, NoneAssumption
  <2>3. call[q] # "idle" /\ (q \in passed \/ parent[session[q]] # None)
    BY <2>2 DEF HistoryIsHidden, BegunIsNamed, IsChild
  <2>4. q # r /\ session'[q] = session[q] /\ call'[q] = call[q]
    BY <2>3, <1>2 DEF TypeOK
  <2> QED
    BY <2>1, <2>3, <2>4, <1>1, <1>2
<1>10. ReportsLieBelow'
  <2> SUFFICES ASSUME NEW x \in Sessions, NEW q \in Attempts,
                      current'[x] # None, during'[x] = q, call'[q] # "ok"
               PROVE  InProgress(q)' /\ q \notin passed' /\ x \in Subtree(session[q])'
    BY DEF ReportsLieBelow
  <2>1. current[x] # None /\ during[x] = q /\ x \notin Subtree(s)
    BY <1>1, <1>3
  <2>2. q # r /\ call'[q] = call[q]
    BY <1>2, <2>1 DEF ReportsLieBelow, InProgress, TypeOK
  <2>3. InProgress(q) /\ q \notin passed /\ x \in Subtree(session[q])
    BY <2>1, <2>2 DEF ReportsLieBelow
  <2>4. restores[s] # q
    BY <2>1, <2>3 DEF RestoresAreExact
  <2>5. session'[q] = session[q]
    BY <1>2, <2>2 DEF TypeOK
  <2>6. PICK a : a = session[q]
    OBVIOUS
  <2>7. Subtree(a)' = Subtree(a)
    BY <1>1 DEF Subtree, Descendants, Downward, IsChild
  <2> QED
    BY <1>2, <2>2, <2>3, <2>4, <2>5, <2>6, <2>7 DEF InProgress
<1> QED
  BY <1>4, <1>6, <1>7, <1>9, <1>10

\* Clearing what some sessions report, with the tree and the calls' sessions
\* as they are, keeps what the invariant says of reports.
LEMMA ClearingHolds ==
  ASSUME IInv, NEW S, Invalidate(S),
         UNCHANGED <<parent, children>>
  PROVE  /\ Acyclic' /\ Indexed'
         /\ \A a : Subtree(a)' = Subtree(a)
         /\ \A s \in Sessions : current'[s] # None =>
              current'[s] = current[s] /\ s \notin S
BY InvalidateOnlyClears DEF IInv, Acyclic, Indexed, IsChild, Subtree, Descendants, Downward

LEMMA EndRestoreHolds ==
  ASSUME IInv, NEW r \in Attempts, EndRestore(r)
  PROVE  IInv'
<1> USE DEF IInv
<1>1. PICK outcome \in {"ok", "failed"} :
        /\ call' = [call EXCEPT ![r] = outcome]
        /\ Invalidate(IF Owns(r) /\ outcome = "failed" THEN Leavings(r) ELSE {})
  BY DEF EndRestore
<1> DEFINE S == IF Owns(r) /\ outcome = "failed" THEN Leavings(r) ELSE {}
<1>2. /\ InProgress(r)
      /\ restores' = IF Owns(r) THEN [restores EXCEPT ![session[r]] = None] ELSE restores
      /\ passed' = passed \cup ({r} \cap inFlight)
      /\ UNCHANGED <<parent, children, session, replay, answered, inFlight, during>>
  BY DEF EndRestore, treeVars
<1>3. session[r] \in Sessions
  BY <1>2 DEF RestoresAreExact, InProgress
<1>4. /\ Acyclic' /\ Indexed'
      /\ \A a : Subtree(a)' = Subtree(a)
      /\ \A s \in Sessions : current'[s] # None => current'[s] = current[s] /\ s \notin S
  BY <1>1, <1>2, ClearingHolds
<1>5. TypeOK'
  BY <1>1, <1>2, <1>3, InvalidateOnlyClears DEF TypeOK
<1>6. \A q \in Attempts : q # r => call'[q] = call[q]
  BY <1>1 DEF TypeOK
<1>7. call'[r] = outcome /\ call[r] = "running"
  BY <1>1, <1>2 DEF TypeOK, InProgress
<1>8. RestoresAreExact'
  <2>1. ASSUME NEW s \in Sessions, NEW q \in Attempts, restores'[s] = q
        PROVE  InProgress(q)' /\ session'[q] = s /\ q \notin passed'
    <3>1. restores[s] = q
      BY <2>1, <1>2, <1>3, NoneAssumption DEF TypeOK
    <3>2. q # r
      BY <2>1, <3>1, <1>2, <1>3, NoneAssumption DEF Owns, RestoresAreExact, TypeOK
    <3> QED
      BY <3>1, <3>2, <1>2, <1>6 DEF RestoresAreExact, InProgress
  <2>2. ASSUME NEW q \in Attempts, InProgress(q)', q \notin passed'
        PROVE  restores'[session'[q]] = q
    <3>1. q # r
      BY <2>2, <1>7 DEF InProgress
    <3>2. restores[session[q]] = q /\ session[q] \in Sessions
      BY <3>1, <2>2, <1>2, <1>6 DEF RestoresAreExact, InProgress
    <3> QED
      BY <3>1, <3>2, <1>2 DEF Owns, TypeOK
  <2>3. \A q \in Attempts :
          /\ call'[q] # "idle" => session'[q] \in Sessions
          /\ q \in inFlight' => call'[q] # "idle" /\ q \notin answered'
          /\ q \in inFlight' /\ q \notin passed' => InProgress(q)'
          /\ call'[q] = "idle" => q \notin passed' /\ q \notin answered'
    BY <1>2, <1>3, <1>6, <1>7 DEF RestoresAreExact, InProgress
  <2> QED
    BY <2>1, <2>2, <2>3 DEF RestoresAreExact
<1>9. HistoryIsHidden'
  <2> SUFFICES ASSUME NEW s \in Sessions, current'[s] \in Attempts
               PROVE  current'[s] \in passed' \/ parent'[session'[current'[s]]] # None
    BY DEF HistoryIsHidden, IsChild
  <2>1. current'[s] = current[s]
    BY <1>4, NoneAssumption
  <2> QED
    BY <2>1, <1>2 DEF HistoryIsHidden, IsChild
<1>10. BegunIsNamed'
  BY <1>4, <1>6, <1>7, NoneAssumption DEF BegunIsNamed
<1>11. ReportsLieBelow'
  <2> SUFFICES ASSUME NEW s \in Sessions, NEW q \in Attempts,
                      current'[s] # None, during'[s] = q, call'[q] # "ok"
               PROVE  InProgress(q)' /\ q \notin passed' /\ s \in Subtree(session[q])'
    BY DEF ReportsLieBelow
  <2>1. current[s] # None /\ during[s] = q /\ s \notin S
    BY <1>2, <1>4
  <2>2. InProgress(q) /\ q \notin passed /\ s \in Subtree(session[q])
    BY <2>1, <1>2, <1>6, <1>7 DEF ReportsLieBelow
  <2>3. q # r
    BY <2>1, <2>2, <1>7 DEF RestoresAreExact, Owns, Leavings
  <2> QED
    BY <2>2, <2>3, <1>2, <1>4, <1>6 DEF InProgress
<1> QED
  BY <1>4, <1>5, <1>8, <1>9, <1>10, <1>11

LEMMA ClosedHolds ==
  ASSUME IInv, NEW s \in Sessions, Closed(s)
  PROVE  IInv'
<1> USE DEF IInv
<1>1. UNCHANGED <<parent, children, restores, call, session, replay, answered,
                  inFlight, passed, during>>
  BY DEF Closed, treeVars, attemptVars
<1>2. /\ Acyclic' /\ Indexed'
      /\ \A a : Subtree(a)' = Subtree(a)
      /\ \A x \in Sessions : current'[x] # None => current'[x] = current[x]
  BY <1>1, ClearingHolds DEF Closed
<1>3. TypeOK'
  BY <1>1, InvalidateOnlyClears DEF TypeOK, Closed
<1>4. RestoresAreExact'
  BY <1>1 DEF RestoresAreExact, InProgress
<1>5. HistoryIsHidden' /\ BegunIsNamed'
  BY <1>1, <1>2, NoneAssumption DEF HistoryIsHidden, BegunIsNamed, IsChild
<1>6. ReportsLieBelow'
  BY <1>1, <1>2 DEF ReportsLieBelow, InProgress
<1> QED
  BY <1>2, <1>3, <1>4, <1>5, <1>6

LEMMA DisconnectedHolds ==
  ASSUME IInv, Disconnected
  PROVE  IInv'
<1> USE DEF IInv
<1>1. UNCHANGED <<parent, children, call, session, replay, answered, during>>
  BY DEF Disconnected, treeVars
<1>2. Acyclic' /\ Indexed' /\ \A x \in Sessions : current'[x] = None
  BY <1>1, ClearingHolds, NoneAssumption DEF Disconnected
<1>3. TypeOK'
  BY <1>1, InvalidateOnlyClears DEF TypeOK, Disconnected
<1>4. RestoresAreExact'
  <2>1. \A s \in Sessions : restores'[s] \notin Attempts
    BY NoneAssumption DEF Disconnected
  <2>2. \A q \in Attempts :
          /\ InProgress(q)' => q \in passed'
          /\ call'[q] # "idle" => session'[q] \in Sessions
          /\ q \notin inFlight'
          /\ call'[q] = "idle" => q \notin passed' /\ q \notin answered'
    BY <1>1 DEF Disconnected, RestoresAreExact, InProgress, TypeOK
  <2> QED
    BY <2>1, <2>2 DEF RestoresAreExact
<1>5. HistoryIsHidden' /\ BegunIsNamed' /\ ReportsLieBelow'
  BY <1>2, NoneAssumption DEF HistoryIsHidden, BegunIsNamed, ReportsLieBelow
<1> QED
  BY <1>2, <1>3, <1>4, <1>5

LEMMA StepHolds == IInv /\ [Next]_vars => IInv'
<1> SUFFICES ASSUME IInv, [Next]_vars PROVE IInv'
  OBVIOUS
<1>1. CASE UNCHANGED vars
  BY <1>1 DEF vars, treeVars, attemptVars, IInv, TypeOK, Acyclic, Indexed,
     RestoresAreExact, HistoryIsHidden, ReportsLieBelow, BegunIsNamed, IsChild,
     InProgress, Subtree, Descendants, Downward
<1>2. CASE \E p, c \in Sessions : Announce(p, c)
  BY <1>2, AnnounceHolds
<1>3. CASE \E s \in Sessions : ReportState(s) \/ Closed(s)
  BY <1>3, ReportStateHolds, ClosedHolds
<1>4. CASE \E r \in Attempts :
             Settled(r) \/ EndRestore(r) \/ \E s \in Sessions : BeginRestore(r, s)
  BY <1>4, SettledHolds, EndRestoreHolds, BeginRestoreHolds
<1>5. CASE Disconnected
  BY <1>5, DisconnectedHolds
<1> QED
  BY <1>1, <1>2, <1>3, <1>4, <1>5 DEF Next

(***************************************************************************)
(* Theorems.                                                               *)
(***************************************************************************)
\* The strengthening of the properties below is an invariant.
THEOREM Inductive == Spec => []IInv
BY InitHolds, StepHolds, PTL DEF Spec

\* Every variable has its type, for every set of sessions and of attempts.
THEOREM TypeCorrect == Spec => []TypeOK
<1>1. IInv => TypeOK
  BY DEF IInv
<1> QED
  BY <1>1, Inductive, PTL

\* The children always form a forest, whatever associations arrive: the walks
\* of root, historical and Directories end.
THEOREM ChildrenFormAForest == Spec => []Forest
<1>1. IInv => Forest
  BY ForestParts DEF IInv
<1> QED
  BY <1>1, Inductive, PTL

\* No child can be cancelled while the latest attempt on its root runs.
THEOREM NoControlWhileRestoring == Spec => []ControlsWait
<1>1. IInv => ControlsWait
  <2> SUFFICES ASSUME IInv, NEW c \in Sessions, NEW r \in Attempts,
                      CanCancel(c), InProgress(r), session[r] = Root(c),
                      r \notin passed
               PROVE  FALSE
    BY DEF ControlsWait
  <2> QED
    BY NoneAssumption DEF IInv, RestoresAreExact, CanCancel
<1> QED
  BY <1>1, Inductive, PTL

\* A replay is history to the tree for as long as its attempt is followed: while
\* no later attempt replaced it, `send' waits for the response or had it, and the
\* session it restores is no child (historical, Restore).
THEOREM HistoryStaysHidden == Spec => []HistoryIsHidden
<1>1. IInv => HistoryIsHidden
  BY DEF IInv
<1> QED
  BY <1>1, Inductive, PTL

\* Nothing received during an attempt that failed is current.
THEOREM FailureLeavesNothing == Spec => []FailureErases
<1>1. IInv => FailureErases
  BY DEF IInv, TypeOK, ReportsLieBelow, FailureErases, InProgress
<1> QED
  BY <1>1, Inductive, PTL
===============================================================================
