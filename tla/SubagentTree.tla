---------------------------- MODULE SubagentTree ----------------------------
(***************************************************************************)
(* The client's tree of subagent sessions (unstable/subagent_tree.go, and  *)
(* v2/unstable/subagent_tree.go, which this follows as it also takes a     *)
(* session's own state_update): associations and state reports arrive on   *)
(* the connection's read loop, while other goroutines restore a session,   *)
(* close one, or report the connection lost.  Every action is one critical *)
(* section of SubagentTree.mu.                                             *)
(*                                                                         *)
(* What a session currently reports is one value here, that stands for the *)
(* effective capabilities and the confirmed state of a child and for the   *)
(* state of an ordinary session: it is `None', or it says where the report *)
(* came from, `Live' or the attempt whose replay it was part of.           *)
(***************************************************************************)
EXTENDS Naturals, FiniteSets

CONSTANTS
  Sessions,   \* session ids
  Attempts,   \* the calls of Restore
  Live,       \* where a report of what is current comes from
  None

ASSUME NoneAssumption ==
  None \notin Sessions \cup Attempts \cup {Live} /\ Live \notin Attempts

VARIABLES
  parent,     \* nodes[c].parent; None for a session that is no child
  children,   \* the index of parent
  current,    \* nodes[c].capabilities and .state, or states[s]
  restores,   \* the latest attempt in progress, by session
  call,       \* each call of Restore: "idle", "running" while `send' runs, and
              \* "ok" or "failed" once it returned
  session,    \* the session it restores
  replay,     \* the calls that ask for a replay
  answered,   \* attempts whose first response was a success
  inFlight,   \* attempts whose request the agent has not answered
  passed,     \* attempts that a later one replaced, that were lost with the
              \* connection or given up before the response (history)
  during      \* the attempt in progress as `current' was reported (history)

treeVars == <<parent, children>>
attemptVars == <<call, session, replay, answered, inFlight>>
vars == <<treeVars, current, restores, attemptVars, passed, during>>

Init ==
  /\ parent = [s \in Sessions |-> None]
  /\ children = [s \in Sessions |-> {}]
  /\ current = [s \in Sessions |-> None]
  /\ restores = [s \in Sessions |-> None]
  /\ call = [r \in Attempts |-> "idle"]
  /\ session = [r \in Attempts |-> None]
  /\ replay = {} /\ answered = {} /\ inFlight = {} /\ passed = {}
  /\ during = [s \in Sessions |-> None]

(***************************************************************************)
(* The tree.                                                               *)
(***************************************************************************)
IsChild(s) == parent[s] # None

\* The sets a walk up, or down, the tree does not leave.
Upward(S) == \A c \in S : IsChild(c) => parent[c] \in S
Downward(S) == \A p \in S : children[p] \subseteq S

\* The walk from s to the top of its chain passes a.
Above(a, s) == \A S \in SUBSET Sessions : s \in S /\ Upward(S) => a \in S

Root(s) == CHOOSE a \in Sessions : Above(a, s) /\ ~IsChild(a)

Descendants(s) ==
  {c \in Sessions \ {s} :
     \A S \in SUBSET Sessions : s \in S /\ Downward(S) => c \in S}

InProgress(r) == call[r] = "running"

\* Mutant: an update's own session is looked up, not its root.
Historical_Own(s) ==
  \E r \in Attempts :
    restores[s] = r /\ r \in replay /\ r \notin answered

\* Updates received on s are replayed history, as far as the tree knows.
Historical(s) ==
  \E r \in Attempts :
    restores[Root(s)] = r /\ r \in replay /\ r \notin answered

(***************************************************************************)
(* The read loop.                                                          *)
(***************************************************************************)
\* Whom the agent reports from: what is current, or a replay, which comes
\* between the request and its response, whether `send' still waits or not.
Sources(s) ==
  {Live} \cup {r \in replay \cap inFlight :
                 s \in {session[r]} \cup Descendants(session[r])}

Report(s, value, attempt) ==
  /\ current' = [current EXCEPT ![s] = value]
  /\ during' = [during EXCEPT ![s] = attempt]

\* Mutant: only a session that would be its own parent is refused.
Refused_Self(p, c) == c = p \/ (IsChild(c) /\ parent[c] # p)

Refused(p, c) == c = p \/ (IsChild(c) /\ parent[c] # p) \/ (~IsChild(c) /\ Above(c, p))

\* subagent_update on p about c.  One that is refused applies nothing; the
\* patch may leave out, clear or replace what is current.
Announce(p, c) ==
  /\ ~Refused(p, c)
  /\ parent' = [parent EXCEPT ![c] = p]
  /\ children' = [children EXCEPT ![p] = @ \cup {c}]
  /\ \E source \in Sources(p), patch \in {"omitted", "null", "value"} :
       IF patch = "omitted" \/ Historical(p)
       THEN Report(c, IF IsChild(c) THEN current[c] ELSE None, during[c])
       ELSE Report(c, IF patch = "null" THEN None ELSE source, restores[Root(p)])
  /\ UNCHANGED <<restores, attemptVars, passed>>

\* state_update on s, a child or not.
ReportState(s) ==
  /\ \E source \in Sources(s) :
       IF Historical(s) THEN UNCHANGED <<current, during>>
       ELSE Report(s, source, restores[Root(s)])
  /\ UNCHANGED <<treeVars, restores, attemptVars, passed>>

\* The first response of the kind that marks the boundary; an error is one.
\* It also settles an attempt that was replaced or given up, which changes
\* nothing else.
Settled(r) ==
  /\ r \in inFlight
  /\ inFlight' = inFlight \ {r}
  /\ answered' \in {answered, answered \cup {r}}
  /\ UNCHANGED <<treeVars, current, restores, call, session, replay, passed, during>>

(***************************************************************************)
(* The client's goroutines.                                                *)
(***************************************************************************)
Invalidate(S) == current' = [s \in Sessions |-> IF s \in S THEN None ELSE current[s]]

\* The state of an ordinary session goes with its descendants'.
Subtree(s) == Descendants(s) \cup (IF IsChild(s) THEN {} ELSE {s})

\* A child is refused, which changes nothing.
BeginRestore(r, s) ==
  /\ call[r] = "idle" /\ ~IsChild(s)
  /\ call' = [call EXCEPT ![r] = "running"]
  /\ inFlight' = inFlight \cup {r}
  /\ session' = [session EXCEPT ![r] = s]
  /\ replay' \in {replay, replay \cup {r}}
  /\ passed' = passed \cup ({restores[s]} \ {None})
  /\ restores' = [restores EXCEPT ![s] = r]
  /\ Invalidate(Subtree(s))
  /\ UNCHANGED <<treeVars, answered, during>>

\* Mutant: whoever returns ends the attempt in progress.
Owns_Any(r) == restores[session[r]] # None

Owns(r) == restores[session[r]] = r

\* Mutant: only what the restored session itself announced goes.
Leavings_Children(r) == children[session[r]]

Leavings(r) == Subtree(session[r])

\* `send' may fail after its response, or return without one (its context
\* ended), or even make nothing of an error response.  A request it gives up
\* is answered all the same.
EndRestore(r) ==
  /\ InProgress(r)
  /\ \E outcome \in {"ok", "failed"} :
       /\ call' = [call EXCEPT ![r] = outcome]
       /\ Invalidate(IF Owns(r) /\ outcome = "failed" THEN Leavings(r) ELSE {})
  /\ restores' = IF Owns(r) THEN [restores EXCEPT ![session[r]] = None]
                 ELSE restores
  /\ passed' = passed \cup ({r} \cap inFlight)
  /\ UNCHANGED <<treeVars, session, replay, answered, inFlight, during>>

Closed(s) ==
  /\ Invalidate(Descendants(s))
  /\ UNCHANGED <<treeVars, restores, attemptVars, passed, during>>

\* The requests in flight are lost with the connection: no response and no
\* replay of theirs arrives any more, and `send' fails.
Disconnected ==
  /\ Invalidate(Sessions)
  /\ restores' = [s \in Sessions |-> None]
  /\ inFlight' = {}
  /\ passed' = passed \cup {r \in Attempts : InProgress(r)}
  /\ UNCHANGED <<treeVars, call, session, replay, answered, during>>

Next ==
  \/ \E p, c \in Sessions : Announce(p, c)
  \/ \E s \in Sessions : ReportState(s) \/ Closed(s)
  \/ \E r \in Attempts :
       Settled(r) \/ EndRestore(r) \/ \E s \in Sessions : BeginRestore(r, s)
  \/ Disconnected

Spec == Init /\ [][Next]_vars

(***************************************************************************)
(* Properties.                                                             *)
(***************************************************************************)
TypeOK ==
  /\ parent \in [Sessions -> Sessions \cup {None}]
  /\ children \in [Sessions -> SUBSET Sessions]
  /\ current \in [Sessions -> Attempts \cup {Live, None}]
  /\ restores \in [Sessions -> Attempts \cup {None}]
  /\ call \in [Attempts -> {"idle", "running", "ok", "failed"}]
  /\ session \in [Attempts -> Sessions \cup {None}]
  /\ replay \subseteq Attempts /\ answered \subseteq Attempts
  /\ inFlight \subseteq Attempts /\ passed \subseteq Attempts
  /\ during \in [Sessions -> Attempts \cup {None}]

\* Whatever order associations arrive in, and whoever they name, the children
\* form a forest: no set of children is closed under parents, so every walk
\* up ends, and the index down holds the same edges.
Forest ==
  /\ \A S \in SUBSET {c \in Sessions : IsChild(c)} :
       S # {} => \E c \in S : parent[c] \notin S
  /\ \A p \in Sessions : children[p] = {c \in Sessions : parent[c] = p}

\* A client may cancel a child (Subagent.CanCancel) only while no restore of
\* its root is in progress, also when attempts overlap and end in any order;
\* a replaced attempt does not count.
CanCancel(c) == IsChild(c) /\ current[c] # None /\ restores[Root(c)] = None

ControlsWait ==
  \A c \in Sessions, r \in Attempts :
    CanCancel(c) /\ InProgress(r) /\ session[r] = Root(c) => r \in passed

\* Replayed history never becomes current while its attempt is followed: not
\* unless a later attempt replaced it, the session it restores was announced as
\* a child meanwhile, or `send' returned before the response: Restore then forgets
\* the attempt, and applies what is left of its replay as current.
HistoryIsHidden ==
  \A s \in Sessions :
    current[s] \in Attempts =>
      current[s] \in passed \/ IsChild(session[current[s]])

\* Nothing received during an attempt that failed stays current (Restore's
\* comment), wherever in the subtree, and however deep, it was announced.
FailureErases ==
  \A s \in Sessions :
    current[s] # None /\ during[s] # None => call[during[s]] # "failed"
===============================================================================
