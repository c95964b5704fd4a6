---------------------------- MODULE HttpStreamsProofs ----------------------------
(***************************************************************************)
(* What holds of a connection of the HTTP server for any number of         *)
(* sessions, requests and GETs, any limit on unconfirmed streams, and      *)
(* however much the agent writes.  IInv is inductive.  The client of this  *)
(* library is one of the clients it is about (ClientConnects).             *)
(***************************************************************************)
EXTENDS HttpExchange, FiniteSetTheorems, TLAPS

(***************************************************************************)
(* The invariant, in parts.                                                *)
(***************************************************************************)
\* The types, and what the router needs of a line it handles: it is a frame,
\* and a request it routes an answer to names a session.
TypeInv ==
  /\ TypeOK
  /\ router = "route" => routed \in Frames
  /\ \A r \in routes : req[r].session \in Sessions

\* Who ends a connection unregisters it first; the router has read its last
\* line by then, and the initialize POST has ended; one that fails does so later.
EndInv ==
  /\ \A e \in Enders : ender[e] # "none" => ~registered
  /\ closed <=> endedBy # "none"
  /\ closed => ender[endedBy] \in {"close", "over"}
  /\ ender["router"] # "none" => router = "over"
  /\ ender["post"] # "none" => initPost \notin {"waiting", "answered"}
  /\ initPost \notin {"waiting", "answered"} => ~registered
  /\ initPost = "failed" => closed /\ (endedBy = "router" => handed = None)

\* The agent's reader has a wakeup, or gets one.
ReaderInv ==
  reader = "wait" /\ (inbox # <<>> \/ agentGone) =>
    \/ inSignal \/ closed \/ agent = "closing"
    \/ \E r \in Reqs : post[r] = "signal"

\* Mailboxes are made one after the other and never again; a session's is its
\* own and was not removed; a subscriber's is the connection stream or its
\* session's; and what is leased is what GETs stream.
BoxInv ==
  /\ \A s \in Sessions : sessions[s] <= boxes /\ sessions[s] \notin gone
  /\ \A s, t \in Sessions : sessions[s] # 0 /\ sessions[s] = sessions[t] => s = t
  /\ gone \subseteq 1..boxes
  /\ \A g \in Gets : gpc[g] \in Streaming =>
       /\ gbox[g] <= boxes /\ gbox[g] \in leased
       /\ gfor[g] \in Sessions <=> gbox[g] # 0
  /\ \A b \in leased : \E g \in Gets : gpc[g] \in Streaming /\ gbox[g] = b
HeldInv == BoxInv /\ StreamsAreHeld /\ IsFiniteSet(Unconfirmed)

\* A GET's wakeup is kept as long as it waits alone for it.
WakeInv ==
  \A g \in Gets : gpc[g] = "wait" /\ queue[gbox[g]] # <<>> =>
    gbox[g] \in signal \/ closed

\* Of the lines the agent wrote one at most is routed after the end, and none
\* if the router ended the connection.
Late == IF router = "route" THEN 1 ELSE 0
FinalInv ==
  /\ complete \subseteq final
  /\ \A g \in final : closed
  /\ \A g \in complete :
       /\ gpc[g] \in {"release", "over"}
       /\ Len(queue[gbox[g]]) + Late <= IF endedBy = "router" THEN 0 ELSE 1

IInv == TypeInv /\ EndInv /\ ReaderInv /\ HeldInv /\ WakeInv /\ FinalInv

(***************************************************************************)
(* Types.                                                                  *)
(***************************************************************************)
LEMMA FrameTypes ==
  /\ \A s \in Sessions \cup {None} : NoteFrame(s) \in Frames
  /\ \A r \in Requests, ok \in BOOLEAN : AnswerFrame(r, ok) \in Frames
  /\ BadLine \in Frames
  /\ \A f \in Frames : f.kind = "note" => f.session \in Sessions \cup {None}
BY DEF Frames, NoteFrame, AnswerFrame, BadLine

\* A frame is queued where it is sent, for any stream.
LEMMA PushTypes ==
  ASSUME TypeInv, NEW b \in Boxes, NEW f \in Frames, Push(b, f)
  PROVE  queue' \in [Boxes -> Seq(Frames)] /\ signal' \subseteq Boxes
BY DEF Push, TypeInv, TypeOK

LEMMA ConfirmTypes ==
  ASSUME TypeInv, NEW s \in Sessions, Confirm(s)
  PROVE  /\ BoxOf(s) \in Boxes /\ sessions' \in [Sessions -> Boxes]
         /\ confirmed' \subseteq Sessions /\ boxes' \in Boxes /\ gone' = gone
<1>1. boxes \in 0..MaxBoxes /\ sessions[s] \in Boxes
  BY DEF TypeInv, TypeOK, Boxes
<1>2. MaxBoxes \in Nat
  BY BoundsAssumption
<1>3. BoxOf(s) \in Boxes
  BY <1>1, <1>2 DEF Confirm, BoxOf, Boxes
<1>4. boxes' \in Boxes
  BY <1>1, <1>2 DEF Confirm, Boxes
<1> QED
  BY <1>3, <1>4 DEF Confirm, TypeInv, TypeOK

\* What a lease of a session's stream does when it succeeds.
Leases(g) ==
  LET s == gfor[g] IN
  /\ s \in Sessions
  /\ sessions[s] = 0 => ~(Cardinality(Unconfirmed) >= MaxUnconfirmed)
  /\ sessions[s] # 0 => sessions[s] \notin leased
  /\ boxes < MaxBoxes \/ sessions[s] # 0
  /\ Takes(g, BoxOf(s))
  /\ sessions' = [sessions EXCEPT ![s] = BoxOf(s)]
  /\ boxes' = IF sessions[s] = 0 THEN boxes + 1 ELSE boxes
  /\ UNCHANGED <<confirmed, gone>>

LEMMA LeaseTypes ==
  ASSUME TypeInv, NEW g \in Gets, Leases(g)
  PROVE  /\ BoxOf(gfor[g]) \in Boxes /\ sessions' \in [Sessions -> Boxes]
         /\ boxes' \in Boxes
<1>1. boxes \in 0..MaxBoxes /\ sessions[gfor[g]] \in Boxes
  BY DEF TypeInv, TypeOK, Boxes, Leases
<1>2. MaxBoxes \in Nat
  BY BoundsAssumption
<1>3. BoxOf(gfor[g]) \in Boxes
  BY <1>1, <1>2 DEF Leases, BoxOf, Boxes
<1>4. boxes' \in Boxes
  BY <1>1, <1>2 DEF Leases, Boxes
<1> QED
  BY <1>3, <1>4 DEF Leases, TypeInv, TypeOK

\* The mailboxes, as the router leaves them.
BoxesTyped ==
  /\ queue \in [Boxes -> Seq(Frames)] /\ signal \subseteq Boxes
  /\ sessions \in [Sessions -> Boxes] /\ confirmed \subseteq Sessions
  /\ boxes \in Boxes /\ gone \subseteq Boxes

\* What the router does to the streams: it queues the line on one of them, and
\* makes a session known, or forgets it, or neither.
Closes(s) ==
  /\ sessions' = [sessions EXCEPT ![s] = 0]
  /\ confirmed' = confirmed \ {s} /\ gone' = gone \cup ({sessions[s]} \ {0})
  /\ UNCHANGED boxes

LEMMA RouteCases ==
  ASSUME TypeInv, RouteLine
  PROVE  /\ \E b \in Boxes : Push(b, routed)
         /\ \/ UNCHANGED streamVars
            \/ \E s \in Sessions : Confirm(s) \/ Closes(s)
         /\ routes' \subseteq routes
<1> DEFINE Goal == /\ \E b \in Boxes : Push(b, routed)
                   /\ \/ UNCHANGED streamVars
                      \/ \E s \in Sessions : Confirm(s) \/ Closes(s)
                   /\ routes' \subseteq routes
<1>1. 0 \in Boxes /\ \A s \in Sessions : sessions[s] \in Boxes
  BY BoundsAssumption DEF TypeInv, TypeOK, Boxes
<1>2. \A s \in Sessions : Confirm(s) => BoxOf(s) \in Boxes
  BY ConfirmTypes
<1>3. CASE routed.kind = "note"
  <2>1. RouteNote(routed.session)
    BY <1>3 DEF RouteLine
  <2>2. routed.session \in Sessions \cup {None}
    BY <1>3, FrameTypes DEF TypeInv, RouteLine
  <2>3. CASE routed.session = None
    BY <1>1, <2>1, <2>3 DEF RouteNote
  <2>4. CASE routed.session # None
    <3>1. /\ routed.session \in Sessions /\ Confirm(routed.session)
          /\ Push(BoxOf(routed.session), routed) /\ UNCHANGED routes
      BY <2>1, <2>2, <2>4 DEF RouteNote
    <3> QED
      BY <1>2, <3>1
  <2> QED
    BY <2>3, <2>4
<1>4. CASE routed.kind # "note"
  <2> DEFINE r == routed.req
             ok == routed.ok
  <2>1. RouteAnswer(r, ok)
    BY <1>4 DEF RouteLine
  <2>2. CASE r \notin routes
    BY <1>1, <2>1, <2>2 DEF RouteAnswer
  <2>3. CASE r \in routes
    <3>1. req[r].session \in Sessions /\ routes' = routes \ {r}
      BY <2>1, <2>3 DEF TypeInv, RouteAnswer
    <3>2. RouteUnscoped(r, ok) \/ RouteClose(r) \/ RouteScoped(r, ok)
      BY <2>1, <2>3 DEF RouteAnswer
    <3>3. CASE RouteUnscoped(r, ok)
      BY <1>1, <3>1, <3>3 DEF RouteUnscoped
    <3>4. CASE RouteScoped(r, ok)
      BY <1>1, <3>1, <3>4 DEF RouteScoped
    <3>5. CASE RouteClose(r)
      <4>1. Closes(req[r].session)
        BY <3>5 DEF RouteClose, Closes
      <4>2. \E b \in Boxes : Push(b, routed)
        BY <1>1, <3>1, <3>5 DEF RouteClose
      <4> QED
        BY <3>1, <4>1, <4>2
    <3> QED
      BY <3>2, <3>3, <3>4, <3>5
  <2> QED
    BY <2>2, <2>3
<1> QED
  BY <1>3, <1>4

LEMMA RouteTypes ==
  ASSUME TypeInv, RouteLine PROVE BoxesTyped' /\ routes' \subseteq routes
<1>1. PICK b \in Boxes : Push(b, routed)
  BY RouteCases
<1>2. routed \in Frames
  BY DEF TypeInv, RouteLine
<1>3. queue' \in [Boxes -> Seq(Frames)] /\ signal' \subseteq Boxes
  BY <1>1, <1>2, PushTypes
<1>4. /\ sessions \in [Sessions -> Boxes] /\ confirmed \subseteq Sessions
      /\ boxes \in Boxes /\ gone \subseteq Boxes
  BY DEF TypeInv, TypeOK
<1>5. CASE UNCHANGED streamVars
  BY <1>3, <1>4, <1>5, RouteCases DEF BoxesTyped, streamVars
<1>6. ASSUME NEW s \in Sessions, Confirm(s) PROVE BoxesTyped'
  BY <1>3, <1>4, <1>6, ConfirmTypes DEF BoxesTyped
<1>7. ASSUME NEW s \in Sessions, Closes(s) PROVE BoxesTyped'
  <2>1. 0 \in Boxes
    BY BoundsAssumption DEF Boxes
  <2> QED
    BY <1>3, <1>4, <1>7, <2>1 DEF BoxesTyped, Closes
<1> QED
  BY <1>5, <1>6, <1>7, RouteCases

LEMMA LeaseCases ==
  ASSUME NEW g \in Gets, LeaseSession(g)
  PROVE  Leases(g) \/ (Refused(g) /\ UNCHANGED streamVars)
BY DEF LeaseSession, Leases

LEMMA TypeStay ==
  ASSUME TypeInv, UNCHANGED vars
  PROVE  TypeInv'
<1>1. TypeOK'
  BY DEF vars, endVars, initVars, postVars, inboxVars, agentVars, routerVars,
         streamVars, boxVars, getVars, TypeInv, TypeOK
<1>2. UNCHANGED <<router, routed, routes, req>>
  BY DEF vars, postVars, routerVars
<1> QED
  BY <1>1, <1>2 DEF TypeInv

LEMMA TypeStep == TypeInv /\ [Next]_vars => TypeInv'
<1> SUFFICES ASSUME TypeInv, [Next]_vars PROVE TypeInv'
  OBVIOUS
<1> USE BoundsAssumption, NamesAssumption
    DEF vars, endVars, initVars, postVars, inboxVars, agentVars, routerVars,
        streamVars, boxVars, getVars, Forget, PostMoves, GetMoves, Writes, Reads,
        TypeInv, TypeOK, Requests, Streaming, Enders
<1>1. ASSUME NEW e \in Enders, Finish(e) PROVE TypeInv'
  BY <1>1 DEF Finish
<1>2. ASSUME NEW e \in Enders, CloseOut(e) PROVE TypeInv'
  BY <1>2 DEF CloseOut
<1>3. CASE Delete
  <2>1. registered' \in BOOLEAN /\ ender' \in [Enders -> {"none", "finish", "close", "over"}]
    BY <1>3 DEF Delete
  <2>2. UNCHANGED <<closed, endedBy, outClosed, initVars, postVars, inboxVars, agentVars,
                    routerVars, routes, streamVars, boxVars, leased, getVars>>
    BY <1>3 DEF Delete
  <2> QED
    BY <2>1, <2>2
<1>4. CASE AnswerInitialize
  BY <1>4 DEF AnswerInitialize
<1>5. CASE DiscardConnection
  BY <1>5 DEF DiscardConnection
<1>6. ASSUME NEW r \in Reqs, NEW kind \in {"new", "load", "close"}, NEW s \in Sessions,
             Post(r, kind, s)
      PROVE  TypeInv'
  BY <1>6 DEF Post
<1>7. ASSUME NEW r \in Reqs, WriteToAgent(r) PROVE TypeInv'
  <2>1. /\ post' \in [Reqs -> {"none", "write", "signal", "accepted", "refused"}]
        /\ inbox' \in Seq(Reqs \cup {Initialize})
    <3>1. CASE closed \/ agentGone
      BY <1>7, <3>1 DEF WriteToAgent
    <3>2. CASE ~(closed \/ agentGone)
      <4>1. inbox' = Append(inbox, r) /\ post' = [post EXCEPT ![r] = "signal"]
        BY <1>7, <3>2 DEF WriteToAgent
      <4> QED
        BY <4>1
    <3> QED
      BY <3>1, <3>2
  <2>2. UNCHANGED <<endVars, initVars, req, inSignal, agentGone, agentVars, routerVars,
                    routes, streamVars, boxVars, leased, getVars>>
    BY <1>7 DEF WriteToAgent
  <2> QED
    BY <2>1, <2>2
<1>8. ASSUME NEW r \in Reqs, SignalAgent(r) PROVE TypeInv'
  BY <1>8 DEF SignalAgent
<1>9. CASE ReadInput
  <2>1. /\ reader' \in {"read", "wait", "eof"}
        /\ inbox' \in Seq(Reqs \cup {Initialize})
        /\ taken' \subseteq Reqs \cup {Initialize}
    <3>1. CASE closed \/ agentGone
      BY <1>9, <3>1 DEF ReadInput
    <3>2. CASE ~(closed \/ agentGone) /\ inbox = <<>>
      BY <1>9, <3>2 DEF ReadInput
    <3>3. CASE ~(closed \/ agentGone) /\ inbox # <<>>
      <4>1. /\ taken' = taken \cup {Head(inbox)} /\ inbox' = Tail(inbox)
            /\ reader' = reader
        BY <1>9, <3>3 DEF ReadInput
      <4>2. Head(inbox) \in Reqs \cup {Initialize}
        BY <3>3
      <4>3. Tail(inbox) \in Seq(Reqs \cup {Initialize})
        BY <3>3
      <4> QED
        BY <4>1, <4>2, <4>3
    <3> QED
      BY <3>1, <3>2, <3>3
  <2>2. UNCHANGED <<endVars, initVars, postVars, inSignal, agentGone, agent, notes, line,
                    routerVars, routes, streamVars, boxVars, leased, getVars>>
    BY <1>9 DEF ReadInput
  <2> QED
    BY <2>1, <2>2
<1>10. CASE WakeReader
  <2>1. reader' = "read" /\ inSignal' \in BOOLEAN
    BY <1>10 DEF WakeReader
  <2>2. UNCHANGED <<endVars, initVars, postVars, inbox, agentGone, agent, taken, notes,
                    line, routerVars, routes, streamVars, boxVars, leased, getVars>>
    BY <1>10 DEF WakeReader
  <2> QED
    BY <2>1, <2>2
<1>11. ASSUME NEW r \in Reqs \cup {Initialize}, NEW ok \in BOOLEAN,
             AnswersRequest(r, ok)
      PROVE  TypeInv'
  <2>1. line' \in Frames
    BY <1>11, FrameTypes DEF AnswersRequest, Requests
  <2>2. taken' \subseteq Reqs \cup {Initialize}
    BY <1>11 DEF AnswersRequest
  <2>3. UNCHANGED <<endVars, initVars, postVars, inboxVars, reader, agent, notes,
                    routerVars, routes, streamVars, boxVars, leased, getVars>>
    BY <1>11 DEF AnswersRequest
  <2> QED
    BY <2>1, <2>2, <2>3
<1>12. ASSUME NEW s \in Sessions \cup {None}, Notifies(s) PROVE TypeInv'
  <2>1. line' \in Frames
    BY <1>12, FrameTypes DEF Notifies
  <2>2. notes' \in 0..MaxNotes
    BY <1>12 DEF Notifies
  <2>3. UNCHANGED <<endVars, initVars, postVars, inboxVars, reader, agent, taken,
                    routerVars, routes, streamVars, boxVars, leased, getVars>>
    BY <1>12 DEF Notifies
  <2> QED
    BY <2>1, <2>2, <2>3
<1>13. CASE Garbles
  <2>1. line' \in Frames
    BY <1>13, FrameTypes DEF Garbles
  <2>2. notes' \in 0..MaxNotes
    BY <1>13 DEF Garbles
  <2>3. UNCHANGED <<endVars, initVars, postVars, inboxVars, reader, agent, taken,
                    routerVars, routes, streamVars, boxVars, leased, getVars>>
    BY <1>13 DEF Garbles
  <2> QED
    BY <2>1, <2>2, <2>3
<1>14. CASE AgentReturns
  BY <1>14 DEF AgentReturns
<1>15. CASE AgentSignals
  BY <1>15 DEF AgentSignals
<1>16. CASE ReadEnds
  BY <1>16 DEF ReadEnds
<1>17. CASE RejectLine
  BY <1>17 DEF RejectLine
<1>18. CASE HandOver
  BY <1>18 DEF HandOver
<1>19. CASE CheckClosed
  BY <1>19 DEF CheckClosed
<1>20. CASE RouteLine
  <2>1. /\ router' = "read" /\ routed' = None /\ router = "route"
        /\ UNCHANGED <<endVars, initVars, postVars, inboxVars, agentVars, leased,
                       getVars>>
    BY <1>20 DEF RouteLine
  <2>2. BoxesTyped' /\ routes' \subseteq routes
    BY <1>20, RouteTypes
  <2> QED
    BY <2>1, <2>2 DEF BoxesTyped
<1>21. ASSUME NEW g \in Gets, NEW s \in Sessions \cup {Conn}, Get(g, s)
      PROVE  TypeInv'
  BY <1>21 DEF Get
<1>22. ASSUME NEW g \in Gets, LeaseConnection(g) PROVE TypeInv'
  <2>1. 0 \in Boxes
    BY DEF Boxes
  <2>2. /\ gpc' \in [Gets -> {"none", "lease", "refused", "over"} \cup Streaming]
        /\ gbox' \in [Gets -> Boxes] /\ leased' \subseteq Boxes
    <3>1. CASE 0 \in leased
      BY <1>22, <3>1 DEF LeaseConnection, Refused
    <3>2. CASE 0 \notin leased
      <4>1. /\ gpc' = [gpc EXCEPT ![g] = "send"]
            /\ gbox' = [gbox EXCEPT ![g] = 0] /\ leased' = leased \cup {0}
        BY <1>22, <3>2 DEF LeaseConnection, Takes
      <4> QED
        BY <2>1, <4>1
    <3> QED
      BY <3>1, <3>2
  <2>3. UNCHANGED <<endVars, initVars, postVars, inboxVars, agentVars, routerVars, routes,
                    streamVars, boxVars, gfor, final, complete>>
    BY <1>22 DEF LeaseConnection
  <2> QED
    BY <2>2, <2>3
<1>23. ASSUME NEW g \in Gets, LeaseSession(g) PROVE TypeInv'
  <2>1. UNCHANGED <<endVars, initVars, postVars, inboxVars, agentVars, routerVars, routes,
                    boxVars, gfor, final, complete>>
    BY <1>23 DEF LeaseSession
  <2>2. CASE Refused(g) /\ UNCHANGED streamVars
    BY <2>1, <2>2 DEF Refused
  <2>3. CASE Leases(g)
    <3>1. /\ BoxOf(gfor[g]) \in Boxes /\ sessions' \in [Sessions -> Boxes]
          /\ boxes' \in Boxes
      BY <2>3, LeaseTypes
    <3>2. /\ gpc' = [gpc EXCEPT ![g] = "send"]
          /\ gbox' = [gbox EXCEPT ![g] = BoxOf(gfor[g])]
          /\ leased' = leased \cup {BoxOf(gfor[g])}
          /\ UNCHANGED <<confirmed, gone>>
      BY <2>3 DEF Leases, Takes
    <3>3. gpc' \in [Gets -> {"none", "lease", "refused", "over"} \cup Streaming]
      BY <3>2
    <3>4. gbox' \in [Gets -> Boxes]
      BY <3>1, <3>2
    <3>5. leased' \subseteq Boxes
      BY <3>1, <3>2
    <3>6. UNCHANGED <<confirmed, gone>>
      BY <3>2
    <3> QED
      BY <2>1, <3>1, <3>3, <3>4, <3>5, <3>6, SMTT(30)
  <2> QED
    BY <1>23, <2>2, <2>3, LeaseCases
<1>24. ASSUME NEW g \in Gets, SendFrame(g) PROVE TypeInv'
  <2>1. /\ gpc' \in [Gets -> {"none", "lease", "refused", "over"} \cup Streaming]
        /\ queue' \in [Boxes -> Seq(Frames)]
    BY <1>24 DEF SendFrame
  <2>2. UNCHANGED <<endVars, initVars, postVars, inboxVars, agentVars, routerVars, routes,
                    streamVars, signal, leased, gfor, gbox, final, complete>>
    BY <1>24 DEF SendFrame
  <2> QED
    BY <2>1, <2>2
<1>25. ASSUME NEW g \in Gets, NoFrame(g) PROVE TypeInv'
  <2>1. /\ gpc' \in [Gets -> {"none", "lease", "refused", "over"} \cup Streaming]
        /\ complete' \subseteq Gets
    <3>1. CASE g \in final
      <4>1. gpc' = [gpc EXCEPT ![g] = "release"] /\ complete' = complete \cup {g}
        BY <1>25, <3>1 DEF NoFrame
      <4> QED
        BY <4>1
    <3>2. CASE g \notin final
      BY <1>25, <3>2 DEF NoFrame
    <3> QED
      BY <3>1, <3>2
  <2>2. UNCHANGED <<endVars, initVars, postVars, inboxVars, agentVars, routerVars, routes,
                    streamVars, boxVars, leased, gfor, gbox, final>>
    BY <1>25 DEF NoFrame
  <2> QED
    BY <2>1, <2>2
<1>26. ASSUME NEW g \in Gets, WakeGet(g) PROVE TypeInv'
  BY <1>26 DEF WakeGet
<1>27. ASSUME NEW g \in Gets, EndGet(g) PROVE TypeInv'
  BY <1>27 DEF EndGet
<1>28. ASSUME NEW g \in Gets, LeaveGet(g) PROVE TypeInv'
  BY <1>28 DEF LeaveGet
<1>29. ASSUME NEW g \in Gets, ReleaseGet(g) PROVE TypeInv'
  <2>1. sessions' \in [Sessions -> Boxes]
    <3>1. 0 \in Boxes
      BY DEF Boxes
    <3> QED
      BY <1>29, <3>1 DEF ReleaseGet
  <2>2. /\ gpc' \in [Gets -> {"none", "lease", "refused", "over"} \cup Streaming]
        /\ leased' \subseteq Boxes
    BY <1>29 DEF ReleaseGet
  <2>3. UNCHANGED <<endVars, initVars, postVars, inboxVars, agentVars, routerVars, routes,
                    confirmed, boxes, gone, boxVars, gfor, gbox, final, complete>>
    BY <1>29 DEF ReleaseGet
  <2> QED
    BY <2>1, <2>2, <2>3
<1>30. CASE UNCHANGED vars
  <2> HIDE DEF TypeInv, vars
  <2> QED
    BY <1>30, TypeStay
<1> QED
  <2> HIDE DEF TypeInv, vars
  <2> QED
    BY <1>1, <1>2, <1>3, <1>4, <1>5, <1>6, <1>7, <1>8, <1>9, <1>10, <1>11, <1>12,
       <1>13, <1>14, <1>15, <1>16, <1>17, <1>18, <1>19, <1>20, <1>21, <1>22, <1>23,
       <1>24, <1>25, <1>26, <1>27, <1>28, <1>29, <1>30
       DEF Next, Serve, EndStep, PostStep, ReaderStep, AgentStep, RouterStep, GetStep,
           Ended

(***************************************************************************)
(* The streams.  A step leaves them and their subscribers alone, or it     *)
(* routes a line, leases a stream, or releases one.                        *)
(***************************************************************************)
Subscribed(g) == gpc[g] \in Streaming

Still ==
  /\ UNCHANGED <<sessions, confirmed, boxes, gone, leased, gbox>>
  /\ \A g \in Gets : Subscribed(g)' <=> Subscribed(g)
  /\ \A g \in Gets : Subscribed(g) => gfor'[g] = gfor[g]

Moving ==
  \/ RouteLine
  \/ \E g \in Gets : LeaseConnection(g) \/ LeaseSession(g) \/ ReleaseGet(g)

LEMMA StreamSteps == TypeInv /\ [Next]_vars => Still \/ Moving
<1> SUFFICES ASSUME TypeInv, [Next]_vars PROVE Still \/ Moving
  OBVIOUS
<1>0. /\ gpc \in [Gets -> {"none", "lease", "refused", "over"} \cup Streaming]
      /\ gfor \in [Gets -> Sessions \cup {Conn, None}]
  BY DEF TypeInv, TypeOK
<1> USE <1>0, NamesAssumption
    DEF vars, endVars, initVars, postVars, inboxVars, agentVars, routerVars,
        streamVars, boxVars, getVars, Forget, PostMoves, GetMoves, Writes, Reads,
        Still, Moving, Subscribed, Streaming
<1>1. ASSUME NEW e \in Enders, Finish(e) PROVE Still \/ Moving
  BY <1>1 DEF Finish
<1>2. ASSUME NEW e \in Enders, CloseOut(e) PROVE Still \/ Moving
  BY <1>2 DEF CloseOut
<1>3. CASE Delete
  BY <1>3 DEF Delete
<1>4. CASE AnswerInitialize
  BY <1>4 DEF AnswerInitialize
<1>5. CASE DiscardConnection
  BY <1>5 DEF DiscardConnection
<1>6. ASSUME NEW r \in Reqs, NEW kind \in {"new", "load", "close"}, NEW s \in Sessions,
             Post(r, kind, s)
      PROVE  Still \/ Moving
  BY <1>6 DEF Post
<1>7. ASSUME NEW r \in Reqs, WriteToAgent(r) PROVE Still \/ Moving
  BY <1>7 DEF WriteToAgent
<1>8. ASSUME NEW r \in Reqs, SignalAgent(r) PROVE Still \/ Moving
  BY <1>8 DEF SignalAgent
<1>9. CASE ReadInput
  BY <1>9 DEF ReadInput
<1>10. CASE WakeReader
  BY <1>10 DEF WakeReader
<1>11. ASSUME NEW r \in Reqs \cup {Initialize}, NEW ok \in BOOLEAN,
             AnswersRequest(r, ok)
      PROVE  Still \/ Moving
  BY <1>11 DEF AnswersRequest
<1>12. ASSUME NEW s \in Sessions \cup {None}, Notifies(s) PROVE Still \/ Moving
  BY <1>12 DEF Notifies
<1>13. CASE Garbles
  BY <1>13 DEF Garbles
<1>14. CASE AgentReturns
  BY <1>14 DEF AgentReturns
<1>15. CASE AgentSignals
  BY <1>15 DEF AgentSignals
<1>16. CASE ReadEnds
  BY <1>16 DEF ReadEnds
<1>17. CASE RejectLine
  BY <1>17 DEF RejectLine
<1>18. CASE HandOver
  BY <1>18 DEF HandOver
<1>19. CASE CheckClosed
  BY <1>19 DEF CheckClosed
<1>20. CASE RouteLine
  BY <1>20
<1>21. ASSUME NEW g \in Gets, NEW s \in Sessions \cup {Conn}, Get(g, s)
      PROVE  Still \/ Moving
  BY <1>21 DEF Get
<1>22. ASSUME NEW g \in Gets, LeaseConnection(g) PROVE Still \/ Moving
  BY <1>22
<1>23. ASSUME NEW g \in Gets, LeaseSession(g) PROVE Still \/ Moving
  BY <1>23
<1>24. ASSUME NEW g \in Gets, SendFrame(g) PROVE Still \/ Moving
  BY <1>24 DEF SendFrame
<1>25. ASSUME NEW g \in Gets, NoFrame(g) PROVE Still \/ Moving
  BY <1>25 DEF NoFrame
<1>26. ASSUME NEW g \in Gets, WakeGet(g) PROVE Still \/ Moving
  BY <1>26 DEF WakeGet
<1>27. ASSUME NEW g \in Gets, EndGet(g) PROVE Still \/ Moving
  BY <1>27 DEF EndGet
<1>28. ASSUME NEW g \in Gets, LeaveGet(g) PROVE Still \/ Moving
  BY <1>28 DEF LeaveGet
<1>29. ASSUME NEW g \in Gets, ReleaseGet(g) PROVE Still \/ Moving
  BY <1>29
<1>30. CASE UNCHANGED vars
  BY <1>30
<1> QED
  BY <1>1, <1>2, <1>3, <1>4, <1>5, <1>6, <1>7, <1>8, <1>9, <1>10, <1>11, <1>12,
     <1>13, <1>14, <1>15, <1>16, <1>17, <1>18, <1>19, <1>20, <1>21, <1>22, <1>23,
     <1>24, <1>25, <1>26, <1>27, <1>28, <1>29, <1>30
     DEF Next, Serve, EndStep, PostStep, ReaderStep, AgentStep, RouterStep, GetStep,
         Ended

\* The number of unconfirmed streams grows by a lease alone.
LEMMA FewerUnconfirmed ==
  ASSUME IsFiniteSet(Unconfirmed), Cardinality(Unconfirmed) <= MaxUnconfirmed,
         Unconfirmed' \subseteq Unconfirmed
  PROVE  IsFiniteSet(Unconfirmed)' /\ Cardinality(Unconfirmed)' <= MaxUnconfirmed
<1>1. /\ IsFiniteSet(Unconfirmed')
      /\ Cardinality(Unconfirmed') <= Cardinality(Unconfirmed)
  BY FS_Subset
<1>2. Cardinality(Unconfirmed) \in Nat /\ Cardinality(Unconfirmed') \in Nat
  BY <1>1, FS_CardinalityType
<1> QED
  BY <1>1, <1>2, BoundsAssumption

LEMMA OneMoreUnconfirmed ==
  ASSUME IsFiniteSet(Unconfirmed), ~(Cardinality(Unconfirmed) >= MaxUnconfirmed),
         NEW s, Unconfirmed' \subseteq Unconfirmed \cup {s}
  PROVE  IsFiniteSet(Unconfirmed)' /\ Cardinality(Unconfirmed)' <= MaxUnconfirmed
<1>1. /\ IsFiniteSet(Unconfirmed \cup {s})
      /\ Cardinality(Unconfirmed \cup {s})
           \in {Cardinality(Unconfirmed), Cardinality(Unconfirmed) + 1}
  BY FS_AddElement
<1>2. /\ IsFiniteSet(Unconfirmed')
      /\ Cardinality(Unconfirmed') <= Cardinality(Unconfirmed \cup {s})
  BY <1>1, FS_Subset
<1>3. Cardinality(Unconfirmed) \in Nat /\ Cardinality(Unconfirmed') \in Nat
  BY <1>2, FS_CardinalityType
<1>4. MaxUnconfirmed \in Nat
  BY BoundsAssumption
<1>5. Cardinality(Unconfirmed') <= MaxUnconfirmed
  BY <1>1, <1>2, <1>3, <1>4
<1> QED
  BY <1>2, <1>5

\* What the streams' lemmas need of the types.
LEMMA StreamTypes ==
  ASSUME TypeInv
  PROVE  /\ sessions \in [Sessions -> Nat] /\ boxes \in Nat
         /\ gpc \in [Gets -> {"none", "lease", "refused", "over"} \cup Streaming]
         /\ gbox \in [Gets -> Nat] /\ gfor \in [Gets -> Sessions \cup {Conn, None}]
BY BoundsAssumption DEF TypeInv, TypeOK, Boxes

LEMMA HeldStill == ASSUME HeldInv, Still PROVE HeldInv'
<1>1. BoxInv'
  BY DEF HeldInv, BoxInv, Still, Subscribed
<1>2. Unconfirmed' = Unconfirmed
  BY DEF Still, Unconfirmed
<1>3. StreamsAreHeld'
  BY <1>2 DEF HeldInv, StreamsAreHeld, BoxInv, Still, Subscribed
<1> QED
  BY <1>1, <1>2, <1>3 DEF HeldInv

\* A session that becomes known keeps its stream, or gets a new one.
LEMMA HeldConfirm ==
  ASSUME TypeInv, HeldInv, NEW s \in Sessions, Confirm(s),
         UNCHANGED <<leased, gpc, gfor, gbox>>
  PROVE  HeldInv'
<1> USE StreamTypes
<1>1. /\ \A t \in Sessions : sessions'[t] = IF t = s THEN BoxOf(s) ELSE sessions[t]
      /\ confirmed' = confirmed \cup {s} /\ gone' = gone
      /\ boxes' = IF sessions[s] = 0 THEN boxes + 1 ELSE boxes
  BY DEF Confirm
<1>2. BoxInv'
  BY <1>1 DEF HeldInv, BoxInv, BoxOf
<1>3. Unconfirmed' \subseteq Unconfirmed
  BY <1>1 DEF Unconfirmed
<1>4. \A g \in Gets : gpc[g] \in Streaming /\ gfor[g] \in Sessions =>
        sessions'[gfor[g]] = gbox[g] \/ gbox[g] \in gone
  BY <1>1 DEF HeldInv, BoxInv, StreamsAreHeld, BoxOf
<1>5. \A t \in Unconfirmed' : sessions'[t] \in leased
  BY <1>1, <1>3 DEF HeldInv, StreamsAreHeld, Unconfirmed
<1>6. IsFiniteSet(Unconfirmed)' /\ Cardinality(Unconfirmed)' <= MaxUnconfirmed
  BY <1>3, FewerUnconfirmed DEF HeldInv, StreamsAreHeld
<1> QED
  BY <1>1, <1>2, <1>4, <1>5, <1>6 DEF HeldInv, StreamsAreHeld

\* A stream that session/close removes is never made again.
LEMMA HeldCloses ==
  ASSUME TypeInv, HeldInv, NEW s \in Sessions, Closes(s),
         UNCHANGED <<leased, gpc, gfor, gbox>>
  PROVE  HeldInv'
<1> USE StreamTypes
<1>1. /\ \A t \in Sessions : sessions'[t] = IF t = s THEN 0 ELSE sessions[t]
      /\ confirmed' = confirmed \ {s} /\ boxes' = boxes
      /\ gone' = gone \cup ({sessions[s]} \ {0})
  BY DEF Closes
<1>2. BoxInv'
  <2>1. \A t \in Sessions : sessions'[t] <= boxes' /\ sessions'[t] \notin gone'
    <3>1. ASSUME NEW t \in Sessions, t # s
          PROVE  sessions'[t] <= boxes' /\ sessions'[t] \notin gone'
      BY <1>1, <3>1 DEF HeldInv, BoxInv
    <3>2. sessions'[s] <= boxes' /\ sessions'[s] \notin gone'
      BY <1>1 DEF HeldInv, BoxInv
    <3> QED
      BY <3>1, <3>2
  <2>2. \A t, u \in Sessions : sessions'[t] # 0 /\ sessions'[t] = sessions'[u] => t = u
    BY <1>1 DEF HeldInv, BoxInv
  <2>3. gone' \subseteq 1..boxes'
    <3>1. sessions[s] = 0 \/ sessions[s] \in 1..boxes
      BY DEF HeldInv, BoxInv
    <3> QED
      BY <1>1, <3>1 DEF HeldInv, BoxInv
  <2>4. \A g \in Gets : gpc'[g] \in Streaming =>
          /\ gbox'[g] <= boxes' /\ gbox'[g] \in leased'
          /\ gfor'[g] \in Sessions <=> gbox'[g] # 0
    BY <1>1 DEF HeldInv, BoxInv
  <2>5. \A c \in leased' : \E g \in Gets : gpc'[g] \in Streaming /\ gbox'[g] = c
    BY DEF HeldInv, BoxInv
  <2> QED
    BY <2>1, <2>2, <2>3, <2>4, <2>5 DEF BoxInv
<1>3. Unconfirmed' \subseteq Unconfirmed
  BY <1>1 DEF Unconfirmed
<1>4. \A g \in Gets : gpc[g] \in Streaming /\ gfor[g] \in Sessions =>
        sessions'[gfor[g]] = gbox[g] \/ gbox[g] \in gone'
  BY <1>1 DEF HeldInv, BoxInv, StreamsAreHeld
<1>5. \A t \in Unconfirmed' : sessions'[t] \in leased
  BY <1>1, <1>3 DEF HeldInv, StreamsAreHeld, Unconfirmed
<1>6. IsFiniteSet(Unconfirmed)' /\ Cardinality(Unconfirmed)' <= MaxUnconfirmed
  BY <1>3, FewerUnconfirmed DEF HeldInv, StreamsAreHeld
<1> QED
  BY <1>1, <1>2, <1>4, <1>5, <1>6 DEF HeldInv, StreamsAreHeld

LEMMA HeldRoute == ASSUME TypeInv, HeldInv, RouteLine PROVE HeldInv'
<1>1. UNCHANGED <<leased, gpc, gfor, gbox>>
  BY DEF RouteLine, getVars
<1>2. CASE UNCHANGED streamVars
  BY <1>1, <1>2, HeldStill DEF Still, Subscribed, streamVars
<1> QED
  BY <1>1, <1>2, RouteCases, HeldConfirm, HeldCloses

\* A GET that takes a free stream is its one subscriber.
LEMMA HeldTakes ==
  ASSUME TypeInv, HeldInv, NEW g \in Gets, Takes(g, 0), 0 \notin leased,
         gfor[g] = Conn, UNCHANGED <<streamVars, gfor>>
  PROVE  HeldInv'
<1> USE StreamTypes, NamesAssumption
<1>1. /\ \A h \in Gets : /\ gbox'[h] = IF h = g THEN 0 ELSE gbox[h]
                         /\ gpc'[h] = IF h = g THEN "send" ELSE gpc[h]
      /\ leased' = leased \cup {0} /\ gpc[g] = "lease"
      /\ UNCHANGED <<sessions, confirmed, boxes, gone, gfor>>
  BY DEF Takes, GetMoves, streamVars
<1>2. BoxInv'
  BY <1>1 DEF HeldInv, BoxInv, Streaming
<1>3. Unconfirmed' = Unconfirmed
  BY <1>1 DEF Unconfirmed
<1>4. \A h, i \in Gets :
        gpc'[h] \in Streaming /\ gpc'[i] \in Streaming /\ gbox'[h] = gbox'[i] => h = i
  BY <1>1 DEF HeldInv, BoxInv, StreamsAreHeld
<1>5. \A h \in Gets : gpc'[h] \in Streaming /\ gfor[h] \in Sessions =>
        sessions[gfor[h]] = gbox'[h] \/ gbox'[h] \in gone
  BY <1>1 DEF HeldInv, StreamsAreHeld
<1> QED
  BY <1>1, <1>2, <1>3, <1>4, <1>5 DEF HeldInv, StreamsAreHeld

LEMMA HeldLeases ==
  ASSUME TypeInv, HeldInv, NEW g \in Gets, Leases(g), UNCHANGED gfor
  PROVE  HeldInv'
<1> DEFINE s == gfor[g]
           b == BoxOf(s)
<1> USE StreamTypes
<1>1. s \in Sessions
  BY DEF Leases
<1>2. b \in Nat /\ b # 0
  BY <1>1 DEF BoxOf
<1>3. /\ \A h \in Gets : /\ gbox'[h] = IF h = g THEN b ELSE gbox[h]
                         /\ gpc'[h] = IF h = g THEN "send" ELSE gpc[h]
      /\ leased' = leased \cup {b} /\ gpc[g] = "lease"
      /\ \A t \in Sessions : sessions'[t] = IF t = s THEN b ELSE sessions[t]
      /\ boxes' = IF sessions[s] = 0 THEN boxes + 1 ELSE boxes
      /\ UNCHANGED <<confirmed, gone, gfor>>
  BY <1>1 DEF Leases, Takes, GetMoves
<1>4. /\ \A h \in Gets : gpc[h] \in Streaming => gbox[h] # b
      /\ \A t \in Sessions : t # s => sessions[t] # b
      /\ b \notin gone /\ b <= boxes' /\ boxes <= boxes'
  BY <1>1, <1>3 DEF HeldInv, BoxInv, BoxOf, Leases
<1> HIDE DEF s, b
<1>5. BoxInv'
  <2>1. \A t \in Sessions : sessions'[t] <= boxes' /\ sessions'[t] \notin gone'
    BY <1>2, <1>3, <1>4 DEF HeldInv, BoxInv
  <2>2. \A t, u \in Sessions : sessions'[t] # 0 /\ sessions'[t] = sessions'[u] => t = u
    BY <1>2, <1>3, <1>4 DEF HeldInv, BoxInv
  <2>3. gone' \subseteq 1..boxes'
    BY <1>1, <1>3, <1>4 DEF HeldInv, BoxInv
  <2>4. \A h \in Gets : gpc'[h] \in Streaming =>
          /\ gbox'[h] <= boxes' /\ gbox'[h] \in leased'
          /\ gfor'[h] \in Sessions <=> gbox'[h] # 0
    BY <1>1, <1>2, <1>3, <1>4 DEF HeldInv, BoxInv, s
  <2>5. \A c \in leased' : \E h \in Gets : gpc'[h] \in Streaming /\ gbox'[h] = c
    BY <1>3 DEF HeldInv, BoxInv, Streaming
  <2> QED
    BY <2>1, <2>2, <2>3, <2>4, <2>5 DEF BoxInv
<1>6. \A h, i \in Gets :
        gpc'[h] \in Streaming /\ gpc'[i] \in Streaming /\ gbox'[h] = gbox'[i] => h = i
  BY <1>3, <1>4 DEF HeldInv, StreamsAreHeld
<1>7. \A h \in Gets : gpc'[h] \in Streaming /\ gfor'[h] \in Sessions =>
        sessions'[gfor'[h]] = gbox'[h] \/ gbox'[h] \in gone'
  <2>1. ASSUME NEW h \in Gets, gpc'[h] \in Streaming, gfor'[h] \in Sessions, h # g
        PROVE  sessions'[gfor'[h]] = gbox'[h] \/ gbox'[h] \in gone'
    <3>1. /\ gpc[h] \in Streaming /\ gfor'[h] = gfor[h] /\ gbox'[h] = gbox[h]
          /\ gbox[h] # 0 /\ gbox[h] # b
      BY <1>3, <1>4, <2>1 DEF HeldInv, BoxInv
    <3>2. sessions[gfor[h]] = gbox[h] \/ gbox[h] \in gone
      BY <2>1, <3>1 DEF HeldInv, StreamsAreHeld
    <3>3. CASE gbox[h] \in gone
      BY <1>3, <3>1, <3>3
    <3>4. CASE sessions[gfor[h]] = gbox[h] /\ gfor[h] # s
      BY <1>3, <2>1, <3>1, <3>4
    <3>5. CASE sessions[s] = gbox[h]
      <4>1. b = sessions[s]
        BY <3>1, <3>5 DEF b, BoxOf
      <4> QED
        BY <3>1, <3>5, <4>1
    <3> QED
      BY <3>2, <3>3, <3>4, <3>5
  <2> QED
    BY <1>1, <1>3, <2>1 DEF s
<1>8. Unconfirmed' \subseteq Unconfirmed \cup {s}
  BY <1>3 DEF Unconfirmed
<1>9. \A t \in Unconfirmed' : sessions'[t] \in leased'
  BY <1>3, <1>8 DEF HeldInv, StreamsAreHeld, Unconfirmed
<1>10. IsFiniteSet(Unconfirmed)' /\ Cardinality(Unconfirmed)' <= MaxUnconfirmed
  <2>1. CASE sessions[s] = 0
    BY <1>8, <2>1, OneMoreUnconfirmed DEF HeldInv, Leases, s
  <2>2. CASE sessions[s] # 0
    <3>1. Unconfirmed' \subseteq Unconfirmed
      BY <1>3, <2>2 DEF Unconfirmed
    <3> QED
      BY <3>1, FewerUnconfirmed DEF HeldInv, StreamsAreHeld
  <2> QED
    BY <2>1, <2>2
<1> QED
  BY <1>5, <1>6, <1>7, <1>9, <1>10 DEF HeldInv, StreamsAreHeld

\* The stream a GET releases was its own: no other GET's, and no other session's.
LEMMA HeldRelease ==
  ASSUME TypeInv, HeldInv, NEW g \in Gets, ReleaseGet(g) PROVE HeldInv'
<1> DEFINE s == gfor[g]
           b == gbox[g]
           forgets == s \in Sessions \ confirmed /\ sessions[s] = b
<1> USE StreamTypes
<1>1. /\ \A h \in Gets : gpc'[h] = IF h = g THEN "over" ELSE gpc[h]
      /\ leased' = leased \ {b} /\ gpc[g] = "release"
      /\ \A t \in Sessions : sessions'[t] = IF forgets /\ t = s THEN 0 ELSE sessions[t]
      /\ UNCHANGED <<confirmed, boxes, gone, gfor, gbox>>
  BY DEF ReleaseGet, GetMoves
<1>2. /\ b \in Nat
      /\ \A h \in Gets : gpc'[h] \in Streaming => gpc[h] \in Streaming /\ gbox[h] # b
  BY <1>1 DEF HeldInv, StreamsAreHeld, Streaming
<1>3. \A t \in Sessions \ confirmed : sessions[t] = b /\ b # 0 => forgets /\ t = s
  BY <1>1 DEF HeldInv, BoxInv, StreamsAreHeld, Streaming
<1>4. forgets => s \in Sessions /\ sessions[s] = b
  OBVIOUS
<1> HIDE DEF s, b, forgets
<1>5. BoxInv'
  <2>1. \A t \in Sessions : sessions'[t] <= boxes' /\ sessions'[t] \notin gone'
    BY <1>1 DEF HeldInv, BoxInv
  <2>2. \A t, u \in Sessions : sessions'[t] # 0 /\ sessions'[t] = sessions'[u] => t = u
    BY <1>1 DEF HeldInv, BoxInv
  <2>3. gone' \subseteq 1..boxes'
    BY <1>1 DEF HeldInv, BoxInv
  <2>4. \A h \in Gets : gpc'[h] \in Streaming =>
          /\ gbox'[h] <= boxes' /\ gbox'[h] \in leased'
          /\ gfor'[h] \in Sessions <=> gbox'[h] # 0
    BY <1>1, <1>2 DEF HeldInv, BoxInv
  <2>5. ASSUME NEW c \in leased'
        PROVE  \E h \in Gets : gpc'[h] \in Streaming /\ gbox'[h] = c
    <3>1. PICK h \in Gets : gpc[h] \in Streaming /\ gbox[h] = c
      BY <1>1 DEF HeldInv, BoxInv
    <3>2. h # g
      BY <1>1, <3>1 DEF b
    <3> QED
      BY <1>1, <3>1, <3>2
  <2> QED
    BY <2>1, <2>2, <2>3, <2>4, <2>5 DEF BoxInv
<1>6. \A h, i \in Gets :
        gpc'[h] \in Streaming /\ gpc'[i] \in Streaming /\ gbox'[h] = gbox'[i] => h = i
  BY <1>1, <1>2 DEF HeldInv, StreamsAreHeld
<1>7. \A h \in Gets : gpc'[h] \in Streaming /\ gfor'[h] \in Sessions =>
        sessions'[gfor'[h]] = gbox'[h] \/ gbox'[h] \in gone'
  BY <1>1, <1>2, <1>4 DEF HeldInv, StreamsAreHeld
<1>8. Unconfirmed' \subseteq Unconfirmed
  BY <1>1 DEF Unconfirmed
<1>9. \A t \in Unconfirmed' : sessions'[t] \in leased'
  BY <1>1, <1>3, <1>8 DEF HeldInv, StreamsAreHeld, Unconfirmed
<1>10. IsFiniteSet(Unconfirmed)' /\ Cardinality(Unconfirmed)' <= MaxUnconfirmed
  BY <1>8, FewerUnconfirmed DEF HeldInv, StreamsAreHeld
<1> QED
  BY <1>5, <1>6, <1>7, <1>9, <1>10 DEF HeldInv, StreamsAreHeld

LEMMA HeldKept == TypeInv /\ HeldInv /\ [Next]_vars => HeldInv'
<1> SUFFICES ASSUME TypeInv, HeldInv, [Next]_vars PROVE HeldInv'
  OBVIOUS
<1>1. ASSUME NEW g \in Gets, Refused(g), UNCHANGED <<streamVars, gfor>> PROVE HeldInv'
  <2>1. Still
    BY <1>1, StreamTypes
    DEF Refused, GetMoves, Still, Subscribed, Streaming, streamVars
  <2> QED
    BY <2>1, HeldStill
<1>2. ASSUME NEW g \in Gets, LeaseConnection(g) PROVE HeldInv'
  <2>1. gfor[g] = Conn /\ UNCHANGED <<streamVars, gfor>>
    BY <1>2 DEF LeaseConnection
  <2>2. Refused(g) \/ (Takes(g, 0) /\ 0 \notin leased)
    BY <1>2 DEF LeaseConnection
  <2> QED
    BY <1>1, <2>1, <2>2, HeldTakes
<1>3. ASSUME NEW g \in Gets, LeaseSession(g) PROVE HeldInv'
  <2>1. UNCHANGED gfor
    BY <1>3 DEF LeaseSession
  <2> QED
    BY <1>1, <1>3, <2>1, LeaseCases, HeldLeases
<1> QED
  BY <1>2, <1>3, StreamSteps, HeldStill, HeldRoute, HeldRelease DEF Moving

(***************************************************************************)
(* The end, the reader's wakeups, and the frames that are delivered.       *)
(***************************************************************************)
LEMMA EndKept == TypeInv /\ EndInv /\ [Next]_vars => EndInv'
<1> SUFFICES ASSUME TypeInv, EndInv, [Next]_vars PROVE EndInv'
  OBVIOUS
<1>0. /\ ender \in [Enders -> {"none", "finish", "close", "over"}]
      /\ endedBy \in Enders \cup {"none"} /\ closed \in BOOLEAN
  BY DEF TypeInv, TypeOK
<1> USE <1>0
    DEF vars, endVars, initVars, postVars, inboxVars, agentVars, routerVars,
        streamVars, boxVars, getVars, Forget, PostMoves, GetMoves, Writes, Reads,
        EndInv, Enders
<1>1. ASSUME NEW e \in Enders, Finish(e) PROVE EndInv'
  BY <1>1 DEF Finish
<1>2. ASSUME NEW e \in Enders, CloseOut(e) PROVE EndInv'
  BY <1>2 DEF CloseOut
<1>3. CASE Delete
  BY <1>3 DEF Delete
<1>4. CASE AnswerInitialize
  BY <1>4 DEF AnswerInitialize
<1>5. CASE DiscardConnection
  BY <1>5 DEF DiscardConnection
<1>6. ASSUME NEW r \in Reqs, NEW kind \in {"new", "load", "close"}, NEW s \in Sessions,
             Post(r, kind, s)
      PROVE  EndInv'
  BY <1>6 DEF Post
<1>7. ASSUME NEW r \in Reqs, WriteToAgent(r) PROVE EndInv'
  BY <1>7 DEF WriteToAgent
<1>8. ASSUME NEW r \in Reqs, SignalAgent(r) PROVE EndInv'
  BY <1>8 DEF SignalAgent
<1>9. CASE ReadInput
  BY <1>9 DEF ReadInput
<1>10. CASE WakeReader
  BY <1>10 DEF WakeReader
<1>11. ASSUME NEW r \in Reqs \cup {Initialize}, NEW ok \in BOOLEAN,
             AnswersRequest(r, ok)
      PROVE  EndInv'
  BY <1>11 DEF AnswersRequest
<1>12. ASSUME NEW s \in Sessions \cup {None}, Notifies(s) PROVE EndInv'
  BY <1>12 DEF Notifies
<1>13. CASE Garbles
  BY <1>13 DEF Garbles
<1>14. CASE AgentReturns
  BY <1>14 DEF AgentReturns
<1>15. CASE AgentSignals
  BY <1>15 DEF AgentSignals
<1>16. CASE ReadEnds
  BY <1>16 DEF ReadEnds
<1>17. CASE RejectLine
  BY <1>17 DEF RejectLine
<1>18. CASE HandOver
  BY <1>18 DEF HandOver
<1>19. CASE CheckClosed
  BY <1>19 DEF CheckClosed
<1>20. CASE RouteLine
  BY <1>20 DEF RouteLine
<1>21. ASSUME NEW g \in Gets, NEW s \in Sessions \cup {Conn}, Get(g, s)
      PROVE  EndInv'
  BY <1>21 DEF Get
<1>22. ASSUME NEW g \in Gets, LeaseConnection(g) PROVE EndInv'
  BY <1>22 DEF LeaseConnection
<1>23. ASSUME NEW g \in Gets, LeaseSession(g) PROVE EndInv'
  BY <1>23 DEF LeaseSession
<1>24. ASSUME NEW g \in Gets, SendFrame(g) PROVE EndInv'
  BY <1>24 DEF SendFrame
<1>25. ASSUME NEW g \in Gets, NoFrame(g) PROVE EndInv'
  BY <1>25 DEF NoFrame
<1>26. ASSUME NEW g \in Gets, WakeGet(g) PROVE EndInv'
  BY <1>26 DEF WakeGet
<1>27. ASSUME NEW g \in Gets, EndGet(g) PROVE EndInv'
  BY <1>27 DEF EndGet
<1>28. ASSUME NEW g \in Gets, LeaveGet(g) PROVE EndInv'
  BY <1>28 DEF LeaveGet
<1>29. ASSUME NEW g \in Gets, ReleaseGet(g) PROVE EndInv'
  BY <1>29 DEF ReleaseGet
<1>30. CASE UNCHANGED vars
  BY <1>30
<1> QED
  BY <1>1, <1>2, <1>3, <1>4, <1>5, <1>6, <1>7, <1>8, <1>9, <1>10, <1>11, <1>12,
     <1>13, <1>14, <1>15, <1>16, <1>17, <1>18, <1>19, <1>20, <1>21, <1>22, <1>23,
     <1>24, <1>25, <1>26, <1>27, <1>28, <1>29, <1>30
     DEF Next, Serve, EndStep, PostStep, ReaderStep, AgentStep, RouterStep, GetStep,
         Ended

LEMMA ReaderKept == TypeInv /\ ReaderInv /\ [Next]_vars => ReaderInv'
<1> SUFFICES ASSUME TypeInv, ReaderInv, [Next]_vars PROVE ReaderInv'
  OBVIOUS
<1>0. post \in [Reqs -> {"none", "write", "signal", "accepted", "refused"}]
  BY DEF TypeInv, TypeOK
<1> USE <1>0
    DEF vars, endVars, initVars, postVars, inboxVars, agentVars, routerVars,
        streamVars, boxVars, getVars, Forget, PostMoves, GetMoves, Writes, Reads,
        ReaderInv
<1>1. ASSUME NEW e \in Enders, Finish(e) PROVE ReaderInv'
  BY <1>1 DEF Finish
<1>2. ASSUME NEW e \in Enders, CloseOut(e) PROVE ReaderInv'
  BY <1>2 DEF CloseOut
<1>3. CASE Delete
  BY <1>3 DEF Delete
<1>4. CASE AnswerInitialize
  BY <1>4 DEF AnswerInitialize
<1>5. CASE DiscardConnection
  BY <1>5 DEF DiscardConnection
<1>6. ASSUME NEW r \in Reqs, NEW kind \in {"new", "load", "close"}, NEW s \in Sessions,
             Post(r, kind, s)
      PROVE  ReaderInv'
  BY <1>6 DEF Post
<1>7. ASSUME NEW r \in Reqs, WriteToAgent(r) PROVE ReaderInv'
  BY <1>7 DEF WriteToAgent
<1>8. ASSUME NEW r \in Reqs, SignalAgent(r) PROVE ReaderInv'
  BY <1>8 DEF SignalAgent
<1>9. CASE ReadInput
  BY <1>9 DEF ReadInput
<1>10. CASE WakeReader
  BY <1>10 DEF WakeReader
<1>11. ASSUME NEW r \in Reqs \cup {Initialize}, NEW ok \in BOOLEAN,
             AnswersRequest(r, ok)
      PROVE  ReaderInv'
  BY <1>11 DEF AnswersRequest
<1>12. ASSUME NEW s \in Sessions \cup {None}, Notifies(s) PROVE ReaderInv'
  BY <1>12 DEF Notifies
<1>13. CASE Garbles
  BY <1>13 DEF Garbles
<1>14. CASE AgentReturns
  BY <1>14 DEF AgentReturns
<1>15. CASE AgentSignals
  BY <1>15 DEF AgentSignals
<1>16. CASE ReadEnds
  BY <1>16 DEF ReadEnds
<1>17. CASE RejectLine
  BY <1>17 DEF RejectLine
<1>18. CASE HandOver
  BY <1>18 DEF HandOver
<1>19. CASE CheckClosed
  BY <1>19 DEF CheckClosed
<1>20. CASE RouteLine
  BY <1>20 DEF RouteLine
<1>21. ASSUME NEW g \in Gets, NEW s \in Sessions \cup {Conn}, Get(g, s)
      PROVE  ReaderInv'
  BY <1>21 DEF Get
<1>22. ASSUME NEW g \in Gets, LeaseConnection(g) PROVE ReaderInv'
  BY <1>22 DEF LeaseConnection
<1>23. ASSUME NEW g \in Gets, LeaseSession(g) PROVE ReaderInv'
  BY <1>23 DEF LeaseSession
<1>24. ASSUME NEW g \in Gets, SendFrame(g) PROVE ReaderInv'
  BY <1>24 DEF SendFrame
<1>25. ASSUME NEW g \in Gets, NoFrame(g) PROVE ReaderInv'
  BY <1>25 DEF NoFrame
<1>26. ASSUME NEW g \in Gets, WakeGet(g) PROVE ReaderInv'
  BY <1>26 DEF WakeGet
<1>27. ASSUME NEW g \in Gets, EndGet(g) PROVE ReaderInv'
  BY <1>27 DEF EndGet
<1>28. ASSUME NEW g \in Gets, LeaveGet(g) PROVE ReaderInv'
  BY <1>28 DEF LeaveGet
<1>29. ASSUME NEW g \in Gets, ReleaseGet(g) PROVE ReaderInv'
  BY <1>29 DEF ReleaseGet
<1>30. CASE UNCHANGED vars
  BY <1>30
<1> QED
  BY <1>1, <1>2, <1>3, <1>4, <1>5, <1>6, <1>7, <1>8, <1>9, <1>10, <1>11, <1>12,
     <1>13, <1>14, <1>15, <1>16, <1>17, <1>18, <1>19, <1>20, <1>21, <1>22, <1>23,
     <1>24, <1>25, <1>26, <1>27, <1>28, <1>29, <1>30
     DEF Next, Serve, EndStep, PostStep, ReaderStep, AgentStep, RouterStep, GetStep,
         Ended

LEMMA WakeKept == TypeInv /\ HeldInv /\ WakeInv /\ [Next]_vars => WakeInv'
<1> SUFFICES ASSUME TypeInv, HeldInv, WakeInv, [Next]_vars PROVE WakeInv'
  OBVIOUS
<1>0. /\ queue \in [Boxes -> Seq(Frames)] /\ gbox \in [Gets -> Boxes]
      /\ gpc \in [Gets -> {"none", "lease", "refused", "over"} \cup Streaming]
  BY DEF TypeInv, TypeOK
<1> USE <1>0
    DEF vars, endVars, initVars, postVars, inboxVars, agentVars, routerVars,
        streamVars, boxVars, getVars, Forget, PostMoves, GetMoves, Writes, Reads,
        WakeInv
<1>1. ASSUME NEW e \in Enders, Finish(e) PROVE WakeInv'
  BY <1>1 DEF Finish
<1>2. ASSUME NEW e \in Enders, CloseOut(e) PROVE WakeInv'
  BY <1>2 DEF CloseOut
<1>3. CASE Delete
  BY <1>3 DEF Delete
<1>4. CASE AnswerInitialize
  BY <1>4 DEF AnswerInitialize
<1>5. CASE DiscardConnection
  BY <1>5 DEF DiscardConnection
<1>6. ASSUME NEW r \in Reqs, NEW kind \in {"new", "load", "close"}, NEW s \in Sessions,
             Post(r, kind, s)
      PROVE  WakeInv'
  BY <1>6 DEF Post
<1>7. ASSUME NEW r \in Reqs, WriteToAgent(r) PROVE WakeInv'
  BY <1>7 DEF WriteToAgent
<1>8. ASSUME NEW r \in Reqs, SignalAgent(r) PROVE WakeInv'
  BY <1>8 DEF SignalAgent
<1>9. CASE ReadInput
  BY <1>9 DEF ReadInput
<1>10. CASE WakeReader
  BY <1>10 DEF WakeReader
<1>11. ASSUME NEW r \in Reqs \cup {Initialize}, NEW ok \in BOOLEAN,
             AnswersRequest(r, ok)
      PROVE  WakeInv'
  BY <1>11 DEF AnswersRequest
<1>12. ASSUME NEW s \in Sessions \cup {None}, Notifies(s) PROVE WakeInv'
  BY <1>12 DEF Notifies
<1>13. CASE Garbles
  BY <1>13 DEF Garbles
<1>14. CASE AgentReturns
  BY <1>14 DEF AgentReturns
<1>15. CASE AgentSignals
  BY <1>15 DEF AgentSignals
<1>16. CASE ReadEnds
  BY <1>16 DEF ReadEnds
<1>17. CASE RejectLine
  BY <1>17 DEF RejectLine
<1>18. CASE HandOver
  BY <1>18 DEF HandOver
<1>19. CASE CheckClosed
  BY <1>19 DEF CheckClosed
<1>20. CASE RouteLine
  <2>1. PICK b \in Boxes : Push(b, routed)
    BY <1>20, RouteCases
  <2>2. UNCHANGED <<gpc, gbox, closed>>
    BY <1>20 DEF RouteLine
  <2> QED
    BY <2>1, <2>2 DEF Push
<1>21. ASSUME NEW g \in Gets, NEW s \in Sessions \cup {Conn}, Get(g, s)
      PROVE  WakeInv'
  BY <1>21 DEF Get
<1>22. ASSUME NEW g \in Gets, LeaseConnection(g) PROVE WakeInv'
  <2>1. Refused(g) \/ \E b \in Nat : Takes(g, b)
    BY <1>22, StreamTypes DEF LeaseConnection
  <2>2. UNCHANGED <<queue, signal, closed>>
    BY <1>22 DEF LeaseConnection
  <2> QED
    BY <2>1, <2>2 DEF Refused, Takes
<1>23. ASSUME NEW g \in Gets, LeaseSession(g) PROVE WakeInv'
  <2>1. Refused(g) \/ \E b \in Nat : Takes(g, b)
    BY <1>23, StreamTypes DEF LeaseSession, BoxOf
  <2>2. UNCHANGED <<queue, signal, closed>>
    BY <1>23 DEF LeaseSession
  <2> QED
    BY <2>1, <2>2 DEF Refused, Takes
<1>24. ASSUME NEW g \in Gets, SendFrame(g) PROVE WakeInv'
  BY <1>24 DEF SendFrame
<1>25. ASSUME NEW g \in Gets, NoFrame(g) PROVE WakeInv'
  BY <1>25 DEF NoFrame
<1>26. ASSUME NEW g \in Gets, WakeGet(g) PROVE WakeInv'
  <2>1. \A h \in Gets : gpc[h] = "wait" /\ gbox[h] = gbox[g] => h = g
    BY <1>26 DEF WakeGet, HeldInv, StreamsAreHeld, Streaming
  <2> QED
    BY <1>26, <2>1 DEF WakeGet
<1>27. ASSUME NEW g \in Gets, EndGet(g) PROVE WakeInv'
  BY <1>27 DEF EndGet
<1>28. ASSUME NEW g \in Gets, LeaveGet(g) PROVE WakeInv'
  BY <1>28 DEF LeaveGet
<1>29. ASSUME NEW g \in Gets, ReleaseGet(g) PROVE WakeInv'
  BY <1>29 DEF ReleaseGet
<1>30. CASE UNCHANGED vars
  BY <1>30
<1> QED
  BY <1>1, <1>2, <1>3, <1>4, <1>5, <1>6, <1>7, <1>8, <1>9, <1>10, <1>11, <1>12,
     <1>13, <1>14, <1>15, <1>16, <1>17, <1>18, <1>19, <1>20, <1>21, <1>22, <1>23,
     <1>24, <1>25, <1>26, <1>27, <1>28, <1>29, <1>30
     DEF Next, Serve, EndStep, PostStep, ReaderStep, AgentStep, RouterStep, GetStep,
         Ended

LEMMA FinalKept == TypeInv /\ EndInv /\ FinalInv /\ [Next]_vars => FinalInv'
<1> SUFFICES ASSUME TypeInv, EndInv, FinalInv, [Next]_vars PROVE FinalInv'
  OBVIOUS
<1>0. /\ queue \in [Boxes -> Seq(Frames)] /\ gbox \in [Gets -> Boxes]
      /\ gpc \in [Gets -> {"none", "lease", "refused", "over"} \cup Streaming]
      /\ final \subseteq Gets /\ complete \subseteq Gets
  BY DEF TypeInv, TypeOK
<1>a. closed => ender[endedBy] # "none" /\ (endedBy = "router" => router = "over")
  BY DEF EndInv
<1> USE <1>0, <1>a
    DEF vars, endVars, initVars, postVars, inboxVars, agentVars, routerVars,
        streamVars, boxVars, getVars, Forget, PostMoves, GetMoves, Writes, Reads,
        FinalInv, Late
<1>1. ASSUME NEW e \in Enders, Finish(e) PROVE FinalInv'
  BY <1>1 DEF Finish
<1>2. ASSUME NEW e \in Enders, CloseOut(e) PROVE FinalInv'
  BY <1>2 DEF CloseOut
<1>3. CASE Delete
  BY <1>3 DEF Delete
<1>4. CASE AnswerInitialize
  BY <1>4 DEF AnswerInitialize
<1>5. CASE DiscardConnection
  BY <1>5 DEF DiscardConnection
<1>6. ASSUME NEW r \in Reqs, NEW kind \in {"new", "load", "close"}, NEW s \in Sessions,
             Post(r, kind, s)
      PROVE  FinalInv'
  BY <1>6 DEF Post
<1>7. ASSUME NEW r \in Reqs, WriteToAgent(r) PROVE FinalInv'
  BY <1>7 DEF WriteToAgent
<1>8. ASSUME NEW r \in Reqs, SignalAgent(r) PROVE FinalInv'
  BY <1>8 DEF SignalAgent
<1>9. CASE ReadInput
  BY <1>9 DEF ReadInput
<1>10. CASE WakeReader
  BY <1>10 DEF WakeReader
<1>11. ASSUME NEW r \in Reqs \cup {Initialize}, NEW ok \in BOOLEAN,
             AnswersRequest(r, ok)
      PROVE  FinalInv'
  BY <1>11 DEF AnswersRequest
<1>12. ASSUME NEW s \in Sessions \cup {None}, Notifies(s) PROVE FinalInv'
  BY <1>12 DEF Notifies
<1>13. CASE Garbles
  BY <1>13 DEF Garbles
<1>14. CASE AgentReturns
  BY <1>14 DEF AgentReturns
<1>15. CASE AgentSignals
  BY <1>15 DEF AgentSignals
<1>16. CASE ReadEnds
  BY <1>16 DEF ReadEnds
<1>17. CASE RejectLine
  BY <1>17 DEF RejectLine
<1>18. CASE HandOver
  BY <1>18 DEF HandOver
<1>19. CASE CheckClosed
  BY <1>19 DEF CheckClosed
<1>20. CASE RouteLine
  <2>1. PICK b \in Boxes : Push(b, routed)
    BY <1>20, RouteCases
  <2>2. /\ UNCHANGED <<gpc, gbox, closed, endedBy, final, complete>>
        /\ router = "route" /\ router' = "read"
    BY <1>20 DEF RouteLine
  <2>3. \A c \in Boxes : Len(queue'[c]) <= Len(queue[c]) + 1
    BY <2>1 DEF Push
  <2> QED
    BY <2>2, <2>3
<1>21. ASSUME NEW g \in Gets, NEW s \in Sessions \cup {Conn}, Get(g, s)
      PROVE  FinalInv'
  BY <1>21 DEF Get
<1>22. ASSUME NEW g \in Gets, LeaseConnection(g) PROVE FinalInv'
  <2>1. Refused(g) \/ \E b \in Nat : Takes(g, b)
    BY <1>22, StreamTypes DEF LeaseConnection
  <2>2. UNCHANGED <<queue, router, closed, endedBy, final, complete>>
    BY <1>22 DEF LeaseConnection
  <2>3. \A h \in complete : gpc'[h] = gpc[h] /\ gbox'[h] = gbox[h]
    BY <2>1 DEF Refused, Takes
  <2> QED
    BY <2>2, <2>3
<1>23. ASSUME NEW g \in Gets, LeaseSession(g) PROVE FinalInv'
  <2>1. Refused(g) \/ \E b \in Nat : Takes(g, b)
    BY <1>23, StreamTypes DEF LeaseSession, BoxOf
  <2>2. UNCHANGED <<queue, router, closed, endedBy, final, complete>>
    BY <1>23 DEF LeaseSession
  <2>3. \A h \in complete : gpc'[h] = gpc[h] /\ gbox'[h] = gbox[h]
    BY <2>1 DEF Refused, Takes
  <2> QED
    BY <2>2, <2>3
<1>24. ASSUME NEW g \in Gets, SendFrame(g) PROVE FinalInv'
  <2>1. UNCHANGED <<router, closed, endedBy, gbox, final, complete>>
    BY <1>24 DEF SendFrame
  <2>2. \A c \in Boxes : Len(queue'[c]) <= Len(queue[c])
    BY <1>24 DEF SendFrame
  <2>3. \A h \in complete : gpc'[h] = gpc[h]
    BY <1>24 DEF SendFrame
  <2>4. \A c \in Boxes : Len(queue[c]) \in Nat /\ Len(queue'[c]) \in Nat
    BY <1>24 DEF SendFrame
  <2>5. ASSUME NEW h \in complete
        PROVE  Len(queue'[gbox[h]]) + Late <= IF endedBy = "router" THEN 0 ELSE 1
    <3>1. /\ gbox[h] \in Boxes /\ Late \in Nat
          /\ Len(queue[gbox[h]]) + Late <= IF endedBy = "router" THEN 0 ELSE 1
      OBVIOUS
    <3>2. /\ Len(queue'[gbox[h]]) <= Len(queue[gbox[h]])
          /\ Len(queue'[gbox[h]]) \in Nat /\ Len(queue[gbox[h]]) \in Nat
      BY <2>2, <2>4, <3>1
    <3>3. Late \in {0, 1}
      OBVIOUS
    <3> HIDE DEF Late
    <3>4. CASE endedBy = "router"
      BY <3>1, <3>2, <3>3, <3>4
    <3>5. CASE endedBy # "router"
      BY <3>1, <3>2, <3>3, <3>5
    <3> QED
      BY <3>4, <3>5
  <2> QED
    BY <2>1, <2>3, <2>5
<1>25. ASSUME NEW g \in Gets, NoFrame(g) PROVE FinalInv'
  <2>1. UNCHANGED <<queue, router, closed, endedBy, gbox, final>>
    BY <1>25 DEF NoFrame
  <2>2. CASE g \in final
    <3>1. /\ gpc' = [gpc EXCEPT ![g] = "release"] /\ complete' = complete \cup {g}
          /\ queue[gbox[g]] = <<>>
      BY <1>25, <2>2 DEF NoFrame
    <3>2. closed /\ (endedBy = "router" => router # "route")
      BY <2>2
    <3>3. Len(queue[gbox[g]]) + Late <= IF endedBy = "router" THEN 0 ELSE 1
      BY <3>1, <3>2
    <3> QED
      BY <2>1, <2>2, <3>1, <3>3
  <2>3. CASE g \notin final
    <3>1. gpc[g] = "send" /\ gpc' = [gpc EXCEPT ![g] = "wait"] /\ complete' = complete
      BY <1>25, <2>3 DEF NoFrame
    <3> QED
      BY <2>1, <3>1
  <2> QED
    BY <2>2, <2>3
<1>26. ASSUME NEW g \in Gets, WakeGet(g) PROVE FinalInv'
  BY <1>26 DEF WakeGet
<1>27. ASSUME NEW g \in Gets, EndGet(g) PROVE FinalInv'
  BY <1>27 DEF EndGet
<1>28. ASSUME NEW g \in Gets, LeaveGet(g) PROVE FinalInv'
  BY <1>28 DEF LeaveGet
<1>29. ASSUME NEW g \in Gets, ReleaseGet(g) PROVE FinalInv'
  BY <1>29 DEF ReleaseGet
<1>30. CASE UNCHANGED vars
  BY <1>30
<1> QED
  BY <1>1, <1>2, <1>3, <1>4, <1>5, <1>6, <1>7, <1>8, <1>9, <1>10, <1>11, <1>12,
     <1>13, <1>14, <1>15, <1>16, <1>17, <1>18, <1>19, <1>20, <1>21, <1>22, <1>23,
     <1>24, <1>25, <1>26, <1>27, <1>28, <1>29, <1>30
     DEF Next, Serve, EndStep, PostStep, ReaderStep, AgentStep, RouterStep, GetStep,
         Ended

(***************************************************************************)
(* The theorems.                                                           *)
(***************************************************************************)
LEMMA InitInv == Init => IInv
<1> SUFFICES ASSUME Init PROVE IInv
  OBVIOUS
<1> USE DEF Init
<1>1. TypeInv
  <2>1. /\ 0 \in Boxes /\ 0 \in 0..MaxNotes
        /\ queue \in [Boxes -> Seq(Frames)] /\ inbox \in Seq(Requests)
    BY BoundsAssumption DEF Boxes, Requests
  <2>2. TypeOK
    BY <2>1 DEF TypeOK, Enders, Streaming, Requests
  <2> QED
    BY <2>2 DEF TypeInv
<1>2. EndInv
  BY DEF EndInv, Enders
<1>3. ReaderInv
  BY DEF ReaderInv
<1>4. HeldInv
  <2>1. Unconfirmed = {}
    BY DEF Unconfirmed
  <2>2. IsFiniteSet(Unconfirmed) /\ Cardinality(Unconfirmed) <= MaxUnconfirmed
    BY <2>1, FS_EmptySet, BoundsAssumption
  <2>3. BoxInv
    BY DEF BoxInv, Streaming
  <2>4. StreamsAreHeld
    BY <2>1, <2>2 DEF StreamsAreHeld, Streaming
  <2> QED
    BY <2>2, <2>3, <2>4 DEF HeldInv
<1>5. WakeInv
  BY DEF WakeInv
<1>6. FinalInv
  BY DEF FinalInv
<1> QED
  BY <1>1, <1>2, <1>3, <1>4, <1>5, <1>6 DEF IInv

\* The inductive invariant: what every reachable state of every connection
\* satisfies, whatever its clients and its agent do.
THEOREM Inductive == Spec => []IInv
<1>1. IInv /\ [Next]_vars => IInv'
  BY TypeStep, EndKept, ReaderKept, HeldKept, WakeKept, FinalKept DEF IInv
<1> QED
  BY InitInv, <1>1, PTL DEF Spec

\* Every variable has its type (TypeOK), for every connection.
THEOREM TypeCorrect == Spec => []TypeOK
<1>1. IInv => TypeOK
  BY DEF IInv, TypeInv
<1> QED
  BY Inductive, <1>1, PTL

\* The one-slot signals of the streams and of the agent's input lose no wakeup
\* (WakeupsAreKept): who waits while something is queued will be woken.
THEOREM WakeupsStay == Spec => []WakeupsAreKept
<1>1. IInv => WakeupsAreKept
  BY DEF IInv, WakeInv, ReaderInv, WakeupsAreKept
<1> QED
  BY Inductive, <1>1, PTL

\* A stream has one subscriber at most, who keeps it until session/close, and
\* the unconfirmed streams are read and within their limit (StreamsAreHeld).
THEOREM StreamsStayHeld == Spec => []StreamsAreHeld
<1>1. IInv => StreamsAreHeld
  BY DEF IInv, HeldInv
<1> QED
  BY Inductive, <1>1, PTL

\* A subscriber that stays to the end is sent all the agent wrote, but for one
\* line that DELETE crosses (FinalSend).
THEOREM LastFramesAreSent == Spec => []FinalSend
<1>1. ASSUME IInv, NEW g \in complete
      PROVE  Len(queue[gbox[g]]) <= IF endedBy = "router" THEN 0 ELSE 1
  <2>1. /\ Len(queue[gbox[g]]) + Late <= IF endedBy = "router" THEN 0 ELSE 1
        /\ g \in Gets
    BY <1>1 DEF IInv, FinalInv, TypeInv, TypeOK
  <2>2. queue[gbox[g]] \in Seq(Frames)
    BY <1>1, <2>1 DEF IInv, TypeInv, TypeOK
  <2>3. Len(queue[gbox[g]]) \in Nat /\ Late \in {0, 1}
    BY <2>2 DEF Late
  <2> QED
    BY <2>1, <2>3
<1>2. IInv => FinalSend
  BY <1>1 DEF FinalSend
<1> QED
  BY Inductive, <1>2, PTL

\* A connection that has ended, or whose initialize POST did not return its ID,
\* is not found, and that POST fails for want of an answer only when the agent
\* had written none (InitializeIsSettled).
THEOREM InitializeSettles == Spec => []InitializeIsSettled
<1>1. IInv => InitializeIsSettled
  BY DEF IInv, EndInv, TypeInv, TypeOK, InitializeIsSettled
<1> QED
  BY Inductive, <1>1, PTL

(***************************************************************************)
(* The client of this library.                                             *)
(***************************************************************************)
\* What Write is given names a request and a session.
WritingTyped ==
  writing \in [req : Reqs, kind : {"new", "load", "close"}, session : Sessions] \cup {None}

LEMMA ClientStep ==
  ASSUME Gets = Sessions \cup {Conn}, WritingTyped, [ExchangeNext]_<<vars, clientVars>>
  PROVE  WritingTyped' /\ [Next]_vars
<1> USE DEF WritingTyped, clientVars
<1>1. CASE (Serve \/ Delete \/ Ended) /\ UNCHANGED clientVars
  BY <1>1 DEF Next
<1>2. CASE OpenConnection
  <2>1. \E g \in Gets : \E s \in Sessions \cup {Conn} : Get(g, s)
    BY <1>2 DEF OpenConnection
  <2>2. writing' = writing
    BY <1>2 DEF OpenConnection
  <2> QED
    BY <2>1, <2>2 DEF Next
<1>3. CASE EnsureStream
  <2>1. writing.session \in Sessions /\ writing' = writing
    BY <1>3 DEF EnsureStream
  <2>2. \E g \in Gets : \E s \in Sessions \cup {Conn} : Get(g, s)
    BY <1>3, <2>1 DEF EnsureStream
  <2> QED
    BY <2>1, <2>2 DEF Next
<1>4. CASE PostFrame
  <2>1. /\ writing.req \in Reqs /\ writing.kind \in {"new", "load", "close"}
        /\ writing.session \in Sessions /\ writing' = writing
    BY <1>4 DEF PostFrame
  <2>2. Post(writing.req, writing.kind, writing.session)
    BY <1>4 DEF PostFrame
  <2> QED
    BY <2>1, <2>2 DEF Next
<1>5. CASE EndWrite
  BY <1>5 DEF EndWrite
<1>6. ASSUME NEW r \in Reqs, NEW kind \in {"new", "load", "close"}, NEW s \in Sessions,
             BeginWrite(r, kind, s)
      PROVE  WritingTyped' /\ [Next]_vars
  BY <1>6 DEF BeginWrite
<1>7. ASSUME NEW s \in Sessions, OpenSession(s) PROVE WritingTyped' /\ [Next]_vars
  <2>1. Get(s, s) /\ writing' = writing
    BY <1>7 DEF OpenSession
  <2> QED
    BY <2>1 DEF Next
<1>8. ASSUME NEW g \in Gets, Receive(g) PROVE WritingTyped' /\ [Next]_vars
  <2>1. SendFrame(g) /\ writing' = writing
    BY <1>8 DEF Receive
  <2> QED
    BY <2>1 DEF Next
<1>9. ASSUME NEW g \in Gets, FailStream(g) PROVE WritingTyped' /\ [Next]_vars
  BY <1>9 DEF FailStream
<1>10. CASE UNCHANGED <<vars, clientVars>>
  BY <1>10
<1> QED
  BY <1>1, <1>2, <1>3, <1>4, <1>5, <1>6, <1>7, <1>8, <1>9, <1>10 DEF ExchangeNext

\* The server sees the client of this library as any other: whatever the client
\* does is a step of a connection, so what holds of the connection holds with
\* this client on it (dial, ensureStream and Write in client.go).
THEOREM ClientConnects == Gets = Sessions \cup {Conn} => (Exchange => Spec)
<1> SUFFICES ASSUME Gets = Sessions \cup {Conn} PROVE Exchange => Spec
  OBVIOUS
<1>1. ExchangeInit => Init /\ WritingTyped
  BY DEF ExchangeInit, WritingTyped
<1>2. WritingTyped /\ [ExchangeNext]_<<vars, clientVars>> => WritingTyped' /\ [Next]_vars
  BY ClientStep
<1> QED
  BY <1>1, <1>2, PTL DEF Exchange, Spec

\* With this client too no wakeup is lost, streams stay with their subscribers,
\* the last frames are sent, and initialize is settled.
THEOREM ClientIsServed ==
  Gets = Sessions \cup {Conn} =>
    (Exchange => [](WakeupsAreKept /\ StreamsAreHeld /\ FinalSend /\ InitializeIsSettled))
BY ClientConnects, WakeupsStay, StreamsStayHeld, LastFramesAreSent, InitializeSettles, PTL
===============================================================================
