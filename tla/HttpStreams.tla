------------------------------ MODULE HttpStreams ------------------------------
(***************************************************************************)
(* One connection of the Streamable HTTP server (transport/http/server.go, *)
(* streams.go): the POST that initializes it, the POSTs that queue frames  *)
(* for the agent, the router that queues the agent's frames on the stream  *)
(* each belongs to, the GETs that lease a stream and write it out, and the *)
(* three ways a connection ends.                                           *)
(*                                                                         *)
(* A mailbox is a number: 0 is the connection stream, and a session stream *)
(* takes the next unused number, so a stream that is removed and made anew *)
(* is another mailbox.                                                     *)
(***************************************************************************)
EXTENDS Naturals, Sequences, FiniteSets

CONSTANTS
  Sessions,       \* the session IDs
  Conn,           \* what a GET with no session asks for
  Reqs,           \* the requests POSTed after initialize, IDs used once
  Initialize,     \* the initialize request
  Gets,           \* the GETs
  MaxUnconfirmed, \* maxUnconfirmedSessionStreams
  MaxBoxes,       \* how many session streams are ever made (a bound)
  MaxNotes,       \* how many notifications, or lines that are not UTF-8, the
                  \* agent sends (a bound)
  None

ASSUME BoundsAssumption == {MaxUnconfirmed, MaxBoxes, MaxNotes} \subseteq Nat
ASSUME NamesAssumption ==
  Conn \notin Sessions /\ Initialize \notin Reqs /\ None \notin Reqs \cup Sessions

Boxes == 0..MaxBoxes
Enders == {"delete", "post", "router"}

VARIABLES
  registered, \* the connection is in s.conns
  closed,     \* c.closed, and c.done is closed
  endedBy,    \* who closed it first (history)
  ender,      \* where DELETE or Server.Close, the initialize POST and the
              \* router are in ending it
  handed,     \* what the router put in c.initialized
  initPost,   \* what became of the initialize POST
  post,       \* where each POST is
  req,        \* what each request asks: "new", "load" or "close" a session
  inbox,      \* c.inbox
  inSignal,   \* c.inboxSignal
  agentGone,  \* c.agentGone
  reader,     \* where agentInput.Read is
  agent,      \* the agent: "run", "closing" its input, or "returned"
  taken,      \* the requests the agent read and has not answered
  notes,      \* how many of those it sent
  line,       \* the line the agent is writing
  outClosed,  \* c.out is closed for reading
  router,     \* where the router is
  routed,     \* the line it handles
  routes,     \* o.pending
  sessions,   \* o.sessions: the mailbox of each session, 0: none
  confirmed,  \* the confirmed ones
  boxes,      \* how many session streams were made
  gone,       \* those a successful session/close removed (history)
  queue,      \* the frames in each mailbox
  signal,     \* the mailboxes with a wakeup
  leased,     \* the mailboxes with a subscriber
  gpc,        \* where each GET is
  gfor,       \* the stream it asked for
  gbox,       \* the mailbox it leased
  final,      \* the GETs that deliver what was queued before the end
  complete    \* the GETs that left with nothing more to deliver (history)

endVars == <<registered, closed, endedBy, ender, outClosed>>
initVars == <<handed, initPost>>
postVars == <<post, req>>
inboxVars == <<inbox, inSignal, agentGone>>
agentVars == <<reader, agent, taken, notes, line>>
routerVars == <<router, routed>>
streamVars == <<sessions, confirmed, boxes, gone>>
boxVars == <<queue, signal>>
getVars == <<gpc, gfor, gbox, final, complete>>
vars == <<endVars, initVars, postVars, inboxVars, agentVars, routerVars, routes,
          streamVars, boxVars, leased, getVars>>

NoteFrame(s) == [kind |-> "note", session |-> s]
AnswerFrame(r, ok) == [kind |-> "answer", req |-> r, ok |-> ok]
BadLine == [kind |-> "bad"]

Init ==
  /\ registered = TRUE /\ closed = FALSE /\ endedBy = "none"
  /\ ender = [e \in Enders |-> "none"] /\ outClosed = FALSE
  /\ handed = None /\ initPost = "waiting"
  /\ post = [r \in Reqs |-> "none"]
  /\ req = [r \in Reqs |-> [kind |-> "none", session |-> None]]
  /\ inbox = <<Initialize>> /\ inSignal = FALSE /\ agentGone = FALSE
  /\ reader = "read" /\ agent = "run" /\ taken = {} /\ notes = 0 /\ line = None
  /\ router = "read" /\ routed = None /\ routes = {}
  /\ sessions = [s \in Sessions |-> 0] /\ confirmed = {} /\ boxes = 0 /\ gone = {}
  /\ queue = [b \in Boxes |-> <<>>] /\ signal = {} /\ leased = {}
  /\ gpc = [g \in Gets |-> "none"] /\ gfor = [g \in Gets |-> None]
  /\ gbox = [g \in Gets |-> 0]
  /\ final = {} /\ complete = {}

(***************************************************************************)
(* The end of a connection.                                                *)
(***************************************************************************)
\* Unregistered first ...
Forget(e) ==
  /\ registered' = FALSE
  /\ ender' = [ender EXCEPT ![e] = "finish"]
  /\ UNCHANGED <<closed, endedBy, outClosed>>

\* ... then its streams end ...
Finish(e) ==
  /\ ender[e] = "finish" /\ ender' = [ender EXCEPT ![e] = "close"]
  /\ closed' = TRUE /\ endedBy' = IF closed THEN endedBy ELSE e
  /\ UNCHANGED <<registered, outClosed, initVars, postVars, inboxVars, agentVars,
                 routerVars, routes, streamVars, boxVars, leased, getVars>>

\* ... and the agent's output is no longer read.
CloseOut(e) ==
  /\ ender[e] = "close" /\ ender' = [ender EXCEPT ![e] = "over"]
  /\ outClosed' = TRUE
  /\ UNCHANGED <<registered, closed, endedBy, initVars, postVars, inboxVars, agentVars,
                 routerVars, routes, streamVars, boxVars, leased, getVars>>

\* DELETE, or Server.Close: whoever takes the connection out of s.conns.
Delete ==
  /\ registered /\ ender["delete"] = "none" /\ Forget("delete")
  /\ UNCHANGED <<initVars, postVars, inboxVars, agentVars, routerVars, routes,
                 streamVars, boxVars, leased, getVars>>

(***************************************************************************)
(* The initialize POST.                                                    *)
(***************************************************************************)
\* Its client gets the agent's answer, with the connection ID ...
AnswerInitialize ==
  /\ initPost = "waiting" /\ handed # None /\ handed.ok
  /\ initPost' = "answered"
  /\ UNCHANGED <<endVars, handed, postVars, inboxVars, agentVars, routerVars, routes,
                 streamVars, boxVars, leased, getVars>>

\* Mutant: what the router handed over is not looked for at the end.
DiscardConnection_Hasty ==
  /\ initPost = "waiting"
  /\ \/ handed # None /\ ~handed.ok /\ initPost' = "rejected"
     \/ closed /\ initPost' = "failed"
     \/ initPost' = "aborted"
  /\ Forget("post")
  /\ UNCHANGED <<handed, postVars, inboxVars, agentVars, routerVars, routes,
                 streamVars, boxVars, leased, getVars>>

\* ... or an error, no answer, or is gone, and the connection is discarded.
DiscardConnection ==
  /\ initPost = "waiting"
  /\ \/ handed # None /\ ~handed.ok /\ initPost' = "rejected"
     \/ handed = None /\ closed /\ initPost' = "failed"
     \/ initPost' = "aborted"
  /\ Forget("post")
  /\ UNCHANGED <<handed, postVars, inboxVars, agentVars, routerVars, routes,
                 streamVars, boxVars, leased, getVars>>

(***************************************************************************)
(* A POST after it, and the agent's input.                                 *)
(***************************************************************************)
PostMoves(r, from, to) == post[r] = from /\ post' = [post EXCEPT ![r] = to]

\* handlePost looks the connection up and remembers how to route the response,
\* which nobody looks for before the frame is queued ...
Post(r, kind, s) ==
  /\ initPost = "answered"
  /\ PostMoves(r, "none", IF registered THEN "write" ELSE "refused")
  /\ req' = [req EXCEPT ![r] = [kind |-> kind, session |-> s]]
  /\ routes' = IF registered THEN routes \cup {r} ELSE routes
  /\ UNCHANGED <<endVars, initVars, inboxVars, agentVars, routerVars, streamVars,
                 boxVars, leased, getVars>>

\* ... queues the frame, unless the agent is gone ...
WriteToAgent(r) ==
  /\ IF closed \/ agentGone
     THEN PostMoves(r, "write", "refused") /\ UNCHANGED inbox
     ELSE PostMoves(r, "write", "signal") /\ inbox' = Append(inbox, r)
  /\ UNCHANGED <<endVars, initVars, req, inSignal, agentGone, agentVars, routerVars,
                 routes, streamVars, boxVars, leased, getVars>>

\* ... and wakes the agent's reader.
SignalAgent(r) ==
  /\ PostMoves(r, "signal", "accepted") /\ inSignal' = TRUE
  /\ UNCHANGED <<endVars, initVars, req, inbox, agentGone, agentVars, routerVars,
                 routes, streamVars, boxVars, leased, getVars>>

\* agentInput.Read looks for a frame ...
ReadInput ==
  /\ reader = "read"
  /\ IF closed \/ agentGone THEN reader' = "eof" /\ UNCHANGED <<inbox, taken>>
     ELSE IF inbox = <<>> THEN reader' = "wait" /\ UNCHANGED <<inbox, taken>>
     ELSE /\ taken' = taken \cup {Head(inbox)} /\ inbox' = Tail(inbox)
          /\ UNCHANGED reader
  /\ UNCHANGED <<endVars, initVars, postVars, inSignal, agentGone, agent, notes, line,
                 routerVars, routes, streamVars, boxVars, leased, getVars>>

\* ... or waits for one, or for the end.
WakeReader ==
  /\ reader = "wait" /\ (inSignal \/ closed)
  /\ reader' = "read"
  /\ inSignal' \in {FALSE} \cup (IF closed THEN {inSignal} ELSE {})
  /\ UNCHANGED <<endVars, initVars, postVars, inbox, agentGone, agent, taken, notes,
                 line, routerVars, routes, streamVars, boxVars, leased, getVars>>

(***************************************************************************)
(* The agent (Entry.Serve), which writes one line at a time.               *)
(***************************************************************************)
Writes(f) == agent = "run" /\ line = None /\ ~outClosed /\ line' = f

AnswersRequest(r, ok) ==
  /\ r \in taken /\ Writes(AnswerFrame(r, ok)) /\ taken' = taken \ {r}
  /\ UNCHANGED <<endVars, initVars, postVars, inboxVars, reader, agent, notes,
                 routerVars, routes, streamVars, boxVars, leased, getVars>>

Notifies(s) ==
  /\ notes < MaxNotes /\ Writes(NoteFrame(s)) /\ notes' = notes + 1
  /\ UNCHANGED <<endVars, initVars, postVars, inboxVars, reader, agent, taken,
                 routerVars, routes, streamVars, boxVars, leased, getVars>>

\* It writes a line that is not UTF-8.
Garbles ==
  /\ notes < MaxNotes /\ Writes(BadLine) /\ notes' = notes + 1
  /\ UNCHANGED <<endVars, initVars, postVars, inboxVars, reader, agent, taken,
                 routerVars, routes, streamVars, boxVars, leased, getVars>>

\* It returns: its input is closed and what it has not read dropped ...
AgentReturns ==
  /\ agent = "run" /\ (line = None \/ outClosed)
  /\ agent' = "closing" /\ agentGone' = TRUE /\ inbox' = <<>>
  /\ UNCHANGED <<endVars, initVars, postVars, inSignal, reader, taken, notes, line,
                 routerVars, routes, streamVars, boxVars, leased, getVars>>

\* ... the reader is woken, and its output closed.
AgentSignals ==
  /\ agent = "closing" /\ agent' = "returned" /\ inSignal' = TRUE
  /\ UNCHANGED <<endVars, initVars, postVars, inbox, agentGone, reader, taken, notes,
                 line, routerVars, routes, streamVars, boxVars, leased, getVars>>

(***************************************************************************)
(* The router.                                                             *)
(***************************************************************************)
\* The router reads a line, once it has handled the last.
Reads(f) == router = "read" /\ ~outClosed /\ line = f /\ line' = None

\* The agent's output ended: every line of it is queued.
ReadEnds ==
  /\ router = "read" /\ (outClosed \/ (agent = "returned" /\ line = None))
  /\ router' = "over" /\ Forget("router")
  /\ UNCHANGED <<initVars, postVars, inboxVars, agentVars, routed, routes, streamVars,
                 boxVars, leased, getVars>>

\* A line that is not UTF-8 ends the connection.
RejectLine ==
  /\ Reads(BadLine) /\ router' = "over" /\ Forget("router")
  /\ UNCHANGED <<initVars, postVars, inboxVars, reader, agent, taken, notes, routed,
                 routes, streamVars, boxVars, leased, getVars>>

InitializeAnswers == {AnswerFrame(Initialize, ok) : ok \in BOOLEAN}

\* The answer to initialize goes to the POST that waits for it.
HandOver ==
  /\ line \in InitializeAnswers /\ Reads(line) /\ handed' = line
  /\ UNCHANGED <<endVars, initPost, postVars, inboxVars, reader, agent, taken, notes,
                 routerVars, routes, streamVars, boxVars, leased, getVars>>

\* Mutant: lines are routed even when the connection has ended.
CheckClosed_Not ==
  /\ line \notin InitializeAnswers \cup {None, BadLine} /\ Reads(line)
  /\ router' = "route" /\ routed' = line
  /\ UNCHANGED <<endVars, initVars, postVars, inboxVars, reader, agent, taken, notes,
                 routes, streamVars, boxVars, leased, getVars>>

\* Nothing is routed once the connection has ended, but for a line that was
\* looked at just before.
CheckClosed ==
  /\ line \notin InitializeAnswers \cup {None, BadLine} /\ Reads(line)
  /\ IF closed THEN UNCHANGED routerVars ELSE router' = "route" /\ routed' = line
  /\ UNCHANGED <<endVars, initVars, postVars, inboxVars, reader, agent, taken, notes,
                 routes, streamVars, boxVars, leased, getVars>>

Push(b, f) ==
  /\ queue' = [queue EXCEPT ![b] = Append(@, f)] /\ signal' = signal \cup {b}

\* confirm makes the session known, and its stream if it has none.
BoxOf(s) == IF sessions[s] = 0 THEN boxes + 1 ELSE sessions[s]
Confirm(s) ==
  /\ sessions' = [sessions EXCEPT ![s] = BoxOf(s)]
  /\ confirmed' = confirmed \cup {s}
  /\ boxes < MaxBoxes \/ sessions[s] # 0
  /\ boxes' = IF sessions[s] = 0 THEN boxes + 1 ELSE boxes
  /\ UNCHANGED gone

\* A notification goes to the session it names.
RouteNote(s) ==
  IF s = None THEN Push(0, routed) /\ UNCHANGED <<routes, streamVars>>
  ELSE Confirm(s) /\ Push(BoxOf(s), routed) /\ UNCHANGED routes

\* The response to a request that is not scoped goes to the connection stream;
\* a session it opens is known first.
RouteUnscoped(r, ok) ==
  /\ Push(0, routed)
  /\ IF ok THEN Confirm(req[r].session) ELSE UNCHANGED streamVars

\* A scoped one goes to the session's stream, if there is one; a success
\* makes the session known.
RouteScoped(r, ok) ==
  /\ Push(sessions[req[r].session], routed)
  /\ IF ok THEN Confirm(req[r].session) ELSE UNCHANGED streamVars

\* The success of session/close removes the stream; the response goes there
\* only if somebody reads it.
RouteClose(r) ==
  LET s == req[r].session IN
  /\ Push(IF sessions[s] \in leased THEN sessions[s] ELSE 0, routed)
  /\ sessions' = [sessions EXCEPT ![s] = 0]
  /\ confirmed' = confirmed \ {s} /\ gone' = gone \cup ({sessions[s]} \ {0})
  /\ UNCHANGED boxes

RouteAnswer(r, ok) ==
  IF r \notin routes THEN Push(0, routed) /\ UNCHANGED <<routes, streamVars>>
  ELSE /\ routes' = routes \ {r}
       /\ CASE req[r].kind = "new" -> RouteUnscoped(r, ok)
            [] req[r].kind = "close" /\ ok -> RouteClose(r)
            [] OTHER -> RouteScoped(r, ok)

RouteLine ==
  /\ router = "route" /\ router' = "read" /\ routed' = None
  /\ IF routed.kind = "note" THEN RouteNote(routed.session)
     ELSE RouteAnswer(routed.req, routed.ok)
  /\ UNCHANGED <<endVars, initVars, postVars, inboxVars, agentVars, leased, getVars>>

(***************************************************************************)
(* A GET.                                                                  *)
(***************************************************************************)
GetMoves(g, from, to) == gpc[g] = from /\ gpc' = [gpc EXCEPT ![g] = to]

\* handleGet looks the connection up ...
Get(g, s) ==
  /\ initPost = "answered"
  /\ GetMoves(g, "none", IF registered THEN "lease" ELSE "refused")
  /\ gfor' = [gfor EXCEPT ![g] = s]
  /\ UNCHANGED <<endVars, initVars, postVars, inboxVars, agentVars, routerVars, routes,
                 streamVars, boxVars, leased, gbox, final, complete>>

Takes(g, b) ==
  /\ GetMoves(g, "lease", "send")
  /\ gbox' = [gbox EXCEPT ![g] = b] /\ leased' = leased \cup {b}

Refused(g) == GetMoves(g, "lease", "refused") /\ UNCHANGED <<gbox, leased>>

Unconfirmed == {s \in Sessions : sessions[s] # 0 /\ s \notin confirmed}

\* ... and leases the connection stream, unless it is leased ...
LeaseConnection(g) ==
  /\ gfor[g] = Conn
  /\ IF 0 \in leased THEN Refused(g) ELSE Takes(g, 0)
  /\ UNCHANGED <<endVars, initVars, postVars, inboxVars, agentVars, routerVars, routes,
                 streamVars, boxVars, gfor, final, complete>>

\* ... or the session's, which it makes while few are unconfirmed ...
LeaseSession(g) ==
  LET s == gfor[g] IN
  /\ s \in Sessions
  /\ IF \/ sessions[s] = 0 /\ Cardinality(Unconfirmed) >= MaxUnconfirmed
        \/ sessions[s] # 0 /\ sessions[s] \in leased
     THEN Refused(g) /\ UNCHANGED streamVars
     ELSE /\ boxes < MaxBoxes \/ sessions[s] # 0
          /\ Takes(g, BoxOf(s))
          /\ sessions' = [sessions EXCEPT ![s] = BoxOf(s)]
          /\ boxes' = IF sessions[s] = 0 THEN boxes + 1 ELSE boxes
          /\ UNCHANGED <<confirmed, gone>>
  /\ UNCHANGED <<endVars, initVars, postVars, inboxVars, agentVars, routerVars, routes,
                 boxVars, gfor, final, complete>>

\* Mutant: a wakeup is good for one frame.
SendFrame_Once(g) ==
  LET b == gbox[g] IN
  /\ queue[b] # <<>>
  /\ GetMoves(g, "send", "wait") \/ GetMoves(g, "send", "release")
  /\ queue' = [queue EXCEPT ![b] = Tail(@)]
  /\ UNCHANGED <<endVars, initVars, postVars, inboxVars, agentVars, routerVars, routes,
                 streamVars, signal, leased, gfor, gbox, final, complete>>

\* ... takes the oldest frame, if there is one, and writes it, or fails to and
\* loses it ...
SendFrame(g) ==
  LET b == gbox[g] IN
  /\ queue[b] # <<>>
  /\ GetMoves(g, "send", "send") \/ GetMoves(g, "send", "release")
  /\ queue' = [queue EXCEPT ![b] = Tail(@)]
  /\ UNCHANGED <<endVars, initVars, postVars, inboxVars, agentVars, routerVars, routes,
                 streamVars, signal, leased, gfor, gbox, final, complete>>

\* ... and when there is none waits, or leaves if that was the last send ...
NoFrame(g) ==
  /\ queue[gbox[g]] = <<>>
  /\ IF g \in final
     THEN GetMoves(g, "send", "release") /\ complete' = complete \cup {g}
     ELSE GetMoves(g, "send", "wait") /\ UNCHANGED complete
  /\ UNCHANGED <<endVars, initVars, postVars, inboxVars, agentVars, routerVars, routes,
                 streamVars, boxVars, leased, gfor, gbox, final>>

\* ... for a wakeup ...
WakeGet(g) ==
  /\ gbox[g] \in signal /\ GetMoves(g, "wait", "send")
  /\ signal' = signal \ {gbox[g]}
  /\ UNCHANGED <<endVars, initVars, postVars, inboxVars, agentVars, routerVars, routes,
                 streamVars, queue, leased, gfor, gbox, final, complete>>

\* Mutant: a subscriber leaves as the connection ends, whatever is queued.
EndGet_Leave(g) ==
  /\ closed /\ GetMoves(g, "wait", "release") /\ complete' = complete \cup {g}
  /\ UNCHANGED <<endVars, initVars, postVars, inboxVars, agentVars, routerVars, routes,
                 streamVars, boxVars, leased, gfor, gbox, final>>

\* ... or for the end, and delivers what was queued before it ...
EndGet(g) ==
  /\ closed /\ GetMoves(g, "wait", "send") /\ final' = final \cup {g}
  /\ UNCHANGED <<endVars, initVars, postVars, inboxVars, agentVars, routerVars, routes,
                 streamVars, boxVars, leased, gfor, gbox, complete>>

\* ... or for its client to leave.
LeaveGet(g) ==
  /\ GetMoves(g, "wait", "release")
  /\ UNCHANGED <<endVars, initVars, postVars, inboxVars, agentVars, routerVars, routes,
                 streamVars, boxVars, leased, gfor, gbox, final, complete>>

\* Mutant: the stream of a session is forgotten whichever it is.
ReleaseGet_Any(g) ==
  LET s == gfor[g] IN
  /\ GetMoves(g, "release", "over") /\ leased' = leased \ {gbox[g]}
  /\ sessions' = IF s \in Sessions \ confirmed THEN [sessions EXCEPT ![s] = 0]
                 ELSE sessions
  /\ UNCHANGED <<endVars, initVars, postVars, inboxVars, agentVars, routerVars, routes,
                 confirmed, boxes, gone, boxVars, gfor, gbox, final, complete>>

\* It releases the stream; an unconfirmed one is forgotten, unless the session
\* has got another meanwhile.
ReleaseGet(g) ==
  LET s == gfor[g] IN
  /\ GetMoves(g, "release", "over") /\ leased' = leased \ {gbox[g]}
  /\ sessions' = IF s \in Sessions \ confirmed /\ sessions[s] = gbox[g]
                 THEN [sessions EXCEPT ![s] = 0] ELSE sessions
  /\ UNCHANGED <<endVars, initVars, postVars, inboxVars, agentVars, routerVars, routes,
                 confirmed, boxes, gone, boxVars, gfor, gbox, final, complete>>

(***************************************************************************)
(* The specification, with any HTTP client.                                *)
(***************************************************************************)
EndStep == \E e \in Enders : Finish(e) \/ CloseOut(e)
PostStep(r) == WriteToAgent(r) \/ SignalAgent(r)
ReaderStep == ReadInput \/ WakeReader
AgentStep ==
  \/ \E r \in Reqs \cup {Initialize}, ok \in BOOLEAN : AnswersRequest(r, ok)
  \/ \E s \in Sessions \cup {None} : Notifies(s)
  \/ Garbles \/ AgentReturns \/ AgentSignals
RouterStep ==
  ReadEnds \/ RejectLine \/ HandOver \/ CheckClosed \/ RouteLine
GetStep(g) ==
  \/ LeaseConnection(g) \/ LeaseSession(g) \/ NoFrame(g)
  \/ WakeGet(g) \/ EndGet(g) \/ ReleaseGet(g)

\* What the server does but for sending frames.
Serve ==
  \/ AnswerInitialize \/ DiscardConnection \/ EndStep \/ ReaderStep \/ AgentStep
  \/ RouterStep
  \/ \E r \in Reqs : PostStep(r)
  \/ \E g \in Gets : GetStep(g)

\* Everything has ended.
Ended ==
  /\ closed /\ reader = "eof" /\ agent = "returned" /\ router = "over"
  /\ \A e \in Enders : ender[e] \in {"none", "over"}
  /\ \A g \in Gets : gpc[g] \in {"none", "refused", "over"}
  /\ UNCHANGED vars

Next ==
  \/ Serve \/ Delete \/ Ended
  \/ \E g \in Gets : SendFrame(g)
  \/ \E r \in Reqs, kind \in {"new", "load", "close"}, s \in Sessions : Post(r, kind, s)
  \/ \E g \in Gets : LeaveGet(g) \/ \E s \in Sessions \cup {Conn} : Get(g, s)

Spec == Init /\ [][Next]_vars

(***************************************************************************)
(* Properties.                                                             *)
(***************************************************************************)
Requests == Reqs \cup {Initialize}
Frames ==
  [kind : {"note"}, session : Sessions \cup {None}]
    \cup [kind : {"answer"}, req : Requests, ok : BOOLEAN] \cup {BadLine}
Streaming == {"send", "wait", "release"}

\* Every variable has its type, and unconfirmed streams their limit.
TypeOK ==
  /\ {registered, closed, outClosed, inSignal, agentGone} \subseteq BOOLEAN
  /\ endedBy \in Enders \cup {"none"}
  /\ ender \in [Enders -> {"none", "finish", "close", "over"}]
  /\ handed \in Frames \cup {None}
  /\ initPost \in {"waiting", "answered", "rejected", "failed", "aborted"}
  /\ post \in [Reqs -> {"none", "write", "signal", "accepted", "refused"}]
  /\ req \in [Reqs -> [kind : {"none", "new", "load", "close"},
                       session : Sessions \cup {None}]]
  /\ inbox \in Seq(Requests) /\ taken \subseteq Requests /\ notes \in 0..MaxNotes
  /\ reader \in {"read", "wait", "eof"} /\ agent \in {"run", "closing", "returned"}
  /\ {line, routed} \subseteq Frames \cup {None}
  /\ router \in {"read", "route", "over"} /\ routes \subseteq Reqs
  /\ sessions \in [Sessions -> Boxes] /\ confirmed \subseteq Sessions
  /\ boxes \in Boxes /\ gone \subseteq Boxes /\ queue \in [Boxes -> Seq(Frames)]
  /\ signal \subseteq Boxes /\ leased \subseteq Boxes
  /\ gpc \in [Gets -> {"none", "lease", "refused", "over"} \cup Streaming]
  /\ gfor \in [Gets -> Sessions \cup {Conn, None}] /\ gbox \in [Gets -> Boxes]
  /\ final \subseteq Gets /\ complete \subseteq Gets

\* A subscriber that waits while frames are queued for it has a wakeup, and so
\* has the agent's reader, or whoever queued for it is about to send one: the
\* one-slot signals lose none, whichever subscriber took the last.
WakeupsAreKept ==
  /\ \A g \in Gets : gpc[g] = "wait" /\ queue[gbox[g]] # <<>> =>
       gbox[g] \in signal \/ closed
  /\ reader = "wait" /\ (inbox # <<>> \/ agentGone) =>
       \/ inSignal \/ closed \/ agent = "closing"
       \/ \E r \in Reqs : post[r] = "signal"

\* A stream has one subscriber at most; a subscriber keeps the stream of its
\* session until session/close removes it, whatever the others do; and streams
\* of sessions the agent has not named are within the limit and have a subscriber
\* each, so that what clients hold they read.
StreamsAreHeld ==
  /\ \A g, h \in Gets :
       gpc[g] \in Streaming /\ gpc[h] \in Streaming /\ gbox[g] = gbox[h] => g = h
  /\ \A g \in Gets : gpc[g] \in Streaming /\ gfor[g] \in Sessions =>
       sessions[gfor[g]] = gbox[g] \/ gbox[g] \in gone
  /\ \A s \in Unconfirmed : sessions[s] \in leased
  /\ Cardinality(Unconfirmed) <= MaxUnconfirmed

\* A subscriber that stays to the end leaves nothing behind if the agent ended
\* the connection, by returning or with a line that is not UTF-8: what it wrote
\* before is delivered.  DELETE can cross one line that is being routed.
FinalSend ==
  \A g \in complete : Len(queue[gbox[g]]) <= IF endedBy = "router" THEN 0 ELSE 1

\* A connection that has ended, or whose initialize POST did not return its
\* ID, is not found by later requests; and that POST fails for want of an
\* answer only if the agent had written none ("the router hands over the
\* response before it finishes").
InitializeIsSettled ==
  /\ closed \/ initPost \notin {"waiting", "answered"} => ~registered
  /\ initPost = "failed" /\ endedBy = "router" => handed = None
===============================================================================
