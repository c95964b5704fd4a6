----------------------------- MODULE HttpExchange -----------------------------
(***************************************************************************)
(* The HTTP client of this library (transport/http/client.go) on the       *)
(* server's connection: it initializes, opens the connection stream, and a *)
(* session's before it sends the first message naming the session, or when *)
(* the answer to session/new names it.  A stream has one GET at most, so   *)
(* Gets == Sessions \cup {Conn} here.                                      *)
(***************************************************************************)
EXTENDS HttpStreams

VARIABLES
  streams, \* the keys of t.streams
  writing, \* the request in Write, or None
  opening, \* t.opening: the session/new requests to be answered
  failure  \* t.failure

clientVars == <<streams, writing, opening, failure>>

ExchangeInit ==
  Init /\ streams = {} /\ writing = None /\ opening = {} /\ failure = FALSE

\* ensureStream returns without error: the GET of the stream was accepted.
Ready(s) == gpc[s] \in Streaming \cup {"over"}

\* After initialize the client opens the connection stream.
OpenConnection ==
  /\ Conn \notin streams /\ Get(Conn, Conn) /\ streams' = streams \cup {Conn}
  /\ UNCHANGED <<writing, opening, failure>>

\* The connection writes one frame at a time.
BeginWrite(r, kind, s) ==
  /\ Ready(Conn) /\ writing = None /\ ~failure /\ post[r] = "none"
  /\ writing' = [req |-> r, kind |-> kind, session |-> s]
  /\ UNCHANGED <<vars, streams, opening, failure>>

\* One that names a session claims its stream and sends the GET, unless there
\* is an entry for it ...
EnsureStream ==
  LET s == writing.session IN
  /\ writing # None /\ writing.kind # "new"
  /\ s \notin streams /\ Get(s, s) /\ streams' = streams \cup {s}
  /\ UNCHANGED <<writing, opening, failure>>

\* ... and is posted when that is answered; session/new needs none ...
PostFrame ==
  LET w == writing IN
  /\ w # None /\ ~failure
  /\ w.kind # "new" => w.session \in streams /\ Ready(w.session)
  /\ Post(w.req, w.kind, w.session)
  /\ opening' = IF w.kind = "new" THEN opening \cup {w.req} ELSE opening
  /\ UNCHANGED <<streams, writing, failure>>

\* ... until the POST is answered, or the transport has failed.
EndWrite ==
  /\ writing # None
  /\ failure \/ post[writing.req] \in {"accepted", "refused"}
  /\ writing' = None /\ UNCHANGED <<vars, streams, opening, failure>>

\* A frame arrives.  The answer that opens a session claims its stream, and the
\* GET follows once it is delivered.
Receive(g) ==
  LET f == Head(queue[gbox[g]])
      opens == f.kind = "answer" /\ f.req \in opening
  IN
  /\ SendFrame(g)
  /\ IF gpc'[g] = "send" /\ opens
     THEN /\ opening' = opening \ {f.req}
          /\ streams' = streams \cup (IF f.ok THEN {req[f.req].session} ELSE {})
     ELSE UNCHANGED <<opening, streams>>
  /\ UNCHANGED <<writing, failure>>

OpenSession(s) == s \in streams \ {Conn} /\ Get(s, s) /\ UNCHANGED clientVars

\* A stream that is refused or ends fails the transport.
FailStream(g) ==
  /\ gpc[g] \in {"refused", "release", "over"} /\ ~failure /\ failure' = TRUE
  /\ UNCHANGED <<vars, streams, writing, opening>>

ExchangeNext ==
  \/ (Serve \/ Delete \/ Ended) /\ UNCHANGED clientVars
  \/ OpenConnection \/ EnsureStream \/ PostFrame \/ EndWrite
  \/ \E r \in Reqs, kind \in {"new", "load", "close"}, s \in Sessions :
       BeginWrite(r, kind, s)
  \/ \E s \in Sessions : OpenSession(s)
  \/ \E g \in Gets : Receive(g) \/ FailStream(g)

Exchange == ExchangeInit /\ [][ExchangeNext]_<<vars, clientVars>>

(***************************************************************************)
(* What the client's comment says of a session's stream.                   *)
(***************************************************************************)
Queued(r, b) == \E ok \in BOOLEAN, i \in DOMAIN queue[b] : queue[b][i] = AnswerFrame(r, ok)

\* The client that loads a session reads its stream, so the answer arrives
\* there, or on the connection stream: "Open the session's stream first, so it
\* sees everything the agent sends for the session, including a session/load
\* replay" (Write).
LoadIsHeard ==
  \A r \in Reqs, b \in Boxes :
    LET s == req[r].session IN
    req[r].kind = "load" /\ Queued(r, b) /\ gpc[s] \in {"send", "wait"} /\ ~closed
      => b \in {0, gbox[s]}
===============================================================================
