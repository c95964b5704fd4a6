---------------------------- MODULE MCHttpExchange ----------------------------
EXTENDS HttpExchange

\* A client that loads a session, closes it and loads it again, each time after
\* the answer to what it asked before, and an agent that grants it all and
\* replays the session the second time.
Story == <<"load", "close", "load">>

Answered(r) ==
  /\ post[r] = "accepted" /\ r \notin taken /\ inbox = <<>>
  /\ line = None /\ routed = None /\ \A b \in Boxes : ~Queued(r, b)

InStory ==
  /\ registered /\ agent = "run" /\ ~failure
  /\ line # BadLine /\ \A r \in Reqs : line # AnswerFrame(r, FALSE)
  /\ \A g \in Gets : gpc[g] # "release"
  /\ writing # None => writing.kind = Story[writing.req]
  /\ \A r \in Reqs : writing # None /\ r < writing.req /\ post[writing.req] = "none"
                       => Answered(r)
  /\ notes > 0 => req[3].kind = "load" /\ line # NoteFrame(None)
===============================================================================
