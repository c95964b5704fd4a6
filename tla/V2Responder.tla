----------------------------- MODULE V2Responder -------------------------------
(***************************************************************************)
(* The agent's side of the v2 handshake (v2/agent/runtime.go): the guards  *)
(* its connection runs on the read loop for what arrives and under         *)
(* sendLock for what is sent, and the initialize handler between them.     *)
(* A frame is its kind, the number of the initialization its sender goes   *)
(* by (its era), and for an answer the result.                             *)
(***************************************************************************)
EXTENDS Naturals, Sequences

CONSTANTS
  MaxEra,   \* the initialize requests of a client (a bound)
  MaxSends, \* the frames the agent sends of its own accord (a bound)
  MaxFrames \* the frames in flight, and requests served, when alone (a bound)

Frame(kind, e, result) == [kind |-> kind, era |-> e, result |-> result]
NoFrame == Frame("none", 0, "none")
Frames == [kind : {"none", "initialize", "initialized", "request", "notify",
                   "cancel", "response"},
           era : 0..MaxEra, result : {"none", "ok", "odd", "error"}]

VARIABLES
  state,        \* "uninitialized", "initializing" or "ready"
  initialized,  \* an initialize has completed
  repeatable,   \* a completed initialize may still be repeated
  pending,      \* the initialize whose response is about to be queued, 0: none
  sent,         \* the initialization in force, 0: none
  handler,      \* the initialize task: "none", "run" or "answer"
  attempt,      \* the initialize request it serves
  requests,     \* how many other requests are being handled
  hand,         \* the frame built under sendLock and not yet queued
  out,          \* the frames queued for the client
  sends,        \* how many frames the agent sent of its own accord
  admitted,     \* the kinds of frames admitted (history)
  refused,      \* the kinds of frames refused (history)
  stale         \* an admitted frame was of another era (history)

lifecycle == <<state, initialized, repeatable, pending, sent>>
tasks == <<handler, attempt, requests>>
history == <<admitted, refused, stale>>
vars == <<lifecycle, tasks, hand, out, sends, history>>

Init ==
  /\ state = "uninitialized" /\ initialized = FALSE /\ repeatable = FALSE
  /\ pending = 0 /\ sent = 0
  /\ handler = "none" /\ attempt = 0 /\ requests = 0
  /\ hand = NoFrame /\ out = <<>> /\ sends = 0
  /\ admitted = {} /\ refused = {} /\ stale = FALSE

\* ensure_initialized, and for a notification ensure_notification_allowed.
Allowed(kind) ==
  state = "ready" \/ (kind = "cancel" /\ state = "initializing")

LockFree == hand = NoFrame

(***************************************************************************)
(* What arrives, on the read loop.                                         *)
(***************************************************************************)
\* A refused request is answered by the read loop, which takes sendLock.
Refuse(m) ==
  /\ refused' = refused \cup {m.kind}
  /\ IF m.kind \in {"initialize", "request"}
     THEN LockFree /\ out' = Append(out,
            Frame(IF m.kind = "request" THEN "response" ELSE "initialized",
                  m.era, "error"))
     ELSE UNCHANGED out
  /\ UNCHANGED <<lifecycle, tasks, hand, sends, admitted, stale>>

Admit(m) ==
  /\ admitted' = admitted \cup {m.kind}
  /\ stale' = (stale \/ m.era # sent)
  /\ UNCHANGED <<hand, out, sends, refused>>

\* beginInitialize refuses one in progress, and a repeat once another request
\* was admitted.
MayBegin == state # "initializing" /\ (state = "ready" => repeatable)

ReceiveInitialize(m) ==
  /\ m.kind = "initialize"
  /\ IF MayBegin
     THEN /\ state' = "initializing" /\ repeatable' = FALSE
          /\ handler' = "run" /\ attempt' = m.era
          /\ UNCHANGED <<initialized, pending, sent, requests, hand, out, sends,
                         history>>
     ELSE Refuse(m)

ReceiveRequest(m) ==
  /\ m.kind = "request"
  /\ IF state = "ready"
     THEN /\ repeatable' = FALSE
          /\ requests' = requests + 1
          /\ Admit(m)
          /\ UNCHANGED <<state, initialized, pending, sent, handler, attempt>>
     ELSE Refuse(m)

\* A notification, or the answer to a request of the agent; an error passes.
ReceiveOther(m) ==
  /\ m.kind \in {"notify", "cancel", "response"}
  /\ IF Allowed(m.kind) \/ m.result = "error"
     THEN /\ IF m.kind = "cancel" \/ m.result = "error"
             THEN UNCHANGED <<hand, out, sends, history>>
             ELSE Admit(m)
          /\ UNCHANGED <<lifecycle, tasks>>
     ELSE Refuse(m)

Receive(m) == ReceiveInitialize(m) \/ ReceiveRequest(m) \/ ReceiveOther(m)

(***************************************************************************)
(* The initialize handler and its response.                                *)
(***************************************************************************)
\* The handler's answer is validated and kept until it is queued; or the
\* handler fails, is cancelled or panics, or its answer is not valid.
HandlerReturns ==
  /\ handler = "run"
  /\ handler' = "answer"
  /\ pending' \in {attempt, 0}
  /\ UNCHANGED <<state, initialized, repeatable, sent, attempt, requests, hand,
                 out, sends, history>>

\* Mutant: a failed repeat leaves nothing in place.
AnswerInitialize_Reset ==
  /\ handler = "answer" /\ LockFree
  /\ handler' = "none" /\ pending' = 0
  /\ IF pending # 0
     THEN /\ state' = "ready" /\ initialized' = TRUE /\ repeatable' = TRUE
          /\ sent' = pending
          /\ \E r \in {"ok", "odd"} : hand' = Frame("initialized", pending, r)
     ELSE /\ state' = "uninitialized"
          /\ UNCHANGED <<initialized, repeatable, sent>>
          /\ hand' = Frame("initialized", attempt, "error")
  /\ UNCHANGED <<attempt, requests, out, sends, history>>

\* outgoingResponse, under sendLock: the initialization completes, or the one
\* before it, if any, is in force again.  An extended result ("odd") may be
\* one the client does not accept.
AnswerInitialize ==
  /\ handler = "answer" /\ LockFree
  /\ handler' = "none" /\ pending' = 0
  /\ IF pending # 0
     THEN /\ state' = "ready" /\ initialized' = TRUE /\ repeatable' = TRUE
          /\ sent' = pending
          /\ \E r \in {"ok", "odd"} : hand' = Frame("initialized", pending, r)
     ELSE /\ state' = IF initialized THEN "ready" ELSE "uninitialized"
          /\ repeatable' = initialized
          /\ UNCHANGED <<initialized, sent>>
          /\ hand' = Frame("initialized", attempt, "error")
  /\ UNCHANGED <<attempt, requests, out, sends, history>>

(***************************************************************************)
(* What the agent sends.                                                   *)
(***************************************************************************)
\* The answer to another request; a success is refused unless ready.
AnswerRequest ==
  /\ requests > 0 /\ LockFree
  /\ requests' = requests - 1
  /\ hand' = Frame("response", sent, IF Allowed("response") THEN "ok" ELSE "error")
  /\ UNCHANGED <<lifecycle, handler, attempt, out, sends, history>>

\* A request or a notification is admitted under sendLock ...
Send(kind) ==
  /\ LockFree /\ sends < MaxSends
  /\ Allowed(kind)
  /\ sends' = sends + 1
  /\ hand' = Frame(kind, sent, "none")
  /\ UNCHANGED <<lifecycle, tasks, out, history>>

\* ... and queued before the lock is released, whatever the read loop did in
\* between ...
Queue ==
  /\ ~LockFree
  /\ out' = Append(out, hand) /\ hand' = NoFrame
  /\ UNCHANGED <<lifecycle, tasks, sends, history>>

\* ... or its caller's context ends while the queue is full.
GiveUp ==
  /\ hand.kind \in {"request", "notify", "cancel"}
  /\ hand' = NoFrame
  /\ UNCHANGED <<lifecycle, tasks, out, sends, history>>

Local ==
  \/ HandlerReturns \/ AnswerInitialize \/ AnswerRequest
  \/ \E kind \in {"request", "notify", "cancel"} : Send(kind)
  \/ Queue \/ GiveUp

(***************************************************************************)
(* The responder alone, with a client that may send anything at any time.  *)
(***************************************************************************)
Incoming ==
  {Frame("initialize", e, "none") : e \in 1..MaxEra}
  \cup {Frame(kind, 0, "none") : kind \in {"request", "notify", "cancel"}}
  \cup {Frame("response", 0, r) : r \in {"ok", "error"}}

Arrives ==
  /\ Len(out) < MaxFrames /\ requests < MaxFrames
  /\ \E m \in Incoming : Receive(m)

ClientReads ==
  /\ out # <<>> /\ out' = Tail(out)
  /\ UNCHANGED <<lifecycle, tasks, hand, sends, history>>

Next == Arrives \/ ClientReads \/ Local

Spec == Init /\ [][Next]_vars

(***************************************************************************)
(* Properties.                                                             *)
(***************************************************************************)
\* Every variable has its type.
TypeOK ==
  /\ state \in {"uninitialized", "initializing", "ready"}
  /\ {initialized, repeatable, stale} \subseteq BOOLEAN
  /\ {pending, sent, attempt} \subseteq 0..MaxEra
  /\ handler \in {"none", "run", "answer"}
  /\ requests \in Nat /\ sends \in 0..MaxSends
  /\ hand \in Frames /\ out \in Seq(Frames)
  /\ admitted \subseteq {f.kind : f \in Frames}
  /\ refused \subseteq {f.kind : f \in Frames}

\* The lifecycle waits exactly as long as one initialize is being handled,
\* and a commit waits only for that one's answer; when none is, what was in
\* force before a failed repeat is in force again.
WaitsForHandler ==
  /\ state = "initializing" <=> handler # "none"
  /\ pending # 0 => handler = "answer" /\ pending = attempt
  /\ handler = "none" => state = IF initialized THEN "ready" ELSE "uninitialized"

\* Once another request is admitted the initialization is never in question
\* again: no repeat begins, so no answer, request or notification after it is
\* refused (the comment of `repeatable').
UsedStaysReady == "request" \in admitted => state = "ready" /\ ~repeatable
===============================================================================
