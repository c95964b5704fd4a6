----------------------------- MODULE V2Initiator -------------------------------
(***************************************************************************)
(* The client's side of the v2 handshake (v2/client.go): the guards of its *)
(* connection, and the initialize calls of the application.  Frames are    *)
(* those of V2Responder; a call that is admitted and then cannot be queued *)
(* is settled after the send lock is free again (connection.go, abandon).  *)
(***************************************************************************)
EXTENDS Naturals, Sequences

CONSTANTS
  MaxEra,   \* the initialize requests the client makes (a bound)
  MaxSends, \* the other frames the client sends of its own accord (a bound)
  MaxFrames \* the frames in flight, and requests served, when alone (a bound)

Frame(kind, e, result) == [kind |-> kind, era |-> e, result |-> result]
NoFrame == Frame("none", 0, "none")
Frames == [kind : {"none", "initialize", "initialized", "request", "notify",
                   "cancel", "response"},
           era : 0..MaxEra, result : {"none", "ok", "odd", "error"}]

VARIABLES
  initialized,  \* an initialize has completed
  initializing, \* one is in progress
  repeatable,   \* a completed one may still be repeated
  recorded,     \* the initialization recorded, 0: none
  attempt,      \* the latest initialize begun
  call,         \* where that call is: "none", "queue", "wait" or "abandon"
  waiting,      \* the other requests that await their response
  requests,     \* how many of the agent's requests are being handled
  hand,         \* the frame built under sendLock and not yet queued
  out,          \* the frames queued for the agent
  sends,        \* how many other frames the client sent of its own accord
  admitted,     \* the kinds of frames admitted (history)
  refused,      \* the kinds of frames refused (history)
  unready,      \* those refused though their sender had answered (history)
  stale         \* an admitted frame was of another era (history)

lifecycle == <<initialized, initializing, repeatable, recorded>>
calls == <<attempt, call, waiting>>
history == <<admitted, refused, unready, stale>>
vars == <<lifecycle, calls, requests, hand, out, sends, history>>

Init ==
  /\ initialized = FALSE /\ initializing = FALSE /\ repeatable = FALSE
  /\ recorded = 0
  /\ attempt = 0 /\ call = "none" /\ waiting = 0 /\ requests = 0
  /\ hand = NoFrame /\ out = <<>> /\ sends = 0
  /\ admitted = {} /\ refused = {} /\ unready = {} /\ stale = FALSE

\* ensure_initialized, and for a notification ensure_notification_allowed.
Allowed(kind) ==
  (initialized /\ ~initializing) \/ (kind = "cancel" /\ initializing)

LockFree == hand = NoFrame

\* Mutant: a repeat does not replace what is recorded.
CompleteInitialize_First(success, e) ==
  /\ initializing' = FALSE
  /\ initialized' = (initialized \/ success)
  /\ recorded' = IF success /\ ~initialized THEN e ELSE recorded
  /\ repeatable' = initialized'

\* completeInitialize: a failure keeps the initialization recorded before.
CompleteInitialize(success, e) ==
  /\ initializing' = FALSE
  /\ initialized' = (initialized \/ success)
  /\ recorded' = IF success THEN e ELSE recorded
  /\ repeatable' = initialized'

(***************************************************************************)
(* What the client sends, under sendLock.                                  *)
(***************************************************************************)
BeginInitialize ==
  /\ LockFree /\ attempt < MaxEra
  /\ ~initializing /\ (initialized => repeatable)
  /\ initializing' = TRUE /\ repeatable' = FALSE
  /\ attempt' = attempt + 1 /\ call' = "queue"
  /\ hand' = Frame("initialize", attempt + 1, "none")
  /\ UNCHANGED <<initialized, recorded, waiting, requests, out, sends, history>>

\* Mutant: another request does not close the repeat window.
Send_Open(kind) ==
  /\ LockFree /\ sends < MaxSends
  /\ Allowed(kind)
  /\ sends' = sends + 1
  /\ hand' = Frame(kind, recorded, "none")
  /\ UNCHANGED <<lifecycle, calls, requests, out, history>>

\* Another request, or a notification.
Send(kind) ==
  /\ LockFree /\ sends < MaxSends
  /\ Allowed(kind)
  /\ repeatable' = (repeatable /\ kind # "request")
  /\ sends' = sends + 1
  /\ hand' = Frame(kind, recorded, "none")
  /\ UNCHANGED <<initialized, initializing, recorded, calls, requests, out,
                 history>>

\* The answer to a request of the agent; a success becomes an error while no
\* initialization is complete.
AnswerRequest ==
  /\ requests > 0 /\ LockFree
  /\ requests' = requests - 1
  /\ hand' = Frame("response", recorded,
                   IF Allowed("response") THEN "ok" ELSE "error")
  /\ UNCHANGED <<lifecycle, calls, out, sends, history>>

Queue ==
  /\ ~LockFree
  /\ out' = Append(out, hand) /\ hand' = NoFrame
  /\ call' = IF hand.kind = "initialize" THEN "wait" ELSE call
  /\ waiting' = IF hand.kind = "request" THEN waiting + 1 ELSE waiting
  /\ UNCHANGED <<lifecycle, attempt, requests, sends, history>>

\* Mutant: a call that cannot be queued is forgotten, not settled.
GiveUp_Forget ==
  /\ hand.kind \in {"initialize", "request", "notify", "cancel"}
  /\ hand' = NoFrame
  /\ call' = IF hand.kind = "initialize" THEN "none" ELSE call
  /\ UNCHANGED <<lifecycle, attempt, waiting, requests, out, sends, history>>

\* The caller's context ends while the queue is full, or params an admitted
\* request carries cannot be written: an initialize is settled by abandon.
GiveUp ==
  /\ hand.kind \in {"initialize", "request", "notify", "cancel"}
  /\ hand' = NoFrame
  /\ call' = IF hand.kind = "initialize" THEN "abandon" ELSE call
  /\ UNCHANGED <<lifecycle, attempt, waiting, requests, out, sends, history>>

Abandon ==
  /\ call = "abandon" /\ call' = "none"
  /\ CompleteInitialize(FALSE, 0)
  /\ UNCHANGED <<attempt, waiting, requests, hand, out, sends, history>>

(***************************************************************************)
(* What arrives, on the read loop.                                         *)
(***************************************************************************)
Admit(m) ==
  /\ admitted' = admitted \cup {m.kind}
  /\ stale' = (stale \/ m.era # recorded)
  /\ UNCHANGED <<refused, unready>>

Refuse(m) ==
  /\ refused' = refused \cup {m.kind}
  /\ unready' = IF initializing /\ m.era < attempt THEN unready
                ELSE unready \cup {m.kind}
  /\ UNCHANGED <<admitted, stale>>

\* The response to an initialize completes or fails it; one the client does
\* not accept ("odd"), a lower version included, fails it.
ReceiveInitialized(m) ==
  /\ m.kind = "initialized" /\ call = "wait"
  /\ call' = "none"
  /\ CompleteInitialize(m.result = "ok", m.era)
  /\ UNCHANGED <<attempt, waiting, requests, hand, out, sends, history>>

\* A refused request is answered by the read loop, which takes sendLock.
ReceiveRequest(m) ==
  /\ m.kind = "request"
  /\ IF Allowed("request")
     THEN Admit(m) /\ requests' = requests + 1 /\ UNCHANGED out
     ELSE /\ LockFree /\ Refuse(m)
          /\ out' = Append(out, Frame("response", recorded, "error"))
          /\ UNCHANGED requests
  /\ UNCHANGED <<lifecycle, calls, hand, sends>>

\* A refused notification is dropped.
ReceiveNotification(m) ==
  /\ m.kind \in {"notify", "cancel"}
  /\ IF ~Allowed(m.kind) THEN Refuse(m)
     ELSE IF m.kind = "notify" THEN Admit(m) ELSE UNCHANGED history
  /\ UNCHANGED <<lifecycle, calls, requests, hand, out, sends>>

\* A refused success becomes an error for its caller; an error passes.
ReceiveResponse(m) ==
  /\ m.kind = "response" /\ waiting > 0
  /\ waiting' = waiting - 1
  /\ IF m.result = "error" THEN UNCHANGED history
     ELSE IF Allowed(m.kind) THEN Admit(m) ELSE Refuse(m)
  /\ UNCHANGED <<lifecycle, attempt, call, requests, hand, out, sends>>

Receive(m) ==
  \/ ReceiveInitialized(m) \/ ReceiveRequest(m)
  \/ ReceiveNotification(m) \/ ReceiveResponse(m)

Local ==
  \/ BeginInitialize \/ AnswerRequest \/ Queue \/ GiveUp \/ Abandon
  \/ \E kind \in {"request", "notify", "cancel"} : Send(kind)

(***************************************************************************)
(* The initiator alone, with an agent that may send anything.              *)
(***************************************************************************)
Incoming ==
  {Frame("initialized", e, r) : e \in {attempt}, r \in {"ok", "odd", "error"}}
  \cup {Frame(kind, 0, "none") : kind \in {"request", "notify", "cancel"}}
  \cup {Frame("response", 0, r) : r \in {"ok", "error"}}

Arrives ==
  /\ Len(out) < MaxFrames /\ requests < MaxFrames
  /\ \E m \in Incoming : Receive(m)

AgentReads ==
  /\ out # <<>> /\ out' = Tail(out)
  /\ UNCHANGED <<lifecycle, calls, requests, hand, sends, history>>

Next == Arrives \/ AgentReads \/ Local

Spec == Init /\ [][Next]_vars

(***************************************************************************)
(* Properties.                                                             *)
(***************************************************************************)
\* Every variable has its type.
TypeOK ==
  /\ {initialized, initializing, repeatable, stale} \subseteq BOOLEAN
  /\ {recorded, attempt} \subseteq 0..MaxEra
  /\ call \in {"none", "queue", "wait", "abandon"}
  /\ waiting \in Nat /\ requests \in Nat /\ sends \in 0..MaxSends
  /\ hand \in Frames /\ out \in Seq(Frames)
  /\ {admitted, refused, unready} \subseteq SUBSET {f.kind : f \in Frames}

\* An initialize is in progress exactly while a call for it is: whatever
\* becomes of the call, what it began is settled.
ProgressHasCall == initializing <=> call # "none"

\* No request or notification but $/cancel_request is written before an
\* initialize completed, or while one is in progress.
NothingBeforeInitialize ==
  hand.kind \in {"request", "notify"} => initialized /\ ~initializing

\* A failed initialize leaves the previous one in place: the client never
\* falls back to before its first success.
KeepsInitialization == [][initialized => initialized' /\ recorded' >= recorded]_vars
===============================================================================
