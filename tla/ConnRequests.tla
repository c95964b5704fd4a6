----------------------------- MODULE ConnRequests -----------------------------
(***************************************************************************)
(* The requests a Connection receives (connection.go): what the read loop  *)
(* does with each frame, the task that runs a request's handler, the table *)
(* `inbound' through which $/cancel_request finds running handlers, and    *)
(* what Shutdown, Close and the peer's EOF do to them.                     *)
(*                                                                         *)
(* A peer may use one id for several requests.  An entry of `inbound' is   *)
(* told apart by its generation; here it is the request itself, as a       *)
(* generation is never used twice.  The output is the order in which       *)
(* answers are queued; ConnOutput shows what becomes of them, and          *)
(* AgentRuntime is a program on top.                                        *)
(***************************************************************************)
EXTENDS Naturals, Sequences, FiniteSets, SequencesExt

CONSTANTS
  Reqs,        \* the requests, and malformed frames, the peer sends
  Ids,         \* their ids
  MaxCancels   \* how many $/cancel_request the peer sends (a bound)

ASSUME CancelsAssumption == MaxCancels \in Nat

VARIABLES
  id,         \* the id of each request
  log,        \* the frames read before the seal, in order (history)
  hpc,        \* where each request's task is
  cancelled,  \* requests whose handler context is cancelled
  inbound,    \* c.inbound: the running requests of each id
  rpc,        \* where the read loop is
  snapshot,   \* the entries cancelInbound copied and has not cancelled yet
  answer,     \* what becomes of each request: "none" until decided
  admitted,   \* requests whose answers the seal let pass (admitFrame)
  out,        \* the requests answered, in the order of the output queue
  room,       \* sendLock and a place in c.writes can be had
  inputDone,  \* c.inputDone is closed
  sealed,     \* c.shuttingDown
  serving,    \* c.serving is live; a Shutdown ends it after it seals
  failure     \* c.failure: "none", "eof" or another; c.ctx ends as it is set

readVars == <<log, rpc, snapshot>>
taskVars == <<hpc, cancelled, inbound, answer>>
outVars == <<admitted, out, room>>
endVars == <<inputDone, sealed, serving, failure>>
vars == <<id, readVars, taskVars, outVars, endVars>>

Stopped == failure # "none"
Stop(err) == failure' = IF Stopped THEN failure ELSE err

\* Cancelling c.ctx or c.serving cancels every running handler's context.
Running == {r \in Reqs : hpc[r] = "run"}
StopHandlers == cancelled' = cancelled \cup Running

TasksDone == \A r \in Reqs : hpc[r] \in {"unread", "rejected", "done"}

RequestFrame(r) == [kind |-> "request", req |-> r]
CancelFrame(i) == [kind |-> "cancel", id |-> i]
ReadAlready(r) == RequestFrame(r) \in Range(log)
CancelsRead == Cardinality({k \in 1..Len(log) : log[k].kind = "cancel"})

Init ==
  /\ id \in [Reqs -> Ids]
  /\ log = <<>> /\ rpc = "read" /\ snapshot = {}
  /\ hpc = [r \in Reqs |-> "unread"]
  /\ answer = [r \in Reqs |-> "none"]
  /\ cancelled = {} /\ inbound = [i \in Ids |-> {}]
  /\ admitted = {} /\ out = <<>> /\ room = TRUE
  /\ inputDone = FALSE /\ sealed = FALSE /\ serving = TRUE
  /\ failure = "none"

(***************************************************************************)
(* The read loop.                                                          *)
(***************************************************************************)
\* A frame is read and shuttingDown looked at; what follows, user guards and
\* observers among it, acts on that look even if the queue is sealed since.
ReadFrame(f) ==
  /\ rpc = "read" /\ ~sealed
  /\ log' = Append(log, f)
  /\ rpc' = "dispatch"
  /\ UNCHANGED <<id, snapshot, taskVars, outVars, endVars>>

ReadRequest(r) == ~ReadAlready(r) /\ ReadFrame(RequestFrame(r))
ReadCancel(i) == CancelsRead < MaxCancels /\ ReadFrame(CancelFrame(i))

Dispatching(r) == rpc = "dispatch" /\ Last(log) = RequestFrame(r)

\* Mutant: the handler's context is a child of c.ctx.
StartRequest_Ctx(r) ==
  /\ Dispatching(r)
  /\ rpc' = "read"
  /\ hpc' = [hpc EXCEPT ![r] = "run"]
  /\ inbound' = [inbound EXCEPT ![id[r]] = @ \cup {r}]
  /\ cancelled' = IF Stopped THEN cancelled \cup {r} ELSE cancelled
  /\ UNCHANGED <<id, log, snapshot, answer, outVars, endVars>>

\* startRequest: registered before the next frame is read.  The handler's
\* context is a child of c.serving, so it may be born cancelled.
StartRequest(r) ==
  /\ Dispatching(r)
  /\ rpc' = "read"
  /\ hpc' = [hpc EXCEPT ![r] = "run"]
  /\ inbound' = [inbound EXCEPT ![id[r]] = @ \cup {r}]
  /\ cancelled' = IF serving /\ ~Stopped THEN cancelled ELSE cancelled \cup {r}
  /\ UNCHANGED <<id, log, snapshot, answer, outVars, endVars>>

\* Mutant: a refused request is answered by a task, not by the read loop.
RejectRequest_Task(r) ==
  /\ Dispatching(r)
  /\ hpc' = [hpc EXCEPT ![r] = "reject"]
  /\ rpc' = "read"
  /\ UNCHANGED <<id, log, snapshot, cancelled, inbound, answer, outVars, endVars>>

\* A frame that is no message, a null id on protocol v2, or a request the
\* guard refuses: the read loop queues its answer before it reads on.
RejectRequest(r) ==
  /\ Dispatching(r)
  /\ hpc' = [hpc EXCEPT ![r] = "reject"]
  /\ rpc' = "reject"
  /\ UNCHANGED <<id, log, snapshot, cancelled, inbound, answer, outVars, endVars>>

\* answerFrame and queue pass the seal once they have the lock ...
AdmitAnswer(r) ==
  /\ hpc[r] \in {"queue", "reject"} /\ ~sealed /\ r \notin admitted
  /\ admitted' = admitted \cup {r}
  /\ UNCHANGED <<id, readVars, taskVars, out, room, endVars>>

\* ... wait for a place in the queue, and give up when the seal came first or
\* the connection stops.
Answers(r) == r \in admitted /\ room /\ out' = Append(out, r)
GivesUp(r) == ((sealed /\ r \notin admitted) \/ Stopped) /\ UNCHANGED out

\* A refusal is queued by the read loop, which reads on after that.
AnswerFrame(r) ==
  /\ hpc[r] = "reject"
  /\ hpc' = [hpc EXCEPT ![r] = "rejected"]
  /\ rpc' = IF rpc = "reject" THEN "read" ELSE rpc
  /\ \/ Answers(r) /\ answer' = [answer EXCEPT ![r] = "refused"]
     \/ GivesUp(r) /\ UNCHANGED answer
  /\ UNCHANGED <<id, log, snapshot, cancelled, inbound, admitted, room, endVars>>

\* Mutant: the id has one entry, as if requests had unlike ids.
CancelInbound_One ==
  /\ rpc = "dispatch" /\ Last(log).kind = "cancel"
  /\ snapshot' = LET s == inbound[Last(log).id] IN
                 IF s = {} THEN {} ELSE {CHOOSE r \in s : TRUE}
  /\ rpc' = "cancel"
  /\ UNCHANGED <<id, log, taskVars, outVars, endVars>>

\* cancelInbound copies the entries of the id under the lock ...
CancelInbound ==
  /\ rpc = "dispatch" /\ Last(log).kind = "cancel"
  /\ snapshot' = inbound[Last(log).id]
  /\ rpc' = "cancel"
  /\ UNCHANGED <<id, log, taskVars, outVars, endVars>>

\* ... and cancels them one by one without it.  The request may have ended;
\* its context is cancelled all the same.
CancelNext ==
  /\ rpc = "cancel"
  /\ IF snapshot = {}
     THEN rpc' = "read" /\ UNCHANGED <<snapshot, cancelled>>
     ELSE /\ \E r \in snapshot : /\ cancelled' = cancelled \cup {r}
                                 /\ snapshot' = snapshot \ {r}
          /\ UNCHANGED rpc
  /\ UNCHANGED <<id, log, hpc, inbound, answer, outVars, endVars>>

\* Clean EOF: the handlers finish first, unless a Shutdown has the drain.
ReadEOF ==
  /\ rpc = "read"
  /\ inputDone' = TRUE
  /\ rpc' = IF sealed THEN "done" ELSE "join"
  /\ UNCHANGED <<id, log, snapshot, taskVars, outVars, sealed, serving, failure>>

TasksFinish ==
  /\ rpc = "join" /\ TasksDone
  /\ rpc' = IF sealed THEN "done" ELSE "flush"
  /\ sealed' = TRUE
  /\ UNCHANGED <<id, log, snapshot, taskVars, outVars, inputDone, serving, failure>>

FlushEnds ==
  /\ rpc = "flush"
  /\ rpc' = "done"
  /\ Stop("eof") /\ StopHandlers
  /\ UNCHANGED <<id, log, snapshot, hpc, inbound, answer, outVars, inputDone,
                 sealed, serving>>

ReadFails ==
  /\ rpc = "read"
  /\ rpc' = "done" /\ inputDone' = TRUE
  /\ Stop("error") /\ StopHandlers
  /\ UNCHANGED <<id, log, snapshot, hpc, inbound, answer, outVars, sealed, serving>>

(***************************************************************************)
(* A request's task.                                                       *)
(***************************************************************************)
\* A handler that panics leaves its request unanswered once the input is
\* closed, like one that returns ErrNoResponse; else it is answered like a
\* dropped responder.
Silent(how) == how = "ErrNoResponse" \/ (how = "panic" /\ inputDone)

HandlerReturns(r) ==
  /\ hpc[r] = "run"
  /\ hpc' = [hpc EXCEPT ![r] = "unregister"]
  /\ \E how \in {"value", "panic", "ErrNoResponse"} :
       answer' = [answer EXCEPT ![r] = IF Silent(how) THEN "silent" ELSE "answered"]
  /\ UNCHANGED <<id, readVars, cancelled, inbound, outVars, endVars>>

\* Mutant: an unanswered request is not unregistered.
Unregister_Answered(r) ==
  /\ hpc[r] = "unregister"
  /\ inbound' = IF answer[r] = "silent" THEN inbound
                ELSE [inbound EXCEPT ![id[r]] = @ \ {r}]
  /\ hpc' = [hpc EXCEPT ![r] = IF answer[r] = "silent" THEN "done" ELSE "queue"]
  /\ UNCHANGED <<id, readVars, cancelled, answer, outVars, endVars>>

\* unregisterInbound removes its own generation only.  An unanswered request
\* is done; its context is cancelled when its task ends.
Unregister(r) ==
  /\ hpc[r] = "unregister"
  /\ inbound' = [inbound EXCEPT ![id[r]] = @ \ {r}]
  /\ hpc' = [hpc EXCEPT ![r] = IF answer[r] = "silent" THEN "done" ELSE "queue"]
  /\ UNCHANGED <<id, readVars, cancelled, answer, outVars, endVars>>

\* Mutant: the end of the connection is not observed.
QueueAnswer_Deaf(r) ==
  /\ hpc[r] = "queue"
  /\ hpc' = [hpc EXCEPT ![r] = "done"]
  /\ \/ Answers(r) /\ UNCHANGED answer
     \/ GivesUp(r) /\ r \notin admitted /\ answer' = [answer EXCEPT ![r] = "none"]
  /\ UNCHANGED <<id, readVars, cancelled, inbound, admitted, room, endVars>>

\* A handler's answer is queued by its task with c.ctx.  The task is done here
\* once it is, or cannot be; ConnOutput has the wait for its write.
QueueAnswer(r) ==
  /\ hpc[r] = "queue"
  /\ hpc' = [hpc EXCEPT ![r] = "done"]
  /\ \/ Answers(r) /\ UNCHANGED answer
     \/ GivesUp(r) /\ answer' = [answer EXCEPT ![r] = "none"]
  /\ UNCHANGED <<id, readVars, cancelled, inbound, admitted, room, endVars>>

Answering(r) == AdmitAnswer(r) \/ AnswerFrame(r) \/ QueueAnswer(r)

(***************************************************************************)
(* The output queue, which other frames take places of and the write loop  *)
(* makes room in as the peer reads.  It matters while an answer waits.     *)
(***************************************************************************)
QueueFills ==
  /\ room /\ ~Stopped /\ \E r \in Reqs : hpc[r] \in {"queue", "reject"}
  /\ room' = FALSE
  /\ UNCHANGED <<id, readVars, taskVars, admitted, out, endVars>>

RoomIsMade ==
  /\ ~room /\ room' = TRUE
  /\ UNCHANGED <<id, readVars, taskVars, admitted, out, endVars>>

(***************************************************************************)
(* Shutdown and Close.                                                     *)
(***************************************************************************)
\* Shutdown seals the queue, and then ends c.serving ...
BeginShutdown ==
  /\ ~sealed /\ sealed' = TRUE
  /\ UNCHANGED <<id, readVars, taskVars, outVars, inputDone, serving, failure>>

\* ... unless the flush after EOF sealed it first: then no handler runs.
StopServing ==
  /\ sealed /\ serving /\ rpc # "flush"
  /\ serving' = FALSE /\ StopHandlers
  /\ UNCHANGED <<id, readVars, hpc, inbound, answer, outVars, inputDone, sealed,
                 failure>>

\* Close, or any other stop that the read loop does not cause.
Close ==
  /\ ~Stopped /\ Stop("error") /\ StopHandlers
  /\ UNCHANGED <<id, readVars, hpc, inbound, answer, outVars, inputDone, sealed,
                 serving>>

Terminated ==
  /\ rpc = "done" /\ TasksDone /\ Stopped
  /\ UNCHANGED vars

Next ==
  \/ \E r \in Reqs :
       \/ ReadRequest(r) \/ StartRequest(r) \/ RejectRequest(r)
       \/ HandlerReturns(r) \/ Unregister(r) \/ Answering(r)
  \/ \E i \in Ids : ReadCancel(i)
  \/ CancelInbound \/ CancelNext \/ ReadEOF \/ TasksFinish \/ FlushEnds
  \/ ReadFails \/ BeginShutdown \/ StopServing \/ Close \/ Terminated
  \/ QueueFills \/ RoomIsMade

Spec == Init /\ [][Next]_vars

(***************************************************************************)
(* Properties.                                                             *)
(***************************************************************************)
\* Every variable has its type, and cancelInbound's copy lives only while it
\* runs.
TypeOK ==
  /\ id \in [Reqs -> Ids]
  /\ hpc \in [Reqs -> {"unread", "run", "unregister", "queue", "done",
                       "reject", "rejected"}]
  /\ answer \in [Reqs -> {"none", "refused", "answered", "silent"}]
  /\ cancelled \subseteq Reqs
  /\ snapshot \subseteq Reqs /\ (snapshot # {} => rpc = "cancel")
  /\ inbound \in [Ids -> SUBSET Reqs]
  /\ rpc \in {"read", "dispatch", "reject", "cancel", "join", "flush", "done"}
  /\ out \in Seq(Reqs)
  /\ admitted \subseteq Reqs
  /\ {inputDone, sealed, serving, room} \subseteq BOOLEAN
  /\ failure \in {"none", "error", "eof"}

\* The table holds exactly the requests whose handlers have not returned, under
\* their ids, also when a peer uses an id again: none is lost to a later one, and
\* it does not grow with the requests served.
Registered(i) == {r \in Reqs : id[r] = i /\ hpc[r] \in {"run", "unregister"}}

TableIsExact == \A i \in Ids : inbound[i] = Registered(i)

\* A cancellation the read loop is done with has reached every earlier
\* request of its id whose handler still runs.
CancelReaches ==
  \A k \in 1..Len(log) :
    log[k].kind = "cancel" /\ (k < Len(log) \/ rpc \notin {"dispatch", "cancel"}) =>
      \A j \in 1..k : log[j].kind = "request" =>
        LET r == log[j].req IN
        id[r] = log[k].id /\ hpc[r] = "run" => r \in cancelled

\* While the connection serves, only a cancellation of its own id, read after
\* it, cancels a request: a later request is untouched by earlier ones.
CancelIsPrecise ==
  serving /\ ~Stopped =>
    \A r \in cancelled :
      \E j, k \in 1..Len(log) :
        j < k /\ log[j] = RequestFrame(r) /\ log[k] = CancelFrame(id[r])

\* A cancellation cancels what it names, all of it and nothing else.
CancelIsExact == CancelReaches /\ CancelIsPrecise

\* Shutdown cancels the contexts of incoming requests (its comment), those of
\* requests the read loop starts behind its back included; so does any stop.
EndsCancelHandlers == ~serving \/ Stopped => Running \subseteq cancelled

\* A connection that stopped with EOF answered every request it read, but for
\* those it may leave unanswered (ErrNoResponse, a panic after EOF).
EOFAnswersAll ==
  failure = "eof" =>
    \A r \in Reqs : ReadAlready(r) => r \in Range(out) \/ answer[r] = "silent"

\* A refused request is answered before any request read after it is (the
\* comments of answerFrame and admit); only a stop can keep it unanswered.
Before(r, q) == \E m, n \in 1..Len(out) : m < n /\ out[m] = r /\ out[n] = q

RefusedInOrder ==
  \A j, k \in 1..Len(log) :
    j < k /\ log[j].kind = "request" /\ log[k].kind = "request" =>
      LET r == log[j].req  q == log[k].req IN
      hpc[r] \in {"reject", "rejected"} /\ q \in Range(out) =>
        Before(r, q) \/ (Stopped /\ r \notin Range(out))

\* Whatever was read is answered, and refusals in the order they were read.
AnsweredAsRead == EOFAnswersAll /\ RefusedInOrder
===============================================================================
