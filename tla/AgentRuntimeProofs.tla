-------------------------- MODULE AgentRuntimeProofs ---------------------------
(***************************************************************************)
(* What holds of the requests a connection receives, and of the prompts of *)
(* a v1 agent among them, for every set of requests, ids and sessions and  *)
(* however many cancellations the peer sends.  The invariant relates the   *)
(* log of the frames read to the state of each request's task.             *)
(***************************************************************************)
EXTENDS AgentRuntime, SequenceTheorems, TLAPS

(***************************************************************************)
(* Sequences that grow.                                                    *)
(***************************************************************************)
\* What Append adds, and what it leaves.
LEMMA Appended ==
  ASSUME NEW S, NEW s \in Seq(S), NEW e \in S
  PROVE  /\ Append(s, e) \in Seq(S)
         /\ Len(Append(s, e)) = Len(s) + 1 /\ Len(s) \in Nat
         /\ Append(s, e)[Len(s) + 1] = e
         /\ \A k \in 1..Len(s) : Append(s, e)[k] = s[k]
         /\ Append(s, e) # <<>> /\ Last(Append(s, e)) = e
         /\ Range(Append(s, e)) = Range(s) \cup {e}
<1>1. /\ Append(s, e) \in Seq(S)
      /\ Len(Append(s, e)) = Len(s) + 1 /\ Len(s) \in Nat
      /\ Append(s, e)[Len(s) + 1] = e
      /\ \A k \in 1..Len(s) : Append(s, e)[k] = s[k]
      /\ Append(s, e) # <<>>
  OBVIOUS
<1>2. Last(Append(s, e)) = e
  BY <1>1 DEF Last
<1>3. Range(Append(s, e)) = Range(s) \cup {e}
  <2>1. DOMAIN Append(s, e) = 1..Len(s) + 1 /\ DOMAIN s = 1..Len(s)
    BY <1>1
  <2> QED BY <1>1, <2>1 DEF Range
<1> QED BY <1>1, <1>2, <1>3

(***************************************************************************)
(* Types.                                                                  *)
(***************************************************************************)
Frames == {RequestFrame(r) : r \in Reqs} \cup {CancelFrame(i) : i \in Ids}

Flags == {inputDone, sealed, serving, room} \subseteq BOOLEAN /\ admitted \subseteq Reqs

Types ==
  /\ id \in [Reqs -> Ids]
  /\ log \in Seq(Frames)
  /\ hpc \in [Reqs -> {"unread", "run", "unregister", "queue", "done",
                       "reject", "rejected"}]
  /\ answer \in [Reqs -> {"none", "refused", "answered", "silent"}]
  /\ cancelled \subseteq Reqs
  /\ snapshot \subseteq Reqs /\ (snapshot # {} => rpc = "cancel")
  /\ inbound \in [Ids -> SUBSET Reqs]
  /\ rpc \in {"read", "dispatch", "reject", "cancel", "join", "flush", "done"}
  /\ rpc \in {"dispatch", "reject", "cancel"} => log # <<>>
  /\ out \in Seq(Reqs)
  /\ failure \in {"none", "error", "eof"}

\* The last frame read is one of the frames, and a cancellation names an id.
LEMMA LastFrame ==
  ASSUME log \in Seq(Frames), log # <<>>
  PROVE  /\ Last(log) \in Frames /\ Len(log) \in Nat \ {0}
         /\ Last(log) = log[Len(log)] /\ Last(log) \in Range(log)
         /\ Last(log).kind = "cancel" => Last(log).id \in Ids
         /\ \A r \in Reqs : Last(log) = RequestFrame(r) => Last(log).kind = "request"
<1>1. Len(log) \in Nat \ {0} /\ DOMAIN log = 1..Len(log) /\ log[Len(log)] \in Frames
  OBVIOUS
<1>2. \A f \in Frames : f.kind = "cancel" => f.id \in Ids
  BY DEF Frames, RequestFrame, CancelFrame
<1> QED BY <1>1, <1>2 DEF Last, Range, RequestFrame

\* What the steps of a task do but for their conditions.
LEMMA TaskEffects ==
  ASSUME NEW r \in Reqs
  PROVE  /\ AnswerFrame(r) =>
              /\ hpc[r] = "reject" /\ hpc' = [hpc EXCEPT ![r] = "rejected"]
              /\ \/ out' = out /\ answer' = answer
                 \/ out' = Append(out, r) /\ answer' = [answer EXCEPT ![r] = "refused"]
              /\ rpc' = IF rpc = "reject" THEN "read" ELSE rpc
              /\ UNCHANGED <<id, log, snapshot, cancelled, inbound, failure>>
         /\ HandlerReturns(r) =>
              /\ hpc[r] = "run" /\ hpc' = [hpc EXCEPT ![r] = "unregister"]
              /\ \E a \in {"answered", "silent"} : answer' = [answer EXCEPT ![r] = a]
              /\ UNCHANGED <<id, log, rpc, snapshot, cancelled, inbound, out, failure>>
         /\ QueueAnswer(r) =>
              /\ hpc[r] = "queue" /\ hpc' = [hpc EXCEPT ![r] = "done"]
              /\ \/ out' = Append(out, r) /\ answer' = answer
                 \/ out' = out /\ answer' = [answer EXCEPT ![r] = "none"]
              /\ UNCHANGED <<id, log, rpc, snapshot, cancelled, inbound, failure>>
<1>1. ASSUME NEW how \in {"value", "panic", "ErrNoResponse"}
      PROVE  (IF Silent(how) THEN "silent" ELSE "answered") \in {"answered", "silent"}
  BY Zenon DEF Silent
<1>2. HandlerReturns(r) =>
        \E a \in {"answered", "silent"} : answer' = [answer EXCEPT ![r] = a]
  BY <1>1, Zenon DEF HandlerReturns
<1> QED
  BY <1>2, Zenon DEF AnswerFrame, HandlerReturns, QueueAnswer, Answers, GivesUp, outVars,
     readVars, endVars

\* A task's own steps, and what leaves all but the room in the queue and the
\* seal's leave alone.
TaskStep(r) == Unregister(r) \/ QueueAnswer(r)
Quiet == UNCHANGED <<id, readVars, taskVars, out, endVars>>

\* The steps of the connection, told apart by what the proofs need.
Moves ==
  \/ \E r \in Reqs :
       \/ ReadRequest(r) \/ StartRequest(r) \/ RejectRequest(r)
       \/ AnswerFrame(r) \/ HandlerReturns(r) \/ TaskStep(r)
  \/ \E i \in Ids : ReadCancel(i)
  \/ CancelInbound \/ CancelNext \/ ReadEOF \/ TasksFinish \/ FlushEnds
  \/ ReadFails \/ BeginShutdown \/ StopServing \/ Close \/ Quiet

LEMMA NextMoves == [Next]_vars => Moves
<1>1. \A r \in Reqs : AdmitAnswer(r) => Quiet
  BY Zenon DEF AdmitAnswer, Quiet
<1>2. QueueFills \/ RoomIsMade => Quiet
  BY Zenon DEF QueueFills, RoomIsMade, Quiet
<1>3. Terminated \/ UNCHANGED vars => Quiet
  BY Zenon DEF Terminated, vars, outVars, Quiet
<1> QED BY <1>1, <1>2, <1>3, Zenon DEF Next, Answering, TaskStep, Moves

LEMMA FlagsStep == Flags /\ [Next]_vars => Flags'
<1> SUFFICES ASSUME Flags, [Next]_vars PROVE Flags'
  OBVIOUS
<1> DEFINE Set == /\ inputDone' \in {TRUE, inputDone}
                  /\ sealed' \in {TRUE, sealed}
                  /\ serving' \in {FALSE, serving}
                  /\ room' \in {TRUE, FALSE, room}
                  /\ \/ admitted' = admitted
                     \/ \E r \in Reqs : admitted' = admitted \cup {r}
<1> USE DEF Flags, vars, readVars, taskVars, outVars, endVars
<1>1. Set
  <2>1. CASE UNCHANGED vars
    BY <2>1
  <2>2. ASSUME NEW r \in Reqs,
               ReadRequest(r) \/ StartRequest(r) \/ RejectRequest(r)
               \/ HandlerReturns(r) \/ Unregister(r) \/ Answering(r)
        PROVE Set
    BY <2>2, Zenon DEF ReadRequest, ReadFrame, StartRequest, RejectRequest,
       AnswerFrame, HandlerReturns, Answering, AdmitAnswer, Unregister, QueueAnswer
  <2>3. ASSUME NEW i \in Ids, ReadCancel(i) PROVE Set
    BY <2>3, Zenon DEF ReadCancel, ReadFrame
  <2>4. CASE CancelInbound \/ CancelNext \/ ReadEOF \/ TasksFinish \/ FlushEnds
             \/ ReadFails \/ BeginShutdown \/ StopServing \/ Close \/ Terminated
             \/ QueueFills \/ RoomIsMade
    BY <2>4, Zenon DEF CancelInbound, CancelNext, ReadEOF, TasksFinish, FlushEnds,
       ReadFails, BeginShutdown, StopServing, Close, Terminated, QueueFills, RoomIsMade
  <2> QED BY <2>1, <2>2, <2>3, <2>4, Zenon DEF Next
<1> QED BY <1>1, Zenon

LEMMA TypesStep == Types /\ [Next]_vars => Types'
<1> SUFFICES ASSUME Types, [Next]_vars PROVE Types'
  OBVIOUS
<1> USE DEF Types, Quiet, readVars, taskVars, outVars, endVars, Stop, Stopped, StopHandlers,
            Running
<1>0. CASE Quiet
  BY <1>0
<1>1. ASSUME NEW f \in Frames, ReadFrame(f) PROVE Types'
  BY <1>1, Appended DEF ReadFrame
<1>2. ASSUME NEW r \in Reqs, StartRequest(r) PROVE Types'
  BY <1>2 DEF StartRequest, Dispatching
<1>3. ASSUME NEW r \in Reqs, RejectRequest(r) PROVE Types'
  BY <1>3 DEF RejectRequest, Dispatching
<1>4. ASSUME NEW r \in Reqs, AnswerFrame(r) PROVE Types'
  <2>1. Append(out, r) \in Seq(Reqs)
    OBVIOUS
  <2> QED BY <1>4, <2>1, TaskEffects
<1>5. ASSUME NEW r \in Reqs, HandlerReturns(r) PROVE Types'
  BY <1>5, TaskEffects
<1>6. ASSUME NEW r \in Reqs, Unregister(r) PROVE Types'
  BY <1>6 DEF Unregister
<1>7. ASSUME NEW r \in Reqs, QueueAnswer(r) PROVE Types'
  <2>1. Append(out, r) \in Seq(Reqs)
    OBVIOUS
  <2> QED BY <1>7, <2>1, TaskEffects
<1>8. CASE CancelInbound
  <2>1. inbound[Last(log).id] \subseteq Reqs
    BY <1>8, LastFrame DEF CancelInbound
  <2> QED BY <1>8, <2>1 DEF CancelInbound
<1>9. CASE CancelNext
  BY <1>9 DEF CancelNext
<1>10. CASE ReadEOF \/ TasksFinish \/ FlushEnds \/ ReadFails
  BY <1>10 DEF ReadEOF, TasksFinish, FlushEnds, ReadFails
<1>11. CASE BeginShutdown \/ StopServing \/ Close
  BY <1>11 DEF BeginShutdown, StopServing, Close
<1>12. \A r \in Reqs : ReadRequest(r) => \E f \in Frames : ReadFrame(f)
  BY DEF ReadRequest, Frames
<1>13. \A i \in Ids : ReadCancel(i) => \E f \in Frames : ReadFrame(f)
  BY DEF ReadCancel, Frames
<1> QED
  BY <1>0, <1>1, <1>2, <1>3, <1>4, <1>5, <1>6, <1>7, <1>8, <1>9, <1>10, <1>11,
     <1>12, <1>13, NextMoves, Zenon DEF Moves, TaskStep

(***************************************************************************)
(* The log.                                                                *)
(***************************************************************************)
Positions(r) == {k \in 1..Len(log) : log[k] = RequestFrame(r)}

\* A request is read once.  The read loop has left behind all but the last.
Logged ==
  /\ \A r \in Reqs : \A j, k \in Positions(r) : j = k
  /\ \A r \in Reqs : hpc[r] # "unread" => ReadAlready(r)
  /\ \A r \in Reqs : ReadAlready(r) =>
       (hpc[r] = "unread" <=> rpc = "dispatch" /\ Last(log) = RequestFrame(r))
  /\ \A r \in Reqs : hpc[r] = "reject" => rpc = "reject" /\ Last(log) = RequestFrame(r)
  /\ rpc = "reject" => Last(log).kind = "request"
  /\ rpc = "cancel" => Last(log).kind = "cancel"

\* A request that was read is somewhere in the log.
LEMMA Read ==
  ASSUME log \in Seq(Frames), NEW r \in Reqs
  PROVE  ReadAlready(r) <=> Positions(r) # {}
BY DEF ReadAlready, Range, Positions

LEMMA Unlike ==
  /\ \A r, q \in Reqs : RequestFrame(r) = RequestFrame(q) => r = q
  /\ \A r \in Reqs, i \in Ids : RequestFrame(r) # CancelFrame(i)
  /\ \A r \in Reqs : RequestFrame(r).kind = "request" /\ RequestFrame(r).req = r
  /\ \A i \in Ids : CancelFrame(i).kind = "cancel" /\ CancelFrame(i).id = i
  /\ \A f \in Frames : \/ f.kind = "request" /\ f.req \in Reqs /\ f = RequestFrame(f.req)
                       \/ f.kind = "cancel" /\ f.id \in Ids /\ f = CancelFrame(f.id)
<1>1. \A r \in Reqs : RequestFrame(r).kind = "request" /\ RequestFrame(r).req = r
  BY DEF RequestFrame
<1>2. \A i \in Ids : CancelFrame(i).kind = "cancel" /\ CancelFrame(i).id = i
  BY DEF CancelFrame
<1>3. "request" # "cancel"
  OBVIOUS
<1> QED BY <1>1, <1>2, <1>3 DEF Frames

\* What a frame that is read adds.
LEMMA ReadEffect ==
  ASSUME Types, NEW f \in Frames, ReadFrame(f)
  PROVE  /\ log' \in Seq(Frames) /\ Len(log) \in Nat /\ Len(log') = Len(log) + 1
         /\ log'[Len(log) + 1] = f /\ \A k \in 1..Len(log) : log'[k] = log[k]
         /\ Last(log') = f /\ Range(log') = Range(log) \cup {f}
         /\ rpc = "read" /\ rpc' = "dispatch"
         /\ UNCHANGED <<id, snapshot, hpc, cancelled, inbound, answer, out, failure>>
BY Appended DEF ReadFrame, Types, taskVars, outVars, endVars

LEMMA LoggedStep == Types /\ Logged /\ [Next]_vars => Logged'
<1> SUFFICES ASSUME Types, Logged, [Next]_vars PROVE Logged'
  OBVIOUS
<1>0. /\ log \in Seq(Frames) /\ hpc \in [Reqs -> {"unread", "run", "unregister", "queue",
                                                  "done", "reject", "rejected"}]
      /\ rpc \in {"dispatch", "reject", "cancel"} => log # <<>>
  BY DEF Types
<1>q. ASSUME UNCHANGED <<log, hpc>>, rpc' = rpc PROVE Logged'
  BY <1>q DEF Logged, ReadAlready, Positions
\* The read loop goes on from a frame it read, or from none.
<1>l. ASSUME UNCHANGED <<log, hpc>>, rpc # "dispatch", rpc # "reject",
             rpc' \notin {"dispatch", "reject", "cancel"}
      PROVE  Logged'
  BY <1>l DEF Logged, ReadAlready, Positions
<1>t. ASSUME NEW r \in Reqs, NEW to \in {"unregister", "queue", "done"}, log' = log,
             rpc' = rpc, hpc[r] \in {"run", "unregister", "queue"},
             hpc' = [hpc EXCEPT ![r] = to]
      PROVE  Logged'
  BY <1>0, <1>t DEF Logged, ReadAlready, Positions
<1>1. ASSUME NEW r \in Reqs, ReadRequest(r) PROVE Logged'
  <2>1. RequestFrame(r) \in Frames /\ ReadFrame(RequestFrame(r)) /\ ~ReadAlready(r)
    BY <1>1 DEF ReadRequest, Frames
  <2>2. Positions(r) = {} /\ hpc[r] = "unread"
    BY <2>1, <1>0, Read DEF Logged
  <2>3. \A q \in Reqs : Positions(q)' = IF q = r THEN {Len(log) + 1} ELSE Positions(q)
    BY <2>1, <2>2, <1>0, ReadEffect, Unlike DEF Positions
  <2>4. \A q \in Reqs : ReadAlready(q)' <=> ReadAlready(q) \/ q = r
    BY <2>1, ReadEffect, Unlike DEF ReadAlready
  <2> QED BY <2>1, <2>2, <2>3, <2>4, <1>0, ReadEffect, Unlike DEF Logged
<1>2. ASSUME NEW i \in Ids, ReadCancel(i) PROVE Logged'
  <2>1. CancelFrame(i) \in Frames /\ ReadFrame(CancelFrame(i))
    BY <1>2 DEF ReadCancel, Frames
  <2>2. \A q \in Reqs : Positions(q)' = Positions(q)
    BY <2>1, <1>0, ReadEffect, Unlike DEF Positions
  <2>3. \A q \in Reqs : ReadAlready(q)' <=> ReadAlready(q)
    BY <2>1, ReadEffect, Unlike DEF ReadAlready
  <2> QED BY <2>1, <2>2, <2>3, <1>0, ReadEffect, Unlike DEF Logged
<1>3. ASSUME NEW r \in Reqs, StartRequest(r) \/ RejectRequest(r) PROVE Logged'
  <2>1. /\ rpc = "dispatch" /\ Last(log) = RequestFrame(r) /\ log' = log
        /\ \/ rpc' = "read" /\ hpc' = [hpc EXCEPT ![r] = "run"]
           \/ rpc' = "reject" /\ hpc' = [hpc EXCEPT ![r] = "reject"]
    BY <1>3 DEF StartRequest, RejectRequest, Dispatching
  <2>2. ReadAlready(r) /\ Last(log).kind = "request"
    BY <2>1, <1>0, LastFrame DEF ReadAlready
  <2>3. \A q \in Reqs : (Positions(q)' = Positions(q)) /\ (ReadAlready(q)' <=> ReadAlready(q))
    BY <2>1 DEF Positions, ReadAlready
  <2> QED BY <2>1, <2>2, <2>3, <1>0, Unlike DEF Logged
<1>4. ASSUME NEW r \in Reqs, AnswerFrame(r) PROVE Logged'
  <2>1. /\ hpc[r] = "reject" /\ hpc' = [hpc EXCEPT ![r] = "rejected"] /\ log' = log
        /\ rpc' = IF rpc = "reject" THEN "read" ELSE rpc
    BY <1>4, TaskEffects
  <2>2. rpc = "reject" /\ Last(log) = RequestFrame(r) /\ rpc' = "read"
    BY <2>1 DEF Logged
  <2>3. \A q \in Reqs : (Positions(q)' = Positions(q)) /\ (ReadAlready(q)' <=> ReadAlready(q))
    BY <2>1 DEF Positions, ReadAlready
  <2> QED BY <2>1, <2>2, <2>3, <1>0, Unlike DEF Logged
<1>5. ASSUME NEW r \in Reqs, HandlerReturns(r) \/ TaskStep(r) PROVE Logged'
  BY <1>5, <1>t, TaskEffects DEF TaskStep, Unregister, readVars
<1>6. CASE CancelInbound
  <2>1. rpc = "dispatch" /\ Last(log).kind = "cancel" /\ rpc' = "cancel" /\ UNCHANGED <<log, hpc>>
    BY <1>6 DEF CancelInbound, taskVars
  <2>2. \A q \in Reqs : (Positions(q)' = Positions(q)) /\ (ReadAlready(q)' <=> ReadAlready(q))
    BY <2>1 DEF Positions, ReadAlready
  <2> QED BY <2>1, <2>2, <1>0, Unlike DEF Logged
<1>7. CASE CancelNext
  BY <1>7, <1>q, <1>l DEF CancelNext
<1>8. CASE ReadEOF \/ TasksFinish \/ FlushEnds \/ ReadFails
  <2>1. UNCHANGED <<log, hpc>> /\ rpc \in {"read", "join", "flush"}
        /\ rpc' \in {"join", "flush", "done"}
    BY <1>8, Zenon DEF ReadEOF, TasksFinish, FlushEnds, ReadFails, taskVars
  <2> QED BY <2>1, <1>l
<1>9. CASE BeginShutdown \/ StopServing \/ Close \/ Quiet
  <2>1. UNCHANGED <<log, hpc, rpc>>
    BY <1>9, Zenon DEF BeginShutdown, StopServing, Close, Quiet, readVars, taskVars
  <2> QED BY <2>1, <1>q
<1> QED
  BY <1>1, <1>2, <1>3, <1>4, <1>5, <1>6, <1>7, <1>8, <1>9, NextMoves, Zenon DEF Moves

(***************************************************************************)
(* The table of the requests that run, and the end of their handlers.      *)
(***************************************************************************)
LEMMA TableStep == Types /\ Logged /\ TableIsExact /\ [Next]_vars => TableIsExact'
<1> SUFFICES ASSUME Types, Logged, TableIsExact, [Next]_vars PROVE TableIsExact'
  OBVIOUS
<1>0. /\ id \in [Reqs -> Ids] /\ inbound \in [Ids -> SUBSET Reqs]
      /\ hpc \in [Reqs -> {"unread", "run", "unregister", "queue", "done", "reject",
                           "rejected"}]
  BY DEF Types
\* A step that takes no request into the table or out of it.
<1>q. ASSUME UNCHANGED <<id, inbound>>,
             \A q \in Reqs : hpc[q] \in {"run", "unregister"} <=> hpc'[q] \in {"run", "unregister"}
      PROVE  TableIsExact'
  BY <1>0, <1>q DEF TableIsExact, Registered
<1>u. ASSUME UNCHANGED <<id, inbound, hpc>> PROVE TableIsExact'
  BY <1>u DEF TableIsExact, Registered
<1>1. ASSUME NEW r \in Reqs, StartRequest(r) PROVE TableIsExact'
  <2>1. /\ hpc' = [hpc EXCEPT ![r] = "run"] /\ id' = id
        /\ inbound' = [inbound EXCEPT ![id[r]] = @ \cup {r}]
    BY <1>1 DEF StartRequest
  <2> QED BY <2>1, <1>0 DEF TableIsExact, Registered
<1>2. ASSUME NEW r \in Reqs, Unregister(r) PROVE TableIsExact'
  <2>1. /\ inbound' = [inbound EXCEPT ![id[r]] = @ \ {r}] /\ id' = id
        /\ hpc' = [hpc EXCEPT ![r] = IF answer[r] = "silent" THEN "done" ELSE "queue"]
    BY <1>2 DEF Unregister
  <2>2. \A q \in Reqs : hpc'[q] = IF q = r THEN IF answer[r] = "silent" THEN "done" ELSE "queue"
                                  ELSE hpc[q]
    BY <2>1, <1>0
  <2> QED BY <2>1, <2>2, <1>0 DEF TableIsExact, Registered
<1>3. ASSUME NEW r \in Reqs, RejectRequest(r) PROVE TableIsExact'
  <2>1. hpc[r] = "unread"
    <3>1. rpc = "dispatch" /\ Last(log) = RequestFrame(r) /\ log # <<>> /\ log \in Seq(Frames)
      BY <1>3 DEF RejectRequest, Dispatching, Types
    <3> QED BY <3>1, LastFrame DEF Logged, ReadAlready
  <2> QED BY <1>3, <2>1, <1>0, <1>q DEF RejectRequest
<1>4. ASSUME NEW r \in Reqs, AnswerFrame(r) \/ HandlerReturns(r) \/ QueueAnswer(r)
      PROVE  TableIsExact'
  <2>1. /\ UNCHANGED <<id, inbound>>
        /\ \/ hpc[r] = "reject" /\ hpc' = [hpc EXCEPT ![r] = "rejected"]
           \/ hpc[r] = "run" /\ hpc' = [hpc EXCEPT ![r] = "unregister"]
           \/ hpc[r] = "queue" /\ hpc' = [hpc EXCEPT ![r] = "done"]
    BY <1>4, TaskEffects
  <2> QED BY <2>1, <1>0, <1>q
<1>5. ASSUME NEW f, ReadFrame(f) PROVE TableIsExact'
  BY <1>5, <1>u DEF ReadFrame, taskVars
<1>6. CASE \/ CancelInbound \/ CancelNext \/ ReadEOF \/ TasksFinish \/ FlushEnds \/ ReadFails
           \/ BeginShutdown \/ StopServing \/ Close \/ Quiet
  <2>1. UNCHANGED <<id, inbound, hpc>>
    BY <1>6, Zenon DEF CancelInbound, CancelNext, ReadEOF, TasksFinish, FlushEnds, ReadFails,
       BeginShutdown, StopServing, Close, Quiet, taskVars
  <2> QED BY <2>1, <1>u
<1> QED
  BY <1>1, <1>2, <1>3, <1>4, <1>5, <1>6, NextMoves, Zenon DEF Moves, TaskStep, ReadRequest, ReadCancel

\* The requests that run, and those cancelled, after a step.
LEMMA RunningStep ==
  ASSUME Types, [Next]_vars
  PROVE  /\ cancelled \subseteq cancelled'
         /\ \A r \in Running' : r \notin Running =>
              rpc = "dispatch" /\ Last(log) = RequestFrame(r) /\ StartRequest(r)
<1>0. cancelled \subseteq Reqs
      /\ hpc \in [Reqs -> {"unread", "run", "unregister", "queue", "done", "reject",
                           "rejected"}]
  BY DEF Types
<1>q. ASSUME UNCHANGED hpc, cancelled \subseteq cancelled' PROVE cancelled \subseteq cancelled' /\ Running' = Running
  BY <1>0, <1>q DEF Running
<1>1. ASSUME NEW r \in Reqs, StartRequest(r)
      PROVE  /\ cancelled \subseteq cancelled'
             /\ \A q \in Running' : q \notin Running =>
                  rpc = "dispatch" /\ Last(log) = RequestFrame(q) /\ StartRequest(q)
  <2>1. cancelled' \in {cancelled, cancelled \cup {r}}
    BY <1>1, Zenon DEF StartRequest
  <2>2. rpc = "dispatch" /\ Last(log) = RequestFrame(r) /\ hpc' = [hpc EXCEPT ![r] = "run"]
    BY <1>1 DEF StartRequest, Dispatching
  <2>3. \A q \in Running' : q \notin Running => q = r
    BY <2>2, <1>0 DEF Running
  <2> QED BY <2>1, <2>2, <2>3, <1>1
<1>2. ASSUME NEW r \in Reqs, RejectRequest(r) \/ AnswerFrame(r) \/ HandlerReturns(r) \/ TaskStep(r)
      PROVE  cancelled' = cancelled /\ Running' \subseteq Running
  <2>1. /\ cancelled' = cancelled
        /\ \E to \in {"reject", "rejected", "unregister", "queue", "done"} :
             hpc' = [hpc EXCEPT ![r] = to]
    BY <1>2, TaskEffects DEF RejectRequest, TaskStep, Unregister
  <2> QED BY <2>1, <1>0 DEF Running
<1>3. ASSUME NEW f, ReadFrame(f) PROVE UNCHANGED <<hpc, cancelled>>
  BY <1>3 DEF ReadFrame, taskVars
<1>4. CASE CancelNext
  BY <1>4 DEF CancelNext, Running
<1>5. CASE CancelInbound \/ ReadEOF \/ TasksFinish \/ BeginShutdown \/ Quiet
  BY <1>5, Zenon DEF CancelInbound, ReadEOF, TasksFinish, BeginShutdown, Quiet, taskVars,
     Running
<1>6. CASE FlushEnds \/ ReadFails \/ StopServing \/ Close
  <2>1. StopHandlers /\ UNCHANGED hpc
    BY <1>6, Zenon DEF FlushEnds, ReadFails, StopServing, Close
  <2> QED BY <2>1 DEF StopHandlers, Running
<1> QED
  BY <1>1, <1>2, <1>3, <1>4, <1>5, <1>6, NextMoves DEF Moves, ReadRequest, ReadCancel, Running

LEMMA EndsStep ==
  Types /\ EndsCancelHandlers /\ [Next]_vars => EndsCancelHandlers'
<1> SUFFICES ASSUME Types, EndsCancelHandlers, [Next]_vars, ~serving' \/ Stopped'
             PROVE  Running' \subseteq cancelled'
  BY Zenon DEF EndsCancelHandlers
<1>1. CASE ~serving \/ Stopped
  <2>1. Running \subseteq cancelled
    BY <1>1, Zenon DEF EndsCancelHandlers
  <2>2. ASSUME NEW r, StartRequest(r) PROVE r \in cancelled'
    BY <1>1, <2>2, Zenon DEF StartRequest
  <2> QED BY <2>1, <2>2, RunningStep
<1>2. CASE serving /\ ~Stopped
  <2>1. StopHandlers /\ hpc' = hpc
    <3>1. ASSUME UNCHANGED <<serving, failure>> PROVE FALSE
      BY <1>2, <3>1, Zenon DEF Stopped
    <3>2. ASSUME NEW r \in Reqs, StartRequest(r) \/ RejectRequest(r) \/ AnswerFrame(r)
                                 \/ HandlerReturns(r) \/ TaskStep(r)
          PROVE FALSE
      BY <3>1, <3>2, Zenon DEF StartRequest, RejectRequest, AnswerFrame, HandlerReturns, TaskStep,
         Unregister, QueueAnswer, endVars
    <3>3. ASSUME NEW f, ReadFrame(f) PROVE FALSE
      BY <3>1, <3>3, Zenon DEF ReadFrame, endVars
    <3>4. CASE CancelInbound \/ CancelNext \/ ReadEOF \/ TasksFinish \/ BeginShutdown
               \/ Quiet
      BY <3>1, <3>4, Zenon DEF CancelInbound, CancelNext, ReadEOF, TasksFinish, BeginShutdown,
         endVars, Quiet
    <3>5. CASE FlushEnds \/ ReadFails \/ StopServing \/ Close
      BY <3>5, Zenon DEF FlushEnds, ReadFails, StopServing, Close
    <3> QED
      BY <3>2, <3>3, <3>4, <3>5, NextMoves, Zenon DEF Moves, ReadRequest, ReadCancel
  <2> QED BY <2>1 DEF StopHandlers, Running
<1> QED BY <1>1, <1>2, Zenon

(***************************************************************************)
(* Cancellations.                                                          *)
(***************************************************************************)
\* While cancelInbound runs, what it copied is of its id and was read, and
\* what it has not copied is cancelled, or has ended.
Snapshot ==
  rpc = "cancel" =>
    /\ \A r \in snapshot : id[r] = Last(log).id /\ ReadAlready(r)
    /\ \A r \in Running : id[r] = Last(log).id => r \in snapshot \cup cancelled

LEMMA SnapshotStep ==
  ASSUME Types, Logged, TableIsExact, Snapshot, [Next]_vars
  PROVE  Snapshot'
<1> SUFFICES ASSUME rpc' = "cancel" PROVE Snapshot'
  BY DEF Snapshot
<1>0. /\ log \in Seq(Frames) /\ hpc \in [Reqs -> {"unread", "run", "unregister", "queue",
                                                  "done", "reject", "rejected"}]
      /\ (rpc = "dispatch" => log # <<>>) /\ id \in [Reqs -> Ids]
  BY DEF Types
<1>1. CASE CancelInbound
  <2>1. /\ rpc = "dispatch" /\ Last(log).kind = "cancel" /\ snapshot' = inbound[Last(log).id]
        /\ UNCHANGED <<id, log, hpc, cancelled>>
    BY <1>1 DEF CancelInbound, taskVars
  <2>2. Last(log).id \in Ids
    BY <2>1, <1>0, LastFrame
  <2>3. snapshot' = {r \in Reqs : id[r] = Last(log).id /\ hpc[r] \in {"run", "unregister"}}
    BY <2>1, <2>2 DEF TableIsExact, Registered
  <2>4. \A r \in snapshot' : ReadAlready(r)
    BY <2>3 DEF Logged
  <2> QED BY <2>1, <2>3, <2>4 DEF Snapshot, Running, ReadAlready
<1>2. CASE CancelNext
  <2>1. /\ rpc = "cancel" /\ UNCHANGED <<id, log, hpc>> /\ snapshot' \subseteq snapshot
        /\ snapshot \cup cancelled = snapshot' \cup cancelled'
    BY <1>2 DEF CancelNext
  <2> QED BY <2>1 DEF Snapshot, Running, ReadAlready
<1>3. CASE rpc = "cancel" /\ UNCHANGED <<id, log, snapshot>>
  <2>1. Running' \subseteq Running
    BY <1>3, RunningStep
  <2> QED BY <1>3, <2>1, RunningStep DEF Snapshot, ReadAlready
<1>4. \/ CancelInbound \/ CancelNext
      \/ rpc = "cancel" /\ UNCHANGED <<id, log, snapshot>>
  <2>1. ASSUME NEW r \in Reqs, StartRequest(r) \/ RejectRequest(r) \/ AnswerFrame(r)
                               \/ HandlerReturns(r) \/ TaskStep(r)
        PROVE  rpc = "cancel" /\ UNCHANGED <<id, log, snapshot>>
    <3>1. UNCHANGED <<id, log, snapshot>> /\ rpc' \in {"read", "reject", rpc}
      BY <2>1, TaskEffects DEF StartRequest, RejectRequest, TaskStep, Unregister, readVars
    <3> QED BY <3>1
  <2>2. ASSUME NEW f, ReadFrame(f) PROVE FALSE
    BY <2>2 DEF ReadFrame
  <2>3. CASE ReadEOF \/ TasksFinish \/ FlushEnds \/ ReadFails
    <3>1. rpc' \in {"join", "flush", "done"}
      BY <2>3, Zenon DEF ReadEOF, TasksFinish, FlushEnds, ReadFails
    <3> QED BY <3>1
  <2>4. CASE BeginShutdown \/ StopServing \/ Close \/ Quiet
    <3>1. UNCHANGED <<id, log, snapshot, rpc>>
      BY <2>4, Zenon DEF BeginShutdown, StopServing, Close, Quiet, readVars
    <3> QED BY <3>1
  <2> QED BY <2>1, <2>2, <2>3, <2>4, NextMoves, Zenon DEF Moves, ReadRequest, ReadCancel
<1> QED BY <1>1, <1>2, <1>3, <1>4

\* What the read loop does to the log: it reads a frame, starts or refuses the
\* last request, ends the last cancellation, or leaves the log alone.
LEMMA LogStep ==
  ASSUME Types, Logged, [Next]_vars
  PROVE  \/ \E f \in Frames : ReadFrame(f)
         \/ /\ UNCHANGED <<id, log>>
            /\ \/ rpc' \in {"dispatch", "cancel"} /\ rpc \in {"dispatch", "cancel"}
               \/ rpc \notin {"dispatch", "cancel"}
               \/ rpc = "dispatch" /\ Last(log).kind = "request" /\ log # <<>>
               \/ rpc = "cancel" /\ snapshot = {} /\ cancelled' = cancelled /\ hpc' = hpc
<1>1. ASSUME NEW r \in Reqs, StartRequest(r) \/ RejectRequest(r)
      PROVE  UNCHANGED <<id, log>> /\ rpc = "dispatch" /\ Last(log).kind = "request"
  BY <1>1, Unlike DEF StartRequest, RejectRequest, Dispatching
<1>2. ASSUME NEW r \in Reqs, AnswerFrame(r) \/ HandlerReturns(r) \/ TaskStep(r)
      PROVE  UNCHANGED <<id, log>> /\ (rpc' = rpc \/ rpc = "reject")
  BY <1>2, TaskEffects DEF TaskStep, Unregister, readVars
<1>3. CASE CancelInbound \/ CancelNext
  BY <1>3 DEF CancelInbound, CancelNext
<1>4. CASE ReadEOF \/ TasksFinish \/ FlushEnds \/ ReadFails
  <2>1. UNCHANGED <<id, log>> /\ rpc \in {"read", "join", "flush"}
    BY <1>4, Zenon DEF ReadEOF, TasksFinish, FlushEnds, ReadFails
  <2> QED BY <2>1
<1>5. CASE BeginShutdown \/ StopServing \/ Close \/ Quiet
  <2>1. UNCHANGED <<id, log, rpc>>
    BY <1>5, Zenon DEF BeginShutdown, StopServing, Close, Quiet, readVars
  <2> QED BY <2>1
<1>6. \A r \in Reqs : ReadRequest(r) => \E f \in Frames : ReadFrame(f)
  BY DEF ReadRequest, Frames
<1>7. \A i \in Ids : ReadCancel(i) => \E f \in Frames : ReadFrame(f)
  BY DEF ReadCancel, Frames
<1>8. rpc = "dispatch" => log # <<>>
  BY DEF Types
<1> QED BY <1>1, <1>2, <1>3, <1>4, <1>5, <1>6, <1>7, <1>8, NextMoves DEF Moves

LEMMA ReachesStep ==
  ASSUME Types, Logged, Snapshot, CancelReaches, [Next]_vars
  PROVE  CancelReaches'
<1>0. log \in Seq(Frames) /\ Len(log) \in Nat /\ log' \in Seq(Frames)
  BY TypesStep DEF Types
<1> SUFFICES ASSUME NEW k \in 1..Len(log'), log'[k].kind = "cancel",
                    k < Len(log') \/ rpc' \notin {"dispatch", "cancel"},
                    NEW j \in 1..k, NEW r \in Reqs, log'[j] = RequestFrame(r),
                    id'[r] = log'[k].id, hpc'[r] = "run"
             PROVE  r \in cancelled'
  <2>1. \A k \in 1..Len(log') : \A j \in 1..k : log'[j] \in Frames
    BY <1>0
  <2> QED BY <2>1, Unlike DEF CancelReaches
<1>1. log'[k] = log[k] /\ log'[j] = log[j] /\ k \in 1..Len(log) /\ j \in 1..Len(log) /\ id' = id
  BY <1>0, LogStep, ReadEffect
<1>2. log[j] = RequestFrame(r) /\ log[k].id \in Ids /\ log[j] \in Frames /\ log[k] \in Frames
  BY <1>0, <1>1, Unlike
<1>3. r \in Running
  <2>1. CASE r \notin Running
    <3>0. r \in Running' /\ (rpc = "dispatch" => log # <<>>)
      BY <1>2 DEF Running, Types
    <3>1. rpc = "dispatch" /\ Last(log) = RequestFrame(r) /\ log # <<>>
      BY <2>1, <3>0, RunningStep
    <3>2. Len(log) = j
      <4>1. Len(log) \in Positions(r)
        BY <1>0, <3>1, LastFrame DEF Positions
      <4>2. j \in Positions(r)
        BY <1>1, <1>2 DEF Positions
      <4> QED BY <4>1, <4>2 DEF Logged
    <3>3. k = j
      BY <1>0, <1>1, <3>2
    <3> QED BY <1>1, <1>2, <3>3, Unlike
  <2> QED BY <2>1
<1>4. CASE k < Len(log) \/ rpc \notin {"dispatch", "cancel"}
  <2>1. log[j].kind = "request" /\ log[j].req = r /\ log[k].kind = "cancel" /\ id[r] = log[k].id
    BY <1>1, <1>2, Unlike
  <2>2. hpc[r] = "run"
    BY <1>3 DEF Running
  <2> QED BY <1>1, <1>4, <2>1, <2>2, RunningStep DEF CancelReaches
<1>5. CASE k = Len(log) /\ rpc \in {"dispatch", "cancel"}
  <2>1. ~(\E f \in Frames : ReadFrame(f))
    BY <1>5 DEF ReadFrame
  <2>2. log' = log /\ rpc = "cancel" /\ snapshot = {} /\ cancelled' = cancelled
    BY <2>1, <1>0, <1>1, <1>5, LogStep, LastFrame
  <2>3. Last(log) = log[k]
    BY <1>5 DEF Last
  <2> QED BY <2>2, <2>3, <1>1, <1>2, <1>3 DEF Snapshot
<1> QED BY <1>0, <1>1, <1>4, <1>5

LEMMA PreciseStep ==
  ASSUME Types, Logged, Snapshot, CancelIsPrecise, [Next]_vars
  PROVE  CancelIsPrecise'
<1> SUFFICES ASSUME serving', ~Stopped', NEW r \in cancelled'
             PROVE  \E j, k \in 1..Len(log') :
                      j < k /\ log'[j] = RequestFrame(r) /\ log'[k] = CancelFrame(id'[r])
  BY Zenon DEF CancelIsPrecise
<1>0. log \in Seq(Frames) /\ Len(log) \in Nat /\ cancelled \subseteq Reqs /\ snapshot \subseteq Reqs
  BY DEF Types
<1>1. CASE r \in cancelled /\ serving /\ ~Stopped
  <2>1. PICK j, k \in 1..Len(log) : j < k /\ log[j] = RequestFrame(r) /\ log[k] = CancelFrame(id[r])
    BY <1>1, Zenon DEF CancelIsPrecise
  <2> QED BY <1>0, <2>1, LogStep, ReadEffect
<1>2. CASE r \notin cancelled /\ CancelNext
  <2>1. rpc = "cancel" /\ r \in snapshot /\ UNCHANGED <<id, log>> /\ log # <<>>
    BY <1>2 DEF CancelNext, Types
  <2>2. id[r] = Last(log).id /\ ReadAlready(r) /\ Last(log).kind = "cancel" /\ r \in Reqs
    BY <2>1, <1>0 DEF Snapshot, Logged
  <2>3. PICK j \in 1..Len(log) : log[j] = RequestFrame(r)
    BY <2>2, <1>0 DEF ReadAlready, Range
  <2>4. Last(log) = CancelFrame(id[r]) /\ Last(log) = log[Len(log)] /\ Len(log) \in Nat \ {0}
    BY <2>1, <2>2, <1>0, LastFrame, Unlike
  <2>5. j < Len(log)
    BY <2>2, <2>3, <2>4, <1>0, Unlike
  <2> QED BY <2>1, <2>3, <2>4, <2>5
<1>3. serving /\ ~Stopped /\ (r \in cancelled \/ CancelNext)
  <2>1. ASSUME NEW q \in Reqs, StartRequest(q)
        PROVE  serving /\ ~Stopped /\ cancelled' = cancelled
    <3>1. serving' = serving /\ failure' = failure
      BY <2>1, Zenon DEF StartRequest, endVars
    <3>2. serving /\ ~Stopped
      BY <3>1, Zenon DEF Stopped
    <3> QED BY <2>1, <3>2, Zenon DEF StartRequest
  <2>2. ASSUME NEW q \in Reqs, RejectRequest(q) \/ AnswerFrame(q) \/ HandlerReturns(q) \/ TaskStep(q)
        PROVE  serving /\ ~Stopped /\ cancelled' = cancelled
    <3>1. serving' = serving /\ failure' = failure /\ cancelled' = cancelled
      BY <2>2, Zenon DEF RejectRequest, AnswerFrame, HandlerReturns, TaskStep, Unregister,
         QueueAnswer, endVars
    <3> QED BY <3>1, Zenon DEF Stopped
  <2>3. ASSUME NEW f, ReadFrame(f) PROVE serving /\ ~Stopped /\ cancelled' = cancelled
    <3>1. serving' = serving /\ failure' = failure /\ cancelled' = cancelled
      BY <2>3, Zenon DEF ReadFrame, taskVars, endVars
    <3> QED BY <3>1, Zenon DEF Stopped
  <2>4. CASE CancelInbound \/ ReadEOF \/ TasksFinish \/ BeginShutdown \/ Quiet
    <3>1. serving' = serving /\ failure' = failure /\ cancelled' = cancelled
      BY <2>4, Zenon DEF CancelInbound, ReadEOF, TasksFinish, BeginShutdown, Quiet,
         taskVars, endVars
    <3> QED BY <3>1, Zenon DEF Stopped
  <2>5. CASE CancelNext
    <3>1. serving' = serving /\ failure' = failure
      BY <2>5, Zenon DEF CancelNext, endVars
    <3> QED BY <2>5, <3>1, Zenon DEF Stopped
  <2>6. ~StopServing /\ (FlushEnds \/ ReadFails \/ Close => FALSE)
    <3>1. FlushEnds \/ ReadFails \/ Close => failure' # "none"
      <4>1. FlushEnds => Stop("eof")
        BY DEF FlushEnds
      <4>2. ReadFails => Stop("error")
        BY DEF ReadFails
      <4>3. Close => Stop("error")
        BY DEF Close
      <4> QED BY <4>1, <4>2, <4>3 DEF Stop, Stopped
    <3>2. StopServing => ~serving'
      BY Zenon DEF StopServing
    <3> QED BY <3>1, <3>2, Zenon DEF Stopped
  <2> QED
    BY <2>1, <2>2, <2>3, <2>4, <2>5, <2>6, NextMoves, Zenon DEF Moves, ReadRequest, ReadCancel
<1> QED BY <1>1, <1>2, <1>3, Zenon

(***************************************************************************)
(* Answers.                                                                *)
(***************************************************************************)
Answered(r) == r \in Range(out) \/ answer[r] = "silent"
AllAnswered == TasksDone /\ \A r \in Reqs : ReadAlready(r) => Answered(r)

\* A task ends with its answer queued or given up, unless the queue refused it;
\* the flush after EOF begins when all have.
Ended ==
  /\ \A r \in Reqs : hpc[r] \in {"done", "rejected"} => Answered(r) \/ sealed \/ Stopped
  /\ rpc = "flush" => AllAnswered \/ Stopped
  /\ failure = "eof" => AllAnswered /\ rpc = "done"

\* A refused request that was not answered is the last one, or the connection
\* has stopped.
Refused ==
  /\ \A r \in Reqs : r \in Range(out) => hpc[r] \in {"done", "rejected"}
  /\ \A r \in Reqs : hpc[r] = "rejected" =>
       \/ r \in Range(out) \/ Stopped
       \/ sealed /\ Last(log) = RequestFrame(r)

\* The answers that a step adds.
LEMMA OutStep ==
  ASSUME Types, [Next]_vars
  PROVE  \/ out' = out
         \/ \E r \in Reqs : /\ out' = Append(out, r)
                            /\ Range(out') = Range(out) \cup {r}
                            /\ AnswerFrame(r) \/ QueueAnswer(r)
<1>1. \A r \in Reqs : Range(Append(out, r)) = Range(out) \cup {r}
  BY Appended DEF Types
<1>2. ASSUME NEW r \in Reqs, AnswerFrame(r) \/ QueueAnswer(r)
      PROVE  out' = out \/ out' = Append(out, r)
  BY <1>2, TaskEffects
<1>3. ASSUME NEW r \in Reqs, StartRequest(r) \/ RejectRequest(r) \/ HandlerReturns(r) \/ Unregister(r)
      PROVE  out' = out
  BY <1>3, TaskEffects DEF StartRequest, RejectRequest, Unregister, outVars
<1>4. ASSUME NEW f, ReadFrame(f) PROVE out' = out
  BY <1>4 DEF ReadFrame, outVars
<1>5. CASE \/ CancelInbound \/ CancelNext \/ ReadEOF \/ TasksFinish \/ FlushEnds \/ ReadFails
           \/ BeginShutdown \/ StopServing \/ Close \/ Quiet
  BY <1>5, Zenon DEF CancelInbound, CancelNext, ReadEOF, TasksFinish, FlushEnds, ReadFails,
     BeginShutdown, StopServing, Close, Quiet, outVars
<1> QED
  BY <1>1, <1>2, <1>3, <1>4, <1>5, NextMoves, Zenon DEF Moves, TaskStep, ReadRequest, ReadCancel

\* The seal and a stop are for good; the queue refuses an answer only behind them.
LEMMA SealStep ==
  ASSUME [Next]_vars
  PROVE  /\ sealed => sealed'
         /\ Stopped => Stopped' /\ failure' = failure
         /\ \A r \in Reqs : AnswerFrame(r) \/ QueueAnswer(r) =>
              out' = Append(out, r) \/ sealed \/ Stopped
<1>1. ASSUME NEW r \in Reqs, StartRequest(r) \/ RejectRequest(r) \/ AnswerFrame(r)
                             \/ HandlerReturns(r) \/ TaskStep(r)
      PROVE  UNCHANGED <<sealed, failure>>
  BY <1>1, Zenon DEF StartRequest, RejectRequest, AnswerFrame, HandlerReturns, TaskStep,
     Unregister, QueueAnswer, endVars
<1>2. ASSUME NEW f, ReadFrame(f) PROVE UNCHANGED <<sealed, failure>>
  BY <1>2, Zenon DEF ReadFrame, endVars
<1>3. ASSUME \/ CancelInbound \/ CancelNext \/ ReadEOF \/ TasksFinish \/ FlushEnds \/ ReadFails
             \/ BeginShutdown \/ StopServing \/ Close \/ Quiet
      PROVE  (sealed => sealed') /\ (Stopped => failure' = failure)
  <2>1. CASE FlushEnds \/ ReadFails \/ Close
    <3>1. sealed' = sealed /\ (Stop("eof") \/ Stop("error"))
      BY <2>1, Zenon DEF FlushEnds, ReadFails, Close
    <3> QED BY <3>1, Zenon DEF Stop
  <2>2. CASE CancelInbound \/ CancelNext \/ ReadEOF \/ StopServing \/ Quiet
    <3>1. UNCHANGED <<sealed, failure>>
      BY <2>2, Zenon DEF CancelInbound, CancelNext, ReadEOF, StopServing, Quiet, endVars
    <3> QED BY <3>1
  <2>3. CASE TasksFinish \/ BeginShutdown
    BY <2>3 DEF TasksFinish, BeginShutdown
  <2> QED BY <1>3, <2>1, <2>2, <2>3, Zenon
<1>4. \A r \in Reqs : AnswerFrame(r) \/ QueueAnswer(r) =>
         out' = Append(out, r) \/ sealed \/ Stopped
  BY Zenon DEF AnswerFrame, QueueAnswer, Answers, GivesUp
<1>5. (sealed => sealed') /\ (Stopped => Stopped' /\ failure' = failure)
  BY <1>1, <1>2, <1>3, NextMoves, Zenon DEF Moves, ReadRequest, ReadCancel, Stopped
<1> QED BY <1>4, <1>5, Zenon

\* A request moves by a step of its own only.
LEMMA OwnStep ==
  ASSUME Types, Logged, [Next]_vars, NEW r \in Reqs
  PROVE  \/ hpc'[r] = hpc[r] /\ answer'[r] = answer[r]
         \/ hpc[r] = "unread" /\ hpc'[r] \in {"run", "reject"} /\ rpc = "dispatch"
         \/ AnswerFrame(r) \/ HandlerReturns(r) \/ Unregister(r) \/ QueueAnswer(r)
<1>0. /\ hpc \in [Reqs -> {"unread", "run", "unregister", "queue", "done", "reject", "rejected"}]
      /\ answer \in [Reqs -> {"none", "refused", "answered", "silent"}]
      /\ log \in Seq(Frames) /\ (rpc = "dispatch" => log # <<>>)
  BY DEF Types
<1>1. ASSUME NEW q \in Reqs, StartRequest(q) \/ RejectRequest(q)
      PROVE  \/ hpc'[r] = hpc[r] /\ answer'[r] = answer[r]
             \/ hpc[r] = "unread" /\ hpc'[r] \in {"run", "reject"} /\ rpc = "dispatch"
  <2>1. /\ rpc = "dispatch" /\ Last(log) = RequestFrame(q) /\ answer' = answer
        /\ \E to \in {"run", "reject"} : hpc' = [hpc EXCEPT ![q] = to]
    BY <1>1 DEF StartRequest, RejectRequest, Dispatching
  <2>2. hpc[q] = "unread"
    BY <2>1, <1>0, LastFrame DEF Logged, ReadAlready
  <2> QED BY <2>1, <2>2, <1>0
<1>2. ASSUME NEW q \in Reqs, q # r,
             AnswerFrame(q) \/ HandlerReturns(q) \/ Unregister(q) \/ QueueAnswer(q)
      PROVE  hpc'[r] = hpc[r] /\ answer'[r] = answer[r]
  <2>1. \/ answer' = answer
        \/ \E a \in {"none", "refused", "answered", "silent"} : answer' = [answer EXCEPT ![q] = a]
    BY <1>2, TaskEffects DEF Unregister
  <2>2. \E to \in {"rejected", "unregister", "queue", "done"} : hpc' = [hpc EXCEPT ![q] = to]
    BY <1>2, TaskEffects DEF Unregister
  <2> QED BY <1>0, <1>2, <2>1, <2>2
<1>3. ASSUME NEW f, ReadFrame(f) PROVE UNCHANGED <<hpc, answer>>
  BY <1>3 DEF ReadFrame, taskVars
<1>4. CASE \/ CancelInbound \/ CancelNext \/ ReadEOF \/ TasksFinish \/ FlushEnds \/ ReadFails
           \/ BeginShutdown \/ StopServing \/ Close \/ Quiet
  <2>1. UNCHANGED <<hpc, answer>>
    BY <1>4, Zenon DEF CancelInbound, CancelNext, ReadEOF, TasksFinish, FlushEnds, ReadFails,
       BeginShutdown, StopServing, Close, Quiet, taskVars
  <2> QED BY <2>1
<1> QED
  BY <1>1, <1>2, <1>3, <1>4, NextMoves DEF Moves, TaskStep, ReadRequest, ReadCancel

LEMMA AllAnsweredStays ==
  ASSUME Types, Logged, [Next]_vars, AllAnswered, rpc \in {"flush", "done"}
  PROVE  AllAnswered'
<1>1. \A r \in Reqs : hpc'[r] = hpc[r] /\ answer'[r] = answer[r]
  <2>1. \A r \in Reqs : hpc[r] \in {"unread", "rejected", "done"}
    BY DEF AllAnswered, TasksDone
  <2>2. \A r \in Reqs : Unregister(r) => hpc[r] = "unregister"
    BY DEF Unregister
  <2> QED BY <2>1, <2>2, OwnStep, TaskEffects
<1>2. \A r \in Reqs : ReadAlready(r)' <=> ReadAlready(r)
  <2>1. log' = log
    BY LogStep DEF ReadFrame
  <2> QED BY <2>1 DEF ReadAlready
<1>3. \A r \in Reqs : Answered(r) => Answered(r)'
  BY <1>1, OutStep DEF Answered
<1>4. TasksDone'
  BY <1>1 DEF AllAnswered, TasksDone
<1> QED BY <1>1, <1>2, <1>3, <1>4 DEF AllAnswered

\* How the read loop comes to flush, and the connection to end with EOF.
LEMMA FlushStep ==
  ASSUME [Next]_vars
  PROVE  /\ rpc' = "flush" => rpc = "flush" \/ TasksFinish
         /\ rpc = "done" => rpc' = "done"
         /\ failure' = "eof" => failure = "eof" \/ (FlushEnds /\ ~Stopped)
<1>1. ASSUME NEW r \in Reqs, StartRequest(r) \/ RejectRequest(r) \/ AnswerFrame(r)
                             \/ HandlerReturns(r) \/ TaskStep(r)
      PROVE  /\ rpc' \in {rpc, "read", "reject"} /\ (rpc = "done" => rpc' = "done")
             /\ failure' = failure
  BY <1>1, TaskEffects DEF StartRequest, RejectRequest, TaskStep, Unregister, Dispatching,
     readVars, endVars
<1>2. ASSUME NEW f, ReadFrame(f)
      PROVE  rpc = "read" /\ rpc' = "dispatch" /\ failure' = failure
  BY <1>2 DEF ReadFrame, endVars
<1>3. CASE CancelInbound \/ CancelNext
  BY <1>3 DEF CancelInbound, CancelNext, endVars
<1>4. CASE ReadEOF \/ TasksFinish
  <2>1. rpc # "done" /\ failure' = failure /\ (rpc' = "flush" => TasksFinish)
    BY <1>4 DEF ReadEOF, TasksFinish
  <2> QED BY <2>1
<1>5. CASE FlushEnds \/ ReadFails
  <2>1. rpc' = "done" /\ (failure' = "eof" => failure = "eof" \/ (FlushEnds /\ ~Stopped))
    BY <1>5 DEF FlushEnds, ReadFails, Stop, Stopped
  <2> QED BY <2>1
<1>6. CASE Close
  BY <1>6 DEF Close, Stop, readVars
<1>7. CASE BeginShutdown \/ StopServing \/ Quiet
  <2>1. rpc' = rpc /\ failure' = failure
    BY <1>7, Zenon DEF BeginShutdown, StopServing, Quiet, readVars, endVars
  <2> QED BY <2>1
<1> QED
  BY <1>1, <1>2, <1>3, <1>4, <1>5, <1>6, <1>7, NextMoves DEF Moves, ReadRequest, ReadCancel

LEMMA EndedStep == ASSUME Types, Logged, Ended, [Next]_vars PROVE Ended'
<1>1. ASSUME NEW r \in Reqs, hpc'[r] \in {"done", "rejected"}
      PROVE  Answered(r)' \/ sealed' \/ Stopped'
  <2>1. CASE hpc'[r] = hpc[r] /\ answer'[r] = answer[r]
    <3>1. Answered(r) => Answered(r)'
      BY <2>1, OutStep DEF Answered
    <3>2. Answered(r) \/ sealed \/ Stopped
      BY <1>1, <2>1, Zenon DEF Ended
    <3> QED BY <3>1, <3>2, SealStep, Zenon
  <2>2. CASE AnswerFrame(r) \/ QueueAnswer(r)
    <3>1. out' = Append(out, r) => Answered(r)'
      BY Appended DEF Types, Answered
    <3> QED BY <2>2, <3>1, SealStep, Zenon
  <2>3. CASE Unregister(r)
    <3>1. hpc' = [hpc EXCEPT ![r] = IF answer[r] = "silent" THEN "done" ELSE "queue"]
          /\ answer' = answer /\ hpc[r] = "unregister"
      BY <2>3 DEF Unregister
    <3>2. answer[r] = "silent"
      BY <1>1, <3>1 DEF Types
    <3> QED BY <3>1, <3>2, Zenon DEF Answered
  <2>4. ~HandlerReturns(r) /\ hpc'[r] \notin {"run", "reject"}
    <3>1. HandlerReturns(r) => hpc'[r] = "unregister"
      BY TaskEffects DEF Types
    <3> QED BY <1>1, <3>1
  <2> QED BY <2>1, <2>2, <2>3, <2>4, OwnStep, Zenon
<1>2. ASSUME rpc' = "flush" PROVE AllAnswered' \/ Stopped'
  <2>1. CASE rpc = "flush"
    <3>1. AllAnswered \/ Stopped
      BY <2>1, Zenon DEF Ended
    <3>2. AllAnswered => AllAnswered'
      BY <2>1, AllAnsweredStays
    <3> QED BY <3>1, <3>2, SealStep, Zenon
  <2>2. CASE TasksFinish
    <3>1. TasksDone /\ rpc = "join" /\ UNCHANGED <<log, hpc, answer, out, failure>>
      BY <2>2 DEF TasksFinish, taskVars, outVars
    <3>2. ~sealed
      BY <1>2, <2>2 DEF TasksFinish
    <3>3. ASSUME NEW r \in Reqs, ReadAlready(r), ~Stopped PROVE Answered(r)
      <4>1. hpc[r] \in {"rejected", "done"}
        BY <3>1, <3>3 DEF Logged, TasksDone
      <4> QED BY <3>2, <3>3, <4>1, Zenon DEF Ended
    <3>4. AllAnswered \/ Stopped
      BY <3>1, <3>3, Zenon DEF AllAnswered
    <3>5. (AllAnswered => AllAnswered') /\ (Stopped => Stopped')
      BY <3>1 DEF AllAnswered, TasksDone, ReadAlready, Answered, Stopped
    <3> QED BY <3>4, <3>5, Zenon
  <2> QED BY <1>2, <2>1, <2>2, FlushStep
<1>3. ASSUME failure' = "eof" PROVE AllAnswered' /\ rpc' = "done"
  <2>1. CASE failure = "eof"
    <3>1. AllAnswered /\ rpc = "done"
      BY <2>1, Zenon DEF Ended
    <3> QED BY <3>1, AllAnsweredStays, FlushStep
  <2>2. CASE FlushEnds /\ ~Stopped
    <3>1. rpc = "flush" /\ rpc' = "done"
      BY <2>2 DEF FlushEnds
    <3>2. AllAnswered
      BY <2>2, <3>1, Zenon DEF Ended
    <3> QED BY <3>1, <3>2, AllAnsweredStays
  <2> QED BY <1>3, <2>1, <2>2, FlushStep
<1> QED BY <1>1, <1>2, <1>3, Zenon DEF Ended

LEMMA RefusedStep == ASSUME Types, Logged, Refused, [Next]_vars PROVE Refused'
<1>0. hpc \in [Reqs -> {"unread", "run", "unregister", "queue", "done", "reject", "rejected"}]
  BY DEF Types
<1>u. \A r \in Reqs : /\ Unregister(r) => hpc[r] = "unregister" /\ hpc'[r] \in {"done", "queue"}
                      /\ HandlerReturns(r) => hpc[r] = "run" /\ hpc'[r] = "unregister"
                      /\ AnswerFrame(r) => hpc[r] = "reject" /\ hpc'[r] = "rejected"
                      /\ QueueAnswer(r) => hpc[r] = "queue" /\ hpc'[r] = "done"
  BY <1>0, TaskEffects DEF Unregister
<1>1. ASSUME NEW r \in Reqs, r \in Range(out') PROVE hpc'[r] \in {"done", "rejected"}
  <2>1. CASE r \in Range(out)
    <3>1. hpc[r] \in {"done", "rejected"}
      BY <2>1, Zenon DEF Refused
    <3> QED BY <3>1, <1>u, OwnStep
  <2>2. CASE r \notin Range(out)
    BY <1>1, <2>2, <1>u, OutStep
  <2> QED BY <2>1, <2>2
<1>2. ASSUME NEW r \in Reqs, hpc'[r] = "rejected"
      PROVE  r \in Range(out') \/ Stopped' \/ (sealed' /\ Last(log') = RequestFrame(r))
  <2>1. CASE hpc[r] = "rejected"
    <3>1. r \in Range(out) \/ Stopped \/ (sealed /\ Last(log) = RequestFrame(r))
      BY <2>1, Zenon DEF Refused
    <3>2. r \in Range(out) => r \in Range(out')
      BY OutStep
    <3>3. sealed => log' = log
      <4>1. ASSUME NEW f, ReadFrame(f) PROVE ~sealed
        BY <4>1, Zenon DEF ReadFrame
      <4> QED BY <4>1, LogStep, Zenon
    <3> QED BY <3>1, <3>2, <3>3, SealStep, Zenon
  <2>2. CASE AnswerFrame(r)
    <3>1. Last(log) = RequestFrame(r) /\ log' = log
      BY <2>2, TaskEffects DEF Logged
    <3>2. out' = Append(out, r) => r \in Range(out')
      BY Appended DEF Types
    <3> QED BY <2>2, <3>1, <3>2, SealStep, Zenon
  <2> QED BY <1>2, <2>1, <2>2, <1>u, OwnStep
<1> QED BY <1>1, <1>2, Zenon DEF Refused

LEMMA OrderStep ==
  ASSUME Types, Logged, Refused, RefusedInOrder, [Next]_vars
  PROVE  RefusedInOrder'
<1>0. /\ log \in Seq(Frames) /\ Len(log) \in Nat /\ log' \in Seq(Frames) /\ Len(log') \in Nat
      /\ out \in Seq(Reqs) /\ Len(out) \in Nat
      /\ hpc \in [Reqs -> {"unread", "run", "unregister", "queue", "done", "reject", "rejected"}]
      /\ (rpc' = "reject" => log' # <<>>) /\ (rpc = "reject" => log # <<>>)
  BY TypesStep DEF Types
<1>r. Logged' /\ Refused'
  BY LoggedStep, RefusedStep
<1> SUFFICES ASSUME NEW j \in 1..Len(log'), NEW k \in 1..Len(log'), j < k,
                    NEW r \in Reqs, NEW q \in Reqs,
                    log'[j] = RequestFrame(r), log'[k] = RequestFrame(q),
                    hpc'[r] \in {"reject", "rejected"}, q \in Range(out')
             PROVE  Before(r, q)' \/ (Stopped' /\ r \notin Range(out'))
  <2>1. \A j \in 1..Len(log') : log'[j] \in Frames
    BY <1>0
  <2>2. \A j \in 1..Len(log') : log'[j].kind = "request" =>
          log'[j].req \in Reqs /\ log'[j] = RequestFrame(log'[j].req)
    BY <2>1, Unlike
  <2> QED BY <2>2, Zenon DEF RefusedInOrder
<1>1. Last(log') # RequestFrame(r) /\ r # q
  <2>1. j \in Positions(r)' /\ k \in Positions(q)'
    BY DEF Positions
  <2>2. r # q
    BY <2>1, <1>r DEF Logged
  <2>3. Last(log') = RequestFrame(r) => Len(log') \in Positions(r)'
    BY <1>0 DEF Last, Positions
  <2>4. Last(log') # RequestFrame(r)
    BY <2>1, <2>3, <1>0, <1>r DEF Logged
  <2> QED BY <2>2, <2>4
<1>2. hpc'[r] = "rejected" /\ (r \in Range(out') \/ Stopped')
  <2>1. hpc'[r] = "rejected"
    BY <1>1, <1>r DEF Logged
  <2> QED BY <1>1, <1>r, <2>1, Zenon DEF Refused
<1>3. CASE q \notin Range(out)
  <2>1. out' = Append(out, q) /\ Range(out') = Range(out) \cup {q}
    BY <1>3, OutStep
  <2>2. CASE r \in Range(out')
    <3>1. PICK m \in 1..Len(out) : out[m] = r
      BY <2>1, <2>2, <1>1, <1>0 DEF Range
    <3>2. m < Len(out) + 1 /\ out'[m] = r /\ out'[Len(out) + 1] = q /\ Len(out') = Len(out) + 1
      BY <2>1, <3>1, <1>0
    <3> QED BY <1>0, <3>1, <3>2 DEF Before
  <2> QED BY <1>2, <2>2, Zenon
<1>4. CASE q \in Range(out)
  <2>1. hpc[q] \in {"done", "rejected"} /\ ReadAlready(q)
    BY <1>4, Zenon DEF Refused, Logged
  <2>2. j \in 1..Len(log) /\ k \in 1..Len(log) /\ log[j] = RequestFrame(r) /\ log[k] = RequestFrame(q)
    <3>1. CASE log' = log
      BY <3>1
    <3>2. ASSUME NEW f \in Frames, ReadFrame(f)
          PROVE  /\ j \in 1..Len(log) /\ k \in 1..Len(log)
                 /\ log[j] = RequestFrame(r) /\ log[k] = RequestFrame(q)
      <4>1. k # Len(log) + 1
        <5>1. PICK p \in 1..Len(log) : log[p] = RequestFrame(q)
          BY <2>1, <1>0 DEF ReadAlready, Range
        <5>2. p \in Positions(q)' /\ k \in Positions(q)'
          BY <3>2, <5>1, <1>0, ReadEffect DEF Positions
        <5> QED BY <5>1, <5>2, <1>r, <1>0 DEF Logged
      <4> QED BY <3>2, <4>1, <1>0, ReadEffect
    <3> QED BY <3>1, <3>2, LogStep
  <2>3. r \in Range(out') => r \in Range(out)
    <3>1. Last(log) # RequestFrame(r)
      <4>1. Last(log) = RequestFrame(r) => Len(log) \in Positions(r)
        BY <2>2, <1>0 DEF Last, Positions
      <4>2. j \in Positions(r) /\ j < Len(log)
        BY <2>2, <1>0 DEF Positions
      <4> QED BY <4>1, <4>2, <1>0 DEF Logged
    <3>2. ~AnswerFrame(r)
      BY <3>1, TaskEffects DEF Logged
    <3>3. ~QueueAnswer(r)
      BY <1>0, <1>2, TaskEffects
    <3> QED BY <3>2, <3>3, OutStep
  <2>4. hpc[r] \in {"reject", "rejected"}
    <3>1. Unregister(r) => hpc'[r] \in {"done", "queue"}
      BY <1>0 DEF Unregister
    <3> QED BY <1>0, <1>2, <3>1, OwnStep, TaskEffects
  <2>5. Before(r, q) \/ (Stopped /\ r \notin Range(out))
    <3>1. /\ log[j].kind = "request" /\ log[k].kind = "request"
          /\ log[j].req = r /\ log[k].req = q
      BY <2>2, Unlike
    <3> QED BY <3>1, <2>2, <2>4, <1>4, Zenon DEF RefusedInOrder
  <2>6. Before(r, q) => Before(r, q)'
    <3>1. out' = out \/ \E e \in Reqs : out' = Append(out, e)
      BY OutStep
    <3>2. Len(out') \in Nat /\ Len(out') >= Len(out) /\ \A m \in 1..Len(out) : out'[m] = out[m]
      BY <3>1, <1>0
    <3> QED BY <3>2, <1>0 DEF Before
  <2> QED BY <2>3, <2>5, <2>6, SealStep, Zenon
<1> QED BY <1>3, <1>4

(***************************************************************************)
(* The invariant of the connection's requests.                             *)
(***************************************************************************)
IInv ==
  /\ Types /\ Logged /\ TableIsExact /\ Snapshot
  /\ EndsCancelHandlers /\ CancelReaches /\ CancelIsPrecise
  /\ Ended /\ Refused /\ RefusedInOrder

LEMMA InitHolds == Init => IInv /\ Flags
<1> SUFFICES ASSUME Init PROVE IInv /\ Flags
  OBVIOUS
<1>0. log = <<>> /\ out = <<>> /\ Len(log) = 0 /\ Range(log) = {} /\ Range(out) = {}
  BY DEF Init, Range
<1>1. Flags
  BY DEF Init, Flags
<1>2. Types
  BY DEF Init, Types
<1>3. Logged
  BY <1>0 DEF Init, Logged, ReadAlready, Positions
<1>4. TableIsExact
  BY DEF Init, TableIsExact, Registered
<1>5. Snapshot /\ EndsCancelHandlers
  BY DEF Init, Snapshot, EndsCancelHandlers, Running, Stopped
<1>6. CancelReaches /\ CancelIsPrecise /\ RefusedInOrder
  BY <1>0 DEF Init, CancelReaches, CancelIsPrecise, RefusedInOrder
<1>7. Ended /\ Refused
  BY <1>0 DEF Init, Ended, Refused
<1> QED BY <1>1, <1>2, <1>3, <1>4, <1>5, <1>6, <1>7 DEF IInv

LEMMA StepHolds == IInv /\ Flags /\ [Next]_vars => IInv' /\ Flags'
BY TypesStep, FlagsStep, LoggedStep, TableStep, SnapshotStep, EndsStep, ReachesStep,
   PreciseStep, EndedStep, RefusedStep, OrderStep, Zenon DEF IInv

\* The invariant of a connection's requests is inductive, so it holds of every
\* behaviour, whatever the requests, their ids and the cancellations.
THEOREM Inductive == Spec => [](IInv /\ Flags)
<1>1. (IInv /\ Flags) /\ [Next]_vars => (IInv /\ Flags)'
  BY StepHolds
<1> QED BY InitHolds, <1>1, PTL DEF Spec

\* Every variable of the connection's requests has its type.
THEOREM Typed == Spec => []TypeOK
<1>1. IInv /\ Flags => TypeOK
  BY Zenon DEF IInv, Types, Flags, TypeOK
<1> QED BY <1>1, Inductive, PTL

\* The table of running requests is exact, also when a peer uses an id again
\* (registerInbound, unregisterInbound).
THEOREM TheTableIsExact == Spec => []TableIsExact
<1>1. IInv /\ Flags => TableIsExact
  BY DEF IInv
<1> QED BY <1>1, Inductive, PTL

\* A $/cancel_request cancels the running requests of its id that were read
\* before it, and no other (cancelInbound).
THEOREM CancellationIsExact == Spec => []CancelIsExact
<1>1. IInv /\ Flags => CancelIsExact
  BY Zenon DEF IInv, CancelIsExact
<1> QED BY <1>1, Inductive, PTL

\* Behind a Shutdown or a stop no handler runs whose context is not cancelled,
\* those started later included (startRequest, drain, stop).
THEOREM EndsReachHandlers == Spec => []EndsCancelHandlers
<1>1. IInv /\ Flags => EndsCancelHandlers
  BY DEF IInv
<1> QED BY <1>1, Inductive, PTL

\* A connection that ended with EOF answered all it read, and refusals are
\* answered in the order they were read (readLoop, answerFrame).
THEOREM AllAreAnswered == Spec => []AnsweredAsRead
<1>1. IInv /\ Flags => AnsweredAsRead
  BY Zenon DEF IInv, AnsweredAsRead, EOFAnswersAll, Ended, AllAnswered, Answered
<1> QED BY <1>1, Inductive, PTL

(***************************************************************************)
(* Prompts.                                                                *)
(***************************************************************************)
\* What the runtime does on its connection, a connection may do.
LEMMA RuntimeStep == [RuntimeNext]_runtimeVars => [Next]_vars
<1>1. ReadLoopReads => Next
  BY Zenon DEF ReadLoopReads, Next
<1>2. \A r \in Reqs : RequestStep(r) => Next
  BY Zenon DEF RequestStep, Next
<1>3. \A r \in Reqs : PromptStep(r) => Next \/ UNCHANGED vars
  BY Zenon DEF PromptStep, TrackPrompt, PromptReturns, Next
<1>4. (\E s \in Sessions : SessionCancel(s)) \/ CallTarget \/ UNCHANGED runtimeVars
        => UNCHANGED vars
  BY Zenon DEF SessionCancel, CallTarget, runtimeVars
<1>5. (CancelInbound \/ CancelNext \/ TasksFinish \/ FlushEnds
       \/ BeginShutdown \/ StopServing \/ Close \/ Terminated \/ QueueFills \/ RoomIsMade) => Next
  BY Zenon DEF Next
<1> QED BY <1>1, <1>2, <1>3, <1>4, <1>5, Zenon DEF RuntimeNext

\* So an agent's connection is a connection: what holds of the requests of every
\* connection holds of its prompts.
THEOREM RuntimeConnects == RuntimeSpec => Spec
<1>1. RuntimeInit => Init
  BY DEF RuntimeInit
<1> QED BY <1>1, RuntimeStep, PTL DEF RuntimeSpec, Spec

PromptTypes ==
  /\ session \in [Reqs -> Sessions]
  /\ ppc \in [Reqs -> {"none", "tracked", "superseded"}]
  /\ promptCancels \in [Sessions -> Reqs \cup {None}]
  /\ stopped \subseteq Reqs /\ target \in Reqs \cup {None}
  /\ npc \in {"idle", "call"} /\ cancels \subseteq Sessions

\* An entry of promptCancels, and the one session/cancel found, are of their
\* session; a request is tracked once it runs.
PInv ==
  /\ PromptTypes /\ PromptsAreReached
  /\ \A s \in Sessions : promptCancels[s] # None => session[promptCancels[s]] = s
  /\ target # None => session[target] \in cancels
  /\ \A r \in Reqs : ppc[r] # "none" => hpc[r] # "unread"

LEMMA PromptsStep ==
  ASSUME Types, Logged, PInv, [RuntimeNext]_runtimeVars
  PROVE  PInv'
<1> USE NoneAssumption
<1>0. /\ hpc \in [Reqs -> {"unread", "run", "unregister", "queue", "done", "reject", "rejected"}]
      /\ PromptTypes
  BY DEF Types, PInv
<1>1. ASSUME NEW r \in Reqs
      PROVE  /\ hpc'[r] = "run" => hpc[r] \in {"run", "unread"}
             /\ hpc[r] # "unread" => hpc'[r] # "unread"
  <2>1. Unregister(r) => hpc'[r] \in {"done", "queue"}
    BY <1>0 DEF Unregister
  <2> QED BY <1>0, <2>1, RuntimeStep, OwnStep, TaskEffects
<1>a. CASE UNCHANGED promptVars
  BY <1>a, <1>1 DEF PInv, PromptTypes, PromptsAreReached, promptVars, noteVars
<1>b. ASSUME NEW r \in Reqs, TrackPrompt(r) PROVE PInv'
  <2>1. /\ hpc[r] = "run" /\ ppc[r] = "none" /\ hpc' = hpc
        /\ ppc' = [q \in Reqs |-> IF q = r THEN "tracked"
                                  ELSE IF ppc[q] = "tracked" /\ session[q] = session[r]
                                  THEN "superseded" ELSE ppc[q]]
        /\ promptCancels' = [promptCancels EXCEPT ![session[r]] = r]
        /\ UNCHANGED <<session, stopped, npc, target, cancels>>
    BY <1>b DEF TrackPrompt, vars, taskVars, noteVars
  <2>2. PromptTypes'
    BY <1>0, <2>1 DEF PromptTypes
  <2>3. ASSUME NEW q \in Reqs, ppc'[q] = "tracked", hpc'[q] = "run"
        PROVE  promptCancels'[session'[q]] = q
    BY <1>0, <2>1, <2>3 DEF PInv, PromptTypes, PromptsAreReached
  <2>4. ASSUME NEW s \in Sessions, promptCancels'[s] # None
        PROVE  session'[promptCancels'[s]] = s
    BY <1>0, <2>1, <2>4 DEF PInv, PromptTypes
  <2>5. \A q \in Reqs : ppc'[q] # "none" => hpc'[q] # "unread"
    BY <1>0, <2>1 DEF PInv
  <2> QED BY <2>1, <2>2, <2>3, <2>4, <2>5 DEF PInv, PromptsAreReached
<1>c. ASSUME NEW r \in Reqs, PromptReturns(r) PROVE PInv'
  <2>1. /\ hpc' = [hpc EXCEPT ![r] = "unregister"]
        /\ promptCancels' = IF promptCancels[session[r]] = r
                            THEN [promptCancels EXCEPT ![session[r]] = None] ELSE promptCancels
        /\ UNCHANGED <<session, ppc, stopped, npc, target, cancels>>
    BY <1>c, TaskEffects DEF PromptReturns, Owns, noteVars
  <2>2. PromptTypes'
    BY <1>0, <2>1 DEF PromptTypes
  <2>3. ASSUME NEW q \in Reqs, ppc'[q] = "tracked", hpc'[q] = "run"
        PROVE  promptCancels'[session'[q]] = q
    BY <1>0, <2>1, <2>3 DEF PInv, PromptTypes, PromptsAreReached
  <2>4. ASSUME NEW s \in Sessions, promptCancels'[s] # None
        PROVE  session'[promptCancels'[s]] = s
    BY <1>0, <2>1, <2>4 DEF PInv, PromptTypes
  <2>5. \A q \in Reqs : ppc'[q] # "none" => hpc'[q] # "unread"
    BY <1>0, <1>1, <2>1 DEF PInv
  <2> QED BY <2>1, <2>2, <2>3, <2>4, <2>5 DEF PInv, PromptsAreReached
<1>d. ASSUME NEW s \in Sessions, SessionCancel(s) PROVE PInv'
  BY <1>0, <1>d DEF SessionCancel, PInv, PromptTypes, PromptsAreReached, vars, taskVars
<1>e. CASE CallTarget
  BY <1>0, <1>e DEF CallTarget, PInv, PromptTypes, PromptsAreReached, vars, taskVars
<1>f. CASE UNCHANGED runtimeVars
  BY <1>f, <1>a DEF runtimeVars
<1> QED
  BY <1>a, <1>b, <1>c, <1>d, <1>e, <1>f, Zenon DEF RuntimeNext, PromptStep

\* session/cancel reaches the prompt its session tracked last while the agent's
\* Prompt runs, and no prompt of another session (trackPrompt, untrackPrompt).
THEOREM PromptsStayReachable == RuntimeSpec => []PromptsAreReached
<1>1. RuntimeInit => PInv
  BY NoneAssumption DEF RuntimeInit, PInv, PromptTypes, PromptsAreReached
<1>2. RuntimeSpec => [](IInv /\ Flags)
  BY RuntimeConnects, Inductive
<1>3. IInv /\ Flags /\ PInv /\ [RuntimeNext]_runtimeVars => PInv'
  BY PromptsStep DEF IInv
<1>4. PInv => PromptsAreReached
  BY DEF PInv
<1> QED BY <1>1, <1>2, <1>3, <1>4, PTL DEF RuntimeSpec
===============================================================================
