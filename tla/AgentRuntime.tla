---------------------------- MODULE AgentRuntime ------------------------------
(***************************************************************************)
(* The prompts of a v1 agent (agent/runtime.go) on its connection: each    *)
(* session/prompt is a request whose handler keeps, in promptCancels, how  *)
(* to cancel it, and session/cancel is a notification whose handler runs   *)
(* on the read loop.  The connection has been initialized.  A request that *)
(* is never tracked is a prompt whose parameters do not decode, or any     *)
(* other request.                                                          *)
(*                                                                         *)
(* Its steps are steps of ConnRequests, or leave that alone.               *)
(***************************************************************************)
EXTENDS ConnRequests

CONSTANTS
  Sessions,  \* the sessions of the prompts
  None

ASSUME NoneAssumption == None \notin Reqs

VARIABLES
  session,       \* the session each request names
  ppc,           \* where its prompt is: "none", "tracked" and, when a later
                 \* prompt of its session is tracked, "superseded"
  promptCancels, \* s.promptCancels, by the prompt it cancels
  stopped,       \* the prompts session/cancel has cancelled
  npc,           \* the notification handler: "idle" or "call"
  target,        \* the prompt it found
  cancels        \* the sessions of the session/cancel read (history)

noteVars == <<stopped, npc, target, cancels>>
promptVars == <<session, ppc, promptCancels, noteVars>>
runtimeVars == <<vars, promptVars>>

RuntimeInit ==
  /\ Init
  /\ session \in [Reqs -> Sessions]
  /\ ppc = [r \in Reqs |-> "none"]
  /\ promptCancels = [s \in Sessions |-> None]
  /\ stopped = {} /\ npc = "idle" /\ target = None /\ cancels = {}

(***************************************************************************)
(* A prompt.                                                               *)
(***************************************************************************)
\* trackPrompt takes the session over from an earlier prompt.
TrackPrompt(r) ==
  /\ hpc[r] = "run" /\ ppc[r] = "none"
  /\ ppc' = [q \in Reqs |-> IF q = r THEN "tracked"
                            ELSE IF ppc[q] = "tracked" /\ session[q] = session[r]
                            THEN "superseded" ELSE ppc[q]]
  /\ promptCancels' = [promptCancels EXCEPT ![session[r]] = r]
  /\ UNCHANGED <<vars, session, noteVars>>

\* Mutant: the entry of the session goes, whose ever it is.
Owns_Any(r) == TRUE

Owns(r) == promptCancels[session[r]] = r

\* The agent's Prompt returns, or panics; untrackPrompt removes the prompt's
\* own entry, and the handler returns.
PromptReturns(r) ==
  /\ ppc[r] # "none" /\ HandlerReturns(r)
  /\ promptCancels' = IF Owns(r) THEN [promptCancels EXCEPT ![session[r]] = None]
                      ELSE promptCancels
  /\ UNCHANGED <<session, ppc, noteVars>>

(***************************************************************************)
(* session/cancel: the entry is looked up under the lock and called after  *)
(* it; the read loop reads on after that.  A prompt that was read and is   *)
(* not tracked yet is not found.                                           *)
(***************************************************************************)
MayCancel == CancelsRead + Cardinality(cancels) < MaxCancels

SessionCancel(s) ==
  /\ rpc = "read" /\ npc = "idle" /\ ~sealed
  /\ s \notin cancels /\ MayCancel
  /\ npc' = "call" /\ target' = promptCancels[s]
  /\ cancels' = cancels \cup {s}
  /\ UNCHANGED <<vars, session, ppc, promptCancels, stopped>>

CallTarget ==
  /\ npc = "call" /\ npc' = "idle"
  /\ stopped' = stopped \cup ({target} \ {None})
  /\ target' = None
  /\ UNCHANGED <<vars, session, ppc, promptCancels, cancels>>

(***************************************************************************)
(* The specification.                                                      *)
(***************************************************************************)
ReadLoopReads ==
  \/ \E r \in Reqs : ReadRequest(r)
  \/ \E i \in Ids : MayCancel /\ ReadCancel(i)
  \/ ReadEOF \/ ReadFails

RequestStep(r) ==
  StartRequest(r) \/ RejectRequest(r) \/ Unregister(r) \/ Answering(r)
  \/ (ppc[r] = "none" /\ HandlerReturns(r))

PromptStep(r) == TrackPrompt(r) \/ PromptReturns(r)

RuntimeNext ==
  \/ npc = "idle" /\ ReadLoopReads /\ UNCHANGED promptVars
  \/ (\E r \in Reqs : RequestStep(r)) /\ UNCHANGED promptVars
  \/ (CancelInbound \/ CancelNext \/ TasksFinish \/ FlushEnds) /\ UNCHANGED promptVars
  \/ (BeginShutdown \/ StopServing \/ Close \/ Terminated) /\ UNCHANGED promptVars
  \/ (QueueFills \/ RoomIsMade) /\ UNCHANGED promptVars
  \/ \E r \in Reqs : PromptStep(r)
  \/ \E s \in Sessions : SessionCancel(s)
  \/ CallTarget

RuntimeSpec == RuntimeInit /\ [][RuntimeNext]_runtimeVars

\* Tasks and the read loop run; a handler, and the agent's Prompt, returns once
\* its context is cancelled; a stopped connection's input fails.  An answer gets
\* the lock and its place if there is room again and again, as a Go channel
\* serves those that wait in turn, and observes a stop.  That there is room again
\* is the peer's doing and is not assumed.
Cut(r) == r \in cancelled \cup stopped

Alone(A) == A /\ UNCHANGED promptVars

Fairness ==
  /\ \A r \in Reqs :
       /\ WF_runtimeVars(Alone(Unregister(r)))
       /\ SF_runtimeVars((room \/ Stopped) /\ Alone(Answering(r)))
       /\ WF_runtimeVars(Alone(StartRequest(r) \/ RejectRequest(r)))
       /\ WF_runtimeVars(Cut(r) /\ ppc[r] = "none" /\ Alone(HandlerReturns(r)))
       /\ WF_runtimeVars(Cut(r) /\ PromptReturns(r))
  /\ WF_runtimeVars(Alone(CancelInbound)) /\ WF_runtimeVars(Alone(CancelNext))
  /\ WF_runtimeVars(Alone(TasksFinish)) /\ WF_runtimeVars(Alone(FlushEnds))
  /\ WF_runtimeVars(Stopped /\ npc = "idle" /\ Alone(ReadFails))
  /\ WF_runtimeVars(CallTarget)

FairRuntime == RuntimeSpec /\ Fairness

(***************************************************************************)
(* Properties.                                                             *)
(***************************************************************************)
\* Every variable has its type.
RuntimeTypeOK ==
  /\ TypeOK
  /\ session \in [Reqs -> Sessions]
  /\ ppc \in [Reqs -> {"none", "tracked", "superseded"}]
  /\ promptCancels \in [Sessions -> Reqs \cup {None}]
  /\ stopped \subseteq Reqs /\ target \in Reqs \cup {None}
  /\ npc \in {"idle", "call"} /\ cancels \subseteq Sessions

\* session/cancel reaches the prompt its session tracked last for as long as the
\* agent's Prompt runs, whichever earlier prompts end meanwhile, and never a
\* prompt of another session.
PromptsAreReached ==
  /\ \A r \in Reqs :
       ppc[r] = "tracked" /\ hpc[r] = "run" => promptCancels[session[r]] = r
  /\ \A r \in stopped : session[r] \in cancels

\* A request that is cancelled, by $/cancel_request, session/cancel or the end of
\* the connection, ends, so Shutdown and Close can wait for it; but its answer
\* waits for room in the queue, while the connection lives and the peer does not
\* read.
CancelledEnds ==
  []<>(room \/ Stopped) => \A r \in Reqs : Cut(r) ~> hpc[r] = "done"
===============================================================================
