------------------------------ MODULE McpBinding -------------------------------
(***************************************************************************)
(* The provider side of MCP over ACP (internal/mcpserver/binding.go): the  *)
(* registry of one server ID, the operations its mcp/message requests      *)
(* become, the gate between an operation's notifications and its end, and  *)
(* the three who may end it early: the caller's cancellation, the          *)
(* connection, and the removal of the registration.                        *)
(***************************************************************************)
EXTENDS Naturals, Sequences, FiniteSets

CONSTANTS
  Ops,      \* the mcp/message requests, each made once
  Ids,      \* the logical request IDs they carry
  MaxRegs,  \* how often the server ID is registered (a bound)
  Limits,   \* the limits SetMaxActive may set, 0: none
  MaxNotes, \* the notifications of one operation (a bound)
  Cap,      \* how much the connection queues before the transport stalls
  None

ASSUME BoundsAssumption ==
  Limits \cup {MaxRegs, MaxNotes} \subseteq Nat /\ Cap \in Nat \ {0}
ASSUME NamesAssumption ==
  None \notin Ops \cup Ids /\ Ops \cap {"none", "pick", "returned"} = {}

\* The registrations, numbered as they are made; 0 is none.
Regs == 1..MaxRegs

VARIABLES
  registered,  \* b.registrations of the server ID, 0: none
  closing,     \* b.closing of the server ID, 0: none
  closed,      \* the registrations that are closed
  idle,        \* those whose channel idle is closed
  closer,      \* where each Registration.Close is: "none", "pick", "returned",
               \* or the operation it cancelled and whose gate it waits for
  toStop,      \* the operations it has still to stop
  operations,  \* the operations of the registrations
  active,      \* b.active
  maxActive,   \* b.maxActive, set before the first request
  pc,          \* where each Handle is
  id,          \* the request ID of each operation
  regOf,       \* the registration it found, 0: none
  outer,       \* the requests whose own context ended
  cause,       \* why each operation context ended, "none": it has not
  done,        \* the operations whose gate is closed
  holding,     \* those with a notification being queued under the gate
  watch,       \* the operations whose watch cancelled them and awaits the gate
  notes,       \* how many notifications each operation queued
  result,      \* what Handle returned
  inputClosed, \* the connection stopped reading or closed
  wire,        \* the frames queued for the consumer
  removed      \* operations Close stopped while the service ran (history)

registry == <<registered, closing, closed, idle>>
closers == <<closer, toStop, removed>>
table == <<operations, active, maxActive>>
opVars == <<pc, id, regOf, result>>
contexts == <<outer, cause, inputClosed>>
gates == <<done, holding, notes>>
vars == <<registry, closers, table, opVars, contexts, gates, watch, wire>>

Note(o) == [kind |-> "note", op |-> o]
Answer(o) == [kind |-> "answer", op |-> o]

Init ==
  /\ registered = 0 /\ closing = 0 /\ closed = {} /\ idle = {}
  /\ closer = [r \in Regs |-> "none"] /\ toStop = [r \in Regs |-> {}]
  /\ removed = {}
  /\ operations = {} /\ active = 0 /\ maxActive \in Limits
  /\ pc = [o \in Ops |-> "none"] /\ id = [o \in Ops |-> None]
  /\ regOf = [o \in Ops |-> 0] /\ result = [o \in Ops |-> "none"]
  /\ outer = {} /\ cause = [o \in Ops |-> "none"] /\ inputClosed = FALSE
  /\ done = {} /\ holding = {} /\ notes = [o \in Ops |-> 0]
  /\ watch = {} /\ wire = <<>>

HasRoom == Len(wire) < Cap
Cancelled(o) == cause[o] # "none"
Of(r) == {o \in operations : regOf[o] = r}

\* context.CancelCauseFunc: the first cause counts.
Cancel(o, why) == cause' = [cause EXCEPT ![o] = IF Cancelled(o) THEN @ ELSE why]

\* operationGate.close: not while a notification is being queued.
CloseGate(o) == o \notin holding /\ done' = done \cup {o}

(***************************************************************************)
(* The registry.                                                           *)
(***************************************************************************)
\* Mutant: operations of a closed registration are not waited for.
Register_Closing(r) ==
  /\ registered = 0
  /\ r = Cardinality(closed) + 1
  /\ registered' = r
  /\ UNCHANGED <<closing, closed, idle, closers, table, opVars, contexts, gates,
                 watch, wire>>

\* Register, refused while a registration of the ID lives or has operations.
Register(r) ==
  /\ registered = 0 /\ closing = 0
  /\ r = Cardinality(closed) + 1
  /\ registered' = r
  /\ UNCHANGED <<closing, closed, idle, closers, table, opVars, contexts, gates,
                 watch, wire>>

\* Registration.Close revokes admission and takes the operations ...
CloseRegistration(r) ==
  /\ registered = r /\ registered' = 0
  /\ closed' = closed \cup {r}
  /\ IF Of(r) = {} THEN idle' = idle \cup {r} /\ UNCHANGED closing
     ELSE closing' = r /\ UNCHANGED idle
  /\ toStop' = [toStop EXCEPT ![r] = Of(r)]
  /\ closer' = [closer EXCEPT ![r] = "pick"]
  /\ UNCHANGED <<removed, table, opVars, contexts, gates, watch, wire>>

\* ... cancels each ...
StopNext(r) ==
  /\ closer[r] = "pick"
  /\ IF toStop[r] = {}
     THEN /\ closer' = [closer EXCEPT ![r] = "returned"]
          /\ UNCHANGED <<toStop, cause>>
     ELSE \E o \in toStop[r] :
            /\ closer' = [closer EXCEPT ![r] = o]
            /\ toStop' = [toStop EXCEPT ![r] = @ \ {o}]
            /\ Cancel(o, "removed")
  /\ UNCHANGED <<registry, removed, table, opVars, outer, inputClosed, gates,
                 watch, wire>>

\* Mutant: a notification being queued is not waited for.
StopGate_NoWait(r) ==
  /\ closer[r] \in Ops
  /\ done' = done \cup {closer[r]}
  /\ removed' = IF pc[closer[r]] = "run" THEN removed \cup {closer[r]} ELSE removed
  /\ closer' = [closer EXCEPT ![r] = "pick"]
  /\ UNCHANGED <<registry, toStop, table, opVars, contexts, holding, notes, watch,
                 wire>>

\* ... and waits for its gate.
StopGate(r) ==
  /\ closer[r] \in Ops
  /\ CloseGate(closer[r])
  /\ removed' = IF pc[closer[r]] = "run" THEN removed \cup {closer[r]} ELSE removed
  /\ closer' = [closer EXCEPT ![r] = "pick"]
  /\ UNCHANGED <<registry, toStop, table, opVars, contexts, holding, notes, watch,
                 wire>>

(***************************************************************************)
(* Handle.                                                                 *)
(***************************************************************************)
Moves(o, from, to) == pc[o] = from /\ pc' = [pc EXCEPT ![o] = to]
Results(o, r) == result' = [result EXCEPT ![o] = r]

\* A request of the consumer starts its handler.
Arrives(o, i) ==
  /\ ~inputClosed /\ Moves(o, "none", "lookup")
  /\ id' = [id EXCEPT ![o] = i]
  /\ UNCHANGED <<registry, closers, table, regOf, result, contexts, gates, watch,
                 wire>>

Lookup(o) ==
  /\ IF registered = 0
     THEN Moves(o, "lookup", "answer") /\ Results(o, "unavailable")
     ELSE Moves(o, "lookup", "admit") /\ UNCHANGED result
  /\ regOf' = [regOf EXCEPT ![o] = registered]
  /\ UNCHANGED <<registry, closers, table, id, contexts, gates, watch, wire>>

\* Mutant: the limit is off by one.
Admit_Limit(o) ==
  /\ LET refusal == CASE regOf[o] \in closed -> "removed"
                      [] \E p \in Of(regOf[o]) : id[p] = id[o] -> "duplicate"
                      [] maxActive > 0 /\ active > maxActive -> "limit"
                      [] OTHER -> "none"
     IN IF refusal # "none"
        THEN /\ Moves(o, "admit", "answer") /\ Results(o, refusal)
             /\ UNCHANGED <<operations, active>>
        ELSE /\ Moves(o, "admit", "check") /\ UNCHANGED result
             /\ operations' = operations \cup {o} /\ active' = active + 1
  /\ UNCHANGED <<registry, closers, maxActive, id, regOf, contexts, gates, watch, wire>>

\* admit: the registration may have been closed since the lookup.
Admit(o) ==
  /\ LET refusal == CASE regOf[o] \in closed -> "removed"
                      [] \E p \in Of(regOf[o]) : id[p] = id[o] -> "duplicate"
                      [] maxActive > 0 /\ active >= maxActive -> "limit"
                      [] OTHER -> "none"
     IN IF refusal # "none"
        THEN /\ Moves(o, "admit", "answer") /\ Results(o, refusal)
             /\ UNCHANGED <<operations, active>>
        ELSE /\ Moves(o, "admit", "check") /\ UNCHANGED result
             /\ operations' = operations \cup {o} /\ active' = active + 1
  /\ UNCHANGED <<registry, closers, maxActive, id, regOf, contexts, gates, watch, wire>>

\* Work reported cancelled before execution never starts; watch does.
Check(o) ==
  /\ IF inputClosed \/ o \in outer
     THEN /\ Cancel(o, IF inputClosed THEN "connection" ELSE "request")
          /\ CloseGate(o)
     ELSE UNCHANGED <<cause, done>>
  /\ Moves(o, "check", "start")
  /\ UNCHANGED <<registry, closers, table, id, regOf, result, outer, inputClosed,
                 holding, notes, watch, wire>>

Start(o) ==
  /\ Moves(o, "start", IF Cancelled(o) THEN "gate" ELSE "run")
  /\ UNCHANGED <<registry, closers, table, id, regOf, result, contexts, gates,
                 watch, wire>>

\* Execute returns, or panics past everything but the deferred calls.
ServiceReturns(o) ==
  /\ \/ Moves(o, "run", "gate") /\ UNCHANGED result
     \/ Moves(o, "run", "release") /\ Results(o, "panic")
  /\ UNCHANGED <<registry, closers, table, id, regOf, contexts, gates, watch, wire>>

\* Mutant: the gate is left open.
EndNotes_Open(o) ==
  /\ Moves(o, "gate", "decide") /\ UNCHANGED done
  /\ UNCHANGED <<registry, closers, table, id, regOf, result, contexts, holding,
                 notes, watch, wire>>

\* Notification rights end before the response can be written.
EndNotes(o) ==
  /\ Moves(o, "gate", "decide") /\ CloseGate(o)
  /\ UNCHANGED <<registry, closers, table, id, regOf, result, contexts, holding,
                 notes, watch, wire>>

\* Cancellation wins a race with completion.
Decide(o) ==
  /\ Moves(o, "decide", "release")
  /\ result' = [result EXCEPT ![o] =
       CASE inputClosed \/ cause[o] = "connection" -> "silent"
         [] ~inputClosed /\ cause[o] = "removed" -> "removed"
         [] ~inputClosed /\ cause[o] = "request" -> "cancelled"
         [] OTHER -> "served"]
  /\ UNCHANGED <<registry, closers, table, id, regOf, contexts, gates, watch, wire>>

\* The deferred release, then the deferred cancel.
Release(o) ==
  /\ Moves(o, "release", "answer")
  /\ operations' = operations \ {o} /\ active' = active - 1
  /\ IF regOf[o] \in closed /\ Of(regOf[o]) = {o}
     THEN /\ idle' = idle \cup {regOf[o]}
          /\ closing' = IF closing = regOf[o] THEN 0 ELSE closing
     ELSE UNCHANGED <<idle, closing>>
  /\ Cancel(o, "returned")
  /\ UNCHANGED <<registered, closed, closers, maxActive, id, regOf, result, outer,
                 inputClosed, gates, watch, wire>>

\* The connection queues the response, unless there is to be none: after EOF
\* a panic is not answered either.
QueueAnswer(o) ==
  /\ Moves(o, "answer", "ended")
  /\ IF result[o] = "silent" \/ (result[o] = "panic" /\ inputClosed)
     THEN UNCHANGED wire
     ELSE HasRoom /\ wire' = Append(wire, Answer(o))
  /\ UNCHANGED <<registry, closers, table, id, regOf, result, contexts, gates,
                 watch>>

(***************************************************************************)
(* watch and notify.                                                       *)
(***************************************************************************)
\* watch stops an operation that nobody stopped before ...
Watch(o) ==
  /\ pc[o] \in {"start", "run", "gate", "decide", "release"} /\ ~Cancelled(o)
  /\ \/ inputClosed /\ Cancel(o, "connection")
     \/ o \in outer /\ Cancel(o, "request")
  /\ watch' = watch \cup {o}
  /\ UNCHANGED <<registry, closers, table, opVars, outer, inputClosed, gates, wire>>

\* ... and waits for its gate.
WatchGate(o) ==
  /\ o \in watch /\ watch' = watch \ {o}
  /\ CloseGate(o)
  /\ UNCHANGED <<registry, closers, table, opVars, contexts, holding, notes, wire>>

\* The service, or a goroutine it started, calls Notify and passes the gate.
Notify(o) ==
  /\ pc[o] \in {"run", "gate", "release"}
  /\ notes[o] < MaxNotes
  /\ o \notin holding \cup done /\ ~Cancelled(o)
  /\ holding' = holding \cup {o}
  /\ UNCHANGED <<registry, closers, table, opVars, contexts, done, notes, watch, wire>>

\* Its notification is queued, even if the context ended meanwhile ...
QueueNote(o) ==
  /\ o \in holding /\ holding' = holding \ {o}
  /\ HasRoom /\ wire' = Append(wire, Note(o))
  /\ notes' = [notes EXCEPT ![o] = @ + 1]
  /\ UNCHANGED <<registry, closers, table, opVars, contexts, done, watch>>

\* Mutant: queueing does not observe the operation's cancellation.
DropNote_Deaf(o) ==
  /\ inputClosed /\ o \in holding /\ holding' = holding \ {o}
  /\ UNCHANGED <<registry, closers, table, opVars, contexts, done, notes, watch, wire>>

\* ... or the operation, the connection or the caller of Notify gives it up.
DropNote(o) ==
  /\ o \in holding /\ holding' = holding \ {o}
  /\ UNCHANGED <<registry, closers, table, opVars, contexts, done, notes, watch, wire>>

(***************************************************************************)
(* The connection.                                                         *)
(***************************************************************************)
\* $/cancel_request for the outer request.
CancelOuter(o) ==
  /\ pc[o] \notin {"none", "ended"} /\ outer' = outer \cup {o}
  /\ UNCHANGED <<registry, closers, table, opVars, cause, inputClosed, gates, watch,
                 wire>>

CloseInput ==
  /\ ~inputClosed /\ inputClosed' = TRUE
  /\ UNCHANGED <<registry, closers, table, opVars, outer, cause, gates, watch, wire>>

HandleStep(o) ==
  \/ Lookup(o) \/ Admit(o) \/ Check(o) \/ Start(o) \/ EndNotes(o) \/ Decide(o)
  \/ Release(o)
CloserStep(r) == StopNext(r) \/ StopGate(r)
WatchStep(o) == Watch(o) \/ WatchGate(o)

Provider ==
  \/ \E r \in Regs : Register(r) \/ CloseRegistration(r) \/ CloserStep(r)
  \/ \E o \in Ops : \/ HandleStep(o) \/ ServiceReturns(o) \/ QueueAnswer(o)
                    \/ WatchStep(o) \/ Notify(o) \/ QueueNote(o) \/ DropNote(o)
                    \/ CancelOuter(o)
  \/ CloseInput

(***************************************************************************)
(* Fairness of the provider: its goroutines run, a service returns once    *)
(* its context is done (Service's comment), and queueing observes the      *)
(* cancellation.  Nothing is asked of the transport or of the consumer.    *)
(***************************************************************************)
ProviderFairness ==
  /\ \A o \in Ops : /\ WF_vars(HandleStep(o)) /\ WF_vars(WatchStep(o))
                    /\ WF_vars(Cancelled(o) /\ ServiceReturns(o))
                    /\ WF_vars(Cancelled(o) /\ DropNote(o))
  /\ \A r \in Regs : WF_vars(CloserStep(r))
===============================================================================
