------------------------------ MODULE McpExchange ------------------------------
(***************************************************************************)
(* MCP over ACP, end to end: the consumer's calls (v2/mcp/message.go,      *)
(* mcp/message.go), the provider's binding (McpBinding), and the           *)
(* connection that carries the provider's frames in the order queued.      *)
(***************************************************************************)
EXTENDS McpBinding

VARIABLES
  call,   \* where each MessageClient.Call is; its entry in c.active is there
          \* while it is "out" or "answered"
  gaveUp, \* the calls that returned without their answer (history)
  got,    \* how many of its own notifications each call's handler got (history)
  strays  \* <<o, p>>: a notification of o was handed to the call p (history)

consumerVars == <<call, gaveUp, got, strays>>
allVars == <<vars, consumerVars>>

ExchangeInit ==
  /\ Init
  /\ call = [o \in Ops |-> "idle"] /\ gaveUp = {}
  /\ got = [o \in Ops |-> 0] /\ strays = {}

\* The calls registered in c.active under a request ID.
ActiveCall(i) == {o \in Ops : call[o] \in {"out", "answered"} /\ id[o] = i}

\* Call registers its key, unless that is active, and sends its request.
BeginCall(o, i) ==
  /\ call[o] = "idle" /\ ActiveCall(i) = {}
  /\ call' = [call EXCEPT ![o] = "out"]
  /\ Arrives(o, i)
  /\ UNCHANGED <<gaveUp, got, strays>>

\* Its context or the connection ends first; the key is released.
GiveUp(o) ==
  /\ call[o] = "out"
  /\ call' = [call EXCEPT ![o] = "returned"] /\ gaveUp' = gaveUp \cup {o}
  /\ UNCHANGED <<vars, got, strays>>

\* Call returns after its response, and releases the key.
ReturnCall(o) ==
  /\ call[o] = "answered"
  /\ call' = [call EXCEPT ![o] = "returned"]
  /\ UNCHANGED <<vars, gaveUp, got, strays>>

\* Notifications: one for no active key is dropped.
HandleNote(o) ==
  /\ IF ActiveCall(id[o]) = {} THEN UNCHANGED <<got, strays>>
     ELSE \E p \in ActiveCall(id[o]) :
            IF p = o THEN got' = [got EXCEPT ![o] = @ + 1] /\ UNCHANGED strays
            ELSE strays' = strays \cup {<<o, p>>} /\ UNCHANGED got
  /\ UNCHANGED <<call, gaveUp>>

\* The response settles the call that still waits for it.
HandleAnswer(o) ==
  /\ call' = [call EXCEPT ![o] = IF @ = "out" THEN "answered" ELSE @]
  /\ UNCHANGED <<gaveUp, got, strays>>

\* The consumer's read loop.
Read ==
  /\ wire # <<>> /\ wire' = Tail(wire)
  /\ LET f == Head(wire) IN
     IF f.kind = "note" THEN HandleNote(f.op) ELSE HandleAnswer(f.op)
  /\ UNCHANGED <<registry, closers, table, opVars, contexts, gates, watch>>

\* No call is out and no handler runs.
Over ==
  /\ watch = {}
  /\ \A o \in Ops : /\ pc[o] \in {"none", "ended"}
                    /\ call[o] \in {"idle", "returned"}
  /\ UNCHANGED allVars

ExchangeNext ==
  \/ Provider /\ UNCHANGED consumerVars
  \/ \E o \in Ops : (\E i \in Ids : BeginCall(o, i)) \/ GiveUp(o) \/ ReturnCall(o)
  \/ Read \/ Over

Exchange == ExchangeInit /\ [][ExchangeNext]_allVars

FairExchange == Exchange /\ ProviderFairness

(***************************************************************************)
(* Properties.                                                             *)
(***************************************************************************)
States == {"none", "lookup", "admit", "check", "start", "run", "gate", "decide",
           "release", "answer", "ended"}
Causes == {"none", "request", "connection", "removed", "returned"}

\* Every variable has its type.
TypeOK ==
  /\ {registered, closing} \subseteq Regs \cup {0}
  /\ closed \subseteq Regs /\ idle \subseteq Regs
  /\ closer \in [Regs -> {"none", "pick", "returned"} \cup Ops]
  /\ toStop \in [Regs -> SUBSET Ops]
  /\ operations \subseteq Ops /\ active \in Nat /\ maxActive \in Limits
  /\ pc \in [Ops -> States] /\ cause \in [Ops -> Causes]
  /\ id \in [Ops -> Ids \cup {None}] /\ regOf \in [Ops -> Regs \cup {0}]
  /\ UNION {outer, done, holding, removed, gaveUp} \subseteq Ops
  /\ watch \subseteq Ops /\ notes \in [Ops -> 0..MaxNotes]
  /\ inputClosed \in BOOLEAN /\ Len(wire) <= Cap
  /\ call \in [Ops -> {"idle", "out", "answered", "returned"}]
  /\ got \in [Ops -> 0..MaxNotes] /\ strays \subseteq Ops \X Ops

\* A call that returns with its answer had every notification its operation
\* sent, none comes after the answer (Handle: rights are revoked "before the
\* response can be written"), so none reaches a later call with the same ID.
\* An operation whose service panicked keeps its gate open, see the README.
NotesReachTheirCall ==
  \A o \in Ops \ gaveUp : result[o] # "panic" =>
    /\ call[o] \in {"answered", "returned"} => got[o] = notes[o]
    /\ \A p \in Ops : <<o, p>> \notin strays

\* active counts the operations, at most maxActive of them, each registration has
\* one per request ID, and they are those whose service may still run.
SlotsAreExact ==
  /\ active = Cardinality(operations) /\ (maxActive > 0 => active <= maxActive)
  /\ operations = {o \in Ops :
       pc[o] \in {"check", "start", "run", "gate", "decide", "release"}}
  /\ \A o, p \in operations : regOf[o] = regOf[p] /\ id[o] = id[p] => o = p

\* Wait returns, and the server ID can be registered again, only when every
\* operation has returned: two services never run under one server ID.  An
\* operation Close stopped while its service ran sends nothing afterwards and
\* does not answer with a result.
RemovalIsFinal ==
  /\ \A r \in idle : r \in closed /\ Of(r) = {}
  /\ \A o, p \in operations : regOf[o] = regOf[p]
  /\ \A o \in removed : o \notin holding /\ result[o] # "served"

\* Close returns and its operations end, even if the transport is stalled
\* ("never blocks on the transport").
RemovalEnds ==
  \A r \in Regs : r \in closed ~> (closer[r] = "returned" /\ r \in idle)

\* What MessageClient.Call's comment says: a call's request ID is released on
\* return "so late notifications are dropped".
LateNotesDropped == strays = {}
===============================================================================
