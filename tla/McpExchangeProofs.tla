--------------------------- MODULE McpExchangeProofs ---------------------------
(***************************************************************************)
(* What holds of MCP over ACP for any operations, request IDs, limits and  *)
(* number of registrations: slots are accounted for, a registration that   *)
(* is removed has ended, and a call has its notifications before its       *)
(* answer.                                                                 *)
(***************************************************************************)
EXTENDS McpExchange, FiniteSetTheorems, FunctionTheorems, SequenceTheorems, TLAPS

(***************************************************************************)
(* Types.                                                                  *)
(***************************************************************************)
Frames == [kind : {"note", "answer"}, op : Ops]
Outcomes == {"none", "unavailable", "removed", "duplicate", "limit", "panic",
            "silent", "cancelled", "served"}

TypeInv ==
  /\ {registered, closing} \subseteq Regs \cup {0}
  /\ closed \subseteq Regs /\ idle \subseteq Regs
  /\ closer \in [Regs -> {"none", "pick", "returned"} \cup Ops]
  /\ toStop \in [Regs -> SUBSET Ops]
  /\ operations \subseteq Ops /\ active \in Int /\ maxActive \in Limits
  /\ pc \in [Ops -> States] /\ cause \in [Ops -> Causes]
  /\ id \in [Ops -> Ids \cup {None}] /\ regOf \in [Ops -> Regs \cup {0}]
  /\ result \in [Ops -> Outcomes]
  /\ outer \subseteq Ops /\ done \subseteq Ops /\ holding \subseteq Ops
  /\ removed \subseteq Ops /\ gaveUp \subseteq Ops /\ watch \subseteq Ops
  /\ notes \in [Ops -> Nat] /\ got \in [Ops -> Nat] /\ strays \subseteq Ops \X Ops
  /\ inputClosed \in BOOLEAN /\ wire \in Seq(Frames) /\ Len(wire) <= Cap
  /\ call \in [Ops -> {"idle", "out", "answered", "returned"}]

\* An operation that moves on is where one can be, and its context ends for a
\* cause there is.
LEMMA MovesType ==
  ASSUME pc \in [Ops -> States], NEW o \in Ops, NEW from, NEW to \in States,
         Moves(o, from, to)
  PROVE  pc' \in [Ops -> States]
BY DEF Moves

LEMMA CancelType ==
  ASSUME cause \in [Ops -> Causes], NEW o \in Ops, NEW why \in Causes, Cancel(o, why)
  PROVE  cause' \in [Ops -> Causes]
BY DEF Cancel

LEMMA QueueType ==
  ASSUME TypeInv, NEW f \in Frames, HasRoom, wire' = Append(wire, f)
  PROVE  wire' \in Seq(Frames) /\ Len(wire') <= Cap
BY BoundsAssumption DEF TypeInv, HasRoom

LEMMA TypeStep == TypeInv /\ [ExchangeNext]_allVars => TypeInv'
<1> SUFFICES ASSUME TypeInv, [ExchangeNext]_allVars PROVE TypeInv'
  OBVIOUS
<1>s. /\ {"lookup", "admit", "answer", "check", "start", "gate", "run", "release",
          "decide", "ended"} \subseteq States
      /\ {"removed", "connection", "request", "returned"} \subseteq Causes
      /\ {"unavailable", "removed", "duplicate", "limit", "panic", "silent",
          "cancelled", "served"} \subseteq Outcomes
  BY DEF States, Causes, Outcomes
<1> USE <1>s
    DEF TypeInv, Regs, registry, closers, table, opVars, contexts, gates, vars,
        consumerVars, allVars
<1>1. ASSUME NEW r \in Regs, Register(r), UNCHANGED consumerVars PROVE TypeInv'
  BY <1>1 DEF Register
<1>2. ASSUME NEW r \in Regs, CloseRegistration(r), UNCHANGED consumerVars PROVE TypeInv'
  BY <1>2 DEF CloseRegistration, Of
<1>3. ASSUME NEW r \in Regs, StopNext(r), UNCHANGED consumerVars PROVE TypeInv'
  <2>1. cause' \in [Ops -> Causes]
    BY <1>3, CancelType DEF StopNext
  <2>2. closer' \in [Regs -> {"none", "pick", "returned"} \cup Ops]
        /\ toStop' \in [Regs -> SUBSET Ops]
    BY <1>3, ZenonT(30) DEF StopNext
  <2> QED BY <1>3, <2>1, <2>2 DEF StopNext
<1>4. ASSUME NEW r \in Regs, StopGate(r), UNCHANGED consumerVars PROVE TypeInv'
  BY <1>4 DEF StopGate, CloseGate
<1>5. ASSUME NEW o \in Ops, Lookup(o), UNCHANGED consumerVars PROVE TypeInv'
  <2>1. pc' \in [Ops -> States]
    BY <1>5, MovesType DEF Lookup
  <2> QED BY <1>5, <2>1 DEF Lookup, Results
<1>6. ASSUME NEW o \in Ops, Admit(o), UNCHANGED consumerVars PROVE TypeInv'
  <2>1. pc' \in [Ops -> States]
    BY <1>6, MovesType DEF Admit
  <2>2. result' \in [Ops -> Outcomes]
    BY <1>6, ZenonT(30) DEF Admit, Results
  <2>3. operations' \subseteq Ops /\ active' \in Int
    BY <1>6 DEF Admit
  <2> QED BY <1>6, <2>1, <2>2, <2>3 DEF Admit
<1>7. ASSUME NEW o \in Ops, Check(o) \/ Start(o), UNCHANGED consumerVars PROVE TypeInv'
  <2>1. pc' \in [Ops -> States]
    BY <1>7, MovesType DEF Check, Start
  <2>2. cause' \in [Ops -> Causes] /\ done' \subseteq Ops
    BY <1>7, CancelType DEF Check, Start, CloseGate
  <2> QED BY <1>7, <2>1, <2>2 DEF Check, Start
<1>8. ASSUME NEW o \in Ops, ServiceReturns(o), UNCHANGED consumerVars PROVE TypeInv'
  <2>1. pc' \in [Ops -> States]
    BY <1>8, MovesType DEF ServiceReturns
  <2>2. result' \in [Ops -> Outcomes]
    BY <1>8, ZenonT(30) DEF ServiceReturns, Results
  <2> QED BY <1>8, <2>1, <2>2 DEF ServiceReturns
<1>9. ASSUME NEW o \in Ops, EndNotes(o) \/ Decide(o), UNCHANGED consumerVars PROVE TypeInv'
  <2>1. pc' \in [Ops -> States]
    BY <1>9, MovesType DEF EndNotes, Decide
  <2>2. result' \in [Ops -> Outcomes]
    BY <1>9, ZenonT(30) DEF EndNotes, Decide
  <2> QED BY <1>9, <2>1, <2>2, SMTT(30) DEF EndNotes, Decide, CloseGate
<1>10. ASSUME NEW o \in Ops, Release(o), UNCHANGED consumerVars PROVE TypeInv'
  <2>1. pc' \in [Ops -> States] /\ cause' \in [Ops -> Causes]
    BY <1>10, MovesType, CancelType DEF Release
  <2>2. {closing'} \subseteq Regs \cup {0} /\ idle' \subseteq Regs
    BY <1>10 DEF Release
  <2>3. operations' \subseteq Ops /\ active' \in Int
    BY <1>10 DEF Release
  <2> QED BY <1>10, <2>1, <2>2, <2>3 DEF Release
<1>11. ASSUME NEW o \in Ops, QueueAnswer(o), UNCHANGED consumerVars PROVE TypeInv'
  <2>1. pc' \in [Ops -> States]
    BY <1>11, MovesType DEF QueueAnswer
  <2>2. Answer(o) \in Frames
    BY DEF Answer, Frames
  <2>3. wire' \in Seq(Frames) /\ Len(wire') <= Cap
    BY <1>11, <2>2, QueueType DEF QueueAnswer
  <2> QED BY <1>11, <2>1, <2>3 DEF QueueAnswer
<1>12. ASSUME NEW o \in Ops, Watch(o) \/ WatchGate(o), UNCHANGED consumerVars PROVE TypeInv'
  <2>1. cause' \in [Ops -> Causes]
    BY <1>12, CancelType DEF Watch, WatchGate
  <2> QED BY <1>12, <2>1 DEF Watch, WatchGate, CloseGate
<1>13. ASSUME NEW o \in Ops, Notify(o) \/ DropNote(o), UNCHANGED consumerVars PROVE TypeInv'
  BY <1>13 DEF Notify, DropNote
<1>14. ASSUME NEW o \in Ops, QueueNote(o), UNCHANGED consumerVars PROVE TypeInv'
  <2>1. Note(o) \in Frames
    BY DEF Note, Frames
  <2>2. wire' \in Seq(Frames) /\ Len(wire') <= Cap
    BY <1>14, <2>1, QueueType DEF QueueNote
  <2> QED BY <1>14, <2>2, SMTT(30) DEF QueueNote
<1>15. ASSUME NEW o \in Ops, CancelOuter(o), UNCHANGED consumerVars PROVE TypeInv'
  BY <1>15 DEF CancelOuter
<1>16. CASE CloseInput /\ UNCHANGED consumerVars
  BY <1>16 DEF CloseInput
<1>17. ASSUME NEW o \in Ops, NEW i \in Ids, BeginCall(o, i) PROVE TypeInv'
  <2>1. pc' \in [Ops -> States]
    BY <1>17, MovesType DEF BeginCall, Arrives
  <2> QED BY <1>17, <2>1 DEF BeginCall, Arrives
<1>18. ASSUME NEW o \in Ops, GiveUp(o) \/ ReturnCall(o) PROVE TypeInv'
  <2>1. call' \in [Ops -> {"idle", "out", "answered", "returned"}] /\ gaveUp' \subseteq Ops
    BY <1>18 DEF GiveUp, ReturnCall
  <2>2. UNCHANGED <<vars, got, strays>>
    BY <1>18 DEF GiveUp, ReturnCall
  <2> QED BY <2>1, <2>2
<1>19. CASE Read
  <2>1. wire # <<>> /\ wire' = Tail(wire)
    BY <1>19 DEF Read
  <2>2. Head(wire) \in Frames /\ wire' \in Seq(Frames) /\ Len(wire') <= Cap
    BY <2>1, BoundsAssumption
  <2> DEFINE o == Head(wire).op
  <2>3. o \in Ops
    BY <2>2 DEF Frames
  <2>4. /\ call' \in [Ops -> {"idle", "out", "answered", "returned"}]
        /\ got' \in [Ops -> Nat] /\ strays' \subseteq Ops \X Ops /\ gaveUp' \subseteq Ops
    <3>1. CASE HandleNote(o)
      BY <2>3, <3>1, SMTT(30) DEF HandleNote, ActiveCall
    <3>2. CASE HandleAnswer(o)
      BY <2>3, <3>2 DEF HandleAnswer
    <3> QED BY <1>19, <3>1, <3>2 DEF Read
  <2> QED BY <1>19, <2>2, <2>4 DEF Read
<1>20. CASE UNCHANGED allVars
  BY <1>20
<1> QED
  BY <1>1, <1>2, <1>3, <1>4, <1>5, <1>6, <1>7, <1>8, <1>9, <1>10, <1>11, <1>12,
     <1>13, <1>14, <1>15, <1>16, <1>17, <1>18, <1>19, <1>20
  DEF ExchangeNext, Provider, HandleStep, CloserStep, WatchStep, Over

(***************************************************************************)
(* Slots.                                                                  *)
(***************************************************************************)
InSlot == {"check", "start", "run", "gate", "decide", "release"}

SlotInv ==
  /\ IsFiniteSet(operations) /\ active = Cardinality(operations)
  /\ maxActive > 0 => active <= maxActive
  /\ operations = {o \in Ops : pc[o] \in InSlot}
  /\ \A o, p \in operations : regOf[o] = regOf[p] /\ id[o] = id[p] => o = p

\* Nothing a slot is about moves.
SameSlots == UNCHANGED <<table, pc, id, regOf>>

\* An operation moves on in its slot, or outside any.
Keeps(o) ==
  /\ UNCHANGED <<table, id, regOf>>
  /\ \E to \in States : /\ pc' = [pc EXCEPT ![o] = to]
                        /\ to \in InSlot <=> pc[o] \in InSlot

LEMMA SlotSame == SlotInv /\ SameSlots => SlotInv'
<1> SUFFICES ASSUME SlotInv, SameSlots PROVE SlotInv'
  OBVIOUS
<1>1. UNCHANGED <<operations, active, maxActive, pc, id, regOf>>
  BY DEF SameSlots, table
<1> QED BY <1>1 DEF SlotInv

LEMMA SlotKeeps ==
  ASSUME TypeInv, SlotInv, NEW o \in Ops, Keeps(o)
  PROVE  SlotInv'
<1>1. UNCHANGED <<operations, active, maxActive, id, regOf>>
  BY DEF Keeps, table
<1>2. {p \in Ops : pc'[p] \in InSlot} = {p \in Ops : pc[p] \in InSlot}
  BY DEF Keeps, TypeInv
<1> QED BY <1>1, <1>2 DEF SlotInv

LEMMA SlotKept == TypeInv /\ SlotInv /\ [ExchangeNext]_allVars => SlotInv'
<1> SUFFICES ASSUME TypeInv, SlotInv, [ExchangeNext]_allVars PROVE SlotInv'
  OBVIOUS
<1> USE DEF Moves
<1>t. /\ pc \in [Ops -> States] /\ regOf \in [Ops -> Regs \cup {0}]
      /\ id \in [Ops -> Ids \cup {None}] /\ operations \subseteq Ops
      /\ active \in Int /\ maxActive \in Nat
  BY BoundsAssumption DEF TypeInv
<1>1. ASSUME NEW r \in Regs, Register(r) \/ CloseRegistration(r) \/ CloserStep(r)
      PROVE SlotInv'
  <2>1. SameSlots
    BY <1>1 DEF Register, CloseRegistration, CloserStep, StopNext, StopGate, SameSlots,
       opVars
  <2> QED BY <2>1, SlotSame
<1>2. ASSUME NEW o \in Ops, Lookup(o) PROVE SlotInv'
  <2>1. /\ pc[o] = "lookup" /\ UNCHANGED <<table, id>>
        /\ regOf' = [regOf EXCEPT ![o] = registered]
        /\ \E to \in {"answer", "admit"} : pc' = [pc EXCEPT ![o] = to]
    BY <1>2 DEF Lookup
  <2>2. o \notin operations /\ o \notin {p \in Ops : pc'[p] \in InSlot}
    BY <1>t, <2>1 DEF SlotInv, InSlot
  <2>3. \A p \in Ops \ {o} : pc'[p] = pc[p] /\ regOf'[p] = regOf[p]
    BY <1>t, <2>1
  <2> QED BY <1>t, <2>1, <2>2, <2>3, SMTT(30) DEF SlotInv, table
<1>3. ASSUME NEW o \in Ops, Admit(o) PROVE SlotInv'
  <2>0. pc[o] = "admit" /\ o \notin operations /\ UNCHANGED <<maxActive, id, regOf>>
    BY <1>3 DEF Admit, SlotInv, InSlot
  <2>1. CASE pc' = [pc EXCEPT ![o] = "answer"] /\ UNCHANGED <<operations, active>>
    <3>1. {p \in Ops : pc'[p] \in InSlot} = {p \in Ops : pc[p] \in InSlot}
      BY <1>t, <2>0, <2>1 DEF InSlot
    <3> QED BY <2>0, <2>1, <3>1 DEF SlotInv
  <2>2. CASE /\ ~\E p \in Of(regOf[o]) : id[p] = id[o]
             /\ ~(maxActive > 0 /\ active >= maxActive)
             /\ pc' = [pc EXCEPT ![o] = "check"]
             /\ operations' = operations \cup {o} /\ active' = active + 1
    <3>1. {p \in Ops : pc'[p] \in InSlot} = operations'
      BY <1>t, <2>0, <2>2 DEF InSlot, SlotInv
    <3>2. IsFiniteSet(operations') /\ active' = Cardinality(operations')
      BY <2>0, <2>2, FS_AddElement DEF SlotInv
    <3>3. maxActive > 0 => active' <= maxActive
      BY <1>t, <2>2
    <3>4. \A p \in operations : ~(regOf[p] = regOf[o] /\ id[p] = id[o])
      BY <2>2 DEF Of
    <3> QED BY <2>0, <2>2, <3>1, <3>2, <3>3, <3>4 DEF SlotInv
  <2> QED BY <1>3, <2>1, <2>2 DEF Admit
<1>4. ASSUME NEW o \in Ops,
             Check(o) \/ Start(o) \/ EndNotes(o) \/ Decide(o) \/ ServiceReturns(o)
      PROVE SlotInv'
  <2>1. Keeps(o)
    BY <1>4 DEF Check, Start, EndNotes, Decide, ServiceReturns, Keeps, InSlot, States
  <2> QED BY <2>1, SlotKeeps
<1>5. ASSUME NEW o \in Ops, Release(o) PROVE SlotInv'
  <2>1. /\ pc[o] = "release" /\ pc' = [pc EXCEPT ![o] = "answer"]
        /\ operations' = operations \ {o} /\ active' = active - 1
        /\ UNCHANGED <<maxActive, id, regOf>>
    BY <1>5 DEF Release
  <2>2. o \in operations
    BY <2>1 DEF SlotInv, InSlot
  <2>3. IsFiniteSet(operations') /\ active' = Cardinality(operations')
    BY <2>1, <2>2, FS_RemoveElement DEF SlotInv
  <2>4. operations' = {p \in Ops : pc'[p] \in InSlot}
    BY <1>t, <2>1 DEF SlotInv, InSlot
  <2>5. maxActive > 0 => active' <= maxActive
    <3>1. maxActive > 0 => active <= maxActive
      BY DEF SlotInv
    <3> QED BY <1>t, <2>1, <3>1
  <2> QED BY <2>1, <2>3, <2>4, <2>5 DEF SlotInv
<1>6. ASSUME NEW o \in Ops, QueueAnswer(o) PROVE SlotInv'
  <2>1. Keeps(o)
    BY <1>6 DEF QueueAnswer, Keeps, InSlot, States
  <2> QED BY <2>1, SlotKeeps
<1>7. ASSUME NEW o \in Ops,
             WatchStep(o) \/ Notify(o) \/ QueueNote(o) \/ DropNote(o) \/ CancelOuter(o)
               \/ GiveUp(o) \/ ReturnCall(o)
      PROVE SlotInv'
  <2>1. SameSlots
    BY <1>7 DEF WatchStep, Watch, WatchGate, Notify, QueueNote, DropNote, CancelOuter,
       GiveUp, ReturnCall, SameSlots, opVars, vars
  <2> QED BY <2>1, SlotSame
<1>8. ASSUME NEW o \in Ops, NEW i \in Ids, BeginCall(o, i) PROVE SlotInv'
  <2>1. /\ pc[o] = "none" /\ pc' = [pc EXCEPT ![o] = "lookup"]
        /\ id' = [id EXCEPT ![o] = i] /\ UNCHANGED <<table, regOf>>
    BY <1>8 DEF BeginCall, Arrives
  <2>2. o \notin operations /\ \A p \in operations : id'[p] = id[p]
    BY <1>t, <2>1 DEF SlotInv, InSlot
  <2>3. {p \in Ops : pc'[p] \in InSlot} = {p \in Ops : pc[p] \in InSlot}
    BY <1>t, <2>1 DEF InSlot
  <2>4. UNCHANGED <<operations, active, maxActive, regOf>>
    BY <2>1 DEF table
  <2>5. \A p, q \in operations' : regOf'[p] = regOf'[q] /\ id'[p] = id'[q] => p = q
    BY <2>2, <2>4 DEF SlotInv
  <2> QED BY <2>3, <2>4, <2>5 DEF SlotInv
<1>9. CASE CloseInput \/ Read \/ UNCHANGED allVars
  <2>1. SameSlots
    BY <1>9 DEF CloseInput, Read, SameSlots, opVars, vars, allVars
  <2> QED BY <2>1, SlotSame
<1> QED
  BY <1>1, <1>2, <1>3, <1>4, <1>5, <1>6, <1>7, <1>8, <1>9
  DEF ExchangeNext, Provider, HandleStep, Over

(***************************************************************************)
(* Registrations.                                                          *)
(***************************************************************************)
RegistryInv ==
  /\ \E n \in Nat : closed = 1..n /\ registered \in {0, n + 1}
  /\ closing # 0 => registered = 0 /\ closing \in closed
  /\ \A o \in operations : regOf[o] # 0 /\ regOf[o] \in {registered, closing}
  /\ \A o \in Ops : pc[o] = "admit" => regOf[o] # 0 /\ regOf[o] \in {registered} \cup closed
  /\ \A r \in idle : r \in closed /\ Of(r) = {}

\* Nothing the registry is about moves.
SameRegistry == UNCHANGED <<registry, operations, pc, regOf>>

\* An operation moves on, and neither waits for admission nor holds a slot anew.
KeepsRegistry(o) ==
  /\ UNCHANGED <<registry, operations, regOf>>
  /\ \E to \in States \ {"admit"} : pc' = [pc EXCEPT ![o] = to]

LEMMA RegistrySame == RegistryInv /\ SameRegistry => RegistryInv'
<1> SUFFICES ASSUME RegistryInv, SameRegistry PROVE RegistryInv'
  OBVIOUS
<1>1. UNCHANGED <<registered, closing, closed, idle, operations, pc, regOf>>
  BY DEF SameRegistry, registry
<1> QED BY <1>1 DEF RegistryInv, Of

LEMMA RegistryKeeps ==
  ASSUME TypeInv, RegistryInv, NEW o \in Ops, KeepsRegistry(o)
  PROVE  RegistryInv'
<1>1. UNCHANGED <<registered, closing, closed, idle, operations, regOf>>
  BY DEF KeepsRegistry, registry
<1>2. \A p \in Ops : pc'[p] = "admit" => pc[p] = "admit"
  BY DEF KeepsRegistry, TypeInv
<1> QED BY <1>1, <1>2 DEF RegistryInv, Of

LEMMA RegistryKept ==
  TypeInv /\ SlotInv /\ RegistryInv /\ [ExchangeNext]_allVars => RegistryInv'
<1> SUFFICES ASSUME TypeInv, SlotInv, RegistryInv, [ExchangeNext]_allVars
             PROVE  RegistryInv'
  OBVIOUS
<1> USE DEF Moves
<1>t. /\ pc \in [Ops -> States] /\ regOf \in [Ops -> Regs \cup {0}]
      /\ operations \subseteq Ops /\ Regs \subseteq Nat \ {0}
      /\ registered \in Nat /\ closing \in Nat /\ closed \subseteq Regs
  BY BoundsAssumption DEF TypeInv, Regs
<1>n. PICK n \in Nat : closed = 1..n /\ registered \in {0, n + 1}
  BY DEF RegistryInv
<1>r. registered \notin closed /\ (registered # 0 => closing = 0)
  BY <1>n DEF RegistryInv
<1>1. ASSUME NEW r \in Regs, Register(r) PROVE RegistryInv'
  <2>1. /\ registered = 0 /\ closing = 0 /\ r = Cardinality(closed) + 1 /\ registered' = r
        /\ UNCHANGED <<closing, closed, idle, operations, pc, regOf>>
    BY <1>1 DEF Register, table, opVars
  <2>2. Cardinality(closed) = n
    BY <1>n, FS_Interval
  <2>3. operations = {}
    BY <2>1 DEF RegistryInv
  <2> QED BY <1>n, <2>1, <2>2, <2>3 DEF RegistryInv, Of
<1>2. ASSUME NEW r \in Regs, CloseRegistration(r) PROVE RegistryInv'
  <2>1. /\ registered = r /\ registered' = 0 /\ closed' = closed \cup {r}
        /\ UNCHANGED <<operations, pc, regOf>>
    BY <1>2 DEF CloseRegistration, table, opVars
  <2>2. closing = 0 /\ r = n + 1 /\ closed' = 1..(n + 1)
    BY <1>t, <1>n, <1>r, <2>1
  <2>3. Of(r) = operations
    BY <1>t, <2>1, <2>2 DEF RegistryInv, Of
  <2>4. /\ closing' # 0 => closing' \in closed'
        /\ \A o \in operations : regOf[o] # 0 /\ regOf[o] = closing'
    BY <1>2, <1>t, <2>1, <2>2, <2>3 DEF CloseRegistration, Of
  <2>5. \A q \in idle' : q \in closed' /\ Of(q)' = {}
    BY <1>2, <2>1, <2>3 DEF CloseRegistration, RegistryInv, Of
  <2>6. \A o \in Ops : pc'[o] = "admit" => regOf'[o] # 0 /\ regOf'[o] \in closed'
    BY <2>1 DEF RegistryInv
  <2>7. \E m \in Nat : closed' = 1..m /\ registered' \in {0, m + 1}
    BY <2>1, <2>2
  <2> QED BY <2>1, <2>4, <2>5, <2>6, <2>7 DEF RegistryInv
<1>3. ASSUME NEW r \in Regs, CloserStep(r) PROVE RegistryInv'
  <2>1. SameRegistry
    BY <1>3 DEF CloserStep, StopNext, StopGate, SameRegistry, table, opVars
  <2> QED BY <2>1, RegistrySame
<1>4. ASSUME NEW o \in Ops, Lookup(o) PROVE RegistryInv'
  <2>1. /\ pc[o] = "lookup" /\ regOf' = [regOf EXCEPT ![o] = registered]
        /\ pc' = [pc EXCEPT ![o] = IF registered = 0 THEN "answer" ELSE "admit"]
        /\ UNCHANGED <<registered, closing, closed, idle, operations>>
    BY <1>4 DEF Lookup, registry, table
  <2>2. o \notin operations
    BY <2>1 DEF SlotInv, InSlot
  <2>3. \A p \in operations : regOf'[p] = regOf[p]
    BY <1>t, <2>1, <2>2
  <2>4. \A r : Of(r)' = Of(r)
    BY <2>1, <2>3 DEF Of
  <2>5. \A p \in Ops : pc'[p] = "admit" =>
          regOf'[p] # 0 /\ regOf'[p] \in {registered} \cup closed
    BY <1>t, <2>1 DEF RegistryInv
  <2> QED BY <2>1, <2>3, <2>4, <2>5 DEF RegistryInv
<1>5. ASSUME NEW o \in Ops, Admit(o) PROVE RegistryInv'
  <2>1. CASE pc' = [pc EXCEPT ![o] = "answer"] /\ UNCHANGED operations
    <3>1. KeepsRegistry(o)
      BY <1>5, <2>1 DEF Admit, KeepsRegistry, States
    <3> QED BY <3>1, RegistryKeeps
  <2>2. CASE /\ regOf[o] \notin closed
             /\ pc' = [pc EXCEPT ![o] = "check"] /\ operations' = operations \cup {o}
    <3>1. pc[o] = "admit" /\ UNCHANGED <<registered, closing, closed, idle, regOf>>
      BY <1>5 DEF Admit, registry
    <3>2. regOf[o] # 0 /\ regOf[o] = registered
      BY <2>2, <3>1 DEF RegistryInv
    <3>3. \A r \in idle : Of(r)' = {}
      BY <1>r, <2>2, <3>1, <3>2 DEF RegistryInv, Of
    <3>4. \A p \in Ops : pc'[p] = "admit" => pc[p] = "admit"
      BY <1>t, <2>2
    <3> QED BY <2>2, <3>1, <3>2, <3>3, <3>4 DEF RegistryInv
  <2> QED BY <1>5, <2>1, <2>2 DEF Admit
<1>6. ASSUME NEW o \in Ops,
             Check(o) \/ Start(o) \/ EndNotes(o) \/ Decide(o) \/ ServiceReturns(o)
               \/ QueueAnswer(o)
      PROVE RegistryInv'
  <2>1. KeepsRegistry(o)
    BY <1>6 DEF Check, Start, EndNotes, Decide, ServiceReturns, QueueAnswer, KeepsRegistry,
       States, table
  <2> QED BY <2>1, RegistryKeeps
<1>7. ASSUME NEW o \in Ops, Release(o) PROVE RegistryInv'
  <2>1. /\ pc[o] = "release" /\ pc' = [pc EXCEPT ![o] = "answer"]
        /\ operations' = operations \ {o} /\ UNCHANGED <<registered, closed, regOf>>
    BY <1>7 DEF Release
  <2>2. o \in operations
    BY <2>1 DEF SlotInv, InSlot
  <2>3. \A p \in Ops : pc'[p] = "admit" => pc[p] = "admit"
    BY <1>t, <2>1
  <2>4. CASE regOf[o] \in closed /\ Of(regOf[o]) = {o}
    <3>1. /\ idle' = idle \cup {regOf[o]}
          /\ closing' = IF closing = regOf[o] THEN 0 ELSE closing
      BY <1>7, <2>4 DEF Release
    <3>2. closing = regOf[o] /\ closing' = 0
      BY <1>r, <2>2, <2>4, <3>1 DEF RegistryInv
    <3>3. registered = 0
      BY <2>2, <3>2 DEF RegistryInv
    <3>4. operations' = {}
      BY <2>1, <2>2, <2>4, <3>2, <3>3 DEF RegistryInv, Of
    <3> QED BY <2>1, <2>3, <2>4, <3>1, <3>2, <3>3, <3>4 DEF RegistryInv, Of
  <2>5. CASE UNCHANGED <<idle, closing>>
    BY <2>1, <2>3, <2>5 DEF RegistryInv, Of
  <2> QED BY <1>7, <2>4, <2>5 DEF Release
<1>8. ASSUME NEW o \in Ops,
             WatchStep(o) \/ Notify(o) \/ QueueNote(o) \/ DropNote(o) \/ CancelOuter(o)
               \/ GiveUp(o) \/ ReturnCall(o)
      PROVE RegistryInv'
  <2>1. SameRegistry
    BY <1>8 DEF WatchStep, Watch, WatchGate, Notify, QueueNote, DropNote, CancelOuter,
       GiveUp, ReturnCall, SameRegistry, table, opVars, vars
  <2> QED BY <2>1, RegistrySame
<1>9. ASSUME NEW o \in Ops, NEW i \in Ids, BeginCall(o, i) PROVE RegistryInv'
  <2>1. KeepsRegistry(o)
    BY <1>9 DEF BeginCall, Arrives, KeepsRegistry, States, table
  <2> QED BY <2>1, RegistryKeeps
<1>10. CASE CloseInput \/ Read \/ UNCHANGED allVars
  <2>1. SameRegistry
    BY <1>10 DEF CloseInput, Read, SameRegistry, table, opVars, vars, allVars
  <2> QED BY <2>1, RegistrySame
<1> QED
  BY <1>1, <1>2, <1>3, <1>4, <1>5, <1>6, <1>7, <1>8, <1>9, <1>10
  DEF ExchangeNext, Provider, HandleStep, Over

(***************************************************************************)
(* Removal.                                                                *)
(***************************************************************************)
Undecided == {"none", "lookup", "admit", "check", "start", "run", "gate", "decide"}

RemovedInv ==
  /\ done \cap holding = {}
  /\ removed \subseteq done
  /\ \A r \in Regs : closer[r] \in Ops => Cancelled(closer[r])
  /\ \A o \in Ops : cause[o] = "returned" => pc[o] \in {"answer", "ended"}
  /\ \A o \in Ops : pc[o] \in Undecided => result[o] = "none"
  /\ \A o \in removed : /\ Cancelled(o) /\ result[o] # "served"
                        /\ pc[o] \in {"run", "gate", "decide", "release", "answer", "ended"}

\* Nothing a removal is about moves.
SameRemoval == UNCHANGED <<closer, removed, cause, done, holding, pc, result>>

LEMMA RemovalSame == RemovedInv /\ SameRemoval => RemovedInv'
BY DEF RemovedInv, SameRemoval, Cancelled

\* A context that ends is ended for good, and "returned" is no reason to stop.
LEMMA CancelKeeps ==
  ASSUME TypeInv, NEW o \in Ops, NEW why \in {"removed", "connection", "request"},
         Cancel(o, why)
  PROVE  /\ Cancelled(o)'
         /\ \A p \in Ops : /\ Cancelled(p) => Cancelled(p)'
                           /\ cause'[p] = "returned" => cause[p] = "returned"
BY DEF TypeInv, Cancel, Cancelled

LEMMA RemovedKept ==
  TypeInv /\ RemovedInv /\ [ExchangeNext]_allVars => RemovedInv'
<1> SUFFICES ASSUME TypeInv, RemovedInv, [ExchangeNext]_allVars PROVE RemovedInv'
  OBVIOUS
<1> USE DEF Moves
<1>t. /\ pc \in [Ops -> States] /\ result \in [Ops -> Outcomes]
      /\ cause \in [Ops -> Causes] /\ removed \subseteq Ops
      /\ closer \in [Regs -> {"none", "pick", "returned"} \cup Ops]
  BY DEF TypeInv
<1>n. "pick" \notin Ops /\ "returned" \notin Ops
  BY NamesAssumption
<1>1. ASSUME NEW r \in Regs, Register(r) PROVE RemovedInv'
  <2>1. SameRemoval
    BY <1>1 DEF Register, SameRemoval, closers, opVars, contexts, gates
  <2> QED BY <2>1, RemovalSame
<1>2. ASSUME NEW r \in Regs, CloseRegistration(r) PROVE RemovedInv'
  <2>1. /\ closer' = [closer EXCEPT ![r] = "pick"]
        /\ UNCHANGED <<removed, cause, done, holding, pc, result>>
    BY <1>2 DEF CloseRegistration, opVars, contexts, gates
  <2>2. \A q \in Regs : closer'[q] \in Ops => closer[q] \in Ops /\ closer'[q] = closer[q]
    BY <1>t, <1>n, <2>1
  <2> QED BY <2>1, <2>2 DEF RemovedInv, Cancelled
<1>3. ASSUME NEW r \in Regs, StopNext(r) PROVE RemovedInv'
  <2>1. UNCHANGED <<removed, done, holding, pc, result>>
    BY <1>3 DEF StopNext, opVars, gates
  <2>2. CASE closer' = [closer EXCEPT ![r] = "returned"] /\ UNCHANGED cause
    <3>1. \A q \in Regs : closer'[q] \in Ops => closer[q] \in Ops /\ closer'[q] = closer[q]
      BY <1>t, <1>n, <2>2
    <3> QED BY <2>1, <2>2, <3>1 DEF RemovedInv, Cancelled
  <2>3. ASSUME NEW o \in toStop[r], closer' = [closer EXCEPT ![r] = o], Cancel(o, "removed")
        PROVE  RemovedInv'
    <3>1. o \in Ops
      BY <2>3 DEF TypeInv
    <3>2. /\ Cancelled(o)'
          /\ \A p \in Ops : /\ Cancelled(p) => Cancelled(p)'
                            /\ cause'[p] = "returned" => cause[p] = "returned"
      BY <2>3, <3>1, CancelKeeps
    <3>3. \A q \in Regs : closer'[q] \in Ops => Cancelled(closer[q])'
      BY <1>t, <2>3, <3>1, <3>2 DEF RemovedInv, Cancelled
    <3> QED BY <1>t, <2>1, <3>2, <3>3 DEF RemovedInv
  <2> QED BY <1>3, <2>2, <2>3 DEF StopNext
<1>4. ASSUME NEW r \in Regs, StopGate(r) PROVE RemovedInv'
  <2> DEFINE o == closer[r]
  <2>1. /\ o \in Ops /\ o \notin holding /\ done' = done \cup {o}
        /\ removed' = IF pc[o] = "run" THEN removed \cup {o} ELSE removed
        /\ closer' = [closer EXCEPT ![r] = "pick"]
        /\ UNCHANGED <<cause, holding, pc, result>>
    BY <1>4 DEF StopGate, CloseGate, opVars, contexts
  <2>2. \A q \in Regs : closer'[q] \in Ops => closer[q] \in Ops /\ closer'[q] = closer[q]
    BY <1>t, <1>n, <2>1
  <2>3. Cancelled(o)
    BY <2>1 DEF RemovedInv
  <2>4. pc[o] = "run" => result[o] # "served"
    BY <2>1 DEF RemovedInv, Undecided
  <2> QED BY <2>1, <2>2, <2>3, <2>4 DEF RemovedInv, Cancelled
<1>5. ASSUME NEW o \in Ops, Lookup(o) \/ Admit(o) PROVE RemovedInv'
  <2>1. /\ pc[o] \in {"lookup", "admit"}
        /\ \/ \E to \in {"admit", "check"} : pc' = [pc EXCEPT ![o] = to] /\ UNCHANGED result
           \/ \E why \in {"unavailable", "removed", "duplicate", "limit"} :
                pc' = [pc EXCEPT ![o] = "answer"] /\ result' = [result EXCEPT ![o] = why]
    BY <1>5 DEF Lookup, Admit, Results
  <2>2. UNCHANGED <<closer, removed, cause, done, holding>>
    BY <1>5 DEF Lookup, Admit, closers, contexts, gates
  <2>3. o \notin removed /\ cause[o] # "returned"
    BY <2>1 DEF RemovedInv
  <2>4. \A p \in Ops \ {o} : pc'[p] = pc[p] /\ result'[p] = result[p]
    BY <1>t, <2>1
  <2>5. pc'[o] \in Undecided => result'[o] = "none"
    BY <1>t, <2>1 DEF RemovedInv, Undecided
  <2> QED BY <1>t, <2>2, <2>3, <2>4, <2>5 DEF RemovedInv, Cancelled
<1>6. ASSUME NEW o \in Ops, Check(o) PROVE RemovedInv'
  <2>1. /\ pc[o] = "check" /\ pc' = [pc EXCEPT ![o] = "start"]
        /\ UNCHANGED <<closer, removed, holding, result>>
    BY <1>6 DEF Check, closers
  <2>2. \/ /\ o \notin holding /\ done' = done \cup {o}
           /\ \E why \in {"connection", "request"} : Cancel(o, why)
        \/ UNCHANGED <<cause, done>>
    BY <1>6 DEF Check, CloseGate
  <2>3. \A p \in Ops : /\ Cancelled(p) => Cancelled(p)'
                       /\ cause'[p] = "returned" => cause[p] = "returned"
    BY <2>2, CancelKeeps DEF Cancelled
  <2>4. o \notin removed /\ cause[o] # "returned" /\ result[o] = "none"
    BY <2>1 DEF RemovedInv, Undecided
  <2>5. \A p \in Ops \ {o} : pc'[p] = pc[p]
    BY <1>t, <2>1
  <2>6. done' \cap holding' = {} /\ removed' \subseteq done'
    BY <2>1, <2>2 DEF RemovedInv
  <2>7. \A q \in Regs : closer'[q] \in Ops => Cancelled(closer[q])'
    BY <1>t, <2>1, <2>3 DEF RemovedInv
  <2> QED BY <1>t, <2>1, <2>3, <2>4, <2>5, <2>6, <2>7 DEF RemovedInv
<1>7. ASSUME NEW o \in Ops, Start(o) \/ ServiceReturns(o) \/ EndNotes(o) PROVE RemovedInv'
  <2>1. /\ \/ /\ pc[o] \in {"start", "run", "gate"}
              /\ \E to \in {"run", "gate", "decide"} : pc' = [pc EXCEPT ![o] = to]
              /\ UNCHANGED result
           \/ /\ pc[o] = "run" /\ pc' = [pc EXCEPT ![o] = "release"]
              /\ result' = [result EXCEPT ![o] = "panic"]
        /\ UNCHANGED <<closer, removed, cause, holding>>
    BY <1>7 DEF Start, ServiceReturns, EndNotes, Results, closers, contexts, gates
  <2>2. done' = done \/ (o \notin holding /\ done' = done \cup {o})
    BY <1>7 DEF Start, ServiceReturns, EndNotes, CloseGate, gates
  <2>3. cause[o] # "returned" /\ result[o] = "none"
    BY <2>1 DEF RemovedInv, Undecided
  <2>4. \A p \in Ops \ {o} : pc'[p] = pc[p] /\ result'[p] = result[p]
    BY <1>t, <2>1
  <2>5. /\ pc'[o] \in {"run", "gate", "decide", "release"} /\ result'[o] # "served"
        /\ pc'[o] \in Undecided => result'[o] = "none"
    BY <1>t, <2>1, <2>3 DEF Undecided
  <2>6. done' \cap holding' = {} /\ removed' \subseteq done'
    BY <2>1, <2>2 DEF RemovedInv
  <2> QED BY <1>t, <2>1, <2>3, <2>4, <2>5, <2>6 DEF RemovedInv, Cancelled
<1>8. ASSUME NEW o \in Ops, Decide(o) PROVE RemovedInv'
  <2>1. /\ pc[o] = "decide" /\ pc' = [pc EXCEPT ![o] = "release"]
        /\ UNCHANGED <<closer, removed, cause, done, holding>>
        /\ \A p \in Ops \ {o} : result'[p] = result[p]
    BY <1>8, <1>t DEF Decide, closers, contexts, gates
  <2>2. cause[o] # "returned"
    BY <2>1 DEF RemovedInv
  <2>3. Cancelled(o) => cause[o] \in {"connection", "removed", "request"}
    BY <1>t, <2>2 DEF Cancelled, Causes
  <2>4. inputClosed \in BOOLEAN
    BY DEF TypeInv
  <2>5. Cancelled(o) => result'[o] \in {"silent", "removed", "cancelled"}
    BY <1>8, <1>t, <2>3, <2>4 DEF Decide
  <2>6. \A p \in Ops \ {o} : pc'[p] = pc[p]
    BY <1>t, <2>1
  <2>7. pc'[o] = "release"
    BY <1>t, <2>1
  <2> QED BY <1>t, <2>1, <2>2, <2>5, <2>6, <2>7 DEF RemovedInv, Cancelled, Undecided
<1>9. ASSUME NEW o \in Ops, Release(o) PROVE RemovedInv'
  <2>1. /\ pc[o] = "release" /\ pc' = [pc EXCEPT ![o] = "answer"] /\ Cancel(o, "returned")
        /\ UNCHANGED <<closer, removed, done, holding, result>>
    BY <1>9 DEF Release, closers, gates
  <2>2. \A p \in Ops : /\ Cancelled(p) => Cancelled(p)'
                       /\ p # o => cause'[p] = cause[p] /\ pc'[p] = pc[p]
    BY <1>t, <2>1 DEF Cancel, Cancelled
  <2>3. pc'[o] = "answer"
    BY <1>t, <2>1
  <2>4. \A q \in Regs : closer'[q] \in Ops => Cancelled(closer[q])'
    BY <1>t, <2>1, <2>2 DEF RemovedInv
  <2> QED BY <1>t, <2>1, <2>2, <2>3, <2>4 DEF RemovedInv, Undecided
<1>10. ASSUME NEW o \in Ops, QueueAnswer(o) PROVE RemovedInv'
  <2>1. /\ pc[o] = "answer" /\ pc' = [pc EXCEPT ![o] = "ended"]
        /\ UNCHANGED <<closer, removed, cause, done, holding, result>>
    BY <1>10 DEF QueueAnswer, closers, contexts, gates
  <2>2. pc'[o] = "ended" /\ \A p \in Ops \ {o} : pc'[p] = pc[p]
    BY <1>t, <2>1
  <2> QED BY <1>t, <2>1, <2>2 DEF RemovedInv, Cancelled, Undecided
<1>11. ASSUME NEW o \in Ops, Watch(o) PROVE RemovedInv'
  <2>1. UNCHANGED <<closer, removed, done, holding, pc, result>>
    BY <1>11 DEF Watch, closers, opVars, gates
  <2>2. \E why \in {"connection", "request"} : Cancel(o, why)
    BY <1>11 DEF Watch
  <2>3. \A p \in Ops : /\ Cancelled(p) => Cancelled(p)'
                       /\ cause'[p] = "returned" => cause[p] = "returned"
    BY <2>2, CancelKeeps
  <2>4. \A q \in Regs : closer'[q] \in Ops => Cancelled(closer[q])'
    BY <1>t, <2>1, <2>3 DEF RemovedInv
  <2> QED BY <1>t, <2>1, <2>3, <2>4 DEF RemovedInv
<1>12. ASSUME NEW o \in Ops,
              WatchGate(o) \/ Notify(o) \/ QueueNote(o) \/ DropNote(o)
       PROVE  RemovedInv'
  <2>1. UNCHANGED <<closer, removed, cause, pc, result>>
    BY <1>12 DEF WatchGate, Notify, QueueNote, DropNote, closers, opVars, contexts
  <2>2. done' \cap holding' = {} /\ removed' \subseteq done'
    BY <1>12 DEF WatchGate, Notify, QueueNote, DropNote, CloseGate, closers, RemovedInv
  <2> QED BY <2>1, <2>2 DEF RemovedInv, Cancelled
<1>13. ASSUME NEW o \in Ops, CancelOuter(o) \/ GiveUp(o) \/ ReturnCall(o) PROVE RemovedInv'
  <2>1. SameRemoval
    BY <1>13 DEF CancelOuter, GiveUp, ReturnCall, SameRemoval, closers, opVars, contexts,
       gates, vars
  <2> QED BY <2>1, RemovalSame
<1>14. ASSUME NEW o \in Ops, NEW i \in Ids, BeginCall(o, i) PROVE RemovedInv'
  <2>1. /\ pc[o] = "none" /\ pc' = [pc EXCEPT ![o] = "lookup"]
        /\ UNCHANGED <<closer, removed, cause, done, holding, result>>
    BY <1>14 DEF BeginCall, Arrives, closers, contexts, gates
  <2>2. pc'[o] = "lookup" /\ \A p \in Ops \ {o} : pc'[p] = pc[p]
    BY <1>t, <2>1
  <2>3. o \notin removed /\ cause[o] # "returned" /\ result[o] = "none"
    BY <2>1 DEF RemovedInv, Undecided
  <2> QED BY <1>t, <2>1, <2>2, <2>3 DEF RemovedInv, Cancelled
<1>15. CASE CloseInput \/ Read \/ UNCHANGED allVars
  <2>1. SameRemoval
    BY <1>15 DEF CloseInput, Read, SameRemoval, closers, opVars, contexts, gates, vars,
       allVars
  <2> QED BY <2>1, RemovalSame
<1> QED
  BY <1>1, <1>2, <1>3, <1>4, <1>5, <1>6, <1>7, <1>8, <1>9, <1>10, <1>11, <1>12,
     <1>13, <1>14, <1>15
  DEF ExchangeNext, Provider, HandleStep, CloserStep, WatchStep, Over

(***************************************************************************)
(* Where a frame is on the wire, and how often.                            *)
(***************************************************************************)
Spots(s, f) == {k \in DOMAIN s : s[k] = f}

LEMMA SpotsFinite ==
  ASSUME NEW s \in Seq(Frames), NEW f
  PROVE  IsFiniteSet(Spots(s, f)) /\ Cardinality(Spots(s, f)) \in Nat
<1>1. Spots(s, f) \in SUBSET (1..Len(s)) /\ Len(s) \in Nat
  BY DEF Spots
<1>2. IsFiniteSet(1..Len(s))
  BY <1>1, FS_Interval
<1> QED BY <1>1, <1>2, FS_Subset, FS_CardinalityType

LEMMA SpotsAppend ==
  ASSUME NEW s \in Seq(Frames), NEW e \in Frames, NEW f
  PROVE  /\ Spots(Append(s, e), f)
              = Spots(s, f) \cup (IF e = f THEN {Len(s) + 1} ELSE {})
         /\ Cardinality(Spots(Append(s, e), f))
              = Cardinality(Spots(s, f)) + (IF e = f THEN 1 ELSE 0)
<1>1. Spots(Append(s, e), f) = Spots(s, f) \cup (IF e = f THEN {Len(s) + 1} ELSE {})
  BY DEF Spots
<1>2. Len(s) + 1 \notin Spots(s, f)
  BY DEF Spots
<1>3. Cardinality(Spots(s, f) \cup {Len(s) + 1}) = Cardinality(Spots(s, f)) + 1
  BY <1>2, SpotsFinite, FS_AddElement
<1>4. Cardinality(Spots(s, f)) \in Nat
  BY SpotsFinite
<1>5. CASE e = f
  BY <1>1, <1>3, <1>5
<1>6. CASE e # f
  <2>1. Spots(Append(s, e), f) = Spots(s, f)
    BY <1>1, <1>6
  <2> QED BY <1>1, <1>4, <1>6, <2>1
<1> QED BY <1>5, <1>6

LEMMA SpotsTail ==
  ASSUME NEW s \in Seq(Frames), s # <<>>, NEW f
  PROVE  /\ \A k \in Spots(Tail(s), f) : k + 1 \in Spots(s, f)
         /\ Cardinality(Spots(Tail(s), f))
              = Cardinality(Spots(s, f)) - (IF Head(s) = f THEN 1 ELSE 0)
<1> DEFINE rest == Spots(s, f) \ {1}
           shift == [k \in Spots(Tail(s), f) |-> k + 1]
<1>1. /\ Tail(s) \in Seq(Frames) /\ Len(Tail(s)) = Len(s) - 1 /\ Len(s) \in Nat \ {0}
      /\ \A k \in 1..Len(Tail(s)) : Tail(s)[k] = s[k + 1]
  OBVIOUS
<1>2. \A k \in Spots(Tail(s), f) : k \in Nat /\ k + 1 \in rest
  BY <1>1 DEF Spots
<1>3. \A k \in rest : k \in Nat /\ k - 1 \in Spots(Tail(s), f) /\ (k - 1) + 1 = k
  <2> SUFFICES ASSUME NEW k \in rest
               PROVE  k \in Nat /\ k - 1 \in Spots(Tail(s), f) /\ (k - 1) + 1 = k
    OBVIOUS
  <2>1. k \in 2..Len(s) /\ s[k] = f
    BY DEF Spots
  <2>2. k - 1 \in 1..Len(Tail(s)) /\ (k - 1) + 1 = k
    BY <1>1, <2>1
  <2>3. Tail(s)[k - 1] = f
    BY <1>1, <2>1, <2>2
  <2> QED BY <1>1, <2>1, <2>2, <2>3 DEF Spots
<1>4. shift \in Bijection(Spots(Tail(s), f), rest)
  <2>1. shift \in [Spots(Tail(s), f) -> rest]
    BY <1>2
  <2>2. \A j, k \in Spots(Tail(s), f) : shift[j] = shift[k] => j = k
    BY <1>2
  <2>3. \A k \in rest : \E j \in Spots(Tail(s), f) : shift[j] = k
    BY <1>3
  <2> HIDE DEF shift, rest
  <2> QED BY <2>1, <2>2, <2>3, Fun_IsBij
<1>5. Cardinality(Spots(Tail(s), f)) = Cardinality(rest)
  <2>1. ExistsBijection(Spots(Tail(s), f), rest)
    BY <1>4 DEF ExistsBijection
  <2> QED BY <1>1, <2>1, SpotsFinite, FS_Bijection
<1>6. 1 \in Spots(s, f) <=> Head(s) = f
  BY DEF Spots
<1>7. Cardinality(rest) = Cardinality(Spots(s, f)) - (IF Head(s) = f THEN 1 ELSE 0)
  <2>1. IsFiniteSet(Spots(s, f)) /\ Cardinality(Spots(s, f)) \in Nat
    BY SpotsFinite
  <2>2. CASE Head(s) = f
    <3>1. 1 \in Spots(s, f)
      BY <1>6, <2>2
    <3>2. Cardinality(rest) = Cardinality(Spots(s, f)) - 1
      BY <2>1, <3>1, FS_RemoveElement
    <3> QED BY <2>2, <3>2
  <2>3. CASE Head(s) # f
    <3>1. rest = Spots(s, f)
      BY <1>6, <2>3
    <3> HIDE DEF rest
    <3> QED BY <2>1, <2>3, <3>1
  <2> QED BY <2>2, <2>3
<1> QED BY <1>2, <1>5, <1>7


(***************************************************************************)
(* Notifications.                                                          *)
(***************************************************************************)
Early == {"none", "lookup", "admit", "check", "start"}

\* Before its service runs an operation queues nothing, and one that answers
\* without a panic has closed its gate.
GateInv ==
  /\ \A o \in Ops : pc[o] \in Early => o \notin holding /\ notes[o] = 0
  /\ \A o \in Ops : result[o] # "panic" =>
       /\ pc[o] \in {"decide", "release"} => o \in done
       /\ pc[o] \in {"answer", "ended"} => o \notin holding

\* A call has its request ID for itself, and its answer after its operation.
Active(o) == call[o] \in {"out", "answered"}
Answered(o) == call[o] \in {"answered", "returned"}
CallInv ==
  /\ \A o \in Ops : call[o] = "idle" <=> pc[o] = "none"
  /\ \A o \in Ops \ gaveUp : Answered(o) => pc[o] = "ended"
  /\ \A o, p \in Ops : Active(o) /\ Active(p) /\ id[o] = id[p] => o = p

\* Every notification an operation queued is on the wire, before the answer, or
\* its call had it.
Delivers(o) ==
  /\ notes[o] = got[o] + Cardinality(Spots(wire, Note(o)))
  /\ Answered(o) => Spots(wire, Note(o)) = {}
  /\ \A p \in Ops : <<o, p>> \notin strays
WireInv ==
  /\ \A o \in Ops : Spots(wire, Answer(o)) # {} => pc[o] = "ended"
  /\ \A o \in Ops : result[o] # "panic" =>
       \A j \in Spots(wire, Answer(o)), k \in Spots(wire, Note(o)) : k < j
  /\ \A o \in Ops \ gaveUp : result[o] # "panic" => Delivers(o)

NoteInv == GateInv /\ CallInv /\ WireInv

\* Nothing a gate guards moves; gates may close.
Undisturbed == UNCHANGED <<pc, holding, notes, result>> /\ done \subseteq done'

LEMMA GateSame == GateInv /\ Undisturbed => GateInv'
BY DEF GateInv, Undisturbed

LEMMA GateKept ==
  TypeInv /\ RemovedInv /\ GateInv /\ [ExchangeNext]_allVars => GateInv'
<1> SUFFICES ASSUME TypeInv, RemovedInv, GateInv, [ExchangeNext]_allVars
             PROVE  GateInv'
  OBVIOUS
<1> USE DEF Moves
<1>t. /\ pc \in [Ops -> States] /\ result \in [Ops -> Outcomes]
      /\ notes \in [Ops -> Nat] /\ done \cap holding = {}
      /\ \A o \in Ops : pc[o] \in Undecided => result[o] = "none"
  BY DEF TypeInv, RemovedInv
<1>1. ASSUME NEW r \in Regs, Register(r) \/ CloseRegistration(r) \/ CloserStep(r)
      PROVE GateInv'
  <2>1. Undisturbed
    BY <1>1 DEF Register, CloseRegistration, CloserStep, StopNext, StopGate, CloseGate,
       Undisturbed, opVars, gates
  <2> QED BY <2>1, GateSame
<1>2. ASSUME NEW o \in Ops, Lookup(o) \/ Admit(o) PROVE GateInv'
  <2>1. /\ pc[o] \in Early
        /\ \E to \in {"answer", "admit", "check"} : pc' = [pc EXCEPT ![o] = to]
        /\ \A p \in Ops \ {o} : result'[p] = result[p]
        /\ UNCHANGED <<done, holding, notes>>
    BY <1>2, <1>t DEF Lookup, Admit, Results, Early, gates
  <2>2. o \notin holding /\ notes[o] = 0
    BY <2>1 DEF GateInv
  <2>3. pc'[o] \in {"answer", "admit", "check"} /\ \A p \in Ops \ {o} : pc'[p] = pc[p]
    BY <1>t, <2>1
  <2> QED BY <2>1, <2>2, <2>3 DEF GateInv
<1>3. ASSUME NEW o \in Ops, Check(o) \/ Start(o) PROVE GateInv'
  <2>1. /\ pc[o] \in Early /\ done \subseteq done'
        /\ \E to \in {"start", "gate", "run"} : pc' = [pc EXCEPT ![o] = to]
        /\ UNCHANGED <<holding, notes, result>>
    BY <1>3 DEF Check, Start, Early, CloseGate, gates
  <2>2. pc'[o] \in {"start", "gate", "run"} /\ \A p \in Ops \ {o} : pc'[p] = pc[p]
    BY <1>t, <2>1
  <2> QED BY <2>1, <2>2 DEF GateInv
<1>4. ASSUME NEW o \in Ops, ServiceReturns(o) PROVE GateInv'
  <2>1. /\ \/ pc' = [pc EXCEPT ![o] = "gate"] /\ UNCHANGED result
           \/ /\ pc' = [pc EXCEPT ![o] = "release"]
              /\ result' = [result EXCEPT ![o] = "panic"]
        /\ UNCHANGED <<done, holding, notes>>
    BY <1>4 DEF ServiceReturns, Results, gates
  <2>2. /\ pc'[o] = "gate" \/ (pc'[o] = "release" /\ result'[o] = "panic")
        /\ \A p \in Ops \ {o} : pc'[p] = pc[p] /\ result'[p] = result[p]
    BY <1>t, <2>1
  <2> QED BY <2>1, <2>2 DEF GateInv, Early
<1>5. ASSUME NEW o \in Ops, EndNotes(o) PROVE GateInv'
  <2>1. /\ pc' = [pc EXCEPT ![o] = "decide"] /\ done' = done \cup {o}
        /\ UNCHANGED <<holding, notes, result>>
    BY <1>5 DEF EndNotes, CloseGate
  <2>2. pc'[o] = "decide" /\ \A p \in Ops \ {o} : pc'[p] = pc[p]
    BY <1>t, <2>1
  <2> QED BY <2>1, <2>2 DEF GateInv, Early
<1>6. ASSUME NEW o \in Ops, Decide(o) PROVE GateInv'
  <2>1. /\ pc[o] = "decide" /\ pc' = [pc EXCEPT ![o] = "release"]
        /\ \A p \in Ops \ {o} : result'[p] = result[p]
        /\ UNCHANGED <<done, holding, notes>>
    BY <1>6, <1>t DEF Decide, gates
  <2>2. o \in done
    BY <1>t, <2>1 DEF GateInv, Undecided
  <2>3. pc'[o] = "release" /\ \A p \in Ops \ {o} : pc'[p] = pc[p]
    BY <1>t, <2>1
  <2> QED BY <2>1, <2>2, <2>3 DEF GateInv, Early
<1>7. ASSUME NEW o \in Ops, Release(o) \/ QueueAnswer(o) PROVE GateInv'
  <2>1. /\ pc[o] \in {"release", "answer"}
        /\ \E to \in {"answer", "ended"} : pc' = [pc EXCEPT ![o] = to]
        /\ UNCHANGED <<done, holding, notes, result>>
    BY <1>7 DEF Release, QueueAnswer, gates
  <2>2. result[o] # "panic" => o \notin holding
    BY <1>t, <2>1 DEF GateInv
  <2>3. pc'[o] \in {"answer", "ended"} /\ \A p \in Ops \ {o} : pc'[p] = pc[p]
    BY <1>t, <2>1
  <2> QED BY <2>1, <2>2, <2>3 DEF GateInv, Early
<1>8. ASSUME NEW o \in Ops, Notify(o) PROVE GateInv'
  <2>1. /\ pc[o] \in {"run", "gate", "release"} /\ holding' = holding \cup {o}
        /\ UNCHANGED <<pc, done, notes, result>>
    BY <1>8 DEF Notify, opVars
  <2> QED BY <2>1 DEF GateInv, Early
<1>9. ASSUME NEW o \in Ops, QueueNote(o) \/ DropNote(o) PROVE GateInv'
  <2>1. /\ o \in holding /\ holding' = holding \ {o}
        /\ UNCHANGED <<pc, done, result>>
        /\ \A p \in Ops \ {o} : notes'[p] = notes[p]
    BY <1>9, <1>t DEF QueueNote, DropNote, opVars
  <2>2. pc[o] \notin Early
    BY <2>1 DEF GateInv
  <2> QED BY <2>1, <2>2 DEF GateInv
<1>10. ASSUME NEW o \in Ops, NEW i \in Ids, BeginCall(o, i) PROVE GateInv'
  <2>1. /\ pc[o] = "none" /\ pc' = [pc EXCEPT ![o] = "lookup"]
        /\ UNCHANGED <<done, holding, notes, result>>
    BY <1>10 DEF BeginCall, Arrives, gates
  <2>2. pc'[o] = "lookup" /\ \A p \in Ops \ {o} : pc'[p] = pc[p]
    BY <1>t, <2>1
  <2> QED BY <2>1, <2>2 DEF GateInv, Early
<1>11. ASSUME NEW o \in Ops, WatchStep(o) \/ CancelOuter(o) \/ GiveUp(o) \/ ReturnCall(o)
       PROVE GateInv'
  <2>1. Undisturbed
    BY <1>11 DEF WatchStep, Watch, WatchGate, CloseGate, CancelOuter, GiveUp, ReturnCall,
       Undisturbed, opVars, gates, vars
  <2> QED BY <2>1, GateSame
<1>12. CASE CloseInput \/ Read \/ UNCHANGED allVars
  <2>1. Undisturbed
    BY <1>12 DEF CloseInput, Read, Undisturbed, opVars, gates, vars, allVars
  <2> QED BY <2>1, GateSame
<1> QED
  BY <1>1, <1>2, <1>3, <1>4, <1>5, <1>6, <1>7, <1>8, <1>9, <1>10, <1>11, <1>12
  DEF ExchangeNext, Provider, HandleStep, Over

LEMMA CallSame == CallInv /\ UNCHANGED <<call, pc, id, gaveUp>> => CallInv'
BY DEF CallInv, Active, Answered

\* A handler moves on after its start and before its answer.
LEMMA CallMoves ==
  ASSUME TypeInv, CallInv, NEW o \in Ops, NEW to \in States \ {"none"},
         pc[o] \notin {"none", "ended"}, pc' = [pc EXCEPT ![o] = to],
         UNCHANGED <<call, id, gaveUp>>
  PROVE  CallInv'
<1>1. pc'[o] = to /\ \A p \in Ops \ {o} : pc'[p] = pc[p]
  BY DEF TypeInv
<1> QED BY <1>1 DEF CallInv, Active, Answered

LEMMA CallKept ==
  TypeInv /\ CallInv /\ WireInv /\ [ExchangeNext]_allVars => CallInv'
<1> SUFFICES ASSUME TypeInv, CallInv, WireInv, [ExchangeNext]_allVars
             PROVE  CallInv'
  OBVIOUS
<1> USE DEF Moves
<1>t. /\ call \in [Ops -> {"idle", "out", "answered", "returned"}]
      /\ pc \in [Ops -> States] /\ id \in [Ops -> Ids \cup {None}] /\ gaveUp \subseteq Ops
      /\ wire \in Seq(Frames)
  BY DEF TypeInv
<1>1. ASSUME NEW r \in Regs, Register(r) \/ CloseRegistration(r) \/ CloserStep(r),
             UNCHANGED consumerVars
      PROVE CallInv'
  <2>1. UNCHANGED <<call, pc, id, gaveUp>>
    BY <1>1 DEF Register, CloseRegistration, CloserStep, StopNext, StopGate, opVars,
       consumerVars
  <2> QED BY <2>1, CallSame
<1>2. ASSUME NEW o \in Ops, HandleStep(o) \/ ServiceReturns(o) \/ QueueAnswer(o),
             UNCHANGED consumerVars
      PROVE CallInv'
  <2>1. /\ pc[o] \notin {"none", "ended"}
        /\ \E to \in States \ {"none"} : pc' = [pc EXCEPT ![o] = to]
    BY <1>2 DEF HandleStep, Lookup, Admit, Check, Start, EndNotes, Decide, Release,
       ServiceReturns, QueueAnswer, States
  <2>2. UNCHANGED <<call, id, gaveUp>>
    BY <1>2 DEF HandleStep, Lookup, Admit, Check, Start, EndNotes, Decide, Release,
       ServiceReturns, QueueAnswer, consumerVars
  <2> QED BY <2>1, <2>2, CallMoves
<1>3. ASSUME NEW o \in Ops,
             WatchStep(o) \/ Notify(o) \/ QueueNote(o) \/ DropNote(o) \/ CancelOuter(o),
             UNCHANGED consumerVars
      PROVE CallInv'
  <2>1. UNCHANGED <<call, pc, id, gaveUp>>
    BY <1>3 DEF WatchStep, Watch, WatchGate, Notify, QueueNote, DropNote, CancelOuter,
       opVars, consumerVars
  <2> QED BY <2>1, CallSame
<1>4. ASSUME NEW o \in Ops, NEW i \in Ids, BeginCall(o, i) PROVE CallInv'
  <2>1. /\ ActiveCall(i) = {} /\ call[o] = "idle" /\ call' = [call EXCEPT ![o] = "out"]
        /\ pc' = [pc EXCEPT ![o] = "lookup"] /\ id' = [id EXCEPT ![o] = i]
        /\ gaveUp' = gaveUp
    BY <1>4 DEF BeginCall, Arrives
  <2>2. call'[o] = "out" /\ pc'[o] = "lookup" /\ id'[o] = i
    BY <1>t, <2>1
  <2>3. \A p \in Ops \ {o} : call'[p] = call[p] /\ pc'[p] = pc[p] /\ id'[p] = id[p]
    BY <1>t, <2>1
  <2>4. \A p \in Ops : Active(p) => id[p] # i
    BY <2>1 DEF ActiveCall, Active
  <2> QED BY <2>1, <2>2, <2>3, <2>4 DEF CallInv, Active, Answered
<1>5. ASSUME NEW o \in Ops, GiveUp(o) \/ ReturnCall(o) PROVE CallInv'
  <2>1. /\ Active(o) /\ call' = [call EXCEPT ![o] = "returned"] /\ UNCHANGED <<pc, id>>
        /\ \/ call[o] = "out" /\ gaveUp' = gaveUp \cup {o}
           \/ call[o] = "answered" /\ gaveUp' = gaveUp
    BY <1>5 DEF GiveUp, ReturnCall, Active, vars, opVars
  <2>2. call'[o] = "returned" /\ \A p \in Ops \ {o} : call'[p] = call[p]
    BY <1>t, <2>1
  <2> QED BY <2>1, <2>2 DEF CallInv, Active, Answered
<1>6. CASE Read
  <2> DEFINE f == Head(wire)
  <2>1. wire # <<>> /\ f \in Frames /\ UNCHANGED <<pc, id, gaveUp>>
    BY <1>6, <1>t DEF Read, HandleNote, HandleAnswer, opVars
  <2>2. CASE f.kind = "note"
    <3>1. call' = call
      BY <1>6, <2>2 DEF Read, HandleNote
    <3> QED BY <2>1, <3>1, CallSame
  <2>3. CASE f.kind = "answer"
    <3> DEFINE o == f.op
    <3>1. /\ o \in Ops
          /\ call' = [call EXCEPT ![o] = IF @ = "out" THEN "answered" ELSE @]
      BY <1>6, <2>1, <2>3 DEF Read, HandleAnswer, Frames
    <3>2. pc[o] = "ended"
      <4>1. f = Answer(o)
        BY <2>1, <2>3 DEF Frames, Answer
      <4>2. 1 \in Spots(wire, Answer(o))
        BY <1>t, <2>1, <4>1 DEF Spots
      <4> QED BY <3>1, <4>2 DEF WireInv
    <3>3. \A p \in Ops : /\ p # o => call'[p] = call[p]
                         /\ Active(p)' => Active(p)
                         /\ call'[p] = "idle" <=> call[p] = "idle"
      BY <1>t, <3>1 DEF Active
    <3> QED BY <2>1, <3>1, <3>2, <3>3 DEF CallInv, Answered
  <2> QED BY <2>1, <2>2, <2>3 DEF Frames
<1>7. CASE (CloseInput /\ UNCHANGED consumerVars) \/ UNCHANGED allVars
  <2>1. UNCHANGED <<call, pc, id, gaveUp>>
    BY <1>7 DEF CloseInput, consumerVars, opVars, vars, allVars
  <2> QED BY <2>1, CallSame
<1> QED
  BY <1>1, <1>2, <1>3, <1>4, <1>5, <1>6, <1>7 DEF ExchangeNext, Provider, Over

\* Neither the wire nor what was delivered changes, and no call is answered.
WireStays ==
  /\ UNCHANGED <<wire, notes, got, strays>> /\ gaveUp \subseteq gaveUp'
  /\ \A o \in Ops : /\ result[o] = "panic" => result'[o] = "panic"
                    /\ pc[o] = "ended" => pc'[o] = "ended"
                    /\ Answered(o)' /\ o \notin gaveUp' => Answered(o)

LEMMA WireSame == WireInv /\ WireStays => WireInv'
<1> SUFFICES ASSUME WireInv, WireStays PROVE WireInv'
  OBVIOUS
<1>1. UNCHANGED <<wire, notes, got, strays>>
  BY DEF WireStays
<1>2. \A o \in Ops : Answer(o)' = Answer(o) /\ Note(o)' = Note(o)
  BY DEF Answer, Note
<1>3. \A o \in Ops : /\ Spots(wire, Answer(o))' = Spots(wire, Answer(o))
                     /\ Spots(wire, Note(o))' = Spots(wire, Note(o))
  BY <1>1, <1>2 DEF Spots
<1>4. \A o \in Ops : Spots(wire, Answer(o))' # {} => pc'[o] = "ended"
  BY <1>3 DEF WireInv, WireStays
<1>5. \A o \in Ops \ gaveUp' : result'[o] # "panic" => Delivers(o)'
  BY <1>1, <1>3 DEF WireInv, WireStays, Delivers
<1> QED BY <1>3, <1>4, <1>5 DEF WireInv, WireStays

\* Nothing but its notifications and its answer concerns an operation.
LEMMA FramesDiffer ==
  \A o, p \in Ops : /\ Note(o) # Answer(p)
                    /\ (Note(o) = Note(p) \/ Answer(o) = Answer(p)) => o = p
                    /\ Note(o) \in Frames /\ Answer(o) \in Frames
BY DEF Note, Answer, Frames

LEMMA SpotsNext ==
  \A o \in Ops : /\ Spots(wire, Answer(o))' = Spots(wire', Answer(o))
                /\ Spots(wire, Note(o))' = Spots(wire', Note(o))
BY DEF Answer, Note, Spots

\* A notification is queued for an operation whose gate is open.
LEMMA WireNote ==
  ASSUME TypeInv, GateInv, CallInv, WireInv, NEW o \in Ops, QueueNote(o),
         UNCHANGED consumerVars
  PROVE  WireInv'
<1>1. /\ wire \in Seq(Frames) /\ notes \in [Ops -> Nat] /\ got \in [Ops -> Nat]
  BY DEF TypeInv
<1>2. /\ o \in holding /\ wire' = Append(wire, Note(o))
      /\ notes' = [notes EXCEPT ![o] = @ + 1]
      /\ UNCHANGED <<pc, result, call, got, strays, gaveUp>>
  BY DEF QueueNote, opVars, consumerVars
<1>3. \A p \in Ops : /\ notes'[p] = notes[p] + (IF p = o THEN 1 ELSE 0)
                     /\ Answered(p)' = Answered(p)
  BY <1>1, <1>2 DEF Answered
<1>4. \A g : /\ Spots(wire', g)
                 = Spots(wire, g) \cup (IF Note(o) = g THEN {Len(wire) + 1} ELSE {})
            /\ Cardinality(Spots(wire', g))
                 = Cardinality(Spots(wire, g)) + (IF Note(o) = g THEN 1 ELSE 0)
  <2>1. Note(o) \in Frames
    BY FramesDiffer
  <2> QED BY <1>1, <1>2, <2>1, SpotsAppend
<1>5. \A p \in Ops : Note(o) # Answer(p) /\ (Note(o) = Note(p) <=> p = o)
  BY FramesDiffer
<1>6. \A p \in Ops : /\ Spots(wire, Answer(p))' = Spots(wire, Answer(p))
                     /\ p # o => Spots(wire, Note(p))' = Spots(wire, Note(p))
                     /\ Cardinality(Spots(wire, Note(p)))'
                          = Cardinality(Spots(wire, Note(p))) + (IF p = o THEN 1 ELSE 0)
  <2> SUFFICES ASSUME NEW p \in Ops
               PROVE  /\ Spots(wire, Answer(p))' = Spots(wire, Answer(p))
                      /\ p # o => Spots(wire, Note(p))' = Spots(wire, Note(p))
                      /\ Cardinality(Spots(wire, Note(p)))'
                           = Cardinality(Spots(wire, Note(p))) + (IF p = o THEN 1 ELSE 0)
    OBVIOUS
  <2>1. Spots(wire', Answer(p)) = Spots(wire, Answer(p))
    BY <1>4, <1>5
  <2>2. p # o => Spots(wire', Note(p)) = Spots(wire, Note(p))
    BY <1>4, <1>5
  <2>3. Cardinality(Spots(wire', Note(p)))
          = Cardinality(Spots(wire, Note(p))) + (IF p = o THEN 1 ELSE 0)
    BY <1>4, <1>5
  <2> QED BY <2>1, <2>2, <2>3, SpotsNext
<1>7. result[o] # "panic" =>
        Spots(wire, Answer(o)) = {} /\ (o \notin gaveUp => ~Answered(o))
  BY <1>2 DEF GateInv, CallInv, WireInv
<1>8. \A p \in Ops : result'[p] # "panic" =>
        \A j \in Spots(wire, Answer(p))', k \in Spots(wire, Note(p))' : k < j
  BY <1>2, <1>6, <1>7 DEF WireInv
<1>9. ASSUME NEW p \in Ops \ gaveUp', result'[p] # "panic" PROVE Delivers(p)'
  <2>1. Delivers(p)
    BY <1>2, <1>9 DEF WireInv
  <2>2. notes'[p] = got'[p] + Cardinality(Spots(wire, Note(p)))'
    <3>1. Cardinality(Spots(wire, Note(p))) \in Nat /\ got[p] \in Nat
      BY <1>1, SpotsFinite
    <3> QED BY <1>2, <1>3, <1>6, <2>1, <3>1 DEF Delivers
  <2>3. Answered(p)' => Spots(wire, Note(p))' = {}
    BY <1>2, <1>3, <1>6, <1>7, <1>9, <2>1 DEF Delivers
  <2>4. \A q \in Ops : <<p, q>> \notin strays'
    BY <1>2, <2>1 DEF Delivers
  <2> QED BY <2>2, <2>3, <2>4 DEF Delivers
<1> QED BY <1>2, <1>6, <1>8, <1>9 DEF WireInv

\* An answer is queued behind the notifications.
LEMMA WireAnswer ==
  ASSUME TypeInv, WireInv, NEW o \in Ops, QueueAnswer(o), wire' = Append(wire, Answer(o)),
         UNCHANGED consumerVars
  PROVE  WireInv'
<1>1. /\ wire \in Seq(Frames) /\ pc \in [Ops -> States]
  BY DEF TypeInv
<1>2. /\ pc[o] = "answer" /\ pc' = [pc EXCEPT ![o] = "ended"]
      /\ UNCHANGED <<result, notes, call, got, strays, gaveUp>>
  BY DEF QueueAnswer, Moves, gates, consumerVars
<1>3. pc'[o] = "ended" /\ \A p \in Ops \ {o} : pc'[p] = pc[p]
  BY <1>1, <1>2
<1>4. \A g : Spots(wire', g)
               = Spots(wire, g) \cup (IF Answer(o) = g THEN {Len(wire) + 1} ELSE {})
  <2>1. Answer(o) \in Frames
    BY FramesDiffer
  <2> QED BY <1>1, <2>1, SpotsAppend
<1>5. ASSUME NEW p \in Ops
      PROVE  /\ Spots(wire, Note(p))' = Spots(wire, Note(p))
             /\ Spots(wire, Answer(p))'
                  = Spots(wire, Answer(p)) \cup (IF p = o THEN {Len(wire) + 1} ELSE {})
  <2>1. Answer(o) # Note(p) /\ (Answer(o) = Answer(p) <=> p = o)
    BY FramesDiffer
  <2>2. Spots(wire', Note(p)) = Spots(wire, Note(p))
    BY <1>4, <2>1
  <2> QED BY <1>4, <2>1, <2>2, SpotsNext
<1>6. \A p \in Ops : Spots(wire, Answer(p))' # {} => pc'[p] = "ended"
  BY <1>3, <1>5 DEF WireInv
<1>7. \A p \in Ops : \A k \in Spots(wire, Note(p)) : k < Len(wire) + 1
  BY <1>1 DEF Spots
<1>8. \A p \in Ops : result'[p] # "panic" =>
        \A j \in Spots(wire, Answer(p))', k \in Spots(wire, Note(p))' : k < j
  BY <1>2, <1>5, <1>7 DEF WireInv
<1>9. \A p \in Ops \ gaveUp' : result'[p] # "panic" => Delivers(p)'
  BY <1>2, <1>5 DEF WireInv, Delivers, Answered
<1> QED BY <1>6, <1>8, <1>9 DEF WireInv

\* The consumer takes the first frame.
LEMMA WireRead ==
  ASSUME TypeInv, GateInv, CallInv, WireInv, Read
  PROVE  WireInv'
<1> DEFINE f == Head(wire)
           o == f.op
<1>1. /\ wire \in Seq(Frames) /\ notes \in [Ops -> Nat] /\ got \in [Ops -> Nat]
      /\ call \in [Ops -> {"idle", "out", "answered", "returned"}]
      /\ strays \subseteq Ops \X Ops
  BY DEF TypeInv
<1>2. /\ wire # <<>> /\ wire' = Tail(wire) /\ f \in Frames /\ o \in Ops
      /\ UNCHANGED <<pc, result, notes, gaveUp>>
  <2>1. /\ wire # <<>> /\ wire' = Tail(wire)
        /\ UNCHANGED <<pc, result, notes, gaveUp>>
    BY DEF Read, HandleNote, HandleAnswer, opVars, gates
  <2>2. f \in Frames
    BY <1>1, <2>1
  <2> QED BY <2>1, <2>2 DEF Frames
<1>3. \A g : \A k \in Spots(wire', g) : k + 1 \in Spots(wire, g)
  BY <1>1, <1>2, SpotsTail
<1>4. \A g : Cardinality(Spots(wire', g))
               = Cardinality(Spots(wire, g)) - (IF f = g THEN 1 ELSE 0)
  BY <1>1, <1>2, SpotsTail
<1>5. \A g : f = g => 1 \in Spots(wire, g)
  BY <1>1, <1>2 DEF Spots
<1>6. \A g : Spots(wire', g) \subseteq Nat \ {0} /\ Spots(wire, g) \subseteq Nat \ {0}
  BY <1>1, <1>2 DEF Spots
<1>7. \A p \in Ops : Spots(wire', Answer(p)) # {} => pc'[p] = "ended"
  BY <1>2, <1>3 DEF WireInv
<1>8. ASSUME NEW p \in Ops, result'[p] # "panic",
             NEW j \in Spots(wire', Answer(p)), NEW k \in Spots(wire', Note(p))
      PROVE  k < j
  <2>1. k + 1 < j + 1
    BY <1>2, <1>3, <1>8 DEF WireInv
  <2> QED BY <1>6, <2>1
<1>9. ASSUME NEW p \in Ops \ gaveUp, result[p] # "panic"
      PROVE  /\ notes'[p] = got'[p] + Cardinality(Spots(wire', Note(p)))
             /\ call'[p] \in {"answered", "returned"} => Spots(wire', Note(p)) = {}
             /\ \A q \in Ops : <<p, q>> \notin strays'
  <2>1. Delivers(p) /\ Cardinality(Spots(wire, Note(p))) \in Nat /\ got[p] \in Nat
    BY <1>1, <1>9, SpotsFinite DEF WireInv
  <2>2. Answered(p) => Spots(wire', Note(p)) = {}
    BY <1>3, <2>1 DEF Delivers
  <2>3. CASE f.kind = "note"
    <3>1. f = Note(o) /\ HandleNote(o)
      BY <1>2, <2>3 DEF Read, Frames, Note
    <3>2. call' = call
      BY <3>1 DEF HandleNote
    <3>3. CASE p # o
      <4>1. f # Note(p)
        BY <1>2, <3>1, <3>3, FramesDiffer
      <4>2. got'[p] = got[p] /\ \A q \in Ops : <<p, q>> \in strays' => <<p, q>> \in strays
        BY <1>1, <1>2, <3>1, <3>3 DEF HandleNote
      <4> QED BY <1>2, <1>4, <2>1, <2>2, <3>2, <4>1, <4>2 DEF Delivers, Answered
    <3>4. CASE p = o
      <4>1. Spots(wire, Note(p)) # {}
        BY <1>5, <3>1, <3>4
      <4>2. ~Answered(p)
        BY <2>1, <4>1 DEF Delivers
      <4>3. call[p] # "idle"
        <5>1. pc[p] = "none" => notes[p] = 0
          BY DEF GateInv, Early
        <5>2. Cardinality(Spots(wire, Note(p))) # 0
          BY <1>1, <4>1, SpotsFinite, FS_EmptySet
        <5> QED BY <1>1, <2>1, <5>1, <5>2 DEF CallInv, Delivers
      <4>4. p \in ActiveCall(id[p])
        BY <1>1, <4>2, <4>3 DEF ActiveCall, Answered
      <4>5. \A q \in ActiveCall(id[p]) : q = p
        BY <4>4 DEF ActiveCall, CallInv, Active
      <4>6. got' = [got EXCEPT ![p] = @ + 1] /\ strays' = strays
        BY <3>1, <3>4, <4>4, <4>5 DEF HandleNote
      <4>7. got'[p] = got[p] + 1
        BY <1>1, <4>6
      <4> QED BY <1>2, <1>4, <2>1, <3>1, <3>2, <3>4, <4>2, <4>6, <4>7 DEF Delivers, Answered
    <3> QED BY <3>3, <3>4
  <2>4. CASE f.kind = "answer"
    <3>1. f = Answer(o) /\ HandleAnswer(o)
      BY <1>2, <2>4 DEF Read, Frames, Answer
    <3>2. f # Note(p) /\ got' = got /\ strays' = strays
      BY <1>2, <3>1, FramesDiffer DEF HandleAnswer
    <3>3. p # o => call'[p] = call[p]
      BY <1>1, <3>1 DEF HandleAnswer
    <3>4. p = o => Spots(wire', Note(p)) = {}
      <4> SUFFICES ASSUME p = o, NEW k \in Spots(wire', Note(p)) PROVE FALSE
        OBVIOUS
      <4>1. 1 \in Spots(wire, Answer(p)) /\ k + 1 \in Spots(wire, Note(p))
        BY <1>3, <1>5, <3>1
      <4>2. k + 1 < 1
        BY <1>9, <4>1 DEF WireInv
      <4> QED BY <1>6, <4>2
    <3> QED BY <1>2, <1>4, <2>1, <2>2, <3>2, <3>3, <3>4 DEF Delivers, Answered
  <2> QED BY <1>2, <2>3, <2>4 DEF Frames
<1>10. \A p \in Ops \ gaveUp' : result'[p] # "panic" => Delivers(p)'
  BY <1>2, <1>9 DEF Delivers, Answered, Note
<1> QED BY <1>2, <1>7, <1>8, <1>10, SpotsNext DEF WireInv

LEMMA WireKept ==
  TypeInv /\ RemovedInv /\ GateInv /\ CallInv /\ WireInv /\ [ExchangeNext]_allVars
    => WireInv'
<1> SUFFICES ASSUME TypeInv, RemovedInv, GateInv, CallInv, WireInv, [ExchangeNext]_allVars
             PROVE  WireInv'
  OBVIOUS
<1> USE DEF Moves
<1>t. /\ call \in [Ops -> {"idle", "out", "answered", "returned"}]
      /\ pc \in [Ops -> States] /\ result \in [Ops -> Outcomes]
      /\ \A o \in Ops : pc[o] \in Undecided => result[o] = "none"
  BY DEF TypeInv, RemovedInv
<1>1. ASSUME NEW r \in Regs, Register(r) \/ CloseRegistration(r) \/ CloserStep(r),
             UNCHANGED consumerVars
      PROVE WireInv'
  <2>1. WireStays
    BY <1>1 DEF Register, CloseRegistration, CloserStep, StopNext, StopGate, WireStays,
       Answered, opVars, gates, consumerVars
  <2> QED BY <2>1, WireSame
<1>2. ASSUME NEW o \in Ops, HandleStep(o) \/ ServiceReturns(o), UNCHANGED consumerVars
      PROVE WireInv'
  <2>1. /\ pc[o] \notin {"none", "ended"}
        /\ \E to \in States : pc' = [pc EXCEPT ![o] = to]
        /\ UNCHANGED <<wire, notes, got, strays, call, gaveUp>>
    BY <1>2 DEF HandleStep, Lookup, Admit, Check, Start, EndNotes, Decide, Release,
       ServiceReturns, States, gates, consumerVars
  <2>2. \/ result' = result
        \/ pc[o] \in Undecided /\ \A p \in Ops \ {o} : result'[p] = result[p]
    BY <1>2, <1>t DEF HandleStep, Lookup, Admit, Check, Start, EndNotes, Decide, Release,
       ServiceReturns, Results, Undecided
  <2>3. \A p \in Ops : result[p] = "panic" => result'[p] = "panic"
    BY <1>t, <2>2
  <2>4. \A p \in Ops : pc[p] = "ended" => pc'[p] = "ended"
    BY <1>t, <2>1
  <2> QED BY <2>1, <2>3, <2>4, WireSame DEF WireStays, Answered
<1>3. ASSUME NEW o \in Ops, QueueAnswer(o), UNCHANGED consumerVars PROVE WireInv'
  <2>1. CASE wire' = Append(wire, Answer(o))
    BY <1>3, <2>1, WireAnswer
  <2>2. CASE UNCHANGED wire
    <3>1. /\ pc' = [pc EXCEPT ![o] = "ended"]
          /\ UNCHANGED <<result, notes, got, strays, call, gaveUp>>
      BY <1>3 DEF QueueAnswer, gates, consumerVars
    <3>2. \A p \in Ops : pc[p] = "ended" => pc'[p] = "ended"
      BY <1>t, <3>1
    <3> QED BY <2>2, <3>1, <3>2, WireSame DEF WireStays, Answered
  <2> QED BY <1>3, <2>1, <2>2 DEF QueueAnswer
<1>4. ASSUME NEW o \in Ops,
             WatchStep(o) \/ Notify(o) \/ DropNote(o) \/ CancelOuter(o),
             UNCHANGED consumerVars
      PROVE WireInv'
  <2>1. WireStays
    BY <1>4 DEF WatchStep, Watch, WatchGate, Notify, DropNote, CancelOuter, WireStays,
       Answered, opVars, gates, consumerVars
  <2> QED BY <2>1, WireSame
<1>5. ASSUME NEW o \in Ops, QueueNote(o), UNCHANGED consumerVars PROVE WireInv'
  BY <1>5, WireNote
<1>6. ASSUME NEW o \in Ops, NEW i \in Ids, BeginCall(o, i) PROVE WireInv'
  <2>1. /\ call[o] = "idle" /\ call' = [call EXCEPT ![o] = "out"]
        /\ pc[o] = "none" /\ pc' = [pc EXCEPT ![o] = "lookup"]
        /\ UNCHANGED <<wire, result, notes, got, strays, gaveUp>>
    BY <1>6 DEF BeginCall, Arrives, gates
  <2>2. \A p \in Ops : /\ pc[p] = "ended" => pc'[p] = "ended"
                       /\ Answered(p)' => Answered(p)
    BY <1>t, <2>1 DEF Answered
  <2> QED BY <2>1, <2>2, WireSame DEF WireStays
<1>7. ASSUME NEW o \in Ops, GiveUp(o) \/ ReturnCall(o) PROVE WireInv'
  <2>1. /\ call' = [call EXCEPT ![o] = "returned"]
        /\ \/ gaveUp' = gaveUp \cup {o}
           \/ call[o] = "answered" /\ gaveUp' = gaveUp
        /\ UNCHANGED <<wire, pc, result, notes, got, strays>>
    BY <1>7 DEF GiveUp, ReturnCall, vars, opVars, gates
  <2>2. \A p \in Ops : Answered(p)' /\ p \notin gaveUp' => Answered(p)
    BY <1>t, <2>1 DEF Answered
  <2> QED BY <2>1, <2>2, WireSame DEF WireStays
<1>8. CASE Read
  BY <1>8, WireRead
<1>9. CASE (CloseInput /\ UNCHANGED consumerVars) \/ UNCHANGED allVars
  <2>1. WireStays
    BY <1>9 DEF CloseInput, WireStays, Answered, opVars, gates, consumerVars, vars, allVars
  <2> QED BY <2>1, WireSame
<1> QED
  BY <1>1, <1>2, <1>3, <1>4, <1>5, <1>6, <1>7, <1>8, <1>9 DEF ExchangeNext, Provider, Over

LEMMA NoteStep ==
  TypeInv /\ RemovedInv /\ NoteInv /\ [ExchangeNext]_allVars => NoteInv'
BY GateKept, CallKept, WireKept DEF NoteInv

(***************************************************************************)
(* The invariant, and what follows from it.                                *)
(***************************************************************************)
IInv == TypeInv /\ SlotInv /\ RegistryInv /\ RemovedInv /\ NoteInv

LEMMA InitIInv == ExchangeInit => IInv
<1> SUFFICES ASSUME ExchangeInit PROVE IInv
  OBVIOUS
<1> USE DEF ExchangeInit, Init
<1>1. TypeInv
  <2>1. wire \in Seq(Frames) /\ Len(wire) <= Cap
    BY BoundsAssumption
  <2>2. /\ pc \in [Ops -> States] /\ cause \in [Ops -> Causes]
        /\ result \in [Ops -> Outcomes]
    BY DEF States, Causes, Outcomes
  <2>3. /\ closer \in [Regs -> {"none", "pick", "returned"} \cup Ops]
        /\ toStop \in [Regs -> SUBSET Ops]
        /\ id \in [Ops -> Ids \cup {None}] /\ regOf \in [Ops -> Regs \cup {0}]
    OBVIOUS
  <2>4. /\ notes \in [Ops -> Nat] /\ got \in [Ops -> Nat]
        /\ call \in [Ops -> {"idle", "out", "answered", "returned"}]
    OBVIOUS
  <2>5. /\ {registered, closing} \subseteq Regs \cup {0} /\ active \in Int
        /\ maxActive \in Limits
    OBVIOUS
  <2>6. inputClosed \in BOOLEAN
    OBVIOUS
  <2>7. /\ closed = {} /\ idle = {} /\ operations = {} /\ outer = {} /\ done = {}
        /\ holding = {} /\ removed = {} /\ gaveUp = {} /\ watch = {} /\ strays = {}
    OBVIOUS
  <2> HIDE DEF ExchangeInit, Init
  <2> QED BY <2>1, <2>2, <2>3, <2>4, <2>5, <2>6, <2>7 DEF TypeInv
<1>2. SlotInv
  BY FS_EmptySet, BoundsAssumption DEF SlotInv, InSlot
<1>3. RegistryInv
  <2>1. closed = 1..0
    OBVIOUS
  <2> QED BY <2>1 DEF RegistryInv
<1>4. RemovedInv
  BY NamesAssumption DEF RemovedInv, Cancelled
<1>5. NoteInv
  <2>1. /\ holding = {} /\ strays = {}
        /\ \A o \in Ops : /\ pc[o] = "none" /\ call[o] = "idle"
                         /\ notes[o] = 0 /\ got[o] = 0
    OBVIOUS
  <2>2. \A f : Spots(wire, f) = {}
    BY DEF Spots
  <2>3. Cardinality({}) = 0
    BY FS_EmptySet
  <2> HIDE DEF ExchangeInit, Init
  <2>4. GateInv /\ CallInv
    BY <2>1 DEF GateInv, CallInv, Active, Answered, Early
  <2>5. \A o \in Ops : Delivers(o)
    BY <2>1, <2>2, <2>3 DEF Delivers, Answered
  <2> QED BY <2>2, <2>4, <2>5 DEF NoteInv, WireInv
<1> QED BY <1>1, <1>2, <1>3, <1>4, <1>5 DEF IInv

\* Every state of an exchange satisfies the invariant, whatever a service or
\* the consumer does and however often the server ID is registered.
THEOREM Inductive == Exchange => []IInv
<1>1. ExchangeInit => IInv
  BY InitIInv
<1>2. IInv /\ [ExchangeNext]_allVars => IInv'
  BY TypeStep, SlotKept, RegistryKept, RemovedKept, NoteStep DEF IInv
<1> QED BY <1>1, <1>2, PTL DEF Exchange

\* active counts exactly the operations whose service may still run, within
\* the limit, and no registration runs two operations of one request ID
\* (Binding.admit and the deferred release of Handle).
THEOREM SlotAccounting == Exchange => []SlotsAreExact
<1>1. IInv => SlotsAreExact
  BY DEF IInv, SlotInv, SlotsAreExact, InSlot
<1> QED BY <1>1, Inductive, PTL

\* A registration whose Wait returned is closed and has no operation left, all
\* operations are of one registration, and an operation Close stopped sends
\* nothing and answers no result (Registration.Close, operationGate).
THEOREM RemovalStops == Exchange => []RemovalIsFinal
<1>1. ASSUME RegistryInv PROVE \A o, p \in operations : regOf[o] = regOf[p]
  BY <1>1 DEF RegistryInv
<1>2. IInv => RemovalIsFinal
  BY <1>1 DEF IInv, RegistryInv, RemovedInv, RemovalIsFinal
<1> QED BY <1>2, Inductive, PTL

\* A call that returns with its answer had every notification its operation
\* queued, and none of them reached another call, although notifications name
\* only the request ID, which calls use again (Handle revokes the rights to
\* notify before it answers; Call keeps its key until it returns).
THEOREM NotesDelivered == Exchange => []NotesReachTheirCall
<1>1. IInv => NotesReachTheirCall
  <2> SUFFICES ASSUME IInv, NEW o \in Ops \ gaveUp, result[o] # "panic"
               PROVE  /\ Answered(o) => got[o] = notes[o]
                      /\ \A p \in Ops : <<o, p>> \notin strays
    BY DEF NotesReachTheirCall, Answered
  <2>1. Delivers(o) /\ got[o] \in Nat
    BY DEF IInv, NoteInv, WireInv, TypeInv
  <2>2. Cardinality({}) = 0
    BY FS_EmptySet
  <2> QED BY <2>1, <2>2 DEF Delivers
<1> QED BY <1>1, Inductive, PTL
===============================================================================
