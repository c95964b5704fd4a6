---------------------------- MODULE ConnCallsProofs ----------------------------
(***************************************************************************)
(* What holds of a connection's calls for every set of calls, every queue  *)
(* length and however often the peer answers: a call is settled once, and  *)
(* the read loop never waits to settle one.                                *)
(***************************************************************************)
EXTENDS ConnCalls, SequenceTheorems, TLAPS

(***************************************************************************)
(* Types.                                                                  *)
(***************************************************************************)
\* A call that moves on is where a call can be.
LEMMA MovesType ==
  ASSUME pc \in [Calls -> PCs], NEW c \in Calls, NEW from, NEW to \in PCs,
         Moves(c, from, to)
  PROVE  pc' \in [Calls -> PCs]
BY DEF Moves

\* A call that returns does so with a result there is.
LEMMA ReturnsType ==
  ASSUME pc \in [Calls -> PCs], ret \in [Calls -> {"none", "answer", "ctx", "error"}],
         NEW c \in Calls, NEW from, NEW r \in {"answer", "ctx", "error"},
         Returns(c, from, r)
  PROVE  pc' \in [Calls -> PCs] /\ ret' \in [Calls -> {"none", "answer", "ctx", "error"}]
<1>1. "returned" \in PCs
  BY DEF PCs
<1>2. pc' \in [Calls -> PCs]
  BY <1>1, MovesType DEF Returns
<1> QED BY <1>2 DEF Returns

\* A frame that is queued while there is room.
LEMMA QueueType ==
  ASSUME writes \in Seq(Frames), Len(writes) < Cap, Cap \in Nat, NEW f \in Frames
  PROVE  Append(writes, f) \in Seq(Frames) /\ Len(Append(writes, f)) <= Cap
OBVIOUS

LEMMA AnyCallType == AnyCall \in Calls
BY CallsAssumption DEF AnyCall

LEMMA TypeStep == TypeOK /\ [Next]_vars => TypeOK'
<1> SUFFICES ASSUME TypeOK, [Next]_vars PROVE TypeOK'
  OBVIOUS
<1> USE BoundsAssumption
    DEF TypeOK, PCs, vars, callVars, tableVars, outVars, peerVars, readVars,
        endVars,
        Moves, Returns, Stop, Settle
<1> DEFINE CallTypes == /\ pc \in [Calls -> PCs]
                        /\ ret \in [Calls -> {"none", "answer", "ctx", "error"}]
<1>p. {"queue", "failed", "abandon", "settle", "cancelAbort"} \subseteq PCs
  OBVIOUS
<1>1. ASSUME NEW c \in Calls, EndCtx(c) PROVE TypeOK'
  BY <1>1 DEF EndCtx
<1>2. ASSUME NEW c \in Calls, BeginCall(c) PROVE TypeOK'
  <2> HIDE DEF Moves, Returns, PCs
  <2>1. CallTypes'
    BY <1>2, MovesType, ReturnsType, <1>p DEF BeginCall
  <2> QED BY <1>2, <2>1 DEF BeginCall
<1>3. ASSUME NEW c \in Calls, QueueRefuses(c) \/ QueueAdmits(c) PROVE TypeOK'
  <2>1. pc' \in [Calls -> PCs]
    BY <1>3, MovesType DEF QueueRefuses, QueueAdmits
  <2> QED BY <1>3, <2>1 DEF QueueRefuses, QueueAdmits
<1>4. ASSUME NEW c \in Calls, Enqueue(c) PROVE TypeOK'
  BY <1>4 DEF Enqueue, Request, Frames
<1>5. ASSUME NEW c \in Calls, EnqueueGivesUp(c) \/ AwaitWrite(c) PROVE TypeOK'
  <2>1. pc' \in [Calls -> PCs]
    BY <1>5, MovesType DEF EnqueueGivesUp, AwaitWrite
  <2> QED BY <1>5, <2>1 DEF EnqueueGivesUp, AwaitWrite
<1>6. ASSUME NEW c \in Calls, GraceExpires(c) PROVE TypeOK'
  BY <1>6 DEF GraceExpires
<1>7. ASSUME NEW c \in Calls, AbortWrite(c) \/ WriteFailed(c) PROVE TypeOK'
  <2> HIDE DEF Moves, Returns, PCs
  <2>1. CallTypes'
    BY <1>7, MovesType, ReturnsType, <1>p DEF AbortWrite, WriteFailed
  <2>2. reply' \in [Calls -> {"none", "settled"}]
    BY <1>7 DEF AbortWrite, WriteFailed
  <2> QED BY <1>7, <2>1, <2>2 DEF AbortWrite, WriteFailed
<1>8. ASSUME NEW c \in Calls, Abandon(c) PROVE TypeOK'
  <2> HIDE DEF Moves, Returns, PCs
  <2>1. CallTypes'
    BY <1>8, MovesType, ReturnsType, <1>p DEF Abandon
  <2> QED BY <1>8, <2>1 DEF Abandon
<1>9. ASSUME NEW c \in Calls, AbandonSettles(c) PROVE TypeOK'
  BY <1>9 DEF AbandonSettles
<1>10. ASSUME NEW c \in Calls, Forget(c) \/ ReceiveReply(c) PROVE TypeOK'
  <2> HIDE DEF Moves, Returns, PCs
  <2>1. CallTypes'
    BY <1>10, MovesType, ReturnsType, <1>p DEF Forget, ReceiveReply
  <2>2. CASE Forget(c)
    BY <2>1, <2>2 DEF Forget
  <2>3. CASE ReceiveReply(c)
    BY <2>1, <2>3 DEF ReceiveReply
  <2> QED BY <1>10, <2>2, <2>3
<1>11. ASSUME NEW c \in Calls, CallerGivesUp(c) PROVE TypeOK'
  BY <1>11 DEF CallerGivesUp
<1>12. ASSUME NEW c \in Calls, SendCancel(c) PROVE TypeOK'
  <2>1. Cancel(c) \in Frames
    BY DEF Cancel, Frames
  <2>2. writes' \in Seq(Frames) /\ Len(writes') <= Cap
    <3>1. \/ writes' = writes
          \/ Len(writes) < Cap /\ writes' = Append(writes, Cancel(c))
      BY <1>12 DEF SendCancel
    <3> QED BY <2>1, <3>1, QueueType
  <2>3. pc' \in [Calls -> PCs]
    BY <1>12, MovesType DEF SendCancel
  <2>4. ret' \in [Calls -> {"none", "answer", "ctx", "error"}]
    BY <1>12 DEF SendCancel
  <2> QED BY <1>12, <2>2, <2>3, <2>4 DEF SendCancel
<1>13. ASSUME NEW c \in Calls, CancelWaits(c) \/ CancelAborts(c) PROVE TypeOK'
  <2> HIDE DEF Moves, Returns, PCs
  <2>1. CallTypes'
    BY <1>13, MovesType, ReturnsType, <1>p DEF CancelWaits, CancelAborts
  <2> QED BY <1>13, <2>1 DEF CancelWaits, CancelAborts
<1>14. ASSUME NEW c \in Calls, CallStopped(c) PROVE TypeOK'
  BY <1>14 DEF CallStopped
<1>15. ASSUME NEW c \in Calls, PeerAnswers(c) PROVE TypeOK'
  <2>1. answers' = [answers EXCEPT ![c] = @ + 1] /\ inbox' = Append(inbox, c)
    BY <1>15 DEF PeerAnswers
  <2>2. answers' \in [Calls -> Nat] /\ inbox' \in Seq(Calls)
    BY <2>1
  <2> QED BY <1>15, <2>2 DEF PeerAnswers
<1>16. CASE TakeFrame
  BY <1>16 DEF TakeFrame
<1>17. CASE PeerReads
  BY <1>17 DEF PeerReads
<1>18. CASE WriteReported \/ WriteFails \/ WriterStops
  <2>1. CASE WriteReported
    BY <2>1 DEF WriteReported
  <2>2. CASE WriteFails
    BY <2>2 DEF WriteFails
  <2>3. CASE WriterStops
    BY <2>3 DEF WriterStops
  <2> QED BY <1>18, <2>1, <2>2, <2>3
<1>19. CASE PeerCloses \/ ReadEOF \/ FlushEnds \/ ReadFails
  <2>1. CASE PeerCloses
    BY <2>1 DEF PeerCloses
  <2>2. CASE ReadEOF
    BY <2>2 DEF ReadEOF
  <2>3. CASE FlushEnds \/ ReadFails
    BY <2>3 DEF FlushEnds, ReadFails
  <2> QED BY <1>19, <2>1, <2>2, <2>3
<1>20. CASE ReadResponse
  <2>1. inbox' \in Seq(Calls) /\ rcall' \in Calls /\ rpc' \in {rpc, "settle"}
        /\ pending' \subseteq pending
    BY <1>20 DEF ReadResponse
  <2> QED BY <1>20, <2>1 DEF ReadResponse
<1>21. CASE ReaderSettles
  BY <1>21, AnyCallType DEF ReaderSettles
<1>22. CASE BeginShutdown \/ Close
  <2>1. CASE BeginShutdown
    BY <2>1 DEF BeginShutdown
  <2>2. CASE Close
    BY <2>2 DEF Close
  <2> QED BY <1>22, <2>1, <2>2
<1>23. CASE UNCHANGED vars
  BY <1>23
<1>24. ASSUME NEW c \in Calls, CallStep(c) PROVE TypeOK'
  <2> HIDE DEF TypeOK, Moves, Returns, Stop, Settle
  <2> QED
    BY <1>24, <1>3, <1>4, <1>5, <1>6, <1>7, <1>8, <1>9, <1>10, <1>11, <1>12, <1>13,
       <1>14, Zenon DEF CallStep
<1> HIDE DEF TypeOK, Moves, Returns, Stop, Settle, vars
<1> QED
  BY <1>1, <1>2, <1>15, <1>16, <1>17, <1>18, <1>19, <1>20, <1>21, <1>22, <1>23, <1>24,
     Zenon DEF Next, ReaderStep, Terminated

(***************************************************************************)
(* Once.  A call has at most one of: its entry in pending, a goroutine     *)
(* about to settle it, and a settlement.                                   *)
(***************************************************************************)
ReaderHas(c) == rpc = "settle" /\ rcall = c

OnceInv ==
  \A c \in Calls :
    /\ settled[c] \in {0, 1}
    /\ c \in pending \/ pc[c] = "settle" \/ ReaderHas(c) => settled[c] = 0
    /\ c \in pending => pc[c] # "settle" /\ ~ReaderHas(c)
    /\ ~(pc[c] = "settle" /\ ReaderHas(c))
    /\ pc[c] = "idle" => settled[c] = 0 /\ c \notin pending /\ ~ReaderHas(c)
    /\ reply[c] # "none" => settled[c] = 1

LEMMA OnceKept == TypeOK /\ OnceInv /\ [Next]_vars => OnceInv'
<1> SUFFICES ASSUME TypeOK, OnceInv, [Next]_vars PROVE OnceInv'
  OBVIOUS
<1> DEFINE Types == /\ pc \in [Calls -> PCs] /\ settled \in [Calls -> Nat]
                    /\ reply \in [Calls -> {"none", "settled"}]
                    /\ pending \subseteq Calls /\ rcall \in Calls
<1>t. Types
  BY DEF TypeOK
<1> USE <1>t DEF OnceInv, ReaderHas, Moves, Returns, Settle
<1> HIDE DEF PCs
<1>1. ASSUME NEW c \in Calls, BeginCall(c) PROVE OnceInv'
  BY <1>1 DEF BeginCall, tableVars, readVars
<1>2. ASSUME NEW c \in Calls, Abandon(c) PROVE OnceInv'
  BY <1>2 DEF Abandon, readVars
<1>3. ASSUME NEW c \in Calls, AbandonSettles(c) PROVE OnceInv'
  BY <1>3 DEF AbandonSettles, readVars
<1>4. ASSUME NEW c \in Calls, WriteFailed(c) \/ Forget(c) \/ ReceiveReply(c)
      PROVE OnceInv'
  BY <1>4 DEF WriteFailed, Forget, ReceiveReply, readVars
<1>5. ASSUME NEW c \in Calls, CallerGivesUp(c) \/ CallStopped(c) PROVE OnceInv'
  BY <1>5 DEF CallerGivesUp, CallStopped, readVars
<1>6. ASSUME NEW c \in Calls,
             \/ QueueRefuses(c) \/ QueueAdmits(c) \/ Enqueue(c) \/ EnqueueGivesUp(c)
             \/ AwaitWrite(c) \/ GraceExpires(c) \/ AbortWrite(c)
             \/ SendCancel(c) \/ CancelWaits(c) \/ CancelAborts(c)
      PROVE OnceInv'
  <2>1. /\ UNCHANGED <<pending, settled, reply, readVars>>
        /\ \E to \in PCs \ {"idle", "settle"} : pc' = [pc EXCEPT ![c] = to]
    BY <1>6 DEF QueueRefuses, QueueAdmits, Enqueue, EnqueueGivesUp, AwaitWrite,
       GraceExpires, AbortWrite, SendCancel, CancelWaits, CancelAborts, tableVars,
       PCs
  <2> QED BY <2>1 DEF readVars
<1>7. CASE ReadResponse
  <2>1. UNCHANGED <<pc, settled, reply>>
    BY <1>7 DEF ReadResponse, callVars
  <2>2. \/ UNCHANGED <<pending, readVars>>
        \/ /\ Head(inbox) \in pending /\ pending' = pending \ {Head(inbox)}
           /\ rpc' = "settle" /\ rcall' = Head(inbox)
    BY <1>7 DEF ReadResponse
  <2> QED BY <2>1, <2>2 DEF readVars
<1>8. CASE ReaderSettles
  BY <1>8, AnyCallType DEF ReaderSettles, callVars
<1>9. CASE ReadEOF \/ FlushEnds \/ ReadFails
  <2>1. rpc' \in {"done", "flush"} 
        /\ UNCHANGED <<pc, pending, settled, reply, rcall>>
    BY <1>9 DEF ReadEOF, FlushEnds, ReadFails, callVars, tableVars
  <2> QED BY <2>1
<1>10. ASSUME UNCHANGED <<callVars, tableVars, readVars>> PROVE OnceInv'
  BY <1>10 DEF callVars, tableVars, readVars
<1>11. ASSUME NEW c \in Calls, EndCtx(c) \/ PeerAnswers(c) PROVE OnceInv'
  BY <1>10, <1>11 DEF EndCtx, PeerAnswers
<1>12. CASE \/ TakeFrame \/ PeerReads \/ WriteReported \/ WriteFails \/ WriterStops
            \/ PeerCloses \/ BeginShutdown \/ Close \/ UNCHANGED vars
  BY <1>10, <1>12 DEF TakeFrame, PeerReads, WriteReported, WriteFails, WriterStops,
     PeerCloses, BeginShutdown, Close, vars
<1> QED
  BY <1>1, <1>2, <1>3, <1>4, <1>5, <1>6, <1>7, <1>8, <1>9, <1>11, <1>12
  DEF Next, CallStep, ReaderStep, Terminated

(***************************************************************************)
(* Requests that were queued.  Only they are answered.                     *)
(***************************************************************************)
Queued == Range(writes) \cup {hand} \cup Range(wire)

\* Where a call is before its request is queued, or when it never is.
Unqueued == {"idle", "queue", "enqueue", "forget"}

QueuedInv ==
  /\ \A c \in Calls : Request(c) \in Queued => pc[c] \notin Unqueued
  /\ \A c \in Range(inbox) : Request(c) \in Range(wire)
  /\ rpc = "settle" => Request(rcall) \in Range(wire)
  /\ \A f \in Frames : sent[f] = "err" => Ending

LEMMA RangeAppend ==
  ASSUME NEW S, NEW s \in Seq(S), NEW x \in S
  PROVE  Range(Append(s, x)) = Range(s) \cup {x}
<1> DEFINE t == Append(s, x)
<1>1. DOMAIN s = 1..Len(s) /\ DOMAIN t = 1..Len(s) + 1 /\ Len(s) \in Nat
  OBVIOUS
<1>2. \A i \in 1..Len(s) : t[i] = s[i] /\ i \in 1..Len(s) + 1
  OBVIOUS
<1>3. t[Len(s) + 1] = x /\ Len(s) + 1 \in 1..Len(s) + 1
  OBVIOUS
<1>4. \A i \in 1..Len(s) + 1 : i \in 1..Len(s) \/ i = Len(s) + 1
  OBVIOUS
<1> HIDE DEF t
<1> QED BY <1>1, <1>2, <1>3, <1>4 DEF Range

LEMMA RangeHead ==
  ASSUME NEW S, NEW s \in Seq(S), s # <<>>
  PROVE  /\ Head(s) \in S /\ Tail(s) \in Seq(S)
         /\ Range(s) = {Head(s)} \cup Range(Tail(s))
<1>1. Head(s) = s[1] /\ 1 \in 1..Len(s) /\ Head(s) \in S /\ Tail(s) \in Seq(S)
  OBVIOUS
<1>2. ASSUME NEW i \in 1..Len(s), i # 1 PROVE s[i] \in Range(Tail(s))
  <2>1. i - 1 \in 1..Len(Tail(s)) /\ Tail(s)[i - 1] = s[i]
    BY <1>2
  <2>2. DOMAIN Tail(s) = 1..Len(Tail(s))
    OBVIOUS
  <2> QED BY <2>1, <2>2 DEF Range
<1>3. ASSUME NEW i \in 1..Len(Tail(s))
      PROVE Tail(s)[i] = s[i + 1] /\ i + 1 \in 1..Len(s)
  BY <1>3
<1>4. DOMAIN s = 1..Len(s) /\ DOMAIN Tail(s) = 1..Len(Tail(s))
  OBVIOUS
<1>5. Range(s) \subseteq {Head(s)} \cup Range(Tail(s))
  BY <1>1, <1>2, <1>4 DEF Range
<1>6. Range(Tail(s)) \subseteq Range(s) /\ Head(s) \in Range(s)
  BY <1>1, <1>3, <1>4 DEF Range
<1> QED BY <1>1, <1>5, <1>6

LEMMA FramesDiffer ==
  ASSUME NEW c \in Calls, NEW d \in Calls
  PROVE  /\ Request(c) \in Frames /\ Cancel(c) \in Frames
         /\ Request(c) # NoFrame /\ Request(c) # Cancel(d)
         /\ Request(c) = Request(d) => c = d
BY DEF Request, Cancel, Frames, NoFrame

LEMMA QueuedKept == TypeOK /\ QueuedInv /\ [Next]_vars => QueuedInv'
<1> SUFFICES ASSUME TypeOK, QueuedInv, [Next]_vars PROVE QueuedInv'
  OBVIOUS
<1> USE DEF QueuedInv, Queued, Unqueued, Stopped, Ending
<1>a. ASSUME NEW to \in PCs, NEW c \in Calls, NEW from, Moves(c, from, to),
             to \notin Unqueued \/ from \in {"idle", "queue"},
             UNCHANGED <<outVars, inbox, readVars>>, failure' = failure \/ Stopped'
      PROVE  QueuedInv'
  <2>1. pc \in [Calls -> PCs]
    BY DEF TypeOK
  <2> QED BY <1>a, <2>1 DEF Moves, outVars, readVars
<1>b. ASSUME UNCHANGED <<callVars, outVars, inbox, readVars>>,
      failure' = failure \/ Stopped'
      PROVE  QueuedInv'
  BY <1>b DEF callVars, outVars, readVars
<1>1. ASSUME NEW c \in Calls, EndCtx(c) PROVE QueuedInv'
  BY <1>1, <1>b DEF EndCtx, peerVars, endVars
<1>2. ASSUME NEW c \in Calls,
             BeginCall(c) \/ QueueRefuses(c) \/ QueueAdmits(c) \/ EnqueueGivesUp(c)
               \/ AwaitWrite(c) \/ GraceExpires(c)
      PROVE  QueuedInv'
  BY <1>2, <1>a DEF BeginCall, QueueRefuses, QueueAdmits, EnqueueGivesUp,
     AwaitWrite,
     GraceExpires, Returns, peerVars, endVars, PCs
<1>3. ASSUME NEW c \in Calls, Enqueue(c) PROVE QueuedInv'
  <2>1. Range(writes') = Range(writes) \cup {Request(c)}
    BY <1>3, RangeAppend, FramesDiffer DEF Enqueue, TypeOK
  <2>2. /\ pc' = [pc EXCEPT ![c] = "await"]
        /\ UNCHANGED <<wpc, hand, wire, inbox, readVars, sent, failure>>
    BY <1>3 DEF Enqueue, Moves, peerVars, endVars
  <2>3. pc \in [Calls -> PCs]
    BY DEF TypeOK
  <2> QED BY <2>1, <2>2, <2>3, FramesDiffer DEF readVars
<1>4. ASSUME NEW c \in Calls,
             AbortWrite(c) \/ WriteFailed(c) \/ Abandon(c) \/ AbandonSettles(c) \/ Forget(c)
               \/ ReceiveReply(c) \/ CallerGivesUp(c) \/ CancelWaits(c) \/ CancelAborts(c)
               \/ CallStopped(c)
      PROVE  QueuedInv'
  <2>1. CASE AbortWrite(c) \/ WriteFailed(c)
    BY <2>1, <1>a DEF AbortWrite, WriteFailed, Returns, Stop, peerVars, endVars, PCs
  <2>2. CASE Abandon(c) \/ AbandonSettles(c) \/ Forget(c)
    BY <2>2, <1>a DEF Abandon, AbandonSettles, Forget, Returns, peerVars, endVars, PCs
  <2>3. CASE ReceiveReply(c) \/ CallerGivesUp(c) \/ CallStopped(c)
    BY <2>3, <1>a DEF ReceiveReply, CallerGivesUp, CallStopped, Returns, peerVars,
       endVars, PCs
  <2>4. CASE CancelWaits(c) \/ CancelAborts(c)
    BY <2>4, <1>a DEF CancelWaits, CancelAborts, Returns, Stop, peerVars, endVars, PCs
  <2> HIDE DEF QueuedInv
  <2> QED BY <1>4, <2>1, <2>2, <2>3, <2>4, Zenon
<1>5. ASSUME NEW c \in Calls, SendCancel(c) PROVE QueuedInv'
  <2>1. writes' = writes \/ Range(writes') = Range(writes) \cup {Cancel(c)}
    <3>1. writes' = writes \/ writes' = Append(writes, Cancel(c))
      BY <1>5 DEF SendCancel
    <3>2. writes \in Seq(Frames) /\ Cancel(c) \in Frames
      BY FramesDiffer DEF TypeOK
    <3>3. Range(Append(writes, Cancel(c))) = Range(writes) \cup {Cancel(c)}
      BY <3>2, RangeAppend
    <3> HIDE DEF QueuedInv
    <3> QED BY <3>1, <3>3, Zenon
  <2>2. /\ pc' \in {[pc EXCEPT ![c] = "cancelled"], [pc EXCEPT ![c] = "returned"]}
        /\ UNCHANGED <<wpc, hand, wire, inbox, readVars, sent, failure>>
    BY <1>5 DEF SendCancel, Moves, Returns, peerVars, endVars
  <2>3. pc \in [Calls -> PCs]
    BY DEF TypeOK
  <2>4. \A d \in Calls : Request(d) \in Queued' => Request(d) \in Queued
    BY <2>1, <2>2, FramesDiffer
  <2>5. pc'[c] \notin Unqueued /\ \A d \in Calls : d # c => pc'[d] = pc[d]
    BY <2>2, <2>3
  <2> QED BY <2>2, <2>4, <2>5 DEF readVars
<1>6. ASSUME NEW c \in Calls, PeerAnswers(c) PROVE QueuedInv'
  <2>1. Range(inbox') = Range(inbox) \cup {c}
    <3>1. inbox' = Append(inbox, c) /\ inbox \in Seq(Calls)
      BY <1>6 DEF PeerAnswers, TypeOK
    <3> QED BY <3>1, RangeAppend
  <2> QED BY <1>6, <2>1 DEF PeerAnswers, callVars, outVars, readVars, endVars
<1>7. CASE TakeFrame
  <2>1. Range(writes) = {hand'} \cup Range(writes') /\ hand = NoFrame
    BY <1>7, RangeHead DEF TakeFrame, TypeOK
  <2>2. Queued \ {NoFrame} \subseteq Queued' /\ Queued' \subseteq Queued
    BY <1>7, <2>1 DEF TakeFrame
  <2>3. UNCHANGED <<pc, inbox, rpc, rcall, wpc, sent, failure>>
    BY <1>7 DEF TakeFrame, callVars, peerVars, readVars, endVars
  <2>4. wire' = wire
    BY <1>7 DEF TakeFrame
  <2>5. \A d \in Calls : Request(d) \in Queued' => Request(d) \in Queued
    BY <2>2
  <2> QED BY <2>3, <2>4, <2>5
<1>8. CASE PeerReads
  <2>1. Range(wire') = Range(wire) \cup {hand}
    BY <1>8, RangeAppend DEF PeerReads, TypeOK
  <2> QED BY <1>8, <2>1 DEF PeerReads, callVars, peerVars, readVars, endVars
<1>9. CASE WriteReported
  BY <1>9, FramesDiffer DEF WriteReported, callVars, peerVars, readVars, endVars
<1>10. CASE WriteFails
  <2>1. /\ Queued' \subseteq Queued \cup {NoFrame} /\ wire' = wire /\ Ending'
        /\ UNCHANGED <<pc, inbox, rpc, rcall>>
    BY <1>10 DEF WriteFails, callVars, peerVars, readVars
  <2> QED BY <2>1, FramesDiffer
<1>11. CASE ReadResponse
  <2>1. Range(inbox) = {Head(inbox)} \cup Range(inbox')
    BY <1>11, RangeHead DEF ReadResponse, TypeOK
  <2> QED BY <1>11, <2>1 DEF ReadResponse, callVars, outVars, readVars, endVars
<1>12. CASE ReaderSettles \/ ReadEOF \/ FlushEnds \/ ReadFails
  BY <1>12 DEF ReaderSettles, ReadEOF, FlushEnds, ReadFails, Stop, callVars,
               outVars,
     peerVars, endVars
<1>13. CASE PeerCloses \/ BeginShutdown \/ Close \/ UNCHANGED vars
  BY <1>13, <1>b DEF PeerCloses, BeginShutdown, Close, Stop, vars, peerVars, endVars
<1>14. CASE WriterStops
  BY <1>14 DEF WriterStops, Stop, callVars, peerVars, readVars
<1> QED
  BY <1>1, <1>2, <1>3, <1>4, <1>5, <1>6, <1>7, <1>8, <1>9, <1>10, <1>11, <1>12,
     <1>13, <1>14
  DEF Next, CallStep, ReaderStep, Terminated

(***************************************************************************)
(* Entries.  What a guard began stays in the table until it is settled;    *)
(* without a guard a caller leaves nothing in it.                          *)
(***************************************************************************)
Left == {"cancel", "cancelled", "cancelAbort", "returned"}

EntryInv ==
  /\ \A c \in Calls : pc[c] = "queue" => c \in pending
  /\ \A c \in begun : pc[c] \notin {"idle", "queue", "forget"}
  /\ BegunIsSettled
  /\ ~guarded => \A c \in Calls : pc[c] \in Left => c \notin pending

LEMMA EntryKept ==
  TypeOK /\ OnceInv /\ QueuedInv /\ EntryInv /\ [Next]_vars => EntryInv'
<1> SUFFICES ASSUME TypeOK, OnceInv, QueuedInv, EntryInv, [Next]_vars
      PROVE EntryInv'
  OBVIOUS
<1>t. /\ pc \in [Calls -> PCs] /\ settled \in [Calls -> Nat]
      /\ pending \subseteq Calls /\ begun \subseteq Calls /\ rcall \in Calls
  BY DEF TypeOK
<1> USE <1>t DEF EntryInv, BegunIsSettled, Left, Moves, Returns, Settle, Stop,
                 Stopped
<1>1. ASSUME NEW c \in Calls, BeginCall(c) PROVE EntryInv'
  BY <1>1 DEF BeginCall, readVars, endVars, OnceInv
<1>2. ASSUME NEW c \in Calls, QueueRefuses(c) PROVE EntryInv'
  BY <1>2 DEF QueueRefuses, tableVars, readVars, endVars
<1>3. ASSUME NEW c \in Calls, QueueAdmits(c) PROVE EntryInv'
  BY <1>3 DEF QueueAdmits, readVars, endVars
<1>4. ASSUME NEW c \in Calls,
             Enqueue(c) \/ EnqueueGivesUp(c) \/ AwaitWrite(c) \/ GraceExpires(c)
               \/ AbortWrite(c)
      PROVE EntryInv'
  <2>1. /\ UNCHANGED <<tableVars, readVars, guarded>> /\ (Stopped => Stopped')
        /\ \E to \in PCs \ (Left \cup {"idle", "queue", "forget"}) :
             pc' = [pc EXCEPT ![c] = to]
        /\ pc[c] # "settle"
    BY <1>4 DEF Enqueue, EnqueueGivesUp, AwaitWrite, GraceExpires, AbortWrite,
                endVars, PCs
  <2> QED BY <2>1 DEF tableVars, readVars
<1>5. ASSUME NEW c \in Calls, WriteFailed(c) PROVE EntryInv'
  BY <1>5 DEF WriteFailed, readVars, endVars, OnceInv
<1>6. ASSUME NEW c \in Calls, Abandon(c) PROVE EntryInv'
  BY <1>6 DEF Abandon, readVars, endVars
<1>7. ASSUME NEW c \in Calls, AbandonSettles(c) PROVE EntryInv'
  BY <1>7 DEF AbandonSettles, readVars, endVars, OnceInv
<1>8. ASSUME NEW c \in Calls, Forget(c) \/ CallStopped(c) PROVE EntryInv'
  BY <1>8 DEF Forget, CallStopped, readVars, endVars
<1>9. ASSUME NEW c \in Calls, ReceiveReply(c) PROVE EntryInv'
  BY <1>9 DEF ReceiveReply, readVars, endVars, OnceInv
<1>10. ASSUME NEW c \in Calls, CallerGivesUp(c) PROVE EntryInv'
  BY <1>10 DEF CallerGivesUp, readVars, endVars
<1>11. ASSUME NEW c \in Calls, SendCancel(c) \/ CancelWaits(c) \/ CancelAborts(c)
      PROVE EntryInv'
  <2>1. /\ UNCHANGED <<tableVars, readVars, guarded>> /\ (Stopped => Stopped')
        /\ \E to \in Left : pc' = [pc EXCEPT ![c] = to]
        /\ pc[c] \in Left
    BY <1>11 DEF SendCancel, CancelWaits, CancelAborts, endVars
  <2> QED BY <2>1 DEF tableVars, readVars
<1>12. CASE ReadResponse
  <2>1. UNCHANGED <<pc, begun, settled, guarded, failure>>
    BY <1>12 DEF ReadResponse, callVars, endVars
  <2>2. CASE UNCHANGED <<pending, readVars>>
    BY <2>1, <2>2 DEF readVars
  <2>3. CASE ~UNCHANGED <<pending, readVars>>
    <3> DEFINE d == Head(inbox)
    <3>1. d \in pending /\ pending' = pending \ {d} /\ rpc' = "settle" /\ rcall' = d
          /\ inbox # <<>> /\ rpc = "read"
      BY <1>12, <2>3 DEF ReadResponse
    <3>2. d \in Range(inbox)
      BY <3>1, RangeHead DEF TypeOK
    <3>3. pc[d] # "queue"
      BY <3>1, <3>2 DEF QueuedInv, Queued, Unqueued
    <3> QED BY <2>1, <3>1, <3>3
  <2> QED BY <2>2, <2>3
<1>13. CASE ReaderSettles
  BY <1>13, AnyCallType DEF ReaderSettles, callVars, endVars, OnceInv, ReaderHas
<1>14. CASE ReadEOF \/ FlushEnds \/ ReadFails
  <2>1. /\ UNCHANGED <<pc, tableVars, guarded>>
        /\ rpc # "settle" /\ (Stopped => Stopped')
    BY <1>14 DEF ReadEOF, FlushEnds, ReadFails, callVars
  <2> QED BY <2>1 DEF tableVars
<1>15. ASSUME UNCHANGED <<callVars, tableVars, readVars, guarded>>,
              Stopped => Stopped'
       PROVE EntryInv'
  BY <1>15 DEF callVars, tableVars, readVars
<1>16. ASSUME NEW c \in Calls, EndCtx(c) \/ PeerAnswers(c) PROVE EntryInv'
  BY <1>15, <1>16 DEF EndCtx, PeerAnswers, endVars
<1>17. CASE \/ TakeFrame \/ PeerReads \/ WriteReported \/ WriteFails \/ WriterStops
            \/ PeerCloses \/ BeginShutdown \/ Close \/ UNCHANGED vars
  BY <1>15, <1>17 DEF TakeFrame, PeerReads, WriteReported, WriteFails, WriterStops,
     PeerCloses, BeginShutdown, Close, vars, endVars
<1> QED
  BY <1>1, <1>2, <1>3, <1>4, <1>5, <1>6, <1>7, <1>8, <1>9, <1>10, <1>11, <1>12,
     <1>13, <1>14, <1>16, <1>17
  DEF Next, CallStep, ReaderStep, Terminated

(***************************************************************************)
(* Answers.  What the read loop settled before the end is in the reply     *)
(* channel until the caller takes it, and the caller, unless its context   *)
(* ends, does.                                                             *)
(***************************************************************************)
\* A call that failed though its context lives, while the connection does.
Unsent(c) ==
  ~Ended(c) /\ ~Ending /\ (pc[c] \in {"abandon", "settle"} \/ ret[c] = "error")

AnswerInv ==
  \A c \in Calls :
    /\ pc[c] # "returned" => ret[c] = "none"
    /\ pc[c] = "returned" => ret[c] # "none"
    /\ pc[c] \in {"grace", "abort"} \cup (Left \ {"returned"}) \/ ret[c] = "ctx"
       => Ended(c)
    /\ pc[c] = "failed" => Ended(c) \/ Ending
    /\ Unsent(c) => Request(c) \notin Queued
    /\ c \in early /\ ~Ended(c) =>
         \/ reply[c] # "none" /\ pc[c] \in {"await", "failed", "answer"}
         \/ pc[c] = "returned" /\ ret[c] = "answer"

LEMMA AnswerKept ==
  TypeOK /\ OnceInv /\ QueuedInv /\ AnswerInv /\ [Next]_vars => AnswerInv'
<1> SUFFICES ASSUME TypeOK, OnceInv, QueuedInv, AnswerInv, [Next]_vars
      PROVE AnswerInv'
  OBVIOUS
<1>t. /\ pc \in [Calls -> PCs] /\ ctx \in [Calls -> {"live", "ended"}]
      /\ ret \in [Calls -> {"none", "answer", "ctx", "error"}]
      /\ reply \in [Calls -> {"none", "settled"}]
      /\ early \subseteq Calls /\ rcall \in Calls
  BY DEF TypeOK
<1> USE <1>t DEF AnswerInv, Unsent, Left, Ended, Stopped, Ending
<1>q. UNCHANGED outVars => Queued' = Queued /\ wpc' = wpc
  BY DEF outVars, Queued
<1> HIDE DEF Queued
\* Nobody's call moves.
<1>e. ASSUME UNCHANGED <<callVars, reply, early>>, Ending => Ending',
             \A c \in Calls : Ended(c) => Ended(c)',
             \A c \in Calls : Request(c) \in Queued' => Request(c) \in Queued
      PROVE AnswerInv'
  BY <1>e DEF callVars
\* A call moves on.
<1>m. ASSUME NEW c \in Calls, NEW from \in PCs, NEW to \in PCs \ {"returned"},
             Moves(c, from, to), UNCHANGED <<ret, ctx, reply, early>>,
             Ending => Ending',
             to \in {"grace", "abort"} \cup Left => Ended(c),
             to = "failed" => Ended(c) \/ Ending',
             to \in {"abandon", "settle"} /\ ~Ended(c) /\ ~Ending'
               => Request(c) \notin Queued,
             c \in early /\ ~Ended(c) => to \in {"await", "failed", "answer"},
             from # "returned",
             \A d \in Calls : Request(d) \in Queued' =>
               Request(d) \in Queued \/ (d = c /\ to \notin {"abandon", "settle"})
      PROVE AnswerInv'
  BY <1>m DEF Moves
\* A call returns.
<1>r. ASSUME NEW c \in Calls, NEW from \in PCs, 
             NEW r \in {"answer", "ctx", "error"},
             Returns(c, from, r), UNCHANGED <<ctx, outVars>>, Ending => Ending',
             early' = early,
             \A d \in Calls : d # c => reply'[d] = reply[d],
             r = "ctx" => Ended(c),
             r = "error" /\ ~Ended(c) /\ ~Ending' => Request(c) \notin Queued,
             c \in early /\ ~Ended(c) => r = "answer"
      PROVE AnswerInv'
  BY <1>r, <1>q DEF Returns, Moves
<1>1. ASSUME NEW c \in Calls, BeginCall(c) PROVE AnswerInv'
  <2>1. CASE Ended(c) /\ Returns(c, "idle", "ctx")
    BY <1>1, <2>1, <1>q, <1>r DEF BeginCall, endVars, PCs
  <2>2. CASE Moves(c, "idle", "queue") /\ UNCHANGED ret
    BY <1>1, <2>2, <1>q, <1>m DEF BeginCall, Moves, endVars, PCs
  <2> QED BY <1>1, <2>1, <2>2 DEF BeginCall
<1>2. ASSUME NEW c \in Calls, QueueRefuses(c) \/ QueueAdmits(c) PROVE AnswerInv'
  <2>1. pc[c] = "queue" /\ Request(c) \notin Queued
    BY <1>2 DEF QueueRefuses, QueueAdmits, Moves, QueuedInv, Unqueued
  <2> QED
    BY <1>2, <2>1, <1>q, <1>m DEF QueueRefuses, QueueAdmits, Moves, tableVars,
       endVars, PCs
<1>3. ASSUME NEW c \in Calls, Enqueue(c) PROVE AnswerInv'
  <2>1. Queued' = Queued \cup {Request(c)}
    <3>1. Range(writes') = Range(writes) \cup {Request(c)}
      BY <1>3, RangeAppend, FramesDiffer DEF Enqueue, TypeOK
    <3> QED BY <1>3, <3>1 DEF Enqueue, Queued
  <2>2. \A d \in Calls : Request(d) \in Queued' => Request(d) \in Queued \/ d = c
    BY <2>1, FramesDiffer
  <2> QED BY <1>3, <2>2, <1>m DEF Enqueue, Moves, tableVars, endVars, PCs
<1>4. ASSUME NEW c \in Calls, EnqueueGivesUp(c) PROVE AnswerInv'
  BY <1>4, <1>q, <1>m DEF EnqueueGivesUp, Moves, tableVars, endVars, PCs
<1>5. ASSUME NEW c \in Calls, AwaitWrite(c) PROVE AnswerInv'
  <2>1. sent[Request(c)] = "err" => Ending
    BY FramesDiffer DEF QueuedInv
  <2> QED
    BY <1>5, <2>1, <1>q, <1>m DEF AwaitWrite, Moves, tableVars, endVars, PCs
<1>6. ASSUME NEW c \in Calls, GraceExpires(c) \/ AbortWrite(c) PROVE AnswerInv'
  BY <1>6, <1>q, <1>m DEF GraceExpires, AbortWrite, Moves, Stop, tableVars,
     endVars, PCs
<1>7. ASSUME NEW c \in Calls, WriteFailed(c) PROVE AnswerInv'
  <2>1. CASE reply[c] # "none"
    BY <1>7, <2>1, <1>q, <1>r DEF WriteFailed, Returns, Moves, endVars, PCs
  <2>2. CASE reply[c] = "none"
    BY <1>7, <2>2, <1>q, <1>m DEF WriteFailed, Moves, endVars, PCs
  <2> QED BY <2>1, <2>2
<1>8. ASSUME NEW c \in Calls, Abandon(c) PROVE AnswerInv'
  <2>1. CASE c \in pending
    BY <1>8, <2>1, <1>q, <1>m DEF Abandon, Moves, endVars, PCs
  <2>2. CASE c \notin pending
    BY <1>8, <2>2, <1>q, <1>r DEF Abandon, Returns, Moves, endVars, PCs
  <2> QED BY <2>1, <2>2
<1>9. ASSUME NEW c \in Calls, AbandonSettles(c) PROVE AnswerInv'
  BY <1>9, <1>q, <1>r DEF AbandonSettles, Settle, Returns, Moves, endVars, PCs
<1>10. ASSUME NEW c \in Calls, Forget(c) PROVE AnswerInv'
  BY <1>10, <1>q, <1>r DEF Forget, Returns, Moves, endVars, PCs, QueuedInv, Unqueued
<1>11. ASSUME NEW c \in Calls, ReceiveReply(c) \/ CallStopped(c) PROVE AnswerInv'
  BY <1>11, <1>q, <1>r DEF ReceiveReply, CallStopped, Returns, Moves, endVars, PCs
<1>12. ASSUME NEW c \in Calls, CallerGivesUp(c) PROVE AnswerInv'
  BY <1>12, <1>q, <1>m DEF CallerGivesUp, Moves, endVars, PCs
<1>13. ASSUME NEW c \in Calls, CancelWaits(c) \/ CancelAborts(c) PROVE AnswerInv'
  <2>1. CASE CancelWaits(c) /\ Returns(c, "cancelled", "ctx")
    BY <2>1, <1>q, <1>r DEF CancelWaits, Returns, Moves, tableVars, endVars, PCs
  <2>2. CASE CancelWaits(c) /\ Moves(c, "cancelled", "cancelAbort") /\ UNCHANGED ret
    BY <2>2, <1>q, <1>m DEF CancelWaits, Moves, tableVars, endVars, PCs
  <2>3. CASE CancelAborts(c)
    BY <2>3, <1>q, <1>r DEF CancelAborts, Stop, Returns, Moves, tableVars, endVars, PCs
  <2> QED BY <1>13, <2>1, <2>2, <2>3 DEF CancelWaits
<1>14. ASSUME NEW c \in Calls, SendCancel(c) PROVE AnswerInv'
  <2>1. CASE Returns(c, "cancel", "ctx") /\ writes' = writes
    BY <1>14, <2>1, <1>q, <1>r DEF SendCancel, Returns, Moves, tableVars, outVars,
       endVars, PCs
  <2>2. CASE Moves(c, "cancel", "cancelled") /\ writes' = Append(writes, Cancel(c))
    <3>1. Range(writes') = Range(writes) \cup {Cancel(c)}
      BY <2>2, RangeAppend, FramesDiffer DEF TypeOK
    <3>2. \A d \in Calls : Request(d) \in Queued' => Request(d) \in Queued
      BY <1>14, <3>1, FramesDiffer DEF SendCancel, Queued
    <3>3. UNCHANGED <<ret, ctx, reply, early, failure, wpc>>
      BY <1>14, <2>2 DEF SendCancel, Returns, Moves, tableVars, endVars
    <3> QED BY <2>2, <3>2, <3>3, <1>m DEF Moves, PCs
  <2> QED BY <1>14, <2>1, <2>2 DEF SendCancel
<1>15. CASE ReaderSettles
  <2>1. /\ UNCHANGED <<callVars, ctx, wpc, failure>> /\ Queued' = Queued
        /\ reply' = [reply EXCEPT ![rcall] = "settled"]
        /\ early' = IF Ending THEN early ELSE early \cup {rcall}
    BY <1>15, <1>q DEF ReaderSettles, Settle, endVars
  <2>2. Request(rcall) \in Queued /\ pc[rcall] \notin Unqueued
    BY <1>15 DEF ReaderSettles, QueuedInv, Queued
  <2>3. ~Ended(rcall) /\ ~Ending =>
          \/ pc[rcall] \in {"await", "failed", "answer"}
          \/ pc[rcall] = "returned" /\ ret[rcall] = "answer"
    BY <2>2 DEF PCs, Unqueued
  <2> QED BY <2>1, <2>3 DEF callVars
<1>16. CASE TakeFrame
  <2>1. Range(writes) = {hand'} \cup Range(writes')
    BY <1>16, RangeHead DEF TakeFrame, TypeOK
  <2>2. Queued' \subseteq Queued
    BY <1>16, <2>1 DEF TakeFrame, Queued
  <2> QED BY <1>16, <2>2, <1>e DEF TakeFrame, tableVars, endVars
<1>17. CASE PeerReads
  <2>1. Range(wire') = Range(wire) \cup {hand}
    BY <1>17, RangeAppend DEF PeerReads, TypeOK
  <2>2. Queued' = Queued
    BY <1>17, <2>1 DEF PeerReads, Queued
  <2> QED BY <1>17, <2>2, <1>e DEF PeerReads, tableVars, endVars
<1>18. CASE WriteReported \/ WriteFails \/ WriterStops
  <2>1. \A d \in Calls : Request(d) \in Queued' => Request(d) \in Queued
    BY <1>18, FramesDiffer DEF WriteReported, WriteFails, WriterStops, Queued
  <2> QED BY <1>18, <2>1, <1>e
      DEF WriteReported, WriteFails, WriterStops, Stop, tableVars, endVars
<1>19. CASE ReadResponse \/ ReadEOF \/ FlushEnds \/ ReadFails
  BY <1>19, <1>q, <1>e DEF ReadResponse, ReadEOF, FlushEnds, ReadFails, Stop,
     tableVars, endVars
<1>20. ASSUME NEW c \in Calls, EndCtx(c) \/ PeerAnswers(c) PROVE AnswerInv'
  BY <1>20, <1>q, <1>e DEF EndCtx, PeerAnswers, tableVars, endVars
<1>21. CASE PeerCloses \/ BeginShutdown \/ Close \/ UNCHANGED vars
  BY <1>21, <1>q, <1>e DEF PeerCloses, BeginShutdown, Close, Stop, vars, tableVars,
     endVars
<1> QED
  BY <1>1, <1>2, <1>3, <1>4, <1>5, <1>6, <1>7, <1>8, <1>9, <1>10, <1>11, <1>12,
     <1>13, <1>14, <1>15, <1>16, <1>17, <1>18, <1>19, <1>20, <1>21
  DEF Next, CallStep, ReaderStep, Terminated

(***************************************************************************)
(* Hearing.  Until the queue is sealed, and after that if it is the read   *)
(* loop that sealed it at EOF, no answer of the peer is dropped: each is   *)
(* on its way, being settled, or was settled before the end.               *)
(***************************************************************************)
Hearing == failure = "eof" \/ (~Ending /\ (~sealed \/ rpc = "flush"))

\* A request that was queued and has no entry any more was settled in time.
Settled(c) == c \in early \/ ReaderHas(c)

HeardInv ==
  /\ \A c \in Calls : answers[c] > 0 => Request(c) \in Range(wire)
  /\ \A c \in Calls : pc[c] = "enqueue" => c \in pending
  /\ rpc = "flush" \/ failure = "eof" => inbox = <<>> /\ ~peerOpen
  /\ failure = "eof" => rpc = "done"
  /\ ~Ending =>
       \A c \in Calls :
         Request(c) \in Queued /\ ~Ended(c) => c \in pending \/ Settled(c)
  /\ Hearing =>
       \A c \in Calls :
         answers[c] > 0 /\ ~Ended(c) => c \in Range(inbox) \/ Settled(c)

LEMMA HeardKept ==
  TypeOK /\ QueuedInv /\ EntryInv /\ AnswerInv /\ HeardInv /\ [Next]_vars
    => HeardInv'
<1> SUFFICES ASSUME TypeOK, QueuedInv, EntryInv, AnswerInv, HeardInv, [Next]_vars
      PROVE HeardInv'
  OBVIOUS
<1>t. /\ pc \in [Calls -> PCs] /\ ctx \in [Calls -> {"live", "ended"}]
      /\ answers \in [Calls -> Nat] /\ pending \subseteq Calls /\ rcall \in Calls
      /\ inbox \in Seq(Calls) /\ early \subseteq Calls
  BY DEF TypeOK
<1> USE <1>t DEF HeardInv, Hearing, Settled, ReaderHas, Ended, Stopped, Ending
<1>q. UNCHANGED outVars => Queued' = Queued /\ wire' = wire /\ wpc' = wpc
  BY DEF outVars, Queued
<1> HIDE DEF Queued
\* Nothing moves but callers, who leave the connection alone or stop it.
<1>m. ASSUME UNCHANGED <<wire, peerVars, readVars, sealed, early>>,
             failure' = failure \/ (failure = "none" /\ failure' # "eof" /\ Ending'),
             Ending => Ending',
             \A d \in Calls : Ended(d) => Ended(d)',
             \A d \in Calls : Request(d) \in Queued' => Request(d) \in Queued,
             \A d \in Calls : pc'[d] = "enqueue" => d \in pending',
             ~Ending' => \A d \in Calls :
               d \in pending /\ Request(d) \in Queued /\ ~Ended(d) => d \in pending'
      PROVE HeardInv'
  BY <1>m DEF peerVars, readVars
\* A call that moves to where its request is not about to be queued.
<1>c. ASSUME NEW c \in Calls, NEW from, NEW to \in PCs, Moves(c, from, to),
             to = "enqueue" => c \in pending',
             pending \ {c} \subseteq pending'
      PROVE \A d \in Calls : pc'[d] = "enqueue" => d \in pending'
  BY <1>c DEF Moves
<1>1. ASSUME NEW c \in Calls, EndCtx(c) PROVE HeardInv'
  <2>1. \A d \in Calls : Ended(d) => Ended(d)'
    BY <1>1 DEF EndCtx
  <2> QED BY <1>1, <2>1, <1>q, <1>m DEF EndCtx, callVars, tableVars, endVars
<1>2. ASSUME NEW c \in Calls, BeginCall(c) PROVE HeardInv'
  BY <1>2, <1>q, <1>m, <1>c DEF BeginCall, Returns, endVars, PCs
<1>3. ASSUME NEW c \in Calls, QueueRefuses(c) PROVE HeardInv'
  BY <1>3, <1>q, <1>m, <1>c DEF QueueRefuses, tableVars, endVars, PCs
<1>4. ASSUME NEW c \in Calls, QueueAdmits(c) PROVE HeardInv'
  <2>1. c \in pending
    BY <1>4 DEF QueueAdmits, Moves, EntryInv
  <2> QED BY <1>4, <2>1, <1>q, <1>m, <1>c DEF QueueAdmits, endVars, PCs
<1>5. ASSUME NEW c \in Calls,
             EnqueueGivesUp(c) \/ AwaitWrite(c) \/ GraceExpires(c)
      PROVE HeardInv'
  <2>1. \A d \in Calls : pc'[d] = "enqueue" => d \in pending'
    BY <1>5, <1>c DEF EnqueueGivesUp, AwaitWrite, GraceExpires, tableVars, PCs
  <2>2. UNCHANGED <<ctx, tableVars, outVars, peerVars, readVars, endVars>>
    BY <1>5 DEF EnqueueGivesUp, AwaitWrite, GraceExpires
  <2> QED BY <2>1, <2>2, <1>q, <1>m DEF tableVars, endVars
<1>6. ASSUME NEW c \in Calls, AbortWrite(c) PROVE HeardInv'
  BY <1>6, <1>q, <1>m, <1>c DEF AbortWrite, Stop, tableVars, PCs
<1>7. ASSUME NEW c \in Calls, WriteFailed(c) PROVE HeardInv'
  <2>1. \A d \in Calls : pc'[d] = "enqueue" => d \in pending'
    BY <1>7, <1>c DEF WriteFailed, Returns, PCs
  <2> QED BY <1>7, <2>1, <1>q, <1>m DEF WriteFailed, endVars
<1>8. ASSUME NEW c \in Calls, Abandon(c) PROVE HeardInv'
  <2>1. \A d \in Calls : pc'[d] = "enqueue" => d \in pending'
    BY <1>8, <1>c DEF Abandon, Returns, PCs
  <2>2. ~Ending /\ ~Ended(c) => Request(c) \notin Queued
    BY <1>8 DEF Abandon, Returns, Moves, AnswerInv, Unsent
  <2> QED BY <1>8, <2>1, <2>2, <1>q, <1>m DEF Abandon, endVars
<1>9. ASSUME NEW c \in Calls, AbandonSettles(c) \/ ReceiveReply(c) PROVE HeardInv'
  <2>1. \A d \in Calls : pc'[d] = "enqueue" => d \in pending'
    BY <1>9, <1>c DEF AbandonSettles, ReceiveReply, Returns, PCs
  <2> QED
    BY <1>9, <2>1, <1>q, <1>m DEF AbandonSettles, Settle, ReceiveReply, endVars
<1>10. ASSUME NEW c \in Calls, Forget(c) \/ CallStopped(c) \/ CallerGivesUp(c)
       PROVE HeardInv'
  <2>1. \A d \in Calls : pc'[d] = "enqueue" => d \in pending'
    BY <1>10, <1>c DEF Forget, CallStopped, CallerGivesUp, Returns, PCs
  <2>2. pc[c] = "forget" => Request(c) \notin Queued
    BY DEF QueuedInv, Unqueued
  <2>3. ~Ending /\ ~Ended(c) => Request(c) \notin Queued
    BY <1>10, <2>2 DEF Forget, CallStopped, CallerGivesUp, Returns, Moves
  <2> QED
    BY <1>10, <2>1, <2>3, <1>q, <1>m DEF Forget, CallStopped, CallerGivesUp, endVars
<1>11. ASSUME NEW c \in Calls, CancelWaits(c) \/ CancelAborts(c) PROVE HeardInv'
  <2>1. \A d \in Calls : pc'[d] = "enqueue" => d \in pending'
    BY <1>11, <1>c DEF CancelWaits, CancelAborts, Returns, tableVars, PCs
  <2> QED
    BY <1>11, <2>1, <1>q, <1>m DEF CancelWaits, CancelAborts, Stop, tableVars, endVars
<1>12. ASSUME NEW c \in Calls, SendCancel(c) PROVE HeardInv'
  <2>1. \A d \in Calls : pc'[d] = "enqueue" => d \in pending'
    BY <1>12, <1>c DEF SendCancel, Returns, tableVars, PCs
  <2>2. writes' = writes \/ Range(writes') = Range(writes) \cup {Cancel(c)}
    <3>1. writes' = writes \/ writes' = Append(writes, Cancel(c))
      BY <1>12 DEF SendCancel
    <3>2. writes \in Seq(Frames) /\ Cancel(c) \in Frames
      BY FramesDiffer DEF TypeOK
    <3>3. Range(Append(writes, Cancel(c))) = Range(writes) \cup {Cancel(c)}
      BY <3>2, RangeAppend
    <3> QED BY <3>1, <3>3, Zenon
  <2>3. \A d \in Calls : Request(d) \in Queued' => Request(d) \in Queued
    BY <1>12, <2>2, FramesDiffer DEF SendCancel, Queued
  <2> QED BY <1>12, <2>1, <2>3, <1>m DEF SendCancel, tableVars, endVars
<1>13. ASSUME NEW c \in Calls, Enqueue(c) PROVE HeardInv'
  <2>1. /\ UNCHANGED <<wire, ctx, pending, early, inbox, answers, peerOpen>>
        /\ UNCHANGED <<rpc, rcall, wpc, sealed, failure>>
        /\ pc' = [pc EXCEPT ![c] = "await"] /\ c \in pending
    BY <1>13 DEF Enqueue, Moves, tableVars, peerVars, readVars, endVars
  <2>2. Range(writes') = Range(writes) \cup {Request(c)}
    BY <1>13, RangeAppend, FramesDiffer DEF Enqueue, TypeOK
  <2>3. \A d \in Calls : Request(d) \in Queued' => Request(d) \in Queued \/ d = c
    BY <1>13, <2>2, FramesDiffer DEF Enqueue, Queued
  <2> QED BY <2>1, <2>3
<1>14. CASE TakeFrame \/ WriteReported \/ WriteFails \/ WriterStops
  <2>1. Range(writes) = {hand'} \cup Range(writes') \/ writes' = writes
    BY <1>14, RangeHead DEF TakeFrame, WriteReported, WriteFails, WriterStops, TypeOK
  <2>2. \A d \in Calls : Request(d) \in Queued' => Request(d) \in Queued
    BY <1>14, <2>1, FramesDiffer DEF TakeFrame, WriteReported, WriteFails, WriterStops, Queued
  <2> QED
    BY <1>14, <2>2, <1>m DEF TakeFrame, WriteReported, WriteFails, WriterStops, Stop, callVars,
       tableVars, endVars
<1>15. CASE PeerReads
  <2>1. Range(wire') = Range(wire) \cup {hand}
    BY <1>15, RangeAppend DEF PeerReads, TypeOK
  <2>2. Queued' = Queued
    BY <1>15, <2>1 DEF PeerReads, Queued
  <2> QED
    BY <1>15, <2>1, <2>2
    DEF PeerReads, callVars, tableVars, peerVars, readVars, endVars
<1>16. ASSUME NEW c \in Calls, PeerAnswers(c) PROVE HeardInv'
  <2>1. Range(inbox') = Range(inbox) \cup {c}
    <3>1. inbox' = Append(inbox, c)
      BY <1>16 DEF PeerAnswers
    <3> QED BY <3>1, RangeAppend
  <2>2. \A d \in Calls : answers'[d] > 0 => answers[d] > 0 \/ d = c
    BY <1>16 DEF PeerAnswers
  <2> QED
    BY <1>16, <2>1, <2>2, <1>q DEF PeerAnswers, callVars, tableVars, readVars, endVars
<1>17. CASE ReadResponse
  <2>1. Range(inbox) = {Head(inbox)} \cup Range(inbox') /\ Head(inbox) \in Calls
    BY <1>17, RangeHead DEF ReadResponse
  <2>2. Request(Head(inbox)) \in Queued
    BY <2>1 DEF QueuedInv, Queued
  <2>3. pc[Head(inbox)] # "enqueue"
    BY <2>1, <2>2 DEF QueuedInv, Unqueued
  <2>4. UNCHANGED <<pc, ctx, early, answers, peerOpen, wpc, sealed, failure>>
    BY <1>17, <1>q DEF ReadResponse, callVars, endVars
  <2>5. wire' = wire /\ Queued' = Queued
    BY <1>17, <1>q DEF ReadResponse
  <2>6. rpc = "read" /\ inbox # <<>>
    BY <1>17 DEF ReadResponse
  <2>7. CASE ~sealed /\ Head(inbox) \in pending
    <3>1. /\ pending' = pending \ {Head(inbox)}
          /\ rpc' = "settle" /\ rcall' = Head(inbox)
      BY <1>17, <2>7 DEF ReadResponse
    <3> QED BY <3>1, <2>1, <2>3, <2>4, <2>5, <2>6
  <2>8. CASE sealed \/ Head(inbox) \notin pending
    <3>1. UNCHANGED <<pending, rpc, rcall>>
      BY <1>17, <2>8 DEF ReadResponse, readVars
    <3> QED BY <3>1, <2>1, <2>2, <2>4, <2>5, <2>6, <2>8
  <2> QED BY <2>7, <2>8
<1>18. CASE ReaderSettles
  BY <1>18, <1>q DEF ReaderSettles, callVars, peerVars, endVars
<1>19. CASE ReadEOF
  BY <1>19, <1>q DEF ReadEOF, callVars, tableVars, peerVars
<1>20. CASE FlushEnds
  BY <1>20, <1>q DEF FlushEnds, Flushed, Stop, callVars, tableVars, peerVars
<1>21. CASE ReadFails
  BY <1>21, <1>q DEF ReadFails, Stop, callVars, tableVars, peerVars
<1>22. CASE PeerCloses \/ BeginShutdown
  BY <1>22, <1>q DEF PeerCloses, BeginShutdown, callVars, tableVars, peerVars,
     readVars, endVars
<1>23. CASE Close \/ UNCHANGED vars
  BY <1>23, <1>q DEF Close, Stop, vars, callVars, tableVars, peerVars,
     readVars, endVars
<1> QED
  BY <1>1, <1>2, <1>3, <1>4, <1>5, <1>6, <1>7, <1>8, <1>9, <1>10, <1>11, <1>12,
     <1>13, <1>14, <1>15, <1>16, <1>17, <1>18, <1>19, <1>20, <1>21, <1>22, <1>23
  DEF Next, CallStep, ReaderStep, Terminated

(***************************************************************************)
(* The theorems.                                                           *)
(***************************************************************************)
IInv == TypeOK /\ OnceInv /\ QueuedInv /\ EntryInv /\ AnswerInv /\ HeardInv

LEMMA InitIInv == Init => IInv
<1> SUFFICES ASSUME Init PROVE IInv
  OBVIOUS
<1> USE BoundsAssumption, AnyCallType DEF Init
<1>1. TypeOK
  <2>1. pc \in [Calls -> PCs]
    BY DEF PCs
  <2>2. writes \in Seq(Frames) /\ Len(writes) <= Cap /\ wire \in Seq(Frames)
    OBVIOUS
  <2>3. settled \in [Calls -> Nat] /\ answers \in [Calls -> Nat]
        /\ inbox \in Seq(Calls)
    OBVIOUS
  <2> QED BY <2>1, <2>2, <2>3 DEF TypeOK
<1>2. OnceInv
  BY DEF OnceInv, ReaderHas
<1>3. Range(writes) = {} /\ Range(inbox) = {} /\ Range(wire) = {}
  BY DEF Range
<1>4. QueuedInv
  BY <1>3, FramesDiffer DEF QueuedInv, Queued, Ending
<1>5. EntryInv
  BY DEF EntryInv, BegunIsSettled, Left
<1>6. AnswerInv
  BY DEF AnswerInv, Unsent, Left, Ended
<1>7. HeardInv
  BY <1>3 DEF HeardInv, Hearing, Settled, ReaderHas, Queued, Request, NoFrame
<1> QED BY <1>1, <1>2, <1>4, <1>5, <1>6, <1>7 DEF IInv

\* The inductive invariant: what every reachable state satisfies, for any
\* calls, capacity and number of answers, guarded or not.
THEOREM Inductive == Spec => []IInv
<1>1. IInv /\ [Next]_vars => IInv'
  BY TypeStep, OnceKept, QueuedKept, EntryKept, AnswerKept, HeardKept
  DEF IInv
<1> QED BY InitIInv, <1>1, PTL DEF Spec

\* Every variable has its type, and the queue its capacity.
THEOREM TypeCorrect == Spec => []TypeOK
<1>1. IInv => TypeOK
  BY DEF IInv
<1> QED BY Inductive, <1>1, PTL

\* A call is settled at most once, by the read loop or by its caller
\* (SettledOnce): what counts is who takes its entry out of pending.
THEOREM CallsSettleOnce == Spec => []SettledOnce
<1>1. ASSUME IInv PROVE SettledOnce
  <2>1. \A c \in Calls : settled[c] \in {0, 1}
    BY <1>1 DEF IInv, OnceInv
  <2> QED BY <1>1, <2>1 DEF IInv, OnceInv, ReaderHas, SettledOnce
<1> QED BY Inductive, <1>1, PTL

\* Whoever is about to settle a call finds room in its reply channel, so
\* neither the read loop nor a caller ever blocks on it.
SettlerHasRoom ==
  /\ rpc = "settle" => reply[rcall] = "none"
  /\ \A c \in Calls : pc[c] = "settle" => reply[c] = "none"

THEOREM SettlingNeverBlocks == Spec => []SettlerHasRoom
<1>1. IInv => SettlerHasRoom
  BY DEF IInv, TypeOK, OnceInv, ReaderHas, SettlerHasRoom
<1> QED BY Inductive, <1>1, PTL

\* What an outgoing guard began is not left in progress while the connection
\* lives (BegunIsSettled).
THEOREM GuardsSeeTheEnd == Spec => []BegunIsSettled
<1>1. IInv => BegunIsSettled
  BY DEF IInv, EntryInv
<1> QED BY Inductive, <1>1, PTL

\* Without a guard, a call that returned has no entry in pending (NothingLeaks).
THEOREM TableIsClean == Spec => []NothingLeaks
<1>1. IInv => NothingLeaks
  BY DEF IInv, EntryInv, Left, NothingLeaks
<1> QED BY Inductive, <1>1, PTL

\* No answer the peer gave before its EOF is lost to it, and what the read loop
\* settled in time wins over every end (AnswersWin).
THEOREM NoAnswerIsLost == Spec => []AnswersWin
<1>1. ASSUME IInv PROVE EOFKeepsAnswers
  <2> SUFFICES ASSUME failure = "eof", NEW c \in Calls, pc[c] = "returned",
                      ~Ended(c), answers[c] > 0
               PROVE  ret[c] = "answer"
    BY DEF EOFKeepsAnswers
  <2>1. inbox = <<>> /\ rpc = "done"
    BY <1>1 DEF IInv, HeardInv
  <2>2. c \notin Range(inbox)
    BY <2>1 DEF Range
  <2>3. c \in early
    BY <1>1, <2>1, <2>2 DEF IInv, HeardInv, Hearing, Settled, ReaderHas
  <2> QED BY <1>1, <2>3 DEF IInv, TypeOK, AnswerInv
<1>2. IInv => AnswerWins
  BY DEF IInv, TypeOK, AnswerInv, AnswerWins
<1> QED BY Inductive, <1>1, <1>2, PTL DEF AnswersWin
===============================================================================
