--------------------------- MODULE ConnOutputProofs ---------------------------
(***************************************************************************)
(* What holds of a connection's output for any number of senders, of       *)
(* Shutdowns and of Closes, any queue length, and with and without guards. *)
(* IInv, at the end, is inductive; each of its parts is kept by every      *)
(* step, which its lemma shows action by action.                           *)
(***************************************************************************)
EXTENDS ConnOutput, SequenceTheorems, TLAPS

\* The write loop has a frame that is not written.
Holding == wpc \in {"writing", "broken"}

TypeInv == TypeOK /\ (Holding \/ wpc = "written" => hand \in Senders)

\* Whatever the outcome, awaitWrite and a sender that leaves the queue end in
\* one of a sender's states.
LEMMA SenderTypes ==
  ASSUME spc \in [Senders -> SenderStates], NEW s \in Senders,
         LeaveQueue(s) \/ AwaitWrite(s)
  PROVE  spc' \in [Senders -> SenderStates]
<1>1. \E to \in {"sent", "failed", "grace"} : spc' = [spc EXCEPT ![s] = to]
  BY DEF LeaveQueue, AwaitWrite, SenderMoves
<1> QED
  BY <1>1 DEF SenderStates

LEMMA TypeStep == TypeInv /\ [Next]_vars => TypeInv'
<1> SUFFICES ASSUME TypeInv, [Next]_vars PROVE TypeInv'
  OBVIOUS
<1> USE CapAssumption, NamesAssumption
    DEF TypeInv, TypeOK, Holding, Senders, Sealers, SenderStates, SealerStates, Failures,
        vars, queueVars,
        writerVars, stopVars, drainVars, sealVars, SenderMoves, SealerMoves,
        ReaderResumes, Stop, CloseOutput, Stopped, HasRoom
<1>1. ASSUME NEW p \in Users \cup Shutdowns, EndCtx(p) PROVE TypeInv'
  BY <1>1 DEF EndCtx
<1>2. ASSUME NEW t \in Tasks, HandlerReturns(t) PROVE TypeInv'
  BY <1>2 DEF HandlerReturns
<1>3. ASSUME NEW t \in Tasks, ReadRequest(t) PROVE TypeInv'
  BY <1>3 DEF ReadRequest
<1>4. ASSUME NEW a \in Answers, ReadMalformed(a) PROVE TypeInv'
  BY <1>4 DEF ReadMalformed
<1>5. ASSUME NEW s \in Senders, BeginQueue(s) PROVE TypeInv'
  BY <1>5 DEF BeginQueue
<1>6. ASSUME NEW s \in Senders, LockSend(s) PROVE TypeInv'
  BY <1>6 DEF LockSend
<1>7. ASSUME NEW s \in Senders, AdmitFrame(s) PROVE TypeInv'
  BY <1>7 DEF AdmitFrame
<1>8. ASSUME NEW s \in Senders, LeaveQueue(s) PROVE TypeInv'
  <2>1. spc' \in [Senders -> SenderStates]
    BY <1>8, SenderTypes
  <2>2. /\ UNCHANGED <<ctx, sent, queueVars, sealVars, writerVars, cpc, stopVars,
           built>>
        /\ ReaderResumes(s)
    BY <1>8 DEF LeaveQueue
  <2> QED
    BY <2>1, <2>2
<1>9. ASSUME NEW s \in Senders, BuildFrame(s) PROVE TypeInv'
  BY <1>9 DEF BuildFrame
<1>10. ASSUME NEW s \in Senders, Enqueue(s) PROVE TypeInv'
  BY <1>10 DEF Enqueue
<1>11. ASSUME NEW s \in Senders, AwaitWrite(s) PROVE TypeInv'
  <2>1. spc' \in [Senders -> SenderStates]
    BY <1>11, SenderTypes
  <2>2. UNCHANGED <<ctx, sent, queueVars, sealVars, writerVars, drainVars, cpc,
        stopVars, built>>
    BY <1>11 DEF AwaitWrite
  <2> QED
    BY <2>1, <2>2
<1>12. ASSUME NEW s \in Senders, GraceExpires(s) PROVE TypeInv'
  <2>1. spc' \in [Senders -> SenderStates]
    BY <1>12 DEF GraceExpires
  <2> QED
    BY <1>12, <2>1 DEF GraceExpires
<1>13. ASSUME NEW s \in Senders, AbortWrite(s) PROVE TypeInv'
  BY <1>13 DEF AbortWrite
<1>14. ASSUME NEW d \in Shutdowns, BeginShutdown(d) PROVE TypeInv'
  <2>1. /\ dpc' \in [Sealers -> SealerStates]
        /\ dres' \in [Shutdowns -> Failures \cup {"nil", "closing"}]
    <3>1. CASE Ended(d)
      BY <1>14, <3>1, ZenonT(30) DEF BeginShutdown
    <3>2. CASE ~Ended(d)
      BY <1>14, <3>2 DEF BeginShutdown
    <3> QED
      BY <3>1, <3>2
  <2>2. UNCHANGED <<spc, ctx, sent, queueVars, sealVars, writerVars, cpc, stopVars,
        built>>
    BY <1>14 DEF BeginShutdown
  <2> QED
    BY <2>1, <2>2
<1>15. ASSUME NEW d \in Sealers, Seal(d) PROVE TypeInv'
  <2>1. CASE sealed
    BY <1>15, <2>1 DEF Seal
  <2>2. CASE ~sealed
    BY <1>15, <2>2 DEF Seal
  <2> QED
    BY <2>1, <2>2
<1>16. ASSUME NEW d \in Sealers, SendersSettle(d) PROVE TypeInv'
  BY <1>16 DEF SendersSettle
<1>17. ASSUME NEW d \in Sealers, LockMarker(d) PROVE TypeInv'
  BY <1>17 DEF LockMarker
<1>18. ASSUME NEW d \in Sealers, QueueMarker(d) PROVE TypeInv'
  BY <1>18 DEF QueueMarker
<1>19. ASSUME NEW d \in Sealers, GiveUpMarker(d) PROVE TypeInv'
  BY <1>19 DEF GiveUpMarker
<1>20. ASSUME NEW d \in Shutdowns, DrainCompletes(d) PROVE TypeInv'
  BY <1>20 DEF DrainCompletes
<1>21. ASSUME NEW d \in Shutdowns, DrainEnds(d) PROVE TypeInv'
  BY <1>21 DEF DrainEnds
<1>22. ASSUME NEW d \in Shutdowns, DrainReason(d) PROVE TypeInv'
  BY <1>22 DEF DrainReason
<1>23. ASSUME NEW d \in Shutdowns, ShutdownStops(d) PROVE TypeInv'
  BY <1>23 DEF ShutdownStops
<1>24. ASSUME NEW d \in Shutdowns, ShutdownReturns(d) PROVE TypeInv'
  BY <1>24 DEF ShutdownReturns
<1>25. ASSUME NEW c \in Closers, CloseStops(c) PROVE TypeInv'
  BY <1>25 DEF CloseStops
<1>26. ASSUME NEW c \in Closers, CloseReturns(c) PROVE TypeInv'
  BY <1>26 DEF CloseReturns
<1>27. CASE TakeFrame
  <2>1. Head(writes) \in Senders \cup {Marker}
    BY <1>27 DEF TakeFrame
  <2>2. Tail(writes) \in Seq(Senders \cup {Marker}) /\ Len(Tail(writes)) <= Cap
    BY <1>27 DEF TakeFrame
  <2>3. CASE Head(writes) = Marker
    BY <1>27, <2>2, <2>3 DEF TakeFrame
  <2>4. CASE Head(writes) # Marker
    BY <1>27, <2>1, <2>2, <2>4 DEF TakeFrame
  <2> QED
    BY <2>3, <2>4
<1>28. CASE WriteFrame
  BY <1>28 DEF WriteFrame
<1>29. CASE WriteFails
  BY <1>29 DEF WriteFails
<1>30. CASE WriterStops
  BY <1>30 DEF WriterStops
<1>31. CASE CloseStreams
  BY <1>31 DEF CloseStreams
<1>32. CASE ReadEOF
  BY <1>32 DEF ReadEOF
<1>33. CASE ReadFails
  BY <1>33 DEF ReadFails
<1>34. CASE TasksFinish
  BY <1>34 DEF TasksFinish
<1>35. CASE FlushEnds
  BY <1>35 DEF FlushEnds
<1>36. CASE ReaderStops
  BY <1>36 DEF ReaderStops
<1>37. CASE UNCHANGED vars
  BY <1>37
<1>38. CASE ReportWrite
  BY <1>38 DEF ReportWrite
<1> QED
  BY <1>1, <1>2, <1>3, <1>4, <1>5, <1>6, <1>7, <1>8, <1>9, <1>10, <1>11, <1>12,
     <1>13, <1>14, <1>15, <1>16, <1>17, <1>18, <1>19, <1>20, <1>21, <1>22, <1>23,
     <1>24, <1>25, <1>26, <1>27, <1>28, <1>29, <1>30, <1>31, <1>32, <1>33, <1>34,
     <1>35, <1>36, <1>37, <1>38 DEF Next, SenderStep, ShutdownStep, MarkerStep,
     ReaderStep, WriterStep, Terminated

(***************************************************************************)
(* The marker.  Between the seal and the marker one sealer alone is at     *)
(* work; when it has waited for the senders nobody can queue a frame, and  *)
(* the marker it queues stays last until the write loop takes it.          *)
(***************************************************************************)
InQueue == \E i \in 1..Len(writes) : writes[i] = Marker
Marking == {d \in Sealers : dpc[d] \in {"settle", "lock", "mark"}}

MarkerInv ==
  /\ ~sealed => Marking = {} /\ ~InQueue /\ ~drained
  /\ \A d, e \in Marking : d = e
  /\ InQueue \/ drained => Enqueuing = {} /\ Marking = {}
  /\ \A d \in Sealers : dpc[d] \in {"lock", "mark"} => Enqueuing = {}
  /\ MarkerIsLast

(***************************************************************************)
(* The accounts.  Until a frame is lost, what was accepted is what was     *)
(* written, the frame in hand, and what is queued before the marker.       *)
(***************************************************************************)
Handed == IF Holding THEN 1 ELSE 0
Marked == IF InQueue THEN 1 ELSE 0
Lost == wpc \in {"failing", "done"} /\ ~drained

AccountInv ==
  /\ drained => wpc = "done"
  /\ Len(wire) <= Len(accepted)
  /\ \A i \in 1..Len(wire) : wire[i] = accepted[i]
  /\ Holding => /\ Len(wire) < Len(accepted)
                /\ hand = accepted[Len(wire) + 1]
  /\ ~Lost => /\ Len(accepted) + Marked = Len(wire) + Handed + Len(writes)
              /\ \A i \in 1..Len(writes) :
                   writes[i] # Marker
                     => writes[i] = accepted[Len(wire) + Handed + i]

\* What each goroutine reports rests on the drain, or on the frame's write.
ResultInv ==
  /\ dpc[Reader] = "stop" => drained \/ Stopped
  /\ failure = "eof" => drained
  /\ \A d \in Shutdowns : dres[d] = "nil" => drained
  /\ \A s \in Senders :
       sent[s] = "ok" \/ spc[s] = "sent" \/ (wpc = "written" /\ s = hand)
         => \E i \in 1..Len(wire) : wire[i] = s

LEMMA MarkerKept == TypeInv /\ MarkerInv /\ [Next]_vars => MarkerInv'
<1> SUFFICES ASSUME TypeInv, MarkerInv, [Next]_vars PROVE MarkerInv'
  OBVIOUS
<1> USE CapAssumption, NamesAssumption
    DEF MarkerInv, MarkerIsLast, InQueue, Marking, Enqueuing, TypeInv, TypeOK,
        Senders, Sealers,
        vars, queueVars, writerVars, stopVars, drainVars, sealVars, SenderMoves,
        SealerMoves, ReaderResumes
<1>1. ASSUME NEW p \in Users \cup Shutdowns, EndCtx(p) PROVE MarkerInv'
  BY <1>1 DEF EndCtx
<1>2. ASSUME NEW t \in Tasks, HandlerReturns(t) PROVE MarkerInv'
  BY <1>2 DEF HandlerReturns
<1>3. ASSUME NEW t \in Tasks, ReadRequest(t) PROVE MarkerInv'
  BY <1>3 DEF ReadRequest
<1>4. ASSUME NEW a \in Answers, ReadMalformed(a) PROVE MarkerInv'
  BY <1>4 DEF ReadMalformed
<1>5. ASSUME NEW s \in Senders, BeginQueue(s) PROVE MarkerInv'
  BY <1>5 DEF BeginQueue
<1>6. ASSUME NEW s \in Senders, LockSend(s) PROVE MarkerInv'
  BY <1>6 DEF LockSend
<1>7. ASSUME NEW s \in Senders, AdmitFrame(s) PROVE MarkerInv'
  BY <1>7 DEF AdmitFrame
<1>8. ASSUME NEW s \in Senders, LeaveQueue(s) PROVE MarkerInv'
  BY <1>8 DEF LeaveQueue
<1>9. ASSUME NEW s \in Senders, BuildFrame(s) PROVE MarkerInv'
  BY <1>9 DEF BuildFrame
<1>10. ASSUME NEW s \in Senders, Enqueue(s) PROVE MarkerInv'
  BY <1>10 DEF Enqueue
<1>11. ASSUME NEW s \in Senders, AwaitWrite(s) PROVE MarkerInv'
  BY <1>11 DEF AwaitWrite
<1>12. ASSUME NEW s \in Senders, GraceExpires(s) PROVE MarkerInv'
  BY <1>12 DEF GraceExpires
<1>13. ASSUME NEW s \in Senders, AbortWrite(s) PROVE MarkerInv'
  BY <1>13 DEF AbortWrite
<1>14. ASSUME NEW d \in Shutdowns, BeginShutdown(d) PROVE MarkerInv'
  BY <1>14 DEF BeginShutdown
<1>15. ASSUME NEW d \in Sealers, Seal(d) PROVE MarkerInv'
  BY <1>15 DEF Seal
<1>16. ASSUME NEW d \in Sealers, SendersSettle(d) PROVE MarkerInv'
  BY <1>16 DEF SendersSettle
<1>17. ASSUME NEW d \in Sealers, LockMarker(d) PROVE MarkerInv'
  BY <1>17 DEF LockMarker
<1>18. ASSUME NEW d \in Sealers, QueueMarker(d) PROVE MarkerInv'
  BY <1>18 DEF QueueMarker
<1>19. ASSUME NEW d \in Sealers, GiveUpMarker(d) PROVE MarkerInv'
  BY <1>19 DEF GiveUpMarker
<1>20. ASSUME NEW d \in Shutdowns, DrainCompletes(d) PROVE MarkerInv'
  BY <1>20 DEF DrainCompletes
<1>21. ASSUME NEW d \in Shutdowns, DrainEnds(d) PROVE MarkerInv'
  BY <1>21 DEF DrainEnds
<1>22. ASSUME NEW d \in Shutdowns, DrainReason(d) PROVE MarkerInv'
  BY <1>22 DEF DrainReason
<1>23. ASSUME NEW d \in Shutdowns, ShutdownStops(d) PROVE MarkerInv'
  BY <1>23 DEF ShutdownStops
<1>24. ASSUME NEW d \in Shutdowns, ShutdownReturns(d) PROVE MarkerInv'
  BY <1>24 DEF ShutdownReturns
<1>25. ASSUME NEW c \in Closers, CloseStops(c) PROVE MarkerInv'
  BY <1>25 DEF CloseStops
<1>26. ASSUME NEW c \in Closers, CloseReturns(c) PROVE MarkerInv'
  BY <1>26 DEF CloseReturns
<1>27. CASE TakeFrame
  BY <1>27 DEF TakeFrame
<1>28. CASE WriteFrame
  BY <1>28 DEF WriteFrame
<1>29. CASE WriteFails
  BY <1>29 DEF WriteFails
<1>30. CASE WriterStops
  BY <1>30 DEF WriterStops
<1>31. CASE CloseStreams
  BY <1>31 DEF CloseStreams
<1>32. CASE ReadEOF
  BY <1>32 DEF ReadEOF
<1>33. CASE ReadFails
  BY <1>33 DEF ReadFails
<1>34. CASE TasksFinish
  BY <1>34 DEF TasksFinish
<1>35. CASE FlushEnds
  BY <1>35 DEF FlushEnds
<1>36. CASE ReaderStops
  BY <1>36 DEF ReaderStops
<1>37. CASE UNCHANGED vars
  BY <1>37
<1>38. CASE ReportWrite
  BY <1>38 DEF ReportWrite
<1> QED
  BY <1>1, <1>2, <1>3, <1>4, <1>5, <1>6, <1>7, <1>8, <1>9, <1>10, <1>11, <1>12,
     <1>13, <1>14, <1>15, <1>16, <1>17, <1>18, <1>19, <1>20, <1>21, <1>22, <1>23,
     <1>24, <1>25, <1>26, <1>27, <1>28, <1>29, <1>30, <1>31, <1>32, <1>33, <1>34,
     <1>35, <1>36, <1>37, <1>38
     DEF Next, SenderStep, ShutdownStep, MarkerStep, ReaderStep, WriterStep,
         Terminated

\* A frame queued before the marker is the next to be accounted for.
LEMMA EnqueueAccount ==
  ASSUME TypeInv, MarkerInv, AccountInv, NEW s \in Senders, Enqueue(s)
  PROVE  AccountInv'
<1>1. /\ writes \in Seq(Senders \cup {Marker}) /\ accepted \in Seq(Senders)
      /\ wire \in Seq(Senders) /\ s # Marker
  BY NamesAssumption DEF TypeInv, TypeOK
<1>2. ~InQueue /\ ~drained
  BY DEF Enqueue, Enqueuing, SenderMoves, MarkerInv
<1>3. /\ Len(writes') = Len(writes) + 1
      /\ \A i \in 1..Len(writes) : writes'[i] = writes[i]
      /\ writes'[Len(writes) + 1] = s
  BY <1>1 DEF Enqueue
<1>4. /\ Len(accepted') = Len(accepted) + 1
      /\ \A i \in 1..Len(accepted) : accepted'[i] = accepted[i]
      /\ accepted'[Len(accepted) + 1] = s
  BY <1>1 DEF Enqueue
<1>5. ~InQueue'
  BY <1>1, <1>2, <1>3 DEF InQueue
<1>6. UNCHANGED <<wire, wpc, hand, drained>>
  BY DEF Enqueue, writerVars
<1>7. Marked = 0 /\ Marked' = 0 /\ Handed' = Handed /\ Lost' = Lost
      /\ Handed \in {0, 1}
  BY <1>2, <1>5, <1>6 DEF Marked, Handed, Holding, Lost
<1>8. Handed = 1 <=> Holding
  BY DEF Handed
<1>9. ~Lost => /\ Len(accepted) = Len(wire) + Handed + Len(writes)
              /\ \A i \in 1..Len(writes) : writes[i] = accepted[Len(wire) + Handed + i]
  <2>1. ~Lost => /\ Len(accepted) + Marked = Len(wire) + Handed + Len(writes)
                /\ \A i \in 1..Len(writes) :
                     writes[i] # Marker
                       => writes[i] = accepted[Len(wire) + Handed + i]
    BY DEF AccountInv, Holding
  <2>2. \A i \in 1..Len(writes) : writes[i] # Marker
    BY <1>2 DEF InQueue
  <2> QED
    BY <1>1, <1>7, <2>1, <2>2
<1>10. ASSUME ~Lost, NEW i \in 1..Len(writes')
       PROVE  writes'[i] = accepted'[Len(wire) + Handed + i]
  <2>1. CASE i \in 1..Len(writes)
    <3>1. Len(wire) + Handed + i \in 1..Len(accepted)
      BY <1>1, <1>7, <1>9, <1>10, <2>1
    <3> QED
      BY <1>3, <1>4, <1>9, <1>10, <2>1, <3>1
  <2>2. CASE i = Len(writes) + 1
    <3>1. Len(wire) + Handed + i = Len(accepted) + 1
      BY <1>1, <1>7, <1>9, <1>10, <2>2
    <3> QED
      BY <1>3, <1>4, <2>2, <3>1
  <2> QED
    BY <1>1, <1>3, <2>1, <2>2
<1>11. /\ Len(wire) <= Len(accepted')
       /\ \A i \in 1..Len(wire) : wire[i] = accepted'[i]
       /\ Holding => /\ Len(wire) < Len(accepted')
                     /\ hand = accepted'[Len(wire) + 1]
  BY <1>1, <1>4 DEF AccountInv, Holding
<1>12. ~Lost => Len(accepted') = Len(wire) + Handed + Len(writes')
  BY <1>1, <1>3, <1>4, <1>7, <1>9
<1>13. drained' => wpc' = "done"
  BY <1>2, <1>6
<1> QED
  BY <1>1, <1>3, <1>4, <1>6, <1>7, <1>10, <1>11, <1>12, <1>13 DEF AccountInv, Holding

\* The marker stands for no frame.
LEMMA MarkerAccount ==
  ASSUME TypeInv, MarkerInv, AccountInv, NEW d \in Sealers, QueueMarker(d)
  PROVE  AccountInv'
<1>1. /\ writes \in Seq(Senders \cup {Marker}) /\ accepted \in Seq(Senders)
      /\ wire \in Seq(Senders)
  BY DEF TypeInv, TypeOK
<1>2. ~InQueue /\ ~drained
  BY DEF QueueMarker, Marking, SealerMoves, MarkerInv
<1>3. /\ Len(writes') = Len(writes) + 1
      /\ \A i \in 1..Len(writes) : writes'[i] = writes[i]
      /\ writes'[Len(writes) + 1] = Marker
  BY <1>1 DEF QueueMarker
<1>4. InQueue'
  BY <1>1, <1>3 DEF InQueue
<1>5. UNCHANGED <<accepted, wire, wpc, hand, drained>>
  BY DEF QueueMarker, writerVars
<1>6. /\ Marked = 0 /\ Marked' = 1 /\ Handed' = Handed /\ Lost' = Lost
      /\ Handed \in {0, 1}
  BY <1>2, <1>4, <1>5 DEF Marked, Handed, Holding, Lost
<1>7. ASSUME ~Lost, NEW i \in 1..Len(writes'), writes'[i] # Marker
      PROVE  writes'[i] = accepted[Len(wire) + Handed + i]
  <2>1. i \in 1..Len(writes)
    BY <1>1, <1>3, <1>7
  <2> QED
    BY <1>3, <1>7, <2>1 DEF AccountInv, Holding
<1>8. ~Lost => Len(accepted) + 1 = Len(wire) + Handed + Len(writes')
  <2>1. ~Lost => Len(accepted) = Len(wire) + Handed + Len(writes)
    <3>1. ~Lost => Len(accepted) + Marked = Len(wire) + Handed + Len(writes)
      BY DEF AccountInv, Holding
    <3> QED
      BY <1>1, <1>6, <3>1
  <2>2. {Len(accepted), Len(wire), Len(writes), Handed} \subseteq Nat
    BY <1>1, <1>6
  <2>3. Len(writes') = Len(writes) + 1
    BY <1>3
  <2> QED
    BY <2>1, <2>2, <2>3, SMTT(30)
<1>9. /\ drained' => wpc' = "done"
      /\ Len(wire) <= Len(accepted)
      /\ \A i \in 1..Len(wire) : wire[i] = accepted[i]
      /\ Holding => /\ Len(wire) < Len(accepted)
                    /\ hand = accepted[Len(wire) + 1]
  BY <1>5 DEF AccountInv, Holding
<1> QED
  BY <1>5, <1>6, <1>7, <1>8, <1>9 DEF AccountInv, Holding

\* Taking the head moves one frame from the queue to the hand; taking the
\* marker, which is last, leaves nothing to account for.
LEMMA TakeAccount ==
  ASSUME TypeInv, MarkerInv, AccountInv, TakeFrame
  PROVE  AccountInv'
<1>1. /\ writes \in Seq(Senders \cup {Marker}) /\ accepted \in Seq(Senders)
      /\ wire \in Seq(Senders)
  BY DEF TypeInv, TypeOK
<1>2. /\ Len(writes) > 0 /\ Head(writes) = writes[1]
      /\ Len(writes') = Len(writes) - 1
      /\ \A i \in 1..Len(writes') : writes'[i] = writes[i + 1]
  BY <1>1 DEF TakeFrame
<1>3. wpc = "idle" /\ UNCHANGED <<accepted, wire>>
  BY DEF TakeFrame
<1>4. ~drained /\ ~Lost /\ Handed = 0
  BY <1>3 DEF AccountInv, Lost, Handed, Holding
<1>5. CASE Head(writes) = Marker
  <2>1. Len(writes) = 1
    BY <1>1, <1>2, <1>5 DEF MarkerInv, MarkerIsLast
  <2>2. InQueue /\ ~InQueue'
    BY <1>1, <1>2, <1>5, <2>1 DEF InQueue
  <2>3. drained' /\ wpc' = "done" /\ Len(writes') = 0
    BY <1>2, <1>5, <2>1 DEF TakeFrame
  <2>4. Marked = 1 /\ Marked' = 0 /\ Handed' = 0
    BY <2>2, <2>3 DEF Marked, Handed, Holding
  <2> QED
    BY <1>1, <1>2, <1>3, <1>4, <2>1, <2>3, <2>4 DEF AccountInv, Holding
<1>6. CASE Head(writes) # Marker
  <2>1. InQueue' <=> InQueue
    <3>1. InQueue' => InQueue
      BY <1>1, <1>2, SMTT(30) DEF InQueue
    <3>2. ASSUME InQueue PROVE InQueue'
      <4>1. PICK i \in 1..Len(writes) : writes[i] = Marker
        BY <3>2 DEF InQueue
      <4>2. i # 1 /\ i - 1 \in 1..Len(writes')
        BY <1>1, <1>2, <1>6, <4>1
      <4>3. writes'[i - 1] = Marker
        BY <1>1, <1>2, <4>1, <4>2
      <4> QED
        BY <4>2, <4>3 DEF InQueue
    <3> QED
      BY <3>1, <3>2
  <2>2. wpc' = "writing" /\ hand' = writes[1] /\ drained' = drained
    BY <1>2, <1>6 DEF TakeFrame
  <2>3. Marked' = Marked /\ Marked \in {0, 1} /\ Handed' = 1 /\ ~Lost'
    BY <1>4, <2>1, <2>2 DEF Marked, Handed, Holding, Lost
  <2>4. /\ Len(accepted) + Marked = Len(wire) + Len(writes)
        /\ \A i \in 1..Len(writes) : writes[i] # Marker
           => writes[i] = accepted[Len(wire) + i]
    BY <1>1, <1>4 DEF AccountInv, Holding
  <2>5. Len(wire) < Len(accepted)
    <3>1. CASE InQueue
      BY <1>1, <1>2, <1>6, <2>4, <3>1 DEF InQueue, Marked
    <3>2. CASE ~InQueue
      BY <1>1, <1>2, <2>4, <3>2 DEF Marked
    <3> QED
      BY <3>1, <3>2
  <2> QED
    BY <1>1, <1>2, <1>3, <1>4, <1>6, <2>2, <2>3, <2>4, <2>5, SMTT(30) DEF AccountInv, Holding
<1> QED
  BY <1>5, <1>6

\* Writing the frame in hand moves it from the hand to the wire.
LEMMA WriteAccount ==
  ASSUME TypeInv, MarkerInv, AccountInv, WriteFrame
  PROVE  AccountInv'
<1>1. /\ writes \in Seq(Senders \cup {Marker}) /\ accepted \in Seq(Senders)
      /\ wire \in Seq(Senders)
  BY DEF TypeInv, TypeOK
<1>2. /\ UNCHANGED <<writes, accepted, drained, hand>>
      /\ wpc = "writing" /\ wpc' = "written" /\ wire' = Append(wire, hand)
  BY DEF WriteFrame, queueVars
<1>3. /\ ~drained /\ ~Lost /\ ~Lost' /\ Marked' = Marked /\ Marked \in {0, 1}
      /\ Holding /\ ~Holding' /\ Handed = 1 /\ Handed' = 0
  BY <1>2 DEF AccountInv, Lost, Marked, InQueue, Holding, Handed
<1>4. /\ Len(wire) < Len(accepted) /\ hand = accepted[Len(wire) + 1]
      /\ \A i \in 1..Len(wire) : wire[i] = accepted[i]
  BY <1>3 DEF AccountInv
<1>5. /\ Len(accepted) + Marked = Len(wire) + 1 + Len(writes)
      /\ \A i \in 1..Len(writes) :
           writes[i] # Marker => writes[i] = accepted[Len(wire) + 1 + i]
  BY <1>3 DEF AccountInv
<1>6. /\ Len(wire') = Len(wire) + 1
      /\ \A i \in 1..Len(wire') : wire'[i] = accepted[i]
  BY <1>1, <1>2, <1>4
<1>7. /\ Len(wire') <= Len(accepted)
      /\ Len(accepted) + Marked = Len(wire') + 0 + Len(writes)
      /\ \A i \in 1..Len(writes) :
           writes[i] # Marker => writes[i] = accepted[Len(wire') + 0 + i]
  BY <1>1, <1>4, <1>5, <1>6
<1> QED
  BY <1>2, <1>3, <1>6, <1>7 DEF AccountInv

LEMMA AccountKept == TypeInv /\ MarkerInv /\ AccountInv /\ [Next]_vars
  => AccountInv'
<1> SUFFICES ASSUME TypeInv, MarkerInv, AccountInv, [Next]_vars PROVE AccountInv'
  OBVIOUS
<1> USE CapAssumption, NamesAssumption
    DEF AccountInv, Lost, Handed, Holding, Marked, MarkerInv, MarkerIsLast, InQueue,
        TypeInv, TypeOK, Senders, Sealers, vars, queueVars,
        writerVars, stopVars, drainVars, sealVars, SenderMoves, SealerMoves,
        ReaderResumes
<1>1. ASSUME NEW p \in Users \cup Shutdowns, EndCtx(p) PROVE AccountInv'
  BY <1>1 DEF EndCtx
<1>2. ASSUME NEW t \in Tasks, HandlerReturns(t) PROVE AccountInv'
  BY <1>2 DEF HandlerReturns
<1>3. ASSUME NEW t \in Tasks, ReadRequest(t) PROVE AccountInv'
  BY <1>3 DEF ReadRequest
<1>4. ASSUME NEW a \in Answers, ReadMalformed(a) PROVE AccountInv'
  BY <1>4 DEF ReadMalformed
<1>5. ASSUME NEW s \in Senders, BeginQueue(s) PROVE AccountInv'
  BY <1>5 DEF BeginQueue
<1>6. ASSUME NEW s \in Senders, LockSend(s) PROVE AccountInv'
  BY <1>6 DEF LockSend
<1>7. ASSUME NEW s \in Senders, AdmitFrame(s) PROVE AccountInv'
  BY <1>7 DEF AdmitFrame
<1>8. ASSUME NEW s \in Senders, LeaveQueue(s) PROVE AccountInv'
  BY <1>8 DEF LeaveQueue
<1>9. ASSUME NEW s \in Senders, BuildFrame(s) PROVE AccountInv'
  BY <1>9 DEF BuildFrame
<1>10. ASSUME NEW s \in Senders, Enqueue(s) PROVE AccountInv'
  BY <1>10, EnqueueAccount
<1>11. ASSUME NEW s \in Senders, AwaitWrite(s) PROVE AccountInv'
  BY <1>11 DEF AwaitWrite
<1>12. ASSUME NEW s \in Senders, GraceExpires(s) PROVE AccountInv'
  BY <1>12 DEF GraceExpires
<1>13. ASSUME NEW s \in Senders, AbortWrite(s) PROVE AccountInv'
  BY <1>13 DEF AbortWrite
<1>14. ASSUME NEW d \in Shutdowns, BeginShutdown(d) PROVE AccountInv'
  BY <1>14 DEF BeginShutdown
<1>15. ASSUME NEW d \in Sealers, Seal(d) PROVE AccountInv'
  BY <1>15 DEF Seal
<1>16. ASSUME NEW d \in Sealers, SendersSettle(d) PROVE AccountInv'
  BY <1>16 DEF SendersSettle
<1>17. ASSUME NEW d \in Sealers, LockMarker(d) PROVE AccountInv'
  BY <1>17 DEF LockMarker
<1>18. ASSUME NEW d \in Sealers, QueueMarker(d) PROVE AccountInv'
  BY <1>18, MarkerAccount
<1>19. ASSUME NEW d \in Sealers, GiveUpMarker(d) PROVE AccountInv'
  BY <1>19 DEF GiveUpMarker
<1>20. ASSUME NEW d \in Shutdowns, DrainCompletes(d) PROVE AccountInv'
  BY <1>20 DEF DrainCompletes
<1>21. ASSUME NEW d \in Shutdowns, DrainEnds(d) PROVE AccountInv'
  BY <1>21 DEF DrainEnds
<1>22. ASSUME NEW d \in Shutdowns, DrainReason(d) PROVE AccountInv'
  BY <1>22 DEF DrainReason
<1>23. ASSUME NEW d \in Shutdowns, ShutdownStops(d) PROVE AccountInv'
  BY <1>23 DEF ShutdownStops
<1>24. ASSUME NEW d \in Shutdowns, ShutdownReturns(d) PROVE AccountInv'
  BY <1>24 DEF ShutdownReturns
<1>25. ASSUME NEW c \in Closers, CloseStops(c) PROVE AccountInv'
  BY <1>25 DEF CloseStops
<1>26. ASSUME NEW c \in Closers, CloseReturns(c) PROVE AccountInv'
  BY <1>26 DEF CloseReturns
<1>27. CASE TakeFrame
  BY <1>27, TakeAccount
<1>28. CASE WriteFrame
  BY <1>28, WriteAccount
<1>29. CASE WriteFails
  BY <1>29 DEF WriteFails
<1>30. CASE WriterStops
  BY <1>30 DEF WriterStops
<1>31. CASE CloseStreams
  BY <1>31 DEF CloseStreams
<1>32. CASE ReadEOF
  BY <1>32 DEF ReadEOF
<1>33. CASE ReadFails
  BY <1>33 DEF ReadFails
<1>34. CASE TasksFinish
  BY <1>34 DEF TasksFinish
<1>35. CASE FlushEnds
  BY <1>35 DEF FlushEnds
<1>36. CASE ReaderStops
  BY <1>36 DEF ReaderStops
<1>37. CASE UNCHANGED vars
  BY <1>37
<1>38. CASE ReportWrite
  BY <1>38 DEF ReportWrite
<1> QED
  BY <1>1, <1>2, <1>3, <1>4, <1>5, <1>6, <1>7, <1>8, <1>9, <1>10, <1>11, <1>12,
     <1>13, <1>14, <1>15, <1>16, <1>17, <1>18, <1>19, <1>20, <1>21, <1>22, <1>23,
     <1>24, <1>25, <1>26, <1>27, <1>28, <1>29, <1>30, <1>31, <1>32, <1>33, <1>34,
     <1>35, <1>36, <1>37, <1>38
     DEF Next, SenderStep, ShutdownStep, MarkerStep, ReaderStep, WriterStep,
         Terminated

\* Only a drained connection stops with EOF, so its nil rests on the drain.
LEMMA ReasonResult ==
  ASSUME TypeInv, ResultInv, NEW d \in Shutdowns, DrainReason(d)
  PROVE  ResultInv'
<1>1. /\ UNCHANGED <<spc, sent, wpc, hand, wire, failure, drained>>
      /\ Reader # d /\ dpc'[Reader] = dpc[Reader]
  BY NamesAssumption
     DEF DrainReason, SealerMoves, writerVars, stopVars, TypeInv, TypeOK, Sealers
<1>2. dres'[d] = "nil" => failure = "eof"
  <2>1. dres'[d] = CASE ~Stopped -> "ctx" [] failure = "eof" -> "nil" [] OTHER -> failure
    BY DEF DrainReason, TypeInv, TypeOK
  <2> QED
    BY <2>1 DEF TypeInv, TypeOK, Failures
<1>3. \A e \in Shutdowns : e # d => dres'[e] = dres[e]
  BY DEF DrainReason, TypeInv, TypeOK
<1> QED
  BY <1>1, <1>2, <1>3 DEF ResultInv, Stopped

LEMMA WriteResult ==
  ASSUME TypeInv, ResultInv, WriteFrame
  PROVE  ResultInv'
<1>1. wire \in Seq(Senders) /\ hand \in Senders /\ sent \in [Senders -> {"none",
      "ok", "err"}]
  BY DEF WriteFrame, Holding, TypeInv, TypeOK
<1>2. /\ Len(wire') = Len(wire) + 1
      /\ \A i \in 1..Len(wire) : wire'[i] = wire[i]
      /\ wire'[Len(wire) + 1] = hand
  BY <1>1 DEF WriteFrame
<1>3. UNCHANGED <<sent, hand>>
  BY DEF WriteFrame
<1>4. UNCHANGED <<spc, dpc, dres, failure, drained>>
  BY DEF WriteFrame, drainVars, stopVars
<1>5. ASSUME NEW s \in Senders, sent[s] = "ok" \/ spc[s] = "sent" \/ s = hand
      PROVE  \E i \in 1..Len(wire') : wire'[i] = s
  <2>1. CASE s = hand
    BY <1>1, <1>2, <2>1
  <2>2. CASE s # hand
    <3>1. PICK i \in 1..Len(wire) : wire[i] = s
      BY <1>3, <1>5, <2>2 DEF ResultInv
    <3> QED
      BY <1>1, <1>2, <3>1
  <2> QED
    BY <2>1, <2>2
<1> QED
  BY <1>3, <1>4, <1>5 DEF ResultInv, Stopped

LEMMA ResultKept == TypeInv /\ MarkerInv /\ AccountInv /\ ResultInv
  /\ [Next]_vars => ResultInv'
<1> SUFFICES ASSUME TypeInv, MarkerInv, AccountInv, ResultInv, [Next]_vars
      PROVE ResultInv'
  OBVIOUS
<1> USE CapAssumption, NamesAssumption
    DEF ResultInv, AccountInv, Holding, Stop, Stopped, TypeInv, TypeOK, Senders, Sealers,
        vars, queueVars,
        writerVars, stopVars, drainVars, sealVars, SenderMoves, SealerMoves,
        ReaderResumes
<1>1. ASSUME NEW p \in Users \cup Shutdowns, EndCtx(p) PROVE ResultInv'
  BY <1>1 DEF EndCtx
<1>2. ASSUME NEW t \in Tasks, HandlerReturns(t) PROVE ResultInv'
  BY <1>2 DEF HandlerReturns
<1>3. ASSUME NEW t \in Tasks, ReadRequest(t) PROVE ResultInv'
  BY <1>3 DEF ReadRequest
<1>4. ASSUME NEW a \in Answers, ReadMalformed(a) PROVE ResultInv'
  BY <1>4 DEF ReadMalformed
<1>5. ASSUME NEW s \in Senders, BeginQueue(s) PROVE ResultInv'
  BY <1>5 DEF BeginQueue
<1>6. ASSUME NEW s \in Senders, LockSend(s) PROVE ResultInv'
  BY <1>6 DEF LockSend
<1>7. ASSUME NEW s \in Senders, AdmitFrame(s) PROVE ResultInv'
  BY <1>7 DEF AdmitFrame
<1>8. ASSUME NEW s \in Senders, LeaveQueue(s) PROVE ResultInv'
  BY <1>8 DEF LeaveQueue
<1>9. ASSUME NEW s \in Senders, BuildFrame(s) PROVE ResultInv'
  BY <1>9 DEF BuildFrame
<1>10. ASSUME NEW s \in Senders, Enqueue(s) PROVE ResultInv'
  BY <1>10 DEF Enqueue
<1>11. ASSUME NEW s \in Senders, AwaitWrite(s) PROVE ResultInv'
  <2>1. /\ \E from \in {"await", "grace"}, to \in {"sent", "failed", "grace"} :
             spc[s] = from /\ spc' = [spc EXCEPT ![s] = to]
        /\ spc'[s] = "sent" => sent[s] = "ok"
    BY <1>11 DEF AwaitWrite
  <2>2. UNCHANGED <<sent, wpc, hand, wire, drained, failure, dpc, dres>>
    BY <1>11 DEF AwaitWrite
  <2> QED
    BY <2>1, <2>2
<1>12. ASSUME NEW s \in Senders, GraceExpires(s) PROVE ResultInv'
  BY <1>12 DEF GraceExpires
<1>13. ASSUME NEW s \in Senders, AbortWrite(s) PROVE ResultInv'
  BY <1>13 DEF AbortWrite
<1>14. ASSUME NEW d \in Shutdowns, BeginShutdown(d) PROVE ResultInv'
  BY <1>14 DEF BeginShutdown
<1>15. ASSUME NEW d \in Sealers, Seal(d) PROVE ResultInv'
  BY <1>15 DEF Seal
<1>16. ASSUME NEW d \in Sealers, SendersSettle(d) PROVE ResultInv'
  BY <1>16 DEF SendersSettle
<1>17. ASSUME NEW d \in Sealers, LockMarker(d) PROVE ResultInv'
  BY <1>17 DEF LockMarker
<1>18. ASSUME NEW d \in Sealers, QueueMarker(d) PROVE ResultInv'
  BY <1>18 DEF QueueMarker
<1>19. ASSUME NEW d \in Sealers, GiveUpMarker(d) PROVE ResultInv'
  BY <1>19 DEF GiveUpMarker
<1>20. ASSUME NEW d \in Shutdowns, DrainCompletes(d) PROVE ResultInv'
  BY <1>20 DEF DrainCompletes
<1>21. ASSUME NEW d \in Shutdowns, DrainEnds(d) PROVE ResultInv'
  BY <1>21 DEF DrainEnds
<1>22. ASSUME NEW d \in Shutdowns, DrainReason(d) PROVE ResultInv'
  BY <1>22, ReasonResult
<1>23. ASSUME NEW d \in Shutdowns, ShutdownStops(d) PROVE ResultInv'
  BY <1>23 DEF ShutdownStops
<1>24. ASSUME NEW d \in Shutdowns, ShutdownReturns(d) PROVE ResultInv'
  BY <1>24 DEF ShutdownReturns
<1>25. ASSUME NEW c \in Closers, CloseStops(c) PROVE ResultInv'
  BY <1>25 DEF CloseStops
<1>26. ASSUME NEW c \in Closers, CloseReturns(c) PROVE ResultInv'
  BY <1>26 DEF CloseReturns
<1>27. CASE TakeFrame
  BY <1>27 DEF TakeFrame
<1>28. CASE WriteFrame
  BY <1>28, WriteResult
<1>29. CASE WriteFails
  BY <1>29 DEF WriteFails
<1>30. CASE WriterStops
  BY <1>30 DEF WriterStops
<1>31. CASE CloseStreams
  BY <1>31 DEF CloseStreams
<1>32. CASE ReadEOF
  BY <1>32 DEF ReadEOF
<1>33. CASE ReadFails
  BY <1>33 DEF ReadFails
<1>34. CASE TasksFinish
  BY <1>34 DEF TasksFinish
<1>35. CASE FlushEnds
  BY <1>35 DEF FlushEnds
<1>36. CASE ReaderStops
  BY <1>36 DEF ReaderStops
<1>37. CASE UNCHANGED vars
  BY <1>37
<1>38. CASE ReportWrite
  BY <1>38 DEF ReportWrite
<1> QED
  BY <1>1, <1>2, <1>3, <1>4, <1>5, <1>6, <1>7, <1>8, <1>9, <1>10, <1>11, <1>12,
     <1>13, <1>14, <1>15, <1>16, <1>17, <1>18, <1>19, <1>20, <1>21, <1>22, <1>23,
     <1>24, <1>25, <1>26, <1>27, <1>28, <1>29, <1>30, <1>31, <1>32, <1>33, <1>34,
     <1>35, <1>36, <1>37, <1>38
     DEF Next, SenderStep, ShutdownStep, MarkerStep, ReaderStep, WriterStep,
         Terminated

(***************************************************************************)
(* A ctx that ends after the seal.                                         *)
(***************************************************************************)
CancelInv ==
  /\ \A p \in Users \cup Shutdowns : ctx[p] = "late" => sealed
  /\ \A u \in Users : spc[u] \in {"grace", "abort"} => ctx[u] # "live"
  /\ CancelSparesDrain

LEMMA CancelKept == TypeInv /\ CancelInv /\ [Next]_vars => CancelInv'
<1> SUFFICES ASSUME TypeInv, CancelInv, [Next]_vars PROVE CancelInv'
  OBVIOUS
<1> USE NamesAssumption
    DEF CancelInv, CancelSparesDrain, Ended, TypeInv, TypeOK, Senders, Sealers,
        vars, queueVars,
        writerVars, stopVars, drainVars, sealVars, SenderMoves, SealerMoves,
        ReaderResumes
<1>1. ASSUME NEW p \in Users \cup Shutdowns, EndCtx(p) PROVE CancelInv'
  BY <1>1 DEF EndCtx
<1>2. ASSUME NEW t \in Tasks, HandlerReturns(t) PROVE CancelInv'
  BY <1>2 DEF HandlerReturns
<1>3. ASSUME NEW t \in Tasks, ReadRequest(t) PROVE CancelInv'
  BY <1>3 DEF ReadRequest
<1>4. ASSUME NEW a \in Answers, ReadMalformed(a) PROVE CancelInv'
  BY <1>4 DEF ReadMalformed
<1>5. ASSUME NEW s \in Senders, BeginQueue(s) PROVE CancelInv'
  BY <1>5 DEF BeginQueue
<1>6. ASSUME NEW s \in Senders, LockSend(s) PROVE CancelInv'
  BY <1>6 DEF LockSend
<1>7. ASSUME NEW s \in Senders, AdmitFrame(s) PROVE CancelInv'
  BY <1>7 DEF AdmitFrame
<1>8. ASSUME NEW s \in Senders, LeaveQueue(s) PROVE CancelInv'
  BY <1>8 DEF LeaveQueue
<1>9. ASSUME NEW s \in Senders, BuildFrame(s) PROVE CancelInv'
  BY <1>9 DEF BuildFrame
<1>10. ASSUME NEW s \in Senders, Enqueue(s) PROVE CancelInv'
  BY <1>10 DEF Enqueue
<1>11. ASSUME NEW s \in Senders, AwaitWrite(s) PROVE CancelInv'
  BY <1>11 DEF AwaitWrite
<1>12. ASSUME NEW s \in Senders, GraceExpires(s) PROVE CancelInv'
  BY <1>12 DEF GraceExpires
<1>13. ASSUME NEW s \in Senders, AbortWrite(s) PROVE CancelInv'
  BY <1>13 DEF AbortWrite
<1>14. ASSUME NEW d \in Shutdowns, BeginShutdown(d) PROVE CancelInv'
  BY <1>14 DEF BeginShutdown
<1>15. ASSUME NEW d \in Sealers, Seal(d) PROVE CancelInv'
  BY <1>15 DEF Seal
<1>16. ASSUME NEW d \in Sealers, SendersSettle(d) PROVE CancelInv'
  BY <1>16 DEF SendersSettle
<1>17. ASSUME NEW d \in Sealers, LockMarker(d) PROVE CancelInv'
  BY <1>17 DEF LockMarker
<1>18. ASSUME NEW d \in Sealers, QueueMarker(d) PROVE CancelInv'
  BY <1>18 DEF QueueMarker
<1>19. ASSUME NEW d \in Sealers, GiveUpMarker(d) PROVE CancelInv'
  BY <1>19 DEF GiveUpMarker
<1>20. ASSUME NEW d \in Shutdowns, DrainCompletes(d) PROVE CancelInv'
  BY <1>20 DEF DrainCompletes
<1>21. ASSUME NEW d \in Shutdowns, DrainEnds(d) PROVE CancelInv'
  BY <1>21 DEF DrainEnds
<1>22. ASSUME NEW d \in Shutdowns, DrainReason(d) PROVE CancelInv'
  BY <1>22 DEF DrainReason
<1>23. ASSUME NEW d \in Shutdowns, ShutdownStops(d) PROVE CancelInv'
  BY <1>23 DEF ShutdownStops
<1>24. ASSUME NEW d \in Shutdowns, ShutdownReturns(d) PROVE CancelInv'
  BY <1>24 DEF ShutdownReturns
<1>25. ASSUME NEW c \in Closers, CloseStops(c) PROVE CancelInv'
  BY <1>25 DEF CloseStops
<1>26. ASSUME NEW c \in Closers, CloseReturns(c) PROVE CancelInv'
  BY <1>26 DEF CloseReturns
<1>27. CASE TakeFrame
  BY <1>27 DEF TakeFrame
<1>28. CASE WriteFrame
  BY <1>28 DEF WriteFrame
<1>29. CASE WriteFails
  BY <1>29 DEF WriteFails
<1>30. CASE WriterStops
  BY <1>30 DEF WriterStops
<1>31. CASE CloseStreams
  BY <1>31 DEF CloseStreams
<1>32. CASE ReadEOF
  BY <1>32 DEF ReadEOF
<1>33. CASE ReadFails
  BY <1>33 DEF ReadFails
<1>34. CASE TasksFinish
  BY <1>34 DEF TasksFinish
<1>35. CASE FlushEnds
  BY <1>35 DEF FlushEnds
<1>36. CASE ReaderStops
  BY <1>36 DEF ReaderStops
<1>37. CASE UNCHANGED vars
  BY <1>37
<1>38. CASE ReportWrite
  BY <1>38 DEF ReportWrite
<1> QED
  BY <1>1, <1>2, <1>3, <1>4, <1>5, <1>6, <1>7, <1>8, <1>9, <1>10, <1>11, <1>12,
     <1>13, <1>14, <1>15, <1>16, <1>17, <1>18, <1>19, <1>20, <1>21, <1>22, <1>23,
     <1>24, <1>25, <1>26, <1>27, <1>28, <1>29, <1>30, <1>31, <1>32, <1>33, <1>34,
     <1>35, <1>36, <1>37, <1>38
     DEF Next, SenderStep, ShutdownStep, MarkerStep, ReaderStep, WriterStep,
         Terminated

\* Once the read loop flushes, and when the connection stopped with EOF, no task
\* is under way: only a frame that is read begins one.
TaskInv ==
  /\ dpc[Reader] \in {"seal", "settle", "lock", "mark", "wait", "stop"} => TasksDone
  /\ failure = "eof" => TasksDone /\ dpc[Reader] \notin {"read", "answer"}

LEMMA TaskKept == TypeInv /\ TaskInv /\ [Next]_vars => TaskInv'
<1> SUFFICES ASSUME TypeInv, TaskInv, [Next]_vars PROVE TaskInv'
  OBVIOUS
<1> USE NamesAssumption
    DEF TaskInv, TasksDone, Stop, Stopped, TypeInv, TypeOK, Senders, Sealers,
        vars, queueVars,
        writerVars, stopVars, drainVars, sealVars, SenderMoves, SealerMoves,
        ReaderResumes
<1>1. ASSUME NEW p \in Users \cup Shutdowns, EndCtx(p) PROVE TaskInv'
  BY <1>1 DEF EndCtx
<1>2. ASSUME NEW t \in Tasks, HandlerReturns(t) PROVE TaskInv'
  BY <1>2 DEF HandlerReturns
<1>3. ASSUME NEW t \in Tasks, ReadRequest(t) PROVE TaskInv'
  BY <1>3 DEF ReadRequest
<1>4. ASSUME NEW a \in Answers, ReadMalformed(a) PROVE TaskInv'
  BY <1>4 DEF ReadMalformed
<1>5. ASSUME NEW s \in Senders, BeginQueue(s), s \notin Answers PROVE TaskInv'
  BY <1>5 DEF BeginQueue
<1>6. ASSUME NEW s \in Senders, LockSend(s) PROVE TaskInv'
  BY <1>6 DEF LockSend
<1>7. ASSUME NEW s \in Senders, AdmitFrame(s) PROVE TaskInv'
  BY <1>7 DEF AdmitFrame
<1>8. ASSUME NEW s \in Senders, LeaveQueue(s) PROVE TaskInv'
  BY <1>8 DEF LeaveQueue
<1>9. ASSUME NEW s \in Senders, BuildFrame(s) PROVE TaskInv'
  BY <1>9 DEF BuildFrame
<1>10. ASSUME NEW s \in Senders, Enqueue(s) PROVE TaskInv'
  BY <1>10 DEF Enqueue
<1>11. ASSUME NEW s \in Senders, AwaitWrite(s) PROVE TaskInv'
  BY <1>11 DEF AwaitWrite
<1>12. ASSUME NEW s \in Senders, GraceExpires(s) PROVE TaskInv'
  BY <1>12 DEF GraceExpires
<1>13. ASSUME NEW s \in Senders, AbortWrite(s) PROVE TaskInv'
  BY <1>13 DEF AbortWrite
<1>14. ASSUME NEW d \in Shutdowns, BeginShutdown(d) PROVE TaskInv'
  BY <1>14 DEF BeginShutdown
<1>15. ASSUME NEW d \in Sealers, Seal(d) PROVE TaskInv'
  BY <1>15 DEF Seal
<1>16. ASSUME NEW d \in Sealers, SendersSettle(d) PROVE TaskInv'
  BY <1>16 DEF SendersSettle
<1>17. ASSUME NEW d \in Sealers, LockMarker(d) PROVE TaskInv'
  BY <1>17 DEF LockMarker
<1>18. ASSUME NEW d \in Sealers, QueueMarker(d) PROVE TaskInv'
  BY <1>18 DEF QueueMarker
<1>19. ASSUME NEW d \in Sealers, GiveUpMarker(d) PROVE TaskInv'
  BY <1>19 DEF GiveUpMarker
<1>20. ASSUME NEW d \in Shutdowns, DrainCompletes(d) PROVE TaskInv'
  BY <1>20 DEF DrainCompletes
<1>21. ASSUME NEW d \in Shutdowns, DrainEnds(d) PROVE TaskInv'
  BY <1>21 DEF DrainEnds
<1>22. ASSUME NEW d \in Shutdowns, DrainReason(d) PROVE TaskInv'
  BY <1>22 DEF DrainReason
<1>23. ASSUME NEW d \in Shutdowns, ShutdownStops(d) PROVE TaskInv'
  BY <1>23 DEF ShutdownStops
<1>24. ASSUME NEW d \in Shutdowns, ShutdownReturns(d) PROVE TaskInv'
  BY <1>24 DEF ShutdownReturns
<1>25. ASSUME NEW c \in Closers, CloseStops(c) PROVE TaskInv'
  BY <1>25 DEF CloseStops
<1>26. ASSUME NEW c \in Closers, CloseReturns(c) PROVE TaskInv'
  BY <1>26 DEF CloseReturns
<1>27. CASE TakeFrame
  BY <1>27 DEF TakeFrame
<1>28. CASE WriteFrame
  BY <1>28 DEF WriteFrame
<1>29. CASE WriteFails
  BY <1>29 DEF WriteFails
<1>30. CASE WriterStops
  BY <1>30 DEF WriterStops
<1>31. CASE CloseStreams
  BY <1>31 DEF CloseStreams
<1>32. CASE ReadEOF
  BY <1>32 DEF ReadEOF
<1>33. CASE ReadFails
  BY <1>33 DEF ReadFails
<1>34. CASE TasksFinish
  BY <1>34 DEF TasksFinish
<1>35. CASE FlushEnds
  BY <1>35 DEF FlushEnds
<1>36. CASE ReaderStops
  BY <1>36 DEF ReaderStops
<1>37. CASE UNCHANGED vars
  BY <1>37
<1>38. CASE ReportWrite
  BY <1>38 DEF ReportWrite
<1> QED
  BY <1>1, <1>2, <1>3, <1>4, <1>5, <1>6, <1>7, <1>8, <1>9, <1>10, <1>11, <1>12,
     <1>13, <1>14, <1>15, <1>16, <1>17, <1>18, <1>19, <1>20, <1>21, <1>22, <1>23,
     <1>24, <1>25, <1>26, <1>27, <1>28, <1>29, <1>30, <1>31, <1>32, <1>33, <1>34,
     <1>35, <1>36, <1>37, <1>38
     DEF Next, SenderStep, ShutdownStep, MarkerStep, ReaderStep, WriterStep,
         Terminated

\* A step of a sealed queue.
StaysSealed == sealed => sealed' /\ Enqueuing' \subseteq Enqueuing

LEMMA SealStep == TypeInv /\ [Next]_vars => StaysSealed
<1> SUFFICES ASSUME TypeInv, [Next]_vars PROVE StaysSealed
  OBVIOUS
<1> USE NamesAssumption
    DEF StaysSealed, Enqueuing, TypeInv, TypeOK, Senders, Sealers, vars, queueVars,
        writerVars, stopVars, drainVars, sealVars, SenderMoves, SealerMoves,
        ReaderResumes
<1>1. ASSUME NEW p \in Users \cup Shutdowns, EndCtx(p) PROVE StaysSealed
  BY <1>1 DEF EndCtx
<1>2. ASSUME NEW t \in Tasks, HandlerReturns(t) PROVE StaysSealed
  BY <1>2 DEF HandlerReturns
<1>3. ASSUME NEW t \in Tasks, ReadRequest(t) PROVE StaysSealed
  BY <1>3 DEF ReadRequest
<1>4. ASSUME NEW a \in Answers, ReadMalformed(a) PROVE StaysSealed
  BY <1>4 DEF ReadMalformed
<1>5. ASSUME NEW s \in Senders, BeginQueue(s) PROVE StaysSealed
  BY <1>5 DEF BeginQueue
<1>6. ASSUME NEW s \in Senders, LockSend(s) PROVE StaysSealed
  BY <1>6 DEF LockSend
<1>7. ASSUME NEW s \in Senders, AdmitFrame(s) PROVE StaysSealed
  BY <1>7 DEF AdmitFrame
<1>8. ASSUME NEW s \in Senders, LeaveQueue(s) PROVE StaysSealed
  BY <1>8 DEF LeaveQueue
<1>9. ASSUME NEW s \in Senders, BuildFrame(s) PROVE StaysSealed
  BY <1>9 DEF BuildFrame
<1>10. ASSUME NEW s \in Senders, Enqueue(s) PROVE StaysSealed
  BY <1>10 DEF Enqueue
<1>11. ASSUME NEW s \in Senders, AwaitWrite(s) PROVE StaysSealed
  BY <1>11 DEF AwaitWrite
<1>12. ASSUME NEW s \in Senders, GraceExpires(s) PROVE StaysSealed
  BY <1>12 DEF GraceExpires
<1>13. ASSUME NEW s \in Senders, AbortWrite(s) PROVE StaysSealed
  BY <1>13 DEF AbortWrite
<1>14. ASSUME NEW d \in Shutdowns, BeginShutdown(d) PROVE StaysSealed
  BY <1>14 DEF BeginShutdown
<1>15. ASSUME NEW d \in Sealers, Seal(d) PROVE StaysSealed
  BY <1>15 DEF Seal
<1>16. ASSUME NEW d \in Sealers, SendersSettle(d) PROVE StaysSealed
  BY <1>16 DEF SendersSettle
<1>17. ASSUME NEW d \in Sealers, LockMarker(d) PROVE StaysSealed
  BY <1>17 DEF LockMarker
<1>18. ASSUME NEW d \in Sealers, QueueMarker(d) PROVE StaysSealed
  BY <1>18 DEF QueueMarker
<1>19. ASSUME NEW d \in Sealers, GiveUpMarker(d) PROVE StaysSealed
  BY <1>19 DEF GiveUpMarker
<1>20. ASSUME NEW d \in Shutdowns, DrainCompletes(d) PROVE StaysSealed
  BY <1>20 DEF DrainCompletes
<1>21. ASSUME NEW d \in Shutdowns, DrainEnds(d) PROVE StaysSealed
  BY <1>21 DEF DrainEnds
<1>22. ASSUME NEW d \in Shutdowns, DrainReason(d) PROVE StaysSealed
  BY <1>22 DEF DrainReason
<1>23. ASSUME NEW d \in Shutdowns, ShutdownStops(d) PROVE StaysSealed
  BY <1>23 DEF ShutdownStops
<1>24. ASSUME NEW d \in Shutdowns, ShutdownReturns(d) PROVE StaysSealed
  BY <1>24 DEF ShutdownReturns
<1>25. ASSUME NEW c \in Closers, CloseStops(c) PROVE StaysSealed
  BY <1>25 DEF CloseStops
<1>26. ASSUME NEW c \in Closers, CloseReturns(c) PROVE StaysSealed
  BY <1>26 DEF CloseReturns
<1>27. CASE TakeFrame
  BY <1>27 DEF TakeFrame
<1>28. CASE WriteFrame
  BY <1>28 DEF WriteFrame
<1>29. CASE WriteFails
  BY <1>29 DEF WriteFails
<1>30. CASE WriterStops
  BY <1>30 DEF WriterStops
<1>31. CASE CloseStreams
  BY <1>31 DEF CloseStreams
<1>32. CASE ReadEOF
  BY <1>32 DEF ReadEOF
<1>33. CASE ReadFails
  BY <1>33 DEF ReadFails
<1>34. CASE TasksFinish
  BY <1>34 DEF TasksFinish
<1>35. CASE FlushEnds
  BY <1>35 DEF FlushEnds
<1>36. CASE ReaderStops
  BY <1>36 DEF ReaderStops
<1>37. CASE UNCHANGED vars
  BY <1>37
<1>38. CASE ReportWrite
  BY <1>38 DEF ReportWrite
<1> QED
  BY <1>1, <1>2, <1>3, <1>4, <1>5, <1>6, <1>7, <1>8, <1>9, <1>10, <1>11, <1>12,
     <1>13, <1>14, <1>15, <1>16, <1>17, <1>18, <1>19, <1>20, <1>21, <1>22, <1>23,
     <1>24, <1>25, <1>26, <1>27, <1>28, <1>29, <1>30, <1>31, <1>32, <1>33, <1>34,
     <1>35, <1>36, <1>37, <1>38
     DEF Next, SenderStep, ShutdownStep, MarkerStep, ReaderStep, WriterStep,
         Terminated

(***************************************************************************)
(* Most steps are quiet: they leave the frames alone.  The others are told *)
(* apart here, once, for what follows about order, loss and refinement.    *)
(***************************************************************************)
Building == {"admit", "build", "enqueue"}
Queued == {"await", "grace", "abort", "sent", "failed"}

Quiet ==
  /\ UNCHANGED <<queueVars, writerVars, sent, built>>
  /\ \A s \in Senders :
       /\ spc'[s] \in Building => spc[s] \in Building
       /\ spc'[s] = "enqueue" => spc[s] = "enqueue"
       /\ spc[s] \in Queued => spc'[s] \in Queued
       /\ spc[s] = "sent" <=> spc'[s] = "sent"

Telling ==
  \/ \E s \in Senders :
       LockSend(s) \/ BuildFrame(s) \/ Enqueue(s) \/ AwaitWrite(s)
  \/ \E d \in Sealers : QueueMarker(d)
  \/ TakeFrame \/ WriteFrame \/ WriteFails \/ ReportWrite \/ WriterStops

LEMMA StepKinds == TypeInv /\ [Next]_vars => Quiet \/ Telling
<1> SUFFICES ASSUME TypeInv, [Next]_vars PROVE Quiet \/ Telling
  OBVIOUS
<1> USE NamesAssumption
    DEF Quiet, Building, Queued, TypeInv, TypeOK, Senders, Sealers, vars,
        queueVars, writerVars, stopVars, drainVars, sealVars, SenderMoves,
        SealerMoves, ReaderResumes
<1>1. ASSUME NEW p \in Users \cup Shutdowns, EndCtx(p) PROVE Quiet \/ Telling
  BY <1>1 DEF EndCtx
<1>2. ASSUME NEW t \in Tasks, HandlerReturns(t) PROVE Quiet \/ Telling
  BY <1>2 DEF HandlerReturns
<1>3. ASSUME NEW t \in Tasks, ReadRequest(t) PROVE Quiet \/ Telling
  BY <1>3 DEF ReadRequest
<1>4. ASSUME NEW a \in Answers, ReadMalformed(a) PROVE Quiet \/ Telling
  BY <1>4 DEF ReadMalformed
<1>5. ASSUME NEW s \in Senders, BeginQueue(s) PROVE Quiet \/ Telling
  BY <1>5 DEF BeginQueue
<1>6. ASSUME NEW s \in Senders, LockSend(s) PROVE Quiet \/ Telling
  BY <1>6 DEF Telling
<1>7. ASSUME NEW s \in Senders, AdmitFrame(s) PROVE Quiet \/ Telling
  BY <1>7 DEF AdmitFrame
<1>8. ASSUME NEW s \in Senders, LeaveQueue(s) PROVE Quiet \/ Telling
  BY <1>8 DEF LeaveQueue
<1>9. ASSUME NEW s \in Senders, BuildFrame(s) PROVE Quiet \/ Telling
  BY <1>9 DEF Telling
<1>10. ASSUME NEW s \in Senders, Enqueue(s) PROVE Quiet \/ Telling
  BY <1>10 DEF Telling
<1>11. ASSUME NEW s \in Senders, AwaitWrite(s) PROVE Quiet \/ Telling
  BY <1>11 DEF Telling
<1>12. ASSUME NEW s \in Senders, GraceExpires(s) PROVE Quiet \/ Telling
  BY <1>12 DEF GraceExpires
<1>13. ASSUME NEW s \in Senders, AbortWrite(s) PROVE Quiet \/ Telling
  BY <1>13 DEF AbortWrite
<1>14. ASSUME NEW d \in Shutdowns, BeginShutdown(d) PROVE Quiet \/ Telling
  BY <1>14 DEF BeginShutdown
<1>15. ASSUME NEW d \in Sealers, Seal(d) PROVE Quiet \/ Telling
  BY <1>15 DEF Seal
<1>16. ASSUME NEW d \in Sealers, SendersSettle(d) PROVE Quiet \/ Telling
  BY <1>16 DEF SendersSettle
<1>17. ASSUME NEW d \in Sealers, LockMarker(d) PROVE Quiet \/ Telling
  BY <1>17 DEF LockMarker
<1>18. ASSUME NEW d \in Sealers, QueueMarker(d) PROVE Quiet \/ Telling
  BY <1>18 DEF Telling
<1>19. ASSUME NEW d \in Sealers, GiveUpMarker(d) PROVE Quiet \/ Telling
  BY <1>19 DEF GiveUpMarker
<1>20. ASSUME NEW d \in Shutdowns, DrainCompletes(d) PROVE Quiet \/ Telling
  BY <1>20 DEF DrainCompletes
<1>21. ASSUME NEW d \in Shutdowns, DrainEnds(d) PROVE Quiet \/ Telling
  BY <1>21 DEF DrainEnds
<1>22. ASSUME NEW d \in Shutdowns, DrainReason(d) PROVE Quiet \/ Telling
  BY <1>22 DEF DrainReason
<1>23. ASSUME NEW d \in Shutdowns, ShutdownStops(d) PROVE Quiet \/ Telling
  BY <1>23 DEF ShutdownStops
<1>24. ASSUME NEW d \in Shutdowns, ShutdownReturns(d) PROVE Quiet \/ Telling
  BY <1>24 DEF ShutdownReturns
<1>25. ASSUME NEW c \in Closers, CloseStops(c) PROVE Quiet \/ Telling
  BY <1>25 DEF CloseStops
<1>26. ASSUME NEW c \in Closers, CloseReturns(c) PROVE Quiet \/ Telling
  BY <1>26 DEF CloseReturns
<1>27. CASE TakeFrame
  BY <1>27 DEF Telling
<1>28. CASE WriteFrame
  BY <1>28 DEF Telling
<1>29. CASE WriteFails
  BY <1>29 DEF Telling
<1>30. CASE WriterStops
  BY <1>30 DEF Telling
<1>31. CASE CloseStreams
  BY <1>31 DEF CloseStreams
<1>32. CASE ReadEOF
  BY <1>32 DEF ReadEOF
<1>33. CASE ReadFails
  BY <1>33 DEF ReadFails
<1>34. CASE TasksFinish
  BY <1>34 DEF TasksFinish
<1>35. CASE FlushEnds
  BY <1>35 DEF FlushEnds
<1>36. CASE ReaderStops
  BY <1>36 DEF ReaderStops
<1>37. CASE UNCHANGED vars
  BY <1>37
<1>38. CASE ReportWrite
  BY <1>38 DEF Telling
<1> QED
  BY <1>1, <1>2, <1>3, <1>4, <1>5, <1>6, <1>7, <1>8, <1>9, <1>10, <1>11, <1>12,
     <1>13, <1>14, <1>15, <1>16, <1>17, <1>18, <1>19, <1>20, <1>21, <1>22, <1>23,
     <1>24, <1>25, <1>26, <1>27, <1>28, <1>29, <1>30, <1>31, <1>32, <1>33, <1>34,
     <1>35, <1>36, <1>37, <1>38
     DEF Next, SenderStep, ShutdownStep, MarkerStep, ReaderStep, WriterStep,
         Terminated

(***************************************************************************)
(* Order.  The guard's lock admits one sender at a time, from its guard to *)
(* its place in the queue: a sender about to queue its frame was the last  *)
(* one the guard saw, and every frame queued before it was built earlier.  *)
(***************************************************************************)
OneBuilds ==
  \A s, t \in Senders : spc[s] \in Building /\ spc[t] \in Building => s = t
LastBuilt ==
  \A s \in Senders :
    spc[s] = "enqueue" => Len(built) > 0 /\ built[Len(built)] = s
AcceptedWasBuilt ==
  \A i \in 1..Len(accepted) :
    spc[accepted[i]] \in Queued /\ \E k \in 1..Len(built) : built[k] = accepted[i]

OrderInv ==
  Guarded => OneBuilds /\ LastBuilt /\ AcceptedWasBuilt /\ GuardOrder

LEMMA InOrderOfLonger ==
  ASSUME NEW S, NEW p \in Seq(S), NEW q \in Seq(S), NEW x \in S, InOrder(p, q)
  PROVE  InOrder(p, Append(q, x))
<1> SUFFICES ASSUME NEW i \in 1..Len(p), NEW j \in 1..Len(p), i < j
             PROVE  \E k, l \in 1..Len(Append(q, x)) :
                      k < l /\ Append(q, x)[k] = p[i] /\ Append(q, x)[l] = p[j]
  BY DEF InOrder
<1>1. PICK k \in 1..Len(q), l \in 1..Len(q) : k < l /\ q[k] = p[i] /\ q[l] = p[j]
  BY DEF InOrder
<1>2. /\ k \in 1..Len(Append(q, x)) /\ Append(q, x)[k] = q[k]
      /\ l \in 1..Len(Append(q, x)) /\ Append(q, x)[l] = q[l]
  OBVIOUS
<1> QED
  BY <1>1, <1>2

\* An element that ends q may be appended to p when p's elements come before it.
LEMMA LastInOrder ==
  ASSUME NEW S, NEW p \in Seq(S), NEW q \in Seq(S), NEW x \in S, InOrder(p, q),
         Len(q) > 0, q[Len(q)] = x,
         \A i \in 1..Len(p) : \E k \in 1..Len(q) : k < Len(q) /\ q[k] = p[i]
  PROVE  InOrder(Append(p, x), q)
<1> DEFINE r == Append(p, x)
<1>0. Len(p) \in Nat /\ Len(r) = Len(p) + 1
  OBVIOUS
<1>1. r[Len(r)] = x /\ \A i \in 1..Len(p) : r[i] = p[i]
  OBVIOUS
<1> HIDE DEF r
<1> SUFFICES ASSUME NEW i \in 1..Len(r), NEW j \in 1..Len(r), i < j
             PROVE  \E k, l \in 1..Len(q) : k < l /\ q[k] = r[i] /\ q[l] = r[j]
  BY DEF InOrder, r
<1>2. i \in 1..Len(p) /\ r[i] = p[i]
  BY <1>0, <1>1
<1>3. CASE j = Len(r)
  <2>1. PICK k \in 1..Len(q) : k < Len(q) /\ q[k] = p[i]
    BY <1>2
  <2> QED
    BY <1>0, <1>1, <1>2, <1>3, <2>1
<1>4. CASE j # Len(r)
  <2>1. j \in 1..Len(p)
    BY <1>0, <1>4
  <2>2. r[j] = p[j]
    BY <1>1, <2>1
  <2> QED
    BY <1>2, <2>1, <2>2 DEF InOrder
<1> QED
  BY <1>3, <1>4

LEMMA OrderKept == TypeInv /\ OrderInv /\ [Next]_vars => OrderInv'
<1> SUFFICES ASSUME TypeInv, OrderInv, [Next]_vars, Guarded PROVE OrderInv'
  BY DEF OrderInv
<1>0. /\ spc \in [Senders -> SenderStates]
      /\ accepted \in Seq(Senders) /\ built \in Seq(Senders)
  BY DEF TypeInv, TypeOK
<1> USE <1>0
    DEF OrderInv, OneBuilds, LastBuilt, AcceptedWasBuilt, GuardOrder, Building,
        Queued, queueVars, writerVars, SenderMoves
<1>1. CASE Quiet
  BY <1>1 DEF Quiet
<1>2. ASSUME NEW s \in Senders, LockSend(s) PROVE OrderInv'
  BY <1>2 DEF LockSend, LockFree
<1>3. ASSUME NEW s \in Senders, BuildFrame(s) PROVE OrderInv'
  <2>1. /\ spc[s] = "build" /\ spc' = [spc EXCEPT ![s] = "enqueue"]
        /\ built' = Append(built, s) /\ accepted' = accepted
    BY <1>3 DEF BuildFrame
  <2>2. /\ Len(built') = Len(built) + 1 /\ built'[Len(built')] = s
        /\ \A k \in 1..Len(built) : k \in 1..Len(built') /\ built'[k] = built[k]
    BY <2>1
  <2>3. OneBuilds' /\ LastBuilt'
    BY <2>1, <2>2
  <2>4. AcceptedWasBuilt'
    BY <2>1, <2>2
  <2>5. GuardOrder'
    BY <2>1, InOrderOfLonger
  <2> QED
    BY <2>3, <2>4, <2>5
<1>4. ASSUME NEW s \in Senders, Enqueue(s) PROVE OrderInv'
  <2>1. /\ spc[s] = "enqueue" /\ spc' = [spc EXCEPT ![s] = "await"]
        /\ accepted' = Append(accepted, s) /\ built' = built
    BY <1>4 DEF Enqueue
  <2>2. /\ Len(accepted') = Len(accepted) + 1 /\ accepted'[Len(accepted')] = s
        /\ \A i \in 1..Len(accepted) : accepted'[i] = accepted[i]
    BY <2>1
  <2>3. Len(built) > 0 /\ built[Len(built)] = s
    BY <2>1
  <2>4. OneBuilds' /\ LastBuilt'
    BY <2>1
  <2>5. AcceptedWasBuilt'
    BY <2>1, <2>2, <2>3
  <2>6. \A i \in 1..Len(accepted) :
          \E k \in 1..Len(built) : k < Len(built) /\ built[k] = accepted[i]
    <3>1. ASSUME NEW i \in 1..Len(accepted)
          PROVE  \E k \in 1..Len(built) : k < Len(built) /\ built[k] = accepted[i]
      <4>1. PICK k \in 1..Len(built) : built[k] = accepted[i]
        OBVIOUS
      <4>2. accepted[i] # s
        BY <2>1
      <4> QED
        BY <2>3, <4>1, <4>2
    <3> QED
      BY <3>1
  <2>7. InOrder(Append(accepted, s), built)
    BY <2>3, <2>6, LastInOrder
  <2>8. GuardOrder'
    BY <2>1, <2>7
  <2> QED
    BY <2>4, <2>5, <2>8
<1>5. ASSUME NEW s \in Senders, AwaitWrite(s) PROVE OrderInv'
  <2>1. \E from \in {"await", "grace"}, to \in {"sent", "failed", "grace"} :
          spc[s] = from /\ spc' = [spc EXCEPT ![s] = to]
    BY <1>5 DEF AwaitWrite
  <2>2. accepted' = accepted /\ built' = built
    BY <1>5 DEF AwaitWrite
  <2>3. OneBuilds' /\ LastBuilt' /\ AcceptedWasBuilt'
    BY <2>1, <2>2
  <2>4. GuardOrder'
    BY <2>2
  <2> QED
    BY <2>3, <2>4
<1>6. ASSUME UNCHANGED <<spc, accepted, built>> PROVE OrderInv'
  BY <1>6
<1>7. ASSUME NEW d \in Sealers, QueueMarker(d) PROVE OrderInv'
  BY <1>6, <1>7 DEF QueueMarker
<1>8. CASE TakeFrame \/ WriteFrame \/ WriteFails \/ ReportWrite \/ WriterStops
  BY <1>6, <1>8 DEF TakeFrame, WriteFrame, WriteFails, ReportWrite, WriterStops
<1> QED
  BY <1>1, <1>2, <1>3, <1>4, <1>5, <1>7, <1>8, StepKinds DEF Telling

(***************************************************************************)
(* Loss.  A frame whose write failed ended the write loop: nothing is      *)
(* taken, written or drained after it.                                     *)
(***************************************************************************)
LossInv ==
  /\ wpc = "failing" => AnyLost
  /\ AnyLost => wpc \in {"failing", "done"} /\ ~drained

LEMMA LossKept == TypeInv /\ AccountInv /\ LossInv /\ [Next]_vars => LossInv'
<1> SUFFICES ASSUME TypeInv, AccountInv, LossInv, [Next]_vars PROVE LossInv'
  OBVIOUS
<1> USE DEF LossInv, AnyLost, TypeInv, TypeOK, queueVars, writerVars, SenderMoves
<1>1. CASE Quiet
  BY <1>1 DEF Quiet
<1>2. ASSUME NEW s \in Senders,
             LockSend(s) \/ BuildFrame(s) \/ Enqueue(s) \/ AwaitWrite(s)
      PROVE  LossInv'
  BY <1>2 DEF LockSend, BuildFrame, Enqueue, AwaitWrite
<1>3. ASSUME NEW d \in Sealers, QueueMarker(d) PROVE LossInv'
  BY <1>3 DEF QueueMarker
<1>4. CASE TakeFrame
  BY <1>4 DEF TakeFrame
<1>5. CASE WriteFrame
  BY <1>5 DEF WriteFrame
<1>6. CASE WriteFails
  BY <1>6 DEF WriteFails
<1>7. CASE WriterStops
  BY <1>7 DEF WriterStops, AccountInv
<1>8. CASE ReportWrite
  BY <1>8 DEF ReportWrite, AccountInv, Holding
<1> QED
  BY <1>1, <1>2, <1>3, <1>4, <1>5, <1>6, <1>7, <1>8, StepKinds DEF Telling

(***************************************************************************)
(* The theorems.                                                           *)
(***************************************************************************)
IInv ==
  /\ TypeInv /\ MarkerInv /\ AccountInv /\ ResultInv /\ CancelInv /\ TaskInv
  /\ OrderInv /\ LossInv

LEMMA InitInv == Init => IInv
<1> SUFFICES ASSUME Init PROVE IInv
  OBVIOUS
<1> USE CapAssumption, NamesAssumption
    DEF Init, Senders, Sealers
<1>1. TypeInv
  <2>1. spc \in [Senders -> SenderStates] /\ dpc \in [Sealers -> SealerStates]
    BY DEF SenderStates, SealerStates
  <2>2. /\ ctx \in [Users \cup Shutdowns -> {"live", "early", "late"}]
        /\ sent \in [Senders -> {"none", "ok", "err"}]
        /\ dres \in [Shutdowns -> Failures \cup {"nil", "closing"}]
        /\ cpc \in [Closers -> {"idle", "join", "returned"}]
    BY DEF Failures
  <2>3. /\ writes \in Seq(Senders \cup {Marker}) /\ Len(writes) <= Cap
        /\ accepted \in Seq(Senders) /\ built \in Seq(Senders)
           /\ wire \in Seq(Senders)
    OBVIOUS
  <2> QED
    BY <2>1, <2>2, <2>3 DEF TypeInv, TypeOK, Failures, Holding
<1>2. MarkerInv
  BY DEF MarkerInv, InQueue, Marking, Enqueuing, MarkerIsLast
<1>3. AccountInv
  BY DEF AccountInv, Handed, Holding, Marked, InQueue, Lost
<1>4. ResultInv
  BY DEF ResultInv
<1>5. CancelInv
  BY DEF CancelInv, CancelSparesDrain
<1>6. TaskInv
  BY DEF TaskInv, TasksDone, Sealers
<1>7. OrderInv
  BY DEF OrderInv, OneBuilds, LastBuilt, AcceptedWasBuilt, GuardOrder, InOrder,
         Building
<1>8. LossInv
  BY DEF LossInv, AnyLost
<1> QED
  BY <1>1, <1>2, <1>3, <1>4, <1>5, <1>6, <1>7, <1>8 DEF IInv

\* The inductive invariant: what every reachable state of every connection
\* satisfies, whatever the senders, the capacity and the guard.
THEOREM Inductive == Spec => []IInv
<1>1. IInv /\ [Next]_vars => IInv'
  BY TypeStep, MarkerKept, AccountKept, ResultKept, CancelKept, TaskKept,
     OrderKept, LossKept DEF IInv
<1> QED
  BY InitInv, <1>1, PTL DEF Spec

\* Every variable has its type (TypeOK), for every connection.
THEOREM TypeCorrect == Spec => []TypeOK
<1>1. IInv => TypeOK
  BY DEF IInv, TypeInv
<1> QED
  BY Inductive, <1>1, PTL

\* No frame is ever queued behind the drain marker and no second marker is
\* queued (MarkerIsLast): the seal, enqueuing and the CAS in seal suffice.
THEOREM MarkerStaysLast == Spec => []MarkerIsLast
<1>1. IInv => MarkerIsLast
  BY DEF IInv, MarkerInv
<1> QED
  BY Inductive, <1>1, PTL

\* A drained connection has written every frame it accepted.
LEMMA DrainedIsFlushed == ASSUME IInv, drained PROVE wire = accepted
<1>1. /\ wire \in Seq(Senders) /\ accepted \in Seq(Senders)
      /\ writes \in Seq(Senders \cup {Marker})
  BY DEF IInv, TypeInv, TypeOK
<1>2. Len(writes) = 0 /\ ~InQueue
  BY <1>1 DEF IInv, MarkerInv, MarkerIsLast, InQueue
<1>3. Len(wire) = Len(accepted)
  BY <1>1, <1>2 DEF IInv, AccountInv, Lost, Handed, Holding, Marked
<1>4. \A i \in 1..Len(wire) : wire[i] = accepted[i]
  BY DEF IInv, AccountInv
<1> QED
  BY <1>1, <1>3, <1>4, SeqEqual

\* A Shutdown that returns nil, and a connection that stopped with EOF, wrote
\* every frame ever queued, in order (NilMeansFlushed).
THEOREM NilIsFlushed == Spec => []NilMeansFlushed
<1>1. IInv => NilMeansFlushed
  BY DrainedIsFlushed DEF IInv, ResultInv, NilMeansFlushed
<1> QED
  BY Inductive, <1>1, PTL

\* The wire is a prefix of what was queued, and a sender told "sent" has its
\* frame on it (SentIsWritten).
THEOREM SentIsOnWire == Spec => []SentIsWritten
<1>1. ASSUME IInv PROVE SentIsWritten
  <2>1. wire \in Seq(Senders) /\ accepted \in Seq(Senders)
    BY <1>1 DEF IInv, TypeInv, TypeOK
  <2>2. Len(wire) <= Len(accepted) /\ \A i \in 1..Len(wire) : wire[i] = accepted[i]
    BY <1>1 DEF IInv, AccountInv
  <2>3. SubSeq(wire, 1, Len(wire)) = SubSeq(accepted, 1, Len(wire))
    <3>1. /\ SubSeq(wire, 1, Len(wire)) \in Seq(Senders)
          /\ SubSeq(accepted, 1, Len(wire)) \in Seq(Senders)
          /\ Len(SubSeq(wire, 1, Len(wire))) = Len(wire)
          /\ Len(SubSeq(accepted, 1, Len(wire))) = Len(wire)
      BY <2>1, <2>2
    <3>2. \A i \in 1..Len(wire) : SubSeq(wire, 1, Len(wire))[i] = SubSeq(accepted,
          1, Len(wire))[i]
      BY <2>1, <2>2
    <3> QED
      BY <3>1, <3>2, SeqEqual
  <2>4. IsPrefix(wire, accepted)
    BY <2>2, <2>3 DEF IsPrefix
  <2>5. \A s \in Senders : spc[s] = "sent" => s \in Range(wire)
    BY <1>1, <2>1 DEF IInv, ResultInv, Range
  <2> QED
    BY <2>4, <2>5 DEF SentIsWritten
<1> QED
  BY Inductive, <1>1, PTL

\* A ctx that ends during the drain never stops the connection
\* (CancelSparesDrain).
THEOREM LateCancelIsHarmless == Spec => []CancelSparesDrain
<1>1. IInv => CancelSparesDrain
  BY DEF IInv, CancelInv
<1> QED
  BY Inductive, <1>1, PTL

\* A connection stops with EOF only when every handler has returned and been
\* answered (EOFWaitsForTasks).
THEOREM EOFIsLast == Spec => []EOFWaitsForTasks
<1>1. IInv => EOFWaitsForTasks
  BY DEF IInv, TaskInv, TasksDone, EOFWaitsForTasks
<1> QED
  BY Inductive, <1>1, PTL

\* Once the queue is sealed it stays sealed and no further sender is admitted
\* (SealIsFinal).
THEOREM SealHolds == Spec => SealIsFinal
<1>1. IInv /\ [Next]_vars => [sealed => sealed'
      /\ Enqueuing' \subseteq Enqueuing]_vars
  BY SealStep DEF IInv, StaysSealed
<1> QED
  BY Inductive, <1>1, PTL DEF Spec, SealIsFinal

\* With a guard, frames are queued in the order the guard saw (GuardOrder): the
\* send lock is held from the guard to the queue.
THEOREM GuardKeepsOrder == Spec => []GuardOrder
<1>1. IInv => GuardOrder
  BY DEF IInv, OrderInv, GuardOrder
<1> QED
  BY Inductive, <1>1, PTL

(***************************************************************************)
(* The refinement.  The steps that touch a frame map to the steps of       *)
(* OrderlyOutput, action by action, and every other one to a stutter.      *)
(***************************************************************************)
Told == {s \in Senders : spc[s] = "sent"}

\* What is queued before the marker, and what becomes of it.
LEMMA UnmarkedAppend ==
  ASSUME TypeInv, NEW s \in Senders, ~InQueue, writes' = Append(writes, s)
  PROVE  Unmarked' = Append(Unmarked, s)
<1>1. writes \in Seq(Senders \cup {Marker})
  BY DEF TypeInv, TypeOK
<1>2. Unmarked = writes
  BY <1>1 DEF Unmarked, InQueue
<1>3. /\ Append(writes, s) # <<>>
      /\ Append(writes, s)[Len(Append(writes, s))] = s
  BY <1>1
<1>4. s # Marker
  BY NamesAssumption
<1> QED
  BY <1>2, <1>3, <1>4 DEF Unmarked

LEMMA UnmarkedMark ==
  ASSUME TypeInv, ~InQueue, writes' = Append(writes, Marker)
  PROVE  Unmarked' = Unmarked
<1>1. writes \in Seq(Senders \cup {Marker})
  BY DEF TypeInv, TypeOK
<1>2. Unmarked = writes
  BY <1>1 DEF Unmarked, InQueue
<1>3. /\ Append(writes, Marker) # <<>>
      /\ Append(writes, Marker)[Len(Append(writes, Marker))] = Marker
  BY <1>1
<1>4. Front(Append(writes, Marker)) = writes
  BY <1>1 DEF Front
<1> QED
  BY <1>2, <1>3, <1>4 DEF Unmarked

LEMMA UnmarkedTail ==
  ASSUME TypeInv, MarkerIsLast, writes # <<>>, writes' = Tail(writes)
  PROVE  /\ Head(writes) = Marker => Unmarked = <<>> /\ Unmarked' = <<>>
         /\ Head(writes) # Marker =>
              /\ Unmarked # <<>> /\ Head(Unmarked) = Head(writes)
              /\ Unmarked' = Tail(Unmarked)
<1>1. writes \in Seq(Senders \cup {Marker}) /\ Len(writes) > 0
  BY DEF TypeInv, TypeOK
<1>2. Head(writes) = writes[1]
  BY <1>1
<1>3. ASSUME Head(writes) = Marker PROVE Unmarked = <<>> /\ Unmarked' = <<>>
  <2>1. Len(writes) = 1
    <3>1. Len(writes) \in Nat /\ 1 \in 1..Len(writes)
      BY <1>1
    <3>2. writes[1] = Marker => 1 = Len(writes)
      BY <3>1 DEF MarkerIsLast
    <3> QED
      BY <1>2, <1>3, <3>2
  <2>2. Tail(writes) = <<>> /\ Front(writes) = <<>>
    BY <1>1, <2>1 DEF Front
  <2> QED
    BY <1>2, <1>3, <2>1, <2>2 DEF Unmarked
<1>4. ASSUME Head(writes) # Marker
      PROVE  /\ Unmarked # <<>> /\ Head(Unmarked) = Head(writes)
             /\ Unmarked' = Tail(Unmarked)
  <2>1. CASE writes[Len(writes)] = Marker
    <3>1. Len(writes) > 1
      BY <1>1, <1>2, <1>4, <2>1
    <3>2. Unmarked = Front(writes)
      BY <1>1, <2>1 DEF Unmarked
    <3>3. Front(writes) # <<>> /\ Head(Front(writes)) = Head(writes)
      <4>1. /\ Front(writes) \in Seq(Senders \cup {Marker})
            /\ Len(Front(writes)) = Len(writes) - 1
            /\ \A i \in 1..(Len(writes) - 1) : Front(writes)[i] = writes[i]
        BY <1>1, <3>1, SubSeqProperties DEF Front
      <4>2. Len(Front(writes)) > 0
        BY <1>1, <3>1, <4>1
      <4>3. Front(writes)[1] = writes[1]
        BY <1>1, <3>1, <4>1
      <4> QED
        BY <1>2, <4>1, <4>2, <4>3
    <3>4. Tail(writes) # <<>> /\ Tail(writes)[Len(Tail(writes))] = Marker
      <4>1. /\ Tail(writes) \in Seq(Senders \cup {Marker})
            /\ Len(Tail(writes)) = Len(writes) - 1
            /\ \A i \in 1..(Len(writes) - 1) : Tail(writes)[i] = writes[i + 1]
        BY <1>1
      <4>2. Len(writes) - 1 \in 1..(Len(writes) - 1)
        BY <1>1, <3>1
      <4>3. Tail(writes)[Len(writes) - 1] = writes[Len(writes)]
        BY <1>1, <4>1, <4>2
      <4>4. Len(Tail(writes)) > 0
        BY <1>1, <3>1, <4>1
      <4> QED
        BY <2>1, <4>1, <4>3, <4>4
    <3>5. Front(Tail(writes)) = Tail(Front(writes))
      BY <1>1, <3>1 DEF Front
    <3> QED
      BY <3>2, <3>3, <3>4, <3>5 DEF Unmarked
  <2>2. CASE writes[Len(writes)] # Marker
    <3>1. Unmarked = writes
      BY <2>2 DEF Unmarked
    <3>2. Tail(writes) = <<>> \/ Tail(writes)[Len(Tail(writes))] # Marker
      BY <1>1, <2>2
    <3>3. Unmarked' = Tail(writes)
      BY <3>2 DEF Unmarked
    <3> QED
      BY <3>1, <3>3
  <2> QED
    BY <2>1, <2>2
<1> QED
  BY <1>3, <1>4

\* The state of the abstract output.
Current == IF wpc \in {"writing", "broken", "failing"} \/ AnyLost THEN <<hand>> ELSE <<>>
Course == IF drained THEN "drained" ELSE IF AnyLost THEN "lost" ELSE "open"

LEMMA OrderlyStep ==
  IInv /\ IInv' /\ [Next]_vars => [Orderly!Next]_(Orderly!vars)
<1> SUFFICES ASSUME IInv, IInv', [Next]_vars
             PROVE  [Orderly!Next]_(Orderly!vars)
  OBVIOUS
<1>0. /\ TypeInv /\ MarkerInv /\ AccountInv /\ ResultInv /\ LossInv
      /\ AccountInv' /\ LossInv'
  BY DEF IInv
<1>1. ASSUME UNCHANGED <<Unmarked, Current, wire, Told, Course>>
      PROVE  [Orderly!Next]_(Orderly!vars)
  BY <1>1 DEF Orderly!vars, Current, Told, Course
<1>2. CASE Quiet
  <2>1. UNCHANGED <<Unmarked, Current, wire, Course>>
    BY <1>2 DEF Quiet, Unmarked, Current, Course, AnyLost, queueVars, writerVars
  <2>2. Told' = Told
    BY <1>2 DEF Quiet, Told
  <2> QED
    BY <1>1, <2>1, <2>2
<1>3. ASSUME NEW s \in Senders, LockSend(s) \/ BuildFrame(s)
      PROVE  [Orderly!Next]_(Orderly!vars)
  <2>1. UNCHANGED <<writes, wpc, hand, sent, drained, wire>>
    BY <1>3 DEF LockSend, BuildFrame, queueVars, writerVars
  <2>2. Told' = Told
    BY <1>0, <1>3 DEF LockSend, BuildFrame, SenderMoves, Told, TypeInv, TypeOK
  <2> QED
    BY <1>1, <2>1, <2>2 DEF Unmarked, Current, Course, AnyLost
<1>4. ASSUME NEW s \in Senders, Enqueue(s) PROVE Orderly!Accept
  <2>1. /\ UNCHANGED <<wpc, hand, sent, drained, wire>>
        /\ writes' = Append(writes, s)
    BY <1>4 DEF Enqueue, writerVars
  <2>2. ~InQueue /\ ~drained
    BY <1>0, <1>4 DEF MarkerInv, Enqueue, SenderMoves, Enqueuing
  <2>3. Told' = Told
    BY <1>0, <1>4 DEF Enqueue, SenderMoves, Told, TypeInv, TypeOK
  <2>4. Unmarked' = Append(Unmarked, s)
    BY <1>0, <2>1, <2>2, UnmarkedAppend
  <2>5. UNCHANGED <<Current, wire, Told, Course>> /\ Course # "drained"
    BY <2>1, <2>2, <2>3 DEF Current, Course, AnyLost
  <2> QED
    BY <2>4, <2>5 DEF Orderly!Accept, Current, Course, Told
<1>5. ASSUME NEW s \in Senders, AwaitWrite(s)
      PROVE  [Orderly!Next]_(Orderly!vars)
  <2>1. UNCHANGED <<writes, wpc, hand, sent, drained, wire>>
    BY <1>5 DEF AwaitWrite, queueVars, writerVars
  <2>2. UNCHANGED <<Unmarked, Current, wire, Course>>
    BY <2>1 DEF Unmarked, Current, Course, AnyLost
  <2>3. \/ sent[s] = "ok" /\ Told' = Told \cup {s}
        \/ Told' = Told
    BY <1>0, <1>5 DEF AwaitWrite, SenderMoves, Told, TypeInv, TypeOK
  <2>4. CASE Told' = Told
    BY <1>1, <2>2, <2>4
  <2>5. CASE sent[s] = "ok" /\ Told' = Told \cup {s}
    <3>1. \E i \in 1..Len(wire) : wire[i] = s
      BY <1>0, <2>5 DEF ResultInv
    <3>2. Orderly!Tell
      BY <2>2, <2>5, <3>1 DEF Orderly!Tell, Current, Course, Told
    <3> QED
      BY <3>2 DEF Orderly!Next
  <2> QED
    BY <2>3, <2>4, <2>5
<1>6. ASSUME NEW d \in Sealers, QueueMarker(d)
      PROVE  [Orderly!Next]_(Orderly!vars)
  <2>1. /\ UNCHANGED <<spc, wpc, hand, sent, drained, wire>>
        /\ writes' = Append(writes, Marker)
    BY <1>6 DEF QueueMarker, writerVars
  <2>2. ~InQueue
    BY <1>0, <1>6 DEF MarkerInv, QueueMarker, SealerMoves, Marking
  <2>3. Unmarked' = Unmarked
    BY <1>0, <2>1, <2>2, UnmarkedMark
  <2> QED
    BY <1>1, <2>1, <2>3 DEF Current, Course, AnyLost, Told
<1>7. CASE TakeFrame
  <2>1. /\ UNCHANGED <<spc, sent, wire>> /\ wpc = "idle"
        /\ writes # <<>> /\ writes' = Tail(writes)
    BY <1>7 DEF TakeFrame
  <2>2. MarkerIsLast /\ ~drained /\ ~AnyLost /\ ~AnyLost'
    BY <1>0, <2>1 DEF MarkerInv, AccountInv, LossInv, AnyLost
  <2>3. Course = "open" /\ Current = <<>> /\ Told' = Told
    BY <2>1, <2>2 DEF Course, Current, Told
  <2>4. CASE Head(writes) = Marker
    <3>1. wpc' = "done" /\ drained'
      BY <1>7, <2>4 DEF TakeFrame
    <3>2. Course' = "drained" /\ Current' = <<>>
      BY <2>2, <3>1 DEF Course, Current
    <3>3. Unmarked = <<>> /\ Unmarked' = <<>>
      BY <1>0, <2>1, <2>2, <2>4, UnmarkedTail
    <3>4. Orderly!Drain
      BY <2>1, <2>3, <3>2, <3>3 DEF Orderly!Drain, Current, Course, Told
    <3> QED
      BY <3>4 DEF Orderly!Next
  <2>5. CASE Head(writes) # Marker
    <3>1. wpc' = "writing" /\ hand' = Head(writes) /\ drained' = drained
      BY <1>7, <2>5 DEF TakeFrame
    <3>2. Course' = "open" /\ Current' = <<Head(writes)>>
      BY <2>2, <3>1 DEF Course, Current
    <3>3. /\ Unmarked # <<>> /\ Head(Unmarked) = Head(writes)
          /\ Unmarked' = Tail(Unmarked)
      BY <1>0, <2>1, <2>2, <2>5, UnmarkedTail
    <3>4. Orderly!Take
      BY <2>1, <2>3, <3>2, <3>3 DEF Orderly!Take, Current, Course, Told
    <3> QED
      BY <3>4 DEF Orderly!Next
  <2> QED
    BY <2>4, <2>5
<1>8. CASE WriteFrame
  <2>1. /\ UNCHANGED <<spc, sent, writes, hand, drained>> /\ wpc = "writing"
        /\ wpc' = "written" /\ wire' = Append(wire, hand)
    BY <1>8 DEF WriteFrame, queueVars
  <2>2. ~drained /\ ~AnyLost /\ ~AnyLost'
    BY <1>0, <2>1 DEF AccountInv, LossInv, AnyLost
  <2>3. /\ Course = "open" /\ Course' = "open"
        /\ Current = <<hand>> /\ Current' = <<>>
    BY <2>1, <2>2 DEF Course, Current
  <2>4. wire' = wire \o Current
    <3>1. wire \in Seq(Senders) /\ hand \in Senders
      BY <1>0, <2>1 DEF TypeInv, TypeOK, Holding
    <3> QED
      BY <2>1, <2>3, <3>1
  <2>5. Orderly!Write
    BY <2>1, <2>3, <2>4 DEF Orderly!Write, Unmarked, Current, Course, Told
  <2> QED
    BY <2>5 DEF Orderly!Next
<1>9. CASE WriteFails
  <2>1. /\ UNCHANGED <<spc, sent, writes, hand, drained, wire>>
        /\ wpc = "writing" /\ wpc' = "broken"
    BY <1>9 DEF WriteFails, queueVars
  <2>2. Current' = Current
    BY <2>1 DEF AnyLost, Current
  <2> QED
    BY <1>1, <2>1, <2>2 DEF Unmarked, Course, AnyLost, Told
<1>11. CASE ReportWrite
  <2>1. /\ UNCHANGED <<spc, writes, hand, drained, wire>>
        /\ UNCHANGED <<Unmarked, Told>>
    BY <1>11 DEF ReportWrite, queueVars, Unmarked, Told
  <2>2. ~drained /\ ~AnyLost
    BY <1>0, <1>11 DEF ReportWrite, AccountInv, LossInv
  <2>3. CASE wpc = "written"
    <3>1. wpc' = "idle" /\ sent' = [sent EXCEPT ![hand] = "ok"]
      BY <1>11, <2>3 DEF ReportWrite
    <3>2. ~AnyLost'
      BY <1>0, <2>2, <3>1 DEF AnyLost, TypeInv, TypeOK
    <3> QED
      BY <1>1, <2>1, <2>2, <2>3, <3>1, <3>2 DEF Course, Current
  <2>4. CASE wpc = "broken"
    <3>1. wpc' = "failing" /\ AnyLost'
      BY <1>0, <1>11, <2>4 DEF ReportWrite, LossInv
    <3>2. /\ Course = "open" /\ Course' = "lost"
          /\ Current = <<hand>> /\ Current' = <<hand>>
      BY <2>1, <2>2, <2>4, <3>1 DEF Course, Current
    <3>3. Orderly!Lose
      BY <2>1, <3>2 DEF Orderly!Lose, Current, Course, Told
    <3> QED
      BY <3>3 DEF Orderly!Next
  <2> QED
    BY <1>11, <2>3, <2>4 DEF ReportWrite
<1>10. CASE WriterStops
  <2>1. /\ UNCHANGED <<spc, sent, writes, hand, drained, wire>>
        /\ wpc \in {"idle", "failing"} /\ wpc' = "done"
    BY <1>10 DEF WriterStops, queueVars
  <2>2. Current' = Current
    BY <1>0, <2>1 DEF LossInv, AnyLost, Current
  <2> QED
    BY <1>1, <2>1, <2>2 DEF Unmarked, Course, AnyLost, Told
<1> QED
  BY <1>0, <1>2, <1>3, <1>4, <1>5, <1>6, <1>7, <1>8, <1>9, <1>10, <1>11,
     StepKinds DEF Telling, Orderly!Next

\* The connection's output implements the orderly output (ImplementsOrderly):
\* it loses, reorders and skips no frame on the way, claims no write that did
\* not happen, and drains only when nothing is left.
THEOREM OutputIsOrderly == Spec => ImplementsOrderly
<1>1. Init => Orderly!Init
  BY DEF Init, Orderly!Init, Unmarked, AnyLost
<1>2. IInv /\ IInv' /\ [Next]_vars => [Orderly!Next]_(Orderly!vars)
  BY OrderlyStep
<1> QED
  BY Inductive, <1>1, <1>2, PTL DEF Spec, ImplementsOrderly, Orderly!Spec
===============================================================================
