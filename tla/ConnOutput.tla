------------------------------ MODULE ConnOutput ------------------------------
(***************************************************************************)
(* The output half of a Connection (connection.go): the bounded queue      *)
(* `writes', the goroutines that queue frames on it, the write loop, and   *)
(* the three ways it ends: Shutdown's drain, the flush after the peer's    *)
(* clean EOF, and stop (Close, a transport failure, a write timeout).      *)
(*                                                                         *)
(* A frame is named by the goroutine that sends it; each sends one.  A     *)
(* pc names the statement a goroutine is about to run.  A frame's place in *)
(* `writes', the release of enqueuing and the release of sendLock are one  *)
(* step: nobody can tell them apart but by being delayed.                  *)
(***************************************************************************)
EXTENDS Naturals, Sequences, FiniteSets, SequencesExt

CONSTANTS
  Users,      \* goroutines in Notify, Call or CancelRequest, each with a ctx
  Tasks,      \* request handlers, which queue a response with c.ctx
  Answers,    \* malformed frames the read loop answers itself
  Shutdowns,  \* goroutines that call Shutdown, each with a ctx
  Closers,    \* goroutines that call Close
  Cap,        \* capacity of the channel c.writes (32 in the code)
  Guarded,    \* whether an outgoing or response guard is installed
  Marker,     \* the drain marker, outgoing{} with nil data
  Reader      \* the read loop

Senders == Users \cup Tasks \cup Answers
Sealers == Shutdowns \cup {Reader}

ASSUME CapAssumption == Cap \in Nat \ {0}
ASSUME GuardedAssumption == Guarded \in BOOLEAN
ASSUME NamesAssumption ==
  /\ Marker \notin Senders
  /\ Reader \notin Shutdowns
  /\ Users \cap (Tasks \cup Answers) = {}
  /\ Tasks \cap Answers = {}

VARIABLES
  spc,      \* where each sender is
  ctx,      \* the ctx of each user and Shutdown: "live", or ended "early" or
            \* "late", before or after the queue was sealed
  sent,     \* each frame's channel w.sent, of capacity 1
  writes,   \* the channel c.writes
  sealed,   \* c.shuttingDown
  serving,  \* c.serving is not cancelled
  wpc,      \* where the write loop is
  hand,     \* the frame the write loop took last
  drained,  \* c.drained is closed
  dpc,      \* where each Shutdown and the read loop are
  dres,     \* what each Shutdown will return
  cpc,      \* where each Close is
  failure,  \* c.failure, "none" until stop; c.ctx ends as it is set
  inClosed, \* c.in is closed, the end of stop's once.Do
  out,      \* c.out: "open", "closed", or "broken" when its Close failed
  wire,     \* the frames written to c.out, in order
  accepted, \* every frame ever queued, in order (history)
  built     \* every frame built under the guard, in order (history)

queueVars  == <<writes, accepted>>
writerVars == <<wpc, hand, drained, wire>>
stopVars   == <<failure, inClosed, out>>
drainVars  == <<dpc, dres>>
sealVars   == <<sealed, serving>>
vars == <<spc, ctx, sent, queueVars, sealVars, writerVars, drainVars, cpc,
          stopVars, built>>

(***************************************************************************)
(* What the goroutines see of one another.                                 *)
(***************************************************************************)
Enqueuing == {s \in Senders : spc[s] \in {"build", "enqueue"}}

LockFree ==
  Guarded => /\ \A s \in Senders : spc[s] \notin {"admit", "build", "enqueue"}
             /\ \A d \in Sealers : dpc[d] # "mark"

Stopped == failure # "none"
Ended(p) == p \in Users \cup Shutdowns /\ ctx[p] # "live"
HasRoom == Len(writes) < Cap

TasksDone ==
  \A s \in Tasks \cup Answers : spc[s] \in {"idle", "sent", "failed"}
LoopsDone == wpc = "done" /\ dpc[Reader] = "done"

Stop(err) == failure' = IF Stopped THEN failure ELSE err

\* closeOutput: the first call closes c.out, and its outcome is kept.
CloseOutput ==
  IF out = "open" THEN out' \in {"closed", "broken"} ELSE out' = out

Init ==
  /\ spc = [s \in Senders |-> "idle"]
  /\ ctx = [p \in Users \cup Shutdowns |-> "live"]
  /\ sent = [s \in Senders |-> "none"]
  /\ writes = <<>> /\ accepted = <<>> /\ built = <<>> /\ wire = <<>>
  /\ sealed = FALSE /\ serving = TRUE
  /\ wpc = "idle" /\ hand = Marker /\ drained = FALSE
  /\ dpc = [d \in Sealers |-> IF d = Reader THEN "read" ELSE "idle"]
  /\ dres = [d \in Shutdowns |-> "none"]
  /\ cpc = [c \in Closers |-> "idle"]
  /\ failure = "none" /\ inClosed = FALSE /\ out = "open"

(***************************************************************************)
(* Senders: queue, then awaitWrite.                                        *)
(***************************************************************************)
SenderMoves(s, from, to) == spc[s] = from /\ spc' = [spc EXCEPT ![s] = to]

\* The read loop is back at its next frame when answerFrame returns.
ReaderResumes(s) ==
  /\ dpc' = IF s \in Answers THEN [dpc EXCEPT ![Reader] = "read"] ELSE dpc
  /\ UNCHANGED dres

\* Anyone's ctx may end at any time.
EndCtx(p) ==
  /\ ctx[p] = "live"
  /\ ctx' = [ctx EXCEPT ![p] = IF sealed THEN "late" ELSE "early"]
  /\ UNCHANGED <<spc, sent, queueVars, sealVars, writerVars, drainVars, cpc,
                 stopVars, built>>

\* A handler returns with a response, or with ErrNoResponse.
HandlerReturns(t) ==
  /\ \E to \in {"queue", "failed"} : SenderMoves(t, "handle", to)
  /\ UNCHANGED <<ctx, sent, queueVars, sealVars, writerVars, drainVars, cpc,
                 stopVars, built>>

\* queue refuses at once when it is sealed.
BeginQueue(s) ==
  /\ SenderMoves(s, IF s \in Tasks THEN "queue" ELSE "idle",
                    IF sealed THEN "failed" ELSE "lock")
  /\ UNCHANGED <<ctx, sent, queueVars, sealVars, writerVars, drainVars, cpc,
                 stopVars, built>>

\* Mutant: the guard runs without sendLock.
LockSend_NoLock(s) ==
  /\ SenderMoves(s, "lock", "admit")
  /\ UNCHANGED <<ctx, sent, queueVars, sealVars, writerVars, drainVars, cpc,
                 stopVars, built>>

LockSend(s) ==
  /\ SenderMoves(s, "lock", "admit")
  /\ LockFree
  /\ UNCHANGED <<ctx, sent, queueVars, sealVars, writerVars, drainVars, cpc,
                 stopVars, built>>

\* Mutant: the seal is checked only before the lock is taken.
AdmitFrame_NoCheck(s) ==
  /\ SenderMoves(s, "admit", "build")
  /\ UNCHANGED <<ctx, sent, queueVars, sealVars, writerVars, drainVars, cpc,
                 stopVars, built>>

\* The seal is checked again, under sealMu, with the lock held.
AdmitFrame(s) ==
  /\ ~sealed
  /\ SenderMoves(s, "admit", "build")
  /\ UNCHANGED <<ctx, sent, queueVars, sealVars, writerVars, drainVars, cpc,
                 stopVars, built>>

\* Mutant: a sender waiting for room does not watch the connection.
LeaveQueue_NoStop(s) ==
  /\ \/ Guarded /\ (Stopped \/ Ended(s)) /\ SenderMoves(s, "lock", "failed")
     \/ sealed /\ SenderMoves(s, "admit", "failed")
     \/ s \notin Answers /\ SenderMoves(s, "build", "failed")
     \/ Ended(s) /\ SenderMoves(s, "enqueue", "failed")
  /\ ReaderResumes(s)
  /\ UNCHANGED <<ctx, sent, queueVars, sealVars, writerVars, cpc, stopVars,
                 built>>

\* A sender leaves the queue without its frame: the connection or its ctx
\* ended while it waited for the lock or for room, the queue was sealed
\* before it was admitted, or its frame was refused or could not be encoded.
LeaveQueue(s) ==
  /\ \/ /\ Guarded /\ (Stopped \/ Ended(s))
        /\ SenderMoves(s, "lock", "failed")
     \/ /\ sealed
        /\ SenderMoves(s, "admit", "failed")
     \/ /\ s \notin Answers
        /\ SenderMoves(s, "build", "failed")
     \/ /\ Stopped \/ Ended(s)
        /\ SenderMoves(s, "enqueue", "failed")
  /\ ReaderResumes(s)
  /\ UNCHANGED <<ctx, sent, queueVars, sealVars, writerVars, cpc, stopVars,
                 built>>

\* build runs the guard; its order is the order the guard saw.
BuildFrame(s) ==
  /\ SenderMoves(s, "build", "enqueue")
  /\ built' = Append(built, s)
  /\ UNCHANGED <<ctx, sent, queueVars, sealVars, writerVars, drainVars, cpc,
                 stopVars>>

Enqueue(s) ==
  /\ SenderMoves(s, "enqueue", "await")
  /\ HasRoom
  /\ writes' = Append(writes, s)
  /\ accepted' = Append(accepted, s)
  /\ ReaderResumes(s)
  /\ UNCHANGED <<ctx, sent, sealVars, writerVars, cpc, stopVars, built>>

\* awaitWrite and sentOr: a written frame's result wins over a stopped
\* connection's error.
AwaitWrite(s) ==
  /\ \/ sent[s] = "ok" /\ \E from \in {"await", "grace"} :
                            SenderMoves(s, from, "sent")
     \/ sent[s] = "err" /\ \E from \in {"await", "grace"} :
                             SenderMoves(s, from, "failed")
     \/ sent[s] = "none" /\ Stopped /\ \E from \in {"await", "grace"} :
                                         SenderMoves(s, from, "failed")
     \/ Ended(s) /\ SenderMoves(s, "await", "grace")
  /\ UNCHANGED <<ctx, sent, queueVars, sealVars, writerVars, drainVars, cpc,
                 stopVars, built>>

\* Mutant: a late write stops the connection even while it drains.
GraceExpires_NoSeal(u) ==
  /\ SenderMoves(u, "grace", "abort")
  /\ UNCHANGED <<ctx, sent, queueVars, sealVars, writerVars, drainVars, cpc,
                 stopVars, built>>

\* 250 ms after its ctx ended the frame is still not written.  The seal is
\* read here and acted on in the next step.
GraceExpires(u) ==
  /\ SenderMoves(u, "grace", IF sealed THEN "failed" ELSE "abort")
  /\ UNCHANGED <<ctx, sent, queueVars, sealVars, writerVars, drainVars, cpc,
                 stopVars, built>>

AbortWrite(u) ==
  /\ SenderMoves(u, "abort", "failed")
  /\ Stop("ctx")
  /\ UNCHANGED <<ctx, sent, queueVars, sealVars, writerVars, drainVars, cpc,
                 inClosed, out, built>>

SenderStep(s) ==
  \/ BeginQueue(s) /\ s \notin Answers
  \/ LockSend(s) \/ AdmitFrame(s) \/ LeaveQueue(s) \/ BuildFrame(s)
  \/ Enqueue(s) \/ AwaitWrite(s) \/ GraceExpires(s) \/ AbortWrite(s)

(***************************************************************************)
(* The write loop, and the rest of stop.                                   *)
(***************************************************************************)
TakeFrame ==
  /\ wpc = "idle" /\ writes # <<>>
  /\ writes' = Tail(writes)
  /\ IF Head(writes) = Marker
     THEN drained' = TRUE /\ wpc' = "done" /\ UNCHANGED hand
     ELSE hand' = Head(writes) /\ wpc' = "writing" /\ UNCHANGED drained
  /\ UNCHANGED <<spc, ctx, sent, accepted, sealVars, drainVars, cpc, stopVars,
                 wire, built>>

\* io.Copy returns: the peer has read the frame, whether or not the connection
\* has stopped meanwhile.
WriteFrame ==
  /\ wpc = "writing" /\ out = "open"
  /\ wire' = Append(wire, hand)
  /\ wpc' = "written"
  /\ UNCHANGED <<spc, ctx, sent, queueVars, sealVars, drainVars, cpc, stopVars,
                 hand, drained, built>>

\* io.Copy fails, as it must once c.out is closed.
WriteFails ==
  /\ wpc = "writing"
  /\ wpc' = "broken"
  /\ UNCHANGED <<spc, ctx, sent, queueVars, sealVars, drainVars, cpc, stopVars,
                 hand, drained, wire, built>>

\* Mutant: the write loop goes on after a failed write.
ReportWrite_GoOn ==
  /\ wpc \in {"written", "broken"}
  /\ sent' = [sent EXCEPT ![hand] = IF wpc = "written" THEN "ok" ELSE "err"]
  /\ wpc' = "idle"
  /\ UNCHANGED <<spc, ctx, queueVars, sealVars, drainVars, cpc, stopVars,
                 hand, drained, wire, built>>

\* w.sent <- err: until then the sender may learn first that the connection
\* stopped, and fail for a frame that was written.
ReportWrite ==
  /\ \/ /\ wpc = "written" /\ wpc' = "idle"
        /\ sent' = [sent EXCEPT ![hand] = "ok"]
     \/ /\ wpc = "broken" /\ wpc' = "failing"
        /\ sent' = [sent EXCEPT ![hand] = "err"]
  /\ UNCHANGED <<spc, ctx, queueVars, sealVars, drainVars, cpc, stopVars,
                 hand, drained, wire, built>>

WriterStops ==
  /\ \/ wpc = "failing" /\ Stop("write")
     \/ wpc = "idle" /\ Stopped /\ UNCHANGED failure
  /\ wpc' = "done"
  /\ UNCHANGED <<spc, ctx, sent, queueVars, sealVars, drainVars, cpc,
                 inClosed, out, hand, drained, wire, built>>

\* Mutant: stop leaves the output open.
CloseStreams_InOnly ==
  /\ Stopped /\ ~inClosed
  /\ inClosed' = TRUE
  /\ UNCHANGED <<spc, ctx, sent, queueVars, sealVars, writerVars, drainVars,
                 cpc, failure, out, built>>

\* The end of stop's once.Do: both streams are closed.
CloseStreams ==
  /\ Stopped /\ ~inClosed
  /\ inClosed' = TRUE
  /\ CloseOutput
  /\ UNCHANGED <<spc, ctx, sent, queueVars, sealVars, writerVars, drainVars,
                 cpc, failure, built>>

(***************************************************************************)
(* Shutdown, and the read loop's flush after EOF, which share the seal and *)
(* the marker.                                                             *)
(***************************************************************************)
SealerMoves(d, from, to) == dpc[d] = from /\ dpc' = [dpc EXCEPT ![d] = to]

BeginShutdown(d) ==
  /\ IF Ended(d)
     THEN SealerMoves(d, "idle", "stop") /\ dres' = [dres EXCEPT ![d] = "ctx"]
     ELSE SealerMoves(d, "idle", "seal") /\ UNCHANGED dres
  /\ UNCHANGED <<spc, ctx, sent, queueVars, sealVars, writerVars, cpc,
                 stopVars, built>>

\* seal is a compare-and-swap; only a Shutdown that wins it stops serving.
\* A read loop that loses it leaves the drain to the winner.
Seal(d) ==
  /\ IF sealed
     THEN /\ SealerMoves(d, "seal", IF d = Reader THEN "done" ELSE "wait")
          /\ UNCHANGED sealVars
     ELSE /\ SealerMoves(d, "seal", "settle")
          /\ sealed' = TRUE
          /\ serving' = (serving /\ d = Reader)
  /\ UNCHANGED <<spc, ctx, sent, queueVars, writerVars, dres, cpc, stopVars,
                 built>>

\* queueDrainMarker, first select: enqueuing has settled.
SendersSettle(d) ==
  /\ Enqueuing = {}
  /\ SealerMoves(d, "settle", "lock")
  /\ UNCHANGED <<spc, ctx, sent, queueVars, sealVars, writerVars, dres, cpc,
                 stopVars, built>>

LockMarker(d) ==
  /\ LockFree
  /\ SealerMoves(d, "lock", "mark")
  /\ UNCHANGED <<spc, ctx, sent, queueVars, sealVars, writerVars, dres, cpc,
                 stopVars, built>>

QueueMarker(d) ==
  /\ HasRoom
  /\ SealerMoves(d, "mark", "wait")
  /\ writes' = Append(writes, Marker)
  /\ UNCHANGED <<spc, ctx, sent, accepted, sealVars, writerVars, dres, cpc,
                 stopVars, built>>

\* Each select of queueDrainMarker also ends with ctx or the connection.
GiveUpMarker(d) ==
  /\ Stopped \/ Ended(d)
  /\ \E from \in {"settle", "mark"} \cup (IF Guarded THEN {"lock"} ELSE {}) :
       SealerMoves(d, from, "wait")
  /\ UNCHANGED <<spc, ctx, sent, queueVars, sealVars, writerVars, dres, cpc,
                 stopVars, built>>

\* drain's result: a completed drain wins over whatever ended meanwhile.
DrainCompletes(d) ==
  /\ drained
  /\ SealerMoves(d, "wait", "stop")
  /\ CloseOutput
  /\ dres' = [dres EXCEPT ![d] = IF out' = "closed" THEN "nil" ELSE "closing"]
  /\ UNCHANGED <<spc, ctx, sent, queueVars, sealVars, writerVars, cpc,
                 failure, inClosed, built>>

DrainEnds(d) ==
  /\ ~drained
  /\ Stopped \/ Ended(d)
  /\ SealerMoves(d, "wait", "reason")
  /\ UNCHANGED <<spc, ctx, sent, queueVars, sealVars, writerVars, dres, cpc,
                 stopVars, built>>

\* Mutant: a connection closed during the drain is no error either.
DrainReason_ClosedIsNil(d) ==
  /\ SealerMoves(d, "reason", "stop")
  /\ dres' = [dres EXCEPT ![d] = CASE ~Stopped -> "ctx"
                                   [] failure \in {"eof", "closed"} -> "nil"
                                   [] OTHER -> failure]
  /\ UNCHANGED <<spc, ctx, sent, queueVars, sealVars, writerVars, cpc,
                 stopVars, built>>

\* A stopped connection's reason wins over the deadline; EOF is no error.
DrainReason(d) ==
  /\ SealerMoves(d, "reason", "stop")
  /\ dres' = [dres EXCEPT ![d] = CASE ~Stopped -> "ctx"
                                   [] failure = "eof" -> "nil"
                                   [] OTHER -> failure]
  /\ UNCHANGED <<spc, ctx, sent, queueVars, sealVars, writerVars, cpc,
                 stopVars, built>>

ShutdownStops(d) ==
  /\ SealerMoves(d, "stop", "join")
  /\ Stop("closed")
  /\ UNCHANGED <<spc, ctx, sent, queueVars, sealVars, writerVars, dres, cpc,
                 inClosed, out, built>>

\* stop has returned, and so have the loops and the tasks.
ShutdownReturns(d) ==
  /\ inClosed /\ LoopsDone /\ TasksDone
  /\ SealerMoves(d, "join", "returned")
  /\ UNCHANGED <<spc, ctx, sent, queueVars, sealVars, writerVars, dres, cpc,
                 stopVars, built>>

CloseStops(c) ==
  /\ cpc[c] = "idle"
  /\ cpc' = [cpc EXCEPT ![c] = "join"]
  /\ Stop("closed")
  /\ UNCHANGED <<spc, ctx, sent, queueVars, sealVars, writerVars, drainVars,
                 inClosed, out, built>>

CloseReturns(c) ==
  /\ cpc[c] = "join" /\ inClosed /\ LoopsDone /\ TasksDone
  /\ cpc' = [cpc EXCEPT ![c] = "returned"]
  /\ UNCHANGED <<spc, ctx, sent, queueVars, sealVars, writerVars, drainVars,
                 stopVars, built>>

MarkerStep(d) ==
  \/ Seal(d) \/ SendersSettle(d) \/ LockMarker(d) \/ QueueMarker(d)
  \/ GiveUpMarker(d)

ShutdownStep(d) ==
  \/ MarkerStep(d) \/ DrainCompletes(d) \/ DrainEnds(d) \/ DrainReason(d)
  \/ ShutdownStops(d) \/ ShutdownReturns(d)

(***************************************************************************)
(* The read loop.  Frames that cause no output are left out.               *)
(***************************************************************************)
ReadRequest(t) ==
  /\ dpc[Reader] = "read" /\ ~sealed
  /\ SenderMoves(t, "idle", "handle")
  /\ UNCHANGED <<ctx, sent, queueVars, sealVars, writerVars, drainVars, cpc,
                 stopVars, built>>

\* answerFrame queues its frame on the read loop, which reads on after it.
ReadMalformed(a) ==
  /\ ~sealed
  /\ SealerMoves(Reader, "read", "answer")
  /\ SenderMoves(a, "idle", "lock")
  /\ UNCHANGED <<ctx, sent, queueVars, sealVars, writerVars, dres, cpc,
                 stopVars, built>>

ReadEOF ==
  /\ SealerMoves(Reader, "read", IF sealed THEN "done" ELSE "join")
  /\ UNCHANGED <<spc, ctx, sent, queueVars, sealVars, writerVars, dres, cpc,
                 stopVars, built>>

\* A read error, also that of a closed stream, or invalid UTF-8.
ReadFails ==
  /\ SealerMoves(Reader, "read", "fail")
  /\ UNCHANGED <<spc, ctx, sent, queueVars, sealVars, writerVars, dres, cpc,
                 stopVars, built>>

\* Mutant: the flush begins while handlers run.
TasksFinish_NoWait ==
  /\ SealerMoves(Reader, "join", "seal")
  /\ UNCHANGED <<spc, ctx, sent, queueVars, sealVars, writerVars, dres, cpc,
                 stopVars, built>>

\* After EOF the handlers finish first, then the flush seals the queue.
TasksFinish ==
  /\ TasksDone
  /\ SealerMoves(Reader, "join", "seal")
  /\ UNCHANGED <<spc, ctx, sent, queueVars, sealVars, writerVars, dres, cpc,
                 stopVars, built>>

\* Mutant: the flush waits only for the connection to stop.
FlushEnds_StopOnly ==
  /\ Stopped
  /\ SealerMoves(Reader, "wait", "stop")
  /\ UNCHANGED <<spc, ctx, sent, queueVars, sealVars, writerVars, dres, cpc,
                 stopVars, built>>

FlushEnds ==
  /\ drained \/ Stopped
  /\ SealerMoves(Reader, "wait", "stop")
  /\ UNCHANGED <<spc, ctx, sent, queueVars, sealVars, writerVars, dres, cpc,
                 stopVars, built>>

ReaderStops ==
  /\ \/ SealerMoves(Reader, "stop", "done") /\ Stop("eof")
     \/ SealerMoves(Reader, "fail", "done") /\ Stop("read")
  /\ UNCHANGED <<spc, ctx, sent, queueVars, sealVars, writerVars, dres, cpc,
                 inClosed, out, built>>

ReaderStep == MarkerStep(Reader) \/ TasksFinish \/ FlushEnds \/ ReaderStops
WriterStep == TakeFrame \/ ReportWrite \/ WriterStops

\* Every goroutine that called the connection has returned.
Terminated ==
  /\ LoopsDone /\ TasksDone /\ inClosed
  /\ \A u \in Users : spc[u] \in {"idle", "sent", "failed"}
  /\ \A d \in Shutdowns : dpc[d] \in {"idle", "returned"}
  /\ \A c \in Closers : cpc[c] \in {"idle", "returned"}
  /\ UNCHANGED vars

Next ==
  \/ \E p \in Users \cup Shutdowns : EndCtx(p)
  \/ \E t \in Tasks : HandlerReturns(t) \/ ReadRequest(t)
  \/ \E a \in Answers : ReadMalformed(a)
  \/ \E s \in Senders : SenderStep(s)
  \/ \E d \in Shutdowns : BeginShutdown(d) \/ ShutdownStep(d)
  \/ \E c \in Closers : CloseStops(c) \/ CloseReturns(c)
  \/ ReadEOF \/ ReadFails \/ ReaderStep
  \/ WriterStep \/ WriteFrame \/ WriteFails \/ CloseStreams
  \/ Terminated

Spec == Init /\ [][Next]_vars

(***************************************************************************)
(* Fairness.  The Go scheduler runs every goroutine that can run, and both *)
(* branches of a select whose one case stays ready are taken in the end.   *)
(* Handlers return once their context is cancelled, as Shutdown's comment  *)
(* requires of them; a read or a write of a closed stream fails.           *)
(***************************************************************************)
Goroutines ==
  /\ \A s \in Senders : WF_vars((s \in Tasks \/ spc[s] # "idle") /\ SenderStep(s))
  /\ \A t \in Tasks : WF_vars((~serving \/ Stopped) /\ HandlerReturns(t))
  /\ \A d \in Shutdowns : WF_vars(ShutdownStep(d))
  /\ \A c \in Closers : WF_vars(CloseReturns(c))
  /\ WF_vars(ReaderStep) /\ WF_vars(WriterStep) /\ WF_vars(CloseStreams)
  /\ WF_vars(inClosed /\ ReadFails)
  /\ WF_vars(out # "open" /\ WriteFails)

FairSpec == Spec /\ Goroutines

\* A peer that reads and handlers that return by themselves, for the flush.
PeerReads ==
  /\ WF_vars(WriteFrame)
  /\ \A t \in Tasks : WF_vars(HandlerReturns(t))

(***************************************************************************)
(* Properties.                                                             *)
(***************************************************************************)
SenderStates ==
  {"idle", "handle", "queue", "lock", "admit", "build", "enqueue", "await",
   "grace", "abort", "sent", "failed"}
SealerStates ==
  {"idle", "read", "answer", "join", "seal", "settle", "lock", "mark", "wait",
   "reason", "stop", "fail", "done", "returned"}
Failures == {"none", "closed", "ctx", "write", "read", "eof"}

\* Every variable has its type, for every connection.
TypeOK ==
  /\ spc \in [Senders -> SenderStates]
  /\ ctx \in [Users \cup Shutdowns -> {"live", "early", "late"}]
  /\ sent \in [Senders -> {"none", "ok", "err"}]
  /\ writes \in Seq(Senders \cup {Marker}) /\ Len(writes) <= Cap
  /\ accepted \in Seq(Senders) /\ built \in Seq(Senders)
  /\ wire \in Seq(Senders)
  /\ sealed \in BOOLEAN /\ serving \in BOOLEAN /\ drained \in BOOLEAN
  /\ wpc \in {"idle", "writing", "written", "broken", "failing", "done"}
  /\ hand \in Senders \cup {Marker}
  /\ dpc \in [Sealers -> SealerStates]
  /\ dres \in [Shutdowns -> Failures \cup {"nil", "closing"}]
  /\ cpc \in [Closers -> {"idle", "join", "returned"}]
  /\ failure \in Failures
  /\ inClosed \in BOOLEAN
  /\ out \in {"open", "closed", "broken"}

\* No frame is queued behind the drain marker, whatever senders passed the
\* seal check before it was set, and no marker is queued twice: once the
\* marker is taken the queue is empty (queueDrainMarker, admitFrame).
MarkerIsLast ==
  /\ \A i \in 1..Len(writes) : writes[i] = Marker => i = Len(writes)
  /\ drained => writes = <<>>

\* A Shutdown that returns nil, and a connection that stopped with EOF, wrote
\* every frame ever queued, in the order they were queued (Shutdown's comment).
NilMeansFlushed ==
  (failure = "eof" \/ \E d \in Shutdowns : dres[d] = "nil") => wire = accepted

\* A sender told that its frame was sent has it on the wire, and the wire has
\* no gap: what was written is what was queued first.
SentIsWritten ==
  /\ IsPrefix(wire, accepted)
  /\ \A s \in Senders : spc[s] = "sent" => s \in Range(wire)

\* Any two elements of p are elements of q, in the same order.
InOrder(p, q) ==
  \A i, j \in 1..Len(p) : i < j =>
    \E k, l \in 1..Len(q) : k < l /\ q[k] = p[i] /\ q[l] = p[j]

\* With a guard, frames are queued in the order the guard admitted them, so
\* none overtakes another (queue's comment).
GuardOrder == Guarded => InOrder(accepted, built)

\* A ctx that ends during the drain does not stop the connection (Shutdown's
\* comment): only a write whose ctx ended before the seal may abort it.
CancelSparesDrain == \A u \in Users : spc[u] = "abort" => ctx[u] # "late"

\* After EOF the connection stops by itself only when every handler has
\* returned and been answered (InputClosed's comment).
EOFWaitsForTasks ==
  failure = "eof" => \A s \in Tasks \cup Answers : spc[s] \in {"idle", "sent", "failed"}

\* Once the queue is sealed no further sender gets to queue a frame.
SealIsFinal == [][sealed => sealed' /\ Enqueuing' \subseteq Enqueuing]_vars

\* A Shutdown whose ctx ends returns, even if the peer never reads a frame;
\* Close returns, whatever the peer and every other goroutine do.
EndersReturn ==
  /\ \A d \in Shutdowns :
       (dpc[d] \notin {"idle", "returned"} /\ Ended(d)) ~> (dpc[d] = "returned")
  /\ \A c \in Closers : cpc[c] = "join" ~> cpc[c] = "returned"

\* A sender waiting for the lock, for room or for its write returns once the
\* connection stops.
StopFreesSenders ==
  \A s \in Senders : (Stopped /\ spc[s] \notin {"idle", "handle"})
                       ~> spc[s] \in {"sent", "failed"}

\* If the peer reads, its EOF stops the connection.
EOFStops == PeerReads => (dpc[Reader] = "join" ~> Stopped)

(***************************************************************************)
(* The abstract output, read off the connection's state.  A frame lost to  *)
(* a failed write stays its current one for good.                          *)
(***************************************************************************)
AnyLost == \E s \in Senders : sent[s] = "err"
Unmarked ==
  IF writes # <<>> /\ writes[Len(writes)] = Marker THEN Front(writes) ELSE writes

Orderly == INSTANCE OrderlyOutput WITH
  Frames  <- Senders,
  pending <- Unmarked,
  current <- IF wpc \in {"writing", "broken", "failing"} \/ AnyLost THEN <<hand>> ELSE <<>>,
  told    <- {s \in Senders : spc[s] = "sent"},
  state   <- IF drained THEN "drained" ELSE IF AnyLost THEN "lost" ELSE "open"

\* The connection's output implements the orderly output: queue, writeLoop and
\* drain lose, reorder and skip nothing, and tell no sender otherwise.
ImplementsOrderly == Orderly!Spec
===============================================================================
