------------------------------- MODULE ConnCalls -------------------------------
(***************************************************************************)
(* The calls of a Connection (connection.go): Call, the response that      *)
(* settles it on the read loop, and everything that races it: the caller's *)
(* context, a write that fails or comes late, Shutdown, Close and the      *)
(* peer's EOF.  The output queue is the one of ConnOutput without its      *)
(* locks: frames are taken and written in order.  A call's id is the call. *)
(***************************************************************************)
EXTENDS Naturals, Sequences, FiniteSets, SequencesExt

CONSTANTS
  Calls,      \* the calls, each made once
  Cap,        \* capacity of c.writes
  MaxAnswers  \* how many responses the peer may send (a bound)

ASSUME BoundsAssumption == Cap \in Nat \ {0} /\ MaxAnswers \in Nat
ASSUME CallsAssumption == Calls # {}

\* The frames: a call's request, and the $/cancel_request that follows when
\* its caller gives up.
Request(c) == [kind |-> "request", call |-> c]
Cancel(c) == [kind |-> "cancel", call |-> c]
Frames == [kind : {"request", "cancel"}, call : Calls]
NoFrame == [kind |-> "none"]

VARIABLES
  guarded,   \* the guards of a v2 role are installed: one may refuse a request,
             \* one must see its response
  pc,        \* where each Call is
  ctx,       \* "live" or "ended" for each caller's context
  pending,   \* the keys of c.pending
  reply,     \* each call's one-slot channel: "none" or what it holds
  begun,     \* calls the outgoing guard admitted
  settled,   \* how often each call was settled (history)
  early,     \* calls the read loop settled before a write failed or the
             \* connection stopped (history)
  ret,       \* what each Call returned: "none", "answer", "ctx", "error"
  writes,    \* c.writes
  wpc,       \* the write loop: "loop", "failed" at its stop, or "done"
  hand,      \* the frame the write loop is writing
  sent,      \* each frame's w.sent
  wire,      \* the frames the peer has received, in order
  inbox,     \* the responses on their way to the read loop, by call
  answers,   \* how often the peer answered each call
  peerOpen,  \* the peer has not closed its output
  rpc,       \* where the read loop is
  rcall,     \* the call it is settling, AnyCall when it is not
  sealed,    \* c.shuttingDown
  failure    \* c.failure; c.ctx ends as it is set

callVars == <<pc, ret>>
tableVars == <<pending, reply, begun, settled, early>>
outVars == <<writes, wpc, hand, sent, wire>>
peerVars == <<inbox, answers, peerOpen>>
readVars == <<rpc, rcall>>
endVars == <<guarded, sealed, failure>>
vars == <<callVars, ctx, tableVars, outVars, peerVars, readVars, endVars>>

Stopped == failure # "none"
\* The connection has stopped, or a failed write is about to stop it.
Ending == Stopped \/ wpc = "failed"
Ended(c) == ctx[c] = "ended"
Stop(err) == failure' = IF Stopped THEN failure ELSE err

AnyCall == CHOOSE c \in Calls : TRUE

Init ==
  /\ guarded \in BOOLEAN
  /\ pc = [c \in Calls |-> "idle"] /\ ret = [c \in Calls |-> "none"]
  /\ ctx = [c \in Calls |-> "live"]
  /\ pending = {} /\ reply = [c \in Calls |-> "none"]
  /\ begun = {} /\ early = {} /\ settled = [c \in Calls |-> 0]
  /\ writes = <<>> /\ wpc = "loop" /\ hand = NoFrame /\ wire = <<>>
  /\ sent = [f \in Frames |-> "none"]
  /\ inbox = <<>> /\ answers = [c \in Calls |-> 0] /\ peerOpen = TRUE
  /\ rpc = "read" /\ rcall = AnyCall
  /\ sealed = FALSE /\ failure = "none"

(***************************************************************************)
(* Call.                                                                   *)
(***************************************************************************)
Moves(c, from, to) == pc[c] = from /\ pc' = [pc EXCEPT ![c] = to]
Returns(c, from, r) == Moves(c, from, "returned") /\ ret' = [ret EXCEPT ![c] = r]

EndCtx(c) ==
  /\ ctx[c] = "live"
  /\ ctx' = [ctx EXCEPT ![c] = "ended"]
  /\ UNCHANGED <<callVars, tableVars, outVars, peerVars, readVars, endVars>>

\* A call whose ctx has ended does nothing; another takes an id and is
\* registered before its request can be queued.
BeginCall(c) ==
  /\ \/ Ended(c) /\ Returns(c, "idle", "ctx") /\ UNCHANGED pending
     \/ ~Ended(c) /\ Moves(c, "idle", "queue")
        /\ pending' = pending \cup {c} /\ UNCHANGED ret
  /\ UNCHANGED <<ctx, reply, begun, settled, early, outVars, peerVars, readVars,
                 endVars>>

\* queue refuses before build: the queue is sealed, or the connection or ctx
\* ended while the caller waited for the send lock; or the guard refuses.
QueueRefuses(c) ==
  /\ sealed \/ guarded
  /\ Moves(c, "queue", "forget")
  /\ UNCHANGED <<ret, ctx, tableVars, outVars, peerVars, readVars, endVars>>

\* The guard admits the request.  One whose params cannot be sent is settled
\* at once, as is one that cannot be queued.
QueueAdmits(c) ==
  /\ ~sealed
  /\ \E to \in {"enqueue", "abandon"} : Moves(c, "queue", to)
  /\ begun' = begun \cup {c}
  /\ UNCHANGED <<ret, ctx, pending, reply, settled, early, outVars, peerVars,
                 readVars, endVars>>

Enqueue(c) ==
  /\ Len(writes) < Cap
  /\ Moves(c, "enqueue", "await")
  /\ writes' = Append(writes, Request(c))
  /\ UNCHANGED <<ret, ctx, tableVars, wpc, hand, sent, wire, peerVars, readVars,
                 endVars>>

EnqueueGivesUp(c) ==
  /\ Stopped \/ Ended(c)
  /\ Moves(c, "enqueue", "abandon")
  /\ UNCHANGED <<ret, ctx, tableVars, outVars, peerVars, readVars, endVars>>

\* Mutant: a caller whose frame the write loop never takes waits for it.
AwaitWrite_NoStop(c) ==
  /\ LET result == sent[Request(c)] IN
     \E from \in {"await", "grace"} :
       \/ result = "ok" /\ Moves(c, from, "answer")
       \/ result = "err" /\ Moves(c, from, "failed")
       \/ from = "await" /\ Ended(c) /\ Moves(c, from, "grace")
  /\ UNCHANGED <<ret, ctx, tableVars, outVars, peerVars, readVars, endVars>>

\* awaitWrite, as in ConnOutput.
AwaitWrite(c) ==
  /\ LET result == sent[Request(c)] IN
     \E from \in {"await", "grace"} :
       \/ result = "ok" /\ Moves(c, from, "answer")
       \/ result = "err" /\ Moves(c, from, "failed")
       \/ result = "none" /\ Stopped /\ Moves(c, from, "failed")
       \/ from = "await" /\ Ended(c) /\ Moves(c, from, "grace")
  /\ UNCHANGED <<ret, ctx, tableVars, outVars, peerVars, readVars, endVars>>

GraceExpires(c) ==
  /\ Moves(c, "grace", IF sealed THEN "failed" ELSE "abort")
  /\ UNCHANGED <<ret, ctx, tableVars, outVars, peerVars, readVars, endVars>>

AbortWrite(c) ==
  /\ Moves(c, "abort", "failed")
  /\ Stop("ctx")
  /\ UNCHANGED <<ret, ctx, tableVars, outVars, peerVars, readVars, guarded, sealed>>

\* A write that failed: a response that is already there wins over it.
WriteFailed(c) ==
  /\ \/ reply[c] # "none" /\ Returns(c, "failed", "answer")
        /\ reply' = [reply EXCEPT ![c] = "none"]
     \/ reply[c] = "none" /\ Moves(c, "failed", "abandon")
        /\ UNCHANGED <<ret, reply>>
  /\ UNCHANGED <<ctx, pending, begun, settled, early, outVars, peerVars, readVars,
                 endVars>>

\* abandon: whoever takes the call out of pending settles it.
Abandon(c) ==
  /\ pending' = pending \ {c}
  /\ IF c \in pending
     THEN Moves(c, "abandon", "settle") /\ UNCHANGED ret
     ELSE Returns(c, "abandon", "error")
  /\ UNCHANGED <<ctx, reply, begun, settled, early, outVars, peerVars, readVars,
                 endVars>>

\* settle runs the guard and the hook, then fills the reply channel, which
\* must have room: the read loop runs it too.
Settle(c) ==
  /\ reply[c] = "none"
  /\ reply' = [reply EXCEPT ![c] = "settled"]
  /\ settled' = [settled EXCEPT ![c] = @ + 1]

AbandonSettles(c) ==
  /\ Settle(c)
  /\ Returns(c, "settle", "error")
  /\ UNCHANGED <<ctx, pending, begun, early, outVars, peerVars, readVars, endVars>>

Forget(c) ==
  /\ pending' = pending \ {c}
  /\ Returns(c, "forget", "error")
  /\ UNCHANGED <<ctx, reply, begun, settled, early, outVars, peerVars, readVars,
                 endVars>>

ReceiveReply(c) ==
  /\ reply[c] # "none"
  /\ reply' = [reply EXCEPT ![c] = "none"]
  /\ Returns(c, "answer", "answer")
  /\ UNCHANGED <<ctx, pending, begun, settled, early, outVars, peerVars, readVars,
                 endVars>>

\* Mutant: a caller that gives up leaves its entry behind.
CallerGivesUp_NoForget(c) ==
  /\ Ended(c)
  /\ Moves(c, "answer", "cancel")
  /\ UNCHANGED <<ret, ctx, tableVars, outVars, peerVars, readVars, endVars>>

\* Mutant: the call is forgotten even if a guard waits for its response.
CallerGivesUp_Forget(c) ==
  /\ Ended(c)
  /\ Moves(c, "answer", "cancel")
  /\ pending' = pending \ {c}
  /\ UNCHANGED <<ret, ctx, reply, begun, settled, early, outVars, peerVars, readVars,
                 endVars>>

\* The caller's ctx ends first.  With a guard the call stays pending, so its
\* response still passes through the protocol state.
CallerGivesUp(c) ==
  /\ Ended(c)
  /\ Moves(c, "answer", "cancel")
  /\ pending' = IF guarded THEN pending ELSE pending \ {c}
  /\ UNCHANGED <<ret, ctx, reply, begun, settled, early, outVars, peerVars, readVars,
                 endVars>>

\* CancelRequest with 250 ms to be queued.
SendCancel(c) ==
  /\ \/ /\ ~sealed /\ Len(writes) < Cap
        /\ Moves(c, "cancel", "cancelled")
        /\ writes' = Append(writes, Cancel(c)) /\ UNCHANGED ret
     \/ Returns(c, "cancel", "ctx") /\ UNCHANGED writes
  /\ UNCHANGED <<ctx, tableVars, wpc, hand, sent, wire, peerVars, readVars,
                 endVars>>

\* The cancellation was written, or the connection ended, or its own ctx and
\* grace expired, which stops a connection that is not draining.
CancelWaits(c) ==
  /\ \/ Returns(c, "cancelled", "ctx")
     \/ ~sealed /\ Moves(c, "cancelled", "cancelAbort") /\ UNCHANGED ret
  /\ UNCHANGED <<ctx, tableVars, outVars, peerVars, readVars, endVars>>

CancelAborts(c) ==
  /\ Returns(c, "cancelAbort", "ctx")
  /\ Stop("ctx")
  /\ UNCHANGED <<ctx, tableVars, outVars, peerVars, readVars, guarded, sealed>>

\* Mutant: the end of the connection wins over a response.
CallStopped_NoReply(c) ==
  /\ Stopped
  /\ Returns(c, "answer", "error")
  /\ pending' = pending \ {c}
  /\ UNCHANGED <<ctx, reply, begun, settled, early, outVars, peerVars, readVars,
                 endVars>>

\* The connection ends first: again a response that is there wins.
CallStopped(c) ==
  /\ Stopped /\ reply[c] = "none"
  /\ Returns(c, "answer", "error")
  /\ pending' = pending \ {c}
  /\ UNCHANGED <<ctx, reply, begun, settled, early, outVars, peerVars, readVars,
                 endVars>>

CallStep(c) ==
  \/ QueueRefuses(c) \/ QueueAdmits(c) \/ Enqueue(c) \/ EnqueueGivesUp(c)
  \/ AwaitWrite(c) \/ GraceExpires(c) \/ AbortWrite(c) \/ WriteFailed(c)
  \/ Abandon(c) \/ AbandonSettles(c) \/ Forget(c)
  \/ ReceiveReply(c) \/ CallerGivesUp(c) \/ SendCancel(c) \/ CancelWaits(c)
  \/ CancelAborts(c)
  \/ CallStopped(c)

(***************************************************************************)
(* The write loop and the peer.  The peer has a frame as soon as it is     *)
(* written, before the write loop reports it.                              *)
(***************************************************************************)
TakeFrame ==
  /\ wpc = "loop" /\ hand = NoFrame /\ writes # <<>>
  /\ hand' = Head(writes) /\ writes' = Tail(writes)
  /\ UNCHANGED <<callVars, ctx, tableVars, wpc, sent, wire, peerVars, readVars,
                 endVars>>

PeerReads ==
  /\ hand # NoFrame /\ hand \notin Range(wire)
  /\ wire' = Append(wire, hand)
  /\ UNCHANGED <<callVars, ctx, tableVars, writes, wpc, hand, sent, peerVars,
                 readVars, endVars>>

WriteReported ==
  /\ hand \in Range(wire)
  /\ sent' = [sent EXCEPT ![hand] = "ok"]
  /\ hand' = NoFrame
  /\ UNCHANGED <<callVars, ctx, tableVars, writes, wpc, wire, peerVars,
                 readVars, endVars>>

\* A write may fail after the peer had the whole frame.
WriteFails ==
  /\ hand # NoFrame
  /\ sent' = [sent EXCEPT ![hand] = "err"]
  /\ hand' = NoFrame
  /\ wpc' = "failed"
  /\ UNCHANGED <<callVars, ctx, tableVars, writes, wire, peerVars, readVars,
                 endVars>>

\* The select may still take a frame from a connection that has stopped.
WriterStops ==
  /\ \/ wpc = "failed" /\ Stop("write")
     \/ wpc = "loop" /\ hand = NoFrame /\ Stopped /\ UNCHANGED failure
  /\ wpc' = "done"
  /\ UNCHANGED <<callVars, ctx, tableVars, writes, hand, sent, wire, peerVars,
                 readVars, guarded, sealed>>

PeerAnswers(c) ==
  /\ peerOpen /\ Request(c) \in Range(wire) /\ FoldFunction(+, 0, answers) < MaxAnswers
  /\ answers' = [answers EXCEPT ![c] = @ + 1]
  /\ inbox' = Append(inbox, c)
  /\ UNCHANGED <<callVars, ctx, tableVars, outVars, peerOpen, readVars,
                 endVars>>

PeerCloses ==
  /\ peerOpen /\ peerOpen' = FALSE
  /\ UNCHANGED <<callVars, ctx, tableVars, outVars, inbox, answers, readVars,
                 endVars>>

(***************************************************************************)
(* The read loop.                                                          *)
(***************************************************************************)
\* Mutant: the entry of a settled call stays.
ReadResponse_Keep ==
  /\ rpc = "read" /\ inbox # <<>>
  /\ inbox' = Tail(inbox)
  /\ IF ~sealed /\ Head(inbox) \in pending
     THEN rpc' = "settle" /\ rcall' = Head(inbox)
     ELSE UNCHANGED readVars
  /\ UNCHANGED <<callVars, ctx, tableVars, outVars, answers, peerOpen, endVars>>

\* A response is looked up and taken out of pending in one step; one that
\* matches no call, or that arrives during the drain, is dropped.
ReadResponse ==
  /\ rpc = "read" /\ inbox # <<>>
  /\ inbox' = Tail(inbox)
  /\ IF ~sealed /\ Head(inbox) \in pending
     THEN /\ pending' = pending \ {Head(inbox)}
          /\ rpc' = "settle" /\ rcall' = Head(inbox)
     ELSE UNCHANGED <<pending, readVars>>
  /\ UNCHANGED <<callVars, ctx, reply, begun, settled, early, outVars, answers,
                 peerOpen, endVars>>

ReaderSettles ==
  /\ rpc = "settle"
  /\ Settle(rcall)
  /\ rpc' = "read" /\ rcall' = AnyCall
  /\ early' = IF Ending THEN early ELSE early \cup {rcall}
  /\ UNCHANGED <<callVars, ctx, pending, begun, outVars, peerVars, endVars>>

\* Clean EOF, after every response in front of it: seal and flush, unless a
\* Shutdown has the drain.
ReadEOF ==
  /\ rpc = "read" /\ ~peerOpen /\ inbox = <<>>
  /\ IF sealed THEN rpc' = "done" ELSE rpc' = "flush"
  /\ sealed' = TRUE
  /\ UNCHANGED <<callVars, ctx, tableVars, outVars, peerVars, rcall, guarded, failure>>

\* Callers admitted before the seal finish queueing before the marker.
Flushed ==
  /\ wpc = "loop" /\ writes = <<>> /\ hand = NoFrame
  /\ \A c \in Calls : pc[c] # "enqueue"

FlushEnds ==
  /\ rpc = "flush" /\ (Flushed \/ Stopped)
  /\ rpc' = "done"
  /\ Stop("eof")
  /\ UNCHANGED <<callVars, ctx, tableVars, outVars, peerVars, rcall, guarded, sealed>>

\* The stream was closed under the read loop, or it failed.
ReadFails ==
  /\ rpc = "read"
  /\ rpc' = "done"
  /\ Stop("read")
  /\ UNCHANGED <<callVars, ctx, tableVars, outVars, peerVars, rcall, guarded, sealed>>

ReaderStep == ReadResponse \/ ReaderSettles \/ ReadEOF \/ FlushEnds

(***************************************************************************)
(* Shutdown and Close.                                                     *)
(***************************************************************************)
BeginShutdown ==
  /\ ~sealed /\ sealed' = TRUE
  /\ UNCHANGED <<callVars, ctx, tableVars, outVars, peerVars, readVars,
                 guarded, failure>>

Close ==
  /\ ~Stopped /\ Stop("closed")
  /\ UNCHANGED <<callVars, ctx, tableVars, outVars, peerVars, readVars,
                 guarded, sealed>>

Terminated ==
  /\ Stopped /\ rpc = "done" /\ \A c \in Calls : pc[c] = "returned"
  /\ UNCHANGED vars

Next ==
  \/ \E c \in Calls : EndCtx(c) \/ BeginCall(c) \/ CallStep(c) \/ PeerAnswers(c)
  \/ TakeFrame \/ PeerReads \/ WriteReported \/ WriteFails \/ WriterStops
  \/ PeerCloses \/ ReaderStep \/ ReadFails \/ BeginShutdown \/ Close \/ Terminated

Spec == Init /\ [][Next]_vars

(***************************************************************************)
(* Fairness: every goroutine that can run runs; timers fire; a closed      *)
(* stream fails the write that blocks on it.  The peer owes nothing.       *)
(***************************************************************************)
FairSpec ==
  /\ Spec
  /\ \A c \in Calls : WF_vars(CallStep(c))
  /\ WF_vars(TakeFrame) /\ WF_vars(WriteReported) /\ WF_vars(WriterStops)
  /\ WF_vars(ReaderStep)
  /\ WF_vars(Stopped /\ WriteFails) /\ WF_vars(Stopped /\ ReadFails)

(***************************************************************************)
(* Properties.                                                             *)
(***************************************************************************)
PCs == {"idle", "queue", "enqueue", "await", "grace", "abort", "failed",
        "abandon", "settle", "forget", "answer", "cancel", "cancelled",
        "cancelAbort", "returned"}

\* Every variable has its type, for every set of calls.
TypeOK ==
  /\ pc \in [Calls -> PCs] /\ ctx \in [Calls -> {"live", "ended"}]
  /\ ret \in [Calls -> {"none", "answer", "ctx", "error"}]
  /\ pending \subseteq Calls /\ begun \subseteq Calls
  /\ reply \in [Calls -> {"none", "settled"}]
  /\ settled \in [Calls -> Nat] /\ answers \in [Calls -> Nat]
  /\ writes \in Seq(Frames) /\ Len(writes) <= Cap
  /\ early \subseteq Calls
  /\ wpc \in {"loop", "failed", "done"} /\ hand \in Frames \cup {NoFrame}
  /\ sent \in [Frames -> {"none", "ok", "err"}]
  /\ wire \in Seq(Frames) /\ inbox \in Seq(Calls)
  /\ peerOpen \in BOOLEAN /\ sealed \in BOOLEAN /\ guarded \in BOOLEAN
  /\ rpc \in {"read", "settle", "flush", "done"} /\ rcall \in Calls
  /\ failure \in {"none", "closed", "ctx", "write", "read", "eof"}

\* A call is settled at most once, by the read loop or by its caller, never
\* both, so the reply channel always has room and the read loop never blocks
\* on it, whatever duplicates the peer sends (pendingCall's comment).
SettledOnce ==
  \A c \in Calls :
    LET settling == (IF rpc = "settle" /\ rcall = c THEN 1 ELSE 0)
                    + (IF pc[c] = "settle" THEN 1 ELSE 0)
                    + (IF c \in pending THEN 1 ELSE 0)
    IN settled[c] + settling <= 1

\* What the outgoing guard began is not left in progress: while the
\* connection lives, an admitted call is pending, being settled or settled,
\* even after its caller gave up (abandon's and CallerGivesUp's comments).
BegunIsSettled ==
  guarded /\ ~Stopped =>
    \A c \in begun :
      \/ settled[c] = 1 \/ c \in pending
      \/ rpc = "settle" /\ rcall = c
      \/ pc[c] = "settle"

\* Without a guard a call that returned leaves nothing behind.
NothingLeaks ==
  ~guarded => \A c \in Calls : pc[c] = "returned" => c \notin pending

\* A response that came before the peer's EOF is not lost to it: a caller
\* still waiting when the connection stops with EOF gets the answer, even if
\* the write loop reports the request only after that (Call's comments).
EOFKeepsAnswers ==
  failure = "eof" =>
    \A c \in Calls :
      pc[c] = "returned" /\ ~Ended(c) /\ answers[c] > 0 => ret[c] = "answer"

\* A response the read loop settled before a write failed and before the
\* connection stopped, for whatever reason, is what the caller returns, unless
\* its ctx ended.
AnswerWins ==
  \A c \in early : pc[c] = "returned" /\ ~Ended(c) => ret[c] = "answer"

\* What the connection answered a caller gets, however the connection ends.
AnswersWin == EOFKeepsAnswers /\ AnswerWins

\* A caller whose ctx ends gets back, whatever the peer does; so does every
\* caller when the connection ends.
CallReturns ==
  \A c \in Calls :
    (pc[c] # "idle" /\ (Ended(c) \/ Stopped)) ~> (pc[c] = "returned")
===============================================================================
