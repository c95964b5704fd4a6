# Models and proofs of acp-go

acp-go is a Go SDK for the Agent Client Protocol: JSON-RPC 2.0 between a client
(an editor) and an agent (a subprocess or an HTTP server), with two protocol
generations, v1 and the draft v2.  The modules here model the concurrent state
machines of the SDK; TLC checks them on small instances and TLAPS proves every
safety property of these runs for all instances.

## 1. Inventory

| Component | State | Operations | Hard behaviour | What makes it correct |
|---|---|---|---|---|
| Connection, output (`connection.go`) | `writes` (32 slots), `shuttingDown`, `enqueuing`, `sendLock`, `drained`, `failure`, both streams | `queue`, `awaitWrite`, `answerFrame`, `writeLoop`, `Shutdown`, `Close`, `stop`, the flush after EOF | every sender races the seal, the marker and the write loop; a write timeout stops the connection; two Shutdowns and Close overlap | nothing lands behind the marker; nil means written; guard order is wire order; Shutdown and Close return |
| Connection, calls (`connection.go`, `cancellation.go`) | `pending`, one-slot `reply` channels, `sequence` | `Call`, `settle`, `abandon`, `forget`, `CancelRequest`, responses on the read loop | a response races the caller's context, a failed write and the connection's end; duplicate responses | a call is settled at most once, a delivered answer is never replaced by an error, the read loop never blocks on a reply |
| Connection, requests (`connection.go`, `rpcctl`) | `inbound` per id with generations, `serving`, `tasks`, `inputDone` | `startRequest`, `executeRequest`, `cancelInbound`, guards, `notify` | a peer reuses an id while the first request runs; cancel races completion; panics; EOF while handlers run | every request is answered at most once and, unless it may go unanswered, exactly once; a cancel reaches exactly the running requests of its id; entries do not leak |
| v2 initiator (`v2/client.go`) | `initialized`, `initializing`, `repeatable` | outgoing and incoming guards | responses and requests interleave with `initialize` on both sides | no ordinary request leaves before negotiation; a failed negotiation can be repeated where allowed |
| v2 foreground permissions (`v2/agent/cancel.go`) | `pending` cancellations by session | `RequestPermission`, `CancelSession` | the client's answer races the cancellation | a cancelled request is never an approval; entries do not leak |
| v2 responder (`v2/agent/runtime.go`) | `state`, `initialized`, `repeatable`, the pending commit | read-loop guard, `outgoingResponse` | state is committed only when the response is queued, while the read loop goes on | the two sides agree on the negotiated state in wire order |
| v1 runtime (`agent/runtime.go`) | `pending` initializes, capabilities, `promptCancels` by session | `initialize` and its commit, `prompt`, `cancel` | `session/cancel` is handled on the read loop, the prompt it names registers itself from its own task; a second prompt replaces the cancel of the first | a cancel reaches the prompt read before it; the last successful initialize counts |
| MCP binding (`internal/mcpserver/binding.go`) | `registrations`, `closing`, the operations of each, `active`, a gate per operation | `Register`, `Handle`, `admit`, `watch`, `notify`, `Registration.Close`, `Wait` | completion races cancellation, the connection's end and removal; a notification is being queued while its operation is stopped; the ID is registered again | slots are exact; Close never blocks on the transport, and Wait returns when nothing of the registration runs; nothing follows the answer |
| MCP message client (`mcp/message.go`, `v2/mcp/message.go`) | `active`, one handler per server ID and request ID | `Call`, `Notifications` | a call gives up while its notifications are in flight; the key is used again | a call sees its notifications, before its answer, and nobody else's |
| MCP servers, tools, standalone sessions (`internal/mcpserver/standalone.go`, `tools.go`, `declare.go`, `mcp`, `v2/mcp`) | `active` cancellations of a session, tool tables | `Serve`, `Handle`, `Attach` | requests that share an ID | a cancellation reaches what it names |
| HTTP server (`transport/http/server.go`, `streams.go`) | connections, the agent's inbox, session mailboxes, leases, confirmed sessions, pending routes | POST, GET stream, DELETE, the router, `finish`, `Close` | a stream is removed and made anew while it is read; one-slot wakeups; the connection ends while a line is routed | no wakeup is lost; one subscriber per stream; what was queued before the end is delivered |
| HTTP client (`transport/http/client.go`) | stream claims, `opening`, failure | post, open stream, abandon | a stream opens while the connection closes | one stream per session; a failure is seen by every waiter |
| WebSocket (`transport/http/websocket*.go`) | fragment assembly, close handshake | read, write, close | control frames inside fragmented messages | messages are reassembled in order |
| Process supervision (`internal/osrun`, `runner`, `v2/runner`) | child and its group, stderr, exit status, the run's error | start, Supervise, release, Stop, Kill, Execute | the child exits, the connection ends and the context is cancelled in any order; launchers and processes outside the group | nothing outlives the run; the child's own failure, and no other, is reported; a cancelled run returns |
| Terminals (`clienthost`) | terminals by id, output ring | create, output, wait, kill, release, Close | create and release race each other and the end of the run | no command and no waiting goroutine outlives the run |
| Router (`clientrouter`, `agentrouter`, `proxyrouter`) | handlers by method | dispatch | fallback order | the first handler that claims a message gets it |
| Subagent tree (`unstable/subagent_tree.go`, `v2/unstable`) | nodes, parents, restore attempts | associations and states, restore, close, disconnect | associations arrive in any order, restores overlap each other and live updates | the children form a forest; history and failed restores leave nothing current; no control during a restore |
| Session projections (`projection.go`, `v2/projection.go`, `v2/update_projection.go`, `v2/session.go`, `v2/permissions.go`, `v2/background.go`) | messages, tool calls, plans, running work | apply an update | partial updates, unknown ids | the fold of the updates |
| Negotiation (`internal/negotiate`) | none after the first line | select a version, route | first frame decides | the version both sides know |
| JSON codecs (`jsonvalue`, `internal/serdejson`, `serdewire`, `jsonline`, `lines`, `content.go`, `errors.go`) | none | encode, decode | numbers, escapes | byte-exact output |
| Generated schema and generator (`schema`, `v2/schema`, `cmd/acpgen`), examples, cookbook | none | | | |

How they interact.  Every role owns one Connection.  The typed layers (client,
runtimes, routers, bindings) install guards and hooks (`internal/rpcctl`) that
the Connection calls: on the read loop for what arrives, and under `sendLock`
for what is sent.  Everything else reaches a Connection through `Call`,
`Notify`, handlers and notification functions.  Transports give the Connection
a reader and a writer; `osrun` gives them a subprocess.

## 2. Plan

The Connection comes first: every other part relies on it.  Then the two sides
that install guards on it, then the subsystems with concurrency of their own.
Written, in this order:

1. `ConnOutput` and the abstract `OrderlyOutput` it implements;
   `ConnOutputProofs`.
2. `ConnCalls` and `ConnCallsProofs`; `ConnRequests`.
3. `V2Initiator` and `V2Responder`; `V2Handshake`, which joins the two over their
   transport; `V2HandshakeProofs`, about the two together and about each alone.
4. `McpBinding`, and `McpExchange`, which puts the consumer's calls and the
   connection in front of it; `McpExchangeProofs`.
5. `HttpStreams`, the server, and `HttpExchange`, this library's client on it;
   `HttpStreamsProofs`.
6. `AgentRuntime`, the prompts of a v1 agent on `ConnRequests`;
   `AgentRuntimeProofs` proves both.
7. `SubagentTree` and `SubagentTreeProofs`.
8. `Terminals`, and `AgentRun`, which composes them with the process, its
   supervisor and the runner; `AgentRunProofs`.

What is left, in order of what is at stake:

* `initialize` of the v1 runtime and the foreground permissions of draft v2
  agents, whose registry repeats that of the prompts.
* The close handshake of WebSocket and the rest of the HTTP client.

## 3. The modules

Conventions.  A `pc`-like variable (`spc`, `dpc`, `pc`, `hpc`, `gpc`) names the
statement a goroutine is about to run.  A step covers what the code does between
two points where another goroutine can see or delay it: a critical section, one
channel operation, one `select`.  A context that ends is a step of its own that
may come at any time.  A name of the form `Action_Slip` is a faulty variant of an
action (a dropped guard, a missing reset) that stands before it; no specification
uses it.  Each has one property that catches it, listed in `PROJECT.json`.
History variables are marked in the declarations and no action reads them.

### ConnOutput, OrderlyOutput, ConnOutputProofs

The output half of `Connection`.  `writes` is the channel of that name, its
capacity a constant; a frame is named by the goroutine that sends it.  `spc`
follows `queue` (the seal check and `enqueuing`, `lockSend`, the guard, the build,
the send) and `awaitWrite` (`await`, the grace period and `abort`); `wpc` follows
`writeLoop`; `dpc` follows `Shutdown` (`seal`, `queueDrainMarker`, `drain`) and,
for `Reader`, the read loop, which answers malformed frames itself and after EOF
seals and drains too; `cpc` follows `Close`.  `sealed` is `shuttingDown`,
`serving` the context Shutdown cancels, `failure` and `inClosed` the two steps of
`stop`.  The write (`WriteFrame`, `WriteFails`) and its report to the sender
(`ReportWrite`) are apart: a connection that stops in between gives the sender its
error for a frame that is on the wire.  `GraceExpires` is the timer of an abandoned write: whether it aborts
depends on `sealed` at that moment, as in the code.

`OrderlyOutput` says what a sender may rely on: frames go out in the order they
were accepted, who is told "sent" was, and what drains leaves nothing behind.
`ConnOutput` gives the refinement mapping (`Orderly`): what is pending is `writes`
without the marker, the current frame is the one in the write loop's hand until it is
reported, and for good if its write fails.  `ImplementsOrderly` is checked by `output` and
proved by `OutputIsOrderly`.

### ConnCalls, ConnCallsProofs

`Call` from its registration in `pending` to its return, with the read loop that
settles, the write loop, and a peer that answers what it has read, more than
once if it likes.  `pc` walks through the branches of `Call`: queueing refused
(`failed`), the write given up (`grace`, `abort`), `abandon`, `forget`, the
`select` on the reply, the context and the connection (`answer`), and the
`$/cancel_request` a caller that gives up sends and waits for (`cancel`,
`cancelled`, `cancelAbort`).  `reply` is the one-slot channel.  `begun` holds what
an outgoing guard admitted; `guarded` is `inResponse # nil`.  The write loop may
take a frame from a connection that has stopped, a write may fail after the peer
had the frame, and a failed write is reported before it stops the connection
(`wpc`).

### ConnRequests

The read loop's treatment of requests and `$/cancel_request`, the table
`inbound`, the tasks, and the three ends.  `log` is what was read before the
seal, in order; `out` the order in which answers are queued.  An entry of
`inbound` is the set of the requests registered with an ID: the generations that
the code numbers are the requests themselves.  The copy `cancelInbound` makes
under the lock is `snapshot`, and each entry of it is cancelled in a step of its
own.  A refused request is answered by the read loop (`reject`), which reads on when
that answer has its place; a panic by
`executeRequest`'s deferred call.  An answer passes the seal (`AdmitAnswer`) and
then waits for its place: `room` says whether `writes` has one and the lock is to be
had.  Other frames fill the queue and the peer empties it (`QueueFills`,
`RoomIsMade`), or does not.

### AgentRuntime, MCPromptCancels, AgentRuntimeProofs

The prompts of a v1 agent (`agent/runtime.go`), on `ConnRequests`: a prompt is a
request whose handler tracks it in `promptCancels` (`TrackPrompt`), where a later
prompt of the session takes its place, and removes its own entry as it ends
(`PromptReturns`).  `session/cancel` is a notification, so its handler is the
read loop's: the entry is looked up (`SessionCancel`) and called after the lock
is released (`CallTarget`), and only then does the loop read on.  Each step is one
of `ConnRequests` or leaves that alone, which `RuntimeConnects` proves.
`MCPromptCancels` adds a history of what each `session/cancel` had in front of it.

### SubagentTree, SubagentTreeProofs

The client's tree of subagent sessions: each action is a critical section of its
mutex.  What a session reports is one value in `current`, which says where it came
from: `Live`, or the restore whose replay carried it.  `Announce` is an association
(`subagent_update`), refused when it would close a cycle or change a parent;
`ReportState` a `state_update`; `BeginRestore`, `Settled` and `EndRestore` the
three critical sections of a restore, around the request, its first response and
its return; `Closed` and `Disconnected` what the client does itself.  The walks up
and down (`Above`, `Descendants`) are stated as the sets they do not leave.
`inFlight` are the restores the agent has yet to answer: their replays go on
(`Sources`) when `send` has returned already, as it does when its context ends.
`passed` and `during` are history.

Restore's comment says that with replay what is received before the successful
response is history and never current.  A restore that is given up before its
response is no longer known to the tree, and the rest of its replay is applied as
current (`src/v2/unstable/subagent_tree.go`, 638-639).  `HistoryIsHidden` states what
is left of that promise: history stays hidden while its attempt is followed.  The
disagreement is in the model as it is in the code; no run is spent on it.

### Terminals, AgentRun, AgentRunProofs

`Terminals` is `clienthost/terminal.go`: the tasks of the agent's requests (`hpc`),
the goroutine that waits for each command (`waiter`), and `Close` of the host
(`kpc`).  `group` is the command's process group, whose other processes may outlive
it.  `AgentRun` puts it under the runner: the agent process (`agent`, `others` of its
group, `outside` it), the supervisor (`spc`), `Execute` with its deferred calls
(`rpc`), and the connection as far as they see it: it ends by the agent's EOF, which
only comes when nobody holds its pipes, not even a process `outside`
(`ReadsEOF`), by a failure of its own (`ConnectionFails`), or by being closed.  `exited` is closed when the
agent is reaped, a step after it ends.  The run's calls (`WorkReturns`) end as they
like.  `failure` is history: it says whether an agent that failed by itself had been
reaped when supervision was released.

### V2Initiator, V2Responder, V2Handshake, V2HandshakeProofs

The guards of a draft v2 client (`v2/client.go`) and of an agent
(`v2/agent/runtime.go`).  Both number the initializes (`attempt`) so that a
frame carries the one its sender had in mind; the number is not in the code, it
lets `SameEra` say that both sides read a frame under the same negotiation.
`hand` is a frame that was admitted by the guard and holds `sendLock` until it is
queued or given up.  The initiator's `initialized`, `initializing` and
`repeatable` are the fields of that name; the responder's `state`, `initialized`,
`repeatable` and `pending` likewise, with `pending` the result `initialize`
left for the commit in `outgoingResponse`.  A `Receive` action is one frame on
the read loop.  By itself each module takes any frame from the other side
(`Next`), which is what the last part of `V2HandshakeProofs` is about; `V2Handshake`
joins them by two queues, and `compatible` says whether this client accepts what this agent
answers.

### McpBinding, McpExchange, McpExchangeProofs

`McpBinding` is the provider: one server ID, the operations its `mcp/message`
requests become, and for each the statements of `Handle` (`lookup`, `admit`,
`check`, `start`, `run`, `gate`, `decide`, `release`, `answer`).  `done` is a
closed gate, `holding` a notification that has passed the gate and is being
queued: `CloseGate` waits for it, which is what makes the gate's mutex part of
the model.  `cause` is the first cause its context was cancelled with.  `closer`
and `toStop` follow `Registration.Close` from operation to operation, `idle` is
the channel `Wait` reads.  A service may return, panic, and leave goroutines
that go on calling `Notify`.

`McpExchange` adds the consumer's `MessageClient` and the frames between the two,
in order, and states the properties.

### HttpStreams, HttpExchange, HttpStreamsProofs

`HttpStreams` is one connection of the server.  A mailbox is a number, so that a
session stream that is removed and made anew is another one.  Who moves: the
POST that initializes the connection (`initPost`, `ender["post"]`), later POSTs
(`post`: queue, then signal), `agentInput.Read` (`reader`), the agent, the
`router`, the GETs (`gpc`: lease, send, wait, release) and whoever ends the
connection (`ender`).  Signals are one-slot channels.  `HttpExchange` puts the
SDK's own client on it: which streams it opens and when, and that it fails as a
whole when one stream ends.

## 4. Runs

| Run | Instance | Distinct states | Shows |
|---|---|---|---|
| `output` | six casts of senders, a task, malformed frames, Shutdowns and Close, up to three of them at once; queue of 1 | 171 k | `MarkerIsLast`, `GuardOrder`, `CancelSparesDrain`, `NilMeansFlushed`, `EOFWaitsForTasks`, `ImplementsOrderly`; `EndersReturn`, `StopFreesSenders`, `EOFStops`, the first two with a peer that may never read |
| `calls` | two calls, guarded or not, up to two answers each, two outside events | 552 k | `SettledOnce`, `BegunIsSettled`, `NothingLeaks`, `AnswersWin`, `CallReturns` |
| `requests` | two requests, prompts or not, over two IDs and two sessions, one cancellation of either kind, a queue that may fill and need not empty | 740 k | `TableIsExact`, `CancelIsExact`, `EndsCancelHandlers`, `AnsweredAsRead`, `PromptsAreReached`, `CancelledEnds` |
| `prompts_lost` | one prompt, one `session/cancel` | stops | violates `CancelReachesPrompts` |
| `handshake` | up to three initializes, requests and notifications both ways | 95 k | `AgentWelcomes`, `SameEra`, `QuietAgree`, `InitializeEnds` |
| `mcp` | two operations, two request IDs, two registrations, limit 1 or none, one outside event, a transport nobody need read | 671 k | `NotesReachTheirCall`, `SlotsAreExact`, `RemovalIsFinal`, `RemovalEnds` |
| `mcp_late` | two calls with one request ID | stops | violates `LateNotesDropped` |
| `http_streams` | two sessions, a POST, two GETs, at most three outside events | 2.3 M | `WakeupsAreKept`, `StreamsAreHeld`, `FinalSend`, `InitializeIsSettled` |
| `http_reopen` | load, close, load of one session | stops | violates `LoadIsHeard` |
| `subagents` | three sessions, two restores | 372 k | `Forest`, `ControlsWait`, `HistoryIsHidden`, `FailureErases` |
| `runner` | one terminal, two requests at a time | 351 k | `AgentLeavesNothing`, `TerminalsLeaveNothing`, `ExitIsReported`, `ExecuteEnds` |
| `runner_lost` | one terminal, one request | stops | violates `FailureIsReported` |

One run asks everything of one component, so that its properties are checked on
the same behaviours.  A module's type invariant is proved where the module is
(section 5), so no run repeats it.

### Bounds

* `Cap` (the queue's 32 slots): 1.  A queue that is full, and one that has room,
  is all a sender or the marker can tell; two senders and a marker fill and
  overfill it.  The proofs have any capacity.
* `Casts` and `Few` of `MCConnOutput`: which goroutines besides the loops a
  behaviour brings together.  Three of them act, or two and the context of one
  ends.  The hazards are pairs of senders, or a sender and a Shutdown, or two
  Shutdowns, and a third party that is overtaken.
* `MaxEvents` of `MCConnCalls`: two contexts that end, answers, and ends of the
  connection, in one behaviour; `MaxAnswers`, how often the peer answers, 2: one
  repeated response.
* `MaxCancels`: the cancellations read, `$/cancel_request` or `session/cancel`, 1;
  with two requests of the same ID and session before and after it.  `MCInit` and
  `InOrder` name the requests in the order they are read, and the IDs and
  sessions in the order of the requests: a renaming of any behaviour is left.
* `MaxEra`, `ClientSends`, `AgentSends`: three initializes let one fail, one be
  repeated and one come too late; the ordinary frames are few since they leave no
  trace but the repeat window.
* `MaxRegs`, `MaxNotes`, `MaxEvents` of the MCP runs: two registrations let the
  second meet the first's leftovers; one notification each, so that one may be
  ahead of, behind, or after an answer; `MaxEvents` counts cancellations, calls
  given up, removals and the connection's end: one in `mcp`, in which every
  operation may also end by itself, two in `mcp_late`.
* `MaxUnconfirmed`, `MaxBoxes`, `MaxNotes`, `MaxEvents` of `http_streams`: one
  unconfirmed stream, so the limit is met; a session stream that is made twice;
  three of a POST, two GETs, a DELETE, a discarded initialize and the agent's
  return at once.
* `InStory` of `http_reopen`: the order of the client's requests, so that the run
  is short; the server and the routing are free.
* `subagents`: three sessions make a chain of two associations, on which a cycle
  of three is refused and a grandchild is restored from the root; two attempts
  overlap on one session or run on two.
* `runner`: one terminal, the limit of them, and two tasks that race on it.  The
  agent, the connection, the context and the supervisor have no bound.
* Symmetry is used where the goroutines are interchangeable and no liveness
  property is checked.

### Fairness

`WF` on each goroutine's steps says that a goroutine that can go on does: the Go
scheduler's promise.  Timers fire.  Beyond that, only what the code asks or
makes true:

* `ConnOutput`: a handler returns once its context is cancelled (Shutdown's
  comment asks it); a read or write of a closed stream fails.  A peer that reads
  (`PeerReads`) is a premise of `EOFStops` alone; `EndersReturn` and
  `StopFreesSenders` hold with one that does not.
* `ConnCalls`: the same; the peer owes nothing.
* `AgentRuntime`: a handler, and the agent's `Prompt`, return once their context is
  cancelled.  An answer gets the lock and its place if there is room again and again
  (`SF`: a Go channel serves those that wait in turn), and a stop frees it.  That
  there is room again is up to the peer and not assumed: it is the premise of
  `CancelledEnds`, which says that a cancelled request ends if there is room again
  and again or the connection stops.  While the peer does not read, it may not.
* `V2Handshake`: a call that is queued or given up comes to an end, handlers
  return, and both sides read.  Strong fairness is needed where `sendLock` is
  contended (`AnswerInitialize`, which Go's mutex grants in the end) and for the
  two read loops, which wait for a guard's lock the same way.
* `McpBinding`: a service returns once its context is done (the comment on
  `Service`), and queueing a notification observes the cancellation.  Nothing is
  asked of the transport or of the consumer: that is what `RemovalEnds` is
  about.
* `AgentRun`: a dead process is reaped, pipes that nobody holds end the
  connection (once its tasks are done), and the run's calls return once the connection or the context has
  ended.  Nothing is asked of the agent or of a command: they exit when killed.

Deadlock is checked in every run but `runner` and `runner_lost`.  The last
disjunct of the next-state relations (`Terminated`, `Over`, `Quiet`, `Ended`) is
the state in which nothing is left to do and everybody has returned; a run of
`AgentRun` stops when `Execute` has returned and that is that.

### What disagrees with the documentation

* `mcp_late`: `MessageClient.Call` says a call's request "is released on return so
  late notifications are dropped".  They are handed to the next call that uses
  the same request ID.  Within one call they are never misplaced
  (`NotesReachTheirCall`).
* `http_reopen`: the client opens a session's stream before the first message that
  names it, "so it sees everything the agent sends for the session, including a
  session/load replay".  It remembers the stream for ever; the server forgets it
  when `session/close` succeeds.  A session that is loaded again after that is
  replayed on a stream the client does not read, and the load's answer with it.
* `prompts_lost`: `docs/agent-runtime.md` says the runtime maps `session/cancel` "to
  cancellation of the prompt's context".  The read loop handles the notification
  itself and the prompt tracks itself in its own task, so a cancel that is read
  right behind its prompt finds no entry and is forgotten.
* `runner_lost`: `docs/runner.md` says an agent that exits with a failure status on
  its own during the run is reported with it.  If nobody else holds the agent's
  pipes, the connection may read its EOF and the run's calls fail with it before the
  agent is reaped; supervision is released then, and only the connection's error is
  returned.

## 5. Proofs

All theorems hold for any number of goroutines, calls, operations and
registrations, any queue length and any number of answers; the only assumptions
are that the bounds are numbers and the names are distinct
(`CapAssumption`, `BoundsAssumption`, `NamesAssumption` and their like, in the
modules that declare the constants).  The history variables take no part in any
guard.

**ConnOutputProofs.**  The invariant has five parts.  `TypeInv` is `TypeOK`.  The
marker part says who may still queue: once sealed, the senders inside `enqueuing`
are waited for before the marker is queued, so a marker in `writes` means nobody
is in there and none comes; `MarkerIsLast` is not inductive without it.  The
account part says where each accepted frame is (on the wire, in the write loop's
hand, written or not, in `writes`) and gives `wire` as a prefix of `accepted`; the
lemma `WriteAccount` keeps it between a write and its report; the result part
ties what a Shutdown is about to return to `drained`; the cancel part keeps the
moment a context ended.  From it: `TypeCorrect`, `MarkerStaysLast`,
`NilIsFlushed`, `SentIsOnWire`, `LateCancelIsHarmless`, `EOFIsLast` (what the read
loop waits for, and what it flushes, before it stops with EOF), and `SealHolds`, an
action property.

`GuardOrder` needs more than it says.  `OrderInv` adds that one sender at a time is
between its guard and the queue, that the frame it is about to queue is the last one
built, and that every accepted frame was built before; so what is accepted next stands
behind all that was accepted before.  `OutputIsOrderly` is the refinement:
every step is a step of `OrderlyOutput` under the mapping, or a stutter, shown action
by action (`OrderlyStep`).  Two facts of the invariant carry it.  `AccountInv` says that
the frame the write loop takes is the oldest that was accepted.  `LossInv` says that
after a failed write nothing is taken, written or drained, without which the lost
frame could be overtaken.

**ConnCallsProofs.**  `OnceInv` adds to `SettledOnce` that the reply channel is
full only when the call has been settled, and that of the entry in `pending`, the
read loop and the caller at most one can still settle it;
`QueuedInv` says which calls can have a request in the queue or in the write
loop's hand, so that the peer can only answer what was sent; `EntryInv` says who
has an entry in `pending`, with guards and without; `AnswerInv` follows a settled
answer to its caller, as long as neither a failed write nor a stop came before it was
settled (`Ending`); `HeardInv` follows an answer that was given before EOF from
the peer, through what has been read, to its settling, and says that a call whose
request was queued keeps its entry until then.  From it: `TypeCorrect`,
`CallsSettleOnce`, `SettlingNeverBlocks` (the read loop never waits to settle),
`GuardsSeeTheEnd`, `TableIsClean`, `NoAnswerIsLost`.

**AgentRuntimeProofs.**  The invariant reads everything off `log`.  `Logged` puts
each request that was read at exactly one place of it.  `TableIsExact` is inductive
with that.  `CancelReaches` and `CancelIsPrecise` say that a request's context is
cancelled if, and only if, a cancellation of its ID stands behind it in the log,
the ones still in `snapshot` aside, and an entry that ended meanwhile; they need
`Snapshot`, what the copy may hold.  `Ended` and `Refused` count what is answered at
each stage of the read loop's end, and `RefusedInOrder` compares positions in `log`
and `out`.  From it: `Typed`, `TheTableIsExact`, `CancellationIsExact`,
`EndsReachHandlers`, `AllAreAnswered`.  The waits for a
place in the queue touch nothing that these speak of (`Quiet`), so every step is one
of the others or none (`NextMoves`).
`RuntimeConnects` shows that each step of the
v1 runtime is a step of its connection or none, so all of these hold under it;
`PromptsStayReachable` adds that an entry of `promptCancels` belongs to its
session.

**V2HandshakeProofs.**  The two sides and the two queues, whose contents with the
frame each side has in hand are its line (`cLine`, `aLine`).  The invariant says
that the initialize in progress is in one place: in the client's line
(`InitializeInv`), with the agent's handler (`HandlerInv`), or, answered, in the
agent's line (`AnswerInv`); and what may stand around it.  Nothing ordinary is
behind an initialize in the client's line, and none is left there while the agent
handles one (`ClientFrames`); what is behind an answer in the agent's line goes by
that answer, and what is before it by what the client has recorded
(`AgentFrames`).  `Agreement` and `RequestsClose` relate the two lifecycles: the
agent's initialization is the client's unless an answer is on its way, and a
request anywhere between them has closed the client's repeat window, which is why
the agent may always begin.  From it: `ClientIsWelcome`, `FramesAreOfTheirEra`,
`SidesAgree`, for any number of initializes and of other frames.  The last part is
about each guard by itself, against any frames the other side may send (`Caller` and
`Callee`, instances of the two modules): `ProgressIsCalled` and
`LifecycleFollowsHandler`, an initialize in progress always has a call, or a
handler, that will end it; `HandshakeFirst`, nothing but the handshake and its
cancellation leaves a client before it is initialized; `InitializationStays`, an
action property, a failed repeat changes nothing; `UsedIsForGood`, an agent that
admitted a request stays ready.

**McpExchangeProofs.**  `SlotInv` says that the operations in the table are those
between admission and release, and counts them.  `RegistryInv` numbers the
registrations: those closed are the first n, the current one is the next, and
every operation belongs to the current or to the closing one, of which there is
one at most; that is why a registration that goes idle leaves no operation, and
why two never run side by side.  `RemovedInv` keeps the gates: a closed gate has
nobody inside, an operation that Close stopped is behind a closed gate with a
cancelled context, and only a context nobody cancelled leads to a result.
From it: `SlotAccounting`, `RemovalStops`.

`NoteInv` follows the notifications from the gate to the handler.  `GateInv`: an
operation that answers without a panic has closed its gate, so it holds nothing that
is still to be queued.  `CallInv`: a call has its request ID for itself, and its answer
only after its operation ended.  `WireInv` accounts for the wire: the notifications an
operation queued are those its call's handler got and those on the wire
(`Spots`, whose size the lemmas `SpotsAppend` and `SpotsTail` follow through the queue),
they are all before the answer, and none is there once the call is answered.  From it:
`NotesDelivered`, for any capacity and any number of notifications.

**HttpStreamsProofs.**  One connection of the server, for any sessions, requests and
GETs, none of which need be finite.  `EndInv`: who ends a connection unregisters it
first; the router ends it only after its last line; and the POST that initializes it
ends it only when its own outcome is settled.
`ReaderInv` and `WakeInv` say who owes a waiting reader its wakeup: the slot is
full, or the one who queued has yet to signal, or the end is coming.  `WakeInv` is
inductive only with `HeldInv`: a second subscriber could take the one slot.
`HeldInv` numbers the mailboxes: each session's is its own and was never removed, a
subscriber's is the connection's or was its session's, and every leased one has its
subscriber; so a GET that releases a stream cannot take it from another, and what is
unconfirmed is finite and read.  `FinalInv` counts, for a GET that stayed to the end,
what is queued and what the router still has in hand: one line at most, none if the
router was the one to end.  From it: `TypeCorrect`, `WakeupsStay`, `StreamsStayHeld`,
`LastFramesAreSent`, `InitializeSettles`.  `ClientConnects` shows that every step of
this library's client is a step some client may take, so that all of these hold with
it too (`ClientIsServed`).  Its premise, that the GETs are named by their streams, is
how `HttpExchange` uses `Gets`.

**SubagentTreeProofs.**  A walk up or down the tree is the least set that is not
left; a step that needs "every walk from here passes there" takes the set of the
sessions that do not, or its complement, and shows it is closed, so nothing needs
an induction.  The invariant: the children form a forest and the index is exact;
`restores` holds exactly the latest attempt of its session that neither returned
nor was replaced (`RestoresAreExact`); what was reported during an attempt that may
still fail lies below its session (`ReportsLieBelow`), which is why clearing the
subtree is enough; a restore that has yet to be answered (`inFlight`) and was neither
replaced nor given up is still in the table, so its replay is recognised; and what a
replay carried is not current but in the cases `HistoryIsHidden` names.  From it:
`TypeCorrect`, `ChildrenFormAForest`, `NoControlWhileRestoring`,
`HistoryStaysHidden`, `FailureLeavesNothing`.

**AgentRunProofs.**  Two invariants that do not read each other, and a link.
`RunnerInv` follows `Execute`: after its kill nothing of the agent runs, only `Stop`
signals, and a failure reaped before the release stays in what is reported.
`HostInv` follows the terminals: one whose waiter is not done is listed, and once
`Close` has listed them it has those yet to kill in `rest`.  `Link`: from the moment
the connection is closed no task is left, and the host's `Close` begins after that,
so no terminal is made behind it.  From it: `Typed`, `NoAgentIsLeft`, `NoTerminalIsLeft`,
`OwnFailureIsReported`.

Only model-checked: the liveness properties (`EndersReturn`, `StopFreesSenders`,
`EOFStops`, `CallReturns`, `CancelledEnds`, `InitializeEnds`, `RemovalEnds`,
`ExecuteEnds`), since fairness is beyond this prover.  The four properties that fail
are shown to fail by TLC alone.

## 6. What is not modelled

`PROJECT.json` lists every component with its status.  Left out of the components
that are modelled:

* `ConnOutput`: each sender sends one frame, so the order of two frames of one
  goroutine is not stated; it follows from the queue's.  Frames are opaque.
* `ConnCalls`: encoding errors of parameters and results; `Notify` is in
  `ConnOutput`.
* `ConnRequests`: notifications, which run on the read loop and keep no state in the
  Connection.  A batch is a malformed frame.
* `AgentRuntime`: `initialize` and the capabilities and gates it commits; the
  connection has been initialized.
* `SubagentTree`: transcripts, directories and the text of messages; v1 and v2 are
  the same code over two schemas, and the module has what v2 adds.
* `AgentRun`: the start of the agent, which either fails with nothing left or gives
  the first state; the order of stderr and its tail; Windows, where there is no
  group to signal.  `Terminals`: the output ring and its truncation,
  `terminal/output`, which only reads, and files.
* V2: the content of capabilities and of negotiation; `compatible` stands for its
  outcome.
* `McpBinding`: `NotesReachTheirCall` exempts operations whose service panicked:
  the code does not close their gate (see the hazards).  Envelopes that do not
  decode are refused before any state is touched.  The limit does not change
  while operations run.
* `HttpStreams`: the checks of a POST's headers, type, size and UTF-8, which precede
  any state, HEAD, and keep-alive comments.  The table of connections is shared by
  connections but holds nothing of them.
* `HttpExchange`: decoding of event streams, and the client's own `Close`.

Not modelled at all:

* Foreground permissions of draft v2 agents: a registry of contexts by session under
  one mutex, the same shape as `promptCancels`, with the answer race that
  `ConnCalls` has.
* The standalone MCP session: an operation of `McpBinding` without registrations; its
  hazard, two requests with one ID, is listed and the Connection under it keeps
  both apart (`TableIsExact`).  Tools and declarations are tables built before use.
* WebSocket: one reader and one writer per socket; what is left is framing.
* Session projections, version negotiation, routers: folds, functions and immutable
  tables, run by one goroutine at a time, whose interest is in the data these
  models abstract.
* JSON codecs and other byte-level formats, which no property here is about.
* The generated schemas, about three quarters of the lines of the repository, are
  types, accessors and encodings without state; the generator that writes them is a
  compiler run by hand.  Examples, cookbook and tests are programs that use the
  library.
