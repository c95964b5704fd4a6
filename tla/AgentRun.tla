------------------------------- MODULE AgentRun --------------------------------
(***************************************************************************)
(* A run of an agent process: the runner (Execute, runner/runner.go), the  *)
(* process and the supervisor that races it against the connection         *)
(* (internal/osrun/agent.go), and the terminals of the client host, whose  *)
(* requests are tasks of the connection.  Of the connection there is what  *)
(* ConnOutput and ConnRequests show in full: it stops on an EOF or when it *)
(* is closed, that ends the contexts of its tasks, and closing it waits    *)
(* for them.                                                               *)
(*                                                                         *)
(* The agent leads a process group.  It may be a launcher whose real agent *)
(* is another process of the group, and it may have started processes      *)
(* outside the group that hold its output and stderr open.  Timers are     *)
(* steps that are always possible.                                         *)
(***************************************************************************)
EXTENDS Terminals

VARIABLES
  agent,    \* the agent: "runs", or how it ended: "ok" or "failed" by itself,
            \* "ended" by a signal or after one
  others,   \* other processes of its group run
  outside,  \* one outside its group holds its output and stderr
  signalled, \* the runner sent its group SIGTERM
  exited,   \* a.exited is closed: it was reaped
  conn,     \* the connection: "open", "eof" when it stopped on the agent's EOF, or
            \* "stopped" by anything else
  ctx,      \* Execute's ctx is live
  spc,      \* where the supervisor is
  rpc,      \* where Execute is
  runErr,   \* the run's error, if any: "none" or "error"
  crashed,  \* what release returned
  exitErr,  \* what endAgent returned
  failure   \* the agent's own failure (history): "none"; "run", it came during the
            \* run's calls; and as these returned and supervision was released it was
            \* "seen", reaped, or "cut", its EOF had ended the connection, not yet reaped

agentVars == <<agent, others, outside, signalled, exited>>
runVars == <<rpc, runErr, crashed, exitErr, failure>>
vars == <<termVars, taskVars, hostVars, agentVars, conn, ctx, spc, runVars>>
hostAll == <<termVars, taskVars, hostVars>>

Init ==
  /\ TerminalsInit
  /\ agent = "runs" /\ others \in BOOLEAN /\ outside \in BOOLEAN
  /\ signalled = FALSE /\ exited = FALSE
  /\ conn = "open" /\ ctx = TRUE
  /\ spc = "watch"
  /\ rpc = "work" /\ runErr = "none"
  /\ crashed = "none" /\ exitErr = "none" /\ failure = "none"

TasksDone == \A h \in Handlers : hpc[h] = "idle"

\* connection.Close returns.
ConnStopped == conn # "open"
Stop == conn' = IF ConnStopped THEN conn ELSE "stopped"
CloseReturns == ConnStopped /\ TasksDone

\* a.err.
ExitError == IF agent = "ok" THEN "none" ELSE agent

\* Mutant: there is nothing to kill once the agent has exited.
Survivors_Leader == others /\ agent # "runs"

\* Those of its group that a kill leaves.
Survivors == FALSE

\* kill: the agent, if it still runs, and its group.
KillGroup ==
  /\ agent' = IF agent = "runs" THEN "ended" ELSE agent
  /\ others' = Survivors
  /\ UNCHANGED <<outside, signalled, exited>>

\* Nothing holds the write ends of the agent's output and stderr.
PipesEnd == agent # "runs" /\ ~others /\ ~outside

(***************************************************************************)
(* The agent (external), and what the runner's goroutines see of it.       *)
(***************************************************************************)
AgentExits ==
  /\ agent = "runs"
  /\ agent' \in IF signalled THEN {"ended"} ELSE {"ok", "failed"}
  /\ others' \in {others, FALSE}
  /\ failure' = IF agent' = "failed" /\ rpc = "work" THEN "run" ELSE failure
  /\ UNCHANGED <<hostAll, outside, signalled, exited, conn, ctx, spc,
                 rpc, runErr, crashed, exitErr>>

Reaped ==
  /\ agent # "runs" /\ ~exited /\ exited' = TRUE
  /\ UNCHANGED <<hostAll, agent, others, outside, signalled, conn, ctx, spc, runVars>>

\* The read loop's EOF, which stops the connection when its tasks are done.
ReadsEOF ==
  /\ conn = "open" /\ PipesEnd /\ TasksDone
  /\ conn' = "eof"
  /\ UNCHANGED <<hostAll, agentVars, ctx, spc, runVars>>

\* A frame that is no UTF-8, a write that fails, or one that was given up.
ConnectionFails ==
  /\ conn = "open" /\ Stop
  /\ UNCHANGED <<hostAll, agentVars, ctx, spc, runVars>>

CtxEnds ==
  /\ ctx /\ ctx' = FALSE /\ hostCtx' = FALSE
  /\ UNCHANGED <<termVars, taskVars, closing, kpc, rest, kterm, agentVars, conn,
                 spc, runVars>>

(***************************************************************************)
(* Supervise.                                                              *)
(***************************************************************************)
SuperMoves(from, to) == spc = from /\ spc' = to

SuperExited ==
  /\ SuperMoves("watch", "linger") /\ exited
  /\ KillGroup
  /\ UNCHANGED <<hostAll, conn, ctx, runVars>>

\* Mutant: the protocol gets all the time it wants after the agent's exit.
Lingered_Long == PipesEnd \/ ConnStopped

\* The protocol, or after a failure stderr, is done, or the timer fires.
Lingered == TRUE

SuperCloses ==
  /\ SuperMoves("linger", "close") /\ Lingered /\ Stop
  /\ UNCHANGED <<hostAll, agentVars, ctx, runVars>>

SuperReleased ==
  /\ rpc # "work" /\ spc \in {"watch", "linger"} /\ spc' = "done"
  /\ UNCHANGED <<hostAll, agentVars, conn, ctx, runVars>>

SuperDone ==
  /\ SuperMoves("close", "done") /\ CloseReturns
  /\ UNCHANGED <<hostAll, agentVars, conn, ctx, runVars>>

SuperStep == SuperExited \/ SuperCloses \/ SuperReleased \/ SuperDone

(***************************************************************************)
(* Execute.                                                                *)
(***************************************************************************)
RunMoves(from, to) == rpc = from /\ rpc' = to

\* The calls of the run return: well, or with an error, which they do once
\* the connection or ctx has ended; supervision is released.
WorkReturns ==
  /\ RunMoves("work", "join")
  /\ runErr' \in {"none", "error"}
  /\ failure' = IF exited /\ agent = "failed" THEN "seen"
                ELSE IF failure = "run" /\ conn = "eof" /\ ctx /\ runErr' = "error"
                THEN "cut" ELSE failure
  /\ UNCHANGED <<hostAll, agentVars, conn, ctx, spc, crashed, exitErr>>

\* release: the supervisor is done, and the agent's exit looked at.
Joined ==
  /\ rpc = "join" /\ spc = "done"
  /\ crashed' = IF exited THEN ExitError ELSE "none"
  /\ rpc' = IF runErr = "none" /\ crashed' = "none" /\ conn = "open"
            THEN "drain" ELSE "close"
  /\ UNCHANGED <<hostAll, agentVars, conn, ctx, spc, runErr, exitErr, failure>>

\* connection.Shutdown writes what is queued, which may last until ctx or the
\* connection ends.
Drained ==
  /\ RunMoves("drain", "close")
  /\ runErr' \in IF ctx /\ conn = "open" THEN {"none"} ELSE {"none", "error"}
  /\ UNCHANGED <<hostAll, agentVars, conn, ctx, spc, crashed, exitErr, failure>>

\* connection.Close, or the rest of Shutdown.
Closes ==
  /\ RunMoves("close", "closing") /\ Stop
  /\ UNCHANGED <<hostAll, agentVars, ctx, spc, runErr, crashed, exitErr, failure>>

Closed ==
  /\ RunMoves("closing", "end") /\ CloseReturns
  /\ UNCHANGED <<hostAll, agentVars, conn, ctx, spc, runErr, crashed, exitErr, failure>>

(***************************************************************************)
(* endAgent: Stop of the agent after a run that succeeded, or Kill.        *)
(***************************************************************************)
EndAgent ==
  /\ rpc = "end"
  /\ rpc' = IF runErr = "none" /\ crashed = "none" /\ ctx THEN "grace" ELSE "finish"
  /\ exitErr' = crashed
  /\ UNCHANGED <<hostAll, agentVars, conn, ctx, spc, runErr, crashed, failure>>

\* Its stdin is closed: it exits, the timer fires, or ctx ends.
Grace ==
  /\ \/ exited /\ RunMoves("grace", "finish") /\ exitErr' = ExitError
     \/ RunMoves("grace", "term") /\ UNCHANGED exitErr
     \/ ~ctx /\ RunMoves("grace", "finish") /\ UNCHANGED exitErr
  /\ UNCHANGED <<hostAll, agentVars, conn, ctx, spc, runErr, crashed, failure>>

\* terminate.
Terminate ==
  /\ RunMoves("term", "wait")
  /\ signalled' = (signalled \/ ~exited)
  /\ UNCHANGED <<hostAll, agent, others, outside, exited, conn, ctx, spc,
                 runErr, crashed, exitErr, failure>>

\* Mutant: Stop reports the exit it asked for.
Requested_Reports == ExitError

\* What Stop returns of an agent it has terminated.
Requested == "none"

\* It has exited, a timer fires, or ctx ends.
Terminated ==
  /\ RunMoves("wait", "finish")
  /\ exitErr' = Requested
  /\ UNCHANGED <<hostAll, agentVars, conn, ctx, spc, runErr, crashed, failure>>

FinishKills ==
  /\ RunMoves("finish", "reap") /\ KillGroup
  /\ UNCHANGED <<hostAll, conn, ctx, spc, runErr, crashed, exitErr, failure>>

\* stderr has drained or the timer fires; the host's Close is next.
FinishReaps ==
  /\ RunMoves("reap", "host") /\ exited
  /\ kpc' = "cancel"
  /\ UNCHANGED <<termVars, taskVars, hostCtx, closing, rest, kterm, agentVars, conn,
                 ctx, spc, runErr, crashed, exitErr, failure>>

Returned ==
  /\ RunMoves("host", "returned") /\ kpc = "closed"
  /\ UNCHANGED <<hostAll, agentVars, conn, ctx, spc, runErr, crashed, exitErr, failure>>

RunStep ==
  \/ Joined \/ Closes \/ Closed \/ EndAgent \/ Grace \/ Terminate
  \/ Terminated \/ FinishKills \/ FinishReaps \/ Returned

(***************************************************************************)
(* The specification.  Only an open connection starts tasks, and the       *)
(* context of each ends with it.                                           *)
(***************************************************************************)
Alone == UNCHANGED <<agentVars, conn, ctx, spc, runVars>>

Requests == \E h \in Handlers :
  conn = "open" /\ (BeginCreate(h) \/ \E t \in Terms, op \in Ops : BeginOn(h, t, op))

Task(h) == TaskStep(h, ConnStopped) /\ Alone
Command(t) == CommandStep(t) /\ Alone
HostClose == CloseStep /\ Alone

Next ==
  \/ AgentExits \/ Reaped \/ ReadsEOF \/ ConnectionFails \/ CtxEnds
  \/ SuperStep \/ WorkReturns \/ Drained \/ RunStep
  \/ Requests /\ Alone
  \/ \E h \in Handlers : Task(h)
  \/ \E t \in Terms : Command(t) \/ (CommandExits(t) /\ Alone)
  \/ HostClose

\* The runner's goroutines run, timers fire, and a closed or broken stream and
\* a dead process are noticed.  The work of the run and the drain need not end
\* while the connection and ctx live, nor a command or an agent nobody kills.
Ending == ConnStopped \/ ~ctx

Fairness ==
  /\ WF_vars(Reaped) /\ WF_vars(ReadsEOF)
  /\ WF_vars(SuperStep) /\ WF_vars(RunStep)
  /\ WF_vars(Ending /\ WorkReturns) /\ WF_vars(Ending /\ Drained)
  /\ \A h \in Handlers : WF_vars(Task(h))
  /\ \A t \in Terms : WF_vars(Command(t))
  /\ WF_vars(HostClose)

Spec == Init /\ [][Next]_vars /\ Fairness

(***************************************************************************)
(* Properties.                                                             *)
(***************************************************************************)
FlagsTypeOK ==
  /\ others \in BOOLEAN /\ outside \in BOOLEAN /\ signalled \in BOOLEAN
  /\ exited \in BOOLEAN /\ ctx \in BOOLEAN

RunTypeOK ==
  /\ agent \in {"runs", "ok", "failed", "ended"}
  /\ conn \in {"open", "eof", "stopped"}
  /\ spc \in {"watch", "linger", "close", "done"}
  /\ rpc \in {"work", "join", "drain", "close", "closing", "end", "grace",
              "term", "wait", "finish", "reap", "host", "returned"}
  /\ runErr \in {"none", "error"}
  /\ crashed \in {"none", "failed", "ended"} /\ exitErr \in {"none", "failed", "ended"}
  /\ failure \in {"none", "run", "cut", "seen"}

TypeOK == TerminalsTypeOK /\ FlagsTypeOK /\ RunTypeOK

\* Nothing of the agent outlives a run: neither the agent nor the others of its
\* group, whichever of agent, connection and ctx ended first and however far the
\* supervisor had come; and the supervisor itself is done.
AgentLeavesNothing ==
  rpc = "returned" => agent # "runs" /\ ~others /\ spc = "done"

\* Nothing of the terminals outlives a run: no command or what it left behind,
\* no task that could start one, and no goroutine that waits for one, also those
\* of terminals released while the run ended, which Close does not see.
TerminalsLeaveNothing ==
  rpc = "returned" =>
    /\ TasksDone
    /\ \A t \in Terms : ~Live(t) /\ waiter[t] \in {"none", "done"}

\* The exit the runner reports is the agent's own failure, never one it asked
\* for; and a failure reaped by the time supervision is released is reported,
\* whatever the calls of the run returned.
ExitIsReported ==
  /\ exitErr # "none" => agent = "failed"
  /\ rpc = "returned" /\ failure = "seen" => exitErr = "failed"

\* A run whose ctx ends returns, also while the agent ignores its stdin and
\* SIGTERM, a task waits for a command, or a process that left the group holds
\* the agent's output; and with ctx live, an agent's exit ends the run's calls.
ExecuteEnds ==
  /\ ~ctx ~> rpc = "returned"
  /\ exited ~> rpc # "work"

\* docs/runner.md: an agent that exits with a failure status on its own, during
\* the run, is reported with it; here, one whose exit the connection saw as EOF.
\* Refuted: the EOF is read, the run's calls fail with it, and supervision is
\* released, before the agent is reaped.
FailureIsReported ==
  rpc = "returned" /\ failure = "cut" /\ conn = "eof" => exitErr = "failed"
===============================================================================
