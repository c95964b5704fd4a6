---------------------------- MODULE AgentRunProofs -----------------------------
(***************************************************************************)
(* A run leaves nothing behind, for any numbers of terminals, requests and *)
(* places.  Two inductive invariants: the runner's own order, and what     *)
(* Close of the host has yet to see of the terminals.                      *)
(***************************************************************************)
EXTENDS AgentRun, TLAPS

(***************************************************************************)
(* Types.                                                                  *)
(***************************************************************************)
Environment == AgentExits \/ Reaped \/ ReadsEOF \/ ConnectionFails \/ CtxEnds
RunnerStep == SuperStep \/ WorkReturns \/ Drained \/ RunStep
HostStep ==
  \/ Requests
  \/ \E h \in Handlers : TaskStep(h, ConnStopped)
  \/ \E t \in Terms : CommandStep(t) \/ CommandExits(t)
  \/ CloseStep

\* A step is the environment's, the runner's, or the host's alone.
LEMMA Steps ==
  ASSUME Next
  PROVE Environment \/ RunnerStep \/ (HostStep /\ Alone)
BY DEF Next, Environment, RunnerStep, HostStep, Task, Command, HostClose

\* A task that is past idle and create is about a terminal, and an agent that
\* was reaped does not run.
HostTyped ==
  /\ TerminalsTypeOK
  /\ \A h \in Handlers : hpc[h] \notin {"idle", "create"} => hterm[h] \in Terms

RunTyped == RunTypeOK /\ (exited => agent # "runs")

LEMMA HostTypes ==
  ASSUME HostTyped, HostStep
  PROVE HostTyped'
<1> USE DEF HostTyped, TerminalsTypeOK, termVars, taskVars, hostVars, Moves, Ends, Killed,
            KillOnce, Ops
<1>1. CASE Requests BY <1>1 DEF Requests, BeginCreate, BeginOn
<1>2. ASSUME NEW h \in Handlers, TaskStep(h, ConnStopped) PROVE HostTyped'
  <2>1. CASE Create(h) BY <2>1 DEF Create
  <2>2. CASE Wait(h, ConnStopped) BY <2>2 DEF Wait
  <2>3. CASE KillTerminal(h) BY <2>3 DEF KillTerminal
  <2>4. CASE ReleaseTerminal(h) BY <2>4 DEF ReleaseTerminal
  <2>5. CASE Released(h) BY <2>5 DEF Released
  <2> QED BY <1>2, <2>1, <2>2, <2>3, <2>4, <2>5 DEF TaskStep
<1>3. ASSUME NEW t \in Terms, CommandStep(t) \/ CommandExits(t) PROVE HostTyped'
  BY <1>3 DEF CommandStep, CommandExits, ContextKills, CommandWaited, WaiterKills
<1>4. CASE CloseStep
  BY <1>4, ZenonT(30) DEF CloseStep, CloseCancels, CloseLists, CloseKills, CloseAwaits
<1> QED BY <1>1, <1>2, <1>3, <1>4 DEF HostStep

\* What the other steps change of the host.
LEMMA HostKept ==
  ASSUME HostTyped, UNCHANGED <<termVars, taskVars, closing, rest, kterm>>,
         hostCtx' \in BOOLEAN, kpc' = kpc \/ kpc' = "cancel"
  PROVE HostTyped'
BY DEF HostTyped, TerminalsTypeOK, termVars, taskVars

LEMMA RunTypes ==
  ASSUME HostTyped, FlagsTypeOK, RunTyped, Environment \/ RunnerStep
  PROVE HostTyped' /\ FlagsTypeOK' /\ RunTyped'
<1> USE DEF hostAll, hostVars, agentVars, runVars
<1>1. HostTyped'
  <2>1. UNCHANGED <<termVars, taskVars, closing, rest, kterm>> /\ hostCtx' \in BOOLEAN
        /\ (kpc' = kpc \/ kpc' = "cancel")
    BY DEF HostTyped, TerminalsTypeOK, Environment, AgentExits, Reaped, ReadsEOF, ConnectionFails, CtxEnds,
           RunnerStep, SuperStep, SuperExited, SuperCloses, SuperReleased, SuperDone,
           WorkReturns, Drained, RunStep, Joined, Closes, Closed, EndAgent, Grace, Terminate,
           Terminated, FinishKills, FinishReaps, Returned
  <2> QED BY <2>1, HostKept
<1>2. FlagsTypeOK'
  <2> USE DEF FlagsTypeOK
  <2>1. CASE AgentExits BY <2>1, Zenon DEF AgentExits
  <2>2. CASE Reaped BY <2>2, Zenon DEF Reaped
  <2>3. CASE ReadsEOF \/ ConnectionFails \/ CtxEnds BY <2>3, Zenon DEF ReadsEOF, ConnectionFails, CtxEnds
  <2>4. CASE SuperStep
    BY <2>4, Zenon DEF SuperStep, SuperExited, SuperCloses, SuperReleased, SuperDone, SuperMoves,
                KillGroup, Survivors
  <2>5. CASE WorkReturns \/ Drained BY <2>5, Zenon DEF WorkReturns, Drained
  <2>6. CASE RunStep
    <3>1. CASE Terminate BY <3>1, Zenon DEF Terminate
    <3>2. CASE FinishKills BY <3>2, Zenon DEF FinishKills, KillGroup, Survivors
    <3>3. CASE UNCHANGED <<agentVars, ctx>> BY <3>3, Zenon
    <3> QED BY <2>6, <3>1, <3>2, <3>3 DEF RunStep, Joined, Closes, Closed, EndAgent, Grace,
                                         Terminated, FinishReaps, Returned
  <2> QED BY <2>1, <2>2, <2>3, <2>4, <2>5, <2>6 DEF Environment, RunnerStep
<1>3. RunTyped'
  <2> USE DEF RunTyped, RunTypeOK
  <2>1. CASE AgentExits BY <2>1 DEF AgentExits
  <2>2. CASE Reaped BY <2>2 DEF Reaped
  <2>3. CASE ReadsEOF \/ ConnectionFails \/ CtxEnds BY <2>3 DEF ReadsEOF, ConnectionFails, CtxEnds, Stop, ConnStopped
  <2>4. CASE SuperStep
    BY <2>4 DEF SuperStep, SuperExited, SuperCloses, SuperReleased, SuperDone, SuperMoves,
                KillGroup, Survivors, Stop, ConnStopped
  <2>5. CASE WorkReturns \/ Drained BY <2>5 DEF WorkReturns, Drained, RunMoves
  <2>6. CASE RunStep
    <3> USE DEF RunMoves
    <3>1. CASE Joined \/ EndAgent BY <3>1 DEF Joined, EndAgent, ExitError
    <3>2. CASE Closes \/ Closed BY <3>2 DEF Closes, Closed, Stop, ConnStopped
    <3>3. CASE Grace \/ Terminate BY <3>3 DEF Grace, Terminate, ExitError
    <3>4. CASE Terminated BY <3>4 DEF Terminated, Requested
    <3>5. CASE FinishKills BY <3>5 DEF FinishKills, KillGroup, Survivors
    <3>6. CASE FinishReaps \/ Returned BY <3>6 DEF FinishReaps, Returned
    <3> QED BY <2>6, <3>1, <3>2, <3>3, <3>4, <3>5, <3>6 DEF RunStep
  <2> QED BY <2>1, <2>2, <2>3, <2>4, <2>5, <2>6 DEF Environment, RunnerStep
<1> QED BY <1>1, <1>2, <1>3

(***************************************************************************)
(* The runner.                                                             *)
(***************************************************************************)
Killing == {"finish", "reap", "host", "returned"}
Ended == {"end", "grace", "term", "wait"} \cup Killing

\* A kill is final; only Stop signals; a failure seen at the release is kept.
RunnerInv ==
  /\ rpc \in Killing \ {"finish"} => agent # "runs" /\ ~others
  /\ rpc \notin {"work", "join"} => spc = "done"
  /\ signalled \/ agent = "ended" => rpc \in Killing \cup {"wait"}
  /\ crashed # "none" => crashed = "failed" /\ agent = "failed"
  /\ exitErr # "none" => exitErr = "failed" /\ agent = "failed"
  /\ rpc \in {"grace", "term", "wait"} => crashed = "none"
  /\ failure = "seen" => rpc # "work" /\ exited /\ agent = "failed"
  /\ failure = "seen" /\ rpc # "join" => crashed = "failed"
  /\ failure = "seen" /\ rpc \in Killing => exitErr = "failed"

LEMMA RunnerKeeps ==
  ASSUME RunTyped, RunnerInv, Environment \/ RunnerStep
  PROVE RunnerInv'
<1> USE DEF RunTyped, RunTypeOK, RunnerInv, Killing, agentVars, runVars
<1>1. CASE AgentExits BY <1>1 DEF AgentExits
<1>2. CASE Reaped BY <1>2 DEF Reaped
<1>3. CASE ReadsEOF \/ ConnectionFails \/ CtxEnds BY <1>3 DEF ReadsEOF, ConnectionFails, CtxEnds
<1>4. CASE SuperStep
  BY <1>4 DEF SuperStep, SuperExited, SuperCloses, SuperReleased, SuperDone, SuperMoves,
              KillGroup, Survivors
<1>5. CASE WorkReturns
  <2>1. failure' = "seen" => failure = "seen" \/ (exited /\ agent = "failed")
    BY <1>5 DEF WorkReturns
  <2> QED BY <1>5, <2>1 DEF WorkReturns, RunMoves
<1>6. CASE Drained BY <1>6 DEF Drained, RunMoves
<1>7. CASE RunStep
  <2> USE DEF RunMoves
  <2>1. CASE Joined BY <2>1 DEF Joined, ExitError
  <2>2. CASE Closes \/ Closed \/ EndAgent BY <2>2 DEF Closes, Closed, EndAgent
  <2>3. CASE Grace BY <2>3 DEF Grace, ExitError
  <2>4. CASE Terminate \/ Terminated BY <2>4 DEF Terminate, Terminated, Requested
  <2>5. CASE FinishKills BY <2>5 DEF FinishKills, KillGroup, Survivors
  <2>6. CASE FinishReaps \/ Returned BY <2>6 DEF FinishReaps, Returned
  <2> QED BY <1>7, <2>1, <2>2, <2>3, <2>4, <2>5, <2>6 DEF RunStep
<1> QED BY <1>1, <1>2, <1>3, <1>4, <1>5, <1>6, <1>7 DEF Environment, RunnerStep

(***************************************************************************)
(* The terminals.                                                          *)
(***************************************************************************)
Started(t) == waiter[t] # "none"

\* A terminal that a task or Close has in hand was started; one whose waiter is
\* not done is listed, and Close, once it has listed them, has it yet to kill.
HostInv ==
  /\ \A t \in Terms :
       /\ group[t] # "none" <=> Started(t)
       /\ t \in listed \cup rest => Started(t)
       /\ t \in once => group[t] = "gone"
       /\ waiter[t] \in {"wait", "kill"} => t \in listed
       /\ waiter[t] = "done" => t \in once
  /\ \A h \in Handlers : hpc[h] \notin {"idle", "create"} => Started(hterm[h])
  /\ kpc \notin {"open", "cancel"} => ~hostCtx
  /\ kpc \in {"kill", "await", "closed"} =>
       \A t \in listed \ rest : waiter[t] = "done" \/ (kpc = "await" /\ t = kterm)
  /\ kpc = "closed" => rest = {}

LEMMA HostKeeps ==
  ASSUME HostTyped, HostInv, HostStep
  PROVE HostInv'
<1> USE DEF HostTyped, TerminalsTypeOK, HostInv, Started, termVars, taskVars, hostVars, Moves,
            Ends, Killed, KillOnce, Ops
<1>1. CASE Requests
  <2>1. ASSUME NEW h \in Handlers, BeginCreate(h) PROVE HostInv'
    BY <2>1 DEF BeginCreate
  <2>2. ASSUME NEW h \in Handlers, NEW t \in Terms, NEW op \in Ops, BeginOn(h, t, op)
        PROVE HostInv'
    <3>1. UNCHANGED <<termVars, hostVars>> /\ Started(t) BY <2>2 DEF BeginOn
    <3>2. \A g \in Handlers : hpc'[g] \notin {"idle", "create"} =>
            hterm'[g] = t \/ (hpc[g] \notin {"idle", "create"} /\ hterm'[g] = hterm[g])
      BY <2>2 DEF BeginOn
    <3> QED BY <3>1, <3>2
  <2> QED BY <1>1, <2>1, <2>2 DEF Requests
<1>2. ASSUME NEW h \in Handlers, TaskStep(h, ConnStopped) PROVE HostInv'
  <2>1. CASE Create(h)
    <3>1. CASE UNCHANGED termVars BY <2>1, <3>1 DEF Create
    <3>2. ASSUME NEW t \in Terms, group[t] = "none", MayStart,
                 group' = [group EXCEPT ![t] = "command"], waiter' = [waiter EXCEPT ![t] = "wait"],
                 listed' = listed \cup {t}, UNCHANGED once
          PROVE HostInv'
      <4>1. UNCHANGED hostVars /\ kpc \in {"open", "cancel"}
        BY <2>1, <3>2 DEF Create, MayStart
      <4>2. \A g \in Handlers : hpc'[g] \notin {"idle", "create"} =>
              hpc[g] \notin {"idle", "create"} /\ hterm'[g] = hterm[g] /\ hterm[g] \in Terms
        BY <2>1 DEF Create
      <4> QED BY <3>2, <4>1, <4>2
    <3> QED BY <2>1, <3>1, <3>2 DEF Create
  <2>2. CASE Wait(h, ConnStopped) BY <2>2 DEF Wait
  <2>3. CASE KillTerminal(h) BY <2>3 DEF KillTerminal
  <2>4. CASE ReleaseTerminal(h) BY <2>4 DEF ReleaseTerminal
  <2>5. CASE Released(h) BY <2>5 DEF Released, Awaited
  <2> QED BY <1>2, <2>1, <2>2, <2>3, <2>4, <2>5 DEF TaskStep
<1>3. ASSUME NEW t \in Terms, CommandStep(t) \/ CommandExits(t) PROVE HostInv'
  <2>1. CASE CommandExits(t) BY <2>1 DEF CommandExits
  <2>2. CASE ContextKills(t) BY <2>2 DEF ContextKills
  <2>3. CASE CommandWaited(t) BY <2>3 DEF CommandWaited
  <2>4. CASE WaiterKills(t) BY <2>4 DEF WaiterKills
  <2> QED BY <1>3, <2>1, <2>2, <2>3, <2>4 DEF CommandStep
<1>4. CASE CloseStep
  <2>1. CASE CloseCancels BY <2>1 DEF CloseCancels
  <2>2. CASE CloseLists BY <2>2 DEF CloseLists
  <2>3. CASE CloseKills BY <2>3 DEF CloseKills
  <2>4. CASE CloseAwaits BY <2>4 DEF CloseAwaits, Awaited
  <2> QED BY <1>4, <2>1, <2>2, <2>3, <2>4 DEF CloseStep
<1> QED BY <1>1, <1>2, <1>3, <1>4 DEF HostStep

\* What the other steps change of the host.
LEMMA HostKeptInv ==
  ASSUME HostInv, UNCHANGED <<termVars, taskVars, closing, rest, kterm>>,
         hostCtx' => hostCtx,
         kpc' = kpc \/ (kpc = "open" /\ kpc' = "cancel")
  PROVE HostInv'
BY DEF HostInv, Started, termVars, taskVars

(***************************************************************************)
(* Both.                                                                   *)
(***************************************************************************)
\* The runner ends the agent once no task is left, and closes the host last.
Link ==
  /\ rpc \in Ended \cup {"closing"} => ConnStopped
  /\ rpc \in Ended => TasksDone
  /\ kpc # "open" => rpc \in {"host", "returned"}
  /\ rpc = "returned" => kpc = "closed"

IInv ==
  HostTyped /\ FlagsTypeOK /\ RunTyped /\ RunnerInv /\ HostInv /\ Link

LEMMA LinkHost ==
  ASSUME HostTyped, RunTyped, Link, HostStep, Alone
  PROVE Link'
<1> USE DEF Link, Ended, Killing, TasksDone, Alone, runVars, HostTyped, TerminalsTypeOK,
            ConnStopped
<1>1. CASE Requests
  BY <1>1 DEF Requests, BeginCreate, BeginOn, hostVars, RunTyped, RunTypeOK
<1>2. ASSUME NEW h \in Handlers, TaskStep(h, ConnStopped) PROVE Link'
  <2>1. hpc[h] # "idle" /\ UNCHANGED hostVars
    BY <1>2 DEF TaskStep, Create, Wait, KillTerminal, ReleaseTerminal, Released, Ends, Moves
  <2> QED BY <2>1 DEF hostVars
<1>3. ASSUME NEW t \in Terms, CommandStep(t) \/ CommandExits(t) PROVE Link'
  <2>1. UNCHANGED <<taskVars, hostVars>>
    BY <1>3 DEF CommandStep, CommandExits, ContextKills, CommandWaited, WaiterKills
  <2> QED BY <2>1 DEF taskVars, hostVars
<1>4. CASE CloseStep
  BY <1>4 DEF CloseStep, CloseCancels, CloseLists, CloseKills, CloseAwaits, taskVars
<1> QED BY <1>1, <1>2, <1>3, <1>4 DEF HostStep

LEMMA LinkRun ==
  ASSUME RunTyped, Link, Environment \/ RunnerStep
  PROVE Link'
<1> USE DEF Link, Ended, Killing, TasksDone, hostAll, taskVars, hostVars, runVars, RunTyped, RunTypeOK
<1>1. CASE Environment
  BY <1>1 DEF Environment, AgentExits, Reaped, ReadsEOF, ConnectionFails, CtxEnds, Stop, ConnStopped
<1>2. CASE SuperStep
  BY <1>2 DEF SuperStep, SuperExited, SuperCloses, SuperReleased, SuperDone, Stop, ConnStopped
<1>3. CASE WorkReturns \/ Drained BY <1>3 DEF WorkReturns, Drained, RunMoves
<1>4. CASE RunStep
  BY <1>4 DEF RunStep, RunMoves, Joined, Closes, Closed, CloseReturns, EndAgent, Grace,
              Terminate, Terminated, FinishKills, FinishReaps, Returned, Stop, ConnStopped
<1> QED BY <1>1, <1>2, <1>3, <1>4 DEF RunnerStep

\* The inductive invariant: what the runner has done, what Close has yet to see
\* of the terminals, and that it comes last.
THEOREM Inductive == Spec => []IInv
<1>1. Init => IInv
  <2> SUFFICES ASSUME Init PROVE IInv OBVIOUS
  <2> USE DEF Init
  <2>1. HostTyped /\ HostInv BY DEF TerminalsInit, HostTyped, TerminalsTypeOK, HostInv, Started
  <2>2. FlagsTypeOK BY Zenon DEF FlagsTypeOK
  <2>3. RunTyped /\ RunnerInv /\ Link
    BY DEF TerminalsInit, RunTyped, RunTypeOK, RunnerInv, Killing, Link, Ended, TasksDone
  <2> QED BY <2>1, <2>2, <2>3 DEF IInv
<1>2. IInv /\ [Next]_vars => IInv'
  <2> SUFFICES ASSUME IInv, [Next]_vars PROVE IInv' OBVIOUS
  <2>1. CASE HostStep /\ Alone
    <3>1. HostTyped' /\ HostInv' BY <2>1, HostTypes, HostKeeps DEF IInv
    <3>2. FlagsTypeOK' BY <2>1, Zenon DEF IInv, FlagsTypeOK, Alone, agentVars
    <3>3. RunTyped' /\ RunnerInv'
      BY <2>1 DEF IInv, RunTyped, RunTypeOK, RunnerInv, Alone, agentVars, runVars
    <3>4. Link' BY <2>1, LinkHost DEF IInv
    <3> QED BY <3>1, <3>2, <3>3, <3>4 DEF IInv
  <2>2. CASE Environment \/ RunnerStep
    <3>1. HostTyped' /\ FlagsTypeOK' /\ RunTyped' BY <2>2, RunTypes DEF IInv
    <3>2. RunnerInv' BY <2>2, RunnerKeeps DEF IInv
    <3>3. HostInv'
      <4>1. CASE FinishReaps
        BY <4>1, HostKeptInv DEF FinishReaps, RunMoves, IInv, Link
      <4>2. CASE CtxEnds
        BY <4>2, HostKeptInv DEF CtxEnds, IInv
      <4>3. CASE UNCHANGED hostAll
        BY <4>3, HostKeptInv DEF hostAll, hostVars, IInv
      <4> QED BY <2>2, <4>1, <4>2, <4>3 DEF Environment, AgentExits, Reaped,
           ReadsEOF, ConnectionFails, RunnerStep, SuperStep, SuperExited, SuperCloses,
           SuperReleased, SuperDone, WorkReturns, Drained, RunStep, Joined, Closes,
           Closed, EndAgent, Grace, Terminate, Terminated, FinishKills, Returned
    <3>4. Link' BY <2>2, LinkRun DEF IInv
    <3> QED BY <3>1, <3>2, <3>3, <3>4 DEF IInv
  <2>3. CASE UNCHANGED vars
    <3> USE <2>3 DEF IInv, vars, termVars, taskVars, hostVars, agentVars, runVars
    <3>1. HostTyped' /\ HostInv' BY DEF HostTyped, TerminalsTypeOK, HostInv, Started
    <3>2. FlagsTypeOK' BY Zenon DEF FlagsTypeOK
    <3>3. RunTyped' /\ RunnerInv' BY DEF RunTyped, RunTypeOK, RunnerInv
    <3>4. Link' BY DEF Link, TasksDone, ConnStopped
    <3> QED BY <3>1, <3>2, <3>3, <3>4
  <2> QED BY <2>1, <2>2, <2>3, Steps
<1> QED BY <1>1, <1>2, PTL DEF Spec

(***************************************************************************)
(* The properties.                                                         *)
(***************************************************************************)
\* The type invariant of a run and its host.
THEOREM Typed == Spec => []TypeOK
<1>1. IInv => TypeOK BY DEF IInv, HostTyped, RunTyped, TypeOK
<1> QED BY <1>1, Inductive, PTL

\* Execute returns only once the agent, the others of its group and the
\* supervisor have ended.
THEOREM NoAgentIsLeft == Spec => []AgentLeavesNothing
<1>1. IInv => AgentLeavesNothing BY DEF IInv, RunnerInv, Killing, AgentLeavesNothing
<1> QED BY <1>1, Inductive, PTL

\* Execute returns only once every terminal it started, and every request
\* about one, has ended, for any number of each.
THEOREM NoTerminalIsLeft == Spec => []TerminalsLeaveNothing
<1>1. IInv => TerminalsLeaveNothing
  <2> SUFFICES ASSUME IInv, rpc = "returned"
               PROVE TasksDone /\ \A t \in Terms : ~Live(t) /\ waiter[t] \in {"none", "done"}
    BY DEF TerminalsLeaveNothing
  <2>1. TasksDone /\ kpc = "closed" BY DEF IInv, Link, Ended, Killing
  <2>2. ASSUME NEW t \in Terms PROVE ~Live(t) /\ waiter[t] \in {"none", "done"}
    BY <2>1 DEF IInv, HostInv, HostTyped, TerminalsTypeOK, Started, Live
  <2> QED BY <2>1, <2>2
<1> QED BY <1>1, Inductive, PTL

\* What is reported is the agent's own failure, and one reaped by the release is.
THEOREM OwnFailureIsReported == Spec => []ExitIsReported
<1>1. IInv => ExitIsReported BY DEF IInv, RunnerInv, Killing, ExitIsReported
<1> QED BY <1>1, Inductive, PTL
===============================================================================
