------------------------------- MODULE Terminals -------------------------------
(***************************************************************************)
(* The terminals a client host runs for its agent (clienthost/terminal.go, *)
(* and Close of clienthost/host.go): requests of the agent start commands, *)
(* wait for them, kill and release them, each in a task of its own; the    *)
(* host closes once the run is over.  A command leads a process group      *)
(* (internal/osrun), whose other processes may outlive it.                 *)
(*                                                                         *)
(* terminal/output, which only reads, is left out.                         *)
(***************************************************************************)
EXTENDS Naturals, FiniteSets

CONSTANTS
  Terms,        \* the ids of terminals, and with them how many are made (a bound)
  Handlers,     \* the tasks of the agent's requests that may run at once (a bound)
  MaxTerminals, \* maxTerminals
  None

ASSUME TerminalsAssumption ==
  /\ IsFiniteSet(Terms) /\ MaxTerminals \in Nat /\ None \notin Terms

VARIABLES
  group,     \* each command's processes: "none", "command" (it runs, and others
             \* with it), "left" (it has exited, others have not) or "gone"
  once,      \* t.once is used
  waiter,    \* the goroutine that waits for it: "none", "wait", "kill" or "done",
             \* once it has closed t.finished
  listed,    \* h.terminals
  hostCtx,   \* h.ctx is live
  closing,   \* h.closing
  hpc,       \* where each request's task is
  hterm,     \* the terminal it is about
  kpc,       \* where Close is
  rest,      \* the terminals Close has yet to kill
  kterm      \* the one it waits for

termVars == <<group, once, waiter, listed>>
taskVars == <<hpc, hterm>>
hostVars == <<hostCtx, closing, kpc, rest, kterm>>

TerminalsInit ==
  /\ group = [t \in Terms |-> "none"] /\ once = {}
  /\ waiter = [t \in Terms |-> "none"] /\ listed = {}
  /\ hostCtx = TRUE /\ closing = FALSE
  /\ hpc = [h \in Handlers |-> "idle"] /\ hterm = [h \in Handlers |-> None]
  /\ kpc = "open" /\ rest = {} /\ kterm = None

\* osrun.Kill reaches the command and its group.
Killed(t) == [group EXCEPT ![t] = "gone"]

\* Only the first kill of a terminal signals.
KillOnce(t) ==
  /\ group' = IF t \in once THEN group ELSE Killed(t)
  /\ once' = once \cup {t}

Moves(h, from, to) == hpc[h] = from /\ hpc' = [hpc EXCEPT ![h] = to]
Ends(h, from) == Moves(h, from, "idle") /\ hterm' = [hterm EXCEPT ![h] = None]

(***************************************************************************)
(* The requests.                                                           *)
(***************************************************************************)
\* terminal/create, once its checks of both contexts have passed; another
\* request once it has found its terminal.
BeginCreate(h) ==
  /\ hostCtx
  /\ Moves(h, "idle", "create")
  /\ UNCHANGED <<termVars, hterm, hostVars>>

Ops == {"wait", "kill", "release"}

BeginOn(h, t, op) ==
  /\ t \in listed /\ op \in Ops
  /\ Moves(h, "idle", op)
  /\ hterm' = [hterm EXCEPT ![h] = t]
  /\ UNCHANGED <<termVars, hostVars>>

MayStart == ~closing /\ hostCtx /\ Cardinality(listed) < MaxTerminals

\* createTerminal's critical section.  Start may fail, and does if the host's
\* context ends first.
Create(h) ==
  /\ Ends(h, "create")
  /\ \/ UNCHANGED termVars
     \/ \E t \in Terms :
          /\ group[t] = "none" /\ MayStart
          /\ group' = [group EXCEPT ![t] = "command"]
          /\ waiter' = [waiter EXCEPT ![t] = "wait"]
          /\ listed' = listed \cup {t}
          /\ UNCHANGED once
  /\ UNCHANGED hostVars

\* terminal/wait_for_exit; `cut' is the end of the request's own context.
Wait(h, cut) ==
  /\ Ends(h, "wait")
  /\ waiter[hterm[h]] = "done" \/ ~hostCtx \/ cut
  /\ UNCHANGED <<termVars, hostVars>>

KillTerminal(h) ==
  /\ Ends(h, "kill") /\ KillOnce(hterm[h])
  /\ UNCHANGED <<waiter, listed, hostVars>>

\* terminal/release kills, waits without regard to its context, and then
\* frees the place; two releases of a terminal both do.
ReleaseTerminal(h) ==
  /\ Moves(h, "release", "released") /\ KillOnce(hterm[h])
  /\ UNCHANGED <<waiter, listed, hterm, hostVars>>

\* Mutant: the kill is enough.
Awaited_NoWait(t) == TRUE

\* t.finished is closed.
Awaited(t) == waiter[t] = "done"

Released(h) ==
  /\ Ends(h, "released") /\ Awaited(hterm[h])
  /\ listed' = listed \ {hterm[h]}
  /\ UNCHANGED <<group, once, waiter, hostVars>>

TaskStep(h, cut) ==
  Create(h) \/ Wait(h, cut) \/ KillTerminal(h) \/ ReleaseTerminal(h) \/ Released(h)

(***************************************************************************)
(* The commands.                                                           *)
(***************************************************************************)
\* External: a command exits by itself, with others of its group or not.
CommandExits(t) ==
  /\ group[t] = "command"
  /\ group' \in {[group EXCEPT ![t] = "left"], Killed(t)}
  /\ UNCHANGED <<once, waiter, listed, taskVars, hostVars>>

\* exec.CommandContext kills what still runs as the host's context ends.
ContextKills(t) ==
  /\ ~hostCtx /\ group[t] = "command"
  /\ group' = Killed(t)
  /\ UNCHANGED <<once, waiter, listed, taskVars, hostVars>>

\* Wait returns once the command has exited, and its output has been copied
\* or WaitDelay has passed.
CommandWaited(t) ==
  /\ waiter[t] = "wait" /\ group[t] \in {"left", "gone"}
  /\ waiter' = [waiter EXCEPT ![t] = "kill"]
  /\ UNCHANGED <<group, once, listed, taskVars, hostVars>>

\* What the command left of its group is killed before t.finished is closed.
WaiterKills(t) ==
  /\ waiter[t] = "kill"
  /\ waiter' = [waiter EXCEPT ![t] = "done"]
  /\ KillOnce(t)
  /\ UNCHANGED <<listed, taskVars, hostVars>>

CommandStep(t) == ContextKills(t) \/ CommandWaited(t) \/ WaiterKills(t)

(***************************************************************************)
(* The host's Close.                                                       *)
(***************************************************************************)
CloseCancels ==
  /\ kpc = "cancel" /\ kpc' = "list"
  /\ hostCtx' = FALSE
  /\ UNCHANGED <<termVars, taskVars, closing, rest, kterm>>

CloseLists ==
  /\ kpc = "list" /\ kpc' = "kill"
  /\ closing' = TRUE /\ rest' = listed
  /\ UNCHANGED <<termVars, taskVars, hostCtx, kterm>>

CloseKills ==
  /\ kpc = "kill"
  /\ IF rest = {}
     THEN kpc' = "closed" /\ UNCHANGED <<group, once, rest, kterm>>
     ELSE \E t \in rest : /\ KillOnce(t) /\ kterm' = t
                          /\ rest' = rest \ {t} /\ kpc' = "await"
  /\ UNCHANGED <<waiter, listed, taskVars, hostCtx, closing>>

CloseAwaits ==
  /\ kpc = "await" /\ Awaited(kterm)
  /\ kpc' = "kill"
  /\ UNCHANGED <<termVars, taskVars, hostCtx, closing, rest, kterm>>

CloseStep == CloseCancels \/ CloseLists \/ CloseKills \/ CloseAwaits

(***************************************************************************)
(* What holds of whatever drives a host.                                   *)
(***************************************************************************)
TerminalsTypeOK ==
  /\ group \in [Terms -> {"none", "command", "left", "gone"}]
  /\ once \subseteq Terms /\ listed \subseteq Terms /\ rest \subseteq Terms
  /\ waiter \in [Terms -> {"none", "wait", "kill", "done"}]
  /\ hostCtx \in BOOLEAN /\ closing \in BOOLEAN
  /\ hpc \in [Handlers -> {"idle", "create", "wait", "kill", "release", "released"}]
  /\ hterm \in [Handlers -> Terms \cup {None}]
  /\ kpc \in {"open", "cancel", "list", "kill", "await", "closed"}
  /\ kterm \in Terms \cup {None}

\* A terminal has processes.
Live(t) == group[t] \in {"command", "left"}
===============================================================================
