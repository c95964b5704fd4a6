---------------------------- MODULE MCPromptCancels ----------------------------
(***************************************************************************)
(* AgentRuntime with a history of which prompts each session/cancel had in *)
(* front of it.                                                            *)
(***************************************************************************)
EXTENDS AgentRuntime

VARIABLE addressed  \* the requests of a session that were read before its
                    \* session/cancel and ran when that was read (history)

AddressedInit == RuntimeInit /\ addressed = {}

AddressedNext ==
  /\ RuntimeNext
  /\ addressed' =
       addressed \cup {r \in Running : session[r] \in cancels' \ cancels}

Addressed == AddressedInit /\ [][AddressedNext]_<<runtimeVars, addressed>>

\* docs/agent-runtime.md: session/cancel is mapped to the cancellation of the
\* prompt's context.  Refuted: a prompt that was read before session/cancel, and
\* whose task has not tracked it yet, runs on with a live context.
CancelReachesPrompts ==
  npc = "idle" =>
    \A r \in addressed : ppc[r] = "tracked" /\ hpc[r] = "run" => Cut(r)
===============================================================================
