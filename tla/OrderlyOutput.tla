---------------------------- MODULE OrderlyOutput ----------------------------
(***************************************************************************)
(* What the output of a Connection promises, without its goroutines:       *)
(* frames are written in the order they are queued and none is skipped; a  *)
(* sender told "sent" has its frame on the wire; a drain completes only    *)
(* when nothing is left, and nothing is queued or written after it.        *)
(***************************************************************************)
EXTENDS Naturals, Sequences

CONSTANT Frames

VARIABLES
  pending,  \* frames queued and not yet taken, in order
  current,  \* the frame being written, as a sequence of at most one
  wire,     \* frames written
  told,     \* frames whose sender was told they were sent
  state     \* "open", "lost" after a failed write, or "drained"

vars == <<pending, current, wire, told, state>>

Init ==
  /\ pending = <<>> /\ current = <<>> /\ wire = <<>>
  /\ told = {} /\ state = "open"

Accept ==
  /\ state # "drained"
  /\ \E f \in Frames : pending' = Append(pending, f)
  /\ UNCHANGED <<current, wire, told, state>>

Take ==
  /\ state = "open" /\ current = <<>> /\ pending # <<>>
  /\ current' = <<Head(pending)>> /\ pending' = Tail(pending)
  /\ UNCHANGED <<wire, told, state>>

Write ==
  /\ state = "open" /\ current # <<>>
  /\ wire' = wire \o current /\ current' = <<>>
  /\ UNCHANGED <<pending, told, state>>

\* A failed write loses its frame, and every frame behind it.
Lose ==
  /\ state = "open" /\ current # <<>>
  /\ state' = "lost"
  /\ UNCHANGED <<pending, current, wire, told>>

Tell ==
  /\ \E i \in 1..Len(wire) : told' = told \cup {wire[i]}
  /\ UNCHANGED <<pending, current, wire, state>>

Drain ==
  /\ state = "open" /\ current = <<>> /\ pending = <<>>
  /\ state' = "drained"
  /\ UNCHANGED <<pending, current, wire, told>>

Next == Accept \/ Take \/ Write \/ Lose \/ Tell \/ Drain

Spec == Init /\ [][Next]_vars
===============================================================================
