------------------------------ MODULE V2Handshake ------------------------------
(***************************************************************************)
(* A v2 client and a v2 agent of this SDK, joined by their transport: each *)
(* reads in order what the other queued.                                   *)
(***************************************************************************)
EXTENDS Naturals, Sequences

CONSTANTS
  MaxEra, ClientSends, AgentSends  \* bounds, see V2Initiator and V2Responder

VARIABLES
  compatible, \* the client accepts every successful answer to an initialize
  cInitialized, cInitializing, cRepeatable, cRecorded, cAttempt, cCall,
  cWaiting, cRequests, cHand, cOut, cSends, cAdmitted, cRefused, cUnready, cStale,
  aState, aInitialized, aRepeatable, aPending, aSent, aHandler, aAttempt,
  aRequests, aHand, aOut, aSends, aAdmitted, aRefused, aStale

C == INSTANCE V2Initiator WITH
       MaxSends <- ClientSends, MaxFrames <- 0,
       initialized <- cInitialized, initializing <- cInitializing,
       repeatable <- cRepeatable, recorded <- cRecorded, attempt <- cAttempt,
       call <- cCall, waiting <- cWaiting, requests <- cRequests,
       hand <- cHand, out <- cOut, sends <- cSends, admitted <- cAdmitted,
       refused <- cRefused, unready <- cUnready, stale <- cStale

A == INSTANCE V2Responder WITH
       MaxSends <- AgentSends, MaxFrames <- 0,
       state <- aState, initialized <- aInitialized,
       repeatable <- aRepeatable, pending <- aPending, sent <- aSent,
       handler <- aHandler, attempt <- aAttempt, requests <- aRequests,
       hand <- aHand, out <- aOut, sends <- aSends, admitted <- aAdmitted,
       refused <- aRefused, stale <- aStale

clientVars == <<cInitialized, cInitializing, cRepeatable, cRecorded, cAttempt,
                cCall, cWaiting, cRequests, cHand, cSends, cAdmitted, cRefused,
                cUnready, cStale>>
agentVars == <<aState, aInitialized, aRepeatable, aPending, aSent, aHandler,
               aAttempt, aRequests, aHand, aSends, aAdmitted, aRefused, aStale>>
vars == <<compatible, clientVars, cOut, agentVars, aOut>>

Init == compatible \in BOOLEAN /\ C!Init /\ A!Init

NoClient == UNCHANGED <<compatible, clientVars, cOut>>
NoAgent == UNCHANGED <<compatible, agentVars, aOut>>

Client == C!Local /\ NoAgent

Agent ==
  /\ A!Local /\ NoClient
  /\ compatible => aHand'.result # "odd"

ClientReads ==
  /\ aOut # <<>> /\ C!Receive(Head(aOut))
  /\ aOut' = Tail(aOut)
  /\ UNCHANGED <<compatible, agentVars>>

AgentReads ==
  /\ cOut # <<>> /\ A!Receive(Head(cOut))
  /\ cOut' = Tail(cOut)
  /\ UNCHANGED <<compatible, clientVars>>

\* Nothing is left to say.
Quiet ==
  /\ cOut = <<>> /\ aOut = <<>> /\ C!LockFree /\ A!LockFree
  /\ cCall = "none" /\ aHandler = "none" /\ cRequests = 0 /\ aRequests = 0
  /\ UNCHANGED vars

Next == Client \/ Agent \/ ClientReads \/ AgentReads \/ Quiet

Spec == Init /\ [][Next]_vars

(***************************************************************************)
(* Fairness: goroutines run, handlers return, the transport delivers.      *)
(***************************************************************************)
FairSpec ==
  /\ Spec
  /\ WF_vars(C!Queue /\ NoAgent)
  /\ WF_vars(C!Abandon /\ NoAgent)
  /\ WF_vars(A!Queue /\ NoClient)
  /\ WF_vars(A!HandlerReturns /\ NoClient)
  /\ SF_vars(A!AnswerInitialize /\ NoClient)
  /\ SF_vars(ClientReads) /\ SF_vars(AgentReads)

(***************************************************************************)
(* Properties.                                                             *)
(***************************************************************************)
\* Every variable has its type.
TypeOK == A!TypeOK /\ C!TypeOK

\* What the client's guard lets through, the agent's guard does: neither an
\* initialize nor a request, notification or answer is ever refused by the
\* other side, but a $/cancel_request of an initialize that failed meanwhile
\* ("as the reference SDK does", in both guards).
AgentWelcomes == aRefused \subseteq {"cancel"}

\* A frame is acted on under the initialization its sender had in mind: what
\* the agent sends after its answer to an initialize stays behind that on the
\* wire (outgoingResponse's comment), so a client that accepts the answer
\* refuses nothing of it and takes nothing for an earlier initialization's.
SameEra == compatible => cUnready = {} /\ ~cStale /\ ~aStale

\* With no initialize in flight both sides go by the same one, and the client
\* repeats it only if the agent will let it.
QuietAgree ==
  compatible /\ cCall = "none" /\ aHandler = "none"
    => /\ cInitialized = aInitialized /\ cRecorded = aSent
       /\ cRepeatable => aRepeatable

\* Every initialize ends.
InitializeEnds == cInitializing ~> ~cInitializing
===============================================================================
