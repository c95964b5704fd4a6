--------------------------- MODULE V2HandshakeProofs ---------------------------
(***************************************************************************)
(* What holds between a v2 client and a v2 agent however often the client  *)
(* initializes and whatever else the two send.  The invariant follows the  *)
(* one initialize in progress along its way: the client's line to the      *)
(* agent, the agent's handler, and the line back; and it says what may     *)
(* stand before and behind it in either line.                              *)
(***************************************************************************)
EXTENDS V2Handshake, TLAPS

Wire == [kind : {"none", "initialize", "initialized", "request", "notify",
                 "cancel", "response"},
         era : Nat, result : {"none", "ok", "odd", "error"}]
Idle == [kind |-> "none", era |-> 0, result |-> "none"]

\* What one side has sent and the other has not read, the frame built included.
Line(out, hand) == IF hand = Idle THEN out ELSE Append(out, hand)
cLine == Line(cOut, cHand)
aLine == Line(aOut, aHand)

(***************************************************************************)
(* The invariant.                                                          *)
(***************************************************************************)
Flags ==
  /\ compatible \in BOOLEAN
  /\ cInitialized \in BOOLEAN /\ cInitializing \in BOOLEAN /\ cRepeatable \in BOOLEAN
  /\ aInitialized \in BOOLEAN /\ aRepeatable \in BOOLEAN

Data ==
  /\ cRecorded \in Nat /\ cAttempt \in Nat
  /\ aPending \in Nat /\ aSent \in Nat /\ aAttempt \in Nat
  /\ cCall \in {"none", "queue", "wait", "abandon"}
  /\ aState \in {"uninitialized", "initializing", "ready"}
  /\ aHandler \in {"none", "run", "answer"}
  /\ cHand \in Wire /\ aHand \in Wire
  /\ cOut \in Seq(Wire) /\ aOut \in Seq(Wire)

Types == Flags /\ Data

\* The frames that are refused unless their reader is initialized: all but
\* errors, the handshake, and its cancellation.
Ordinary(m) ==
  m.kind \in {"request", "notify"} \/ (m.kind = "response" /\ m.result # "error")

IsAnswer(m) == m.kind = "initialized"
Succeeds(m) == IsAnswer(m) /\ m.result = "ok"

\* No answer to an initialize is on its way.
NoAnswer == \A j \in 1..Len(aLine) : ~IsAnswer(aLine[j])

ClientInv ==
  /\ cInitializing <=> cCall # "none"
  /\ cCall = "queue" <=> cHand.kind = "initialize"
  /\ cRecorded <= cAttempt
  /\ cInitializing => cRecorded < cAttempt
  /\ cInitialized <=> cRecorded > 0
  /\ cRepeatable => cInitialized

AgentInv ==
  /\ A!WaitsForHandler
  /\ aInitialized <=> aSent > 0
  /\ aRepeatable => aState = "ready"
  /\ aState = "ready" => aRepeatable \/ "request" \in aAdmitted

\* The initialize is in one place: in the client's line, ...
InitializeInv ==
  \A i \in 1..Len(cLine) : cLine[i].kind = "initialize" =>
    /\ cLine[i].era = cAttempt /\ cCall \in {"queue", "wait"}
    /\ aHandler = "none" /\ NoAnswer
    /\ \A j \in 1..Len(cLine) : cLine[j].kind = "initialize" => j = i

\* ... with the agent's handler, ...
HandlerInv ==
  aHandler # "none" => cCall = "wait" /\ aAttempt = cAttempt /\ NoAnswer

\* ... or, answered, in the agent's line.
AnswerInv ==
  \A i \in 1..Len(aLine) : IsAnswer(aLine[i]) =>
    /\ aLine[i].era = cAttempt /\ cCall = "wait"
    /\ compatible => aLine[i].result # "odd"
    /\ aLine[i].result = "ok" => aInitialized
    /\ \A j \in 1..Len(aLine) : IsAnswer(aLine[j]) => j = i

\* An ordinary frame of the client's is ahead of an initialize in its line and
\* never beside one that the agent has begun.
ClientFrames ==
  \A i \in 1..Len(cLine) : Ordinary(cLine[i]) =>
    /\ aState = "ready" /\ NoAnswer
    /\ \A j \in 1..Len(cLine) : j < i => cLine[j].kind # "initialize"
    /\ compatible => cLine[i].era = aSent

\* A request, on its way or admitted, closes the client's repeat window.
RequestsClose ==
  "request" \in aAdmitted \/ (\E i \in 1..Len(cLine) : cLine[i].kind = "request") =>
    cInitialized /\ ~cInitializing /\ ~cRepeatable

\* A frame of the agent's goes by what its reader will have recorded by then;
\* before there is anything to record it is a $/cancel_request, sent while the
\* agent handles the first initialize and read before its answer.
AgentFrames ==
  compatible =>
    \A i \in 1..Len(aLine) : Ordinary(aLine[i]) \/ aLine[i].kind = "cancel" =>
      /\ aLine[i].era = IF \E j \in 1..Len(aLine) : j < i /\ Succeeds(aLine[j])
                        THEN cAttempt ELSE cRecorded
      /\ \/ aLine[i].era > 0
         \/ /\ aLine[i].kind = "cancel" /\ cCall = "wait"
            /\ \A j \in 1..Len(aLine) : j < i => ~IsAnswer(aLine[j])

\* The sides agree but for an answer on its way.
Agreement ==
  /\ cInitialized => aInitialized
  /\ compatible => aSent = IF \E j \in 1..Len(aLine) : Succeeds(aLine[j])
                           THEN cAttempt ELSE cRecorded

IInv ==
  /\ Types /\ ClientInv /\ AgentInv /\ InitializeInv /\ HandlerInv /\ AnswerInv
  /\ ClientFrames /\ RequestsClose /\ AgentFrames /\ Agreement

(***************************************************************************)
(* Lines.                                                                  *)
(***************************************************************************)
\* M is L with f behind it.
Extends(L, M, f) ==
  /\ Len(L) \in Nat /\ Len(M) = Len(L) + 1 /\ M[Len(L) + 1] = f
  /\ \A i \in 1..Len(L) : M[i] = L[i]

\* M is what follows the first of L.
Follows(L, M) ==
  /\ Len(L) \in Nat /\ Len(M) \in Nat /\ Len(L) = Len(M) + 1
  /\ \A i \in 1..Len(M) : M[i] = L[i + 1]

LEMMA AppendExtends ==
  ASSUME NEW L \in Seq(Wire), NEW f \in Wire
  PROVE  Extends(L, Append(L, f), f)
BY DEF Extends

\* A frame that is built, queued at once, or given up, and a line that is read.
LEMMA LineExtends ==
  ASSUME NEW out \in Seq(Wire), NEW f \in Wire, f # Idle
  PROVE  /\ Extends(Line(out, Idle), Line(out, f), f)
         /\ Extends(Line(out, Idle), Line(Append(out, f), Idle), f)
         /\ Line(Append(out, f), Idle) = Line(out, f)
BY AppendExtends DEF Line

LEMMA LineFollows ==
  ASSUME NEW out \in Seq(Wire), NEW hand \in Wire, out # <<>>
  PROVE  /\ Follows(Line(out, hand), Line(Tail(out), hand))
         /\ Line(out, hand)[1] = Head(out) /\ Head(out) \in Wire
<1>1. /\ Len(out) \in Nat \ {0} /\ Tail(out) \in Seq(Wire) /\ Len(Tail(out)) = Len(out) - 1
      /\ \A i \in 1..Len(Tail(out)) : Tail(out)[i] = out[i + 1]
      /\ out[1] = Head(out) /\ Head(out) \in Wire
  OBVIOUS
<1>2. CASE hand = Idle
  BY <1>1, <1>2 DEF Line, Follows
<1>3. CASE hand # Idle
  <2> DEFINE P == Append(out, hand)
             Q == Append(Tail(out), hand)
  <2>1. Line(out, hand) = P /\ Line(Tail(out), hand) = Q
    BY <1>3 DEF Line
  <2>2. Extends(out, P, hand) /\ Extends(Tail(out), Q, hand)
    BY <1>1, AppendExtends
  <2> HIDE DEF P, Q
  <2>3. /\ Len(P) = Len(out) + 1 /\ P[Len(out) + 1] = hand
        /\ \A i \in 1..Len(out) : P[i] = out[i]
        /\ Len(Q) = Len(out) /\ Q[Len(out)] = hand
        /\ \A i \in 1..Len(Tail(out)) : Q[i] = Tail(out)[i]
    BY <1>1, <2>2 DEF Extends
  <2>4. ASSUME NEW i \in 1..Len(Q) PROVE Q[i] = P[i + 1]
    <3>1. CASE i = Len(out)
      BY <2>3, <3>1
    <3>2. CASE i # Len(out)
      <4>1. i \in 1..Len(Tail(out)) /\ i + 1 \in 1..Len(out)
        <5>1. Len(Q) = Len(out) /\ Len(Tail(out)) = Len(out) - 1 /\ Len(out) \in Nat \ {0}
          BY <1>1, <2>3
        <5>2. i \in 1..Len(out) /\ i # Len(out)
          BY <3>2, <5>1
        <5> QED BY <5>1, <5>2
      <4>2. Q[i] = Tail(out)[i] /\ P[i + 1] = out[i + 1]
        BY <2>3, <4>1
      <4>3. Tail(out)[i] = out[i + 1]
        BY <1>1, <4>1
      <4> QED BY <4>2, <4>3
    <3> QED BY <3>1, <3>2
  <2>5. P[1] = out[1] /\ Len(P) \in Nat /\ Len(Q) \in Nat /\ Len(P) = Len(Q) + 1
    BY <1>1, <2>3
  <2> QED BY <1>1, <2>1, <2>4, <2>5 DEF Follows
<1> QED BY <1>2, <1>3

(***************************************************************************)
(* Types.                                                                  *)
(***************************************************************************)
LEMMA FrameTypes ==
  ASSUME NEW e \in Nat,
         NEW kind \in {"none", "initialize", "initialized", "request", "notify",
                       "cancel", "response"},
         NEW r \in {"none", "ok", "odd", "error"}
  PROVE  [kind |-> kind, era |-> e, result |-> r] \in Wire
BY DEF Wire

LEMMA AppendType == ASSUME NEW L \in Seq(Wire), NEW f \in Wire PROVE Append(L, f) \in Seq(Wire)
OBVIOUS

LEMMA ClientTypes ==
  ASSUME Types, C!Local \/ \E m \in Wire : C!Receive(m),
         UNCHANGED <<compatible, agentVars>>, aOut' \in Seq(Wire)
  PROVE  Types'
<1>a. UNCHANGED <<compatible, aState, aInitialized, aRepeatable, aPending, aSent, aHandler,
                  aAttempt, aHand>>
  BY DEF agentVars
<1> DEFINE Typed == Flags' /\ Data'
<1> USE <1>a DEF Types
<1>1. CASE C!BeginInitialize
  <2>1. Flags' BY <1>1 DEF Flags, C!BeginInitialize
  <2>2. cAttempt \in Nat /\ cAttempt' = cAttempt + 1 /\ UNCHANGED <<cRecorded, cOut>>
        /\ cCall' = "queue"
        /\ cHand' = [kind |-> "initialize", era |-> cAttempt + 1, result |-> "none"]
    BY <1>1 DEF Data, C!BeginInitialize, C!Frame
  <2>3. cAttempt' \in Nat /\ cHand' \in Wire
    <3>1. cAttempt + 1 \in Nat
      BY <2>2
    <3> QED BY <2>2, <3>1, FrameTypes
  <2>4. Data' BY <2>2, <2>3 DEF Data
  <2> QED BY <2>1, <2>4
<1>2. ASSUME NEW kind \in {"request", "notify", "cancel"}, C!Send(kind) PROVE Typed
  <2>1. Flags' BY <1>2 DEF Flags, C!Send
  <2>2. Data' BY <1>2, FrameTypes DEF Data, C!Send, C!calls, C!Frame
  <2> QED BY <2>1, <2>2
<1>3. CASE C!AnswerRequest
  <2>1. Flags' BY <1>3 DEF Flags, C!AnswerRequest, C!lifecycle
  <2>2. \E r \in {"ok", "error"} :
          cHand' = [kind |-> "response", era |-> cRecorded, result |-> r]
    BY <1>3 DEF C!AnswerRequest, C!Frame
  <2>3. UNCHANGED <<cRecorded, cAttempt, cCall, cOut>>
    BY <1>3 DEF C!AnswerRequest, C!lifecycle, C!calls
  <2>4. Data' BY <2>2, <2>3, FrameTypes DEF Data
  <2> QED BY <2>1, <2>4
<1>4. CASE C!Queue \/ C!GiveUp
  <2>1. Flags' BY <1>4 DEF Flags, C!Queue, C!GiveUp, C!lifecycle
  <2>2. /\ UNCHANGED <<cRecorded, cAttempt>> /\ cCall' \in {cCall, "wait", "abandon"}
        /\ cHand' = Idle /\ (cOut' = cOut \/ cOut' = Append(cOut, cHand))
    BY <1>4 DEF C!Queue, C!GiveUp, C!lifecycle, C!NoFrame, C!Frame, Idle
  <2>3. cHand' \in Wire /\ cOut' \in Seq(Wire)
    BY <2>2, AppendType, FrameTypes DEF Data, Idle
  <2>4. Data' BY <2>2, <2>3 DEF Data
  <2> QED BY <2>1, <2>4
<1>5. CASE C!Abandon
  <2>1. Flags' BY <1>5 DEF Flags, C!Abandon, C!CompleteInitialize
  <2>2. Data' BY <1>5 DEF Data, C!Abandon, C!CompleteInitialize
  <2> QED BY <2>1, <2>2
<1>6. ASSUME NEW m \in Wire, C!ReceiveInitialized(m) PROVE Typed
  <2>1. Flags' BY <1>6 DEF Flags, C!ReceiveInitialized, C!CompleteInitialize
  <2>2. m.era \in Nat BY DEF Wire
  <2>3. Data' BY <1>6, <2>2 DEF Data, C!ReceiveInitialized, C!CompleteInitialize
  <2> QED BY <2>1, <2>3
<1>7. ASSUME NEW m \in Wire,
             C!ReceiveRequest(m) \/ C!ReceiveNotification(m) \/ C!ReceiveResponse(m)
      PROVE  Typed
  <2>1. UNCHANGED <<cInitialized, cInitializing, cRepeatable, cRecorded, cAttempt, cCall, cHand>>
    BY <1>7 DEF C!ReceiveRequest, C!ReceiveNotification, C!ReceiveResponse, C!lifecycle, C!calls
  <2>2. cOut' = cOut \/ \E f \in Wire : cOut' = Append(cOut, f)
    BY <1>7, FrameTypes DEF Data, C!ReceiveRequest, C!ReceiveNotification, C!ReceiveResponse,
       C!Frame
  <2>3. cOut' \in Seq(Wire)
    BY <2>2, AppendType DEF Data
  <2> QED BY <2>1, <2>3 DEF Flags, Data
<1> QED
  BY <1>1, <1>2, <1>3, <1>4, <1>5, <1>6, <1>7 DEF C!Local, C!Receive

LEMMA AgentTypes ==
  ASSUME Types, A!Local \/ \E m \in Wire : A!Receive(m),
         UNCHANGED <<compatible, clientVars>>, cOut' \in Seq(Wire)
  PROVE  Types'
<1>c. UNCHANGED <<compatible, cInitialized, cInitializing, cRepeatable, cRecorded, cAttempt,
                  cCall, cHand>>
  BY DEF clientVars
<1> DEFINE Typed == Flags' /\ Data'
<1> USE <1>c DEF Types
<1>1. CASE A!HandlerReturns
  <2>1. Flags' BY <1>1 DEF Flags, A!HandlerReturns
  <2>2. Data' BY <1>1 DEF Data, A!HandlerReturns
  <2> QED BY <2>1, <2>2
<1>2. CASE A!AnswerInitialize
  <2>1. Flags' BY <1>2 DEF Flags, A!AnswerInitialize
  <2>2. aHand' \in Wire BY <1>2, FrameTypes DEF Data, A!AnswerInitialize, A!Frame
  <2>3. Data' BY <1>2, <2>2 DEF Data, A!AnswerInitialize
  <2> QED BY <2>1, <2>3
<1>3. ASSUME NEW kind \in {"request", "notify", "cancel"}, A!Send(kind) PROVE Typed
  <2>1. Flags' BY <1>3 DEF Flags, A!Send, A!lifecycle
  <2>2. Data' BY <1>3, FrameTypes DEF Data, A!Send, A!lifecycle, A!tasks, A!Frame
  <2> QED BY <2>1, <2>2
<1>4. CASE A!AnswerRequest
  <2>1. Flags' BY <1>4 DEF Flags, A!AnswerRequest, A!lifecycle
  <2>2. aHand' \in Wire BY <1>4, FrameTypes DEF Data, A!AnswerRequest, A!Frame
  <2>3. Data' BY <1>4, <2>2 DEF Data, A!AnswerRequest, A!lifecycle
  <2> QED BY <2>1, <2>3
<1>5. CASE A!Queue \/ A!GiveUp
  <2>1. Flags' BY <1>5 DEF Flags, A!Queue, A!GiveUp, A!lifecycle
  <2>2. /\ UNCHANGED <<aState, aPending, aSent, aHandler, aAttempt>>
        /\ aHand' = Idle /\ (aOut' = aOut \/ aOut' = Append(aOut, aHand))
    BY <1>5 DEF A!Queue, A!GiveUp, A!lifecycle, A!tasks, A!NoFrame, A!Frame, Idle
  <2>3. aHand' \in Wire /\ aOut' \in Seq(Wire)
    BY <2>2, AppendType, FrameTypes DEF Data, Idle
  <2>4. Data' BY <2>2, <2>3 DEF Data
  <2> QED BY <2>1, <2>4
<1>6. ASSUME NEW m \in Wire, A!Refuse(m) PROVE Typed
  <2>1. UNCHANGED <<aState, aInitialized, aRepeatable, aPending, aSent, aHandler, aAttempt, aHand>>
    BY <1>6 DEF A!Refuse, A!lifecycle, A!tasks
  <2>2. m.era \in Nat BY DEF Wire
  <2>3. aOut' = aOut \/ \E f \in Wire : aOut' = Append(aOut, f)
    BY <1>6, <2>2, FrameTypes DEF A!Refuse, A!Frame
  <2>4. aOut' \in Seq(Wire)
    BY <2>3, AppendType DEF Data
  <2> QED BY <2>1, <2>4 DEF Flags, Data
<1>7. ASSUME NEW m \in Wire, A!ReceiveInitialize(m), ~A!Refuse(m) PROVE Typed
  <2>1. Flags' BY <1>7 DEF Flags, A!ReceiveInitialize
  <2>2. m.era \in Nat BY DEF Wire
  <2>3. Data' BY <1>7, <2>2 DEF Data, A!ReceiveInitialize
  <2> QED BY <2>1, <2>3
<1>8. ASSUME NEW m \in Wire, A!ReceiveRequest(m) \/ A!ReceiveOther(m), ~A!Refuse(m) PROVE Typed
  <2>1. UNCHANGED <<aState, aInitialized, aPending, aSent, aHandler, aAttempt, aHand, aOut>>
        /\ aRepeatable' \in {aRepeatable, FALSE}
    BY <1>8 DEF A!ReceiveRequest, A!ReceiveOther, A!Admit, A!lifecycle, A!tasks
  <2> QED BY <2>1 DEF Flags, Data
<1> QED
  BY <1>1, <1>2, <1>3, <1>4, <1>5, <1>6, <1>7, <1>8 DEF A!Local, A!Receive

LEMMA TypesStep ==
  ASSUME Types, [Next]_vars
  PROVE  Types'
<1>1. CASE Client
  BY <1>1, ClientTypes DEF Client, NoAgent, Types, Data
<1>2. CASE Agent
  BY <1>2, AgentTypes DEF Agent, NoClient, Types, Data
<1>3. CASE ClientReads
  <2>1. Head(aOut) \in Wire /\ Tail(aOut) \in Seq(Wire)
    BY <1>3 DEF ClientReads, Types, Data
  <2> QED BY <1>3, <2>1, ClientTypes DEF ClientReads
<1>4. CASE AgentReads
  <2>1. Head(cOut) \in Wire /\ Tail(cOut) \in Seq(Wire)
    BY <1>4 DEF AgentReads, Types, Data
  <2> QED BY <1>4, <2>1, AgentTypes DEF AgentReads
<1>5. CASE UNCHANGED vars
  BY <1>5 DEF Types, Flags, Data, vars, clientVars, agentVars
<1> QED BY <1>1, <1>2, <1>3, <1>4, <1>5 DEF Next, Quiet

(***************************************************************************)
(* The client's steps, which leave the agent and its line alone.           *)
(***************************************************************************)
Untouched ==
  /\ UNCHANGED <<compatible, aState, aInitialized, aRepeatable, aPending, aSent, aHandler,
                 aAttempt, aAdmitted>>
  /\ aLine' = aLine

LEMMA ClientLeaves ==
  ASSUME NoAgent
  PROVE  Untouched /\ (NoAnswer' <=> NoAnswer)
BY DEF NoAgent, agentVars, aLine, NoAnswer, Untouched

LEMMA AgentKept == ASSUME AgentInv, Untouched PROVE AgentInv'
BY DEF AgentInv, A!WaitsForHandler, Untouched

\* A frame behind the client's line, or one fewer: what it does to the line.
LEMMA ClientBuilds ==
  ASSUME Data, cHand = Idle, cHand' \in Wire, cHand' # Idle, cOut' = cOut
  PROVE  Extends(cLine, cLine', cHand')
BY LineExtends DEF cLine, Data

LEMMA ClientQueues ==
  ASSUME Data, cHand # Idle, cHand' = Idle, cOut' = Append(cOut, cHand)
  PROVE  cLine' = cLine
BY LineExtends DEF cLine, Data, Line

LEMMA ClientDrops ==
  ASSUME Data, cHand # Idle, cHand' = Idle, cOut' = cOut
  PROVE  Extends(cLine', cLine, cHand)
BY LineExtends DEF cLine, Data

LEMMA BeginStep ==
  ASSUME IInv, C!BeginInitialize, NoAgent
  PROVE  IInv'
<1>t. Data /\ Flags /\ Types'
  BY TypesStep DEF IInv, Types, Next, Client, C!Local
<1>1. /\ cHand = Idle /\ ~cInitializing /\ (cInitialized => cRepeatable)
      /\ cInitializing' = TRUE /\ cRepeatable' = FALSE
      /\ cAttempt' = cAttempt + 1 /\ cCall' = "queue"
      /\ cHand'.kind = "initialize" /\ cHand'.era = cAttempt' /\ cHand'.result = "none"
      /\ UNCHANGED <<cInitialized, cRecorded, cOut>>
  BY DEF C!BeginInitialize, C!LockFree, C!NoFrame, C!Frame, Idle
<1>2. Untouched /\ (NoAnswer' <=> NoAnswer)
  BY ClientLeaves
<1>3. Extends(cLine, cLine', cHand')
  <2>1. cHand' \in Wire /\ cHand' # Idle
    BY <1>t, <1>1 DEF Types, Data, Idle
  <2> QED BY <1>t, <1>1, <2>1, ClientBuilds
<1>4. cCall = "none" /\ aHandler = "none" /\ NoAnswer
  BY <1>1 DEF IInv, ClientInv, HandlerInv, AnswerInv, NoAnswer
<1>5. \A i \in 1..Len(cLine) : cLine[i].kind # "initialize"
  BY <1>4 DEF IInv, InitializeInv
<1>6. ClientInv'
  BY <1>t, <1>1 DEF IInv, ClientInv, Data
<1>7. AgentInv'
  BY <1>2, AgentKept DEF IInv
<1>8. InitializeInv'
  BY <1>1, <1>2, <1>3, <1>4, <1>5 DEF InitializeInv, Extends, Untouched
<1>9. HandlerInv' /\ AnswerInv'
  BY <1>2, <1>4 DEF HandlerInv, AnswerInv, NoAnswer, Untouched
<1>10. ClientFrames'
  BY <1>1, <1>2, <1>3, <1>5 DEF IInv, ClientFrames, Extends, Ordinary, Untouched
<1>11. RequestsClose'
  BY <1>1, <1>2, <1>3 DEF IInv, RequestsClose, Extends, Untouched
<1>12. AgentFrames'
  BY <1>1, <1>2, <1>4 DEF IInv, AgentFrames, NoAnswer, Succeeds, Untouched
<1>13. Agreement'
  BY <1>1, <1>2, <1>4 DEF IInv, Agreement, NoAnswer, Succeeds, Untouched
<1> QED BY <1>t, <1>6, <1>7, <1>8, <1>9, <1>10, <1>11, <1>12, <1>13 DEF IInv

\* With no call under way nothing of an initialize is anywhere, and the agent is
\* as ready as the client is.
LEMMA CallIsOver ==
  ASSUME IInv, cCall = "none"
  PROVE  /\ aHandler = "none" /\ NoAnswer
         /\ \A i \in 1..Len(cLine) : cLine[i].kind # "initialize"
         /\ cInitialized => aState = "ready"
         /\ compatible => aSent = cRecorded
<1>1. aHandler = "none" /\ NoAnswer /\ \A i \in 1..Len(cLine) : cLine[i].kind # "initialize"
  BY DEF IInv, HandlerInv, AnswerInv, NoAnswer, InitializeInv
<1>2. cInitialized => aState = "ready"
  BY <1>1 DEF IInv, Agreement, AgentInv, A!WaitsForHandler
<1>3. compatible => aSent = cRecorded
  BY <1>1 DEF IInv, Agreement, NoAnswer, Succeeds
<1> QED BY <1>1, <1>2, <1>3

\* A frame other than an initialize: a request, a notification, or an answer.
LEMMA SpeakStep ==
  ASSUME IInv, NoAgent,
         C!AnswerRequest \/ \E kind \in {"request", "notify", "cancel"} : C!Send(kind)
  PROVE  IInv'
<1>t. Data /\ Flags /\ Types'
  BY TypesStep DEF IInv, Types, Next, Client, C!Local
<1> DEFINE Spoken ==
     /\ cHand = Idle /\ cHand'.kind \in {"request", "notify", "cancel", "response"}
     /\ cHand'.era = cRecorded
     /\ Ordinary(cHand') => cInitialized /\ ~cInitializing
     /\ cHand'.kind = "request" => ~cRepeatable'
     /\ cRepeatable' => cRepeatable
     /\ UNCHANGED <<cInitialized, cInitializing, cRecorded, cAttempt, cCall, cOut>>
<1>1. Spoken
  <2>1. ASSUME NEW kind \in {"request", "notify", "cancel"}, C!Send(kind) PROVE Spoken
    BY <2>1 DEF C!Send, C!Allowed, C!LockFree, C!NoFrame, C!Frame, C!calls, Idle, Ordinary
  <2>2. CASE C!AnswerRequest
    BY <2>2 DEF C!AnswerRequest, C!Allowed, C!LockFree, C!NoFrame, C!Frame, C!calls,
       C!lifecycle, Idle, Ordinary
  <2> QED BY <2>1, <2>2
<1>2. Untouched /\ (NoAnswer' <=> NoAnswer)
  BY ClientLeaves
<1>3. Extends(cLine, cLine', cHand')
  <2>1. cHand' \in Wire /\ cHand' # Idle
    BY <1>t, <1>1 DEF Types, Data, Idle
  <2> QED BY <1>t, <1>1, <2>1, ClientBuilds
<1>4. Ordinary(cHand') => cCall = "none"
  BY <1>1 DEF IInv, ClientInv
<1>6. ClientInv'
  BY <1>t, <1>1 DEF IInv, ClientInv, Idle
<1>7. AgentInv'
  BY <1>2, AgentKept DEF IInv
<1>8. InitializeInv'
  BY <1>1, <1>2, <1>3 DEF IInv, InitializeInv, Extends, Untouched
<1>9. HandlerInv' /\ AnswerInv'
  BY <1>1, <1>2 DEF IInv, HandlerInv, AnswerInv, Untouched
<1>10. ClientFrames'
  <2> SUFFICES ASSUME NEW i \in 1..Len(cLine'), Ordinary(cLine'[i])
               PROVE  /\ aState' = "ready" /\ NoAnswer'
                      /\ \A j \in 1..Len(cLine') : j < i => cLine'[j].kind # "initialize"
                      /\ compatible' => cLine'[i].era = aSent'
    BY DEF ClientFrames
  <2>1. CASE i = Len(cLine) + 1
    BY <1>1, <1>2, <1>3, <1>4, <2>1, CallIsOver DEF Extends, Untouched
  <2>2. CASE i # Len(cLine) + 1
    BY <1>2, <1>3, <2>2 DEF IInv, ClientFrames, Extends, Untouched
  <2> QED BY <2>1, <2>2
<1>11. RequestsClose'
  BY <1>1, <1>2, <1>3 DEF IInv, RequestsClose, Extends, Untouched, Ordinary
<1>12. AgentFrames' /\ Agreement'
  BY <1>1, <1>2 DEF IInv, AgentFrames, Agreement, Untouched
<1> QED BY <1>t, <1>6, <1>7, <1>8, <1>9, <1>10, <1>11, <1>12 DEF IInv

\* What was built is queued.
LEMMA ClientQueueStep ==
  ASSUME IInv, C!Queue, NoAgent
  PROVE  IInv'
<1>t. Data /\ Flags /\ Types'
  BY TypesStep DEF IInv, Types, Next, Client, C!Local
<1>1. /\ cHand # Idle /\ cHand' = Idle /\ cOut' = Append(cOut, cHand)
      /\ cCall' = IF cHand.kind = "initialize" THEN "wait" ELSE cCall
      /\ UNCHANGED <<cInitialized, cInitializing, cRepeatable, cRecorded, cAttempt>>
  BY DEF C!Queue, C!LockFree, C!NoFrame, C!Frame, C!lifecycle, Idle
<1>2. Untouched /\ (NoAnswer' <=> NoAnswer)
  BY ClientLeaves
<1>3. cLine' = cLine
  BY <1>t, <1>1, ClientQueues
<1>4. cCall' = cCall \/ (cCall = "queue" /\ cCall' = "wait")
  BY <1>1 DEF IInv, ClientInv
<1>6. ClientInv'
  BY <1>1 DEF IInv, ClientInv, Idle
<1>7. AgentInv'
  BY <1>2, AgentKept DEF IInv
<1>8. InitializeInv' /\ HandlerInv' /\ AnswerInv'
  BY <1>1, <1>2, <1>3, <1>4 DEF IInv, InitializeInv, HandlerInv, AnswerInv, Untouched
<1>9. ClientFrames' /\ RequestsClose'
  BY <1>1, <1>2, <1>3 DEF IInv, ClientFrames, RequestsClose, Untouched
<1>10. AgentFrames' /\ Agreement'
  BY <1>1, <1>2, <1>4 DEF IInv, AgentFrames, Agreement, Untouched
<1> QED BY <1>t, <1>6, <1>7, <1>8, <1>9, <1>10 DEF IInv

\* What was built is given up: an initialize leaves its call to be abandoned.
LEMMA ClientGiveUpStep ==
  ASSUME IInv, C!GiveUp, NoAgent
  PROVE  IInv'
<1>t. Data /\ Flags /\ Types'
  BY TypesStep DEF IInv, Types, Next, Client, C!Local
<1>1. /\ cHand # Idle /\ cHand' = Idle /\ cOut' = cOut
      /\ cCall' = IF cHand.kind = "initialize" THEN "abandon" ELSE cCall
      /\ UNCHANGED <<cInitialized, cInitializing, cRepeatable, cRecorded, cAttempt>>
  BY DEF C!GiveUp, C!NoFrame, C!Frame, C!lifecycle, Idle
<1>2. Untouched /\ (NoAnswer' <=> NoAnswer)
  BY ClientLeaves
<1>3. Extends(cLine', cLine, cHand) /\ Len(cLine') \in Nat
  BY <1>t, <1>1, ClientDrops DEF Extends
<1>4. cCall' = cCall \/ (cCall = "queue" /\ cCall' = "abandon" /\ cHand.kind = "initialize")
  BY <1>1 DEF IInv, ClientInv
<1>5. cCall = "queue" => aHandler = "none" /\ NoAnswer
  BY DEF IInv, HandlerInv, AnswerInv, NoAnswer
<1>6. ClientInv'
  BY <1>1 DEF IInv, ClientInv, Idle
<1>7. AgentInv'
  BY <1>2, AgentKept DEF IInv
<1>8. InitializeInv'
  <2> SUFFICES ASSUME NEW i \in 1..Len(cLine'), cLine'[i].kind = "initialize"
               PROVE  /\ cLine'[i].era = cAttempt' /\ cCall' \in {"queue", "wait"}
                      /\ aHandler' = "none" /\ NoAnswer'
                      /\ \A j \in 1..Len(cLine') : cLine'[j].kind = "initialize" => j = i
    BY DEF InitializeInv
  <2>1. i \in 1..Len(cLine) /\ cLine[i] = cLine'[i] /\ i # Len(cLine')+1
        /\ Len(cLine')+1 \in 1..Len(cLine) /\ cLine[Len(cLine')+1] = cHand
    BY <1>3 DEF Extends
  <2>2. cHand.kind # "initialize"
    BY <2>1 DEF IInv, InitializeInv
  <2>3. cCall' = cCall
    BY <1>1, <2>2
  <2> QED BY <1>1, <1>2, <1>3, <2>1, <2>3 DEF IInv, InitializeInv, Extends, Untouched
<1>9. HandlerInv' /\ AnswerInv'
  BY <1>1, <1>2, <1>4, <1>5 DEF IInv, HandlerInv, AnswerInv, NoAnswer, Untouched
<1>10. ClientFrames' /\ RequestsClose'
  BY <1>1, <1>2, <1>3 DEF IInv, ClientFrames, RequestsClose, Extends, Untouched
<1>11. AgentFrames' /\ Agreement'
  BY <1>1, <1>2, <1>4 DEF IInv, AgentFrames, Agreement, Untouched
<1> QED BY <1>t, <1>6, <1>7, <1>8, <1>9, <1>10, <1>11 DEF IInv

\* A call that was never queued is settled.
LEMMA AbandonStep ==
  ASSUME IInv, C!Abandon, NoAgent
  PROVE  IInv'
<1>t. Data /\ Flags /\ Types'
  BY TypesStep DEF IInv, Types, Next, Client, C!Local
<1>1. /\ cCall = "abandon" /\ cCall' = "none" /\ cInitializing' = FALSE
      /\ cRepeatable' = cInitialized
      /\ UNCHANGED <<cInitialized, cRecorded, cAttempt, cHand, cOut>>
  BY DEF C!Abandon, C!CompleteInitialize, IInv, Types, Flags
<1>2. Untouched /\ (NoAnswer' <=> NoAnswer)
  BY ClientLeaves
<1>3. cLine' = cLine
  BY <1>1 DEF cLine
<1>4. aHandler = "none" /\ NoAnswer /\ \A i \in 1..Len(cLine) : cLine[i].kind # "initialize"
  BY <1>1 DEF IInv, HandlerInv, AnswerInv, NoAnswer, InitializeInv
<1>5. cInitializing
  BY <1>1 DEF IInv, ClientInv
<1>6. ClientInv'
  BY <1>1 DEF IInv, ClientInv
<1>7. AgentInv'
  BY <1>2, AgentKept DEF IInv
<1>8. InitializeInv' /\ HandlerInv' /\ AnswerInv'
  BY <1>1, <1>2, <1>3, <1>4 DEF InitializeInv, HandlerInv, AnswerInv, NoAnswer, Untouched
<1>9. ClientFrames' /\ RequestsClose'
  BY <1>1, <1>2, <1>3, <1>5 DEF IInv, ClientFrames, RequestsClose, Untouched
<1>10. AgentFrames' /\ Agreement'
  BY <1>1, <1>2 DEF IInv, AgentFrames, Agreement, Untouched
<1> QED BY <1>t, <1>6, <1>7, <1>8, <1>9, <1>10 DEF IInv

(***************************************************************************)
(* The agent's steps, which leave the client and its line alone.           *)
(***************************************************************************)
ClientUntouched ==
  /\ UNCHANGED <<compatible, cInitialized, cInitializing, cRepeatable, cRecorded, cAttempt,
                 cCall, cHand>>
  /\ cLine' = cLine

LEMMA AgentLeaves ==
  ASSUME NoClient
  PROVE  ClientUntouched
BY DEF NoClient, clientVars, cLine, ClientUntouched

LEMMA ClientKept == ASSUME ClientInv, ClientUntouched PROVE ClientInv'
BY DEF ClientInv, ClientUntouched

LEMMA AgentBuilds ==
  ASSUME Data, aHand = Idle, aHand' \in Wire, aHand' # Idle, aOut' = aOut
  PROVE  Extends(aLine, aLine', aHand')
BY LineExtends DEF aLine, Data

LEMMA AgentQueues ==
  ASSUME Data, aHand # Idle, aHand' = Idle, aOut' = Append(aOut, aHand)
  PROVE  aLine' = aLine
BY LineExtends DEF aLine, Data, Line

LEMMA AgentDrops ==
  ASSUME Data, aHand # Idle, aHand' = Idle, aOut' = aOut
  PROVE  Extends(aLine', aLine, aHand)
BY LineExtends DEF aLine, Data

\* An answer on its way is as good as any other way to say so.
LEMMA SameAnswers ==
  ASSUME aLine' = aLine
  PROVE  NoAnswer' <=> NoAnswer
BY DEF NoAnswer

LEMMA AgentTyped ==
  ASSUME IInv, A!Local, NoClient
  PROVE  Data /\ Flags /\ Types'
<1>1. Types /\ Data /\ cOut' \in Seq(Wire)
  BY DEF IInv, Types, Data, NoClient
<1> QED BY <1>1, AgentTypes DEF NoClient, Types

LEMMA HandlerStep ==
  ASSUME IInv, A!HandlerReturns, NoClient
  PROVE  IInv'
<1>t. Types'
  BY AgentTyped DEF A!Local
<1>1. /\ aHandler = "run" /\ aHandler' = "answer" /\ aPending' \in {aAttempt, 0}
      /\ UNCHANGED <<aState, aInitialized, aRepeatable, aSent, aAttempt, aAdmitted, aHand, aOut>>
  BY DEF A!HandlerReturns, A!history
<1>2. ClientUntouched
  BY AgentLeaves
<1>3. aLine' = aLine /\ (NoAnswer' <=> NoAnswer)
  BY <1>1, SameAnswers DEF aLine
<1>4. ClientInv'
  BY <1>2, ClientKept DEF IInv
<1>5. AgentInv'
  BY <1>1 DEF IInv, AgentInv, A!WaitsForHandler
<1>6. InitializeInv' /\ HandlerInv'
  BY <1>1, <1>2, <1>3 DEF IInv, InitializeInv, HandlerInv, ClientUntouched
<1>7. AnswerInv' /\ AgentFrames' /\ Agreement'
  BY <1>1, <1>2, <1>3 DEF IInv, AnswerInv, AgentFrames, Agreement, ClientUntouched
<1>8. ClientFrames' /\ RequestsClose'
  BY <1>1, <1>2, <1>3 DEF IInv, ClientFrames, RequestsClose, ClientUntouched
<1> QED BY <1>t, <1>4, <1>5, <1>6, <1>7, <1>8 DEF IInv

\* The answer to an initialize is committed and built; it takes its handler's
\* place.
LEMMA AnswerStep ==
  ASSUME IInv, A!AnswerInitialize, NoClient, compatible => aHand'.result # "odd"
  PROVE  IInv'
<1>t. Data /\ Flags /\ Types'
  BY AgentTyped DEF A!Local
<1>1. /\ aHand = Idle /\ aHandler = "answer" /\ aHandler' = "none" /\ aPending' = 0
      /\ IsAnswer(aHand') /\ UNCHANGED <<aAttempt, aAdmitted, aOut>>
  BY DEF A!AnswerInitialize, A!LockFree, A!NoFrame, A!Frame, A!history, Idle, IsAnswer
<1>2. ClientUntouched
  BY AgentLeaves
<1>3. cCall = "wait" /\ aAttempt = cAttempt /\ NoAnswer /\ aState = "initializing"
  BY <1>1 DEF IInv, HandlerInv, AgentInv, A!WaitsForHandler
<1>4. cRecorded \in Nat /\ cAttempt \in Nat /\ cRecorded < cAttempt
  BY <1>t, <1>3 DEF Data, IInv, ClientInv
<1>5. Extends(aLine, aLine', aHand')
  <2>1. aHand' \in Wire /\ aHand' # Idle
    BY <1>t, <1>1 DEF Types, Data, Idle, IsAnswer
  <2> QED BY <1>t, <1>1, <2>1, AgentBuilds
<1> DEFINE Answered ==
     /\ aHand'.era = cAttempt
     /\ \/ /\ aState' = "ready" /\ aInitialized' = TRUE /\ aRepeatable' = TRUE
           /\ aSent' = cAttempt /\ aHand'.result \in {"ok", "odd"}
        \/ /\ aState' = IF aInitialized THEN "ready" ELSE "uninitialized"
           /\ aRepeatable' = aInitialized /\ UNCHANGED <<aInitialized, aSent>>
           /\ aHand'.result = "error"
<1>6. Answered
  <2>1. CASE aPending # 0
    <3>1. aPending = cAttempt
      BY <1>3, <2>1 DEF IInv, AgentInv, A!WaitsForHandler
    <3>2. /\ aState' = "ready" /\ aInitialized' = TRUE /\ aRepeatable' = TRUE
          /\ aSent' = aPending
          /\ \E r \in {"ok", "odd"} : aHand' = A!Frame("initialized", aPending, r)
      BY <2>1 DEF A!AnswerInitialize
    <3>3. aHand'.era = aPending /\ aHand'.result \in {"ok", "odd"}
      BY <3>2 DEF A!Frame
    <3> QED BY <3>1, <3>2, <3>3
  <2>2. CASE aPending = 0
    BY <1>3, <2>2 DEF A!AnswerInitialize, A!Frame
  <2> QED BY <2>1, <2>2
<1> HIDE DEF Answered
<1>7. ClientInv'
  BY <1>2, ClientKept DEF IInv
<1>8. AgentInv'
  BY <1>t, <1>1, <1>4, <1>6 DEF Answered, Flags, IInv, AgentInv, A!WaitsForHandler
<1>9. InitializeInv' /\ HandlerInv'
  BY <1>1, <1>2, <1>3 DEF IInv, InitializeInv, HandlerInv, ClientUntouched
<1>10. AnswerInv'
  BY <1>2, <1>3, <1>5, <1>6 DEF Answered, AnswerInv, NoAnswer, Extends, ClientUntouched
<1>11. ClientFrames' /\ RequestsClose'
  BY <1>1, <1>2, <1>3 DEF IInv, ClientFrames, RequestsClose, ClientUntouched
<1>12. AgentFrames'
  BY <1>1, <1>2, <1>3, <1>5 DEF IInv, AgentFrames, NoAnswer, Succeeds, IsAnswer, Ordinary,
     Extends, ClientUntouched
<1>13. Agreement'
  <2>1. cInitialized' => aInitialized'
    BY <1>2, <1>6 DEF Answered, IInv, Agreement, ClientUntouched
  <2>2. CASE aHand'.result = "ok"
    <3>1. aSent' = cAttempt
      BY <1>6, <2>2 DEF Answered
    <3>2. \E j \in 1..Len(aLine') : Succeeds(aLine'[j])
      BY <1>1, <1>5, <2>2 DEF Succeeds, IsAnswer, Extends
    <3> QED BY <1>2, <2>1, <3>1, <3>2 DEF Agreement, ClientUntouched
  <2>3. CASE aHand'.result # "ok" /\ compatible
    <3>1. aSent' = aSent /\ aHand'.result = "error"
      BY <1>6, <2>3 DEF Answered
    <3>2. \A j \in 1..Len(aLine') : ~Succeeds(aLine'[j])
      BY <1>3, <1>5, <3>1 DEF NoAnswer, Succeeds, Extends
    <3>3. aSent = cRecorded
      BY <1>3, <2>3 DEF IInv, Agreement, NoAnswer, Succeeds
    <3> QED BY <1>2, <2>1, <3>1, <3>2, <3>3 DEF Agreement, ClientUntouched
  <2> QED BY <1>2, <2>1, <2>2, <2>3 DEF Agreement, ClientUntouched
<1> QED BY <1>t, <1>7, <1>8, <1>9, <1>10, <1>11, <1>12, <1>13 DEF IInv

\* Any other frame the agent builds goes by the initialization in force.
LEMMA AgentSpeakStep ==
  ASSUME IInv, NoClient,
         A!AnswerRequest \/ \E kind \in {"request", "notify", "cancel"} : A!Send(kind)
  PROVE  IInv'
<1>t. Data /\ Flags /\ Types'
  BY AgentTyped DEF A!Local
<1> DEFINE Spoken ==
     /\ aHand = Idle /\ aHand'.kind \in {"request", "notify", "cancel", "response"}
     /\ aHand'.era = aSent
     /\ Ordinary(aHand') => aState = "ready"
     /\ aHand'.kind = "cancel" => aState \in {"ready", "initializing"}
     /\ UNCHANGED <<aState, aInitialized, aRepeatable, aPending, aSent, aHandler, aAttempt,
                    aAdmitted, aOut>>
<1>1. Spoken
  <2>1. ASSUME NEW kind \in {"request", "notify", "cancel"}, A!Send(kind) PROVE Spoken
    BY <2>1 DEF A!Send, A!Allowed, A!LockFree, A!NoFrame, A!Frame, A!tasks, A!lifecycle,
       A!history, Idle, Ordinary
  <2>2. CASE A!AnswerRequest
    BY <2>2 DEF A!AnswerRequest, A!Allowed, A!LockFree, A!NoFrame, A!Frame, A!tasks,
       A!lifecycle, A!history, Idle, Ordinary
  <2> QED BY <2>1, <2>2
<1>2. ClientUntouched
  BY AgentLeaves
<1>3. Extends(aLine, aLine', aHand')
  <2>1. aHand' \in Wire /\ aHand' # Idle
    BY <1>t, <1>1 DEF Types, Data, Idle
  <2> QED BY <1>t, <1>1, <2>1, AgentBuilds
<1>4. ~IsAnswer(aHand') /\ (NoAnswer' <=> NoAnswer)
  BY <1>1, <1>3 DEF IsAnswer, NoAnswer, Extends
<1>6. ClientInv'
  BY <1>2, ClientKept DEF IInv
<1>7. AgentInv'
  BY <1>1 DEF IInv, AgentInv, A!WaitsForHandler
<1>8. InitializeInv' /\ HandlerInv'
  BY <1>1, <1>2, <1>4 DEF IInv, InitializeInv, HandlerInv, ClientUntouched
<1>9. AnswerInv'
  BY <1>1, <1>2, <1>3, <1>4 DEF IInv, AnswerInv, Extends, ClientUntouched
<1>10. ClientFrames' /\ RequestsClose'
  BY <1>1, <1>2, <1>4 DEF IInv, ClientFrames, RequestsClose, ClientUntouched
<1>11. AgentFrames'
  <2> SUFFICES ASSUME compatible, NEW i \in 1..Len(aLine'),
                      Ordinary(aLine'[i]) \/ aLine'[i].kind = "cancel"
               PROVE  /\ aLine'[i].era = IF \E j \in 1..Len(aLine') : j < i /\ Succeeds(aLine'[j])
                                         THEN cAttempt ELSE cRecorded
                      /\ \/ aLine'[i].era > 0
                         \/ /\ aLine'[i].kind = "cancel" /\ cCall = "wait"
                            /\ \A j \in 1..Len(aLine') : j < i => ~IsAnswer(aLine'[j])
    BY <1>2 DEF AgentFrames, ClientUntouched
  <2>1. CASE i = Len(aLine) + 1
    <3>1. aLine'[i] = aHand' /\ aLine'[i].era = aSent
      BY <1>1, <1>3, <2>1 DEF Extends
    <3>2. (\E j \in 1..Len(aLine') : j < i /\ Succeeds(aLine'[j]))
            <=> \E j \in 1..Len(aLine) : Succeeds(aLine[j])
      BY <1>3, <2>1 DEF Extends
    <3>3. aSent > 0 \/ (aState = "initializing" /\ aHand'.kind = "cancel")
      BY <1>1, <3>1 DEF IInv, AgentInv, A!WaitsForHandler
    <3>4. aState = "initializing" => cCall = "wait" /\ NoAnswer
      BY DEF IInv, AgentInv, A!WaitsForHandler, HandlerInv
    <3>5. aState = "initializing" => \A j \in 1..Len(aLine') : j < i => ~IsAnswer(aLine'[j])
      BY <1>3, <2>1, <3>4 DEF NoAnswer, Extends
    <3> QED BY <3>1, <3>2, <3>3, <3>4, <3>5 DEF IInv, Agreement
  <2>2. CASE i # Len(aLine) + 1
    <3>1. /\ i \in 1..Len(aLine) /\ aLine'[i] = aLine[i]
          /\ \A j \in 1..Len(aLine') : j < i => j \in 1..Len(aLine) /\ aLine'[j] = aLine[j]
          /\ \A j \in 1..Len(aLine) : j \in 1..Len(aLine')
      BY <1>3, <2>2 DEF Extends
    <3> QED BY <3>1 DEF IInv, AgentFrames
  <2> QED BY <2>1, <2>2
<1>12. Agreement'
  <2>1. (\E j \in 1..Len(aLine') : Succeeds(aLine'[j]))
           <=> \E j \in 1..Len(aLine) : Succeeds(aLine[j])
    BY <1>3, <1>4 DEF Extends, Succeeds
  <2> QED BY <1>1, <1>2, <2>1 DEF IInv, Agreement, ClientUntouched
<1> QED BY <1>t, <1>6, <1>7, <1>8, <1>9, <1>10, <1>11, <1>12 DEF IInv

LEMMA AgentQueueStep ==
  ASSUME IInv, A!Queue, NoClient
  PROVE  IInv'
<1>t. Data /\ Types'
  BY AgentTyped DEF A!Local
<1>1. /\ aHand # Idle /\ aHand' = Idle /\ aOut' = Append(aOut, aHand)
      /\ UNCHANGED <<aState, aInitialized, aRepeatable, aPending, aSent, aHandler, aAttempt,
                     aAdmitted>>
  BY DEF A!Queue, A!LockFree, A!NoFrame, A!Frame, A!lifecycle, A!tasks, A!history, Idle
<1>2. ClientUntouched
  BY AgentLeaves
<1>3. aLine' = aLine /\ (NoAnswer' <=> NoAnswer)
  BY <1>t, <1>1, AgentQueues, SameAnswers
<1>4. ClientInv' /\ AgentInv'
  BY <1>1, <1>2, ClientKept DEF IInv, AgentInv, A!WaitsForHandler
<1>5. InitializeInv' /\ HandlerInv'
  BY <1>1, <1>2, <1>3 DEF IInv, InitializeInv, HandlerInv, ClientUntouched
<1>6. AnswerInv' /\ AgentFrames' /\ Agreement'
  BY <1>1, <1>2, <1>3 DEF IInv, AnswerInv, AgentFrames, Agreement, ClientUntouched
<1>7. ClientFrames' /\ RequestsClose'
  BY <1>1, <1>2, <1>3 DEF IInv, ClientFrames, RequestsClose, ClientUntouched
<1> QED BY <1>t, <1>4, <1>5, <1>6, <1>7 DEF IInv

\* An answer is never given up.
LEMMA AgentGiveUpStep ==
  ASSUME IInv, A!GiveUp, NoClient
  PROVE  IInv'
<1>t. Data /\ Types'
  BY AgentTyped DEF A!Local
<1>1. /\ aHand # Idle /\ aHand' = Idle /\ aOut' = aOut /\ ~IsAnswer(aHand)
      /\ UNCHANGED <<aState, aInitialized, aRepeatable, aPending, aSent, aHandler, aAttempt,
                     aAdmitted>>
  BY DEF A!GiveUp, A!NoFrame, A!Frame, A!lifecycle, A!tasks, A!history, Idle, IsAnswer
<1>2. ClientUntouched
  BY AgentLeaves
<1>3. Extends(aLine', aLine, aHand)
  BY <1>t, <1>1, AgentDrops
<1>4. NoAnswer' <=> NoAnswer
  BY <1>1, <1>3 DEF NoAnswer, Extends
<1>5. ClientInv' /\ AgentInv'
  BY <1>1, <1>2, ClientKept DEF IInv, AgentInv, A!WaitsForHandler
<1>6. InitializeInv' /\ HandlerInv'
  BY <1>1, <1>2, <1>4 DEF IInv, InitializeInv, HandlerInv, ClientUntouched
<1>7. AnswerInv'
  BY <1>1, <1>2, <1>3 DEF IInv, AnswerInv, Extends, ClientUntouched
<1>8. ClientFrames' /\ RequestsClose'
  BY <1>1, <1>2, <1>4 DEF IInv, ClientFrames, RequestsClose, ClientUntouched
<1>9. \A i \in 1..Len(aLine') : i \in 1..Len(aLine) /\ aLine[i] = aLine'[i]
  BY <1>3 DEF Extends
<1>10. \A i \in 1..Len(aLine) : i \in 1..Len(aLine') \/ aLine[i] = aHand
  BY <1>3 DEF Extends
<1>11. AgentFrames'
  <2>1. \A i \in 1..Len(aLine'), j \in 1..Len(aLine) : j < i => j \in 1..Len(aLine')
    BY <1>3 DEF Extends
  <2> QED BY <1>2, <1>9, <2>1 DEF IInv, AgentFrames, ClientUntouched
<1>12. Agreement'
  BY <1>1, <1>2, <1>9, <1>10 DEF IInv, Agreement, Succeeds, ClientUntouched
<1> QED BY <1>t, <1>5, <1>6, <1>7, <1>8, <1>11, <1>12 DEF IInv

(***************************************************************************)
(* The client reads.                                                       *)
(***************************************************************************)
\* What is read leaves the front of the agent's line.
AgentSame ==
  UNCHANGED <<compatible, aState, aInitialized, aRepeatable, aPending, aSent, aHandler,
              aAttempt, aAdmitted, aHand>>

LEMMA ClientReadsFirst ==
  ASSUME IInv, ClientReads
  PROVE  /\ AgentSame /\ AgentInv' /\ Types' /\ Data /\ Flags
         /\ Follows(aLine, aLine') /\ aLine[1] = Head(aOut) /\ Head(aOut) \in Wire
         /\ 1 \in 1..Len(aLine)
<1>1. Data /\ Flags /\ Types'
  BY TypesStep DEF IInv, Types, Next
<1>2. AgentSame
  BY DEF ClientReads, agentVars, AgentSame
<1>3. AgentInv'
  BY <1>2 DEF IInv, AgentInv, A!WaitsForHandler, AgentSame
<1>4. /\ Follows(aLine, aLine') /\ aLine[1] = Head(aOut) /\ Head(aOut) \in Wire
  BY <1>1, <1>2, LineFollows DEF ClientReads, Data, aLine, AgentSame
<1> QED BY <1>1, <1>2, <1>3, <1>4 DEF Follows

LEMMA ReadAnswerStep ==
  ASSUME IInv, ClientReads, C!ReceiveInitialized(Head(aOut))
  PROVE  IInv'
<1> DEFINE m == aLine[1]
           accepted == m.result = "ok"
<1>1. /\ AgentSame /\ AgentInv' /\ Types' /\ Data /\ Flags
      /\ Follows(aLine, aLine') /\ 1 \in 1..Len(aLine) /\ m = Head(aOut)
  BY ClientReadsFirst
<1>2. /\ IsAnswer(m) /\ cCall = "wait" /\ cCall' = "none"
      /\ cInitializing' = FALSE /\ cInitialized' = (cInitialized \/ accepted)
      /\ cRecorded' = IF accepted THEN m.era ELSE cRecorded
      /\ cRepeatable' = cInitialized'
      /\ UNCHANGED <<cAttempt, cHand, cOut>>
  BY <1>1 DEF C!ReceiveInitialized, C!CompleteInitialize, IsAnswer
<1>3. /\ m.era = cAttempt /\ (compatible => m.result # "odd") /\ (accepted => aInitialized)
      /\ \A j \in 1..Len(aLine) : IsAnswer(aLine[j]) => j = 1
  BY <1>1, <1>2 DEF IInv, AnswerInv
<1> HIDE DEF m
<1>4. ~NoAnswer /\ NoAnswer'
  BY <1>1, <1>2, <1>3 DEF NoAnswer, Follows, m
<1>5. cRecorded \in Nat /\ cAttempt \in Nat /\ cInitializing /\ cRecorded < cAttempt
  BY <1>1, <1>2 DEF Data, IInv, ClientInv
<1>6. cLine' = cLine
  BY <1>2 DEF cLine
<1>7. ClientInv'
  BY <1>1, <1>2, <1>3, <1>5 DEF IInv, ClientInv, Flags
<1>8. InitializeInv' /\ HandlerInv' /\ AnswerInv'
  BY <1>1, <1>4, <1>6 DEF IInv, InitializeInv, HandlerInv, AnswerInv, NoAnswer, AgentSame
<1>9. ClientFrames' /\ RequestsClose'
  BY <1>1, <1>4, <1>5, <1>6 DEF IInv, ClientFrames, RequestsClose, AgentSame
<1>10. (\E j \in 1..Len(aLine) : Succeeds(aLine[j])) <=> accepted
  BY <1>1, <1>2, <1>3 DEF Succeeds, m
<1>11. AgentFrames'
  <2> SUFFICES ASSUME compatible, NEW i \in 1..Len(aLine'),
                      Ordinary(aLine'[i]) \/ aLine'[i].kind = "cancel"
               PROVE  aLine'[i].era = cRecorded' /\ aLine'[i].era > 0
    BY <1>1, <1>4 DEF AgentFrames, NoAnswer, Succeeds, AgentSame
  <2>1. i + 1 \in 1..Len(aLine) /\ aLine'[i] = aLine[i + 1] /\ 1 < i + 1
    BY <1>1 DEF Follows
  <2>2. /\ aLine[i + 1].era = IF \E j \in 1..Len(aLine) : j < i + 1 /\ Succeeds(aLine[j])
                              THEN cAttempt ELSE cRecorded
        /\ \/ aLine[i + 1].era > 0
           \/ \A j \in 1..Len(aLine) : j < i + 1 => ~IsAnswer(aLine[j])
    BY <2>1 DEF IInv, AgentFrames
  <2>3. IsAnswer(aLine[1]) /\ (accepted => Succeeds(aLine[1]))
    BY <1>2 DEF Succeeds, m
  <2>4. aLine[i + 1].era > 0
    BY <1>1, <2>1, <2>2, <2>3
  <2>5. (\E j \in 1..Len(aLine) : j < i + 1 /\ Succeeds(aLine[j])) <=> accepted
    BY <1>1, <1>10, <2>1, <2>3
  <2> QED BY <1>2, <1>3, <2>1, <2>2, <2>4, <2>5
<1>12. Agreement'
  <2>1. cInitialized' => aInitialized'
    BY <1>1, <1>2, <1>3 DEF IInv, Agreement, AgentSame
  <2>2. compatible => aSent = cRecorded'
    BY <1>2, <1>3, <1>10 DEF IInv, Agreement
  <2>3. \A j \in 1..Len(aLine') : ~Succeeds(aLine'[j])
    BY <1>4 DEF NoAnswer, Succeeds
  <2> QED BY <1>1, <2>1, <2>2, <2>3 DEF Agreement, AgentSame
<1> QED BY <1>1, <1>7, <1>8, <1>9, <1>11, <1>12 DEF IInv

\* Any other frame; a refused request's answer goes behind the client's line.
LEMMA ReadOtherStep ==
  ASSUME IInv, ClientReads,
         \/ C!ReceiveRequest(Head(aOut)) \/ C!ReceiveNotification(Head(aOut))
         \/ C!ReceiveResponse(Head(aOut))
  PROVE  IInv'
<1> DEFINE m == aLine[1]
<1>1. /\ AgentSame /\ AgentInv' /\ Types' /\ Data /\ Flags
      /\ Follows(aLine, aLine') /\ 1 \in 1..Len(aLine) /\ m = Head(aOut)
  BY ClientReadsFirst
<1>2. /\ ~IsAnswer(m)
      /\ UNCHANGED <<cInitialized, cInitializing, cRepeatable, cRecorded, cAttempt, cCall, cHand>>
  BY <1>1 DEF C!ReceiveRequest, C!ReceiveNotification, C!ReceiveResponse, C!lifecycle, C!calls,
     IsAnswer
<1> HIDE DEF m
<1>3. \/ cLine' = cLine
      \/ \E f \in Wire : Extends(cLine, cLine', f) /\ f.kind = "response" /\ f.result = "error"
  <2>1. CASE cOut' = cOut
    BY <1>2, <2>1 DEF cLine
  <2>2. CASE cOut' # cOut
    <3> DEFINE f == [kind |-> "response", era |-> cRecorded, result |-> "error"]
    <3>1. cHand = Idle /\ cOut' = Append(cOut, f)
      BY <2>2 DEF C!ReceiveRequest, C!ReceiveNotification, C!ReceiveResponse, C!LockFree,
         C!NoFrame, C!Frame, Idle
    <3>2. f \in Wire /\ f # Idle /\ cOut \in Seq(Wire)
      BY <1>1, FrameTypes DEF Data, Idle
    <3>3. Extends(Line(cOut, Idle), Line(Append(cOut, f), Idle), f)
      BY <3>2, LineExtends
    <3>4. f.kind = "response" /\ f.result = "error"
      OBVIOUS
    <3> HIDE DEF f
    <3> QED BY <1>2, <3>1, <3>2, <3>3, <3>4 DEF cLine
  <2> QED BY <2>1, <2>2
<1>4. NoAnswer' <=> NoAnswer
  <2>1. NoAnswer => NoAnswer'
    BY <1>1 DEF NoAnswer, Follows
  <2>2. ASSUME NoAnswer', NEW j \in 1..Len(aLine) PROVE ~IsAnswer(aLine[j])
    <3>1. CASE j = 1
      BY <1>2, <3>1 DEF m
    <3>2. CASE j # 1
      <4>1. j - 1 \in 1..Len(aLine') /\ aLine'[j - 1] = aLine[j]
        BY <1>1, <3>2 DEF Follows
      <4> QED BY <2>2, <4>1 DEF NoAnswer
    <3> QED BY <3>1, <3>2
  <2> QED BY <2>1, <2>2 DEF NoAnswer
<1>5. ClientInv'
  BY <1>2 DEF IInv, ClientInv
<1>6. HandlerInv'
  BY <1>1, <1>2, <1>4 DEF IInv, HandlerInv, AgentSame
<1>7. InitializeInv' /\ ClientFrames' /\ RequestsClose'
  <2>1. CASE cLine' = cLine
    BY <1>1, <1>2, <1>4, <2>1 DEF IInv, InitializeInv, ClientFrames, RequestsClose, AgentSame
  <2>2. CASE \E f \in Wire : Extends(cLine, cLine', f) /\ f.kind = "response" /\ f.result = "error"
    <3>1. PICK f \in Wire : Extends(cLine, cLine', f) /\ f.kind = "response" /\ f.result = "error"
      BY <2>2
    <3>2. InitializeInv'
      BY <1>1, <1>2, <1>4, <3>1 DEF IInv, InitializeInv, Extends, AgentSame
    <3>3. ClientFrames'
      BY <1>1, <1>2, <1>4, <3>1 DEF IInv, ClientFrames, Ordinary, Extends, AgentSame
    <3>4. RequestsClose'
      BY <1>1, <1>2, <3>1 DEF IInv, RequestsClose, Extends, AgentSame
    <3> QED BY <3>2, <3>3, <3>4
  <2> QED BY <1>3, <2>1, <2>2
<1>8. AnswerInv'
  <2> SUFFICES ASSUME NEW i \in 1..Len(aLine'), IsAnswer(aLine'[i])
               PROVE  /\ aLine'[i].era = cAttempt /\ cCall = "wait"
                      /\ compatible => aLine'[i].result # "odd"
                      /\ aLine'[i].result = "ok" => aInitialized
                      /\ \A j \in 1..Len(aLine') : IsAnswer(aLine'[j]) => j = i
    BY <1>1, <1>2 DEF AnswerInv, AgentSame
  <2>1. \A j \in 1..Len(aLine') : j + 1 \in 1..Len(aLine) /\ aLine'[j] = aLine[j + 1]
    BY <1>1 DEF Follows
  <2>2. \A j \in 1..Len(aLine') : IsAnswer(aLine'[j]) => j + 1 = i + 1
    BY <2>1 DEF IInv, AnswerInv
  <2>3. \A j \in 1..Len(aLine') : IsAnswer(aLine'[j]) => j = i
    BY <2>2
  <2> QED BY <2>1, <2>3 DEF IInv, AnswerInv
<1>9. ~Succeeds(aLine[1])
  BY <1>2 DEF Succeeds, m
<1>10. AgentFrames'
  <2> SUFFICES ASSUME compatible, NEW i \in 1..Len(aLine'),
                      Ordinary(aLine'[i]) \/ aLine'[i].kind = "cancel"
               PROVE  /\ aLine'[i].era = IF \E j \in 1..Len(aLine') : j < i /\ Succeeds(aLine'[j])
                                         THEN cAttempt ELSE cRecorded
                      /\ \/ aLine'[i].era > 0
                         \/ /\ aLine'[i].kind = "cancel" /\ cCall = "wait"
                            /\ \A j \in 1..Len(aLine') : j < i => ~IsAnswer(aLine'[j])
    BY <1>1, <1>2 DEF AgentFrames, AgentSame
  <2>1. \A j \in 1..Len(aLine') :
          /\ j + 1 \in 1..Len(aLine) /\ aLine'[j] = aLine[j + 1]
          /\ j < i <=> j + 1 < i + 1
    BY <1>1 DEF Follows
  <2>2. \A j \in 1..Len(aLine) : j # 1 => j - 1 \in 1..Len(aLine') /\ aLine'[j - 1] = aLine[j]
                                          /\ (j < i + 1 <=> j - 1 < i)
    BY <1>1 DEF Follows
  <2>3. (\E j \in 1..Len(aLine) : j < i + 1 /\ Succeeds(aLine[j]))
          <=> \E j \in 1..Len(aLine') : j < i /\ Succeeds(aLine'[j])
    BY <1>9, <2>1, <2>2
  <2>4. (\A j \in 1..Len(aLine) : j < i + 1 => ~IsAnswer(aLine[j]))
          => \A j \in 1..Len(aLine') : j < i => ~IsAnswer(aLine'[j])
    BY <2>1
  <2>5. /\ aLine[i + 1].era = IF \E j \in 1..Len(aLine) : j < i + 1 /\ Succeeds(aLine[j])
                              THEN cAttempt ELSE cRecorded
        /\ \/ aLine[i + 1].era > 0
           \/ /\ aLine[i + 1].kind = "cancel" /\ cCall = "wait"
              /\ \A j \in 1..Len(aLine) : j < i + 1 => ~IsAnswer(aLine[j])
    BY <2>1 DEF IInv, AgentFrames
  <2> QED BY <2>1, <2>3, <2>4, <2>5
<1>11. Agreement'
  <2>1. (\E j \in 1..Len(aLine) : Succeeds(aLine[j]))
          <=> \E j \in 1..Len(aLine') : Succeeds(aLine'[j])
    <3>1. \A j \in 1..Len(aLine) : j # 1 => j - 1 \in 1..Len(aLine') /\ aLine'[j - 1] = aLine[j]
      BY <1>1 DEF Follows
    <3>2. \A j \in 1..Len(aLine') : j + 1 \in 1..Len(aLine) /\ aLine'[j] = aLine[j + 1]
      BY <1>1 DEF Follows
    <3> QED BY <1>9, <3>1, <3>2
  <2> QED BY <1>1, <1>2, <2>1 DEF IInv, Agreement, AgentSame
<1> QED BY <1>1, <1>5, <1>6, <1>7, <1>8, <1>10, <1>11 DEF IInv

(***************************************************************************)
(* The agent reads.                                                        *)
(***************************************************************************)
ClientSame ==
  UNCHANGED <<compatible, cInitialized, cInitializing, cRepeatable, cRecorded, cAttempt,
              cCall, cHand>>

LEMMA AgentReadsFirst ==
  ASSUME IInv, AgentReads
  PROVE  /\ ClientSame /\ ClientInv' /\ Types' /\ Data /\ Flags
         /\ Follows(cLine, cLine') /\ cLine[1] = Head(cOut) /\ Head(cOut) \in Wire
         /\ 1 \in 1..Len(cLine)
<1>1. Data /\ Flags /\ Types'
  BY TypesStep DEF IInv, Types, Next
<1>2. ClientSame
  BY DEF AgentReads, clientVars, ClientSame
<1>3. ClientInv'
  BY <1>2 DEF IInv, ClientInv, ClientSame
<1>4. /\ Follows(cLine, cLine') /\ cLine[1] = Head(cOut) /\ Head(cOut) \in Wire
  BY <1>1, <1>2, LineFollows DEF AgentReads, Data, cLine, ClientSame
<1> QED BY <1>1, <1>2, <1>3, <1>4 DEF Follows

\* What the agent may find at the front of the client's line: an initialize it
\* may begin, or a frame it is ready for.
LEMMA AgentFinds ==
  ASSUME IInv, AgentReads
  PROVE  /\ cLine[1].kind = "initialize" => A!MayBegin
         /\ Ordinary(cLine[1]) =>
              /\ aState = "ready" /\ NoAnswer /\ A!Allowed(cLine[1].kind)
              /\ compatible => cLine[1].era = aSent
<1>1. 1 \in 1..Len(cLine)
  BY AgentReadsFirst
<1>2. ASSUME cLine[1].kind = "initialize" PROVE A!MayBegin
  <2>1. aHandler = "none" /\ cCall # "none"
    BY <1>1, <1>2 DEF IInv, InitializeInv
  <2>2. aState # "initializing"
    BY <2>1 DEF IInv, AgentInv, A!WaitsForHandler
  <2>3. "request" \notin aAdmitted
    BY <2>1 DEF IInv, ClientInv, RequestsClose
  <2>4. aState = "ready" => aRepeatable
    BY <2>3 DEF IInv, AgentInv
  <2> QED BY <2>2, <2>4 DEF A!MayBegin
<1>3. ASSUME Ordinary(cLine[1])
      PROVE  /\ aState = "ready" /\ NoAnswer /\ A!Allowed(cLine[1].kind)
             /\ compatible => cLine[1].era = aSent
  <2>1. aState = "ready" /\ NoAnswer /\ (compatible => cLine[1].era = aSent)
    BY <1>1, <1>3 DEF IInv, ClientFrames
  <2> QED BY <2>1 DEF A!Allowed
<1> QED BY <1>2, <1>3

LEMMA ReadInitializeStep ==
  ASSUME IInv, AgentReads, A!ReceiveInitialize(Head(cOut))
  PROVE  IInv'
<1> DEFINE m == cLine[1]
<1>1. /\ ClientSame /\ ClientInv' /\ Types' /\ Data /\ Flags
      /\ Follows(cLine, cLine') /\ 1 \in 1..Len(cLine) /\ m = Head(cOut)
  BY AgentReadsFirst
<1>2. m.kind = "initialize" /\ A!MayBegin
  <2>1. m.kind = "initialize"
    BY <1>1 DEF A!ReceiveInitialize
  <2> QED BY <2>1, AgentFinds
<1>3. /\ aState' = "initializing" /\ aRepeatable' = FALSE /\ aHandler' = "run"
      /\ aAttempt' = m.era
      /\ UNCHANGED <<aInitialized, aPending, aSent, aAdmitted, aHand, aOut>>
  BY <1>1, <1>2 DEF A!ReceiveInitialize, A!history
<1>4. /\ m.era = cAttempt /\ cCall \in {"queue", "wait"} /\ aHandler = "none" /\ NoAnswer
      /\ \A j \in 1..Len(cLine) : cLine[j].kind = "initialize" => j = 1
  BY <1>1, <1>2 DEF IInv, InitializeInv
<1>5. cCall = "wait"
  <2> SUFFICES ASSUME cHand.kind = "initialize" PROVE FALSE
    BY <1>4 DEF IInv, ClientInv
  <2>1. cHand # Idle /\ cLine = Append(cOut, cHand) /\ cOut \in Seq(Wire) /\ cHand \in Wire
        /\ cOut # <<>>
    BY <1>1 DEF Idle, cLine, Line, Data, AgentReads
  <2>2. Extends(cOut, cLine, cHand)
    BY <2>1, AppendExtends
  <2>3. Len(cOut) + 1 \in 1..Len(cLine) /\ Len(cOut) + 1 # 1
        /\ cLine[Len(cOut) + 1] = cHand
    BY <2>1, <2>2 DEF Extends
  <2> QED BY <1>4, <2>3
<1> HIDE DEF m
<1>6. aLine' = aLine /\ (NoAnswer' <=> NoAnswer)
  BY <1>3, SameAnswers DEF aLine
<1>7. \A i \in 1..Len(cLine') : /\ i + 1 \in 1..Len(cLine) /\ cLine'[i] = cLine[i + 1]
                                /\ i + 1 # 1
  BY <1>1 DEF Follows
<1>8. cInitializing
  BY <1>5 DEF IInv, ClientInv
<1>9. AgentInv'
  BY <1>3, <1>4 DEF IInv, AgentInv, A!WaitsForHandler
<1>10. InitializeInv'
  BY <1>4, <1>7 DEF InitializeInv
<1>11. HandlerInv' /\ AnswerInv'
  BY <1>1, <1>3, <1>4, <1>5, <1>6 DEF HandlerInv, AnswerInv, NoAnswer, ClientSame
<1>12. ClientFrames'
  <2> SUFFICES ASSUME NEW i \in 1..Len(cLine'), Ordinary(cLine'[i]) PROVE FALSE
    BY DEF ClientFrames
  <2>1. Ordinary(cLine[i + 1]) /\ i + 1 \in 1..Len(cLine) /\ 1 < i + 1
    BY <1>7
  <2> QED BY <1>1, <1>2, <2>1 DEF IInv, ClientFrames, m
<1>13. RequestsClose'
  BY <1>1, <1>3, <1>7, <1>8 DEF IInv, RequestsClose, ClientSame
<1>14. AgentFrames' /\ Agreement'
  BY <1>1, <1>3, <1>6 DEF IInv, AgentFrames, Agreement, ClientSame
<1> QED BY <1>1, <1>9, <1>10, <1>11, <1>12, <1>13, <1>14 DEF IInv

\* Any other frame: an admitted request ends the time for repeats, and nothing
\* else changes but the line.
LEMMA ReadFrameStep ==
  ASSUME IInv, AgentReads, A!ReceiveRequest(Head(cOut)) \/ A!ReceiveOther(Head(cOut))
  PROVE  IInv'
<1> DEFINE m == cLine[1]
<1>1. /\ ClientSame /\ ClientInv' /\ Types' /\ Data /\ Flags
      /\ Follows(cLine, cLine') /\ 1 \in 1..Len(cLine) /\ m = Head(cOut)
  BY AgentReadsFirst
<1>2. /\ UNCHANGED <<aState, aInitialized, aPending, aSent, aHandler, aAttempt, aHand, aOut>>
      /\ \/ /\ m.kind = "request" /\ aState = "ready" /\ aRepeatable' = FALSE
            /\ aAdmitted' = aAdmitted \cup {"request"}
         \/ /\ m.kind # "request" /\ aRepeatable' = aRepeatable
            /\ "request" \in aAdmitted' <=> "request" \in aAdmitted
  <2>1. CASE A!ReceiveRequest(Head(cOut))
    <3>1. m.kind = "request"
      BY <1>1, <2>1 DEF A!ReceiveRequest
    <3>2. aState = "ready"
      BY <3>1, AgentFinds DEF Ordinary
    <3> QED BY <1>1, <2>1, <3>1, <3>2 DEF A!ReceiveRequest, A!Admit
  <2>2. CASE A!ReceiveOther(Head(cOut))
    <3>1. m.kind \in {"notify", "cancel", "response"}
      BY <1>1, <2>2 DEF A!ReceiveOther
    <3>2. CASE A!Refuse(Head(cOut))
      BY <1>1, <3>1, <3>2 DEF A!Refuse, A!lifecycle, A!tasks
    <3>3. CASE ~A!Refuse(Head(cOut))
      BY <1>1, <2>2, <3>1, <3>3 DEF A!ReceiveOther, A!Admit, A!lifecycle, A!tasks, A!history
    <3> QED BY <3>2, <3>3
  <2> QED BY <2>1, <2>2
<1> HIDE DEF m
<1>3. aLine' = aLine /\ (NoAnswer' <=> NoAnswer)
  BY <1>2, SameAnswers DEF aLine
<1>4. \A i \in 1..Len(cLine') : i + 1 \in 1..Len(cLine) /\ cLine'[i] = cLine[i + 1]
  BY <1>1 DEF Follows
<1>5. AgentInv'
  BY <1>2 DEF IInv, AgentInv, A!WaitsForHandler
<1>6. HandlerInv' /\ AnswerInv' /\ AgentFrames' /\ Agreement'
  <2>1. HandlerInv'
    BY <1>1, <1>2, <1>3 DEF IInv, HandlerInv, ClientSame
  <2>2. AnswerInv'
    BY <1>1, <1>2, <1>3 DEF IInv, AnswerInv, ClientSame
  <2>3. AgentFrames' /\ Agreement'
    BY <1>1, <1>2, <1>3 DEF IInv, AgentFrames, Agreement, ClientSame
  <2> QED BY <2>1, <2>2, <2>3
<1>7. InitializeInv'
  <2> SUFFICES ASSUME NEW i \in 1..Len(cLine'), cLine'[i].kind = "initialize"
               PROVE  /\ cLine'[i].era = cAttempt /\ cCall \in {"queue", "wait"}
                      /\ aHandler = "none" /\ NoAnswer
                      /\ \A j \in 1..Len(cLine') : cLine'[j].kind = "initialize" => j = i
    BY <1>1, <1>2, <1>3 DEF InitializeInv, ClientSame
  <2>1. \A j \in 1..Len(cLine') : cLine'[j].kind = "initialize" => j + 1 = i + 1
    BY <1>4 DEF IInv, InitializeInv
  <2>2. \A j \in 1..Len(cLine') : cLine'[j].kind = "initialize" => j = i
    BY <2>1
  <2> QED BY <1>4, <2>2 DEF IInv, InitializeInv
<1>8. ClientFrames'
  <2> SUFFICES ASSUME NEW i \in 1..Len(cLine'), Ordinary(cLine'[i])
               PROVE  /\ aState = "ready" /\ NoAnswer
                      /\ \A j \in 1..Len(cLine') : j < i => cLine'[j].kind # "initialize"
                      /\ compatible => cLine'[i].era = aSent
    BY <1>1, <1>2, <1>3 DEF ClientFrames, ClientSame
  <2>1. \A j \in 1..Len(cLine') : j < i => j + 1 < i + 1
    OBVIOUS
  <2>2. /\ aState = "ready" /\ NoAnswer /\ (compatible => cLine[i + 1].era = aSent)
        /\ \A j \in 1..Len(cLine) : j < i + 1 => cLine[j].kind # "initialize"
    BY <1>4 DEF IInv, ClientFrames
  <2> QED BY <1>4, <2>1, <2>2
<1>9. RequestsClose'
  BY <1>1, <1>2, <1>4 DEF IInv, RequestsClose, ClientSame, m
<1> QED BY <1>1, <1>5, <1>6, <1>7, <1>8, <1>9 DEF IInv

(***************************************************************************)
(* The invariant holds.                                                    *)
(***************************************************************************)
LEMMA InvInit == Init => IInv
<1> SUFFICES ASSUME Init PROVE IInv
  OBVIOUS
<1>1. /\ compatible \in BOOLEAN /\ cInitialized = FALSE /\ cInitializing = FALSE
      /\ cRepeatable = FALSE /\ cRecorded = 0 /\ cAttempt = 0 /\ cCall = "none"
      /\ cHand = Idle /\ cOut = <<>>
  BY DEF Init, C!Init, C!NoFrame, C!Frame, Idle
<1>2. /\ aState = "uninitialized" /\ aInitialized = FALSE /\ aRepeatable = FALSE
      /\ aPending = 0 /\ aSent = 0 /\ aHandler = "none" /\ aAttempt = 0
      /\ aHand = Idle /\ aOut = <<>> /\ aAdmitted = {}
  BY DEF Init, A!Init, A!NoFrame, A!Frame, Idle
<1>3. cLine = <<>> /\ aLine = <<>>
  BY <1>1, <1>2 DEF cLine, aLine, Line
<1>4. Types
  <2>1. Idle \in Wire /\ <<>> \in Seq(Wire)
    BY DEF Idle, Wire
  <2> QED BY <1>1, <1>2, <2>1 DEF Types, Flags, Data
<1>5. ClientInv /\ AgentInv
  BY <1>1, <1>2 DEF ClientInv, AgentInv, A!WaitsForHandler, Idle
<1>6. InitializeInv /\ HandlerInv /\ AnswerInv /\ ClientFrames /\ AgentFrames
  BY <1>2, <1>3 DEF InitializeInv, HandlerInv, AnswerInv, ClientFrames, AgentFrames
<1>7. RequestsClose /\ Agreement
  BY <1>1, <1>2, <1>3 DEF RequestsClose, Agreement
<1> QED BY <1>4, <1>5, <1>6, <1>7 DEF IInv

LEMMA InvStep == IInv /\ [Next]_vars => IInv'
<1> SUFFICES ASSUME IInv, [Next]_vars PROVE IInv'
  OBVIOUS
<1>1. CASE Client
  BY <1>1, BeginStep, SpeakStep, ClientQueueStep, ClientGiveUpStep, AbandonStep
     DEF Client, C!Local
<1>2. CASE Agent
  BY <1>2, HandlerStep, AnswerStep, AgentSpeakStep, AgentQueueStep, AgentGiveUpStep
     DEF Agent, A!Local
<1>3. CASE ClientReads
  <2>1. C!Receive(Head(aOut))
    BY <1>3 DEF ClientReads
  <2> QED BY <1>3, <2>1, ReadAnswerStep, ReadOtherStep DEF C!Receive
<1>4. CASE AgentReads
  <2>1. A!Receive(Head(cOut))
    BY <1>4 DEF AgentReads
  <2> QED BY <1>4, <2>1, ReadInitializeStep, ReadFrameStep DEF A!Receive
<1>5. CASE UNCHANGED vars
  <2>1. UNCHANGED <<compatible, cInitialized, cInitializing, cRepeatable, cRecorded, cAttempt,
                    cCall, cHand, cOut, aState, aInitialized, aRepeatable, aPending, aSent,
                    aHandler, aAttempt, aAdmitted, aHand, aOut>>
    BY <1>5 DEF vars, clientVars, agentVars
  <2>2. cLine' = cLine /\ aLine' = aLine
    BY <2>1 DEF cLine, aLine
  <2>3. Types'
    BY TypesStep DEF IInv
  <2>4. ClientInv' /\ AgentInv'
    BY <2>1 DEF IInv, ClientInv, AgentInv, A!WaitsForHandler
  <2>5. InitializeInv' /\ HandlerInv' /\ AnswerInv'
    BY <2>1, <2>2 DEF IInv, InitializeInv, HandlerInv, AnswerInv, NoAnswer
  <2>6. ClientFrames' /\ RequestsClose'
    BY <2>1, <2>2 DEF IInv, ClientFrames, RequestsClose, NoAnswer
  <2>7. AgentFrames' /\ Agreement'
    BY <2>1, <2>2 DEF IInv, AgentFrames, Agreement
  <2> QED BY <2>3, <2>4, <2>5, <2>6, <2>7 DEF IInv
<1> QED BY <1>1, <1>2, <1>3, <1>4, <1>5 DEF Next, Quiet

LEMMA Invariant == Spec => []IInv
BY InvInit, InvStep, PTL DEF Spec

(***************************************************************************)
(* What it gives.                                                          *)
(***************************************************************************)
\* However often the client initializes, what its guard lets through the agent's
\* guard does, but for a $/cancel_request (property AgentWelcomes): the client
\* sends nothing else before it has its answer, and a repeat only while the
\* agent has admitted no request.
THEOREM ClientIsWelcome == Spec => []AgentWelcomes
<1>1. Init => AgentWelcomes
  BY DEF Init, A!Init, AgentWelcomes
<1>2. IInv /\ AgentWelcomes /\ [Next]_vars => AgentWelcomes'
  <2> SUFFICES ASSUME IInv, AgentWelcomes, [Next]_vars PROVE AgentWelcomes'
    OBVIOUS
  <2>1. CASE AgentReads
    <3> DEFINE m == Head(cOut)
    <3>1. m = cLine[1] /\ A!Receive(m)
      BY <2>1, AgentReadsFirst DEF AgentReads
    <3>2. CASE A!ReceiveInitialize(m)
      <4>1. A!MayBegin
        BY <2>1, <3>1, <3>2, AgentFinds DEF A!ReceiveInitialize
      <4> QED BY <3>2, <4>1 DEF A!ReceiveInitialize, A!history, AgentWelcomes
    <3>3. CASE A!ReceiveRequest(m)
      <4>1. aState = "ready"
        BY <2>1, <3>1, <3>3, AgentFinds DEF A!ReceiveRequest, Ordinary
      <4> QED BY <3>3, <4>1 DEF A!ReceiveRequest, A!Admit, AgentWelcomes
    <3>4. CASE A!ReceiveOther(m)
      <4>1. m.kind # "cancel" /\ m.result # "error" => A!Allowed(m.kind)
        BY <2>1, <3>1, <3>4, AgentFinds DEF A!ReceiveOther, Ordinary
      <4>2. CASE m.kind = "cancel" \/ A!Allowed(m.kind) \/ m.result = "error"
        BY <3>4, <4>2 DEF A!ReceiveOther, A!Refuse, A!Admit, A!history, AgentWelcomes
      <4> QED BY <4>1, <4>2
    <3> QED BY <3>1, <3>2, <3>3, <3>4 DEF A!Receive
  <2>2. CASE Agent
    BY <2>2 DEF Agent, A!Local, A!HandlerReturns, A!AnswerInitialize, A!AnswerRequest, A!Send,
       A!Queue, A!GiveUp, A!history, AgentWelcomes
  <2>3. CASE Client \/ ClientReads \/ UNCHANGED vars
    BY <2>3 DEF Client, ClientReads, NoAgent, vars, agentVars, AgentWelcomes
  <2> QED BY <2>1, <2>2, <2>3 DEF Next, Quiet
<1> QED BY <1>1, <1>2, Invariant, PTL DEF Spec

\* Between a client and an agent whose answers it accepts a frame is acted on
\* under the initialization its sender had in mind, and nothing that follows an
\* answer to an initialize is refused (property SameEra).
THEOREM FramesAreOfTheirEra == Spec => []SameEra
<1>1. Init => SameEra
  BY DEF Init, C!Init, A!Init, SameEra
<1>2. IInv /\ SameEra /\ [Next]_vars => SameEra'
  <2> SUFFICES ASSUME IInv, SameEra, [Next]_vars, compatible'
               PROVE  cUnready' = {} /\ ~cStale' /\ ~aStale'
    BY DEF SameEra
  <2>1. compatible
    BY DEF Next, Client, Agent, ClientReads, AgentReads, Quiet, NoAgent, NoClient, vars
  <2>2. CASE AgentReads
    <3> DEFINE m == Head(cOut)
    <3>1. m = cLine[1] /\ A!Receive(m) /\ UNCHANGED <<cUnready, cStale>>
      BY <2>2, AgentReadsFirst DEF AgentReads, clientVars
    <3>2. CASE A!ReceiveInitialize(m)
      BY <2>1, <3>1, <3>2 DEF A!ReceiveInitialize, A!Refuse, A!history, SameEra
    <3>3. CASE A!ReceiveRequest(m)
      <4>1. m.era = aSent
        BY <2>1, <2>2, <3>1, <3>3, AgentFinds DEF A!ReceiveRequest, Ordinary
      <4> QED BY <2>1, <3>1, <3>3, <4>1 DEF A!ReceiveRequest, A!Refuse, A!Admit, SameEra
    <3>4. CASE A!ReceiveOther(m)
      <4>1. m.kind # "cancel" /\ m.result # "error" => m.era = aSent
        BY <2>1, <2>2, <3>1, <3>4, AgentFinds DEF A!ReceiveOther, Ordinary
      <4> QED BY <2>1, <3>1, <3>4, <4>1 DEF A!ReceiveOther, A!Refuse, A!Admit, A!history, SameEra
    <3> QED BY <3>1, <3>2, <3>3, <3>4 DEF A!Receive
  <2>3. CASE ClientReads
    <3> DEFINE m == Head(aOut)
    <3>1. /\ m = aLine[1] /\ C!Receive(m) /\ UNCHANGED aStale /\ 1 \in 1..Len(aLine)
          /\ Data
      BY <2>3, ClientReadsFirst DEF ClientReads, agentVars
    <3>2. Ordinary(m) \/ m.kind = "cancel" =>
            m.era = cRecorded /\ (m.era > 0 \/ (m.kind = "cancel" /\ cInitializing))
      BY <2>1, <3>1 DEF IInv, AgentFrames, ClientInv
    <3>3. ASSUME Ordinary(m) \/ m.kind = "cancel", ~C!Allowed(m.kind)
          PROVE  cInitializing /\ m.era < cAttempt
      BY <3>1, <3>2, <3>3 DEF C!Allowed, IInv, ClientInv, Data
    <3>4. CASE C!ReceiveInitialized(m)
      BY <2>1, <3>1, <3>4 DEF C!ReceiveInitialized, C!history, SameEra
    <3>5. CASE C!ReceiveRequest(m)
      <4>1. Ordinary(m) /\ m.kind = "request"
        BY <3>5 DEF C!ReceiveRequest, Ordinary
      <4> QED BY <2>1, <3>1, <3>2, <3>3, <3>5, <4>1
              DEF C!ReceiveRequest, C!Refuse, C!Admit, SameEra
    <3>6. CASE C!ReceiveNotification(m)
      <4>1. (Ordinary(m) /\ m.kind = "notify") \/ m.kind = "cancel"
        BY <3>6 DEF C!ReceiveNotification, Ordinary
      <4> QED BY <2>1, <3>1, <3>2, <3>3, <3>6, <4>1
              DEF C!ReceiveNotification, C!Refuse, C!Admit, C!history, SameEra
    <3>7. CASE C!ReceiveResponse(m)
      <4>1. m.result # "error" => Ordinary(m)
        BY <3>7 DEF C!ReceiveResponse, Ordinary
      <4> QED BY <2>1, <3>1, <3>2, <3>3, <3>7, <4>1
              DEF C!ReceiveResponse, C!Refuse, C!Admit, C!history, SameEra
    <3> QED BY <3>1, <3>4, <3>5, <3>6, <3>7 DEF C!Receive
  <2>4. CASE Agent
    BY <2>1, <2>4 DEF Agent, NoClient, clientVars, A!Local, A!HandlerReturns,
       A!AnswerInitialize, A!AnswerRequest, A!Send, A!Queue, A!GiveUp, A!history, SameEra
  <2>5. CASE Client
    <3>1. UNCHANGED <<compatible, aStale>>
      BY <2>5 DEF Client, NoAgent, agentVars
    <3>2. UNCHANGED <<cUnready, cStale>>
      BY <2>5 DEF Client, C!Local, C!BeginInitialize, C!AnswerRequest, C!Send, C!Queue,
         C!GiveUp, C!Abandon, C!history
    <3> QED BY <2>1, <3>1, <3>2 DEF SameEra
  <2>6. CASE UNCHANGED vars
    BY <2>1, <2>6 DEF vars, clientVars, agentVars, SameEra
  <2> QED BY <2>2, <2>3, <2>4, <2>5, <2>6 DEF Next, Quiet
<1> QED BY <1>1, <1>2, Invariant, PTL DEF Spec

\* With no initialize in flight such a client and agent go by the same one, and
\* the client repeats it only if the agent will let it (property QuietAgree).
THEOREM SidesAgree == Spec => []QuietAgree
<1>1. IInv => QuietAgree
  <2> SUFFICES ASSUME IInv, compatible, cCall = "none"
               PROVE  /\ cInitialized = aInitialized /\ cRecorded = aSent
                      /\ cRepeatable => aRepeatable
    BY DEF QuietAgree
  <2>1. aSent = cRecorded /\ (cInitialized => aState = "ready")
    BY CallIsOver
  <2>2. cInitialized <=> aInitialized
    BY <2>1 DEF IInv, ClientInv, AgentInv
  <2>3. cRepeatable => aRepeatable
    BY <2>1 DEF IInv, ClientInv, AgentInv, RequestsClose
  <2> QED BY <2>1, <2>2, <2>3 DEF IInv, Types, Flags
<1> QED BY <1>1, Invariant, PTL

(***************************************************************************)
(* Each side alone, however often the application initializes and whatever *)
(* the other side sends: first the client, then the agent.                 *)
(***************************************************************************)
CONSTANT MaxFrames  \* a bound of theirs, see V2Initiator and V2Responder

Caller == INSTANCE V2Initiator WITH
  MaxSends <- ClientSends,
  initialized <- cInitialized, initializing <- cInitializing,
  repeatable <- cRepeatable, recorded <- cRecorded, attempt <- cAttempt,
  call <- cCall, waiting <- cWaiting, requests <- cRequests, hand <- cHand,
  out <- cOut, sends <- cSends, admitted <- cAdmitted, refused <- cRefused,
  unready <- cUnready, stale <- cStale

Callee == INSTANCE V2Responder WITH
  MaxSends <- AgentSends,
  state <- aState, initialized <- aInitialized, repeatable <- aRepeatable,
  pending <- aPending, sent <- aSent, handler <- aHandler, attempt <- aAttempt,
  requests <- aRequests, hand <- aHand, out <- aOut, sends <- aSends,
  admitted <- aAdmitted, refused <- aRefused, stale <- aStale

(***************************************************************************)
(* The client.                                                             *)
(***************************************************************************)
\* The types the induction needs.
CallTypes ==
  /\ cInitialized \in BOOLEAN /\ cInitializing \in BOOLEAN
  /\ cRecorded \in Nat /\ cAttempt \in Nat
  /\ cCall \in {"none", "queue", "wait", "abandon"}

\* A call waits for the send lock exactly while its frame is the one built.
QueueHoldsFrame == cCall = "queue" <=> cHand.kind = "initialize"

\* No initialization is recorded before its attempt.
RecordedIsOld == cRecorded <= cAttempt

CallInv ==
  /\ CallTypes /\ Caller!ProgressHasCall /\ QueueHoldsFrame /\ Caller!NothingBeforeInitialize
  /\ RecordedIsOld

LEMMA CallInvInit == Caller!Init => CallInv
<1> SUFFICES ASSUME Caller!Init PROVE CallInv
  OBVIOUS
<1>1. cHand.kind = "none"
  BY DEF Caller!Init, Caller!NoFrame, Caller!Frame
<1>2. /\ cInitialized = FALSE /\ cInitializing = FALSE /\ cCall = "none"
      /\ cRecorded = 0 /\ cAttempt = 0
  BY DEF Caller!Init
<1>3. cRecorded \in Nat /\ cAttempt \in Nat /\ cRecorded <= cAttempt
  BY <1>2
<1>4. cInitialized \in BOOLEAN /\ cInitializing \in BOOLEAN
  BY <1>2
<1> QED
  BY <1>1, <1>2, <1>3, <1>4
  DEF CallInv, CallTypes, Caller!ProgressHasCall, QueueHoldsFrame,
      Caller!NothingBeforeInitialize,
      RecordedIsOld

\* A step that keeps the lifecycle and the call, and the frame built unless it
\* is built or dropped for something other than an initialize.
LEMMA CallQuietStep ==
  ASSUME CallInv, UNCHANGED <<cInitialized, cInitializing, cRecorded, cAttempt, cCall>>,
         \/ cHand' = cHand
         \/ cCall # "queue" /\ cHand'.kind # "initialize"
            /\ (cHand'.kind \in {"request", "notify"} => cInitialized /\ ~cInitializing)
  PROVE  CallInv' /\ (cInitialized => cInitialized' /\ cRecorded' >= cRecorded)
BY DEF CallInv, CallTypes, Caller!ProgressHasCall, QueueHoldsFrame,
   Caller!NothingBeforeInitialize,
       RecordedIsOld

\* A call that ends, whatever it ends with, as long as it has no frame built.
LEMMA CallCompleteStep ==
  ASSUME NEW success \in BOOLEAN, NEW e, CallInv, success => e = cAttempt,
         cCall \in {"wait", "abandon"}, cCall' = "none",
         Caller!CompleteInitialize(success, e), UNCHANGED <<cAttempt, cHand>>
  PROVE  CallInv' /\ (cInitialized => cInitialized' /\ cRecorded' >= cRecorded)
<1>1. cInitializing' = FALSE /\ cInitialized' = (cInitialized \/ success)
      /\ cRecorded' = IF success THEN e ELSE cRecorded
  BY DEF Caller!CompleteInitialize
<1>2. cRecorded' \in Nat /\ cRecorded' >= cRecorded /\ cRecorded' <= cAttempt
  BY <1>1 DEF CallInv, CallTypes, RecordedIsOld
<1>3. cInitialized' \in BOOLEAN /\ (cInitialized => cInitialized')
  BY <1>1 DEF CallInv, CallTypes
<1> QED
  BY <1>1, <1>2, <1>3
  DEF CallInv, CallTypes, Caller!ProgressHasCall, QueueHoldsFrame,
      Caller!NothingBeforeInitialize,
      RecordedIsOld

\* Every step keeps the invariant, and what is recorded.
LEMMA CallInductive ==
  CallInv /\ [Caller!Next]_(Caller!vars)
    => CallInv' /\ (cInitialized => cInitialized' /\ cRecorded' >= cRecorded)
<1> SUFFICES ASSUME CallInv, [Caller!Next]_(Caller!vars)
             PROVE  CallInv' /\ (cInitialized => cInitialized' /\ cRecorded' >= cRecorded)
  OBVIOUS
<1> DEFINE Goal == CallInv' /\ (cInitialized => cInitialized' /\ cRecorded' >= cRecorded)
<1>1. ASSUME NEW m \in Caller!Incoming, Caller!ReceiveInitialized(m) PROVE Goal
  <2>1. m.era = cAttempt
    BY <1>1 DEF Caller!Incoming, Caller!ReceiveInitialized, Caller!Frame
  <2>2. cCall = "wait" /\ cCall' = "none" /\ UNCHANGED <<cAttempt, cHand>>
        /\ Caller!CompleteInitialize(m.result = "ok", m.era)
    BY <1>1 DEF Caller!ReceiveInitialized
  <2> QED BY <2>1, <2>2, CallCompleteStep
<1>2. ASSUME NEW m \in Caller!Incoming,
             \/ Caller!ReceiveRequest(m) \/ Caller!ReceiveNotification(m)
             \/ Caller!ReceiveResponse(m)
      PROVE Goal
  <2>1. UNCHANGED <<cInitialized, cInitializing, cRecorded, cAttempt, cCall, cHand>>
    BY <1>2 DEF Caller!ReceiveRequest, Caller!ReceiveNotification,
       Caller!ReceiveResponse, Caller!lifecycle, Caller!calls
  <2> QED BY <2>1, CallQuietStep
<1>3. CASE Caller!BeginInitialize
  <2>1. /\ cCall' = "queue" /\ cAttempt' = cAttempt + 1 /\ cInitializing' = TRUE
        /\ cHand'.kind = "initialize" /\ UNCHANGED <<cInitialized, cRecorded>>
    BY <1>3 DEF Caller!BeginInitialize, Caller!Frame
  <2> QED
    BY <2>1
    DEF CallInv, CallTypes, Caller!ProgressHasCall, QueueHoldsFrame,
        Caller!NothingBeforeInitialize,
        RecordedIsOld
<1>4. ASSUME NEW kind \in {"request", "notify", "cancel"}, Caller!Send(kind) PROVE Goal
  <2>1. /\ UNCHANGED <<cInitialized, cInitializing, cRecorded, cAttempt, cCall>>
        /\ cHand'.kind = kind /\ Caller!LockFree /\ Caller!Allowed(kind)
    BY <1>4 DEF Caller!Send, Caller!Frame, Caller!calls
  <2>2. cCall # "queue"
    BY <2>1 DEF CallInv, QueueHoldsFrame, Caller!LockFree, Caller!NoFrame,
       Caller!Frame
  <2>3. kind \in {"request", "notify"} => cInitialized /\ ~cInitializing
    BY <2>1 DEF Caller!Allowed
  <2> QED BY <2>1, <2>2, <2>3, CallQuietStep
<1>5. CASE Caller!AnswerRequest
  <2>1. /\ UNCHANGED <<cInitialized, cInitializing, cRecorded, cAttempt, cCall>>
        /\ cHand'.kind = "response" /\ Caller!LockFree
    BY <1>5 DEF Caller!AnswerRequest, Caller!Frame, Caller!lifecycle, Caller!calls
  <2>2. cCall # "queue"
    BY <2>1 DEF CallInv, QueueHoldsFrame, Caller!LockFree, Caller!NoFrame,
       Caller!Frame
  <2> QED BY <2>1, <2>2, CallQuietStep
<1>6. CASE Caller!Queue \/ Caller!GiveUp
  <2>1. UNCHANGED <<cInitialized, cInitializing, cRecorded, cAttempt>> /\ cHand' = Caller!NoFrame
    BY <1>6 DEF Caller!Queue, Caller!GiveUp, Caller!lifecycle
  <2>2. cHand'.kind = "none"
    BY <2>1 DEF Caller!NoFrame, Caller!Frame
  <2>3. CASE cHand.kind = "initialize"
    <3>1. cCall = "queue" /\ cCall' \in {"wait", "abandon"}
      BY <1>6, <2>3 DEF Caller!Queue, Caller!GiveUp, CallInv, QueueHoldsFrame
    <3> QED
      BY <2>1, <2>2, <3>1
      DEF CallInv, CallTypes, Caller!ProgressHasCall, QueueHoldsFrame,
          Caller!NothingBeforeInitialize,
          RecordedIsOld
  <2>4. CASE cHand.kind # "initialize"
    <3>1. cCall' = cCall /\ cCall # "queue"
      BY <1>6, <2>4 DEF Caller!Queue, Caller!GiveUp, CallInv, QueueHoldsFrame
    <3> QED BY <2>1, <2>2, <3>1, CallQuietStep
  <2> QED BY <2>3, <2>4
<1>7. CASE Caller!Abandon
  <2>1. cCall = "abandon" /\ cCall' = "none" /\ UNCHANGED <<cAttempt, cHand>>
        /\ Caller!CompleteInitialize(FALSE, 0)
    BY <1>7 DEF Caller!Abandon
  <2> QED BY <2>1, CallCompleteStep
<1>8. CASE Caller!AgentReads \/ UNCHANGED Caller!vars
  <2>1. UNCHANGED <<cInitialized, cInitializing, cRecorded, cAttempt, cCall, cHand>>
    BY <1>8 DEF Caller!AgentReads, Caller!vars, Caller!lifecycle, Caller!calls
  <2> QED BY <2>1, CallQuietStep
<1> QED
  BY <1>1, <1>2, <1>3, <1>4, <1>5, <1>6, <1>7, <1>8
  DEF Caller!Next, Caller!Arrives, Caller!Receive, Caller!Local

\* An initialize is in progress exactly while a call for it is, whichever way
\* the call ends: answered, refused, or given up before it is queued.
THEOREM ProgressIsCalled == Caller!Spec => []Caller!ProgressHasCall
<1>1. CallInv => Caller!ProgressHasCall
  BY DEF CallInv
<1> QED BY <1>1, CallInvInit, CallInductive, PTL DEF Caller!Spec

\* Nothing but the handshake and its cancellation is built before an
\* initialize completed, or while one is in progress.
THEOREM HandshakeFirst == Caller!Spec => []Caller!NothingBeforeInitialize
<1>1. CallInv => Caller!NothingBeforeInitialize
  BY DEF CallInv
<1> QED BY <1>1, CallInvInit, CallInductive, PTL DEF Caller!Spec

\* A failed initialize leaves the previous one in place.
THEOREM InitializationStays == Caller!Spec => Caller!KeepsInitialization
<1>1. CallInv /\ [Caller!Next]_(Caller!vars)
        => [cInitialized => cInitialized' /\ cRecorded' >= cRecorded]_(Caller!vars)
  BY CallInductive
<1>2. CallInv /\ [Caller!Next]_(Caller!vars) => CallInv'
  BY CallInductive
<1> QED BY <1>1, <1>2, CallInvInit, PTL DEF Caller!Spec, Caller!KeepsInitialization

(***************************************************************************)
(* The agent.                                                              *)
(***************************************************************************)
\* The types the induction needs: those of the lifecycle and of the handler.
HandlerTypes ==
  /\ aState \in {"uninitialized", "initializing", "ready"}
  /\ {aInitialized, aRepeatable} \subseteq BOOLEAN
  /\ aHandler \in {"none", "run", "answer"}

\* A repeat window is open only between a completed initialize and the next
\* request, so never while one is in progress.
WindowNeedsReady == aRepeatable => aState = "ready" /\ aInitialized

\* "ready" follows a completed initialize.
ReadyIsInitialized == aState = "ready" => aInitialized

HandledInv ==
  /\ HandlerTypes /\ Callee!WaitsForHandler /\ WindowNeedsReady /\ ReadyIsInitialized
  /\ Callee!UsedStaysReady

\* The lifecycle that a step leaves behind when it admits nothing and neither
\* begins nor ends an initialize.
LEMMA HandledQuietStep ==
  HandledInv /\ UNCHANGED <<Callee!lifecycle, aHandler, aAttempt, aAdmitted>> => HandledInv'
BY DEF HandledInv, HandlerTypes, Callee!WaitsForHandler, WindowNeedsReady,
   ReadyIsInitialized,
       Callee!UsedStaysReady, Callee!lifecycle

\* A refused frame changes nothing of the lifecycle.
LEMMA HandledRefusedStep == ASSUME NEW m, HandledInv, Callee!Refuse(m) PROVE HandledInv'
<1>1. UNCHANGED <<Callee!lifecycle, aHandler, aAttempt, aAdmitted>>
  BY DEF Callee!Refuse, Callee!tasks
<1> QED BY <1>1, HandledQuietStep

\* Every step keeps the invariant, one case per action.
LEMMA HandledInductive == HandledInv /\ [Callee!Next]_(Callee!vars) => HandledInv'
<1> SUFFICES ASSUME HandledInv, [Callee!Next]_(Callee!vars) PROVE HandledInv'
  OBVIOUS
<1>1. ASSUME NEW m \in Callee!Incoming, Callee!ReceiveInitialize(m) PROVE HandledInv'
  <2>1. CASE Callee!MayBegin
    <3>1. /\ aState' = "initializing" /\ aRepeatable' = FALSE /\ aHandler' = "run"
          /\ UNCHANGED <<aInitialized, aPending, aAdmitted>>
      BY <1>1, <2>1 DEF Callee!ReceiveInitialize, Callee!history
    <3>2. aHandler = "none" /\ aPending = 0
      <4>1. aHandler = "none"
        BY <2>1 DEF HandledInv, HandlerTypes, Callee!WaitsForHandler,
           Callee!MayBegin
      <4> QED BY <4>1 DEF HandledInv, Callee!WaitsForHandler
    <3>3. "request" \notin aAdmitted
      BY <2>1 DEF HandledInv, Callee!UsedStaysReady, Callee!MayBegin
    <3> QED
      BY <3>1, <3>2, <3>3
      DEF HandledInv, HandlerTypes, Callee!WaitsForHandler, WindowNeedsReady,
          ReadyIsInitialized,
          Callee!UsedStaysReady
  <2>2. CASE ~Callee!MayBegin
    BY <1>1, <2>2, HandledRefusedStep DEF Callee!ReceiveInitialize
  <2> QED BY <2>1, <2>2
<1>2. ASSUME NEW m \in Callee!Incoming, Callee!ReceiveRequest(m) PROVE HandledInv'
  <2>1. CASE aState = "ready"
    <3>1. /\ aRepeatable' = FALSE /\ aState' = "ready"
          /\ UNCHANGED <<aInitialized, aPending, aHandler, aAttempt>>
      BY <1>2, <2>1 DEF Callee!ReceiveRequest
    <3> QED
      BY <2>1, <3>1
      DEF HandledInv, HandlerTypes, Callee!WaitsForHandler, WindowNeedsReady,
          ReadyIsInitialized,
          Callee!UsedStaysReady
  <2>2. CASE aState # "ready"
    BY <1>2, <2>2, HandledRefusedStep DEF Callee!ReceiveRequest
  <2> QED BY <2>1, <2>2
<1>3. ASSUME NEW m \in Callee!Incoming, Callee!ReceiveOther(m) PROVE HandledInv'
  <2>1. CASE Callee!Allowed(m.kind) \/ m.result = "error"
    <3>1. UNCHANGED <<Callee!lifecycle, aHandler, aAttempt>>
      BY <1>3, <2>1 DEF Callee!ReceiveOther, Callee!tasks
    <3>2. "request" \in aAdmitted' => "request" \in aAdmitted
      BY <1>3, <2>1 DEF Callee!ReceiveOther, Callee!Admit, Callee!history
    <3> QED
      BY <3>1, <3>2
      DEF HandledInv, HandlerTypes, Callee!WaitsForHandler, WindowNeedsReady,
          ReadyIsInitialized,
          Callee!UsedStaysReady, Callee!lifecycle
  <2>2. CASE ~(Callee!Allowed(m.kind) \/ m.result = "error")
    BY <1>3, <2>2, HandledRefusedStep DEF Callee!ReceiveOther
  <2> QED BY <2>1, <2>2
<1>4. CASE Callee!HandlerReturns
  <2>1. aState = "initializing" /\ aHandler' = "answer" /\ aPending' \in {aAttempt, 0}
        /\ UNCHANGED <<aState, aInitialized, aRepeatable, aAttempt, aAdmitted>>
    BY <1>4 DEF Callee!HandlerReturns, HandledInv, Callee!WaitsForHandler,
       Callee!history
  <2> QED
    BY <2>1
    DEF HandledInv, HandlerTypes, Callee!WaitsForHandler, WindowNeedsReady,
        ReadyIsInitialized,
        Callee!UsedStaysReady
<1>5. CASE Callee!AnswerInitialize
  <2>1. /\ aState = "initializing" /\ "request" \notin aAdmitted
        /\ aHandler' = "none" /\ aPending' = 0 /\ UNCHANGED aAdmitted
    BY <1>5 DEF Callee!AnswerInitialize, HandledInv, Callee!WaitsForHandler,
       Callee!UsedStaysReady, Callee!history
  <2>2. CASE aPending # 0
    <3>1. aState' = "ready" /\ aInitialized' = TRUE /\ aRepeatable' = TRUE
      BY <1>5, <2>2 DEF Callee!AnswerInitialize
    <3> QED
      BY <2>1, <3>1
      DEF HandledInv, HandlerTypes, Callee!WaitsForHandler, WindowNeedsReady,
          ReadyIsInitialized,
          Callee!UsedStaysReady
  <2>3. CASE aPending = 0
    <3>1. /\ aState' = IF aInitialized THEN "ready" ELSE "uninitialized"
          /\ aRepeatable' = aInitialized /\ aInitialized' = aInitialized
      BY <1>5, <2>3 DEF Callee!AnswerInitialize
    <3> QED
      BY <2>1, <3>1
      DEF HandledInv, HandlerTypes, Callee!WaitsForHandler, WindowNeedsReady,
          ReadyIsInitialized,
          Callee!UsedStaysReady
  <2> QED BY <2>2, <2>3
<1>6. CASE \/ Callee!AnswerRequest \/ Callee!Queue \/ Callee!GiveUp \/ Callee!ClientReads
           \/ \E kind \in {"request", "notify", "cancel"} : Callee!Send(kind)
  <2>1. UNCHANGED <<Callee!lifecycle, aHandler, aAttempt, aAdmitted>>
    BY <1>6 DEF Callee!AnswerRequest, Callee!Queue, Callee!GiveUp,
       Callee!ClientReads, Callee!Send, Callee!tasks, Callee!history
  <2> QED BY <2>1, HandledQuietStep
<1>7. CASE UNCHANGED Callee!vars
  <2>1. UNCHANGED <<Callee!lifecycle, aHandler, aAttempt, aAdmitted>>
    BY <1>7 DEF Callee!vars, Callee!tasks, Callee!history
  <2> QED BY <2>1, HandledQuietStep
<1> QED
  BY <1>1, <1>2, <1>3, <1>4, <1>5, <1>6, <1>7
  DEF Callee!Next, Callee!Arrives, Callee!Receive, Callee!Local

LEMMA HandledInvInit == Callee!Init => HandledInv
BY DEF Callee!Init, HandledInv, HandlerTypes, Callee!WaitsForHandler,
   WindowNeedsReady, ReadyIsInitialized,
       Callee!UsedStaysReady

\* The responder waits for a response exactly while one initialize is being
\* handled, and a failed repeat leaves the initialization before it in force.
THEOREM LifecycleFollowsHandler == Callee!Spec => []Callee!WaitsForHandler
<1>1. HandledInv => Callee!WaitsForHandler
  BY DEF HandledInv
<1> QED BY <1>1, HandledInvInit, HandledInductive, PTL DEF Callee!Spec

\* Once a request was admitted the agent stays ready, for any client.
THEOREM UsedIsForGood == Callee!Spec => []Callee!UsedStaysReady
<1>1. HandledInv => Callee!UsedStaysReady
  BY DEF HandledInv
<1> QED BY <1>1, HandledInvInit, HandledInductive, PTL DEF Callee!Spec
===============================================================================
