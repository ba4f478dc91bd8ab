---------------------------- MODULE TurnTaskProofs ----------------------------
(***************************************************************************)
(* Proofs, for any turns, requests and bounds, of the invariants of         *)
(* TurnTask.                                                                *)
(***************************************************************************)
EXTENDS TurnTask, TLAPS

(* Type correctness. *)

\* The targets of the session's transitions are states.
LEMMA MoveTurnType ==
    ASSUME NEW s \in TurnState, NEW to \in TurnState
    PROVE  MoveTurn(s, to) \in TurnState
  BY DEF MoveTurn

\* Dropping a handler keeps the types of the handler and of its oneshots.
LEMMA AbandonType ==
    ASSUME TaskTypeOK, NEW t \in Turn, AbandonHandler(t)
    PROVE  /\ hreq' \in [Turn -> Request \cup {NoRequest}]
           /\ stage' \in [Turn -> {"none", "offer", "await", "respond", "resume"}]
           /\ dec' \in [Request -> {"none", "open", "closed", "dropped"} \cup Sent]
           /\ dack' \in [Request -> {"none", "waiting", "delivered", "failed"}]
  BY DEF TaskTypeOK, AbandonHandler, Listening, Unacknowledged

LEMMA EndFlowType ==
    ASSUME TaskTypeOK, NEW t \in Turn, NEW o \in Success \cup Failure, EndFlow(t, o)
    PROVE  /\ pc' \in [Turn -> Phase]
           /\ outcome' \in [Turn -> {"none"} \cup Success \cup Failure]
           /\ hreq' \in [Turn -> Request \cup {NoRequest}]
           /\ stage' \in [Turn -> {"none", "offer", "await", "respond", "resume"}]
           /\ dec' \in [Request -> {"none", "open", "closed", "dropped"} \cup Sent]
           /\ dack' \in [Request -> {"none", "waiting", "delivered", "failed"}]
  <1>1. AbandonHandler(t)
    BY DEF EndFlow
  <1>2. /\ hreq' \in [Turn -> Request \cup {NoRequest}]
        /\ stage' \in [Turn -> {"none", "offer", "await", "respond", "resume"}]
        /\ dec' \in [Request -> {"none", "open", "closed", "dropped"} \cup Sent]
        /\ dack' \in [Request -> {"none", "waiting", "delivered", "failed"}]
    BY <1>1, AbandonType
  <1>3. /\ pc' \in [Turn -> Phase]
        /\ outcome' \in [Turn -> {"none"} \cup Success \cup Failure]
    BY DEF TaskTypeOK, EndFlow, Phase
  <1> QED BY <1>2, <1>3

LEMMA TypeInit == ASSUME TaskInit PROVE TaskTypeOK
  BY DEF TaskInit, TaskTypeOK, Phase, TurnState

-------------------------------------------------------------------------------
LEMMA LocalStepType ==
    ASSUME TaskTypeOK, NEW t \in Turn, LocalStep(t)
    PROVE  TaskTypeOK'
  <1> USE DEF flowVars, handlerVars, controlVars, approvalVars, journalVars
  <1>1. ASSUME Launch(t) PROVE TaskTypeOK'
    <2>1. /\ pc' \in [Turn -> Phase]
          /\ child' \in [Turn -> {"none", "up", "gone", "reaped"}]
          /\ outcome' \in [Turn -> {"none"} \cup Success \cup Failure]
      BY <1>1 DEF Launch, TaskTypeOK, Phase, Failure
    <2>2. PICK e \in {"none", "started", "failed"} : jexec' = [jexec EXCEPT ![t] = e]
      BY <1>1 DEF Launch
    <2>3. jexec' \in [Turn -> {"none", "started", "completed", "interrupted", "failed"}]
      BY <2>2 DEF TaskTypeOK
    <2> QED BY <1>1, <2>1, <2>3 DEF Launch, TaskTypeOK
  <1>2. ASSUME WriteCall(t) PROVE TaskTypeOK'
    BY <1>2 DEF WriteCall, TaskTypeOK
  <1>3. ASSUME CallFails(t) PROVE TaskTypeOK'
    <2>1. \E o \in Failure : EndFlow(t, o)
      BY <1>3 DEF CallFails, TransportError, Failure
    <2> QED BY <1>3, <2>1, EndFlowType DEF CallFails, TaskTypeOK
  <1>4. ASSUME FlowDeadline(t) PROVE TaskTypeOK'
    <2>1. EndFlow(t, "deadline") /\ "deadline" \in Failure
      BY <1>4 DEF FlowDeadline, Failure
    <2> QED BY <1>4, <2>1, EndFlowType DEF FlowDeadline, TaskTypeOK
  <1>5. ASSUME TakeControl(t) PROVE TaskTypeOK'
    <2>1. held' \in [Turn -> {"none", "live", "stale"}] /\ ctl' \in [Turn -> {"empty", "live", "stale"}]
      BY <1>5 DEF TakeControl, TaskTypeOK
    <2>2. CASE pc[t] = "wait"
      <3>1. AbandonHandler(t)
        BY <1>5, <2>2 DEF TakeControl
      <3>2. pc' = [pc EXCEPT ![t] = "intr"] /\ written' = [written EXCEPT ![t] = FALSE]
        BY <1>5, <2>2 DEF TakeControl
      <3>4. pc' \in [Turn -> Phase] /\ written' \in [Turn -> BOOLEAN]
        BY <3>2 DEF TaskTypeOK, Phase
      <3>3. UNCHANGED <<outcome, sess, child, seen, ack, wire, resume, jexec, jappr>>
        BY <1>5, <2>2 DEF TakeControl
      <3> QED BY <2>1, <3>1, <3>3, <3>4, AbandonType DEF TaskTypeOK
    <2>3. CASE pc[t] # "wait"
      <3>1. \E o \in Success \cup Failure : EndFlow(t, o)
        BY <1>5, <2>3 DEF TakeControl, Success, Failure
      <3> QED BY <1>5, <2>1, <2>3, <3>1, EndFlowType DEF TakeControl, TaskTypeOK
    <2> QED BY <2>2, <2>3
  <1>6. ASSUME CancelTimesOut(t) PROVE TaskTypeOK'
    <2>1. \E o \in Failure : EndFlow(t, o)
      BY <1>6 DEF CancelTimesOut, Failure
    <2> QED BY <1>6, <2>1, EndFlowType DEF CancelTimesOut, TaskTypeOK
  <1>7. ASSUME Settle(t) PROVE TaskTypeOK'
    <2>1. ExecutionStatus(t) \in {"completed", "interrupted", "failed"}
      BY DEF ExecutionStatus
    <2> QED BY <1>7, <2>1 DEF Settle, TaskTypeOK, Phase, Failure
  <1>8. ASSUME Reap(t) PROVE TaskTypeOK'
    BY <1>8 DEF Reap, TaskTypeOK, Phase, Failure
  <1>9. ASSUME Report(t) PROVE TaskTypeOK'
    BY <1>9 DEF Report, Acknowledgement, TaskTypeOK, Phase
  <1>10. ASSUME DropControls(t) PROVE TaskTypeOK'
    BY <1>10 DEF DropControls, TaskTypeOK, Phase
  <1>11. ASSUME Conclude(t) PROVE TaskTypeOK'
    <2> DEFINE r == hreq[t]
               effective == Effective(r, IF dec[r] \in Sent THEN dec[r] ELSE "timeout")
    <2>1. DecisionRecord[effective] \in {"allowed", "denied", "timedout"}
      BY DEF DecisionRecord, Effective, Sent
    <2>2. ASSUME EndFlow(t, "error"), UNCHANGED jappr PROVE TaskTypeOK'
      <3>1. "error" \in Failure
        BY DEF Failure
      <3> QED BY <1>11, <2>2, <3>1, EndFlowType DEF Conclude, TaskTypeOK
    <2>3. ASSUME jappr' = [jappr EXCEPT ![r] = DecisionRecord[effective]],
                 stage' = [stage EXCEPT ![t] = "respond"],
                 dec' = [dec EXCEPT ![r] = IF dec[r] \in Sent THEN @ ELSE "closed"],
                 UNCHANGED <<pc, outcome, hreq, dack>>
          PROVE  TaskTypeOK'
      <3> HIDE DEF effective
      <3> QED BY <1>11, <2>1, <2>3 DEF Conclude, TaskTypeOK
    <2> QED BY <1>11, <2>2, <2>3 DEF Conclude
  <1>12. ASSUME Respond(t) PROVE TaskTypeOK'
    <2>1. CASE child[t] = "up"
      <3>1. sess' \in [Turn -> TurnState]
        <4>1. StateAfterDecision(jappr[hreq[t]] = "allowed") \in TurnState
          BY DEF StateAfterDecision, TurnState
        <4> QED BY <1>12, <2>1, <4>1, MoveTurnType DEF Respond, TaskTypeOK
      <3> QED BY <1>12, <2>1, <3>1 DEF Respond, TaskTypeOK
    <2>2. CASE child[t] # "up"
      <3>1. \E o \in Failure : EndFlow(t, o)
        BY <1>12, <2>2 DEF Respond, Failure
      <3> QED BY <1>12, <2>2, <3>1, EndFlowType DEF Respond, TaskTypeOK
    <2> QED BY <2>1, <2>2
  <1>13. ASSUME Resumed(t) PROVE TaskTypeOK'
    BY <1>13 DEF Resumed, TaskTypeOK
  <1> QED BY <1>1, <1>2, <1>3, <1>4, <1>5, <1>6, <1>7, <1>8, <1>9, <1>10, <1>11, <1>12,
             <1>13 DEF LocalStep

LEMMA ChildStepType ==
    ASSUME TaskTypeOK, NEW t \in Turn, ChildStep(t)
    PROVE  TaskTypeOK'
  <1> USE DEF flowVars, handlerVars, controlVars, approvalVars, journalVars
  <1>1. ASSUME Reply(t) PROVE TaskTypeOK'
    <2>1. sess' \in [Turn -> TurnState]
      <3>1. pc[t] \in {"thread", "turn"} => StateAfterReply[pc[t]] \in TurnState
        BY DEF StateAfterReply, TurnState
      <3> QED BY <1>1, <3>1, MoveTurnType DEF Reply, TaskTypeOK
    <2>2. written' \in [Turn -> BOOLEAN]
      BY <1>1 DEF Reply, TaskTypeOK
    <2>3. CASE EndFlow(t, "error")
      <3>1. "error" \in Failure
        BY DEF Failure
      <3> QED BY <1>1, <2>1, <2>2, <2>3, <3>1, EndFlowType DEF Reply, TaskTypeOK
    <2>4. CASE /\ pc' = [pc EXCEPT ![t] = PhaseAfter[pc[t]]]
               /\ UNCHANGED <<outcome, hreq, stage, dec, dack>>
      <3>1. pc[t] \in {"admit", "thread", "turn", "intr"}
        BY <1>1 DEF Reply, InCall
      <3>2. PhaseAfter[pc[t]] \in Phase
        BY <3>1 DEF PhaseAfter, Phase
      <3> QED BY <1>1, <2>1, <2>2, <2>4, <3>2 DEF Reply, TaskTypeOK
    <2> QED BY <1>1, <2>3, <2>4 DEF Reply
  <1>2. ASSUME WaitFails(t) PROVE TaskTypeOK'
    <2>1. \E o \in Failure : EndFlow(t, o)
      BY <1>2 DEF WaitFails, Failure
    <2> QED BY <1>2, <2>1, EndFlowType DEF WaitFails, TaskTypeOK
  <1>3. ASSUME ChildExits(t) PROVE TaskTypeOK'
    BY <1>3 DEF ChildExits, TaskTypeOK
  <1>4. ASSUME NEW status \in Success, TurnCompletes(t, status) PROVE TaskTypeOK'
    <2>1. \E o \in Success \cup Failure : EndFlow(t, o)
      BY <1>4 DEF TurnCompletes, Failure
    <2>2. StateAfterTerminal(status) \in TurnState
      BY DEF StateAfterTerminal, TurnState
    <2>3. sess' \in [Turn -> TurnState]
      BY <1>4, <2>2, MoveTurnType DEF TurnCompletes, TaskTypeOK
    <2> QED BY <1>4, <2>1, <2>3, EndFlowType DEF TurnCompletes, TaskTypeOK
  <1>5. ASSUME NEW r \in Request, TurnOf[r] = t, ReadRequest(r) PROVE TaskTypeOK'
    <2>1. "AwaitingApproval" \in TurnState
      BY DEF TurnState
    <2>2. sess' \in [Turn -> TurnState]
      BY <1>5, <2>1, MoveTurnType DEF ReadRequest, TaskTypeOK
    <2>3. seen' \in [Turn -> SUBSET Key]
      <3>1. seen[t] \cup {KeyOf[r]} \in SUBSET Key
        BY TaskAssumption DEF TaskAssumption, TaskTypeOK
      <3>2. \E S \in {seen[t], seen[t] \cup {KeyOf[r]}} : seen' = [seen EXCEPT ![t] = S]
        BY <1>5 DEF ReadRequest
      <3> QED BY <3>1, <3>2 DEF TaskTypeOK
    <2>4. wire' \in [Request -> {"quiet", "asked", "allow", "deny"}]
      BY <1>5 DEF ReadRequest, TaskTypeOK
    <2>5. CASE EndFlow(t, "error") /\ UNCHANGED jappr
      <3>1. "error" \in Failure
        BY DEF Failure
      <3> QED BY <1>5, <2>2, <2>3, <2>4, <2>5, <3>1, EndFlowType DEF ReadRequest, TaskTypeOK
    <2>6. CASE /\ hreq' = [hreq EXCEPT ![t] = r]
               /\ stage' = [stage EXCEPT ![t] = "offer"]
               /\ jappr' = [jappr EXCEPT ![r] = "requested"]
               /\ UNCHANGED <<pc, outcome, dec, dack>>
      BY <1>5, <2>2, <2>3, <2>4, <2>6 DEF ReadRequest, TaskTypeOK
    <2> QED BY <1>5, <2>5, <2>6 DEF ReadRequest
  <1> QED BY <1>1, <1>2, <1>3, <1>4, <1>5 DEF ChildStep

LEMMA AuthorityStepType ==
    ASSUME TaskTypeOK, AuthorityStep
    PROVE  TaskTypeOK'
  <1> USE DEF flowVars, handlerVars, controlVars, approvalVars, journalVars
  <1>1. ASSUME NEW t \in Turn, AuthorityStarts(t) PROVE TaskTypeOK'
    BY <1>1 DEF AuthorityStarts, TaskTypeOK, Phase
  <1>2. ASSUME NEW r \in Request, NEW d \in Sent, NEW hold \in BOOLEAN,
               AuthorityDecides(r, d, hold)
        PROVE  TaskTypeOK'
    BY <1>2 DEF AuthorityDecides, TaskTypeOK
  <1>3. ASSUME NEW D \in SUBSET OpenSenders, NEW R \in SUBSET HeldResumes,
               AuthorityLetsGo(D, R)
        PROVE  TaskTypeOK'
    BY <1>3 DEF AuthorityLetsGo, DropSenders, ReleaseResumes, TaskTypeOK
  <1>4. ASSUME NEW t \in Turn, NEW R \in SUBSET HeldResumes, AuthorityInterrupts(t, R)
        PROVE  TaskTypeOK'
    BY <1>4 DEF AuthorityInterrupts, ReleaseResumes, TaskTypeOK
  <1>5. ASSUME NEW t \in Turn, NEW D \in SUBSET OpenSenders, AuthorityStopsWaiting(t, D)
        PROVE  TaskTypeOK'
    BY <1>5 DEF AuthorityStopsWaiting, DropSenders, Stale, TaskTypeOK
  <1> QED BY <1>1, <1>2, <1>3, <1>4, <1>5 DEF AuthorityStep

LEMMA SendType ==
    ASSUME TaskTypeOK, NEW t \in Turn, Offer(t) \/ Finish(t)
    PROVE  TaskTypeOK'
  <1> USE DEF flowVars, handlerVars, controlVars, approvalVars, journalVars
  <1>1. ASSUME Offer(t) PROVE TaskTypeOK'
    BY <1>1 DEF Offer, TaskTypeOK
  <1>2. ASSUME Finish(t) PROVE TaskTypeOK'
    BY <1>2 DEF Finish, TaskTypeOK, Phase
  <1> QED BY <1>1, <1>2

LEMMA TypeStep == ASSUME TaskTypeOK, [TaskNext]_taskVars PROVE TaskTypeOK'
  <1>1. CASE UNCHANGED taskVars
    BY <1>1 DEF taskVars, flowVars, handlerVars, controlVars, approvalVars, journalVars,
                TaskTypeOK
  <1>2. CASE TaskNext
    BY <1>2, LocalStepType, ChildStepType, AuthorityStepType, SendType DEF TaskNext
  <1> QED BY <1>1, <1>2

\* The variables of every execution keep their types, whatever the authority, the
\* app-server and the storage do.
THEOREM TaskTypeCorrect == TaskSpec => []TaskTypeOK
  <1>1. TaskInit => TaskTypeOK
    BY TypeInit
  <1>2. TaskTypeOK /\ [TaskNext]_taskVars => TaskTypeOK'
    BY TypeStep
  <1> QED BY <1>1, <1>2, PTL DEF TaskSpec

-------------------------------------------------------------------------------
(* What is put on the wire. *)

FlowPhase == {"admit", "thread", "turn", "wait", "intr", "intrwait"}
Answering == {"offer", "await", "respond"}

\* A handler belongs to the turn whose child asked, runs inside the flow and has
\* not answered yet; what it has recorded is what the authority sent.
HandlerInv ==
    \A t \in Turn :
        /\ stage[t] = "none" <=> hreq[t] = NoRequest
        /\ stage[t] # "none" => pc[t] \in FlowPhase /\ TurnOf[hreq[t]] = t
        /\ stage[t] \in Answering => wire[hreq[t]] = "asked"
        /\ stage[t] = "respond" =>
              /\ dec[hreq[t]] # "open"
              /\ jappr[hreq[t]] = "allowed" <=> dec[hreq[t]] = "allow" /\ hreq[t] \in Reviewable

WireInv == HandlerInv /\ GrantIsAuthorised /\ DeliveredIsAnswered

\* Ending the flow, or dropping the handler, preserves WireInv when what may have
\* changed of the wire and of the records is none of the handlers' business.
LEMMA AbandonWire ==
    ASSUME TaskTypeOK, WireInv, NEW t \in Turn, AbandonHandler(t),
           \A u \in Turn : u # t => pc'[u] = pc[u],
           UNCHANGED <<wire, jappr>>
    PROVE  WireInv'
  <1> USE DEF TaskTypeOK, WireInv, AbandonHandler, Listening, Unacknowledged
  <1>1. ASSUME NEW r \in Request, hreq[t] = r, stage[t] = "await"
        PROVE  wire[r] = "asked" /\ dack[r] # "delivered"
    BY <1>1 DEF HandlerInv, DeliveredIsAnswered, Answering
  <1>2. HandlerInv'
    <2> SUFFICES ASSUME NEW u \in Turn
                 PROVE  /\ stage'[u] = "none" <=> hreq'[u] = NoRequest
                        /\ stage'[u] # "none" => pc'[u] \in FlowPhase /\ TurnOf[hreq'[u]] = u
                        /\ stage'[u] \in Answering => wire[hreq'[u]] = "asked"
                        /\ stage'[u] = "respond" =>
                              /\ dec'[hreq'[u]] # "open"
                              /\ jappr[hreq'[u]] = "allowed" <=>
                                   dec'[hreq'[u]] = "allow" /\ hreq'[u] \in Reviewable
      BY DEF HandlerInv
    <2>1. CASE u = t
      BY <2>1 DEF HandlerInv, Answering
    <2>2. CASE u # t
      <3>1. stage'[u] = stage[u] /\ hreq'[u] = hreq[u]
        BY <2>2
      <3>2. hreq[u] # NoRequest => hreq[u] # hreq[t] /\ dec'[hreq[u]] = dec[hreq[u]]
        BY <2>2 DEF HandlerInv
      <3> QED BY <2>2, <3>1, <3>2 DEF HandlerInv
    <2> QED BY <2>1, <2>2
  <1>3. GrantIsAuthorised'
    BY <1>1 DEF GrantIsAuthorised
  <1>4. DeliveredIsAnswered'
    BY <1>1 DEF DeliveredIsAnswered
  <1> QED BY <1>2, <1>3, <1>4

LEMMA EndFlowWire ==
    ASSUME TaskTypeOK, WireInv, NEW t \in Turn, NEW o, EndFlow(t, o), UNCHANGED <<wire, jappr>>
    PROVE  WireInv'
  BY AbandonWire DEF EndFlow, TaskTypeOK

\* The decision is recorded as it will be answered.
LEMMA ConcludeWire == ASSUME TaskTypeOK, WireInv, NEW t \in Turn, Conclude(t) PROVE WireInv'
  <1> USE DEF flowVars, handlerVars, controlVars, approvalVars, journalVars
  <1> DEFINE r == hreq[t]
             taken == dec[r] \in Sent
             effective == Effective(r, IF taken THEN dec[r] ELSE "timeout")
  <1>1. stage[t] = "await" /\ r \in Request /\ TurnOf[r] = t /\ wire[r] = "asked"
    BY DEF Conclude, WireInv, HandlerInv, Answering, TaskTypeOK
  <1>2. ASSUME EndFlow(t, "error"), UNCHANGED jappr PROVE WireInv'
    BY <1>2, EndFlowWire DEF Conclude
  <1>3. ASSUME jappr' = [jappr EXCEPT ![r] = DecisionRecord[effective]],
               stage' = [stage EXCEPT ![t] = "respond"],
               dec' = [dec EXCEPT ![r] = IF taken THEN @ ELSE "closed"],
               UNCHANGED <<pc, outcome, hreq, dack>>
        PROVE  WireInv'
    <2>1. dec'[r] # "open"
      BY <1>1, <1>3 DEF TaskTypeOK, Sent
    <2>2. DecisionRecord[effective] = "allowed" <=> dec'[r] = "allow" /\ r \in Reviewable
      <3>1. DecisionRecord[effective] = "allowed" <=> effective = "allow"
        BY DEF DecisionRecord, Effective, Sent
      <3>2. effective = "allow" <=> taken /\ dec[r] = "allow" /\ r \in Reviewable
        BY DEF Effective
      <3>3. dec'[r] = IF taken THEN dec[r] ELSE "closed"
        BY <1>1, <1>3 DEF TaskTypeOK
      <3>4. dec[r] = "allow" => taken
        BY DEF Sent
      <3> HIDE DEF effective, taken
      <3> QED BY <3>1, <3>2, <3>3, <3>4
    <2>3. UNCHANGED wire
      BY DEF Conclude
    <2>4. HandlerInv'
      <3> HIDE DEF effective, taken
      <3> QED BY <1>1, <1>3, <2>2, <2>3, <2>1 DEF WireInv, HandlerInv, Answering, TaskTypeOK
    <2>5. GrantIsAuthorised' /\ DeliveredIsAnswered'
      <3> HIDE DEF effective, taken
      <3> QED BY <1>1, <1>3, <2>3 DEF WireInv, GrantIsAuthorised, DeliveredIsAnswered, TaskTypeOK
    <2> QED BY <2>4, <2>5 DEF WireInv
  <1> QED BY <1>2, <1>3 DEF Conclude

\* The response is what was recorded, hence what was sent.
LEMMA RespondWire == ASSUME TaskTypeOK, WireInv, NEW t \in Turn, Respond(t) PROVE WireInv'
  <1> USE DEF flowVars, handlerVars, controlVars, approvalVars, journalVars
  <1> DEFINE r == hreq[t]
  <1>1. /\ stage[t] = "respond" /\ r \in Request /\ TurnOf[r] = t /\ wire[r] = "asked"
        /\ pc[t] \in FlowPhase
        /\ jappr[r] = "allowed" <=> dec[r] = "allow" /\ r \in Reviewable
    BY DEF Respond, WireInv, HandlerInv, Answering, TaskTypeOK
  <1>2. CASE child[t] = "up"
    <2>1. /\ wire' = [wire EXCEPT ![r] = IF jappr[r] = "allowed" THEN "allow" ELSE "deny"]
          /\ dack' = [dack EXCEPT ![r] = IF dec[r] \in Sent THEN "delivered" ELSE @]
          /\ UNCHANGED <<pc, dec, jappr>>
      BY <1>2 DEF Respond
    <2>2. \/ stage' = [stage EXCEPT ![t] = "resume"] /\ UNCHANGED hreq
          \/ /\ stage' = [stage EXCEPT ![t] = "none"]
             /\ hreq' = [hreq EXCEPT ![t] = NoRequest]
      BY <1>2 DEF Respond
    <2>3. HandlerInv'
      BY <1>1, <2>1, <2>2 DEF WireInv, HandlerInv, Answering, TaskTypeOK
    <2>4. GrantIsAuthorised' /\ DeliveredIsAnswered'
      BY <1>1, <2>1 DEF WireInv, GrantIsAuthorised, DeliveredIsAnswered, TaskTypeOK
    <2> QED BY <2>3, <2>4 DEF WireInv
  <1>3. CASE child[t] # "up"
    BY <1>3, EndFlowWire DEF Respond
  <1> QED BY <1>2, <1>3

LEMMA LocalStepWire ==
    ASSUME TaskTypeOK, WireInv, NEW t \in Turn, LocalStep(t)
    PROVE  WireInv'
  <1> USE DEF flowVars, handlerVars, controlVars, approvalVars, journalVars
  <1>1. ASSUME Launch(t) PROVE WireInv'
    BY <1>1 DEF Launch, TaskTypeOK, WireInv, HandlerInv, GrantIsAuthorised,
                DeliveredIsAnswered, FlowPhase
  <1>2. ASSUME WriteCall(t) PROVE WireInv'
    BY <1>2 DEF WriteCall, WireInv, HandlerInv, GrantIsAuthorised, DeliveredIsAnswered
  <1>3. ASSUME CallFails(t) PROVE WireInv'
    BY <1>3, EndFlowWire DEF CallFails
  <1>4. ASSUME FlowDeadline(t) PROVE WireInv'
    BY <1>4, EndFlowWire DEF FlowDeadline
  <1>5. ASSUME TakeControl(t) PROVE WireInv'
    <2>1. CASE pc[t] = "wait"
      <3>1. pc' = [pc EXCEPT ![t] = "intr"] /\ AbandonHandler(t) /\ UNCHANGED <<wire, jappr>>
        BY <1>5, <2>1 DEF TakeControl
      <3> QED BY <3>1, AbandonWire DEF TaskTypeOK
    <2>2. CASE pc[t] # "wait"
      BY <1>5, <2>2, EndFlowWire DEF TakeControl
    <2> QED BY <2>1, <2>2
  <1>6. ASSUME CancelTimesOut(t) PROVE WireInv'
    BY <1>6, EndFlowWire DEF CancelTimesOut
  <1>7. ASSUME Settle(t) \/ Reap(t) \/ Report(t) \/ DropControls(t) PROVE WireInv'
    <2>1. /\ pc[t] \notin FlowPhase
          /\ \A u \in Turn : u # t => pc'[u] = pc[u]
          /\ UNCHANGED <<hreq, stage, wire, dec, dack, jappr>>
      BY <1>7 DEF Settle, Reap, Report, DropControls, FlowPhase, TaskTypeOK
    <2> QED BY <2>1 DEF WireInv, HandlerInv, GrantIsAuthorised, DeliveredIsAnswered
  <1>8. ASSUME Conclude(t) PROVE WireInv'
    BY <1>8, ConcludeWire
  <1>9. ASSUME Respond(t) PROVE WireInv'
    BY <1>9, RespondWire
  <1>10. ASSUME Resumed(t) PROVE WireInv'
    BY <1>10 DEF Resumed, TaskTypeOK, WireInv, HandlerInv, GrantIsAuthorised,
                 DeliveredIsAnswered, Answering
  <1> QED BY <1>1, <1>2, <1>3, <1>4, <1>5, <1>6, <1>7, <1>8, <1>9, <1>10 DEF LocalStep

LEMMA ReadRequestWire ==
    ASSUME TaskTypeOK, WireInv, NEW r \in Request, ReadRequest(r) PROVE WireInv'
  <1> USE DEF flowVars, handlerVars, controlVars, approvalVars, journalVars
  <1> DEFINE t == TurnOf[r]
  <1>1. t \in Turn /\ hreq[t] = NoRequest /\ stage[t] = "none" /\ wire[r] = "quiet"
    BY TaskAssumption DEF TaskAssumption, ReadRequest, Reading, WireInv, HandlerInv
  <1>2. pc[t] \in FlowPhase
    BY DEF ReadRequest, Reading, InCall, InWait, FlowPhase
  <1>3. \A u \in Turn : hreq[u] # r
    BY <1>1, TaskAssumption DEF TaskAssumption, WireInv, HandlerInv
  <1>4. \E w \in {"deny", "asked"} : wire' = [wire EXCEPT ![r] = w]
    BY DEF ReadRequest
  <1>5. ASSUME EndFlow(t, "error"), UNCHANGED jappr PROVE WireInv'
    <2>1. /\ hreq' = [hreq EXCEPT ![t] = NoRequest]
          /\ stage' = [stage EXCEPT ![t] = "none"]
          /\ \A u \in Turn : u # t => pc'[u] = pc[u]
      BY <1>1, <1>5 DEF EndFlow, AbandonHandler, TaskTypeOK
    <2>2. UNCHANGED <<dec, dack>>
      <3>1. Listening(t) = {} /\ Unacknowledged(t) = {}
        BY <1>1, TaskAssumption DEF TaskAssumption, Listening, Unacknowledged
      <3> QED BY <1>5, <3>1 DEF EndFlow, AbandonHandler, TaskTypeOK
    <2>3. HandlerInv'
      BY <1>1, <1>3, <1>4, <1>5, <2>1, <2>2 DEF WireInv, HandlerInv, Answering, TaskTypeOK
    <2>4. GrantIsAuthorised' /\ DeliveredIsAnswered'
      BY <1>1, <1>4, <1>5, <2>2 DEF WireInv, GrantIsAuthorised, DeliveredIsAnswered, TaskTypeOK
    <2> QED BY <2>3, <2>4 DEF WireInv
  <1>6. ASSUME hreq' = [hreq EXCEPT ![t] = r],
               stage' = [stage EXCEPT ![t] = "offer"],
               jappr' = [jappr EXCEPT ![r] = "requested"],
               wire' = [wire EXCEPT ![r] = "asked"],
               UNCHANGED <<pc, outcome, dec, dack>>
        PROVE  WireInv'
    <2>1. HandlerInv'
      BY <1>1, <1>2, <1>3, <1>6, TaskAssumption
      DEF TaskAssumption, WireInv, HandlerInv, Answering, TaskTypeOK
    <2>2. GrantIsAuthorised' /\ DeliveredIsAnswered'
      BY <1>1, <1>6 DEF WireInv, GrantIsAuthorised, DeliveredIsAnswered, TaskTypeOK
    <2> QED BY <2>1, <2>2 DEF WireInv
  <1> QED BY <1>5, <1>6 DEF ReadRequest

LEMMA ChildStepWire ==
    ASSUME TaskTypeOK, WireInv, NEW t \in Turn, ChildStep(t)
    PROVE  WireInv'
  <1> USE DEF flowVars, handlerVars, controlVars, approvalVars, journalVars
  <1>1. ASSUME Reply(t) PROVE WireInv'
    <2>1. CASE EndFlow(t, "error")
      BY <1>1, <2>1, EndFlowWire DEF Reply
    <2>2. CASE /\ pc' = [pc EXCEPT ![t] = PhaseAfter[pc[t]]]
               /\ UNCHANGED <<outcome, hreq, stage, dec, dack>>
      <3>1. stage[t] = "none"
        BY <1>1 DEF Reply, Reading, WireInv, HandlerInv
      <3> QED BY <1>1, <2>2, <3>1
              DEF Reply, TaskTypeOK, WireInv, HandlerInv, GrantIsAuthorised,
                  DeliveredIsAnswered, Answering
    <2> QED BY <1>1, <2>1, <2>2 DEF Reply
  <1>2. ASSUME WaitFails(t) PROVE WireInv'
    BY <1>2, EndFlowWire DEF WaitFails
  <1>3. ASSUME ChildExits(t) PROVE WireInv'
    BY <1>3 DEF ChildExits, WireInv, HandlerInv, GrantIsAuthorised, DeliveredIsAnswered
  <1>4. ASSUME NEW status \in Success, TurnCompletes(t, status) PROVE WireInv'
    BY <1>4, EndFlowWire DEF TurnCompletes
  <1> QED BY <1>1, <1>2, <1>3, <1>4, ReadRequestWire DEF ChildStep

LEMMA AuthorityStepWire ==
    ASSUME TaskTypeOK, WireInv, AuthorityStep \/ \E t \in Turn : Offer(t) \/ Finish(t)
    PROVE  WireInv'
  <1> USE DEF flowVars, handlerVars, controlVars, approvalVars, journalVars
  <1>1. ASSUME NEW t \in Turn, AuthorityStarts(t) \/ Finish(t) PROVE WireInv'
    <2>1. /\ pc[t] \notin FlowPhase
          /\ \A u \in Turn : u # t => pc'[u] = pc[u]
          /\ UNCHANGED <<hreq, stage, wire, dec, dack, jappr>>
      BY <1>1 DEF AuthorityStarts, Finish, FlowPhase, TaskTypeOK
    <2> QED BY <2>1 DEF WireInv, HandlerInv, GrantIsAuthorised, DeliveredIsAnswered
  <1>2. ASSUME NEW r \in Request, NEW d \in Sent, NEW hold \in BOOLEAN,
               AuthorityDecides(r, d, hold)
        PROVE  WireInv'
    <2>1. \A u \in Turn : stage[u] = "respond" => hreq[u] # r
      BY <1>2 DEF AuthorityDecides, WireInv, HandlerInv
    <2>2. HandlerInv'
      BY <1>2, <2>1 DEF AuthorityDecides, WireInv, HandlerInv, TaskTypeOK
    <2>3. GrantIsAuthorised' /\ DeliveredIsAnswered'
      BY <1>2 DEF AuthorityDecides, WireInv, GrantIsAuthorised, DeliveredIsAnswered, TaskTypeOK
    <2> QED BY <2>2, <2>3 DEF WireInv
  <1>3. ASSUME NEW D \in SUBSET OpenSenders, DropSenders(D),
               UNCHANGED <<pc, hreq, stage, wire, dack, jappr>>
        PROVE  WireInv'
    <2>1. \A r \in Request : dec[r] # "open" => dec'[r] = dec[r]
      BY <1>3 DEF DropSenders, OpenSenders
    <2>2. \A r \in Request : dec[r] = "open" => dec'[r] \in {"open", "dropped"}
      BY <1>3 DEF DropSenders
    <2>3. HandlerInv'
      BY <1>3, <2>1, <2>2 DEF WireInv, HandlerInv, TaskTypeOK
    <2>4. GrantIsAuthorised' /\ DeliveredIsAnswered'
      BY <1>3, <2>1, <2>2 DEF WireInv, GrantIsAuthorised, DeliveredIsAnswered
    <2> QED BY <2>3, <2>4 DEF WireInv
  <1>4. ASSUME NEW t \in Turn, NEW R \in SUBSET HeldResumes, AuthorityInterrupts(t, R)
        PROVE  WireInv'
    BY <1>4 DEF AuthorityInterrupts, WireInv, HandlerInv, GrantIsAuthorised,
                DeliveredIsAnswered
  <1>5. ASSUME NEW t \in Turn, Offer(t) PROVE WireInv'
    <2>1. stage[t] = "offer" /\ wire[hreq[t]] = "asked" /\ hreq[t] \in Request
      BY <1>5 DEF Offer, WireInv, HandlerInv, Answering, TaskTypeOK
    <2>2. HandlerInv'
      BY <1>5, <2>1 DEF Offer, WireInv, HandlerInv, Answering, TaskTypeOK
    <2>3. GrantIsAuthorised' /\ DeliveredIsAnswered'
      BY <1>5, <2>1 DEF Offer, WireInv, GrantIsAuthorised, DeliveredIsAnswered, TaskTypeOK
    <2> QED BY <2>2, <2>3 DEF WireInv
  <1> QED BY <1>1, <1>2, <1>3, <1>4, <1>5
          DEF AuthorityStep, AuthorityLetsGo, AuthorityStopsWaiting

LEMMA WireStep ==
    ASSUME TaskTypeOK, WireInv, [TaskNext]_taskVars
    PROVE  WireInv'
  <1>1. CASE UNCHANGED taskVars
    BY <1>1 DEF taskVars, flowVars, handlerVars, approvalVars, journalVars, WireInv,
                HandlerInv, GrantIsAuthorised, DeliveredIsAnswered
  <1>2. CASE TaskNext
    BY <1>2, LocalStepWire, ChildStepWire, AuthorityStepWire DEF TaskNext
  <1> QED BY <1>1, <1>2

LEMMA WireAlways == TaskSpec => [](TaskTypeOK /\ WireInv)
  <1>1. TaskInit => TaskTypeOK /\ WireInv
    <2>1. TaskInit => WireInv
      BY DEF TaskInit, WireInv, HandlerInv, GrantIsAuthorised, DeliveredIsAnswered, Answering
    <2> QED BY <2>1, TypeInit
  <1>2. TaskTypeOK /\ WireInv /\ [TaskNext]_taskVars => (TaskTypeOK /\ WireInv)'
    BY TypeStep, WireStep
  <1> QED BY <1>1, <1>2, PTL DEF TaskSpec

\* No interleaving of requests, decisions, timeouts, interrupts, crashes of the
\* app-server and storage failures puts an Allow on the wire that the authority did
\* not send for that request, or that is not durable.
THEOREM GrantsAreAuthorised == TaskSpec => []GrantIsAuthorised
  BY WireAlways, PTL DEF WireInv

\* A delivery acknowledged to the authority is a response on the wire, and the one
\* the authority asked for.
THEOREM DeliveriesAreAnswered == TaskSpec => []DeliveredIsAnswered
  BY WireAlways, PTL DEF WireInv

-------------------------------------------------------------------------------
(* What the journal and the acknowledgement of an interrupt say. *)

Over == {"finish", "drop", "done"}

\* The execution record is open while the flow runs, and the epilogue closes it,
\* reaps the child and acknowledges the interrupt in this order.
PhaseInv ==
    \A t \in Turn :
        /\ pc[t] \in FlowPhase \cup {"settle"} => jexec[t] = "started"
        /\ outcome[t] \in Success /\ held[t] # "none" /\ pc[t] \in {"reap", "report"} =>
              jexec[t] = "interrupted"
        /\ outcome[t] \in Success /\ pc[t] = "report" => child[t] = "reaped"
        /\ ack[t] \notin {"none", "waiting"} => pc[t] \in Over
        /\ child[t] \in {"up", "gone"} => pc[t] \in FlowPhase \cup {"settle", "reap"}

CloseInv == PhaseInv /\ ConfirmedInterrupt /\ AmbiguityStaysOpen

LEMMA EndFlowClose ==
    ASSUME TaskTypeOK, CloseInv, NEW t \in Turn, NEW o, EndFlow(t, o), pc[t] \in FlowPhase,
           UNCHANGED <<child, jexec, ack>>,
           \A u \in Turn : u # t => held'[u] = held[u]
    PROVE  CloseInv'
  <1>1. /\ pc' = [pc EXCEPT ![t] = "settle"]
        /\ outcome' = [outcome EXCEPT ![t] = o]
    BY DEF EndFlow
  <1>2. PhaseInv'
    BY <1>1 DEF TaskTypeOK, CloseInv, PhaseInv, FlowPhase, Over
  <1>3. ack[t] # "interrupted"
    BY DEF CloseInv, PhaseInv, FlowPhase, Over
  <1>4. ConfirmedInterrupt'
    BY <1>1, <1>3 DEF TaskTypeOK, CloseInv, ConfirmedInterrupt
  <1>5. AmbiguityStaysOpen'
    BY <1>1 DEF TaskTypeOK, CloseInv, PhaseInv, AmbiguityStaysOpen
  <1> QED BY <1>2, <1>4, <1>5 DEF CloseInv

LEMMA CloseStep ==
    ASSUME TaskTypeOK, WireInv, CloseInv, [TaskNext]_taskVars
    PROVE  CloseInv'
  <1> USE DEF flowVars, handlerVars, controlVars, approvalVars, journalVars
  <1>1. ASSUME NEW t \in Turn, Launch(t) PROVE CloseInv'
    BY <1>1 DEF Launch, TaskTypeOK, CloseInv, PhaseInv, ConfirmedInterrupt, AmbiguityStaysOpen,
                FlowPhase, Over, Success
  <1>2. ASSUME NEW t \in Turn, TakeControl(t) PROVE CloseInv'
    <2>1. pc[t] \in FlowPhase /\ UNCHANGED <<child, jexec, ack>> /\ held' = [held EXCEPT ![t] = ctl[t]]
      BY <1>2 DEF TakeControl, ControlPhase, FlowPhase
    <2>2. CASE pc[t] = "wait"
      <3>1. pc' = [pc EXCEPT ![t] = "intr"] /\ UNCHANGED outcome
        BY <1>2, <2>2 DEF TakeControl
      <3> QED BY <2>1, <2>2, <3>1 DEF TaskTypeOK, CloseInv, PhaseInv, ConfirmedInterrupt,
                                      AmbiguityStaysOpen, FlowPhase, Over
    <2>3. CASE pc[t] # "wait"
      <3>1. PICK o : EndFlow(t, o)
        BY <1>2, <2>3 DEF TakeControl
      <3> QED BY <2>1, <3>1, EndFlowClose DEF TaskTypeOK
    <2> QED BY <2>2, <2>3
  <1>3. ASSUME NEW t \in Turn, Settle(t) PROVE CloseInv'
    <2>1. outcome[t] \in Success /\ held[t] # "none" => ExecutionStatus(t) = "interrupted"
      BY DEF ExecutionStatus, Success, Failure
    <2>2. PICK e, o :
            /\ jexec' = [jexec EXCEPT ![t] = e] /\ outcome' = [outcome EXCEPT ![t] = o]
            /\ o = "ambiguous" => outcome[t] = "ambiguous" /\ e = jexec[t]
            /\ o \in Success /\ held[t] # "none" => e = "interrupted"
      <3>1. CASE /\ jexec' = [jexec EXCEPT ![t] = IF outcome[t] = "ambiguous" THEN @
                                                  ELSE ExecutionStatus(t)]
                 /\ UNCHANGED outcome
        <4>1. outcome' = [outcome EXCEPT ![t] = outcome[t]]
          BY <3>1 DEF TaskTypeOK
        <4>2. outcome[t] = "ambiguous" => outcome[t] \notin Success
          BY DEF Success
        <4> QED BY <2>1, <3>1, <4>1, <4>2
      <3>2. CASE /\ outcome' = [outcome EXCEPT ![t] = IF @ \in Success THEN "error" ELSE @]
                 /\ UNCHANGED jexec
        <4>1. jexec' = [jexec EXCEPT ![t] = jexec[t]]
          BY <3>2 DEF TaskTypeOK
        <4>2. "error" \notin Success /\ "error" # "ambiguous"
          BY DEF Success
        <4> QED BY <3>2, <4>1, <4>2
      <3> QED BY <1>3, <3>1, <3>2 DEF Settle, Closes
    <2>3. pc[t] = "settle" /\ pc' = [pc EXCEPT ![t] = "reap"] /\ UNCHANGED <<child, held, ack>>
      BY <1>3 DEF Settle
    <2> QED BY <2>2, <2>3 DEF TaskTypeOK, CloseInv, PhaseInv, ConfirmedInterrupt,
                              AmbiguityStaysOpen, FlowPhase, Over
  <1>4. ASSUME NEW t \in Turn, Reap(t) PROVE CloseInv'
    <2>1. PICK o \in {outcome[t], "error"} : outcome' = [outcome EXCEPT ![t] = o]
      BY <1>4 DEF Reap
    <2>2. "error" \notin Success
      BY DEF Success
    <2> QED BY <1>4, <2>1, <2>2 DEF Reap, TaskTypeOK, CloseInv, PhaseInv, ConfirmedInterrupt,
                              AmbiguityStaysOpen, FlowPhase, Over
  <1>5. ASSUME NEW t \in Turn, Report(t) PROVE CloseInv'
    BY <1>5 DEF Report, Acknowledgement, TaskTypeOK, CloseInv, PhaseInv, ConfirmedInterrupt,
                AmbiguityStaysOpen, FlowPhase, Over
  <1>6. ASSUME NEW t \in Turn, Finish(t) \/ DropControls(t) \/ AuthorityStarts(t) PROVE CloseInv'
    BY <1>6 DEF Finish, DropControls, AuthorityStarts, TaskTypeOK, CloseInv, PhaseInv,
                ConfirmedInterrupt, AmbiguityStaysOpen, FlowPhase, Over
  <1>7. ASSUME NEW t \in Turn, ChildExits(t) PROVE CloseInv'
    BY <1>7 DEF ChildExits, TaskTypeOK, CloseInv, PhaseInv, ConfirmedInterrupt,
                AmbiguityStaysOpen
  <1>8. ASSUME NEW t \in Turn, NEW o, EndFlow(t, o), pc[t] \in FlowPhase,
               UNCHANGED <<child, jexec, controlVars>>
        PROVE  CloseInv'
    BY <1>8, EndFlowClose
  <1>9. ASSUME NEW t \in Turn, pc[t] \in FlowPhase,
               \E q \in FlowPhase : pc' = [pc EXCEPT ![t] = q],
               UNCHANGED <<outcome, child, controlVars, jexec>>
        PROVE  CloseInv'
    BY <1>9 DEF TaskTypeOK, CloseInv, PhaseInv, ConfirmedInterrupt, AmbiguityStaysOpen, FlowPhase, Over
  <1>10. ASSUME UNCHANGED <<pc, outcome, child, held, ack, jexec>> PROVE CloseInv'
    BY <1>10 DEF CloseInv, PhaseInv, ConfirmedInterrupt, AmbiguityStaysOpen
  <1>11. ASSUME NEW t \in Turn, NEW R \in SUBSET HeldResumes, AuthorityInterrupts(t, R)
         PROVE  CloseInv'
    BY <1>11 DEF AuthorityInterrupts, TaskTypeOK, CloseInv, PhaseInv, ConfirmedInterrupt,
                 AmbiguityStaysOpen
  <1>12. ASSUME NEW t \in Turn, NEW D \in SUBSET OpenSenders, AuthorityStopsWaiting(t, D)
         PROVE  CloseInv'
    BY <1>12 DEF AuthorityStopsWaiting, Stale, TaskTypeOK, CloseInv, PhaseInv,
                 ConfirmedInterrupt, AmbiguityStaysOpen
  <1>13. ASSUME NEW t \in Turn, stage[t] # "none" PROVE pc[t] \in FlowPhase
    BY <1>13 DEF WireInv, HandlerInv
  <1>14. ASSUME NEW t \in Turn, InCall(t) \/ InWait(t) PROVE pc[t] \in FlowPhase
    BY <1>14 DEF InCall, InWait, FlowPhase
  <1>15. ASSUME NEW t \in Turn, LocalStep(t) PROVE CloseInv'
    <2>1. ASSUME WriteCall(t) \/ Resumed(t) PROVE CloseInv'
      BY <2>1, <1>10 DEF WriteCall, Resumed
    <2>2. ASSUME CallFails(t) PROVE CloseInv'
      BY <2>2, <1>8, <1>14 DEF CallFails
    <2>3. ASSUME FlowDeadline(t) PROVE CloseInv'
      BY <2>3, <1>8 DEF FlowDeadline, FlowPhase
    <2>4. ASSUME CancelTimesOut(t) PROVE CloseInv'
      BY <2>4, <1>8 DEF CancelTimesOut, FlowPhase
    <2>5. ASSUME Conclude(t) PROVE CloseInv'
      BY <2>5, <1>8, <1>10, <1>13 DEF Conclude
    <2>6. ASSUME Respond(t) PROVE CloseInv'
      <3>1. CASE child[t] = "up"
        BY <2>6, <3>1, <1>10 DEF Respond
      <3>2. CASE child[t] # "up"
        BY <2>6, <3>2, <1>8, <1>13 DEF Respond
      <3> QED BY <3>1, <3>2
    <2> QED BY <1>1, <1>2, <1>3, <1>4, <1>5, <1>6, <1>15, <2>1, <2>2, <2>3, <2>4, <2>5, <2>6
            DEF LocalStep
  <1>16. ASSUME NEW t \in Turn, ChildStep(t) PROVE CloseInv'
    <2>1. ASSUME Reply(t) PROVE CloseInv'
      <3>1. CASE EndFlow(t, "error")
        BY <2>1, <3>1, <1>8, <1>14 DEF Reply
      <3>2. CASE pc' = [pc EXCEPT ![t] = PhaseAfter[pc[t]]] /\ UNCHANGED outcome
        <4>1. pc[t] \in FlowPhase /\ PhaseAfter[pc[t]] \in FlowPhase
          BY <2>1 DEF Reply, InCall, PhaseAfter, FlowPhase
        <4> QED BY <2>1, <3>2, <4>1, <1>9 DEF Reply
      <3> QED BY <2>1, <3>1, <3>2 DEF Reply
    <2>2. ASSUME WaitFails(t) PROVE CloseInv'
      BY <2>2, <1>8, <1>14 DEF WaitFails
    <2>3. ASSUME NEW status \in Success, TurnCompletes(t, status) PROVE CloseInv'
      BY <2>3, <1>8, <1>14 DEF TurnCompletes
    <2>4. ASSUME NEW r \in Request, TurnOf[r] = t, ReadRequest(r) PROVE CloseInv'
      <3>1. pc[t] \in FlowPhase
        BY <2>4, <1>14 DEF ReadRequest, Reading
      <3> QED BY <2>4, <3>1, <1>8, <1>10 DEF ReadRequest
    <2> QED BY <1>7, <1>16, <2>1, <2>2, <2>3, <2>4 DEF ChildStep
  <1>17. ASSUME AuthorityStep PROVE CloseInv'
    <2>1. ASSUME NEW r \in Request, NEW d \in Sent, NEW hold \in BOOLEAN,
                 AuthorityDecides(r, d, hold)
          PROVE  CloseInv'
      BY <2>1, <1>10 DEF AuthorityDecides
    <2>2. ASSUME NEW D \in SUBSET OpenSenders, NEW R \in SUBSET HeldResumes,
                 AuthorityLetsGo(D, R)
          PROVE  CloseInv'
      BY <2>2, <1>10 DEF AuthorityLetsGo
    <2> QED BY <1>6, <1>11, <1>12, <1>17, <2>1, <2>2 DEF AuthorityStep
  <1>18. ASSUME NEW t \in Turn, Offer(t) PROVE CloseInv'
    BY <1>18, <1>10 DEF Offer
  <1>19. CASE UNCHANGED taskVars
    BY <1>19, <1>10 DEF taskVars
  <1>20. CASE TaskNext
    BY <1>20, <1>6, <1>15, <1>16, <1>17, <1>18 DEF TaskNext
  <1> QED BY <1>19, <1>20

\* An execution neither starts by itself nor leaves its epilogue.
Moves(t) ==
    /\ pc[t] = "absent" => pc'[t] = "absent"
    /\ pc[t] \in Over => pc'[t] \in Over
    /\ pc[t] \in {"drop", "done"} => pc'[t] \in {"drop", "done"}

LEMMA ExecutionMoves ==
    ASSUME TaskTypeOK, WireInv, NEW t \in Turn, NEW u \in Turn,
           LocalStep(u) \/ ChildStep(u) \/ Offer(u) \/ Finish(u)
    PROVE  Moves(t)
  <1> USE DEF flowVars, handlerVars, controlVars, approvalVars, journalVars
  <1>1. ASSUME pc'[t] = pc[t] PROVE Moves(t)
    BY <1>1 DEF Moves
  <1>2. ASSUME NEW q, pc' = [pc EXCEPT ![u] = q],
               pc[u] \in FlowPhase \cup {"launch", "settle", "reap", "report"}
        PROVE  Moves(t)
    BY <1>2 DEF Moves, FlowPhase, Over, TaskTypeOK
  <1>3. ASSUME pc[u] \in FlowPhase, NEW o, EndFlow(u, o) PROVE Moves(t)
    BY <1>2, <1>3 DEF EndFlow
  <1>4. ASSUME UNCHANGED pc PROVE Moves(t)
    BY <1>1, <1>4
  <1>5. stage[u] # "none" => pc[u] \in FlowPhase
    BY DEF WireInv, HandlerInv
  <1>6. InCall(u) \/ InWait(u) => pc[u] \in FlowPhase
    BY DEF InCall, InWait, FlowPhase
  <1>7. ASSUME LocalStep(u) PROVE Moves(t)
    <2>1. ASSUME WriteCall(u) \/ Resumed(u) PROVE Moves(t)
      BY <2>1, <1>4 DEF WriteCall, Resumed
    <2>2. ASSUME CallFails(u) \/ FlowDeadline(u) \/ CancelTimesOut(u) PROVE Moves(t)
      <3>1. pc[u] \in FlowPhase
        BY <2>2, <1>6 DEF CallFails, FlowDeadline, CancelTimesOut, FlowPhase
      <3> QED BY <2>2, <3>1, <1>3 DEF CallFails, FlowDeadline, CancelTimesOut
    <2>3. ASSUME TakeControl(u) PROVE Moves(t)
      <3>1. pc[u] \in FlowPhase
        BY <2>3 DEF TakeControl, ControlPhase, FlowPhase
      <3>2. \E q : pc' = [pc EXCEPT ![u] = q]
        BY <2>3 DEF TakeControl, EndFlow
      <3> QED BY <3>1, <3>2, <1>2
    <2>4. ASSUME Launch(u) \/ Settle(u) \/ Reap(u) \/ Report(u) PROVE Moves(t)
      <3>1. /\ pc[u] \in {"launch", "settle", "reap", "report"}
            /\ \E q : pc' = [pc EXCEPT ![u] = q]
        BY <2>4 DEF Launch, Settle, Reap, Report
      <3> QED BY <3>1, <1>2
    <2>5. ASSUME DropControls(u) PROVE Moves(t)
      BY <2>5 DEF DropControls, Moves, Over, TaskTypeOK
    <2>6. ASSUME Conclude(u) PROVE Moves(t)
      BY <2>6, <1>3, <1>4, <1>5 DEF Conclude
    <2>7. ASSUME Respond(u) PROVE Moves(t)
      <3>1. pc[u] \in FlowPhase
        BY <2>7, <1>5 DEF Respond
      <3> QED BY <2>7, <3>1, <1>3, <1>4 DEF Respond
    <2> QED BY <1>7, <2>1, <2>2, <2>3, <2>4, <2>5, <2>6, <2>7 DEF LocalStep
  <1>8. ASSUME ChildStep(u) PROVE Moves(t)
    <2>1. ASSUME Reply(u) PROVE Moves(t)
      BY <2>1, <1>2, <1>3, <1>6 DEF Reply
    <2>2. ASSUME WaitFails(u) PROVE Moves(t)
      BY <2>2, <1>3, <1>6 DEF WaitFails
    <2>3. ASSUME ChildExits(u) PROVE Moves(t)
      BY <2>3, <1>4 DEF ChildExits
    <2>4. ASSUME NEW status \in Success, TurnCompletes(u, status) PROVE Moves(t)
      BY <2>4, <1>3, <1>6 DEF TurnCompletes
    <2>5. ASSUME NEW r \in Request, TurnOf[r] = u, ReadRequest(r) PROVE Moves(t)
      <3>1. pc[u] \in FlowPhase
        BY <2>5, <1>6 DEF ReadRequest, Reading
      <3> QED BY <2>5, <3>1, <1>3, <1>4 DEF ReadRequest
    <2> QED BY <1>8, <2>1, <2>2, <2>3, <2>4, <2>5 DEF ChildStep
  <1>9. ASSUME Finish(u) PROVE Moves(t)
    BY <1>9 DEF Finish, Moves, Over, TaskTypeOK
  <1>10. ASSUME Offer(u) PROVE Moves(t)
    BY <1>10, <1>4 DEF Offer
  <1> QED BY <1>7, <1>8, <1>9, <1>10

LEMMA CloseAlways == TaskSpec => []CloseInv
  <1>1. TaskInit => CloseInv
    BY DEF TaskInit, CloseInv, PhaseInv, ConfirmedInterrupt, AmbiguityStaysOpen, FlowPhase, Over
  <1>2. TaskTypeOK /\ WireInv /\ CloseInv /\ [TaskNext]_taskVars => CloseInv'
    BY CloseStep
  <1> QED BY <1>1, <1>2, WireAlways, PTL DEF TaskSpec

\* An interrupt acknowledged as Interrupted has its child reaped and its execution
\* durable as Interrupted.
THEOREM InterruptsAreConfirmed == TaskSpec => []ConfirmedInterrupt
  BY CloseAlways, PTL DEF CloseInv

\* An ambiguous outcome is never closed in the journal.
THEOREM AmbiguityIsRecoverable == TaskSpec => []AmbiguityStaysOpen
  BY CloseAlways, PTL DEF CloseInv

-------------------------------------------------------------------------------
(* One grant for each key. *)

Handled(r) == wire[r] = "allow" \/ hreq[TurnOf[r]] = r

\* The key of a request that was granted or is being handled has been recorded, and
\* no other request of the execution with that key is or was handled.
KeyInv ==
    /\ \A r \in Request : Handled(r) => KeyOf[r] \in seen[TurnOf[r]]
    /\ \A r, q \in Request :
          /\ r # q /\ TurnOf[r] = TurnOf[q] /\ KeyOf[r] = KeyOf[q]
          => ~(Handled(r) /\ Handled(q))

\* A step that starts no handler.
NothingStarts ==
    /\ UNCHANGED seen
    /\ \A t \in Turn : hreq'[t] \in {hreq[t], NoRequest}
    /\ \A r \in Request : wire'[r] = "allow" => Handled(r)

LEMMA NothingStartsKeys == ASSUME KeyInv, NothingStarts PROVE KeyInv'
  <1>1. \A r \in Request : Handled(r)' => Handled(r)
    BY TaskAssumption DEF TaskAssumption, NothingStarts, Handled
  <1> QED BY <1>1 DEF KeyInv, NothingStarts

LEMMA ReadRequestKeys ==
    ASSUME TaskTypeOK, KeyInv, NEW r \in Request, ReadRequest(r)
    PROVE  KeyInv'
  <1> DEFINE t == TurnOf[r]
  <1>1. t \in Turn
    BY TaskAssumption DEF TaskAssumption
  <1>2. wire[r] = "quiet" /\ \E w \in {"deny", "asked"} : wire' = [wire EXCEPT ![r] = w]
    BY DEF ReadRequest
  <1>3. \A q \in Request : wire'[q] = "allow" <=> wire[q] = "allow"
    BY <1>2 DEF TaskTypeOK
  <1>4. \A u \in Turn : seen[u] \subseteq seen'[u]
    BY <1>1 DEF ReadRequest, TaskTypeOK
  <1>5. ASSUME EndFlow(t, "error") PROVE KeyInv'
    <2>1. \A q \in Request : Handled(q)' => Handled(q)
      BY <1>1, <1>3, <1>5, TaskAssumption
      DEF TaskAssumption, EndFlow, AbandonHandler, Handled, TaskTypeOK
    <2>2. \A q \in Request : Handled(q)' => KeyOf[q] \in seen'[TurnOf[q]]
      BY <1>4, <2>1, TaskAssumption DEF TaskAssumption, KeyInv
    <2> QED BY <2>1, <2>2 DEF KeyInv
  <1>6. ASSUME KeyOf[r] \notin seen[t], ~(Cardinality(seen[t]) >= SeenCap),
               hreq' = [hreq EXCEPT ![t] = r]
        PROVE  KeyInv'
    <2>1. seen' = [seen EXCEPT ![t] = seen[t] \cup {KeyOf[r]}]
      BY <1>6 DEF ReadRequest, Full
    <2>2. \A q \in Request : Handled(q)' => q = r \/ Handled(q)
      BY <1>1, <1>3, <1>6, TaskAssumption DEF TaskAssumption, Handled, TaskTypeOK
    <2>3. KeyOf[r] \in seen'[t]
      BY <1>1, <2>1 DEF TaskTypeOK
    <2>4. \A q \in Request : Handled(q)' => KeyOf[q] \in seen'[TurnOf[q]]
      BY <1>4, <2>2, <2>3, TaskAssumption DEF TaskAssumption, KeyInv
    <2>5. \A q \in Request : TurnOf[q] = t /\ KeyOf[q] = KeyOf[r] => ~Handled(q)
      BY <1>6 DEF KeyInv
    <2> QED BY <2>2, <2>4, <2>5 DEF KeyInv
  <1> QED BY <1>5, <1>6 DEF ReadRequest, Known, Full

LEMMA KeyStep == ASSUME TaskTypeOK, WireInv, KeyInv, [TaskNext]_taskVars PROVE KeyInv'
  <1> USE DEF flowVars, handlerVars, controlVars, approvalVars, journalVars
  <1>1. ASSUME UNCHANGED <<seen, hreq, wire>> PROVE KeyInv'
    BY <1>1, NothingStartsKeys DEF NothingStarts, Handled
  <1>2. ASSUME NEW t \in Turn, AbandonHandler(t), UNCHANGED <<seen, wire>> PROVE KeyInv'
    BY <1>2, NothingStartsKeys DEF NothingStarts, AbandonHandler, Handled, TaskTypeOK
  <1>3. ASSUME NEW t \in Turn, NEW o, EndFlow(t, o), UNCHANGED <<seen, wire>> PROVE KeyInv'
    BY <1>2, <1>3 DEF EndFlow
  <1>4. ASSUME NEW t \in Turn, LocalStep(t) PROVE KeyInv'
    <2>1. ASSUME \/ Launch(t) \/ WriteCall(t) \/ Settle(t) \/ Reap(t) \/ Report(t)
                 \/ DropControls(t)
          PROVE  KeyInv'
      BY <2>1, <1>1 DEF Launch, WriteCall, Settle, Reap, Report, DropControls
    <2>2. ASSUME CallFails(t) \/ FlowDeadline(t) \/ CancelTimesOut(t) PROVE KeyInv'
      BY <2>2, <1>3 DEF CallFails, FlowDeadline, CancelTimesOut
    <2>3. ASSUME TakeControl(t) PROVE KeyInv'
      <3>1. AbandonHandler(t) /\ UNCHANGED <<seen, wire>>
        BY <2>3 DEF TakeControl, EndFlow
      <3> QED BY <3>1, <1>2
    <2>4. ASSUME Conclude(t) PROVE KeyInv'
      BY <2>4, <1>1, <1>3 DEF Conclude
    <2>5. ASSUME Respond(t) PROVE KeyInv'
      <3>1. CASE child[t] = "up"
        <4>1. hreq[t] \in Request /\ TurnOf[hreq[t]] = t
          BY <2>5 DEF Respond, WireInv, HandlerInv, Answering, TaskTypeOK
        <4>2. /\ UNCHANGED seen
              /\ \A u \in Turn : hreq'[u] \in {hreq[u], NoRequest}
              /\ \A r \in Request : r # hreq[t] => wire'[r] = wire[r]
          BY <2>5, <3>1 DEF Respond, TaskTypeOK
        <4> QED BY <4>1, <4>2, NothingStartsKeys DEF NothingStarts, Handled
      <3>2. CASE child[t] # "up"
        BY <2>5, <3>2, <1>3 DEF Respond
      <3> QED BY <3>1, <3>2
    <2>6. ASSUME Resumed(t) PROVE KeyInv'
      BY <2>6, NothingStartsKeys DEF Resumed, NothingStarts, Handled, TaskTypeOK
    <2> QED BY <1>4, <2>1, <2>2, <2>3, <2>4, <2>5, <2>6 DEF LocalStep
  <1>5. ASSUME NEW t \in Turn, ChildStep(t) PROVE KeyInv'
    <2>1. ASSUME Reply(t) PROVE KeyInv'
      BY <2>1, <1>1, <1>3 DEF Reply
    <2>2. ASSUME WaitFails(t) \/ ChildExits(t) PROVE KeyInv'
      BY <2>2, <1>1, <1>3 DEF WaitFails, ChildExits
    <2>3. ASSUME NEW status \in Success, TurnCompletes(t, status) PROVE KeyInv'
      BY <2>3, <1>3 DEF TurnCompletes
    <2> QED BY <1>5, <2>1, <2>2, <2>3, ReadRequestKeys DEF ChildStep
  <1>6. ASSUME AuthorityStep \/ \E t \in Turn : Offer(t) \/ Finish(t) PROVE KeyInv'
    BY <1>6, <1>1 DEF AuthorityStep, AuthorityStarts, AuthorityDecides, AuthorityLetsGo,
                      AuthorityInterrupts, AuthorityStopsWaiting, Offer, Finish
  <1>7. CASE UNCHANGED taskVars
    BY <1>7, <1>1 DEF taskVars
  <1>8. CASE TaskNext
    BY <1>8, <1>4, <1>5, <1>6 DEF TaskNext
  <1> QED BY <1>7, <1>8

\* However the requests of an execution arrive, in a call or while the turn is
\* awaited, at most one request of each key is granted, whatever SeenCap is.
THEOREM KeysAreGrantedOnce == TaskSpec => []OneGrantPerKey
  <1>1. TaskInit => KeyInv
    BY TaskAssumption DEF TaskAssumption, TaskInit, KeyInv, Handled
  <1>2. TaskTypeOK /\ WireInv /\ KeyInv /\ [TaskNext]_taskVars => KeyInv'
    BY KeyStep
  <1>3. KeyInv => OneGrantPerKey
    BY DEF KeyInv, OneGrantPerKey, Handled
  <1> QED BY <1>1, <1>2, <1>3, WireAlways, PTL DEF TaskSpec
===============================================================================
