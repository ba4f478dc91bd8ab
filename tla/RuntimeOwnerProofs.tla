-------------------------- MODULE RuntimeOwnerProofs --------------------------
(***************************************************************************)
(* Proofs about RuntimeOwner: the owner uses an execution only as TurnTask   *)
(* lets an authority use it, so that what is proved of TurnTask holds of    *)
(* the server; its admission counter and terminal statuses are right, and   *)
(* true of the journal; a terminal turn leaves no approval open; and an     *)
(* approval is granted if and only if a client approved it, whatever        *)
(* commands wait in the queue.                                              *)
(***************************************************************************)
EXTENDS RuntimeOwner, TurnTaskProofs, SequenceTheorems

AllTaskVars == <<pc, written, outcome, sess, child, seen, hreq, stage, ctl, held, ack, wire,
                 dec, dack, resume, jexec, jappr>>

LEMMA SameTask == UNCHANGED taskVars <=> UNCHANGED AllTaskVars
  BY DEF taskVars, AllTaskVars, flowVars, handlerVars, controlVars, approvalVars, journalVars

(* The owner's steps are the authority's. *)

\* What the owner awaits, it awaits of a turn or of a request.
Busy ==
    /\ opc \in {"claim", "deliver", "ack"} => oturn \in Turn
    /\ opc \in {"decide", "deny", "deliver"} => ocur \in Request

LEMMA HeadType ==
    ASSUME OwnerTypeOK, NEW ops, Receive(ops)
    PROVE  Head(queue) \in Command /\ Head(queue).op \in ops /\ queue' \in Seq(Command)
  BY HeadTailProperties DEF OwnerTypeOK, Receive

LEMMA CommandTypes ==
    ASSUME NEW c \in Command
    PROVE  /\ c.turn \in Turn \cup {NoTurn} /\ c.req \in Request \cup {NoRequest}
           /\ c.op \in Cancels \cup {"subscribe", "finished"} => c.turn \in Turn
           /\ c.op \in {"approval_timeout", "pending", "approve", "deny"} => c.req \in Request
  BY DEF Command, Cancels

LEMMA OwnerStepIsTask ==
    ASSUME OwnerTypeOK, Busy, OwnerStep
    PROVE  AuthorityStep \/ UNCHANGED taskVars
  <1> USE DEF AuthorityStep
  <1>1. CASE ReceiveBootstrap \/ ReceiveRead \/ Subscribe \/ Cancel \/ DecideReturns \/ DenyReturns
    BY <1>1 DEF ReceiveBootstrap, ReceiveRead, Subscribe, Cancel, DecideReturns, DenyReturns
  <1>2. CASE CreateTurn
    BY <1>2 DEF CreateTurn
  <1>3. CASE Decide
    <2>1. Head(queue).req \in Request
      BY <1>3, HeadType, CommandTypes DEF Decide
    <2> QED BY <1>3, <2>1 DEF Decide, Sent
  <1>4. CASE RegisterPending
    <2>1. Head(queue).req \in Request
      BY <1>4, HeadType, CommandTypes DEF RegisterPending
    <2> QED BY <1>4, <2>1 DEF RegisterPending, Sent
  <1>5. CASE Finished
    <2>1. Orphaned(Head(queue).turn) \in SUBSET OpenSenders /\ {} \in SUBSET HeldResumes
      BY DEF Orphaned
    <2> QED BY <1>5, <2>1 DEF Finished
  <1>6. ASSUME NEW r, FailCancel(r) PROVE AuthorityStep
    BY <1>6 DEF FailCancel
  <1>7. CASE DeliverCancel
    <2>1. oset \subseteq Request /\ CancelDecision \in Sent
      BY DEF OwnerTypeOK, CancelDecision, Sent
    <2> QED BY <1>6, <1>7, <2>1 DEF DeliverCancel
  <1>8. CASE DeliverCancelReturns
    BY <1>6, <1>8 DEF DeliverCancelReturns
  <1>9. CASE SendInterrupt
    <2>1. oturn \in Turn /\ HeldResumes \in SUBSET HeldResumes
      BY <1>9 DEF SendInterrupt, Busy
    <2>2. Orphaned(oturn) \in SUBSET OpenSenders
      BY DEF Orphaned
    <2> QED BY <1>9, <2>1, <2>2 DEF SendInterrupt
  <1>10. CASE HearAck \/ AckTimesOut
    <2>1. oturn \in Turn /\ Orphaned(oturn) \in SUBSET OpenSenders /\ {} \in SUBSET OpenSenders
      BY <1>10 DEF HearAck, AckTimesOut, Busy, Orphaned
    <2> QED BY <1>10, <2>1 DEF HearAck, AckTimesOut
  <1> QED BY <1>1, <1>2, <1>3, <1>4, <1>5, <1>7, <1>8, <1>9, <1>10 DEF OwnerStep

LEMMA NextIsTask == ASSUME OwnerTypeOK, Busy, [Next]_vars PROVE [TaskNext]_taskVars
  <1>1. CASE UNCHANGED vars
    BY <1>1 DEF vars
  <1>2. CASE OwnerStep
    BY <1>2, OwnerStepIsTask DEF TaskNext
  <1>3. ASSUME NEW t \in Turn, TaskStep(t) \/ ServerStep(t) PROVE TaskNext \/ UNCHANGED taskVars
    BY <1>3 DEF TaskStep, TaskRuns, OfferPending, Forward, SendFinished, ServerStep, TaskNext
  <1>4. ASSUME NEW t \in Turn, TurnTimerFires(t) \/ SseSubscribes(t) \/ SseStops(t) \/ SendDrop(t)
        PROVE  UNCHANGED taskVars
    BY <1>4 DEF TurnTimerFires, SseSubscribes, SseStops, SendDrop
  <1>5. ASSUME SendBootstrap \/ HttpCall \/ \E r \in Request : ApprovalTimerFires(r)
        PROVE  UNCHANGED taskVars
    BY <1>5 DEF SendBootstrap, HttpCall, ApprovalTimerFires
  <1> QED BY <1>1, <1>2, <1>3, <1>4, <1>5 DEF Next

-------------------------------------------------------------------------------
(* Type correctness. *)

LEMMA EnqueueType ==
    ASSUME OwnerTypeOK, NEW op, NEW t, NEW r, Enqueue(op, t, r),
           [op |-> op, turn |-> t, req |-> r] \in Command
    PROVE  queue' \in Seq(Command)
  BY AppendProperties DEF OwnerTypeOK, Enqueue

LEMMA TerminalizeType ==
    ASSUME OwnerTypeOK, NEW t \in Turn, NEW s \in Terminal, Terminalize(t, s)
    PROVE  /\ status' \in [Turn -> {"none", "pruned"} \cup Active \cup Terminal]
           /\ active' \in Nat
           /\ appr' \in [Request -> {"none", "pending", "delivering", "approved", "denied", "gone"}]
  <1>1. CASE status[t] \in Active
    <2>1. active' \in Nat
      BY <1>1 DEF Terminalize, Open, OwnerTypeOK
    <2> QED BY <1>1, <2>1 DEF Terminalize, Open, OwnerTypeOK
  <1>2. CASE status[t] \notin Active
    BY <1>2 DEF Terminalize, Open, OwnerTypeOK
  <1> QED BY <1>1, <1>2

LEMMA EndCancelType ==
    ASSUME OwnerTypeOK, Busy, EndCancel
    PROVE  /\ opc' = "recv" /\ ocur' = NoRequest /\ oturn' = NoTurn /\ oauth' = "none"
           /\ oset' = {} /\ lease' \in [Turn -> BOOLEAN]
  BY DEF EndCancel, OwnerTypeOK

LEMMA OwnerStepType ==
    ASSUME OwnerTypeOK, Busy, OwnerStep
    PROVE  OwnerTypeOK' /\ Busy'
  <1> USE DEF recordVars, cancelVars, handleVars, clientVars
  <1>1. CASE ReceiveBootstrap \/ ReceiveRead
    BY <1>1, HeadType DEF ReceiveBootstrap, ReceiveRead, OwnerTypeOK, Busy
  <1>2. CASE CreateTurn
    <2>1. queue' \in Seq(Command)
      BY <1>2, HeadType DEF CreateTurn
    <2>2. CASE ready /\ active = 0
      <3>1. PICK t \in Turn :
              /\ status' = [u \in Turn |-> IF u = t THEN "running"
                              ELSE IF Pruned(u) THEN "pruned" ELSE status[u]]
              /\ appr' = [r \in Request |->
                            IF Pruned(TurnOf[r]) /\ appr[r] \notin {"none", "pending"}
                              THEN "gone" ELSE appr[r]]
              /\ active' = active + 1
              /\ turnTimer' = [turnTimer EXCEPT ![t] = TRUE]
        BY <1>2, <2>2 DEF CreateTurn
      <3>2. /\ status' \in [Turn -> {"none", "pruned"} \cup Active \cup Terminal]
            /\ active' \in Nat
            /\ turnTimer' \in [Turn -> BOOLEAN]
        BY <3>1 DEF OwnerTypeOK, Active
      <3>3. appr' \in [Request -> {"none", "pending", "delivering", "approved", "denied", "gone"}]
        BY <3>1 DEF OwnerTypeOK
      <3> QED BY <1>2, <2>1, <3>2, <3>3 DEF CreateTurn, OwnerTypeOK, Busy
    <2>3. CASE ~(ready /\ active = 0)
      BY <1>2, <2>1, <2>3 DEF CreateTurn, OwnerTypeOK, Busy
    <2> QED BY <2>2, <2>3
  <1>3. CASE Subscribe
    <2>1. queue' \in Seq(Command) /\ Head(queue).turn \in Turn
      BY <1>3, HeadType, CommandTypes DEF Subscribe
    <2> QED BY <1>3, <2>1 DEF Subscribe, OwnerTypeOK, Busy
  <1>4. CASE Decide
    <2>1. queue' \in Seq(Command) /\ Head(queue).req \in Request
      BY <1>4, HeadType, CommandTypes DEF Decide
    <2>2. opc = "recv"
      BY <1>4 DEF Decide, Receive
    <2> QED BY <1>4, <2>1, <2>2 DEF Decide, OwnerTypeOK, Busy
  <1>5. CASE DecideReturns \/ DenyReturns
    BY <1>5 DEF DecideReturns, DenyReturns, Decided, OwnerTypeOK, Busy
  <1>6. CASE RegisterPending
    <2>1. queue' \in Seq(Command) /\ Head(queue).req \in Request
      BY <1>6, HeadType, CommandTypes DEF RegisterPending
    <2>2. opc = "recv"
      BY <1>6 DEF RegisterPending, Receive
    <2> QED BY <1>6, <2>1, <2>2 DEF RegisterPending, OwnerTypeOK, Busy, Active
  <1>7. CASE Finished
    <2>1. queue' \in Seq(Command) /\ Head(queue).turn \in Turn
      BY <1>7, HeadType, CommandTypes DEF Finished
    <2>2. FinalStatus(outcome[Head(queue).turn]) \in Terminal
      BY DEF FinalStatus, Success, Terminal
    <2>3. /\ status' \in [Turn -> {"none", "pruned"} \cup Active \cup Terminal]
          /\ active' \in Nat
          /\ appr' \in [Request -> {"none", "pending", "delivering", "approved", "denied", "gone"}]
      BY <1>7, <2>1, <2>2, TerminalizeType DEF Finished
    <2>4. ready' \in BOOLEAN
      BY <1>7 DEF Finished
    <2> QED BY <1>7, <2>1, <2>3, <2>4 DEF Finished, OwnerTypeOK, Busy
  <1>8. CASE Cancel
    <2> DEFINE c == Head(queue)
               claimed == {r \in Request : TurnOf[r] = c.turn /\ appr[r] = "pending"}
    <2>1. queue' \in Seq(Command) /\ c.turn \in Turn /\ c.op \in Cancels
      BY <1>8, HeadType, CommandTypes DEF Cancel
    <2>2. opc = "recv"
      BY <1>8 DEF Cancel, Receive
    <2>3. CASE /\ lease' = [lease EXCEPT ![c.turn] = @ /\ c.op # "drop"]
               /\ UNCHANGED <<appr, opc, cancelVars>>
      BY <1>8, <2>1, <2>2, <2>3 DEF Cancel, OwnerTypeOK, Busy
    <2>4. CASE /\ appr' = [r \in Request |-> IF r \in claimed THEN "delivering" ELSE appr[r]]
               /\ opc' = "claim"
               /\ oturn' = c.turn /\ oauth' = c.op /\ oset' = claimed
               /\ UNCHANGED lease
      BY <1>8, <2>1, <2>4 DEF Cancel, OwnerTypeOK, Busy
    <2> QED BY <1>8, <2>3, <2>4 DEF Cancel
  <1>9. ASSUME NEW r \in Request, FailCancel(r) PROVE OwnerTypeOK' /\ Busy'
    BY <1>9, EndCancelType DEF FailCancel, OwnerTypeOK, Busy
  <1>10. CASE DeliverCancel
    <2>1. PICK r \in oset :
            \/ /\ opc' = "deliver" /\ ocur' = r /\ oset' = oset \ {r}
               /\ UNCHANGED <<queue, recordVars, oturn, oauth, pend, clientVars>>
            \/ FailCancel(r)
      BY <1>10 DEF DeliverCancel
    <2>2. r \in Request /\ opc = "claim"
      BY <1>10 DEF DeliverCancel, OwnerTypeOK
    <2> QED BY <1>9, <2>1, <2>2 DEF OwnerTypeOK, Busy
  <1>11. CASE DeliverCancelReturns
    <2>1. opc = "deliver"
      BY <1>11 DEF DeliverCancelReturns
    <2>2. ocur \in Request
      BY <2>1 DEF Busy
    <2> QED BY <1>9, <1>11, <2>1, <2>2 DEF DeliverCancelReturns, OwnerTypeOK, Busy
  <1>12. CASE SendInterrupt
    <2>1. opc = "claim" /\ oturn \in Turn /\ "failed" \in Terminal
      BY <1>12 DEF SendInterrupt, Busy, Terminal
    <2>2. CASE opc' = "ack" /\ UNCHANGED <<queue, recordVars, cancelVars, ocur, pend, clientVars>>
      BY <2>1, <2>2 DEF OwnerTypeOK, Busy
    <2>3. CASE /\ Terminalize(oturn, "failed") /\ EndCancel
               /\ UNCHANGED <<queue, ready, pend, clientVars>>
      BY <2>1, <2>3, TerminalizeType, EndCancelType DEF OwnerTypeOK, Busy
    <2> QED BY <1>12, <2>2, <2>3 DEF SendInterrupt
  <1>13. CASE HearAck
    <2>1. oturn \in Turn /\ StatusAfterAck \in Terminal
      BY <1>13 DEF HearAck, Busy, StatusAfterAck, CancelStatus, Terminal
    <2> QED BY <1>13, <2>1, TerminalizeType, EndCancelType DEF HearAck, OwnerTypeOK, Busy
  <1>14. CASE AckTimesOut
    BY <1>14, EndCancelType DEF AckTimesOut, OwnerTypeOK, Busy
  <1> QED BY <1>1, <1>2, <1>3, <1>4, <1>5, <1>6, <1>7, <1>8, <1>10, <1>11, <1>12, <1>13,
             <1>14 DEF OwnerStep

LEMMA SenderType ==
    ASSUME TaskTypeOK, WireInv, OwnerTypeOK, Busy, Next, ~OwnerStep
    PROVE  OwnerTypeOK' /\ Busy'
  <1> USE DEF recordVars, cancelVars, handleVars, clientVars
  <1>1. ASSUME NEW t \in Turn, TaskRuns(t) \/ ServerStep(t) PROVE OwnerTypeOK' /\ Busy'
    BY <1>1 DEF TaskRuns, ServerStep, ownerVars, OwnerTypeOK, Busy
  <1>2. ASSUME NEW t \in Turn, OfferPending(t) PROVE OwnerTypeOK' /\ Busy'
    <2>1. hreq[t] \in Request
      BY <1>2 DEF OfferPending, Offer, WireInv, HandlerInv, TaskTypeOK
    <2>2. pend' \in [Turn -> Seq(Request)]
      BY <1>2, <2>1, AppendProperties DEF OfferPending, OwnerTypeOK
    <2> QED BY <1>2, <2>2 DEF OfferPending, OwnerTypeOK, Busy
  <1>3. ASSUME NEW t \in Turn, Forward(t) PROVE OwnerTypeOK' /\ Busy'
    <2>1. Head(pend[t]) \in Request /\ Tail(pend[t]) \in Seq(Request)
      BY <1>3, HeadTailProperties DEF Forward, OwnerTypeOK
    <2>2. queue' \in Seq(Command)
      BY <1>3, <2>1, EnqueueType DEF Forward, Command
    <2>3. pend' \in [Turn -> Seq(Request)]
      BY <1>3, <2>1 DEF Forward, OwnerTypeOK
    <2> QED BY <1>3, <2>2, <2>3 DEF Forward, OwnerTypeOK, Busy
  <1>4. ASSUME NEW t \in Turn, SendFinished(t) PROVE OwnerTypeOK' /\ Busy'
    <2>1. queue' \in Seq(Command)
      BY <1>4, EnqueueType DEF SendFinished, Command
    <2> QED BY <1>4, <2>1 DEF SendFinished, OwnerTypeOK, Busy
  <1>5. ASSUME NEW t \in Turn, TurnTimerFires(t) PROVE OwnerTypeOK' /\ Busy'
    <2>1. queue' \in Seq(Command)
      BY <1>5, EnqueueType DEF TurnTimerFires, Command
    <2> QED BY <1>5, <2>1 DEF TurnTimerFires, OwnerTypeOK, Busy
  <1>6. ASSUME NEW r \in Request, ApprovalTimerFires(r) PROVE OwnerTypeOK' /\ Busy'
    <2>1. queue' \in Seq(Command)
      BY <1>6, EnqueueType, TaskAssumption DEF TaskAssumption, ApprovalTimerFires, Command
    <2> QED BY <1>6, <2>1 DEF ApprovalTimerFires, OwnerTypeOK, Busy
  <1>7. ASSUME SendBootstrap PROVE OwnerTypeOK' /\ Busy'
    <2>1. queue' \in Seq(Command)
      BY <1>7, EnqueueType DEF SendBootstrap, Command
    <2> QED BY <1>7, <2>1 DEF SendBootstrap, OwnerTypeOK, Busy
  <1>8. ASSUME HttpCall PROVE OwnerTypeOK' /\ Busy'
    <2>1. queue' \in Seq(Command)
      BY <1>8, EnqueueType DEF HttpCall, Command, Unused
    <2>2. calls' \in 0 .. MaxCalls
      BY <1>8, OwnerAssumption DEF OwnerAssumption, HttpCall, OwnerTypeOK
    <2> QED BY <1>8, <2>1, <2>2 DEF HttpCall, OwnerTypeOK, Busy
  <1>9. ASSUME NEW t \in Turn, SseSubscribes(t) PROVE OwnerTypeOK' /\ Busy'
    <2>1. queue' \in Seq(Command)
      BY <1>9, EnqueueType DEF SseSubscribes, Command
    <2>2. calls' \in 0 .. MaxCalls
      BY <1>9, OwnerAssumption DEF OwnerAssumption, SseSubscribes, OwnerTypeOK
    <2> QED BY <1>9, <2>1, <2>2 DEF SseSubscribes, OwnerTypeOK, Busy
  <1>10. ASSUME NEW t \in Turn, SseStops(t) PROVE OwnerTypeOK' /\ Busy'
    BY <1>10 DEF SseStops, OwnerTypeOK, Busy
  <1>11. ASSUME NEW t \in Turn, SendDrop(t) PROVE OwnerTypeOK' /\ Busy'
    <2>1. queue' \in Seq(Command)
      BY <1>11, EnqueueType DEF SendDrop, Command
    <2> QED BY <1>11, <2>1 DEF SendDrop, OwnerTypeOK, Busy
  <1> QED BY <1>1, <1>2, <1>3, <1>4, <1>5, <1>6, <1>7, <1>8, <1>9, <1>10, <1>11
          DEF Next, TaskStep

LEMMA OwnerTypeInit == ASSUME Init PROVE OwnerTypeOK /\ Busy
  <1>1. calls \in 0 .. MaxCalls
    BY OwnerAssumption DEF OwnerAssumption, Init
  <1>2. ready \in BOOLEAN
    BY OwnerAssumption DEF OwnerAssumption, Init
  <1>3. queue \in Seq(Command) /\ pend \in [Turn -> Seq(Request)]
    BY DEF Init
  <1> QED BY <1>1, <1>2, <1>3 DEF Init, OwnerTypeOK, Busy

\* What every state of the server satisfies of types, and of the wire.
OwnerInv == TaskTypeOK /\ WireInv /\ OwnerTypeOK /\ Busy

LEMMA OwnerInvStep == ASSUME OwnerInv, [Next]_vars PROVE OwnerInv'
  <1>1. TaskTypeOK' /\ WireInv'
    BY NextIsTask, TypeStep, WireStep DEF OwnerInv
  <1>2. OwnerTypeOK' /\ Busy'
    <2>1. CASE UNCHANGED vars
      BY <2>1 DEF vars, ownerVars, OwnerInv, OwnerTypeOK, Busy
    <2>2. CASE Next
      BY <2>2, OwnerStepType, SenderType DEF OwnerInv
    <2> QED BY <2>1, <2>2
  <1> QED BY <1>1, <1>2 DEF OwnerInv

LEMMA OwnerInvAlways == Spec => []OwnerInv
  <1>1. Init => OwnerInv
    <2>1. ASSUME Init PROVE WireInv
      BY <2>1 DEF Init, TaskInit, WireInv, HandlerInv, GrantIsAuthorised, DeliveredIsAnswered,
                  Answering
    <2> QED BY <2>1, TypeInit, OwnerTypeInit DEF OwnerInv, Init
  <1>2. OwnerInv /\ [Next]_vars => OwnerInv'
    BY OwnerInvStep
  <1> QED BY <1>1, <1>2, PTL DEF Spec

\* The variables of the server keep their types.
THEOREM ServerTypeCorrect == Spec => []TypeOK
  <1>1. OwnerInv => TypeOK
    BY DEF OwnerInv, TypeOK
  <1> QED BY <1>1, OwnerInvAlways, PTL

\* The server runs every execution as TurnTask describes it: the owner, its timers
\* and its clients are one of the authorities TurnTask allows.
THEOREM ServerImplementsTask == Spec => TaskSpec
  <1>1. Init => TaskInit
    BY DEF Init
  <1>2. OwnerInv /\ [Next]_vars => [TaskNext]_taskVars
    BY NextIsTask DEF OwnerInv
  <1> QED BY <1>1, <1>2, OwnerInvAlways, PTL DEF Spec, TaskSpec

\* In the server too an Allow on the wire was sent by the owner for that request, was
\* reviewable and is durable; an acknowledged delivery is the response it asked for.
THEOREM ServerGrantsAreAuthorised == Spec => [](GrantIsAuthorised /\ DeliveredIsAnswered)
  BY ServerImplementsTask, GrantsAreAuthorised, DeliveriesAreAnswered, PTL

\* In the server too an interrupt the owner hears confirmed has reaped the app-server
\* and is in the journal, and an ambiguous outcome leaves its execution open there.
THEOREM ServerInterruptsAreConfirmed == Spec => [](ConfirmedInterrupt /\ AmbiguityStaysOpen)
  BY ServerImplementsTask, InterruptsAreConfirmed, AmbiguityIsRecoverable, PTL

-------------------------------------------------------------------------------
(* Admission and terminal statuses. *)

\* A turn has no record until it starts; it is terminal, its Finished command is
\* queued and its interrupt is answered only in the epilogue of its execution.
FinishedInv ==
    \A i \in 1 .. Len(queue) :
        queue[i].op = "finished" => pc[queue[i].turn] \in {"drop", "done"}

LifeInv ==
    /\ \A t \in Turn : status[t] = "none" => pc[t] = "absent"
    /\ \A t \in Turn : status[t] \notin Active \cup {"none"} => pc[t] \in Over
    /\ FinishedInv

\* The steps that touch the table of turns.
TableStep == CreateTurn \/ RegisterPending \/ Finished \/ SendInterrupt \/ HearAck

LEMMA OtherSteps ==
    ASSUME Next, ~TableStep
    PROVE  UNCHANGED <<status, active>>
  BY DEF Next, TableStep, OwnerStep, TaskStep, TaskRuns, OfferPending, Forward, SendFinished,
         ServerStep, TurnTimerFires, ApprovalTimerFires, SendBootstrap, HttpCall, SseSubscribes,
         SseStops, SendDrop, ReceiveBootstrap, ReceiveRead, Subscribe, Decide, DecideReturns,
         DenyReturns, Cancel, DeliverCancel, DeliverCancelReturns, FailCancel, AckTimesOut,
         recordVars, ownerVars

LEMMA TerminalizeCounted ==
    ASSUME OwnerTypeOK, ActiveTurnsCounted, NEW t \in Turn, NEW s \in Terminal, Terminalize(t, s)
    PROVE  ActiveTurnsCounted'
  <1>1. CASE status[t] \in Active
    <2>1. active = 1 /\ \A u \in Turn : status[u] \in Active <=> u = t
      BY <1>1 DEF ActiveTurnsCounted
    <2>2. active' = 0 /\ status' = [status EXCEPT ![t] = s]
      BY <1>1, <2>1 DEF Terminalize, Open
    <2>3. s \notin Active
      BY DEF Terminal, Active
    <2> QED BY <2>1, <2>2, <2>3 DEF ActiveTurnsCounted, OwnerTypeOK
  <1>2. CASE status[t] \notin Active
    BY <1>2 DEF Terminalize, Open, ActiveTurnsCounted
  <1> QED BY <1>1, <1>2

LEMMA CountedStep ==
    ASSUME OwnerInv, ActiveTurnsCounted, [Next]_vars
    PROVE  ActiveTurnsCounted'
  <1> USE DEF OwnerInv
  <1>1. ASSUME UNCHANGED <<status, active>> PROVE ActiveTurnsCounted'
    BY <1>1 DEF ActiveTurnsCounted
  <1>2. CASE CreateTurn
    <2>1. CASE ready /\ active = 0
      <3>1. PICK t \in Turn :
              /\ status' = [u \in Turn |-> IF u = t THEN "running"
                              ELSE IF Pruned(u) THEN "pruned" ELSE status[u]]
              /\ active' = active + 1
        BY <1>2, <2>1 DEF CreateTurn
      <3>2. \A u \in Turn : status[u] \notin Active
        BY <2>1 DEF ActiveTurnsCounted
      <3>3. \A u \in Turn : status'[u] \in Active <=> u = t
        BY <3>1, <3>2 DEF Active
      <3>4. active' = 1
        BY <2>1, <3>1
      <3> QED BY <3>3, <3>4 DEF ActiveTurnsCounted
    <2>2. CASE ~(ready /\ active = 0)
      BY <1>1, <1>2, <2>2 DEF CreateTurn
    <2> QED BY <2>1, <2>2
  <1>3. CASE RegisterPending
    <2>1. CASE UNCHANGED status
      BY <1>1, <1>3, <2>1 DEF RegisterPending
    <2>2. CASE status' # status
      <3>1. PICK r \in Request :
              /\ status[TurnOf[r]] \in Active
              /\ status' = [status EXCEPT ![TurnOf[r]] = "waiting"]
        <4>1. Head(queue).req \in Request
          BY <1>3, HeadType, CommandTypes DEF RegisterPending
        <4> QED BY <1>3, <2>2, <4>1 DEF RegisterPending, Refused, Open
      <3>2. \A u \in Turn : status'[u] \in Active <=> status[u] \in Active
        BY <3>1 DEF Active, OwnerTypeOK
      <3> QED BY <1>3, <3>2 DEF RegisterPending, ActiveTurnsCounted
    <2> QED BY <2>1, <2>2
  <1>4. CASE Finished
    <2>1. Head(queue).turn \in Turn
      BY <1>4, HeadType, CommandTypes DEF Finished
    <2>2. FinalStatus(outcome[Head(queue).turn]) \in Terminal
      BY DEF FinalStatus, Success, Terminal
    <2> QED BY <1>4, <2>1, <2>2, TerminalizeCounted DEF Finished
  <1>5. CASE SendInterrupt
    <2>1. oturn \in Turn /\ "failed" \in Terminal
      BY <1>5 DEF SendInterrupt, Busy, Terminal
    <2> QED BY <1>1, <1>5, <2>1, TerminalizeCounted DEF SendInterrupt, recordVars
  <1>6. CASE HearAck
    <2>1. oturn \in Turn /\ StatusAfterAck \in Terminal
      BY <1>6 DEF HearAck, Busy, StatusAfterAck, CancelStatus, Terminal
    <2> QED BY <1>6, <2>1, TerminalizeCounted DEF HearAck
  <1>7. CASE UNCHANGED vars
    BY <1>1, <1>7 DEF vars, ownerVars
  <1>8. CASE Next /\ ~TableStep
    BY <1>1, <1>8, OtherSteps
  <1> QED BY <1>2, <1>3, <1>4, <1>5, <1>6, <1>7, <1>8 DEF TableStep

\* The admission counter counts exactly the turns that are not terminal, and there is
\* never more than one.
THEOREM AdmissionIsCounted == Spec => []ActiveTurnsCounted
  <1>1. Init => ActiveTurnsCounted
    BY DEF Init, ActiveTurnsCounted, Active
  <1>2. OwnerInv /\ ActiveTurnsCounted /\ [Next]_vars => ActiveTurnsCounted'
    BY CountedStep
  <1> QED BY <1>1, <1>2, OwnerInvAlways, PTL DEF Spec

LEMMA QueueStays ==
    ASSUME OwnerTypeOK, FinishedInv, \A t \in Turn : Moves(t),
           queue' = queue \/ (queue # <<>> /\ queue' = Tail(queue))
    PROVE  FinishedInv'
  <1>1. ASSUME NEW i \in 1 .. Len(queue), queue[i].op = "finished"
        PROVE  pc'[queue[i].turn] \in {"drop", "done"}
    <2>1. queue[i] \in Command
      BY <1>1 DEF OwnerTypeOK
    <2>2. queue[i].turn \in Turn
      BY <1>1, <2>1, CommandTypes
    <2> QED BY <1>1, <2>2 DEF FinishedInv, Moves
  <1>2. CASE queue' = queue
    BY <1>1, <1>2 DEF FinishedInv
  <1>3. CASE queue # <<>> /\ queue' = Tail(queue)
    <2>1. Len(queue') = Len(queue) - 1 /\ \A i \in 1 .. Len(queue') : queue'[i] = queue[i + 1]
      BY <1>3, HeadTailProperties DEF OwnerTypeOK
    <2>2. Len(queue) \in Nat
      BY DEF OwnerTypeOK
    <2>3. \A i \in 1 .. Len(queue') : i + 1 \in 1 .. Len(queue)
      BY <2>1, <2>2
    <2> QED BY <1>1, <2>1, <2>3 DEF FinishedInv
  <1> QED BY <1>2, <1>3

LEMMA QueueGrows ==
    ASSUME OwnerTypeOK, FinishedInv, \A t \in Turn : Moves(t),
           NEW op, NEW t \in Turn \cup {NoTurn}, NEW r, Enqueue(op, t, r),
           op = "finished" => pc'[t] \in {"drop", "done"}
    PROVE  FinishedInv'
  <1> DEFINE c == [op |-> op, turn |-> t, req |-> r]
  <1>1. ASSUME NEW i \in 1 .. Len(queue), queue[i].op = "finished"
        PROVE  pc'[queue[i].turn] \in {"drop", "done"}
    <2>1. queue[i] \in Command
      BY <1>1 DEF OwnerTypeOK
    <2>2. queue[i].turn \in Turn
      BY <1>1, <2>1, CommandTypes
    <2> QED BY <1>1, <2>2 DEF FinishedInv, Moves
  <1>2. /\ Len(queue') = Len(queue) + 1 /\ Len(queue) \in Nat
        /\ \A i \in 1 .. Len(queue) : queue'[i] = queue[i]
        /\ queue'[Len(queue) + 1] = c
    BY AppendProperties DEF OwnerTypeOK, Enqueue
  <1>3. \A i \in 1 .. Len(queue') : i \in 1 .. Len(queue) \/ i = Len(queue) + 1
    BY <1>2
  <1> QED BY <1>1, <1>2, <1>3 DEF FinishedInv

LEMMA QuietOwner ==
    ASSUME OwnerStep, ~CreateTurn
    PROVE  /\ UNCHANGED pc
           /\ queue' = queue \/ (queue # <<>> /\ queue' = Tail(queue))
  BY DEF OwnerStep, ReceiveBootstrap, ReceiveRead, Subscribe, Decide, DecideReturns,
         RegisterPending, DenyReturns, Finished, Cancel, DeliverCancel, DeliverCancelReturns,
         SendInterrupt, HearAck, AckTimesOut, FailCancel, Receive, AuthorityDecides,
         AuthorityLetsGo, AuthorityInterrupts, AuthorityStopsWaiting, taskVars, flowVars,
         recordVars, clientVars

\* A turn may become terminal when its execution is in the epilogue.
LEMMA TerminalizeLife ==
    ASSUME OwnerTypeOK, LifeInv, NEW t \in Turn, NEW s \in Terminal, Terminalize(t, s),
           pc[t] \in Over, UNCHANGED pc
    PROVE  \A u \in Turn : /\ status'[u] = "none" => pc'[u] = "absent"
                           /\ status'[u] \notin Active \cup {"none"} => pc'[u] \in Over
  <1>1. s # "none"
    BY DEF Terminal
  <1> QED BY <1>1 DEF Terminalize, Open, OwnerTypeOK, LifeInv

LEMMA LifeStep ==
    ASSUME OwnerInv, CloseInv, LifeInv, [Next]_vars
    PROVE  LifeInv'
  <1> USE DEF OwnerInv
  <1> DEFINE Records == \A u \in Turn :
                           /\ status'[u] = "none" => pc'[u] = "absent"
                           /\ status'[u] \notin Active \cup {"none"} => pc'[u] \in Over
  <1>1. ASSUME UNCHANGED pc PROVE \A u \in Turn : Moves(u)
    BY <1>1 DEF Moves
  <1>2. ASSUME UNCHANGED status, \A u \in Turn : Moves(u) PROVE Records
    BY <1>2 DEF LifeInv, Moves
  <1>3. CASE CreateTurn
    <2>1. CASE ready /\ active = 0
      <3>1. PICK t \in Turn :
              /\ pc[t] = "absent" /\ pc' = [pc EXCEPT ![t] = "launch"]
              /\ status' = [u \in Turn |-> IF u = t THEN "running"
                              ELSE IF Pruned(u) THEN "pruned" ELSE status[u]]
        BY <1>3, <2>1 DEF CreateTurn, AuthorityStarts
      <3>2. \A u \in Turn : u # t => Moves(u)
        BY <3>1 DEF Moves, TaskTypeOK
      <3>3. Records
        BY <3>1, <3>2 DEF LifeInv, Moves, Active, Terminal, Pruned
      <3>4. \A i \in 1 .. Len(queue) : queue[i].op = "finished" => queue[i].turn # t
        BY <3>1 DEF LifeInv, FinishedInv
      <3>5. FinishedInv'
        <4>1. Len(queue') = Len(queue) - 1 /\ Len(queue) \in Nat
              /\ \A i \in 1 .. Len(queue') : queue'[i] = queue[i + 1]
          BY <1>3, HeadTailProperties DEF CreateTurn, Receive, OwnerTypeOK
        <4>2. \A i \in 1 .. Len(queue') : i + 1 \in 1 .. Len(queue)
          BY <4>1
        <4> QED BY <3>1, <4>1, <4>2 DEF LifeInv, FinishedInv, TaskTypeOK
      <3> QED BY <3>3, <3>5 DEF LifeInv
    <2>2. CASE ~(ready /\ active = 0)
      <3>1. UNCHANGED <<pc, status>> /\ queue # <<>> /\ queue' = Tail(queue)
        BY <1>3, <2>2 DEF CreateTurn, Receive, taskVars, flowVars
      <3> QED BY <1>1, <1>2, <3>1, QueueStays DEF LifeInv
    <2> QED BY <2>1, <2>2
  <1>4. CASE OwnerStep /\ ~CreateTurn
    <2>1. FinishedInv'
      BY <1>1, <1>4, QuietOwner, QueueStays DEF LifeInv
    <2>2. UNCHANGED pc
      BY <1>4, QuietOwner
    <2>3. CASE RegisterPending
      <3>1. Head(queue).req \in Request
        BY <2>3, HeadType, CommandTypes DEF RegisterPending
      <3>2. \A u \in Turn : status'[u] = status[u] \/ (status[u] \in Active /\ status'[u] = "waiting")
        BY <2>3, <3>1, TaskAssumption DEF TaskAssumption, RegisterPending, Refused, Open, OwnerTypeOK
      <3>3. Records
        BY <2>2, <3>2 DEF LifeInv, Active
      <3> QED BY <2>1, <3>3 DEF LifeInv
    <2>4. CASE Finished
      <3>1. Head(queue) = queue[1] /\ 1 \in 1 .. Len(queue) /\ Head(queue).op = "finished"
        BY <2>4, HeadTailProperties DEF Finished, Receive, OwnerTypeOK
      <3>2. Head(queue).turn \in Turn
        BY <2>4, HeadType, CommandTypes DEF Finished
      <3>3. pc[Head(queue).turn] \in Over
        BY <3>1 DEF LifeInv, FinishedInv, Over
      <3>4. FinalStatus(outcome[Head(queue).turn]) \in Terminal
        BY DEF FinalStatus, Success, Terminal
      <3>5. Records
        BY <2>2, <2>4, <3>2, <3>3, <3>4, TerminalizeLife DEF Finished
      <3> QED BY <2>1, <3>5 DEF LifeInv
    <2>5. CASE SendInterrupt
      <3>1. oturn \in Turn /\ "failed" \in Terminal
        BY <2>5 DEF SendInterrupt, Busy, Terminal
      <3>2. CASE UNCHANGED status
        BY <1>1, <1>2, <2>1, <2>2, <3>2 DEF LifeInv
      <3>3. CASE pc[oturn] = "done" /\ Terminalize(oturn, "failed")
        <4>1. Records
          BY <2>2, <3>1, <3>3, TerminalizeLife DEF Over
        <4> QED BY <2>1, <4>1 DEF LifeInv
      <3> QED BY <2>5, <3>2, <3>3 DEF SendInterrupt, recordVars
    <2>6. CASE HearAck
      <3>1. oturn \in Turn /\ StatusAfterAck \in Terminal
        BY <2>6 DEF HearAck, Busy, StatusAfterAck, CancelStatus, Terminal
      <3>2. pc[oturn] \in Over
        BY <2>6, <3>1 DEF HearAck, Answered, CloseInv, PhaseInv
      <3>3. Records
        BY <2>2, <2>6, <3>1, <3>2, TerminalizeLife DEF HearAck
      <3> QED BY <2>1, <3>3 DEF LifeInv
    <2>7. CASE ~TableStep
      <3>1. UNCHANGED status
        BY <1>4, <2>7, OtherSteps DEF Next
      <3> QED BY <1>1, <1>2, <2>1, <2>2, <3>1 DEF LifeInv
    <2> QED BY <1>4, <2>3, <2>4, <2>5, <2>6, <2>7 DEF TableStep
  <1>5. ASSUME NEW t \in Turn, TaskStep(t) \/ ServerStep(t), ~OwnerStep PROVE LifeInv'
    <2>1. LocalStep(t) \/ ChildStep(t) \/ Offer(t) \/ Finish(t) \/ UNCHANGED pc
      BY <1>5 DEF TaskStep, TaskRuns, OfferPending, Forward, SendFinished, ServerStep,
                  taskVars, flowVars
    <2>2. \A u \in Turn : Moves(u)
      BY <1>1, <2>1, ExecutionMoves
    <2>3. UNCHANGED status
      BY <1>5 DEF TaskStep, TaskRuns, OfferPending, Forward, SendFinished, ServerStep,
                  ownerVars, recordVars
    <2>4. FinishedInv'
      <3>1. CASE UNCHANGED queue
        BY <2>2, <3>1, QueueStays DEF LifeInv
      <3>2. CASE Forward(t)
        BY <2>2, <3>2, QueueGrows DEF Forward, LifeInv
      <3>3. CASE SendFinished(t)
        <4>1. pc'[t] = "drop"
          BY <3>3 DEF SendFinished, Finish, TaskTypeOK
        <4> QED BY <2>2, <3>3, <4>1, QueueGrows DEF SendFinished, LifeInv
      <3> QED BY <1>5, <3>1, <3>2, <3>3
              DEF TaskStep, TaskRuns, OfferPending, ServerStep, ownerVars
    <2> QED BY <1>2, <2>2, <2>3, <2>4 DEF LifeInv
  <1>6. ASSUME UNCHANGED <<pc, status>>,
               \/ UNCHANGED queue
               \/ \E op \in Cancels \cup {"bootstrap", "read", "create", "subscribe", "approve", "deny"},
                     t \in Turn \cup {NoTurn}, r \in Request \cup {NoRequest} : Enqueue(op, t, r)
        PROVE  LifeInv'
    <2>1. \A u \in Turn : Moves(u)
      BY <1>1, <1>6
    <2>2. FinishedInv'
      BY <1>6, <2>1, QueueStays, QueueGrows DEF LifeInv, Cancels
    <2> QED BY <1>2, <1>6, <2>1, <2>2 DEF LifeInv
  <1>7. CASE UNCHANGED vars
    BY <1>6, <1>7 DEF vars, taskVars, flowVars, ownerVars
  <1>8. ASSUME NEW t \in Turn, TurnTimerFires(t) \/ SseSubscribes(t) \/ SseStops(t) \/ SendDrop(t)
        PROVE  LifeInv'
    BY <1>6, <1>8 DEF TurnTimerFires, SseSubscribes, SseStops, SendDrop, Cancels, taskVars,
                      flowVars, recordVars
  <1>9. ASSUME NEW r \in Request, ApprovalTimerFires(r) PROVE LifeInv'
    <2>1. TurnOf[r] \in Turn
      BY TaskAssumption DEF TaskAssumption
    <2> QED BY <1>6, <1>9, <2>1 DEF ApprovalTimerFires, Cancels, taskVars, flowVars, recordVars
  <1>10. CASE SendBootstrap
    BY <1>6, <1>10 DEF SendBootstrap, taskVars, flowVars, recordVars
  <1>11. CASE HttpCall
    BY <1>6, <1>11 DEF HttpCall, Cancels, Unused, taskVars, flowVars, recordVars
  <1> QED BY <1>3, <1>4, <1>5, <1>7, <1>8, <1>9, <1>10, <1>11 DEF Next, OwnerStep

\* A turn is running or waiting as long as its app-server may run, so that with
\* AdmissionIsCounted no two app-servers run at once.
THEOREM TerminalIsAfterReap == Spec => []TerminalMeansReaped
  <1>1. Init => LifeInv
    BY DEF Init, TaskInit, LifeInv, FinishedInv, Active
  <1>2. OwnerInv /\ CloseInv /\ LifeInv /\ [Next]_vars => LifeInv'
    BY LifeStep
  <1>3. Spec => []CloseInv
    BY ServerImplementsTask, CloseAlways
  <1>4. CloseInv /\ LifeInv => TerminalMeansReaped
    BY DEF CloseInv, PhaseInv, LifeInv, TerminalMeansReaped, FlowPhase, Over
  <1> QED BY <1>1, <1>2, <1>3, <1>4, OwnerInvAlways, PTL DEF Spec

-------------------------------------------------------------------------------
(* Terminal statuses. *)

\* terminalize changes the status of an open turn only.
LEMMA TerminalizeOpens ==
    ASSUME OwnerTypeOK, NEW t \in Turn, NEW s \in Terminal, Terminalize(t, s), NEW u \in Turn
    PROVE  \/ status'[u] = status[u]
           \/ status[u] \in Active /\ u = t /\ status'[u] = s
  BY DEF Terminalize, Open, OwnerTypeOK

\* What a step does to the status of a turn.
LEMMA StatusMoves ==
    ASSUME OwnerInv, [Next]_vars, NEW t \in Turn
    PROVE  \/ status'[t] = status[t]
           \/ CreateTurn /\ status[t] = "none" /\ status'[t] = "running"
           \/ CreateTurn /\ status[t] \in Terminal /\ status'[t] = "pruned"
           \/ RegisterPending /\ status[t] \in Active /\ status'[t] = "waiting"
           \/ /\ Finished /\ status[t] \in Active /\ t = Head(queue).turn
              /\ status'[t] = FinalStatus(outcome[t])
           \/ SendInterrupt /\ status[t] \in Active /\ status'[t] = "failed"
           \/ HearAck /\ status[t] \in Active /\ t = oturn /\ status'[t] = StatusAfterAck
  <1> USE DEF OwnerInv
  <1>1. CASE CreateTurn
    <2>1. CASE ready /\ active = 0
      <3>1. PICK u \in Turn :
              /\ NextTurn(u)
              /\ status' = [v \in Turn |-> IF v = u THEN "running"
                              ELSE IF Pruned(v) THEN "pruned" ELSE status[v]]
        BY <1>1, <2>1 DEF CreateTurn
      <3> QED BY <1>1, <3>1 DEF NextTurn, Pruned
    <2>2. CASE ~(ready /\ active = 0)
      BY <1>1, <2>2 DEF CreateTurn
    <2> QED BY <2>1, <2>2
  <1>2. CASE RegisterPending
    <2>1. Head(queue).req \in Request
      BY <1>2, HeadType, CommandTypes DEF RegisterPending
    <2>2. TurnOf[Head(queue).req] \in Turn
      BY <2>1, TaskAssumption DEF TaskAssumption
    <2> QED BY <1>2, <2>2 DEF RegisterPending, Refused, Open, OwnerTypeOK
  <1>3. CASE Finished
    <2>1. Head(queue).turn \in Turn
      BY <1>3, HeadType, CommandTypes DEF Finished
    <2>2. FinalStatus(outcome[Head(queue).turn]) \in Terminal
      BY DEF FinalStatus, Success, Terminal
    <2>3. Terminalize(Head(queue).turn, FinalStatus(outcome[Head(queue).turn]))
      BY <1>3 DEF Finished
    <2> QED BY <1>3, <2>1, <2>2, <2>3, TerminalizeOpens
  <1>4. CASE SendInterrupt
    <2>1. oturn \in Turn /\ "failed" \in Terminal
      BY <1>4 DEF SendInterrupt, Busy, Terminal
    <2>2. UNCHANGED status \/ Terminalize(oturn, "failed")
      BY <1>4 DEF SendInterrupt, recordVars
    <2> QED BY <1>4, <2>1, <2>2, TerminalizeOpens
  <1>5. CASE HearAck
    <2>1. oturn \in Turn /\ StatusAfterAck \in Terminal
      BY <1>5 DEF HearAck, Busy, StatusAfterAck, CancelStatus, Terminal
    <2>2. Terminalize(oturn, StatusAfterAck)
      BY <1>5 DEF HearAck
    <2> QED BY <1>5, <2>1, <2>2, TerminalizeOpens
  <1>6. CASE UNCHANGED vars
    BY <1>6 DEF vars, ownerVars
  <1>7. CASE Next /\ ~TableStep
    BY <1>7, OtherSteps
  <1> QED BY <1>1, <1>2, <1>3, <1>4, <1>5, <1>6, <1>7 DEF TableStep

\* The first terminal status stands, whichever of an acknowledgement, the Finished
\* command, a deadline and a second cancel comes later.
THEOREM TerminalStatusStands == Spec => TerminalIsFinal
  <1>1. ASSUME OwnerInv, [Next]_vars, NEW t \in Turn, status[t] \in Terminal
        PROVE  status'[t] \in {status[t], "pruned"}
    BY <1>1, StatusMoves DEF Active, Terminal
  <1>2. OwnerInv /\ [Next]_vars =>
          [\A t \in Turn : status[t] \in Terminal => status'[t] \in {status[t], "pruned"}]_vars
    BY <1>1
  <1> QED BY <1>2, OwnerInvAlways, PTL DEF Spec, TerminalIsFinal

-------------------------------------------------------------------------------
(* A turn reported interrupted. *)

\* Once the epilogue has reported, neither the outcome nor the record changes.
LEMMA OutcomeStays ==
    ASSUME TaskTypeOK, WireInv, [TaskNext]_taskVars, NEW t \in Turn, pc[t] \in Over
    PROVE  outcome'[t] = outcome[t] /\ jexec'[t] = jexec[t]
  <1> USE DEF flowVars, handlerVars, controlVars, approvalVars, journalVars
  <1>1. CASE UNCHANGED taskVars
    BY <1>1 DEF taskVars
  <1>2. CASE AuthorityStep
    BY <1>2 DEF AuthorityStep, AuthorityStarts, AuthorityDecides, AuthorityLetsGo,
                AuthorityInterrupts, AuthorityStopsWaiting
  <1>3. ASSUME NEW u \in Turn, NEW o, EndFlow(u, o), pc[u] \in FlowPhase, UNCHANGED jexec
        PROVE  outcome'[t] = outcome[t] /\ jexec'[t] = jexec[t]
    BY <1>3 DEF EndFlow, FlowPhase, Over, TaskTypeOK
  <1>4. ASSUME NEW u \in Turn, stage[u] # "none" PROVE pc[u] \in FlowPhase
    BY <1>4 DEF WireInv, HandlerInv
  <1>5. ASSUME NEW u \in Turn, InCall(u) \/ InWait(u) PROVE pc[u] \in FlowPhase
    BY <1>5 DEF InCall, InWait, FlowPhase
  <1>6. ASSUME NEW u \in Turn, Offer(u) \/ Finish(u)
        PROVE  outcome'[t] = outcome[t] /\ jexec'[t] = jexec[t]
    BY <1>6 DEF Offer, Finish
  <1>7. ASSUME NEW u \in Turn, LocalStep(u)
        PROVE  outcome'[t] = outcome[t] /\ jexec'[t] = jexec[t]
    <2>1. CASE Launch(u) \/ Settle(u) \/ Reap(u)
      BY <2>1 DEF Launch, Settle, Reap, Over, TaskTypeOK
    <2>2. CASE WriteCall(u) \/ Report(u) \/ DropControls(u) \/ Resumed(u)
      BY <2>2 DEF WriteCall, Report, DropControls, Resumed
    <2>3. CASE CallFails(u)
      BY <1>3, <1>5, <2>3 DEF CallFails
    <2>4. CASE FlowDeadline(u) \/ CancelTimesOut(u)
      BY <1>3, <2>4 DEF FlowDeadline, CancelTimesOut, FlowPhase
    <2>5. CASE TakeControl(u)
      <3>1. pc[u] \in FlowPhase
        BY <2>5 DEF TakeControl, ControlPhase, FlowPhase
      <3> QED BY <1>3, <2>5, <3>1 DEF TakeControl
    <2>6. CASE Conclude(u)
      BY <1>3, <1>4, <2>6 DEF Conclude
    <2>7. CASE Respond(u)
      BY <1>3, <1>4, <2>7 DEF Respond
    <2> QED BY <1>7, <2>1, <2>2, <2>3, <2>4, <2>5, <2>6, <2>7 DEF LocalStep
  <1>8. ASSUME NEW u \in Turn, ChildStep(u)
        PROVE  outcome'[t] = outcome[t] /\ jexec'[t] = jexec[t]
    <2>1. CASE Reply(u)
      BY <1>3, <1>5, <2>1 DEF Reply, Reading
    <2>2. CASE WaitFails(u)
      BY <1>3, <1>5, <2>2 DEF WaitFails
    <2>3. CASE ChildExits(u)
      BY <2>3 DEF ChildExits
    <2>4. ASSUME NEW s \in Success, TurnCompletes(u, s)
          PROVE  outcome'[t] = outcome[t] /\ jexec'[t] = jexec[t]
      BY <1>3, <1>5, <2>4 DEF TurnCompletes
    <2>5. ASSUME NEW r \in Request, TurnOf[r] = u, ReadRequest(r)
          PROVE  outcome'[t] = outcome[t] /\ jexec'[t] = jexec[t]
      BY <1>3, <1>5, <2>5 DEF ReadRequest, Reading
    <2> QED BY <1>8, <2>1, <2>2, <2>3, <2>4, <2>5 DEF ChildStep
  <1> QED BY <1>1, <1>2, <1>6, <1>7, <1>8 DEF TaskNext

LEMMA InterruptedStep ==
    ASSUME OwnerInv, CloseInv, LifeInv, InterruptedIsConfirmed, [Next]_vars
    PROVE  InterruptedIsConfirmed'
  <1> USE DEF OwnerInv
  <1> SUFFICES ASSUME NEW t \in Turn, status'[t] = "interrupted"
               PROVE  jexec'[t] = "interrupted" \/ outcome'[t] = "interrupted"
    BY DEF InterruptedIsConfirmed
  <1>1. pc[t] \in Over => outcome'[t] = outcome[t] /\ jexec'[t] = jexec[t]
    BY NextIsTask, OutcomeStays
  <1>2. CASE status[t] = "interrupted"
    BY <1>1, <1>2 DEF LifeInv, Active, InterruptedIsConfirmed
  <1>3. CASE Finished /\ t = Head(queue).turn /\ status'[t] = FinalStatus(outcome[t])
    <2>1. UNCHANGED <<outcome, jexec>>
      BY <1>3 DEF Finished, AuthorityLetsGo, flowVars, journalVars
    <2> QED BY <1>3, <2>1 DEF FinalStatus
  <1>4. CASE HearAck /\ t = oturn /\ status'[t] = StatusAfterAck
    <2>1. ack[t] = "interrupted"
      BY <1>4 DEF StatusAfterAck
    <2>2. UNCHANGED <<outcome, jexec>>
      BY <1>4 DEF HearAck, AuthorityStopsWaiting, flowVars, journalVars
    <2> QED BY <2>1, <2>2 DEF CloseInv, ConfirmedInterrupt
  <1> QED BY <1>2, <1>3, <1>4, StatusMoves

\* A turn the API reports as interrupted was interrupted by a confirmed cancellation
\* in the journal, or its app-server said so: no timeout, lost acknowledgement or
\* ambiguous outcome is reported as an interruption.
THEOREM InterruptionIsConfirmed == Spec => []InterruptedIsConfirmed
  <1>1. Init => InterruptedIsConfirmed /\ LifeInv
    BY DEF Init, TaskInit, InterruptedIsConfirmed, LifeInv, FinishedInv, Active
  <1>2. Spec => []CloseInv
    BY ServerImplementsTask, CloseAlways
  <1>3. OwnerInv /\ CloseInv /\ LifeInv /\ [Next]_vars => LifeInv'
    BY LifeStep
  <1>4. OwnerInv /\ CloseInv /\ LifeInv /\ InterruptedIsConfirmed /\ [Next]_vars =>
          InterruptedIsConfirmed'
    BY InterruptedStep
  <1> QED BY <1>1, <1>2, <1>3, <1>4, OwnerInvAlways, PTL DEF Spec

-------------------------------------------------------------------------------
(* Approval records. *)

\* Only requests that were reviewed get a record, and the owner decides only those.
RecordInv ==
    /\ \A r \in Request : appr[r] # "none" => r \in Reviewable \ Oversized
    /\ \A r \in oset : appr[r] # "none"
    /\ opc \in {"decide", "deliver"} => appr[ocur] # "none"

\* What a step may do to the record of an approval, whoever took it.
Remains(r) == appr'[r] = appr[r]
Leaves(r) == appr[r] # "none" /\ appr'[r] \in {"delivering", "denied", "gone"}
Settles(r) == DecideReturns /\ r = ocur /\ appr'[r] = Decided(r)
Registers(r) ==
    RegisterPending /\ r = Head(queue).req /\ ~Refused(r) /\ appr'[r] = "pending"

LEMMA TerminalizeLeaves ==
    ASSUME OwnerTypeOK, NEW t \in Turn, NEW s, Terminalize(t, s), NEW r \in Request
    PROVE  Remains(r) \/ Leaves(r)
  BY DEF Terminalize, Undecided, OwnerTypeOK, Remains, Leaves

LEMMA RecordMoves ==
    ASSUME OwnerInv, RecordInv, [Next]_vars, NEW r \in Request
    PROVE  Remains(r) \/ Leaves(r) \/ Settles(r) \/ Registers(r)
  <1> USE DEF OwnerInv
  <1>1. ASSUME UNCHANGED appr PROVE Remains(r)
    BY <1>1 DEF Remains
  <1>2. CASE CreateTurn
    BY <1>2 DEF CreateTurn, Remains, Leaves
  <1>3. CASE Decide
    <2>1. Head(queue).req \in Request
      BY <1>3, HeadType, CommandTypes DEF Decide
    <2> QED BY <1>3, <2>1 DEF Decide, Remains, Leaves, OwnerTypeOK
  <1>4. CASE DecideReturns
    BY <1>4 DEF DecideReturns, Remains, Settles, OwnerTypeOK
  <1>5. CASE RegisterPending
    <2>1. Head(queue).req \in Request
      BY <1>5, HeadType, CommandTypes DEF RegisterPending
    <2> QED BY <1>5, <2>1 DEF RegisterPending, Remains, Registers, OwnerTypeOK
  <1>6. CASE Finished
    <2>1. Head(queue).turn \in Turn
      BY <1>6, HeadType, CommandTypes DEF Finished
    <2> QED BY <1>6, <2>1, TerminalizeLeaves DEF Finished
  <1>7. CASE Cancel
    BY <1>7 DEF Cancel, Remains, Leaves
  <1>8. ASSUME NEW q \in Request, FailCancel(q), appr[q] # "none" PROVE Remains(r) \/ Leaves(r)
    BY <1>8 DEF FailCancel, Remains, Leaves, OwnerTypeOK
  <1>9. CASE DeliverCancel
    BY <1>8, <1>9 DEF DeliverCancel, recordVars, Remains, RecordInv, OwnerTypeOK
  <1>10. CASE DeliverCancelReturns
    <2>1. ocur \in Request /\ appr[ocur] # "none"
      BY <1>10 DEF DeliverCancelReturns, Busy, RecordInv
    <2> QED BY <1>8, <1>10, <2>1 DEF DeliverCancelReturns, Remains, Leaves, OwnerTypeOK
  <1>11. CASE SendInterrupt \/ HearAck
    <2>1. oturn \in Turn
      BY <1>11 DEF SendInterrupt, HearAck, Busy
    <2> QED BY <1>1, <1>11, <2>1, TerminalizeLeaves DEF SendInterrupt, HearAck, recordVars
  <1>12. CASE ReceiveBootstrap \/ ReceiveRead \/ Subscribe \/ DenyReturns \/ AckTimesOut
    BY <1>1, <1>12
       DEF ReceiveBootstrap, ReceiveRead, Subscribe, DenyReturns, AckTimesOut, recordVars
  <1>13. CASE UNCHANGED vars
    BY <1>1, <1>13 DEF vars, ownerVars
  <1>14. CASE Next /\ ~OwnerStep
    BY <1>1, <1>14
       DEF Next, TaskStep, TaskRuns, OfferPending, Forward, SendFinished, ServerStep,
           TurnTimerFires, ApprovalTimerFires, SendBootstrap, HttpCall, SseSubscribes, SseStops,
           SendDrop, recordVars, ownerVars
  <1> QED BY <1>2, <1>3, <1>4, <1>5, <1>6, <1>7, <1>9, <1>10, <1>11, <1>12, <1>13, <1>14
          DEF OwnerStep

LEMMA RecordStep == ASSUME OwnerInv, RecordInv, [Next]_vars PROVE RecordInv'
  <1> USE DEF OwnerInv
  <1>1. ASSUME NEW r \in Request, appr[r] # "none" PROVE appr'[r] # "none"
    BY <1>1, RecordMoves DEF Remains, Leaves, Settles, Registers, Decided
  <1>2. ASSUME NEW r \in Request, appr'[r] # "none" PROVE r \in Reviewable \ Oversized
    BY <1>2, RecordMoves DEF RecordInv, Remains, Leaves, Settles, Registers, Refused, DecideReturns
  <1>3. \A r \in oset' : r \in Request /\ appr[r] # "none"
    <2>1. \A r \in oset : r \in Request /\ appr[r] # "none"
      BY DEF RecordInv, OwnerTypeOK
    <2>2. oset' \subseteq oset \/ \A r \in oset' : r \in Request /\ appr[r] = "pending"
      <3>1. CASE Cancel
        BY <3>1 DEF Cancel, cancelVars
      <3>2. CASE DeliverCancel \/ DeliverCancelReturns
        BY <3>2 DEF DeliverCancel, DeliverCancelReturns, FailCancel, EndCancel, cancelVars
      <3>3. CASE SendInterrupt \/ HearAck \/ AckTimesOut
        BY <3>3 DEF SendInterrupt, HearAck, AckTimesOut, EndCancel, cancelVars
      <3>4. CASE OwnerStep /\ ~(Cancel \/ DeliverCancel \/ DeliverCancelReturns
                                \/ SendInterrupt \/ HearAck \/ AckTimesOut)
        BY <3>4 DEF OwnerStep, ReceiveBootstrap, ReceiveRead, CreateTurn, Subscribe, Decide,
                    DecideReturns, RegisterPending, DenyReturns, Finished, handleVars, cancelVars
      <3>5. CASE Next /\ ~OwnerStep
        BY <3>5
           DEF Next, TaskStep, TaskRuns, OfferPending, Forward, SendFinished, ServerStep,
               TurnTimerFires, ApprovalTimerFires, SendBootstrap, HttpCall, SseSubscribes,
               SseStops, SendDrop, handleVars, cancelVars, ownerVars
      <3>6. CASE UNCHANGED vars
        BY <3>6 DEF vars, ownerVars
      <3> QED BY <3>1, <3>2, <3>3, <3>4, <3>5, <3>6
    <2> QED BY <2>1, <2>2
  <1>4. ASSUME opc' \in {"decide", "deliver"} PROVE ocur' \in Request /\ appr[ocur'] # "none"
    <2>1. CASE opc \in {"decide", "deliver"} /\ UNCHANGED <<opc, ocur>>
      BY <2>1 DEF RecordInv, Busy
    <2>2. CASE Decide
      <3>1. Head(queue).req \in Request /\ opc = "recv"
        BY <2>2, HeadType, CommandTypes DEF Decide, Receive
      <3> QED BY <1>4, <2>2, <3>1 DEF Decide
    <2>3. CASE DeliverCancel
      BY <1>4, <2>3 DEF DeliverCancel, FailCancel, EndCancel, RecordInv, OwnerTypeOK
    <2>4. CASE ~Decide /\ ~DeliverCancel /\ ~UNCHANGED <<opc, ocur>>
      <3>1. OwnerStep
        BY <2>4
           DEF Next, TaskStep, TaskRuns, OfferPending, Forward, SendFinished, ServerStep,
               TurnTimerFires, ApprovalTimerFires, SendBootstrap, HttpCall, SseSubscribes,
               SseStops, SendDrop, handleVars, ownerVars, vars
      <3> QED BY <1>4, <2>4, <3>1
              DEF OwnerStep, ReceiveBootstrap, ReceiveRead, CreateTurn, Subscribe, DecideReturns,
                  RegisterPending, DenyReturns, Finished, Cancel, DeliverCancelReturns,
                  SendInterrupt, HearAck, AckTimesOut, FailCancel, EndCancel, handleVars, Receive
    <2> QED BY <1>4, <2>1, <2>2, <2>3, <2>4
  <1>5. \A r \in oset' : appr'[r] # "none"
    BY <1>1, <1>3
  <1>6. opc' \in {"decide", "deliver"} => appr'[ocur'] # "none"
    BY <1>1, <1>4
  <1> QED BY <1>2, <1>5, <1>6 DEF RecordInv

LEMMA RecordAlways == Spec => []RecordInv
  <1>1. Init => RecordInv
    BY DEF Init, RecordInv
  <1>2. OwnerInv /\ RecordInv /\ [Next]_vars => RecordInv'
    BY RecordStep
  <1> QED BY <1>1, <1>2, OwnerInvAlways, PTL DEF Spec

LEMMA NoPendingStep ==
    ASSUME OwnerInv, RecordInv, NoPendingOnTerminal, [Next]_vars
    PROVE  NoPendingOnTerminal'
  <1> USE DEF OwnerInv
  <1> SUFFICES ASSUME NEW r \in Request, appr'[r] = "pending"
               PROVE  status'[TurnOf[r]] \in Active
    BY DEF NoPendingOnTerminal
  <1>1. TurnOf[r] \in Turn
    BY TaskAssumption DEF TaskAssumption
  <1>2. CASE appr[r] = "pending"
    <2>1. status[TurnOf[r]] \in Active
      BY <1>2 DEF NoPendingOnTerminal
    <2>2. ASSUME NEW t \in Turn, NEW s, Terminalize(t, s) PROVE status'[TurnOf[r]] \in Active
      <3>1. t # TurnOf[r]
        BY <1>2, <2>1, <2>2 DEF Terminalize, Open, Undecided
      <3> QED BY <1>1, <2>1, <2>2, <3>1 DEF Terminalize, OwnerTypeOK
    <2>3. CASE Finished
      <3>1. Head(queue).turn \in Turn
        BY <2>3, HeadType, CommandTypes DEF Finished
      <3> QED BY <2>2, <2>3, <3>1 DEF Finished
    <2>4. CASE SendInterrupt \/ HearAck
      <3>1. oturn \in Turn
        BY <2>4 DEF SendInterrupt, HearAck, Busy
      <3> QED BY <2>1, <2>2, <2>4, <3>1 DEF SendInterrupt, HearAck, recordVars
    <2> QED BY <1>1, <2>1, <2>3, <2>4, StatusMoves DEF Active, Terminal
  <1>3. CASE Registers(r)
    BY <1>1, <1>3 DEF Registers, RegisterPending, Active, OwnerTypeOK
  <1> QED BY <1>2, <1>3, RecordMoves DEF Remains, Leaves, Settles, Decided

\* A terminal turn leaves no approval open to a decision, in whatever order a Pending
\* command and the end of the turn reach the owner.
THEOREM TerminalTurnHasNoPending == Spec => []NoPendingOnTerminal
  <1>1. Init => NoPendingOnTerminal
    BY DEF Init, NoPendingOnTerminal
  <1>2. OwnerInv /\ RecordInv /\ NoPendingOnTerminal /\ [Next]_vars => NoPendingOnTerminal'
    BY NoPendingStep
  <1> QED BY <1>1, <1>2, OwnerInvAlways, RecordAlways, PTL DEF Spec

\* A request is answered once: its response is never overwritten.
LEMMA WireMoves ==
    ASSUME TaskTypeOK, WireInv, [TaskNext]_taskVars, NEW r \in Request
    PROVE  \/ wire'[r] = wire[r]
           \/ wire[r] \in {"quiet", "asked"} /\ wire'[r] # "quiet"
  <1> USE DEF approvalVars
  <1>1. ASSUME NEW t \in Turn, Respond(t)
        PROVE  wire'[r] = wire[r] \/ (wire[r] = "asked" /\ wire'[r] # "quiet")
    <2>1. wire[hreq[t]] = "asked"
      BY <1>1 DEF Respond, WireInv, HandlerInv, Answering
    <2> QED BY <1>1, <2>1 DEF Respond, TaskTypeOK
  <1>2. ASSUME NEW q \in Request, ReadRequest(q)
        PROVE  wire'[r] = wire[r] \/ (wire[r] = "quiet" /\ wire'[r] # "quiet")
    BY <1>2 DEF ReadRequest, TaskTypeOK
  <1>3. ASSUME NEW t \in Turn, LocalStep(t), ~Respond(t) PROVE UNCHANGED wire
    BY <1>3 DEF LocalStep, Launch, WriteCall, CallFails, FlowDeadline, TakeControl,
                CancelTimesOut, Settle, Reap, Report, DropControls, Conclude, Resumed
  <1>4. ASSUME NEW t \in Turn, Offer(t) \/ Finish(t) PROVE UNCHANGED wire
    BY <1>4 DEF Offer, Finish
  <1>5. ASSUME NEW t \in Turn, ChildStep(t), \A q \in Request : ~ReadRequest(q)
        PROVE  UNCHANGED wire
    BY <1>5 DEF ChildStep, Reply, WaitFails, ChildExits, TurnCompletes
  <1>6. CASE AuthorityStep
    BY <1>6 DEF AuthorityStep, AuthorityStarts, AuthorityDecides, AuthorityLetsGo,
                AuthorityInterrupts, AuthorityStopsWaiting
  <1>7. CASE UNCHANGED taskVars
    BY <1>7 DEF taskVars
  <1> QED BY <1>1, <1>2, <1>3, <1>4, <1>5, <1>6, <1>7 DEF TaskNext

LEMMA ApprovedStep ==
    ASSUME OwnerInv, RecordInv, ApprovedMeansAllowed, [Next]_vars
    PROVE  ApprovedMeansAllowed'
  <1> USE DEF OwnerInv
  <1> SUFFICES ASSUME NEW r \in Request, appr'[r] = "approved"
               PROVE  wire'[r] = "allow"
    BY DEF ApprovedMeansAllowed
  <1>1. wire[r] = "allow" => wire'[r] = "allow"
    BY NextIsTask, WireMoves
  <1>2. CASE appr[r] = "approved"
    BY <1>1, <1>2 DEF ApprovedMeansAllowed
  <1>3. CASE Settles(r)
    <2>1. dack[r] = "delivered" /\ dec[r] = "allow"
      BY <1>3 DEF Settles, Decided
    <2>2. r \in Reviewable
      BY <1>3 DEF Settles, DecideReturns, RecordInv
    <2> QED BY <1>1, <2>1, <2>2 DEF WireInv, DeliveredIsAnswered
  <1> QED BY <1>2, <1>3, RecordMoves DEF Remains, Leaves, Registers

\* An approval the API shows as approved has had its Allow flushed to the app-server.
THEOREM ApprovedWasFlushed == Spec => []ApprovedMeansAllowed
  <1>1. Init => ApprovedMeansAllowed
    BY DEF Init, ApprovedMeansAllowed
  <1>2. OwnerInv /\ RecordInv /\ ApprovedMeansAllowed /\ [Next]_vars => ApprovedMeansAllowed'
    BY ApprovedStep
  <1> QED BY <1>1, <1>2, OwnerInvAlways, RecordAlways, PTL DEF Spec

-------------------------------------------------------------------------------
(* Decision oneshots. *)

\* A request has no oneshot before its execution offers it to the owner.
OfferInv ==
    /\ \A r \in Request : wire[r] = "quiet" => dec[r] = "none"
    /\ \A t \in Turn : stage[t] = "offer" => dec[hreq[t]] = "none"

\* What a step may do to the oneshot of a request.
Keeps(r) == dec'[r] = dec[r]
Closing(r) ==
    /\ dec'[r] \in {"closed", "dropped"}
    /\ dec[r] = "open" \/ \E t \in Turn : hreq[t] = r /\ stage[t] = "await"
Offering(r) == \E t \in Turn : Offer(t) /\ hreq[t] = r /\ dec'[r] = "open"
Deciding(r) == dec[r] = "open" /\ dec'[r] \in Sent

LEMMA ExecutionOneshots ==
    ASSUME TaskTypeOK, WireInv, NEW t \in Turn, NEW r \in Request,
           LocalStep(t) \/ ChildStep(t) \/ Offer(t) \/ Finish(t)
    PROVE  Keeps(r) \/ Closing(r) \/ Offering(r)
  <1> USE DEF approvalVars
  <1>1. ASSUME UNCHANGED dec PROVE Keeps(r)
    BY <1>1 DEF Keeps
  <1>2. ASSUME AbandonHandler(t) PROVE Keeps(r) \/ Closing(r)
    BY <1>2 DEF AbandonHandler, Listening, Keeps, Closing
  <1>3. ASSUME NEW o, EndFlow(t, o) PROVE Keeps(r) \/ Closing(r)
    BY <1>2, <1>3 DEF EndFlow
  <1>4. CASE Offer(t)
    <2>1. dec' = [dec EXCEPT ![hreq[t]] = "open"]
      BY <1>4 DEF Offer
    <2>2. dec \in [Request -> {"none", "open", "closed", "dropped"} \cup Sent]
      BY DEF TaskTypeOK
    <2> QED BY <1>4, <2>1, <2>2 DEF Offering, Keeps
  <1>5. CASE Finish(t)
    BY <1>1, <1>5 DEF Finish
  <1>6. CASE LocalStep(t)
    <2>1. CASE Launch(t) \/ WriteCall(t) \/ Settle(t) \/ Reap(t) \/ Report(t) \/ DropControls(t)
               \/ Resumed(t)
      BY <1>1, <2>1 DEF Launch, WriteCall, Settle, Reap, Report, DropControls, Resumed
    <2>2. CASE CallFails(t) \/ FlowDeadline(t) \/ CancelTimesOut(t)
      BY <1>3, <2>2 DEF CallFails, FlowDeadline, CancelTimesOut
    <2>3. CASE TakeControl(t)
      BY <1>2, <1>3, <2>3 DEF TakeControl
    <2>4. CASE Conclude(t)
      <3>1. CASE EndFlow(t, "error")
        BY <1>3, <3>1
      <3>2. CASE dec' = [dec EXCEPT ![hreq[t]] = IF @ \in Sent THEN @ ELSE "closed"]
        BY <2>4, <3>2 DEF Conclude, Keeps, Closing, TaskTypeOK
      <3> QED BY <2>4, <3>1, <3>2 DEF Conclude
    <2>5. CASE Respond(t)
      BY <1>1, <1>3, <2>5 DEF Respond
    <2> QED BY <1>6, <2>1, <2>2, <2>3, <2>4, <2>5 DEF LocalStep
  <1>7. CASE ChildStep(t)
    <2>1. CASE Reply(t)
      BY <1>1, <1>3, <2>1 DEF Reply
    <2>2. CASE WaitFails(t)
      BY <1>3, <2>2 DEF WaitFails
    <2>3. CASE ChildExits(t)
      BY <1>1, <2>3 DEF ChildExits
    <2>4. ASSUME NEW s \in Success, TurnCompletes(t, s) PROVE Keeps(r) \/ Closing(r)
      BY <1>3, <2>4 DEF TurnCompletes
    <2>5. ASSUME NEW q \in Request, TurnOf[q] = t, ReadRequest(q) PROVE Keeps(r) \/ Closing(r)
      BY <1>1, <1>3, <2>5 DEF ReadRequest
    <2> QED BY <1>7, <2>1, <2>2, <2>3, <2>4, <2>5 DEF ChildStep
  <1> QED BY <1>4, <1>5, <1>6, <1>7

LEMMA OneshotMoves ==
    ASSUME TaskTypeOK, WireInv, [TaskNext]_taskVars, NEW r \in Request
    PROVE  Keeps(r) \/ Closing(r) \/ Offering(r) \/ Deciding(r)
  <1> USE DEF approvalVars
  <1>1. CASE AuthorityStep
    <2>1. ASSUME NEW D \in SUBSET OpenSenders, DropSenders(D) PROVE Keeps(r) \/ Closing(r)
      BY <2>1 DEF DropSenders, OpenSenders, Keeps, Closing
    <2>2. ASSUME NEW q \in Request, NEW d \in Sent, NEW hold, AuthorityDecides(q, d, hold)
          PROVE  Keeps(r) \/ Deciding(r)
      BY <2>2 DEF AuthorityDecides, Keeps, Deciding, TaskTypeOK
    <2>3. ASSUME NEW t \in Turn, AuthorityStarts(t) \/ \E R \in SUBSET HeldResumes :
                                                          AuthorityInterrupts(t, R)
          PROVE  Keeps(r)
      BY <2>3 DEF AuthorityStarts, AuthorityInterrupts, Keeps
    <2> QED BY <1>1, <2>1, <2>2, <2>3
            DEF AuthorityStep, AuthorityLetsGo, AuthorityStopsWaiting
  <1>2. CASE UNCHANGED taskVars
    BY <1>2 DEF taskVars, Keeps
  <1> QED BY <1>1, <1>2, ExecutionOneshots DEF TaskNext

\* A handler that offers a request has just read it, or goes on offering it.
LEMMA OfferMoves ==
    ASSUME TaskTypeOK, WireInv, [TaskNext]_taskVars, NEW t \in Turn, stage'[t] = "offer"
    PROVE  \/ stage[t] = "offer" /\ hreq'[t] = hreq[t]
           \/ hreq'[t] \in Request /\ wire[hreq'[t]] = "quiet" /\ UNCHANGED dec
  <1> USE DEF handlerVars
  <1> DEFINE Same == stage'[t] = stage[t] /\ hreq'[t] = hreq[t]
  <1>1. ASSUME NEW u \in Turn, AbandonHandler(u) PROVE Same
    BY <1>1 DEF AbandonHandler, TaskTypeOK
  <1>2. ASSUME NEW u \in Turn, NEW o, EndFlow(u, o) PROVE Same
    BY <1>1, <1>2 DEF EndFlow
  <1>3. ASSUME NEW u \in Turn, Offer(u) \/ Finish(u) PROVE Same
    BY <1>3 DEF Offer, Finish, TaskTypeOK
  <1>4. ASSUME NEW u \in Turn, LocalStep(u) PROVE Same
    <2>1. CASE Launch(u) \/ WriteCall(u) \/ Settle(u) \/ Reap(u) \/ Report(u) \/ DropControls(u)
               \/ Resumed(u)
      BY <2>1 DEF Launch, WriteCall, Settle, Reap, Report, DropControls, Resumed, TaskTypeOK
    <2>2. CASE CallFails(u) \/ FlowDeadline(u) \/ CancelTimesOut(u)
      BY <1>2, <2>2 DEF CallFails, FlowDeadline, CancelTimesOut
    <2>3. CASE TakeControl(u)
      BY <1>1, <1>2, <2>3 DEF TakeControl
    <2>4. CASE Conclude(u)
      BY <1>2, <2>4 DEF Conclude, TaskTypeOK
    <2>5. CASE Respond(u)
      BY <1>2, <2>5 DEF Respond, TaskTypeOK
    <2> QED BY <1>4, <2>1, <2>2, <2>3, <2>4, <2>5 DEF LocalStep
  <1>5. ASSUME NEW r \in Request, ReadRequest(r)
        PROVE  Same \/ (hreq'[t] = r /\ wire[r] = "quiet" /\ UNCHANGED dec)
    <2>1. CASE EndFlow(TurnOf[r], "error")
      BY <1>2, <2>1, TaskAssumption DEF TaskAssumption
    <2>2. CASE /\ hreq' = [hreq EXCEPT ![TurnOf[r]] = r]
               /\ stage' = [stage EXCEPT ![TurnOf[r]] = "offer"]
               /\ UNCHANGED dec
      BY <1>5, <2>2 DEF ReadRequest, TaskTypeOK
    <2> QED BY <1>5, <2>1, <2>2 DEF ReadRequest
  <1>6. ASSUME NEW u \in Turn, ChildStep(u)
        PROVE  Same \/ (hreq'[t] \in Request /\ wire[hreq'[t]] = "quiet" /\ UNCHANGED dec)
    <2>1. CASE Reply(u)
      BY <1>2, <2>1 DEF Reply
    <2>2. CASE WaitFails(u)
      BY <1>2, <2>2 DEF WaitFails
    <2>3. CASE ChildExits(u)
      BY <2>3 DEF ChildExits
    <2>4. ASSUME NEW s \in Success, TurnCompletes(u, s) PROVE Same
      BY <1>2, <2>4 DEF TurnCompletes
    <2> QED BY <1>5, <1>6, <2>1, <2>2, <2>3, <2>4 DEF ChildStep
  <1>7. CASE AuthorityStep
    BY <1>7 DEF AuthorityStep, AuthorityStarts, AuthorityDecides, AuthorityLetsGo,
                AuthorityInterrupts, AuthorityStopsWaiting
  <1>8. CASE UNCHANGED taskVars
    BY <1>8 DEF taskVars
  <1> QED BY <1>3, <1>4, <1>6, <1>7, <1>8 DEF TaskNext

LEMMA OfferStep ==
    ASSUME TaskTypeOK, WireInv, OfferInv, [TaskNext]_taskVars
    PROVE  OfferInv'
  <1>1. ASSUME NEW r \in Request, wire'[r] = "quiet" PROVE dec'[r] = "none"
    <2>1. wire[r] = "quiet" /\ dec[r] = "none"
      BY <1>1, WireMoves DEF OfferInv
    <2>2. \A t \in Turn : hreq[t] = r => stage[t] \notin Answering
      BY <2>1 DEF WireInv, HandlerInv
    <2> QED BY <2>1, <2>2, OneshotMoves
            DEF Keeps, Closing, Offering, Offer, Deciding, Answering
  <1>2. ASSUME NEW t \in Turn, stage'[t] = "offer" PROVE dec'[hreq'[t]] = "none"
    <2>1. CASE stage[t] = "offer" /\ hreq'[t] = hreq[t]
      <3> DEFINE r == hreq[t]
      <3>1. r \in Request /\ dec[r] = "none"
        BY <2>1 DEF OfferInv, WireInv, HandlerInv, TaskTypeOK
      <3>2. \A u \in Turn : hreq[u] = r /\ stage[u] # "none" => u = t
        BY <2>1 DEF WireInv, HandlerInv
      <3>3. ~Closing(r) /\ ~Deciding(r)
        BY <2>1, <3>1, <3>2 DEF Closing, Deciding
      <3>4. ~Offering(r)
        BY <1>2, <3>2 DEF Offering, Offer, TaskTypeOK
      <3> QED BY <2>1, <3>1, <3>3, <3>4, OneshotMoves DEF Keeps
    <2>2. CASE hreq'[t] \in Request /\ wire[hreq'[t]] = "quiet" /\ UNCHANGED dec
      BY <2>2 DEF OfferInv
    <2> QED BY <1>2, <2>1, <2>2, OfferMoves
  <1> QED BY <1>1, <1>2 DEF OfferInv

LEMMA OfferAlways == TaskSpec => []OfferInv
  <1>1. TaskInit => OfferInv
    BY DEF TaskInit, OfferInv
  <1>2. TaskTypeOK /\ WireInv /\ OfferInv /\ [TaskNext]_taskVars => OfferInv'
    BY OfferStep
  <1> QED BY <1>1, <1>2, WireAlways, PTL DEF TaskSpec

-------------------------------------------------------------------------------
(* An approval is announced to the owner once. *)

Occurs(s, x) == \E i \in 1 .. Len(s) : s[i] = x
Once(s, x) == \A i, j \in 1 .. Len(s) : s[i] = x /\ s[j] = x => i = j

LEMMA AppendOccurs ==
    ASSUME NEW S, NEW s \in Seq(S), NEW y \in S, NEW x
    PROVE  /\ Occurs(Append(s, y), x) <=> Occurs(s, x) \/ x = y
           /\ Once(s, x) /\ (x = y => ~Occurs(s, x)) => Once(Append(s, y), x)
  <1>1. /\ Len(s) \in Nat /\ Len(Append(s, y)) = Len(s) + 1
        /\ \A i \in 1 .. Len(s) : Append(s, y)[i] = s[i]
        /\ Append(s, y)[Len(s) + 1] = y
    BY AppendProperties
  <1>2. \A i \in 1 .. Len(s) + 1 : i \in 1 .. Len(s) \/ i = Len(s) + 1
    BY <1>1
  <1> QED BY <1>1, <1>2 DEF Occurs, Once

LEMMA TailOccurs ==
    ASSUME NEW S, NEW s \in Seq(S), s # <<>>, NEW x
    PROVE  /\ Occurs(s, Head(s))
           /\ Occurs(Tail(s), x) => Occurs(s, x)
           /\ Once(s, x) => Once(Tail(s), x)
           /\ Once(s, x) /\ Head(s) = x => ~Occurs(Tail(s), x)
  <1>1. /\ Len(s) \in Nat /\ 1 \in 1 .. Len(s) /\ Head(s) = s[1]
        /\ Len(Tail(s)) = Len(s) - 1
        /\ \A i \in 1 .. Len(Tail(s)) : Tail(s)[i] = s[i + 1]
    BY HeadTailProperties
  <1>2. \A i \in 1 .. Len(s) - 1 : i + 1 \in 1 .. Len(s) /\ i + 1 # 1
    BY <1>1
  <1>3. Occurs(s, Head(s))
    BY <1>1 DEF Occurs
  <1>4. Occurs(Tail(s), x) => Occurs(s, x)
    BY <1>1, <1>2 DEF Occurs
  <1>5. ASSUME Once(s, x), NEW i \in 1 .. Len(Tail(s)), NEW j \in 1 .. Len(Tail(s)),
               Tail(s)[i] = x, Tail(s)[j] = x
        PROVE  i = j
    <2>1. i + 1 \in 1 .. Len(s) /\ j + 1 \in 1 .. Len(s) /\ s[i + 1] = x /\ s[j + 1] = x
      BY <1>1, <1>2, <1>5
    <2>2. i + 1 = j + 1
      BY <1>5, <2>1 DEF Once
    <2> QED BY <1>1, <2>2
  <1>6. Once(s, x) => Once(Tail(s), x)
    BY <1>5 DEF Once
  <1>7. ASSUME Once(s, x), Head(s) = x, NEW i \in 1 .. Len(Tail(s)), Tail(s)[i] = x PROVE FALSE
    <2>1. i + 1 \in 1 .. Len(s) /\ i + 1 # 1 /\ s[i + 1] = x /\ s[1] = x
      BY <1>1, <1>2, <1>7
    <2> QED BY <1>1, <1>7, <2>1 DEF Once
  <1>8. Once(s, x) /\ Head(s) = x => ~Occurs(Tail(s), x)
    BY <1>7 DEF Occurs
  <1> QED BY <1>3, <1>4, <1>6, <1>8

\* The Pending command of a request, and whether it is still on its way to the owner.
Announcement(r) == [op |-> "pending", turn |-> TurnOf[r], req |-> r]
Queueing(r) == Occurs(queue, Announcement(r))
Forwarding(r) == Occurs(pend[TurnOf[r]], r)
InFlight(r) == Queueing(r) \/ Forwarding(r)

ChannelInv ==
    /\ \A t \in Turn, r \in Request : Occurs(pend[t], r) => TurnOf[r] = t
    /\ \A c \in Command : c.op = "pending" /\ Occurs(queue, c) => c = Announcement(c.req)
    /\ \A r \in Request : /\ Once(queue, Announcement(r)) /\ Once(pend[TurnOf[r]], r)
                          /\ ~(Queueing(r) /\ Forwarding(r))

\* An announcement under way has no record yet and one oneshot; a oneshot that said
\* Allow belongs to a record the owner has claimed.
Claimed == {"delivering", "approved", "denied", "gone"}
AnnounceInv ==
    /\ ChannelInv
    /\ \A r \in Request : InFlight(r) => appr[r] = "none"
    /\ \A r \in Request : dec[r] = "none" => appr[r] = "none" /\ ~InFlight(r)
    /\ \A r \in Request : dec[r] = "allow" => appr[r] \in Claimed

\* What a step does to the queue and to the announcements before it.
LEMMA ChannelMoves ==
    ASSUME OwnerInv, [Next]_vars
    PROVE  \/ UNCHANGED <<queue, pend>>
           \/ queue # <<>> /\ queue' = Tail(queue) /\ UNCHANGED pend
           \/ /\ \E op, t, r : op # "pending" /\ Enqueue(op, t, r)
                               /\ [op |-> op, turn |-> t, req |-> r] \in Command
              /\ UNCHANGED pend
           \/ \E t \in Turn : OfferPending(t) \/ Forward(t)
  <1> USE DEF OwnerInv
  <1>1. CASE OwnerStep
    BY <1>1
       DEF OwnerStep, ReceiveBootstrap, ReceiveRead, CreateTurn, Subscribe, Decide, DecideReturns,
           RegisterPending, DenyReturns, Finished, Cancel, DeliverCancel, DeliverCancelReturns,
           SendInterrupt, HearAck, AckTimesOut, FailCancel, Receive
  <1>2. ASSUME NEW t \in Turn, TaskRuns(t) \/ ServerStep(t) \/ SseStops(t)
        PROVE  UNCHANGED <<queue, pend>>
    BY <1>2 DEF TaskRuns, ServerStep, SseStops, ownerVars
  <1> DEFINE Sends == /\ \E op, t, r : op # "pending" /\ Enqueue(op, t, r)
                                       /\ [op |-> op, turn |-> t, req |-> r] \in Command
                      /\ UNCHANGED pend
  <1>3. ASSUME NEW t \in Turn, SendFinished(t) \/ TurnTimerFires(t) \/ SseSubscribes(t)
                               \/ SendDrop(t)
        PROVE  Sends
    <2>1. \E op \in {"interrupt", "drop", "turn_deadline", "subscribe", "finished"} :
            Enqueue(op, t, NoRequest)
      BY <1>3 DEF SendFinished, TurnTimerFires, SseSubscribes, SendDrop
    <2>2. UNCHANGED pend
      BY <1>3 DEF SendFinished, TurnTimerFires, SseSubscribes, SendDrop
    <2> QED BY <2>1, <2>2 DEF Command
  <1>4. ASSUME NEW r \in Request, ApprovalTimerFires(r) PROVE Sends
    <2>1. [op |-> "approval_timeout", turn |-> TurnOf[r], req |-> r] \in Command
      BY TaskAssumption DEF TaskAssumption, Command
    <2> QED BY <1>4, <2>1 DEF ApprovalTimerFires
  <1>5. ASSUME SendBootstrap PROVE Sends
    <2>1. [op |-> "bootstrap", turn |-> NoTurn, req |-> NoRequest] \in Command
      BY DEF Command
    <2> QED BY <1>5, <2>1 DEF SendBootstrap
  <1>6. ASSUME HttpCall PROVE Sends
    <2>1. CASE \E op \in {"read", "create"} : Enqueue(op, NoTurn, NoRequest)
      BY <1>6, <2>1 DEF HttpCall, Command
    <2>2. CASE \E t \in Turn : Enqueue("interrupt", t, NoRequest)
      BY <1>6, <2>2 DEF HttpCall, Command
    <2>3. CASE \E r \in Request, op \in {"approve", "deny"} : Enqueue(op, NoTurn, r)
      BY <1>6, <2>3 DEF HttpCall, Command
    <2> QED BY <1>6, <2>1, <2>2, <2>3 DEF HttpCall, Unused
  <1>7. CASE UNCHANGED vars
    BY <1>7 DEF vars, ownerVars
  <1> QED BY <1>1, <1>2, <1>3, <1>4, <1>5, <1>6, <1>7 DEF Next, TaskStep

\* Announcements keep their place: only an execution that offers a request adds one.
LEMMA OfferChannel ==
    ASSUME OwnerInv, OfferInv, AnnounceInv, NEW t \in Turn, OfferPending(t)
    PROVE  /\ ChannelInv'
           /\ \A r \in Request : InFlight(r)' => InFlight(r) \/ (r = hreq[t] /\ Offering(r))
  <1> USE DEF OwnerInv
  <1> DEFINE q == hreq[t]
  <1>1. /\ stage[t] = "offer" /\ q \in Request /\ TurnOf[q] = t
        /\ dec' = [dec EXCEPT ![q] = "open"]
        /\ pend' = [pend EXCEPT ![t] = Append(pend[t], q)] /\ UNCHANGED queue
    BY DEF OfferPending, Offer, WireInv, HandlerInv, TaskTypeOK
  <1>2. ~InFlight(q)
    BY <1>1 DEF OfferInv, AnnounceInv
  <1>3. pend'[t] = Append(pend[t], q) /\ \A u \in Turn : u # t => pend'[u] = pend[u]
    BY <1>1 DEF OwnerTypeOK
  <1>4. \A x : /\ Occurs(pend'[t], x) <=> Occurs(pend[t], x) \/ x = q
               /\ Once(pend[t], x) /\ (x = q => ~Occurs(pend[t], x)) => Once(pend'[t], x)
    BY <1>1, <1>3, AppendOccurs DEF OwnerTypeOK
  <1>5. \A r \in Request : Queueing(r)' <=> Queueing(r)
    BY <1>1 DEF Queueing, Announcement
  <1>6. \A r \in Request : Forwarding(r)' <=> Forwarding(r) \/ r = q
    BY <1>1, <1>3, <1>4, TaskAssumption DEF TaskAssumption, Forwarding
  <1>7. Offering(q)
    BY <1>1 DEF OfferPending, Offering, TaskTypeOK
  <1>8. ChannelInv'
    <2>1. ASSUME NEW u \in Turn, NEW r \in Request, Occurs(pend'[u], r) PROVE TurnOf[r] = u
      BY <1>1, <1>3, <1>4, <2>1 DEF AnnounceInv, ChannelInv
    <2>2. ASSUME NEW r \in Request
          PROVE  /\ Once(queue', Announcement(r)') /\ Once(pend'[TurnOf[r]], r)
                 /\ ~(Queueing(r)' /\ Forwarding(r)')
      <3>1. Once(queue', Announcement(r)')
        BY <1>1 DEF AnnounceInv, ChannelInv, Announcement
      <3>2. Once(pend'[TurnOf[r]], r)
        <4>1. Once(pend[TurnOf[r]], r) /\ (r = q => ~Occurs(pend[TurnOf[r]], r))
          BY <1>2 DEF AnnounceInv, ChannelInv, InFlight, Forwarding
        <4>2. CASE TurnOf[r] = t
          BY <1>4, <4>1, <4>2
        <4>3. CASE TurnOf[r] # t
          BY <1>3, <4>1, <4>3, TaskAssumption DEF TaskAssumption
        <4> QED BY <4>2, <4>3
      <3>3. ~(Queueing(r)' /\ Forwarding(r)')
        BY <1>2, <1>5, <1>6 DEF AnnounceInv, ChannelInv, InFlight
      <3> QED BY <3>1, <3>2, <3>3
    <2>3. \A c \in Command : c.op = "pending" /\ Occurs(queue', c) => c = Announcement(c.req)'
      BY <1>1 DEF AnnounceInv, ChannelInv, Announcement
    <2> QED BY <2>1, <2>2, <2>3 DEF ChannelInv
  <1> QED BY <1>5, <1>6, <1>7, <1>8 DEF InFlight

LEMMA ForwardChannel ==
    ASSUME OwnerInv, AnnounceInv, NEW t \in Turn, Forward(t)
    PROVE  ChannelInv' /\ \A r \in Request : InFlight(r)' => InFlight(r)
  <1> USE DEF OwnerInv
  <1> DEFINE q == Head(pend[t])
  <1>1. /\ pend[t] \in Seq(Request) /\ pend[t] # <<>> /\ q \in Request
        /\ queue' = Append(queue, [op |-> "pending", turn |-> t, req |-> q])
        /\ pend' = [pend EXCEPT ![t] = Tail(pend[t])]
    BY HeadTailProperties DEF Forward, Enqueue, OwnerTypeOK
  <1>2. Occurs(pend[t], q) /\ TurnOf[q] = t
    BY <1>1, TailOccurs DEF AnnounceInv, ChannelInv
  <1>3. queue' = Append(queue, Announcement(q)) /\ Announcement(q) \in Command
    BY <1>1, <1>2 DEF Announcement, Command
  <1>4. \A x : /\ Occurs(queue', x) <=> Occurs(queue, x) \/ x = Announcement(q)
               /\ Once(queue, x) /\ (x = Announcement(q) => ~Occurs(queue, x)) => Once(queue', x)
    BY <1>3, AppendOccurs DEF OwnerTypeOK
  <1>5. pend'[t] = Tail(pend[t]) /\ \A u \in Turn : u # t => pend'[u] = pend[u]
    BY <1>1 DEF OwnerTypeOK
  <1>6. \A x : /\ Occurs(pend'[t], x) => Occurs(pend[t], x)
               /\ Once(pend[t], x) => Once(pend'[t], x)
               /\ Once(pend[t], x) /\ x = q => ~Occurs(pend'[t], x)
    BY <1>1, <1>5, TailOccurs
  <1>7. \A r \in Request : /\ Announcement(r) = Announcement(q) <=> r = q
                           /\ Announcement(r)' = Announcement(r)
    BY <1>1 DEF Announcement
  <1>8. ASSUME NEW r \in Request
        PROVE  /\ Queueing(r)' <=> Queueing(r) \/ r = q
               /\ Forwarding(r)' => Forwarding(r) /\ r # q
    <2>1. Queueing(r)' <=> Queueing(r) \/ r = q
      BY <1>4, <1>7 DEF Queueing
    <2>2. ASSUME Forwarding(r)' PROVE Forwarding(r) /\ r # q
      <3>1. TurnOf[r] \in Turn /\ Once(pend[TurnOf[r]], r)
        BY TaskAssumption DEF TaskAssumption, AnnounceInv, ChannelInv
      <3>2. CASE TurnOf[r] = t
        BY <1>6, <2>2, <3>1, <3>2 DEF Forwarding
      <3>3. CASE TurnOf[r] # t
        BY <1>2, <1>5, <2>2, <3>1, <3>3 DEF Forwarding
      <3> QED BY <3>2, <3>3
    <2> QED BY <2>1, <2>2
  <1>9. Forwarding(q) /\ ~Queueing(q)
    BY <1>1, <1>2 DEF Forwarding, AnnounceInv, ChannelInv
  <1>10. ChannelInv'
    <2>1. ASSUME NEW u \in Turn, NEW r \in Request, Occurs(pend'[u], r) PROVE TurnOf[r] = u
      BY <1>5, <1>6, <2>1 DEF AnnounceInv, ChannelInv
    <2>2. ASSUME NEW c \in Command, c.op = "pending", Occurs(queue', c)
          PROVE  c = Announcement(c.req)'
      <3>1. CASE c = Announcement(q)
        BY <3>1 DEF Announcement
      <3>2. CASE Occurs(queue, c)
        BY <2>2, <3>2 DEF AnnounceInv, ChannelInv, Announcement
      <3> QED BY <1>4, <2>2, <3>1, <3>2
    <2>3. ASSUME NEW r \in Request
          PROVE  /\ Once(queue', Announcement(r)') /\ Once(pend'[TurnOf[r]], r)
                 /\ ~(Queueing(r)' /\ Forwarding(r)')
      <3>1. Once(queue', Announcement(r)')
        BY <1>4, <1>7, <1>9 DEF AnnounceInv, ChannelInv, Queueing
      <3>2. Once(pend'[TurnOf[r]], r)
        BY <1>5, <1>6, TaskAssumption DEF TaskAssumption, AnnounceInv, ChannelInv
      <3>3. ~(Queueing(r)' /\ Forwarding(r)')
        BY <1>8 DEF AnnounceInv, ChannelInv
      <3> QED BY <3>1, <3>2, <3>3
    <2> QED BY <2>1, <2>2, <2>3 DEF ChannelInv
  <1> QED BY <1>8, <1>9, <1>10 DEF InFlight

LEMMA ChannelStep ==
    ASSUME OwnerInv, OfferInv, AnnounceInv, [Next]_vars
    PROVE  ChannelInv' /\ \A r \in Request : InFlight(r)' => InFlight(r) \/ Offering(r)
  <1> USE DEF OwnerInv
  <1>1. ASSUME UNCHANGED pend,
               \A c \in Command : c.op = "pending" =>
                   /\ Occurs(queue', c) => Occurs(queue, c)
                   /\ Once(queue, c) => Once(queue', c)
        PROVE  ChannelInv' /\ \A r \in Request : InFlight(r)' => InFlight(r)
    <2>1. \A r \in Request : /\ Announcement(r) \in Command /\ Announcement(r).op = "pending"
                             /\ Announcement(r)' = Announcement(r)
      BY TaskAssumption DEF TaskAssumption, Announcement, Command
    <2>2. \A r \in Request : /\ Queueing(r)' => Queueing(r)
                             /\ Forwarding(r)' <=> Forwarding(r)
      BY <1>1, <2>1 DEF Queueing, Forwarding
    <2>3. \A t \in Turn, r \in Request : Occurs(pend'[t], r) => TurnOf[r] = t
      BY <1>1 DEF AnnounceInv, ChannelInv
    <2>4. \A c \in Command : c.op = "pending" /\ Occurs(queue', c) => c = Announcement(c.req)'
      BY <1>1 DEF AnnounceInv, ChannelInv, Announcement
    <2>5. \A r \in Request : /\ Once(queue', Announcement(r)') /\ Once(pend'[TurnOf[r]], r)
                             /\ ~(Queueing(r)' /\ Forwarding(r)')
      BY <1>1, <2>1, <2>2 DEF AnnounceInv, ChannelInv
    <2> QED BY <2>2, <2>3, <2>4, <2>5 DEF ChannelInv, InFlight
  <1>2. CASE UNCHANGED <<queue, pend>>
    BY <1>1, <1>2
  <1>3. CASE queue # <<>> /\ queue' = Tail(queue) /\ UNCHANGED pend
    BY <1>1, <1>3, TailOccurs DEF OwnerTypeOK
  <1>4. ASSUME NEW op, NEW t, NEW r, op # "pending", Enqueue(op, t, r),
               [op |-> op, turn |-> t, req |-> r] \in Command, UNCHANGED pend
        PROVE  ChannelInv' /\ \A q \in Request : InFlight(q)' => InFlight(q)
    <2>1. queue' = Append(queue, [op |-> op, turn |-> t, req |-> r]) /\ queue \in Seq(Command)
      BY <1>4 DEF Enqueue, OwnerTypeOK
    <2>2. \A c \in Command : c.op = "pending" => c # [op |-> op, turn |-> t, req |-> r]
      BY <1>4
    <2> QED BY <1>1, <1>4, <2>1, <2>2, AppendOccurs
  <1> QED BY <1>2, <1>3, <1>4, ChannelMoves, OfferChannel, ForwardChannel

\* The owner records a request when it takes its announcement, which was the only one.
LEMMA RegistersOnce ==
    ASSUME OwnerInv, AnnounceInv, NEW r \in Request, Registers(r)
    PROVE  appr[r] = "none" /\ ~InFlight(r)'
  <1> USE DEF OwnerInv
  <1>1. /\ queue # <<>> /\ queue' = Tail(queue) /\ UNCHANGED pend
        /\ Head(queue) \in Command /\ Head(queue).op = "pending" /\ Head(queue).req = r
    BY HeadType DEF Registers, RegisterPending, Receive
  <1>2. Head(queue) = Announcement(r) /\ Queueing(r)
    BY <1>1, TailOccurs DEF AnnounceInv, ChannelInv, Queueing, OwnerTypeOK
  <1>3. ~Queueing(r)'
    <2>1. Once(queue, Announcement(r)) /\ Announcement(r)' = Announcement(r)
      BY DEF AnnounceInv, ChannelInv, Announcement
    <2> QED BY <1>1, <1>2, <2>1, TailOccurs DEF Queueing, OwnerTypeOK
  <1>4. ~Forwarding(r)'
    BY <1>1, <1>2 DEF AnnounceInv, ChannelInv, Forwarding
  <1> QED BY <1>2, <1>3, <1>4 DEF AnnounceInv, InFlight

\* Only the owner's handler of an approve command sends Allow, and it claims the
\* record with it.
LEMMA AllowClaims ==
    ASSUME OwnerInv, [Next]_vars, NEW r \in Request, dec[r] # "allow", dec'[r] = "allow"
    PROVE  appr'[r] = "delivering"
  <1> USE DEF OwnerInv
  <1>1. ASSUME NEW D, DropSenders(D) PROVE FALSE
    BY <1>1 DEF DropSenders
  <1>2. ASSUME NEW q \in Request, NEW d, NEW hold, AuthorityDecides(q, d, hold)
        PROVE  q = r /\ d = "allow"
    BY <1>2 DEF AuthorityDecides, TaskTypeOK
  <1>3. CASE Decide
    <2>1. Head(queue).req \in Request
      BY <1>3, HeadType, CommandTypes DEF Decide
    <2> QED BY <1>2, <1>3, <2>1 DEF Decide, OwnerTypeOK, taskVars, approvalVars
  <1>4. CASE RegisterPending
    <2>1. Head(queue).req \in Request
      BY <1>4, HeadType, CommandTypes DEF RegisterPending
    <2> QED BY <1>2, <1>4, <2>1 DEF RegisterPending, taskVars, approvalVars
  <1>5. CASE DeliverCancel
    <2>1. oset \subseteq Request /\ CancelDecision # "allow"
      BY DEF OwnerTypeOK, CancelDecision
    <2> QED BY <1>1, <1>2, <1>5, <2>1 DEF DeliverCancel, FailCancel, AuthorityLetsGo
  <1>6. CASE DeliverCancelReturns \/ Finished \/ SendInterrupt \/ HearAck \/ AckTimesOut
    BY <1>1, <1>6
       DEF DeliverCancelReturns, FailCancel, Finished, SendInterrupt, HearAck, AckTimesOut,
           AuthorityLetsGo, AuthorityInterrupts, AuthorityStopsWaiting, taskVars, approvalVars
  <1>7. CASE \/ ReceiveBootstrap \/ ReceiveRead \/ CreateTurn \/ Subscribe \/ DecideReturns
             \/ DenyReturns \/ Cancel
    BY <1>7 DEF ReceiveBootstrap, ReceiveRead, CreateTurn, Subscribe, DecideReturns, DenyReturns,
                Cancel, AuthorityStarts, taskVars, approvalVars
  <1>8. CASE UNCHANGED taskVars
    BY <1>8 DEF taskVars, approvalVars
  <1>9. ASSUME NEW t \in Turn, TaskStep(t) \/ ServerStep(t) PROVE FALSE
    <2>1. LocalStep(t) \/ ChildStep(t) \/ Offer(t) \/ Finish(t) \/ UNCHANGED taskVars
      BY <1>9 DEF TaskStep, TaskRuns, OfferPending, Forward, SendFinished, ServerStep
    <2> QED BY <1>8, <2>1, ExecutionOneshots DEF Keeps, Closing, Offering, taskVars, approvalVars
  <1>10. CASE Next /\ ~OwnerStep
    <2>1. \/ \E t \in Turn : TaskStep(t) \/ ServerStep(t)
          \/ UNCHANGED taskVars
      BY <1>10 DEF Next, TurnTimerFires, ApprovalTimerFires, SendBootstrap, HttpCall,
                   SseSubscribes, SseStops, SendDrop
    <2> QED BY <1>8, <1>9, <2>1
  <1>11. CASE UNCHANGED vars
    BY <1>8, <1>11 DEF vars
  <1> QED BY <1>3, <1>4, <1>5, <1>6, <1>7, <1>10, <1>11 DEF OwnerStep

LEMMA AnnounceStep ==
    ASSUME OwnerInv, OfferInv, RecordInv, AnnounceInv, [Next]_vars
    PROVE  AnnounceInv'
  <1> USE DEF OwnerInv
  <1>1. ASSUME NEW r \in Request, appr[r] = "none" PROVE Remains(r) \/ Registers(r)
    BY <1>1, RecordMoves DEF Leaves, Settles, DecideReturns, RecordInv
  <1>2. ASSUME NEW r \in Request, Offering(r) PROVE dec[r] = "none" /\ dec'[r] = "open"
    BY <1>2 DEF Offering, Offer, OfferInv
  <1>3. ASSUME NEW r \in Request, InFlight(r)' PROVE appr'[r] = "none"
    <2>1. appr[r] = "none"
      BY <1>2, <1>3, ChannelStep DEF AnnounceInv
    <2> QED BY <1>1, <1>3, <2>1, RegistersOnce DEF Remains
  <1>4. ASSUME NEW r \in Request, dec'[r] = "none" PROVE appr'[r] = "none" /\ ~InFlight(r)'
    <2>1. dec[r] = "none" /\ ~Offering(r)
      BY <1>2, <1>4, NextIsTask, OneshotMoves DEF Keeps, Closing, Offering, Deciding, Sent
    <2>2. appr[r] = "none" /\ ~InFlight(r)
      BY <2>1 DEF AnnounceInv
    <2>3. ~Registers(r)
      <3>1. ASSUME Registers(r) PROVE Queueing(r)
        <4>1. /\ queue # <<>> /\ Head(queue) \in Command
              /\ Head(queue).op = "pending" /\ Head(queue).req = r
          BY <3>1, HeadType DEF Registers, RegisterPending, Receive
        <4> QED BY <4>1, TailOccurs DEF AnnounceInv, ChannelInv, Queueing, OwnerTypeOK
      <3> QED BY <2>2, <3>1 DEF InFlight
    <2> QED BY <1>1, <2>1, <2>2, <2>3, ChannelStep DEF Remains
  <1>5. ASSUME NEW r \in Request, dec'[r] = "allow" PROVE appr'[r] \in Claimed
    <2>1. CASE dec[r] = "allow"
      <3>1. appr[r] \in Claimed
        BY <2>1 DEF AnnounceInv
      <3>2. ~Registers(r)
        BY <3>1, RegistersOnce DEF Claimed
      <3> QED BY <3>1, <3>2, RecordMoves DEF Remains, Leaves, Settles, Decided, Claimed
    <2>2. CASE dec[r] # "allow"
      BY <1>5, <2>2, AllowClaims DEF Claimed
    <2> QED BY <2>1, <2>2
  <1> QED BY <1>3, <1>4, <1>5, ChannelStep DEF AnnounceInv

LEMMA AnnounceAlways == Spec => [](RecordInv /\ AnnounceInv)
  <1>1. Init => AnnounceInv
    <2> SUFFICES ASSUME Init PROVE AnnounceInv
      OBVIOUS
    <2>1. /\ \A x : ~Occurs(queue, x) /\ Once(queue, x)
          /\ \A t \in Turn : \A x : ~Occurs(pend[t], x) /\ Once(pend[t], x)
      BY DEF Init, Occurs, Once
    <2>2. \A r \in Request : dec[r] = "none" /\ appr[r] = "none"
      BY DEF Init, TaskInit
    <2> QED BY <2>1, <2>2, TaskAssumption
            DEF TaskAssumption, AnnounceInv, ChannelInv, InFlight, Queueing, Forwarding
  <1>2. Spec => []OfferInv
    BY ServerImplementsTask, OfferAlways
  <1>3. OwnerInv /\ OfferInv /\ RecordInv /\ AnnounceInv /\ [Next]_vars => AnnounceInv'
    BY AnnounceStep
  <1> QED BY <1>1, <1>2, <1>3, OwnerInvAlways, RecordAlways, PTL DEF Spec

\* An Allow on the wire belongs to an approval the owner registered, and claimed for a
\* client that approved it: never to a refused, oversized or unregistered request, nor
\* to one whose announcement is still on its way.
THEOREM AllowsAreRegistered == Spec => []AllowWasRegistered
  <1>1. OwnerInv /\ RecordInv /\ AnnounceInv => AllowWasRegistered
    <2> SUFFICES ASSUME OwnerInv, RecordInv, AnnounceInv, NEW r \in Request, wire[r] = "allow"
                 PROVE  appr[r] \in Claimed /\ r \notin Oversized
      BY DEF AllowWasRegistered, Claimed
    <2>1. appr[r] \in Claimed
      BY DEF OwnerInv, WireInv, GrantIsAuthorised, AnnounceInv
    <2> QED BY <2>1 DEF RecordInv, Claimed
  <1> QED BY <1>1, OwnerInvAlways, AnnounceAlways, PTL

===============================================================================
