----------------------------- MODULE RuntimeOwner -----------------------------
(***************************************************************************)
(* The HTTP server's runtime owner (src/src/api.rs): one actor that takes   *)
(* commands from a bounded queue and, while it handles one, takes no other. *)
(* It creates turns, each run by a TurnTask, registers the approvals their  *)
(* children ask for, delivers decisions, and cancels turns.  HTTP clients,  *)
(* the event stream that controls a turn, the timers and the executions all *)
(* reach it through the queue and wait for room in it.                      *)
(***************************************************************************)
EXTENDS TurnTask, Sequences

CONSTANTS
    NoTurn,        \* not a turn
    Live,          \* started with a live launcher: not ready before bootstrap
    QueueCap,      \* OWNER_COMMAND_CAPACITY
    TurnCap,       \* MAX_TURNS
    ApprovalCap,   \* MAX_APPROVALS
    Oversized,     \* requests whose event exceeds MAX_EVENT_BYTES
    MaxCalls       \* bound of the model: calls the HTTP clients make

ASSUME OwnerAssumption ==
    /\ Turn \subseteq Nat /\ NoTurn \notin Turn
    /\ Live \in BOOLEAN
    /\ QueueCap \in Nat \ {0} /\ TurnCap \in Nat \ {0} /\ ApprovalCap \in Nat
    /\ Oversized \subseteq Request
    /\ MaxCalls \in Nat

VARIABLES
    queue,     \* the commands sent to the owner and not yet taken
    ready,     \* snapshot.ready
    status,    \* the TurnRecord statuses; "none" and "pruned": no record
    active,    \* active_turns
    lease,     \* controlling_sse_active
    appr,      \* the ApprovalRecord statuses; "none" and "gone": no record
    opc,       \* what the owner awaits
    oturn,     \* the turn it is interrupting
    oauth,     \* on whose authority
    oset,      \* the approvals it claimed and has not yet delivered
    ocur,      \* the approval it is delivering
    pend,      \* pending approvals between the handler and the queue
    turnTimer, approvalTimer,   \* timers that have not fired
    sse,       \* the controlling event stream of a turn
    booted,    \* the bootstrap command has been sent
    calls      \* HTTP calls made

ownerVars == <<queue, ready, status, active, lease, appr, opc, oturn, oauth, oset, ocur,
               pend, turnTimer, approvalTimer, sse, booted, calls>>
vars == <<taskVars, ownerVars>>

-------------------------------------------------------------------------------
Active == {"running", "waiting"}
Terminal == {"interrupted", "completed", "failed"}
Cancels == {"interrupt", "drop", "approval_timeout", "turn_deadline"}

\* OwnerCommand, by what each names.
Command ==
    [op : {"bootstrap", "read", "create"}, turn : {NoTurn}, req : {NoRequest}]
    \cup [op : {"interrupt", "drop", "turn_deadline", "subscribe", "finished"},
          turn : Turn, req : {NoRequest}]
    \cup [op : {"approval_timeout", "pending"}, turn : Turn, req : Request]
    \cup [op : {"approve", "deny"}, turn : {NoTurn}, req : Request]

OwnerTypeOK ==
    /\ queue \in Seq(Command)
    /\ ready \in BOOLEAN
    /\ status \in [Turn -> {"none", "pruned"} \cup Active \cup Terminal]
    /\ active \in Nat
    /\ lease \in [Turn -> BOOLEAN]
    /\ appr \in [Request -> {"none", "pending", "delivering", "approved", "denied", "gone"}]
    /\ opc \in {"recv", "decide", "deny", "claim", "deliver", "ack"}
    /\ oturn \in Turn \cup {NoTurn}
    /\ oauth \in Cancels \cup {"none"}
    /\ oset \in SUBSET Request
    /\ ocur \in Request \cup {NoRequest}
    /\ pend \in [Turn -> Seq(Request)]
    /\ turnTimer \in [Turn -> BOOLEAN]
    /\ approvalTimer \in [Request -> BOOLEAN]
    /\ sse \in [Turn -> {"none", "waiting", "lost", "guarded", "dropping"}]
    /\ booted \in BOOLEAN
    /\ calls \in 0 .. MaxCalls

TypeOK == TaskTypeOK /\ OwnerTypeOK

Init ==
    /\ TaskInit
    /\ queue = <<>>
    /\ ready = ~Live
    /\ status = [t \in Turn |-> "none"]
    /\ active = 0
    /\ lease = [t \in Turn |-> FALSE]
    /\ appr = [r \in Request |-> "none"]
    /\ opc = "recv" /\ oturn = NoTurn /\ oauth = "none" /\ oset = {} /\ ocur = NoRequest
    /\ pend = [t \in Turn |-> <<>>]
    /\ turnTimer = [t \in Turn |-> FALSE]
    /\ approvalTimer = [r \in Request |-> FALSE]
    /\ sse = [t \in Turn |-> "none"]
    /\ booted = FALSE
    /\ calls = 0

-------------------------------------------------------------------------------
\* A sender waits until the queue has room.
Enqueue(op, t, r) ==
    /\ Len(queue) < QueueCap
    /\ queue' = Append(queue, [op |-> op, turn |-> t, req |-> r])

\* The owner takes the next command, if it is one of ops.
Receive(ops) ==
    /\ opc = "recv" /\ queue # <<>> /\ Head(queue).op \in ops
    /\ queue' = Tail(queue)

recordVars == <<ready, status, active, lease, appr>>
cancelVars == <<oturn, oauth, oset>>
handleVars == <<opc, cancelVars, ocur>>
clientVars == <<turnTimer, approvalTimer, sse, booted, calls>>

\* Mutants of Open: terminalize may repeat; it forgets turns that wait.
Recorded(t) == status[t] # "none"
OpenIfRunning(t) == status[t] = "running"

\* A turn with a record that is not terminal.
Open(t) == status[t] \in Active

\* Mutant of Undecided: approvals whose handler has gone are forgotten.
UndecidedAndHeard(t) == {r \in OpenSenders : TurnOf[r] = t /\ appr[r] = "pending"}

\* The approvals of a turn that terminalize denies.
Undecided(t) == {r \in Request : TurnOf[r] = t /\ appr[r] = "pending"}

\* terminalize: a no-op on a terminal or unknown turn.
Terminalize(t, s) ==
    IF Open(t)
      THEN /\ status' = [status EXCEPT ![t] = s]
           /\ active' = IF active = 0 THEN 0 ELSE active - 1
           /\ appr' = [r \in Request |-> IF r \in Undecided(t) THEN "denied" ELSE appr[r]]
      ELSE UNCHANGED <<status, active, appr>>

\* The decision senders terminalize takes from the records and drops.
Orphaned(t) == {r \in OpenSenders : Open(t) /\ r \in Undecided(t)}

\* The outcome of a finished execution as the status of its turn.
FinalStatus(o) == IF o \in Success THEN o ELSE "failed"

-------------------------------------------------------------------------------
(* The owner: one command at a time. *)

ReceiveBootstrap ==
    /\ Receive({"bootstrap"})
    /\ ready' \in BOOLEAN
    /\ UNCHANGED <<taskVars, status, active, lease, appr, handleVars, pend, clientVars>>

\* Snapshot and GetTurn.
ReceiveRead ==
    /\ Receive({"read"})
    /\ UNCHANGED <<taskVars, recordVars, handleVars, pend, clientVars>>

Retained == {t \in Turn : status[t] \in Active \cup Terminal}
NextTurn(t) == status[t] = "none" /\ \A u \in Turn : u < t => status[u] # "none"

\* prune_terminal_records, when the turn table is full: terminal turns go, and
\* with them their approvals, except pending ones.
Pruned(t) == status[t] \in Terminal /\ Cardinality(Retained) >= TurnCap

CreateTurn ==
    /\ Receive({"create"})
    /\ IF ready /\ active = 0
         THEN \E t \in Turn :
                /\ NextTurn(t)
                /\ status' = [u \in Turn |-> IF u = t THEN "running"
                                ELSE IF Pruned(u) THEN "pruned" ELSE status[u]]
                /\ appr' = [r \in Request |->
                              IF Pruned(TurnOf[r]) /\ appr[r] \notin {"none", "pending"}
                                THEN "gone" ELSE appr[r]]
                /\ active' = active + 1
                /\ turnTimer' = [turnTimer EXCEPT ![t] = TRUE]
                /\ AuthorityStarts(t)
         ELSE UNCHANGED <<taskVars, status, appr, active, turnTimer>>
    /\ UNCHANGED <<ready, lease, handleVars, pend, approvalTimer, sse, booted, calls>>

\* owner_subscribe: the lease is taken before anyone knows whether the reply
\* still has a receiver; only a stream that gets it holds a drop guard.
Subscribe ==
    /\ Receive({"subscribe"})
    /\ LET t == Head(queue).turn
           controller == Open(t) /\ ~lease[t]
       IN  /\ lease' = [lease EXCEPT ![t] = @ \/ controller]
           /\ sse' = [sse EXCEPT ![t] = IF @ = "waiting" /\ controller THEN "guarded"
                                          ELSE "none"]
    /\ UNCHANGED <<taskVars, ready, status, active, appr, handleVars, pend, turnTimer,
                   approvalTimer, booted, calls>>

\* owner_decide up to the delivery: claim, then send on the decision oneshot,
\* which fails at once when the handler no longer listens.
Decide ==
    /\ Receive({"approve", "deny"})
    /\ LET r == Head(queue).req
           d == IF Head(queue).op = "approve" THEN "allow" ELSE "deny"
       IN  \/ /\ appr[r] # "pending"
              /\ UNCHANGED <<taskVars, appr, opc, ocur>>
           \/ /\ appr[r] = "pending" /\ dec[r] # "open"
              /\ appr' = [appr EXCEPT ![r] = "denied"]
              /\ UNCHANGED <<taskVars, opc, ocur>>
           \/ /\ appr[r] = "pending"
              /\ AuthorityDecides(r, d, FALSE)
              /\ appr' = [appr EXCEPT ![r] = "delivering"]
              /\ opc' = "decide" /\ ocur' = r
    /\ UNCHANGED <<ready, status, active, lease, cancelVars, pend, clientVars>>

\* Mutant of Decided: the fate of the delivery is ignored.
DecidedUndelivered(r) == IF dec[r] = "allow" THEN "approved" ELSE "denied"

\* The status of an approval whose decision was delivered, or failed or timed out.
Decided(r) == IF dack[r] = "delivered" /\ dec[r] = "allow" THEN "approved" ELSE "denied"

DecideReturns ==
    /\ opc = "decide"
    /\ appr' = [appr EXCEPT ![ocur] = Decided(ocur)]
    /\ opc' = "recv" /\ ocur' = NoRequest
    /\ UNCHANGED <<taskVars, queue, ready, status, active, lease, cancelVars, pend,
                   clientVars>>

ApprovalRecords == {r \in Request : appr[r] \notin {"none", "gone"}}
TableFull == Cardinality(ApprovalRecords) >= ApprovalCap

\* Mutant of Refused: the size of the event is not checked.
RefusedForTheTurn(r) == r \notin Reviewable \/ ~Open(TurnOf[r]) \/ TableFull

Refused(r) == r \notin Reviewable \ Oversized \/ ~Open(TurnOf[r]) \/ TableFull

\* owner_register_pending: refused requests are denied without a record.
RegisterPending ==
    /\ Receive({"pending"})
    /\ LET r == Head(queue).req
           t == TurnOf[r]
           refused == Refused(r)
       IN  \/ /\ refused /\ dec[r] = "open"
              /\ AuthorityDecides(r, "deny", FALSE)
              /\ opc' = "deny" /\ ocur' = r
              /\ UNCHANGED <<status, appr, approvalTimer>>
           \/ /\ refused /\ dec[r] # "open"
              /\ UNCHANGED <<taskVars, opc, ocur, status, appr, approvalTimer>>
           \/ /\ ~refused
              /\ status' = [status EXCEPT ![t] = "waiting"]
              /\ appr' = [appr EXCEPT ![r] = "pending"]
              /\ approvalTimer' = [approvalTimer EXCEPT ![r] = TRUE]
              /\ UNCHANGED <<taskVars, opc, ocur>>
    /\ UNCHANGED <<ready, active, lease, cancelVars, pend, turnTimer, sse, booted, calls>>

\* deny_pending_approval returns, acknowledged or timed out.
DenyReturns ==
    /\ opc = "deny"
    /\ opc' = "recv" /\ ocur' = NoRequest
    /\ UNCHANGED <<taskVars, queue, recordVars, cancelVars, pend, clientVars>>

Finished ==
    /\ Receive({"finished"})
    /\ LET t == Head(queue).turn
       IN  /\ ready' = (ready /\ outcome[t] \in Success)
           /\ Terminalize(t, FinalStatus(outcome[t]))
           /\ AuthorityLetsGo(Orphaned(t), {})
    /\ UNCHANGED <<lease, handleVars, pend, clientVars>>

-------------------------------------------------------------------------------
(* owner_interrupt: claim, deliver, send, await the acknowledgement. *)

Cancel ==
    /\ Receive(Cancels)
    /\ LET c == Head(queue)
           void == \/ ~Open(c.turn)
                   \/ c.op = "approval_timeout" /\ appr[c.req] # "pending"
           claimed == {r \in Request : TurnOf[r] = c.turn /\ appr[r] = "pending"}
       IN  IF void
             THEN /\ lease' = [lease EXCEPT ![c.turn] = @ /\ c.op # "drop"]
                  /\ UNCHANGED <<appr, opc, cancelVars>>
             ELSE /\ appr' = [r \in Request |-> IF r \in claimed THEN "delivering"
                                                  ELSE appr[r]]
                  /\ opc' = "claim"
                  /\ oturn' = c.turn /\ oauth' = c.op /\ oset' = claimed
                  /\ UNCHANGED lease
    /\ UNCHANGED <<taskVars, ready, status, active, ocur, pend, clientVars>>

\* The handler of the cancel command returns; a stream drop ends the lease.
EndCancel ==
    /\ opc' = "recv" /\ ocur' = NoRequest
    /\ oturn' = NoTurn /\ oauth' = "none" /\ oset' = {}
    /\ lease' = [lease EXCEPT ![oturn] = @ /\ oauth # "drop"]

\* A delivery fails: the approval is denied, the other claimed senders and the
\* resumes are dropped, and the turn is not interrupted.
FailCancel(r) ==
    /\ appr' = [appr EXCEPT ![r] = "denied"]
    /\ AuthorityLetsGo((oset \cap OpenSenders) \ {r}, HeldResumes)
    /\ EndCancel
    /\ UNCHANGED <<queue, ready, status, active, pend, clientVars>>

CancelDecision == IF oauth \in {"approval_timeout", "turn_deadline"} THEN "timeout" ELSE "deny"

DeliverCancel ==
    /\ opc = "claim"
    /\ \E r \in oset :
        \/ /\ AuthorityDecides(r, CancelDecision, TRUE)
           /\ opc' = "deliver" /\ ocur' = r /\ oset' = oset \ {r}
           /\ UNCHANGED <<queue, recordVars, oturn, oauth, pend, clientVars>>
        \/ dec[r] # "open" /\ FailCancel(r)

DeliverCancelReturns ==
    /\ opc = "deliver"
    /\ \/ /\ dack[ocur] = "delivered"
          /\ appr' = [appr EXCEPT ![ocur] = "denied"]
          /\ opc' = "claim" /\ ocur' = NoRequest
          /\ UNCHANGED <<taskVars, queue, ready, status, active, lease, cancelVars, pend,
                         clientVars>>
       \/ dack[ocur] # "delivered" /\ FailCancel(ocur)

\* control.send waits for room in the control channel, without a timeout; it
\* fails when the execution has dropped the receiver.
SendInterrupt ==
    /\ opc = "claim" /\ oset = {}
    /\ \/ /\ AuthorityInterrupts(oturn, HeldResumes)
          /\ opc' = "ack"
          /\ UNCHANGED <<queue, recordVars, cancelVars, ocur, pend, clientVars>>
       \/ /\ pc[oturn] = "done"
          /\ AuthorityLetsGo(Orphaned(oturn), HeldResumes)
          /\ Terminalize(oturn, "failed")
          /\ EndCancel
          /\ UNCHANGED <<queue, ready, pend, clientVars>>

\* cancellation_terminal: only a human or a dropped stream interrupts.
CancelStatus == IF oauth \in {"interrupt", "drop"} THEN "interrupted" ELSE "failed"

\* Mutant of Answered: a timeout is an answer.
AnsweredOrLate(t) == ack[t] # "none"

\* The acknowledgement arrived, or its sender is gone.
Answered(t) == ack[t] \in {"interrupted", "unknown", "dropped"}

\* Mutant of StatusAfterAck: whatever is answered confirms the cancellation.
StatusAfterAnyAck == CancelStatus

StatusAfterAck == IF ack[oturn] = "interrupted" THEN CancelStatus ELSE "failed"

HearAck ==
    /\ opc = "ack" /\ Answered(oturn)
    /\ Terminalize(oturn, StatusAfterAck)
    /\ AuthorityStopsWaiting(oturn, Orphaned(oturn))
    /\ EndCancel
    /\ UNCHANGED <<queue, ready, pend, clientVars>>

\* Mutant of AckTimesOut: the owner gives up on the execution and aborts it.
AckTimeoutAborts ==
    /\ opc = "ack" /\ ack[oturn] = "waiting"
    /\ pc' = [pc EXCEPT ![oturn] = "done"] /\ ack' = [ack EXCEPT ![oturn] = "none"]
    /\ EndCancel
    /\ UNCHANGED <<written, outcome, sess, child, handlerVars, ctl, held, approvalVars,
                   journalVars, queue, ready, status, active, appr, pend, clientVars>>

\* The turn stays as it is; its execution will report by itself.
AckTimesOut ==
    /\ opc = "ack" /\ ack[oturn] = "waiting"
    /\ AuthorityStopsWaiting(oturn, {})
    /\ EndCancel
    /\ UNCHANGED <<queue, ready, status, active, appr, pend, clientVars>>

OwnerStep ==
    \/ ReceiveBootstrap \/ ReceiveRead \/ CreateTurn \/ Subscribe
    \/ Decide \/ DecideReturns \/ RegisterPending \/ DenyReturns \/ Finished
    \/ Cancel \/ DeliverCancel \/ DeliverCancelReturns \/ SendInterrupt
    \/ HearAck \/ AckTimesOut

-------------------------------------------------------------------------------
(* The senders. *)

\* The sends of an execution: a pending approval, through a channel and a
\* forwarding task that hold one each, and the Finished command.
OfferPending(t) ==
    /\ Offer(t) /\ Len(pend[t]) < 2
    /\ pend' = [pend EXCEPT ![t] = Append(@, hreq[t])]
    /\ UNCHANGED <<queue, recordVars, handleVars, clientVars>>

Forward(t) ==
    /\ pend[t] # <<>>
    /\ Enqueue("pending", t, Head(pend[t]))
    /\ pend' = [pend EXCEPT ![t] = Tail(@)]
    /\ UNCHANGED <<taskVars, recordVars, handleVars, clientVars>>

SendFinished(t) ==
    /\ Finish(t) /\ Enqueue("finished", t, NoRequest)
    /\ UNCHANGED <<recordVars, handleVars, pend, clientVars>>

TurnTimerFires(t) ==
    /\ turnTimer[t] /\ Enqueue("turn_deadline", t, NoRequest)
    /\ turnTimer' = [turnTimer EXCEPT ![t] = FALSE]
    /\ UNCHANGED <<taskVars, recordVars, handleVars, pend, approvalTimer, sse, booted, calls>>

ApprovalTimerFires(r) ==
    /\ approvalTimer[r] /\ Enqueue("approval_timeout", TurnOf[r], r)
    /\ approvalTimer' = [approvalTimer EXCEPT ![r] = FALSE]
    /\ UNCHANGED <<taskVars, recordVars, handleVars, pend, turnTimer, sse, booted, calls>>

\* serve and app_with_launcher send one Bootstrap when they start.
SendBootstrap ==
    /\ ~booted /\ Enqueue("bootstrap", NoTurn, NoRequest)
    /\ booted' = TRUE
    /\ UNCHANGED <<taskVars, recordVars, handleVars, pend, turnTimer, approvalTimer, sse, calls>>

\* HTTP clients name turns and approvals they have been told of.
Queued(op) == {i \in DOMAIN queue : queue[i].op = op}
Unused == {t \in Turn : status[t] = "none"}

HttpCall ==
    /\ calls < MaxCalls /\ calls' = calls + 1
    /\ \/ Enqueue("read", NoTurn, NoRequest)
       \/ Cardinality(Queued("create")) < Cardinality(Unused)
          /\ Enqueue("create", NoTurn, NoRequest)
       \/ \E t \in Turn \ Unused : Enqueue("interrupt", t, NoRequest)
       \/ \E r \in Request : appr[r] # "none" /\ \/ Enqueue("approve", NoTurn, r)
                                                 \/ Enqueue("deny", NoTurn, r)
    /\ UNCHANGED <<taskVars, recordVars, handleVars, pend, turnTimer, approvalTimer, sse, booted>>

\* turn_events: subscribe, perhaps without waiting for the reply; the stream
\* ends on the terminal event or a disconnect, and its guard sends the drop.
SseSubscribes(t) ==
    /\ calls < MaxCalls /\ calls' = calls + 1
    /\ status[t] # "none" /\ sse[t] = "none" /\ Enqueue("subscribe", t, NoRequest)
    /\ sse' = [sse EXCEPT ![t] = "waiting"]
    /\ UNCHANGED <<taskVars, recordVars, handleVars, pend, turnTimer, approvalTimer, booted>>

SseStops(t) ==
    /\ sse[t] \in {"waiting", "guarded"}
    /\ sse' = [sse EXCEPT ![t] = IF @ = "waiting" THEN "lost" ELSE "dropping"]
    /\ UNCHANGED <<taskVars, queue, recordVars, handleVars, pend, turnTimer, approvalTimer,
                   booted, calls>>

SendDrop(t) ==
    /\ sse[t] = "dropping" /\ Enqueue("drop", t, NoRequest)
    /\ sse' = [sse EXCEPT ![t] = "none"]
    /\ UNCHANGED <<taskVars, recordVars, handleVars, pend, turnTimer, approvalTimer, booted,
                   calls>>

\* What an execution does, and what it sends.
TaskRuns(t) == LocalStep(t) /\ UNCHANGED ownerVars
TaskStep(t) == TaskRuns(t) \/ OfferPending(t) \/ Forward(t) \/ SendFinished(t)
ServerStep(t) == ChildStep(t) /\ UNCHANGED ownerVars

Next ==
    \/ OwnerStep
    \/ \E t \in Turn : TaskStep(t) \/ ServerStep(t) \/ TurnTimerFires(t)
                       \/ SseSubscribes(t) \/ SseStops(t) \/ SendDrop(t)
    \/ \E r \in Request : ApprovalTimerFires(r)
    \/ SendBootstrap \/ HttpCall

Spec == Init /\ [][Next]_vars

\* Tasks are polled and timers fire; clients and app-servers may stay silent.
FairSpec ==
    /\ Spec
    /\ WF_vars(OwnerStep)
    /\ WF_vars(SendBootstrap)
    /\ \A t \in Turn : /\ WF_vars(TaskRuns(t) \/ OfferPending(t) \/ SendFinished(t))
                       /\ WF_vars(Forward(t))
                       /\ WF_vars(TurnTimerFires(t))
                       /\ WF_vars(SendDrop(t))
    /\ \A r \in Request : WF_vars(ApprovalTimerFires(r))

-------------------------------------------------------------------------------
(* Properties. *)

\* api.rs:575, 1144-1164: the admission counter counts exactly the turns that are
\* not terminal, and there is at most one: no path of an interrupt, a deadline, an
\* approval or a late Finished releases the slot twice or not at all.
ActiveTurnsCounted ==
    \/ active = 0 /\ \A t \in Turn : status[t] \notin Active
    \/ active = 1 /\ \E t \in Turn : \A u \in Turn : status[u] \in Active <=> u = t

\* api.rs:937-939, 1012-1015, ADR-005: a turn is terminal only when its child is
\* reaped, so that no two app-servers ever run and no status precedes the process.
TerminalMeansReaped ==
    \A t \in Turn : status[t] \notin Active => child[t] \notin {"up", "gone"}

\* api.rs:1165-1175: a terminal turn leaves no approval open to a decision, in
\* whatever order a Pending command and the end of the turn reach the owner.
NoPendingOnTerminal ==
    \A r \in Request : appr[r] = "pending" => status[TurnOf[r]] \in Active

\* client.rs:690-692, api.rs:848-857: an approval shown as approved has had its
\* Allow flushed to the app-server.
ApprovedMeansAllowed == \A r \in Request : appr[r] = "approved" => wire[r] = "allow"

\* api.rs:831-870: an Allow on the wire belongs to an approval the owner registered
\* and a client approved, never to a refused, oversized or unregistered request.
AllowWasRegistered ==
    \A r \in Request : wire[r] = "allow" =>
        appr[r] \in {"delivering", "approved", "denied", "gone"} /\ r \notin Oversized

\* api.rs:980-1015: a turn reported interrupted was interrupted by a confirmed
\* cancellation in the journal, or its app-server reported so itself.
InterruptedIsConfirmed ==
    \A t \in Turn : status[t] = "interrupted" =>
        jexec[t] = "interrupted" \/ outcome[t] = "interrupted"

\* api.rs:1151-1163: the first terminal status stands, whichever of the ack, the
\* Finished command and a second cancel comes later.
TerminalIsFinal ==
    [][\A t \in Turn : status[t] \in Terminal => status'[t] \in {status[t], "pruned"}]_vars

\* orchestrator.rs:684-1003, api.rs:651-686: every created turn ends, though the
\* app-server, the clients and the event stream may do nothing.
TurnEnds == \A t \in Turn : status[t] \in Active ~> status[t] \notin Active

(* Properties the sources state and the code does not have. *)

\* client.rs:690-692 says that an approval is not considered decided until the owner
\* has flushed the response: one the API reports as denied was not granted.
DeniedIsNotGranted == \A r \in Request : appr[r] = "denied" => wire[r] # "allow"

\* tests/cp6_local_http_sse.rs:357-358 says that the first controlling stream owns
\* cancellation and that dropping it terminalizes: a lease that is taken belongs to a
\* stream that will drop it.
LeaseHasGuard ==
    \A t \in Turn : lease[t] =>
        \/ sse[t] \in {"guarded", "dropping"}
        \/ \E i \in Queued("drop") : queue[i].turn = t
        \/ oauth = "drop" /\ oturn = t

\* api.rs:365-367 says that backpressure may "delay, never discard" the cancellation a
\* dropped controller asks for: the command is sent in the end.
DropIsDelivered == \A t \in Turn : sse[t] = "dropping" ~> sse[t] # "dropping"
===============================================================================
