------------------------------- MODULE TurnTask -------------------------------
(***************************************************************************)
(* One protocol execution: run_turn_with_launcher_controlled_with_journal   *)
(* and run_controlled_flow (src/src/orchestrator.rs), the app-server child  *)
(* it owns, and the handler of the approval requests the child sends while  *)
(* the execution is reading (src/src/client.rs).                            *)
(*                                                                         *)
(* The authority that answers approvals and interrupts the turn is open     *)
(* here: the actions named Authority... say all it may do to the shared     *)
(* channels.  RuntimeOwner supplies the authority the server really has.    *)
(***************************************************************************)
EXTENDS SessionState, Naturals, FiniteSets

CONSTANTS
    Turn,          \* the turns, one execution each
    Request,       \* the JSON-RPC approval requests the children may send
    NoRequest,     \* not a request
    Key,           \* approval request keys
    TurnOf,        \* the turn whose child sends a request
    KeyOf,         \* approval_request_key of a request
    Reviewable,    \* requests whose descriptor is complete (allow_permitted)
    SeenCap,       \* MAX_SEEN_APPROVALS
    StorageFails   \* may a journal append or the removal of the cwd fail?

ASSUME TaskAssumption ==
    /\ NoRequest \notin Request
    /\ TurnOf \in [Request -> Turn]
    /\ KeyOf \in [Request -> Key]
    /\ Reviewable \subseteq Request
    /\ SeenCap \in Nat \ {0}
    /\ StorageFails \in BOOLEAN

VARIABLES
    pc,        \* where the execution of a turn is
    written,   \* RequestDelivery of the RPC in flight: its write has started
    outcome,   \* the result run_controlled_flow produced
    sess,      \* TurnState of the client's SessionState
    child,     \* the app-server process
    seen,      \* SeenApprovals: the request keys handled so far
    hreq,      \* the server request being handled
    stage,     \* where its handler is
    ctl,       \* the control channel, capacity 1
    held,      \* the Interrupt the execution has taken from it
    ack,       \* the acknowledgement of the interrupt the authority waits on
    wire,      \* a server request and the response on its original id
    dec,       \* the decision oneshot of a request
    dack,      \* the delivery acknowledgement of a sent decision
    resume,    \* the resume oneshot of a cancellation decision
    jexec,     \* the durable execution record
    jappr      \* the durable record of an approval

flowVars == <<pc, written, outcome, sess, child>>
handlerVars == <<seen, hreq, stage>>
controlVars == <<ctl, held, ack>>
approvalVars == <<wire, dec, dack, resume>>
journalVars == <<jexec, jappr>>
taskVars == <<flowVars, handlerVars, controlVars, approvalVars, journalVars>>

-------------------------------------------------------------------------------
Phase == {"absent", "launch", "admit", "thread", "turn", "wait", "intr", "intrwait",
          "settle", "reap", "report", "finish", "drop", "done"}
Success == {"completed", "interrupted", "failed"}       \* Ok(turn_status=...)
Failure == {"ambiguous", "deadline", "error"}           \* Err(...)
Sent == {"allow", "deny", "timeout"}                    \* ApprovalDecision

TaskTypeOK ==
    /\ pc \in [Turn -> Phase]
    /\ written \in [Turn -> BOOLEAN]
    /\ outcome \in [Turn -> {"none"} \cup Success \cup Failure]
    /\ sess \in [Turn -> TurnState]
    /\ child \in [Turn -> {"none", "up", "gone", "reaped"}]
    /\ seen \in [Turn -> SUBSET Key]
    /\ hreq \in [Turn -> Request \cup {NoRequest}]
    /\ stage \in [Turn -> {"none", "offer", "await", "respond", "resume"}]
    /\ ctl \in [Turn -> {"empty", "live", "stale"}]
    /\ held \in [Turn -> {"none", "live", "stale"}]
    /\ ack \in [Turn -> {"none", "waiting", "interrupted", "unknown", "dropped"}]
    /\ wire \in [Request -> {"quiet", "asked", "allow", "deny"}]
    /\ dec \in [Request -> {"none", "open", "closed", "dropped"} \cup Sent]
    /\ dack \in [Request -> {"none", "waiting", "delivered", "failed"}]
    /\ resume \in [Request -> {"none", "held", "released"}]
    /\ jexec \in [Turn -> {"none", "started", "completed", "interrupted", "failed"}]
    /\ jappr \in [Request -> {"none", "requested", "allowed", "denied", "timedout"}]

TaskInit ==
    /\ pc = [t \in Turn |-> "absent"]
    /\ written = [t \in Turn |-> FALSE]
    /\ outcome = [t \in Turn |-> "none"]
    /\ sess = [t \in Turn |-> "Idle"]
    /\ child = [t \in Turn |-> "none"]
    /\ seen = [t \in Turn |-> {}]
    /\ hreq = [t \in Turn |-> NoRequest]
    /\ stage = [t \in Turn |-> "none"]
    /\ ctl = [t \in Turn |-> "empty"]
    /\ held = [t \in Turn |-> "none"]
    /\ ack = [t \in Turn |-> "none"]
    /\ wire = [r \in Request |-> "quiet"]
    /\ dec = [r \in Request |-> "none"]
    /\ dack = [r \in Request |-> "none"]
    /\ resume = [r \in Request |-> "none"]
    /\ jexec = [t \in Turn |-> "none"]
    /\ jappr = [r \in Request |-> "none"]

-------------------------------------------------------------------------------
\* Phases whose select! polls the control channel, and polls it first: a
\* control that is queued is taken before any other branch makes progress.
ControlPhase == {"admit", "thread", "turn", "wait"}
Unpreempted(t) == pc[t] \in ControlPhase => ctl[t] = "empty"

\* An RPC has been written and its response is awaited.
InCall(t) == pc[t] = "admit" \/ (pc[t] \in {"thread", "turn", "intr"} /\ written[t])

\* wait_turn_completed is running.
InWait(t) == pc[t] \in {"wait", "intrwait"}

\* The reader is between messages and will read the next one.
Reading(t) == (InCall(t) \/ InWait(t)) /\ hreq[t] = NoRequest /\ Unpreempted(t)

\* Mutant of Unacknowledged: the acknowledgement outlives its handler.
NoneUnacknowledged(t) == {}

\* The oneshots the handler owns: the decision receiver while it awaits one, the
\* acknowledgement sender once it has taken it.
Listening(t) == {r \in Request : r = hreq[t] /\ stage[t] = "await" /\ dec[r] # "dropped"}
Unacknowledged(t) == {r \in Request : r = hreq[t] /\ dack[r] = "waiting"}

\* The handler future is dropped: its oneshots close with it.
AbandonHandler(t) ==
    /\ hreq' = [hreq EXCEPT ![t] = NoRequest]
    /\ stage' = [stage EXCEPT ![t] = "none"]
    /\ dec' = [r \in Request |-> IF r \in Listening(t) THEN "closed" ELSE dec[r]]
    /\ dack' = [r \in Request |-> IF r \in Unacknowledged(t) THEN "failed" ELSE dack[r]]

\* The controlled flow returns o; whatever it was awaiting is dropped.
EndFlow(t, o) ==
    /\ pc' = [pc EXCEPT ![t] = "settle"]
    /\ outcome' = [outcome EXCEPT ![t] = o]
    /\ AbandonHandler(t)

\* non_idempotent: what a transport error is reported as in this phase.
TransportError(t) == IF pc[t] = "admit" THEN "error" ELSE "ambiguous"

-------------------------------------------------------------------------------
(* The protocol flow. *)

\* ExecutionStarted, then the spawn; a failed spawn is journalled as Failed.
Launch(t) ==
    /\ pc[t] = "launch"
    /\ \/ /\ pc' = [pc EXCEPT ![t] = "admit"]
          /\ child' = [child EXCEPT ![t] = "up"]
          /\ jexec' = [jexec EXCEPT ![t] = "started"]
          /\ UNCHANGED outcome
       \/ /\ pc' = [pc EXCEPT ![t] = "report"]
          /\ outcome' = [outcome EXCEPT ![t] = "error"]
          /\ \E e \in {"failed"} \cup (IF StorageFails THEN {"none", "started"} ELSE {}) :
                jexec' = [jexec EXCEPT ![t] = e]
          /\ UNCHANGED child
    /\ UNCHANGED <<written, sess, handlerVars, controlVars, approvalVars, jappr>>

\* mark_write_started, then the write of a non-idempotent request.
WriteCall(t) ==
    /\ pc[t] \in {"thread", "turn", "intr"} /\ ~written[t] /\ Unpreempted(t)
    /\ written' = [written EXCEPT ![t] = TRUE]
    /\ UNCHANGED <<pc, outcome, sess, child, handlerVars, controlVars, approvalVars,
                   journalVars>>

PhaseAfter == [admit |-> "thread", thread |-> "turn", turn |-> "wait", intr |-> "intrwait"]
StateAfterReply == [thread |-> "ThreadStarted", turn |-> "TurnStarted"]

\* The call succeeds; a later append of its journal record may still fail.
Reply(t) ==
    /\ Reading(t) /\ InCall(t) /\ child[t] = "up"
    /\ written' = [written EXCEPT ![t] = FALSE]
    /\ sess' = [sess EXCEPT ![t] = IF pc[t] \in {"thread", "turn"}
                                     THEN MoveTurn(@, StateAfterReply[pc[t]]) ELSE @]
    /\ \/ /\ pc' = [pc EXCEPT ![t] = PhaseAfter[pc[t]]]
          /\ UNCHANGED <<outcome, hreq, stage, dec, dack>>
       \/ /\ StorageFails /\ pc[t] \in {"admit", "turn"}
          /\ EndFlow(t, "error")
    /\ UNCHANGED <<child, seen, controlVars, wire, resume, journalVars>>

\* The call fails: a remote or transport error or its 120 s timeout, which may
\* also cut off a handler; or a rejection of what the server answered; or a
\* desync after an approval was seen (UnresolvedApprovalRestart).
CallFails(t) ==
    /\ InCall(t) /\ Unpreempted(t)
    /\ \/ EndFlow(t, TransportError(t))
       \/ /\ hreq[t] = NoRequest /\ (pc[t] # "intr" \/ seen[t] # {})
          /\ EndFlow(t, "error")
    /\ UNCHANGED <<written, sess, child, seen, controlVars, wire, resume, journalVars>>

\* wait_turn_completed fails while reading: end of stream, timeout or stray
\* response (ambiguous); rerouted model, unknown request, desync after an
\* approval (a definite failure).
WaitFails(t) ==
    /\ InWait(t) /\ Reading(t)
    /\ \E o \in {"ambiguous", "error"} : EndFlow(t, o)
    /\ UNCHANGED <<written, sess, child, seen, controlVars, wire, resume, journalVars>>

\* turn/completed arrives with a status the session state accepts or refuses.
TurnCompletes(t, status) ==
    /\ InWait(t) /\ Reading(t) /\ child[t] = "up"
    /\ LET to == StateAfterTerminal(status)
       IN  /\ sess' = [sess EXCEPT ![t] = MoveTurn(@, to)]
           /\ \E o \in (IF CanMove(sess[t], to) THEN {status} ELSE {"error"})
                       \cup (IF StorageFails THEN {"error"} ELSE {}) : EndFlow(t, o)
    /\ UNCHANGED <<written, child, seen, controlVars, wire, resume, journalVars>>

\* The flow's own deadline, behind the owner's.
FlowDeadline(t) ==
    /\ pc[t] = "wait" /\ Unpreempted(t)
    /\ EndFlow(t, "deadline")
    /\ UNCHANGED <<written, sess, child, seen, controlVars, wire, resume, journalVars>>

\* The interrupt arrives.  Before a non-idempotent write it is a clean
\* interruption, after one it is ambiguous; a running turn is interrupted over
\* the protocol.  In every case the future that was awaited is dropped.
TakeControl(t) ==
    /\ pc[t] \in ControlPhase /\ ctl[t] # "empty"
    /\ held' = [held EXCEPT ![t] = ctl[t]]
    /\ ctl' = [ctl EXCEPT ![t] = "empty"]
    /\ IF pc[t] = "wait"
         THEN /\ pc' = [pc EXCEPT ![t] = "intr"]
              /\ written' = [written EXCEPT ![t] = FALSE]
              /\ AbandonHandler(t)
              /\ UNCHANGED outcome
         ELSE /\ EndFlow(t, IF written[t] THEN "ambiguous" ELSE "interrupted")
              /\ UNCHANGED written
    /\ UNCHANGED <<sess, child, seen, ack, wire, resume, journalVars>>

\* Mutant of CancelTimesOut: the wait for the terminal notification is unbounded.
OnlyTheCallTimesOut(t) ==
    /\ pc[t] = "intr"
    /\ EndFlow(t, IF written[t] THEN "ambiguous" ELSE "deadline")
    /\ UNCHANGED <<written, sess, child, seen, controlVars, wire, resume, journalVars>>

\* CONTROLLED_CANCEL_TIMEOUT, around the interrupt call and around the wait.
CancelTimesOut(t) ==
    /\ pc[t] \in {"intr", "intrwait"}
    /\ EndFlow(t, IF pc[t] = "intr" /\ written[t] THEN "ambiguous" ELSE "deadline")
    /\ UNCHANGED <<written, sess, child, seen, controlVars, wire, resume, journalVars>>

\* The app-server may die at any time before it is reaped.
ChildExits(t) ==
    /\ child[t] = "up" /\ pc[t] \notin {"report", "finish", "drop", "done"}
    /\ child' = [child EXCEPT ![t] = "gone"]
    /\ UNCHANGED <<pc, written, outcome, sess, handlerVars, controlVars, approvalVars,
                   journalVars>>

-------------------------------------------------------------------------------
(* The epilogue. *)

\* execution_status of the ExecutionCompleted record.
ExecutionStatus(t) ==
    IF outcome[t] \in Failure THEN "failed"
    ELSE IF held[t] # "none" THEN "interrupted"
    ELSE IF outcome[t] = "completed" THEN "completed" ELSE "failed"

\* Mutant of Closes: every outcome is closed.
ClosesAll(t) == TRUE

\* An ambiguous outcome leaves the execution unresolved on purpose.
Closes(t) == outcome[t] # "ambiguous"

\* Any other is completed in the journal; a failed append turns success into error.
Settle(t) ==
    /\ pc[t] = "settle"
    /\ pc' = [pc EXCEPT ![t] = "reap"]
    /\ \/ /\ jexec' = [jexec EXCEPT ![t] = IF Closes(t) THEN ExecutionStatus(t) ELSE @]
          /\ UNCHANGED outcome
       \/ /\ StorageFails
          /\ outcome' = [outcome EXCEPT ![t] = IF @ \in Success THEN "error" ELSE @]
          /\ UNCHANGED jexec
    /\ UNCHANGED <<written, sess, child, handlerVars, controlVars, approvalVars, jappr>>

\* client.shutdown kills and reaps the process group, then the cwd is removed.
Reap(t) ==
    /\ pc[t] = "reap"
    /\ pc' = [pc EXCEPT ![t] = "report"]
    /\ child' = [child EXCEPT ![t] = "reaped"]
    /\ \E o \in {outcome[t]}
              \cup (IF StorageFails /\ outcome[t] \in Success THEN {"error"} ELSE {}) :
          outcome' = [outcome EXCEPT ![t] = o]
    /\ UNCHANGED <<written, sess, handlerVars, controlVars, approvalVars, journalVars>>

\* The ControlOutcome of an interrupt: Interrupted only on success.
Acknowledgement(t) == IF outcome[t] \in Success THEN "interrupted" ELSE "unknown"

\* The interrupt that was taken is acknowledged.
Report(t) ==
    /\ pc[t] = "report"
    /\ pc' = [pc EXCEPT ![t] = "finish"]
    /\ IF held[t] = "live"
         THEN /\ ack' = [ack EXCEPT ![t] = Acknowledgement(t)]
              /\ held' = [held EXCEPT ![t] = "stale"]
         ELSE UNCHANGED <<ack, held>>
    /\ UNCHANGED <<written, outcome, sess, child, handlerVars, ctl, approvalVars,
                   journalVars>>

\* The Finished command is sent.
Finish(t) ==
    /\ pc[t] = "finish"
    /\ pc' = [pc EXCEPT ![t] = "drop"]
    /\ UNCHANGED <<written, outcome, sess, child, handlerVars, controlVars, approvalVars,
                   journalVars>>

\* The task ends and its control receiver goes with it, queued interrupt or not.
DropControls(t) ==
    /\ pc[t] = "drop"
    /\ pc' = [pc EXCEPT ![t] = "done"]
    /\ ctl' = [ctl EXCEPT ![t] = "empty"]
    /\ ack' = [ack EXCEPT ![t] = IF ctl[t] = "live" THEN "dropped" ELSE @]
    /\ UNCHANGED <<written, outcome, sess, child, handlerVars, held, approvalVars,
                   journalVars>>

-------------------------------------------------------------------------------
(* The handler of an approval request. *)

\* Mutant of Known: repetitions are looked for only while the turn is awaited.
KnownInWait(r) == InWait(TurnOf[r]) /\ KeyOf[r] \in seen[TurnOf[r]]

\* SeenApprovals::observe finds the key, or has no room for it.
Known(r) == KeyOf[r] \in seen[TurnOf[r]]
Full(t) == Cardinality(seen[t]) >= SeenCap

\* While the turn is awaited, the session state admits one open approval.
SessionRefuses(t) == InWait(t) /\ ~CanMove(sess[t], "AwaitingApproval")

\* A request is read.  A repeated key is refused on its own id and ends the
\* execution; a full detector, a refusing session and a receipt that cannot be
\* stored end it too, without an answer.
ReadRequest(r) ==
    LET t == TurnOf[r]
        known == Known(r)
        full == Full(t)
        refused == SessionRefuses(t)
    IN  /\ Reading(t) /\ child[t] = "up" /\ wire[r] = "quiet"
        /\ wire' = [wire EXCEPT ![r] = IF known THEN "deny" ELSE "asked"]
        /\ seen' = [seen EXCEPT ![t] = IF full THEN @ ELSE @ \cup {KeyOf[r]}]
        /\ IF known \/ full
             THEN UNCHANGED sess
             ELSE sess' = [sess EXCEPT ![t] =
                             IF InWait(t) THEN MoveTurn(@, "AwaitingApproval") ELSE @]
        /\ \/ /\ known \/ full \/ refused \/ StorageFails
              /\ EndFlow(t, "error")
              /\ UNCHANGED jappr
           \/ /\ ~(known \/ full \/ refused)
              /\ hreq' = [hreq EXCEPT ![t] = r]
              /\ stage' = [stage EXCEPT ![t] = "offer"]
              /\ jappr' = [jappr EXCEPT ![r] = "requested"]
              /\ UNCHANGED <<pc, outcome, dec, dack>>
        /\ UNCHANGED <<written, child, controlVars, resume, jexec>>

\* The pending approval is sent to the authority.
Offer(t) ==
    /\ stage[t] = "offer" /\ Unpreempted(t)
    /\ stage' = [stage EXCEPT ![t] = "await"]
    /\ dec' = [dec EXCEPT ![hreq[t]] = "open"]
    /\ UNCHANGED <<flowVars, seen, hreq, controlVars, wire, dack, resume, journalVars>>

\* Mutant of DecisionRecord: no answer in time is consent.
TimeoutAllows == [allow |-> "allowed", deny |-> "denied", timeout |-> "allowed"]

DecisionRecord == [allow |-> "allowed", deny |-> "denied", timeout |-> "timedout"]

\* A grant that could not be reviewed is withheld.
Effective(r, decision) ==
    IF decision = "allow" /\ r \notin Reviewable THEN "deny" ELSE decision

\* The decision: what the authority sent, or Timeout when its sender is gone or
\* the wait expires.  It is recorded before anything is written; a failed append
\* ends the execution.
Conclude(t) ==
    LET r == hreq[t]
        taken == dec[r] \in Sent
        effective == Effective(r, IF taken THEN dec[r] ELSE "timeout")
    IN  /\ stage[t] = "await" /\ Unpreempted(t)
        /\ \/ /\ jappr' = [jappr EXCEPT ![r] = DecisionRecord[effective]]
              /\ stage' = [stage EXCEPT ![t] = "respond"]
              /\ dec' = [dec EXCEPT ![r] = IF taken THEN @ ELSE "closed"]
              /\ UNCHANGED <<pc, outcome, hreq, dack>>
           \/ /\ StorageFails
              /\ EndFlow(t, "error")
              /\ UNCHANGED jappr
        /\ UNCHANGED <<written, sess, child, seen, controlVars, wire, resume, jexec>>

\* The response on the original id; then the session state moves and the
\* delivery is acknowledged.  A cancellation holds the handler until resumed.
Respond(t) ==
    LET r == hreq[t]
        allowed == jappr[r] = "allowed"
    IN  /\ stage[t] = "respond" /\ Unpreempted(t)
        /\ IF child[t] = "up"
             THEN /\ wire' = [wire EXCEPT ![r] = IF allowed THEN "allow" ELSE "deny"]
                  /\ sess' = [sess EXCEPT ![t] =
                                IF InWait(t) THEN MoveTurn(@, StateAfterDecision(allowed))
                                ELSE @]
                  /\ dack' = [dack EXCEPT ![r] = IF dec[r] \in Sent THEN "delivered" ELSE @]
                  /\ IF dec[r] \in Sent /\ resume[r] # "none"
                       THEN stage' = [stage EXCEPT ![t] = "resume"] /\ UNCHANGED hreq
                       ELSE /\ stage' = [stage EXCEPT ![t] = "none"]
                            /\ hreq' = [hreq EXCEPT ![t] = NoRequest]
                  /\ UNCHANGED <<pc, outcome, dec>>
             ELSE /\ EndFlow(t, IF InWait(t) THEN "ambiguous" ELSE "error")
                  /\ UNCHANGED <<wire, sess>>
        /\ UNCHANGED <<written, child, seen, controlVars, resume, journalVars>>

\* The authority let go of the resume oneshot: the reader goes on.
Resumed(t) ==
    /\ stage[t] = "resume" /\ resume[hreq[t]] = "released" /\ Unpreempted(t)
    /\ stage' = [stage EXCEPT ![t] = "none"]
    /\ hreq' = [hreq EXCEPT ![t] = NoRequest]
    /\ UNCHANGED <<flowVars, seen, controlVars, approvalVars, journalVars>>

-------------------------------------------------------------------------------
(* What an authority may do. *)

AuthorityStarts(t) ==
    /\ pc[t] = "absent"
    /\ pc' = [pc EXCEPT ![t] = "launch"]
    /\ UNCHANGED <<written, outcome, sess, child, handlerVars, controlVars, approvalVars,
                   journalVars>>

\* Send a decision, keeping the resume oneshot of a cancellation (hold).
AuthorityDecides(r, d, hold) ==
    /\ dec[r] = "open"
    /\ dec' = [dec EXCEPT ![r] = d]
    /\ dack' = [dack EXCEPT ![r] = "waiting"]
    /\ resume' = [resume EXCEPT ![r] = IF hold THEN "held" ELSE "none"]
    /\ UNCHANGED <<flowVars, handlerVars, controlVars, wire, journalVars>>

OpenSenders == {r \in Request : dec[r] = "open"}
HeldResumes == {r \in Request : resume[r] = "held"}

DropSenders(D) == dec' = [r \in Request |-> IF r \in D THEN "dropped" ELSE dec[r]]
ReleaseResumes(R) ==
    resume' = [r \in Request |-> IF r \in R THEN "released" ELSE resume[r]]

\* Drop undecided senders and let held handlers go on.
AuthorityLetsGo(D, R) ==
    /\ D \subseteq OpenSenders /\ R \subseteq HeldResumes
    /\ DropSenders(D) /\ ReleaseResumes(R)
    /\ UNCHANGED <<flowVars, handlerVars, controlVars, wire, dack, journalVars>>

\* Queue an interrupt, then release the handlers held for it.
AuthorityInterrupts(t, R) ==
    /\ pc[t] \notin {"absent", "done"} /\ ctl[t] = "empty" /\ ack[t] = "none"
    /\ R \subseteq HeldResumes
    /\ ctl' = [ctl EXCEPT ![t] = "live"]
    /\ ack' = [ack EXCEPT ![t] = "waiting"]
    /\ ReleaseResumes(R)
    /\ UNCHANGED <<flowVars, handlerVars, held, wire, dec, dack, journalVars>>

Stale(m) == IF m = "live" THEN "stale" ELSE m

\* Stop waiting for the acknowledgement, heard or not.
AuthorityStopsWaiting(t, D) ==
    /\ ack[t] # "none" /\ D \subseteq OpenSenders
    /\ ack' = [ack EXCEPT ![t] = "none"]
    /\ ctl' = [ctl EXCEPT ![t] = Stale(@)]
    /\ held' = [held EXCEPT ![t] = Stale(@)]
    /\ DropSenders(D)
    /\ UNCHANGED <<flowVars, handlerVars, wire, dack, resume, journalVars>>

-------------------------------------------------------------------------------
\* Steps the execution takes by itself; every wait in them ends by a timeout.
LocalStep(t) ==
    \/ Launch(t) \/ WriteCall(t) \/ CallFails(t) \/ FlowDeadline(t) \/ TakeControl(t)
    \/ CancelTimesOut(t) \/ Settle(t) \/ Reap(t) \/ Report(t) \/ DropControls(t)
    \/ Conclude(t) \/ Respond(t) \/ Resumed(t)

\* Steps that depend on what the app-server does.
ChildStep(t) ==
    \/ Reply(t) \/ WaitFails(t) \/ ChildExits(t)
    \/ \E status \in Success : TurnCompletes(t, status)
    \/ \E r \in Request : TurnOf[r] = t /\ ReadRequest(r)

AuthorityStep ==
    \/ \E t \in Turn : AuthorityStarts(t)
    \/ \E r \in Request, d \in Sent, hold \in BOOLEAN : AuthorityDecides(r, d, hold)
    \/ \E D \in SUBSET OpenSenders, R \in SUBSET HeldResumes : AuthorityLetsGo(D, R)
    \/ \E t \in Turn, R \in SUBSET HeldResumes : AuthorityInterrupts(t, R)
    \/ \E t \in Turn, D \in SUBSET OpenSenders : AuthorityStopsWaiting(t, D)

TaskNext ==
    \/ \E t \in Turn : LocalStep(t) \/ Offer(t) \/ Finish(t) \/ ChildStep(t)
    \/ AuthorityStep

TaskSpec == TaskInit /\ [][TaskNext]_taskVars

\* tokio polls every ready task and timers fire; neither the app-server nor the
\* authority is assumed to do anything.
TaskFairSpec ==
    TaskSpec /\ \A t \in Turn : WF_taskVars(LocalStep(t) \/ Offer(t) \/ Finish(t))

-------------------------------------------------------------------------------
(* Properties. *)

\* client.rs:1166-1199: an Allow reaches the app-server only when the authority
\* sent Allow for that very request, its descriptor was reviewable, and the grant
\* is already durable, whatever timeout, interrupt or failed append intervenes.
GrantIsAuthorised ==
    \A r \in Request : wire[r] = "allow" =>
        dec[r] = "allow" /\ jappr[r] = "allowed" /\ r \in Reviewable

\* client.rs:1176-1196: a delivery acknowledged to the authority means that the
\* response it asked for is on the wire, an unreviewable grant having become Deny.
DeliveredIsAnswered ==
    \A r \in Request : dack[r] = "delivered" =>
        wire[r] = IF dec[r] = "allow" /\ r \in Reviewable THEN "allow" ELSE "deny"

\* orchestrator.rs:943-1001: an interrupt is acknowledged as Interrupted only when
\* the child is reaped and the journal holds an Interrupted execution; every
\* ambiguity, timeout or failed append on the way is acknowledged as Unknown.
ConfirmedInterrupt ==
    \A t \in Turn : ack[t] = "interrupted" =>
        child[t] = "reaped" /\ jexec[t] = "interrupted" /\ outcome[t] \in Success

\* orchestrator.rs:920-941: an outcome nobody knows is never closed in the
\* journal, so that recovery finds the execution unresolved.
AmbiguityStaysOpen ==
    \A t \in Turn : outcome[t] = "ambiguous" => jexec[t] = "started"

\* client.rs:1097-1110, 1226-1239: an approval key is granted at most once in an
\* execution, whichever of the two read paths each request came through.
OneGrantPerKey ==
    \A r, q \in Request :
        /\ r # q /\ TurnOf[r] = TurnOf[q] /\ KeyOf[r] = KeyOf[q]
        => ~(wire[r] = "allow" /\ wire[q] = "allow")

\* orchestrator.rs:684-1003: every execution that starts reports and closes its
\* control channel, whether or not the child or the authority ever answers.
TaskTerminates == \A t \in Turn : pc[t] = "launch" ~> pc[t] = "done"

\* client.rs:1145-1199: an authority that sent a decision learns its fate.
DecisionSettles == \A r \in Request : dack[r] = "waiting" ~> dack[r] # "waiting"
===============================================================================
