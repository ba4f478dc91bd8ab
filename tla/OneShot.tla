------------------------------- MODULE OneShot -------------------------------
(***************************************************************************)
(* The command-line flows doctor and run: run_with_restart, which runs      *)
(* execute_flow_once at most twice (src/src/orchestrator.rs).  Each attempt *)
(* has an app-server and a working directory of its own; approval requests  *)
(* are answered at once, by the policy (src/src/client.rs).                 *)
(***************************************************************************)
EXTENDS SessionState, Naturals

CONSTANTS
    Allows,        \* ApprovalPolicy::AllowForTests, or Deny
    MaxRequests,   \* bound of the model: approval requests of one app-server
    StorageFails   \* may a journal append or the removal of the cwd fail?

ASSUME OneShotAssumption ==
    Allows \in BOOLEAN /\ MaxRequests \in Nat /\ StorageFails \in BOOLEAN

Attempt == {1, 2}

VARIABLES
    attempt,    \* the attempt that runs
    pc,         \* where it is
    quiet,      \* no notification has just restarted the wait's timer
    outcome,    \* the result of an attempt
    sent,       \* the non-idempotent requests it wrote
    seen,       \* the approval keys it has seen
    answered,   \* the approval responses it wrote
    sess,       \* TurnState of its session
    child, cwd, \* its app-server and its working directory
    jexec       \* its durable execution record

remote == <<sent, seen, answered, sess>>
local == <<child, cwd, jexec>>
vars == <<attempt, pc, quiet, outcome, remote, local>>

\* AppError: a desync alone restarts; "unresolved" is UnresolvedApprovalRestart.
Error == {"desync", "unresolved", "ambiguous", "definite", "storage"}

TypeOK ==
    /\ attempt \in Attempt
    /\ pc \in {"begin", "spawn", "admit", "thread", "turn", "wait", "close", "reap",
               "verdict", "done"}
    /\ quiet \in BOOLEAN
    /\ outcome \in [Attempt -> {"none", "ok"} \cup Error]
    /\ sent \in [Attempt -> SUBSET {"thread", "turn"}]
    /\ seen \in [Attempt -> Nat]
    /\ answered \in [Attempt -> Nat]
    /\ sess \in [Attempt -> TurnState]
    /\ child \in [Attempt -> {"none", "up", "gone", "reaped"}]
    /\ cwd \in [Attempt -> {"none", "present", "removed"}]
    /\ jexec \in [Attempt -> {"none", "started", "completed", "failed"}]

Init ==
    /\ attempt = 1 /\ pc = "begin" /\ quiet = TRUE
    /\ outcome = [a \in Attempt |-> "none"]
    /\ sent = [a \in Attempt |-> {}]
    /\ seen = [a \in Attempt |-> 0]
    /\ answered = [a \in Attempt |-> 0]
    /\ sess = [a \in Attempt |-> "Idle"]
    /\ child = [a \in Attempt |-> "none"]
    /\ cwd = [a \in Attempt |-> "none"]
    /\ jexec = [a \in Attempt |-> "none"]

-------------------------------------------------------------------------------
(* The attempt begins. *)

Returns(o) == outcome' = [outcome EXCEPT ![attempt] = o]

\* ExecutionStarted; without it the attempt does not begin.
Begin ==
    /\ pc = "begin"
    /\ \/ /\ jexec' = [jexec EXCEPT ![attempt] = "started"]
          /\ pc' = "spawn"
          /\ UNCHANGED outcome
       \/ /\ StorageFails
          /\ pc' = "verdict" /\ Returns("storage")
          /\ UNCHANGED jexec
    /\ UNCHANGED <<attempt, quiet, remote, child, cwd>>

\* A failed launch returns at once: the execution is not closed in the journal.
Spawn ==
    /\ pc = "spawn"
    /\ \/ /\ child' = [child EXCEPT ![attempt] = "up"]
          /\ cwd' = [cwd EXCEPT ![attempt] = "present"]
          /\ pc' = "admit"
          /\ UNCHANGED outcome
       \/ /\ pc' = "verdict" /\ Returns("definite")
          /\ UNCHANGED <<child, cwd>>
    /\ UNCHANGED <<attempt, quiet, remote, jexec>>

-------------------------------------------------------------------------------
(* The flow: initialize and the admission reads, thread/start, turn/start, and   *)
(* the wait for turn/completed.                                                  *)

EndFlow(o) == pc' = "close" /\ Returns(o)

InCall == pc = "admit" \/ (pc \in {"thread", "turn"} /\ pc \in sent[attempt])

\* non_idempotent, which wraps everything after the admission.
NonIdempotent(error) ==
    IF pc # "admit" /\ error \in {"desync", "transport"} THEN "ambiguous"
    ELSE IF error = "transport" THEN "definite" ELSE error

\* Mutant of Reported: what was seen before is not looked at.
ReportedAlone(error) == NonIdempotent(error)

\* A desync after an approval was seen does not restart (rpc_call, wait_turn_completed).
Reported(error) ==
    IF error = "desync" /\ seen[attempt] > 0 THEN "unresolved" ELSE NonIdempotent(error)

WriteCall ==
    /\ pc \in {"thread", "turn"} /\ pc \notin sent[attempt]
    /\ sent' = [sent EXCEPT ![attempt] = @ \cup {pc}]
    /\ UNCHANGED <<attempt, pc, quiet, outcome, seen, answered, sess, local>>

PhaseAfter == [admit |-> "thread", thread |-> "turn", turn |-> "wait"]
StateAfterReply == [thread |-> "ThreadStarted", turn |-> "TurnStarted"]

\* The reply is accepted; the record appended next may fail.
Reply ==
    /\ InCall /\ child[attempt] = "up"
    /\ sess' = [sess EXCEPT ![attempt] =
                  IF pc = "admit" THEN @ ELSE MoveTurn(@, StateAfterReply[pc])]
    /\ \/ pc' = PhaseAfter[pc] /\ UNCHANGED outcome
       \/ StorageFails /\ pc # "thread" /\ EndFlow("storage")
    /\ UNCHANGED <<attempt, quiet, sent, seen, answered, local>>

\* A desync, a transport error or timeout, or a reply that is not admitted.
CallFails ==
    /\ InCall
    /\ \E error \in {"desync", "transport", "definite"} : EndFlow(Reported(error))
    /\ UNCHANGED <<attempt, quiet, remote, local>>

\* While a call is awaited a new key is answered and the call goes on; a repeated
\* one is answered and, like a response that cannot be written, ends the call as a
\* desync (ServerRequestDuringCall) after an approval.
RequestInCall ==
    /\ InCall /\ seen[attempt] < MaxRequests
    /\ \E new \in {TRUE} \cup {seen[attempt] = 0} :
        /\ seen' = [seen EXCEPT ![attempt] = IF new THEN @ + 1 ELSE @]
        /\ \/ /\ child[attempt] = "up"
              /\ answered' = [answered EXCEPT ![attempt] = @ + 1]
              /\ IF new THEN UNCHANGED <<pc, outcome>> ELSE EndFlow("unresolved")
           \/ /\ child[attempt] = "gone"
              /\ EndFlow("unresolved")
              /\ UNCHANGED answered
    /\ UNCHANGED <<attempt, quiet, sent, sess, local>>

\* While the turn is awaited the session must accept the request and the decision.
RequestInWait ==
    /\ pc = "wait" /\ quiet /\ seen[attempt] < MaxRequests
    /\ \E new \in {TRUE} \cup {seen[attempt] = 0}, allowed \in {FALSE} \cup {Allows} :
        LET refused == new /\ ~CanMove(sess[attempt], "AwaitingApproval")
            written == ~refused /\ child[attempt] = "up"
        IN  /\ seen' = [seen EXCEPT ![attempt] = IF new THEN @ + 1 ELSE @]
            /\ answered' = [answered EXCEPT ![attempt] = IF written THEN @ + 1 ELSE @]
            /\ sess' = [sess EXCEPT ![attempt] =
                          IF ~new \/ refused THEN @
                          ELSE IF written THEN StateAfterDecision(allowed)
                          ELSE "AwaitingApproval"]
            /\ IF new /\ written THEN UNCHANGED <<pc, outcome>>
               ELSE EndFlow(IF refused \/ written THEN "definite" ELSE "ambiguous")
    /\ UNCHANGED <<attempt, quiet, sent, local>>

\* Any other notification is ignored; the next wait has a timer of its own.
Notification ==
    /\ pc = "wait" /\ quiet /\ child[attempt] = "up"
    /\ quiet' = FALSE
    /\ UNCHANGED <<attempt, pc, outcome, remote, local>>

WaitAgain ==
    /\ pc = "wait" /\ ~quiet
    /\ quiet' = TRUE
    /\ UNCHANGED <<attempt, pc, outcome, remote, local>>

\* Mutant of WaitFails: the wait has no timer and ends with the stream.
WaitFailsAtTheEnd ==
    /\ pc = "wait" /\ quiet /\ child[attempt] = "gone"
    /\ EndFlow("ambiguous")
    /\ UNCHANGED <<attempt, quiet, remote, local>>

\* The timer, the end of the stream, a desync, or a rerouted model.
WaitFails ==
    /\ pc = "wait" /\ quiet
    /\ \E error \in {"desync", "transport", "definite"} : EndFlow(Reported(error))
    /\ UNCHANGED <<attempt, quiet, remote, local>>

\* Any status the session accepts is success.
TurnCompletes(status) ==
    /\ pc = "wait" /\ quiet /\ child[attempt] = "up"
    /\ LET to == StateAfterTerminal(status)
       IN  /\ sess' = [sess EXCEPT ![attempt] = MoveTurn(@, to)]
           /\ \/ EndFlow(IF CanMove(sess[attempt], to) THEN "ok" ELSE "definite")
              \/ StorageFails /\ CanMove(sess[attempt], to) /\ EndFlow("storage")
    /\ UNCHANGED <<attempt, quiet, sent, seen, answered, local>>

ChildExits ==
    /\ child[attempt] = "up" /\ pc \in {"admit", "thread", "turn", "wait", "close"}
    /\ child' = [child EXCEPT ![attempt] = "gone"]
    /\ UNCHANGED <<attempt, pc, quiet, outcome, remote, cwd, jexec>>

-------------------------------------------------------------------------------
(* The epilogue, which every error of the flow passes through. *)

\* retain_first_error of a step that may fail.
Retain(o) == IF outcome[attempt] = "ok" THEN o ELSE outcome[attempt]

Ending == IF outcome[attempt] = "ok" THEN "completed" ELSE "failed"

\* The events of the session, if any can be appended, then ExecutionCompleted.
Close ==
    /\ pc = "close" /\ pc' = "reap"
    /\ \/ jexec' = [jexec EXCEPT ![attempt] = Ending] /\ UNCHANGED outcome
       \/ /\ StorageFails /\ Returns(Retain("storage"))
          /\ jexec' \in {jexec, [jexec EXCEPT ![attempt] = "failed"]}
    /\ UNCHANGED <<attempt, quiet, remote, child, cwd>>

\* Mutant of Reap: the app-server is left to itself.
LeaveRunning ==
    /\ pc = "reap" /\ pc' = "verdict"
    /\ UNCHANGED <<attempt, quiet, outcome, remote, local>>

\* client.shutdown, then the working directory.
Reap ==
    /\ pc = "reap" /\ pc' = "verdict"
    /\ child' = [child EXCEPT ![attempt] = "reaped"]
    /\ \/ cwd' = [cwd EXCEPT ![attempt] = "removed"] /\ UNCHANGED outcome
       \/ StorageFails /\ Returns(Retain("storage")) /\ UNCHANGED cwd
    /\ UNCHANGED <<attempt, quiet, remote, jexec>>

Restarts == attempt = 1 /\ outcome[1] = "desync"

Verdict ==
    /\ pc = "verdict"
    /\ IF Restarts THEN attempt' = 2 /\ pc' = "begin" ELSE pc' = "done" /\ UNCHANGED attempt
    /\ UNCHANGED <<quiet, outcome, remote, local>>

LocalStep == Begin \/ Spawn \/ WriteCall \/ CallFails \/ WaitAgain \/ WaitFails \/ Close
             \/ Reap \/ Verdict

ServerStep == Reply \/ RequestInCall \/ RequestInWait \/ Notification \/ ChildExits
              \/ \E status \in {"completed", "failed"} : TurnCompletes(status)

Next == LocalStep \/ ServerStep

Spec == Init /\ [][Next]_vars

\* The task is polled and its timers fire; the app-server may do nothing.
FairSpec == Spec /\ WF_vars(LocalStep)

-------------------------------------------------------------------------------
(* Properties. *)

\* docs/evidence/cp/CP4.md:18, client.rs:786-833, orchestrator.rs:509-518: a second
\* attempt is made only when the first wrote no thread/start or turn/start and
\* answered no approval, so nothing irreversible happens twice.
NothingIsReplayed == attempt = 2 => sent[1] = {} /\ answered[1] = 0

\* orchestrator.rs:441-507: one app-server at a time, and none when the command
\* returns, whatever failed.
NoChildIsLeft ==
    \A a \in Attempt : a # attempt \/ pc = "done" => child[a] \in {"none", "reaped"}

\* orchestrator.rs:474-490: Completed in the journal means that the session accepted a
\* terminal notification of a turn this attempt started.
CompletedWasAccepted ==
    \A a \in Attempt : jexec[a] = "completed" =>
        sess[a] \in {"Completed", "Failed"} /\ sent[a] = {"thread", "turn"}

\* jsonl.rs:11-16: an app-server that has nothing more to say cannot hold the command,
\* whatever it said before; one that never stops notifying is not stopped.
OneShotEnds == <>[]quiet => <>(pc = "done")

\* orchestrator.rs:511-512 says of the transport errors after delivery that they "are
\* durable unknown execution, not a retry cue", that is, left open for recovery.
AmbiguityStaysOpen ==
    \A a \in Attempt : outcome[a] = "ambiguous" => jexec[a] = "started"
===============================================================================
