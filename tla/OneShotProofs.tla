---------------------------- MODULE OneShotProofs ----------------------------
(***************************************************************************)
(* Proofs about OneShot: nothing irreversible is done twice, no app-server  *)
(* outlives its attempt, and the journal calls an attempt completed only    *)
(* when its turn was, for any number of approval requests.                  *)
(***************************************************************************)
EXTENDS OneShot, TLAPS

Flow == {"admit", "thread", "turn", "wait"}
Early == {"begin", "spawn"} \cup Flow

\* An attempt that has not begun, and one that has not spawned its app-server.
UntouchedInv ==
    /\ attempt = 1 => /\ sent[2] = {} /\ answered[2] = 0 /\ child[2] = "none"
                      /\ outcome[2] = "none" /\ jexec[2] = "none"
    /\ pc \in {"begin", "spawn"} => child[attempt] = "none"
    /\ pc \in {"begin", "spawn", "admit"} => sent[attempt] = {}

\* A desync is reported only by an attempt that did nothing irreversible.
DesyncInv ==
    /\ attempt = 2 => outcome[1] = "desync"
    /\ pc \in Early => outcome[attempt] = "none"
    /\ \A a \in Attempt : outcome[a] = "desync" => sent[a] = {} /\ answered[a] = 0
    /\ \A a \in Attempt : answered[a] # 0 => seen[a] # 0

ChildInv ==
    /\ attempt = 2 => child[1] \in {"none", "reaped"}
    /\ pc \in {"verdict", "done"} => child[attempt] \in {"none", "reaped"}

\* What success and Completed stand for.
Accepted(a) == sess[a] \in {"Completed", "Failed"} /\ sent[a] = {"thread", "turn"}

CompletedInv ==
    /\ pc = "turn" => "thread" \in sent[attempt]
    /\ pc = "wait" => sent[attempt] = {"thread", "turn"}
    /\ pc \in Early \cup {"close"} => jexec[attempt] # "completed"
    /\ \A a \in Attempt : outcome[a] = "ok" \/ jexec[a] = "completed" => Accepted(a)

IInv == TypeOK /\ UntouchedInv /\ DesyncInv /\ ChildInv /\ CompletedInv

-------------------------------------------------------------------------------

LEMMA SessionTypes ==
    ASSUME NEW from \in TurnState, NEW to \in TurnState
    PROVE  MoveTurn(from, to) \in TurnState /\ (CanMove(from, to) => MoveTurn(from, to) = to)
  BY DEF MoveTurn

LEMMA StateNames ==
    /\ \A status : StateAfterTerminal(status) \in {"Completed", "Failed"}
    /\ \A allowed \in BOOLEAN : StateAfterDecision(allowed) \in TurnState
    /\ {"Completed", "Failed", "AwaitingApproval", "ThreadStarted", "TurnStarted"}
         \subseteq TurnState
  BY DEF StateAfterTerminal, StateAfterDecision, TurnState

\* What a failing call or wait reports.
LEMMA ReportedErrors ==
    ASSUME NEW error \in {"desync", "transport", "definite"}
    PROVE  /\ Reported(error) \in Error
           /\ Reported(error) = "desync" => pc = "admit" /\ ~(seen[attempt] > 0)
  BY DEF Reported, NonIdempotent, Error

LEMMA InitIInv == Init => IInv
  BY OneShotAssumption DEF Init, IInv, TypeOK, UntouchedInv, DesyncInv, ChildInv, CompletedInv,
     Attempt, TurnState, Early, Flow

\* The flow returns: nothing but the result and the phase change.
LEMMA FlowEnds ==
    ASSUME IInv, NEW o \in {"ok"} \cup Error, EndFlow(o), pc \in Flow,
           o = "desync" => sent[attempt] = {} /\ answered[attempt] = 0,
           o = "ok" => Accepted(attempt),
           UNCHANGED <<attempt, quiet, remote, local>>
    PROVE  IInv'
  <1> USE DEF remote, local, EndFlow, Returns
  <1>1. TypeOK'
    BY DEF IInv, TypeOK
  <1>2. UntouchedInv' /\ ChildInv'
    BY DEF IInv, TypeOK, UntouchedInv, ChildInv, Flow, Attempt
  <1>3. DesyncInv'
    BY DEF IInv, TypeOK, DesyncInv, Flow, Early, Attempt
  <1>4. CompletedInv'
    BY DEF IInv, TypeOK, CompletedInv, Accepted, Flow, Early, Attempt
  <1> QED BY <1>1, <1>2, <1>3, <1>4 DEF IInv

LEMMA StepIInv ==
    ASSUME IInv, [Next]_vars
    PROVE  IInv'
  <1> USE DEF remote, local, EndFlow, Returns, InCall
  <1>1. CASE Begin
    <2>1. TypeOK' /\ UntouchedInv' /\ ChildInv'
      BY <1>1 DEF Begin, IInv, TypeOK, UntouchedInv, ChildInv, Attempt, Error
    <2>2. DesyncInv' /\ CompletedInv'
      BY <1>1 DEF Begin, IInv, TypeOK, DesyncInv, CompletedInv, Accepted, Attempt, Early, Flow
    <2> QED BY <2>1, <2>2 DEF IInv
  <1>2. CASE Spawn
    <2>1. TypeOK' /\ UntouchedInv' /\ ChildInv'
      BY <1>2 DEF Spawn, IInv, TypeOK, UntouchedInv, ChildInv, Attempt, Error
    <2>2. DesyncInv' /\ CompletedInv'
      BY <1>2 DEF Spawn, IInv, TypeOK, DesyncInv, CompletedInv, Accepted, Attempt, Early, Flow
    <2> QED BY <2>1, <2>2 DEF IInv
  <1>3. CASE WriteCall
    <2>1. TypeOK' /\ UntouchedInv' /\ ChildInv'
      BY <1>3 DEF WriteCall, IInv, TypeOK, UntouchedInv, ChildInv, Attempt
    <2>2. DesyncInv'
      BY <1>3 DEF WriteCall, IInv, TypeOK, DesyncInv, Attempt, Early, Flow
    <2>3. \A a \in Attempt : outcome[a] = "ok" \/ jexec[a] = "completed" =>
            a # attempt
      BY <1>3 DEF WriteCall, IInv, TypeOK, DesyncInv, CompletedInv, Attempt, Early, Flow
    <2>4. CompletedInv'
      BY <1>3, <2>3 DEF WriteCall, IInv, TypeOK, CompletedInv, Accepted, Attempt, Early, Flow
    <2> QED BY <2>1, <2>2, <2>4 DEF IInv
  <1>4. CASE Reply
    <2>1. sess' \in [Attempt -> TurnState]
      BY <1>4, SessionTypes, StateNames DEF Reply, IInv, TypeOK, StateAfterReply
    <2>2. \A a \in Attempt : a # attempt => sess'[a] = sess[a]
      BY <1>4 DEF Reply, IInv, TypeOK
    <2>3. TypeOK' /\ UntouchedInv' /\ ChildInv'
      BY <1>4, <2>1 DEF Reply, IInv, TypeOK, UntouchedInv, ChildInv, Attempt, PhaseAfter, Error
    <2>4. DesyncInv'
      BY <1>4 DEF Reply, IInv, TypeOK, DesyncInv, Attempt, Early, Flow, PhaseAfter
    <2>5. \A a \in Attempt : outcome[a] = "ok" \/ jexec[a] = "completed" => a # attempt
      BY <1>4 DEF Reply, IInv, TypeOK, DesyncInv, CompletedInv, Attempt, Early, Flow
    <2>6. CompletedInv'
      BY <1>4, <2>2, <2>5
         DEF Reply, IInv, TypeOK, CompletedInv, Accepted, Attempt, Early, Flow, PhaseAfter
    <2> QED BY <2>3, <2>4, <2>6 DEF IInv
  <1>5. CASE CallFails \/ WaitFails
    <2>1. PICK error \in {"desync", "transport", "definite"} : EndFlow(Reported(error))
      BY <1>5 DEF CallFails, WaitFails
    <2>2. pc \in Flow /\ UNCHANGED <<attempt, quiet, remote, local>>
      BY <1>5 DEF CallFails, WaitFails, Flow
    <2>3. Reported(error) \in Error /\ Reported(error) # "ok"
      BY ReportedErrors DEF Error
    <2>4. Reported(error) = "desync" => sent[attempt] = {} /\ answered[attempt] = 0
      BY ReportedErrors DEF IInv, TypeOK, UntouchedInv, DesyncInv
    <2> QED BY <2>1, <2>2, <2>3, <2>4, FlowEnds
  <1>6. CASE RequestInCall
    <2>1. PICK new \in BOOLEAN :
            /\ new \/ seen[attempt] # 0
            /\ seen' = [seen EXCEPT ![attempt] = IF new THEN @ + 1 ELSE @]
            /\ answered' \in {answered, [answered EXCEPT ![attempt] = @ + 1]}
            /\ UNCHANGED <<pc, outcome>> \/ EndFlow("unresolved")
      BY <1>6 DEF RequestInCall, IInv, TypeOK
    <2>2. pc \in Flow /\ UNCHANGED <<attempt, quiet, sent, sess, local>>
      BY <1>6 DEF RequestInCall, Flow
    <2>3. seen' \in [Attempt -> Nat] /\ answered' \in [Attempt -> Nat] /\ seen'[attempt] # 0
      BY <2>1 DEF IInv, TypeOK
    <2>4. \A a \in Attempt : a # attempt => seen'[a] = seen[a] /\ answered'[a] = answered[a]
      BY <2>1 DEF IInv, TypeOK
    <2>5. TypeOK'
      BY <2>1, <2>2, <2>3 DEF IInv, TypeOK, Error
    <2>6. UntouchedInv' /\ ChildInv'
      BY <2>1, <2>2, <2>4 DEF IInv, TypeOK, UntouchedInv, ChildInv, Attempt, Flow
    <2>7. \A a \in Attempt : outcome'[a] = "desync" => a # attempt /\ outcome[a] = "desync"
      BY <2>1, <2>2 DEF IInv, TypeOK, DesyncInv, Attempt, Early
    <2>8. DesyncInv'
      BY <2>1, <2>2, <2>3, <2>4, <2>7 DEF IInv, TypeOK, DesyncInv, Attempt, Early, Flow
    <2>9. CompletedInv'
      BY <2>1, <2>2 DEF IInv, TypeOK, CompletedInv, Accepted, Attempt, Early, Flow
    <2> QED BY <2>5, <2>6, <2>8, <2>9 DEF IInv
  <1>7. CASE RequestInWait
    <2>1. PICK new \in BOOLEAN, o \in {"definite", "ambiguous"} :
            /\ new \/ seen[attempt] # 0
            /\ seen' = [seen EXCEPT ![attempt] = IF new THEN @ + 1 ELSE @]
            /\ answered' \in {answered, [answered EXCEPT ![attempt] = @ + 1]}
            /\ UNCHANGED <<pc, outcome>> \/ EndFlow(o)
      <3>1. PICK new \in BOOLEAN, written \in BOOLEAN, o \in {"definite", "ambiguous"} :
              /\ new \/ seen[attempt] # 0
              /\ seen' = [seen EXCEPT ![attempt] = IF new THEN @ + 1 ELSE @]
              /\ answered' = [answered EXCEPT ![attempt] = IF written THEN @ + 1 ELSE @]
              /\ (new /\ written /\ UNCHANGED <<pc, outcome>>) \/ EndFlow(o)
        BY <1>7, Zenon DEF RequestInWait
      <3>2. answered \in [Attempt -> Nat]
        BY DEF IInv, TypeOK
      <3>3. answered' \in {answered, [answered EXCEPT ![attempt] = @ + 1]}
        BY <3>1, <3>2
      <3> QED BY <3>1, <3>3
    <2>2. sess' \in [Attempt -> TurnState] /\ \A a \in Attempt : a # attempt => sess'[a] = sess[a]
      <3>1. \E next \in TurnState : sess' = [sess EXCEPT ![attempt] = next]
        <4>1. PICK seenFirst \in BOOLEAN, allowed \in BOOLEAN :
                LET refused == seenFirst /\ ~CanMove(sess[attempt], "AwaitingApproval")
                    written == ~refused /\ child[attempt] = "up"
                IN  sess' = [sess EXCEPT ![attempt] =
                               IF ~seenFirst \/ refused THEN @
                               ELSE IF written THEN StateAfterDecision(allowed)
                               ELSE "AwaitingApproval"]
          BY <1>7, OneShotAssumption DEF RequestInWait
        <4>2. sess[attempt] \in TurnState
          BY DEF IInv, TypeOK
        <4>3. StateAfterDecision(allowed) \in TurnState /\ "AwaitingApproval" \in TurnState
          BY StateNames
        <4> QED BY <4>1, <4>2, <4>3
      <3> QED BY <3>1 DEF IInv, TypeOK
    <2>3. pc = "wait" /\ UNCHANGED <<attempt, quiet, sent, local>>
      BY <1>7 DEF RequestInWait
    <2>4. seen' \in [Attempt -> Nat] /\ answered' \in [Attempt -> Nat] /\ seen'[attempt] # 0
      BY <2>1 DEF IInv, TypeOK
    <2>5. \A a \in Attempt : a # attempt => seen'[a] = seen[a] /\ answered'[a] = answered[a]
      BY <2>1 DEF IInv, TypeOK
    <2>6. TypeOK'
      BY <2>1, <2>2, <2>3, <2>4 DEF IInv, TypeOK, Error
    <2>7. UntouchedInv' /\ ChildInv'
      BY <2>1, <2>3, <2>5 DEF IInv, TypeOK, UntouchedInv, ChildInv, Attempt
    <2>8. \A a \in Attempt : outcome'[a] = "desync" => a # attempt /\ outcome[a] = "desync"
      BY <2>1, <2>3 DEF IInv, TypeOK, DesyncInv, Attempt, Early, Flow
    <2>9. DesyncInv'
      BY <2>1, <2>3, <2>4, <2>5, <2>8 DEF IInv, TypeOK, DesyncInv, Attempt, Early, Flow
    <2>10. \A a \in Attempt : outcome'[a] = "ok" \/ jexec'[a] = "completed" =>
             a # attempt /\ (outcome[a] = "ok" \/ jexec[a] = "completed")
      BY <2>1, <2>3 DEF IInv, TypeOK, DesyncInv, CompletedInv, Attempt, Early, Flow
    <2>11. CompletedInv'
      BY <2>1, <2>2, <2>3, <2>10 DEF IInv, TypeOK, CompletedInv, Accepted, Attempt, Early, Flow
    <2> QED BY <2>6, <2>7, <2>9, <2>11 DEF IInv
  <1>8. CASE Notification \/ WaitAgain
    <2>1. quiet' \in BOOLEAN /\ UNCHANGED <<attempt, pc, outcome, sent, seen, answered, sess,
                                           child, cwd, jexec>>
      BY <1>8 DEF Notification, WaitAgain
    <2>2. TypeOK' /\ UntouchedInv' /\ ChildInv'
      BY <2>1 DEF IInv, TypeOK, UntouchedInv, ChildInv
    <2>3. DesyncInv' /\ CompletedInv'
      BY <2>1 DEF IInv, DesyncInv, CompletedInv, Accepted
    <2> QED BY <2>2, <2>3 DEF IInv
  <1>9. ASSUME NEW status \in {"completed", "failed"}, TurnCompletes(status) PROVE IInv'
    <2>1. PICK o \in {"ok", "definite", "storage"} :
            /\ EndFlow(o)
            /\ o = "ok" => CanMove(sess[attempt], StateAfterTerminal(status))
      BY <1>9 DEF TurnCompletes
    <2>2. /\ pc = "wait" /\ UNCHANGED <<attempt, quiet, sent, seen, answered, local>>
          /\ sess' = [sess EXCEPT ![attempt] = MoveTurn(@, StateAfterTerminal(status))]
      BY <1>9 DEF TurnCompletes
    <2>3. sess' \in [Attempt -> TurnState] /\ \A a \in Attempt : a # attempt => sess'[a] = sess[a]
      BY <2>2, StateNames, SessionTypes DEF IInv, TypeOK
    <2>4. o = "ok" => sess'[attempt] \in {"Completed", "Failed"}
      BY <2>1, <2>2, StateNames, SessionTypes DEF IInv, TypeOK
    <2>5. TypeOK' /\ UntouchedInv' /\ ChildInv'
      BY <2>1, <2>2, <2>3 DEF IInv, TypeOK, UntouchedInv, ChildInv, Error
    <2>6. DesyncInv'
      BY <2>1, <2>2 DEF IInv, TypeOK, DesyncInv, Attempt, Early, Flow
    <2>7. jexec[attempt] # "completed" /\ sent[attempt] = {"thread", "turn"}
      BY <2>2 DEF IInv, CompletedInv, Early, Flow
    <2>8. CompletedInv'
      BY <2>1, <2>2, <2>3, <2>4, <2>7
         DEF IInv, TypeOK, CompletedInv, Accepted, Attempt, Early, Flow
    <2> QED BY <2>5, <2>6, <2>8 DEF IInv
  <1>10. CASE ChildExits
    BY <1>10 DEF ChildExits, IInv, TypeOK, UntouchedInv, DesyncInv, ChildInv, CompletedInv,
                 Accepted, Attempt
  <1>11. CASE Close
    <2>1. TypeOK' /\ UntouchedInv' /\ ChildInv'
      BY <1>11 DEF Close, Ending, Retain, IInv, TypeOK, UntouchedInv, ChildInv, Attempt, Error
    <2>2. DesyncInv'
      BY <1>11 DEF Close, Retain, IInv, TypeOK, DesyncInv, Attempt, Early, Flow
    <2>3. \A a \in Attempt : outcome'[a] = "ok" \/ jexec'[a] = "completed" =>
            outcome[a] = "ok" \/ jexec[a] = "completed"
      BY <1>11 DEF Close, Ending, Retain, IInv, TypeOK, Attempt
    <2>4. CompletedInv'
      BY <1>11, <2>3 DEF Close, IInv, CompletedInv, Accepted, Early, Flow
    <2> QED BY <2>1, <2>2, <2>4 DEF IInv
  <1>12. CASE Reap
    <2>1. TypeOK' /\ UntouchedInv' /\ ChildInv'
      BY <1>12 DEF Reap, Retain, IInv, TypeOK, UntouchedInv, ChildInv, Attempt, Error
    <2>2. DesyncInv'
      BY <1>12 DEF Reap, Retain, IInv, TypeOK, DesyncInv, Attempt, Early, Flow
    <2>3. \A a \in Attempt : outcome'[a] = "ok" => outcome[a] = "ok"
      BY <1>12 DEF Reap, Retain, IInv, TypeOK, Attempt
    <2>4. CompletedInv'
      BY <1>12, <2>3 DEF Reap, IInv, CompletedInv, Accepted, Early, Flow
    <2> QED BY <2>1, <2>2, <2>4 DEF IInv
  <1>13. CASE Verdict
    BY <1>13 DEF Verdict, Restarts, IInv, TypeOK, UntouchedInv, DesyncInv, ChildInv,
                 CompletedInv, Accepted, Attempt, Early, Flow
  <1>14. CASE UNCHANGED vars
    BY <1>14 DEF vars, IInv, TypeOK, UntouchedInv, DesyncInv, ChildInv, CompletedInv, Accepted
  <1> QED BY <1>1, <1>2, <1>3, <1>4, <1>5, <1>6, <1>7, <1>8, <1>9, <1>10, <1>11, <1>12, <1>13,
             <1>14 DEF Next, LocalStep, ServerStep

LEMMA IInvAlways == Spec => []IInv
  BY InitIInv, StepIInv, PTL DEF Spec

\* The variables of the two attempts keep their types.
THEOREM OneShotTypeCorrect == Spec => []TypeOK
  BY IInvAlways, PTL DEF IInv

\* CP4.md:18: nothing irreversible is done twice, however many approvals were asked for.
THEOREM NothingIsReplayedAlways == Spec => []NothingIsReplayed
  <1>1. IInv => NothingIsReplayed
    BY DEF IInv, DesyncInv, NothingIsReplayed, Attempt
  <1> QED BY <1>1, IInvAlways, PTL

\* orchestrator.rs:441-507: no attempt leaves its app-server to the next or behind.
THEOREM NoChildIsLeftAlways == Spec => []NoChildIsLeft
  <1>1. IInv => NoChildIsLeft
    BY DEF IInv, TypeOK, UntouchedInv, ChildInv, NoChildIsLeft, Attempt
  <1> QED BY <1>1, IInvAlways, PTL

\* orchestrator.rs:474-490: an execution is Completed in the journal only when the
\* session accepted the terminal notification of its turn.
THEOREM CompletedWasAcceptedAlways == Spec => []CompletedWasAccepted
  <1>1. IInv => CompletedWasAccepted
    BY DEF IInv, CompletedInv, Accepted, CompletedWasAccepted
  <1> QED BY <1>1, IInvAlways, PTL
===============================================================================
