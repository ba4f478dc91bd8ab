----------------------------- MODULE SessionState -----------------------------
(***************************************************************************)
(* The turn half of the session state machine of src/src/state.rs: the      *)
(* states and the transitions that transition_turn accepts.  Any other      *)
(* transition poisons the session and is an error for its caller.           *)
(***************************************************************************)

\* enum TurnState.
TurnState == {"Idle", "ThreadStarted", "TurnStarted", "AwaitingApproval",
              "Interrupted", "Completed", "Failed"}

\* The pairs listed by the matches! of transition_turn.
TurnMoves ==
    {<<"Idle", "ThreadStarted">>, <<"ThreadStarted", "TurnStarted">>,
     <<"TurnStarted", "AwaitingApproval">>, <<"AwaitingApproval", "TurnStarted">>,
     <<"AwaitingApproval", "Interrupted">>, <<"TurnStarted", "Interrupted">>,
     <<"TurnStarted", "Completed">>, <<"TurnStarted", "Failed">>,
     <<"Interrupted", "Failed">>}

\* transition_turn returns Ok.
CanMove(from, to) == <<from, to>> \in TurnMoves

\* The state transition_turn leaves behind: unchanged when it refuses.
MoveTurn(from, to) == IF CanMove(from, to) THEN to ELSE from

\* on_approval_decided: Allow resumes the turn, Deny and Timeout interrupt it.
StateAfterDecision(allowed) == IF allowed THEN "TurnStarted" ELSE "Interrupted"

\* The transition handle_turn_completed asks for, by the reported status.
StateAfterTerminal(status) == IF status = "completed" THEN "Completed" ELSE "Failed"
===============================================================================
