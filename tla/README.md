# spark-runner in TLA+

spark-runner starts a Codex app-server as a child process, talks JSON-RPC to it
over stdio, and offers the result as one-shot commands (`doctor`, `run`) or as a
loopback HTTP server with turns, approvals, cancellation and an event stream. An
approval must never be granted by accident, a turn must never outlive or precede
its process, and what happened must be recoverable from a SQLite journal. These
modules model that, TLC checks them on small instances, and TLAPS proves the
properties that matter most for every value of the constants.

All paths below are relative to `src/src/` unless they say otherwise.

## 1. The system

| Component | Code | State | Operations | Talks to |
|---|---|---|---|---|
| session state machine | `state.rs` | turn state, worker state, events, poison | `transition_turn`, `on_approval_*` | called by the client for every message |
| protocol execution | `orchestrator.rs` (controlled), `client.rs` | RPC in flight, delivery of its write, approval handler, session, child, journal row | spawn, initialize, admission, thread/start, turn/start, wait, interrupt, reap, report | child over stdio; owner over a control channel (capacity 1), oneshots, the owner's queue |
| runtime owner, HTTP server | `api.rs` | queue, turn and approval tables, `active_turns`, `ready`, leases | commands Bootstrap, Read, CreateTurn, Subscribe, Pending, Decide, Cancel*, Finished | executions, clients, timers, SSE guards |
| event replay and SSE | `api.rs` | retained events with byte counters, broadcast channels, cursors | `push_event`, prune, subscribe, replay, lag, end | owner, SSE clients |
| journal writer | `journal.rs` | connection on a thread of its own, channel of 128, rows, captures | open and migration, append, prune, shutdown | every execution, every start |
| recovery | `journal.rs`, `orchestrator.rs` | the projection | `project_recovery`, `persist_recovery` | journal writer |
| one-shot flows | `orchestrator.rs`, `client.rs` | attempt, child, cwd, row | `run_with_restart`, `execute_flow_once` | child, journal |
| JSON-RPC transport | `jsonl.rs` | frame, pending buffer with byte counter, ids | call, `next_message`, respond | child |
| process supervision | `process.rs`, `config.rs`, `orchestrator.rs` | handles of the verified files, child, process group, stderr task, working directory | verify, provision, spawn, shutdown, Drop, remove | executions, bootstrap, the system |
| approval descriptor and response | `client.rs` | none | `from_request`, `approval_response` | approval handler, owner |
| configuration, command line | `config.rs`, `main.rs` | none | validate, dispatch | |
| fake app-server | `bin/fake_app_server.rs` | test fixture | | |

What is hard, and what has to be right nevertheless:

- *Dropped futures.* `run_controlled_flow` is a biased `select!`: an interrupt or
  a deadline drops the wait, and with it an approval handler between its journal
  append and its response. Grants must stay authorised and durable, and whoever
  waits for a decision's fate must learn it.
- *Two actors waiting for each other.* The owner takes no command while it handles
  one; the execution reports through that same queue. Only timeouts of 3, 6 and
  10 seconds break the circles, so each may fire before a late answer.
- *Races to the terminal status.* The acknowledgement of an interrupt, its loss, its
  timeout, `Finished` and a second cancel may come in any order; the status, the
  admission counter and the approval table must agree in all of them.
- *Ambiguity.* A non-idempotent request that may have been delivered must neither be
  repeated nor be closed in the journal.
- *Crashes* between any two appends, including those of recovery itself, and between
  any two statements of the journal's thread.
- *Callers that are dropped* while their command is in the journal's channel, or while
  the app-server they own is being shut down.
- *A system that moves*: files replaced between check and use, processes that fork
  while they are killed, leave the group, or hold a pipe; process numbers used again.
- *Texts the app-server chooses* in an approval: what an answer grants has to be what
  the owner was shown, whatever was redacted, cut, unknown or too much.
- *Bounded buffers*: command queue, control channel, turn and approval tables,
  duplicate detector, pending messages, replay bytes, broadcast channel.

The full list, line by line and with the properties aimed at each, is `hazards`
in `PROJECT.json`.

## 2. The modules

```
SessionState <- TurnTask <- RuntimeOwner        Recovery -> Ledger (refinement)
    ^              ^            ^                   ^
    |       TurnTaskProofs  RuntimeOwnerProofs   RecoveryProofs
    |
    +------ OneShot <- OneShotProofs            JournalWriter -> AppendLog (refinement)
                                                    ^
                                                JournalWriterProofs

AppServer    JsonlReader -> Lists <- EventReplay    ApprovalDescriptor
    ^            ^            ^          ^              ^
    +------------+            |          +--------------+
   AppServerProofs ----> ListsProofs <---- OwnerViewProofs
```

`MC*` modules only give constants their values. The modules that stand alone meet the
others in what these assume: Recovery and TurnTask append a row in one step and know
whether it was acknowledged, which is AppendLog, which JournalWriter implements;
TurnTask and OneShot take a child that was killed to be gone, which is
`NoMemberSurvives` of AppServer; `Reviewable` of TurnTask is `allowed` of
ApprovalDescriptor.

### SessionState
The transitions `transition_turn` accepts, as a set of pairs, with the state a
decision and a terminal notification ask for. No variables; TurnTask and OneShot
keep the session's state and use `MoveTurn`, `CanMove`. The worker half is one
linear path and is left out.

### TurnTask
One controlled execution per turn, from spawn to report, with its child and the
handler of its approval requests. `pc` is where the flow is (the RPC being called,
`wait`, the interrupt, cleanup, report), `written` the `RequestDelivery` of the RPC
in flight, `stage` where the handler is (offering the request to the authority,
awaiting it, writing the response, awaiting the resume of a cancelling decision),
`ctl`/`held`/`ack` the control channel, the message taken from it and its
acknowledgement, `dec`/`dack`/`resume` the three oneshots of an approval, `wire` the
request and its response, `jexec`/`jappr` the durable records.
One action is one stretch between two awaits that others can observe, so a `select!`
is a choice with the guard `Unpreempted` for its bias. The child may answer, ask,
complete, write nonsense or exit at any time. The *authority* is open: the
`Authority...` actions are all that the other ends of the channels can do. This makes
TurnTask the abstract specification of how the server uses an execution.

### RuntimeOwner
Extends TurnTask with the authority the server has: the owner loop. `opc` is what
the owner awaits (nothing, a delivery acknowledgement, room in a control channel, an
interrupt acknowledgement); while it awaits, it takes no command. Each command
handler is an action, split where it awaits. `queue` is the bounded command channel:
every sender, clients, timers, SSE guards and executions, needs room. A client may
give up before its command is handled, which changes nothing but where the code
looks at it (`sse`: the reply of Subscribe). `status`, `appr` are the statuses of
the two tables, `active` the admission counter, `lease` the flag
`controlling_sse_active`.

### Recovery, Ledger
Recovery is the journal across process lives: `log` holds the rows; a start reads
them row by row into the maps and sets of `project` (`ReadRow`), appends one recovery
row per unresolved execution and approval, and becomes ready; the process then
runs one execution at a time, whose handler appends requests and decisions; it may
be abandoned, and `Crash` may come between any two appends. Ledger is the abstract
specification: an execution is absent, open, or closed, and closed once.

### OneShot
`run_with_restart` around two attempts of `execute_flow_once`: each attempt has its
own child, working directory, session, seen keys and journal row, and answers
approvals by the fixed policy. `outcome` separates the errors the restart decision
separates: desync, ambiguous, others. `quiet` is FALSE while a notification has
just restarted the per-message timer of the wait.

### Lists
`Filter`, the elements of a list that are in a set, in their order: what `owner_subscribe`
and `push_event` keep of a turn's events, and the notifications among what was read.

### JsonlReader
The transport as the client drives it. `sent` is everything the app-server wrote,
`pos` and `half` how far it has been read, `pending` the buffered messages as
positions in `sent`, so that order and loss are visible. `doing` is what the client does
(`call`, `match` with a message in `hand`, `wait`, ...), `got` what its loop was given. A message is a kind (note,
completed, response, request, odd, bad) and a size. The client reads in parts,
buffers during a call what does not match, dispatches requests, poisons on a desync;
an interrupt drops the wait in the middle of a frame or of the handler.

### JournalWriter, AppendLog
JournalWriter is one JournalWriter with its clones (`Caller`; `Original` has the join
handle), the channel, the thread and the file. `todo` holds the SQL statements of the
current operation that have not run: the three of the migration, which every open runs
twice (`init_db` and the thread's own connection), or the event and its captures. A
statement commits by itself; errors, `Crash` and `Abandon` (a caller's future is
dropped while it sends or waits) may come between any two. `stage` is where a caller
is, `outcome` what its append returned. An id is a caller and the number of its call, so
that order and loss are visible. AppendLog is what the users of the journal rely on: a
call is begun, its row is written at most once and only after that, and the result ok
has the row, stopped has not, and an error or a dropped call may have either.

### AppServer
One app-server from the verification of what is launched to the removal of its
directory; the caller is `bootstrap_runtime`, whose steps every other caller shares,
with the deadline of `api.rs:388`. `exe` and `auth` are open handles, `path` and `file`
what their paths name now. `proc`, `member` and `piped` are the processes, those of
them in the group and those that hold the stderr pipe; `dying` is a process that was
signalled and has not yet taken the signal. `child` says who has the `Child`, since
tokio reaps the one that is dropped; `reused` is a later group with the leader's number.

### ApprovalDescriptor
The pure part of the approval handler. A request is a record of fields, each a text, a
value of a wrong type, or absent; a text is exact (sanitising leaves it alone and it is
short enough), redacted (short, but changed by sanitising) or long. `Describe` is
`from_request`, `Response` the answer, with the definitions between them named after
the functions of `client.rs`. The key derivation and the refresh of credentials have
no part in what is granted. `Effect` and `Granted` say what an answer makes the app-server
do, `Displayed` what the descriptor tells its reader; InformedGrant compares them.

### EventReplay
`push_event` with its three limits (an event, a turn's events, all bytes), eviction
of the oldest event of any turn, pruning of terminal turns, subscription with
`Last-Event-ID`, the broadcast channel that forgets, and the stream's loop. Ids are
`next_event`, retained events are ids with sizes.

## 3. The runs

Every run has `CHECK_DEADLOCK FALSE`: executions end, and calls, requests and events
are bounded, so the systems stop by design. That nothing hangs is stated by the
liveness properties.

| Run | Shows | Instance |
|---|---|---|
| `task` | An execution under any authority: grants are authorised, reviewable, durable and given once per key; ambiguity stays open; the execution ends and every decision learns its fate | one turn; three requests, two with one key, one unreviewable; detector of two keys; storage may fail |
| `owner` | The whole server: first terminal status stands; no approval stays pending on a terminal turn; approved means flushed; only registered approvals are granted; Interrupted is confirmed; the owner refines TurnTask | one turn, two requests, one too large to register; queue of 2, two HTTP calls |
| `owner_turns` | The admission counter is exact and a terminal turn's child is reaped, over two turns with pruning | table of one turn, queue of 1 |
| `owner_live` | Every turn ends although app-server, clients and streams may do nothing | one turn, one request, queue with room |
| `recovery` | The projection is what the journal leaves unresolved; ready means resolved; a request is decided once; executions refine Ledger | two executions, two keys, appends may fail, any number of crashes; symmetry in executions and keys (no liveness) |
| `one_shot` | A second attempt repeats nothing irreversible; no child is left; the command returns when the app-server falls silent | both attempts, three requests each |
| `transport` | Notifications come out once and in order; the pending counter is exact; a session with an honest app-server ends without a timer | two calls, the wait and an interrupt; three unasked messages of two sizes; buffer of 2 messages, 3 bytes |
| `replay` | The byte counters are exact; nothing is received twice; what is missed was lost by lag or eviction; a live stream ends after its turn | three turns, two records, four events of sizes 1 to 3 (3 is oversized), channel of 2, one subscriber that may reconnect |
| `writer` | What was acknowledged is stored with its captures; the rows of a caller are in its order; the migration loses nothing; every call returns; the writer refines AppendLog | two callers, one with a capture; two legacy captures; channel of 2; one restart; statements may fail |
| `app_server` | What runs is what was verified; the kill reaches the whole group and no later one; a success leaves nothing; clean-up ends | a leader and two descendants, a deadline |
| `descriptor` | What is granted was shown; the limits hold and refuse no ordinary command or patch | all five methods, six kinds of field values, lists of up to three with a limit of two, texts of 1, 2 and 4 bytes with a budget of 4 |

`full_queue` ends in a violation of a sentence of the repository: `api.rs:365-367` says
backpressure never discards a cancellation. With a full queue, an unread earlier
interrupt and an execution waiting to send `Finished`, the second `control.send`, which
has no timeout, waits for ever.

Three more configurations of the same modules, which are not among the runs, end in a
violation of such a sentence too:

- `MCRuntimeOwnerDenied.cfg` (DeniedIsNotGranted): `client.rs:690-692` says "An approval
  is not considered decided by the HTTP adapter until the owner has flushed the original
  JSON-RPC response." `owner_decide` (`api.rs:848`) records Denied when the
  acknowledgement is late; the Allow it sent is still written afterwards.
- `MCRuntimeOwnerLease.cfg` (LeaseHasGuard): `tests/cp6_local_http_sse.rs:357-358`
  says "only the first controlling SSE stream owns cancellation.
  Dropping it sends the same fail-closed denial path as a timeout". `owner_subscribe`
  (`api.rs:714`) takes the lease before it knows that the client is still there; if it
  is not, no guard exists and nobody can take the lease again.
- `MCOneShotAmbiguous.cfg` (AmbiguityStaysOpen, run with MCOneShot):
  `orchestrator.rs:511-512` says "After delivery, all transport ambiguity classes
  (including timeout and stream close) are durable unknown execution, not a retry cue."
  `execute_flow_once` (`orchestrator.rs:475`) closes them as Failed, while the controlled
  path (`orchestrator.rs:920-941`) leaves them open.

Smaller disagreements are visible in the models and have no run of their own:
Bootstrap is sent only at the start, so that admission withdrawn by a failed turn
never returns, while `api.rs:1111-1113` says "until a later bounded bootstrap
succeeds"; an approval key that was decided, asked for again and cut off by a crash
keeps its old decision in the projected map (`journal.rs:556`); a response whose id is
not a `u64` is buffered instead of poisoning the client (`jsonl.rs:283`); and an
interrupt that drops `respond` between its text and its newline writes
`turn/interrupt` on the same line (`jsonl.rs:322`; `stdin = "joined"` in JsonlReader).
`bootstrap_runtime` "always reaps that process before reporting"
(`orchestrator.rs:266-269`), but the deadline of `api.rs:388` drops it: the group is
killed by Drop, the leader is reaped by tokio later, and the directory with the copy of
the credential stays (`pc = "dropped"` in AppServer, from which NothingIsLeft is
excluded). A Drop while shutdown awaits the stderr task leaves that task detached
instead of aborted (`process.rs:264-268`; `drain = "reading"` with `pc = "dropped"`). And
`execCommandApproval` shows all the arguments of a command, however many
(`client.rs:551-556`), although `client.rs:1537-1538` means to keep the descriptor small: such a
request can't be allowed, and its event may exceed the limit (`Bounded` makes the
exception).

### Bounds

- `QueueCap` 1 or 2 makes the queue full (`OWNER_COMMAND_CAPACITY` is 128, the same code path);
  9 is room for every command the live instance can send, because the deadlock of
  `full_queue` would otherwise refute liveness. `TurnCap` 1 forces refusal and
  pruning, `ApprovalCap` 2 holds every request, an oversized one reaches the same
  refusal as a full table.
- `MaxCalls` bounds HTTP calls. Creating the turn is one; the second is any of read,
  interrupt, approve, deny. Timers and the SSE stream cancel without a call, so two
  cancellations can race in `owner` too.
- Three requests in `task`: one accepted, one repeating its key with another JSON-RPC
  id, one that an interrupt drops. `SeenCap` 2 is reached by the two keys.
- `MaxRequests` 3 per attempt in OneShot: accepted, refused by the session, repeated.
- `MaxPending` 2 and `MaxBytes` 3 with sizes 1 and 2: two large messages exceed the
  bytes, three small ones the count. `Calls` 2 has a call before turn/start and
  turn/start itself, which is where `turn/completed` may be early.
- `MaxPushed` 4, `MaxEvents` 2, `MaxReplay` 3: overflow of a turn, eviction across
  turns, an oversized event and pruning (create, end, create, create) all fit.
- Two executions and two keys: one key twice, and a crash between two recovery rows.

- `writer`: a channel of 2 is full with the command of a caller that gave up and its next one,
  so that the other caller waits for room while the thread answers, stops or dies; two calls of the one and one of the other
  order an append, a prune and a shutdown in every way; two lives put a crash into each
  migration and the repetition after it.
- `app_server`: one descendant may fork the other after the leader has gone, so that a
  member is two generations away from the leader; reuse of the number happens once.
- `descriptor`: one change, entry or argument of every kind, and lists of up to three of a
  few kinds, one more than the limit of two; a text of 4 bytes fills the budget, 1 and 2 in
  several orders leave room behind a text that did not fit.

### Fairness

- TurnTask: weak fairness on the execution's own steps. Tokio polls a ready task and
  its timers fire. The child and the authority have none; they may be silent.
- RuntimeOwner: the same, and for the owner's steps, the timers (created as tasks
  that sleep), the SSE guard's send and the forwarding of approvals. Clients, the
  app-server and the streams have none.
- OneShot: the process's own steps. `OneShotEnds` assumes that notifications stop:
  the wait's timer is per message (`client.rs:983`), so a talkative app-server
  holds the command, and the property says exactly that.
- JsonlReader: the client, and an *honest* app-server that answers what it read and
  completes the turn. No timer is assumed; that is the point of the property.
- EventReplay: the stream loop of each connected subscriber.
- JournalWriter: the thread, the join, and each caller that can go on. No fairness of the
  callers' next calls, of errors or crashes; `CallsReturn` does not need the caller that
  shuts down to come.
- AppServer: the steps of clean-up, whose waits have timers, and which are therefore always
  enabled. The processes have none: they may ignore everything.
- Recovery and ApprovalDescriptor have no liveness property: the one may crash for ever, the
  other is a function.

## 4. The proofs

`*Proofs` modules; every leaf is checked by tlapm. Constants are arbitrary, under the
named assumptions of the modules (finite or positive capacities, `TurnOf` and `KeyOf`
are functions, sentinels are not elements).

- **TurnTaskProofs.** `TaskTypeCorrect`; then three groups of strengthenings.
  `HandlerInv`/`WireInv` tie handler stage, decision, journal record and response
  together: what the response will be is fixed by the decision and is recorded before
  it is written. They give `GrantsAreAuthorised` and `DeliveriesAreAnswered`.
  `PhaseInv`/`CloseInv` say which outcome, child and record each phase of the clean-up
  can see; they give `InterruptsAreConfirmed` and `AmbiguityIsRecoverable`. `KeyInv`
  says that the key of every handled request is in `seen` and that two requests with
  one key are not both past it; it gives `KeysAreGrantedOnce`. The properties
  are not inductive alone because they do not say how the handler got where it is.
- **RuntimeOwnerProofs.** `OwnerInv` (types, and what the owner holds while it awaits)
  gives `ServerTypeCorrect` and `ServerImplementsTask`: every step of the server is a
  step of an execution, a step an authority may take, or a stutter. Hence TurnTask's
  theorems hold of the server (`ServerGrantsAreAuthorised`,
  `ServerInterruptsAreConfirmed`). `LifeInv`/`FinishedInv`, which relate a turn's
  status to its execution and to the `Finished` in the queue, give
  `AdmissionIsCounted` and `TerminalIsAfterReap`.
  The rest is about what clients see. A case for every step of what it does to a status (`StatusMoves`) gives `TerminalStatusStands`, and
  with `LifeInv` and TurnTask's `CloseInv` `InterruptionIsConfirmed`. `RecordInv` says which
  requests may have a record, and that those the owner holds while it awaits have one; it
  gives `TerminalTurnHasNoPending` and `ApprovedWasFlushed`. `AllowsAreRegistered` needs the whole
  way of an announcement: `AnnounceInv` says that the Pending message of a request is in
  flight at most once, between its execution's channel and the queue, that the request has
  no record meanwhile, and that what was allowed has been claimed (`AllowClaims`).
- **RecoveryProofs.** `ProjectionInv` says that after each row the sets are what the
  rows read so far leave unresolved: `ProjectionCorrect`, `ReadyIsResolved`. `LogInv`
  says in which order rows of an execution can stand: `RecoveryImplementsLedger`.
  `DecidedInv` strengthens `DecidedOnce` by the request that is outstanding: decisions and
  outstanding requests of a key are together no more than its requests, and whoever appends
  a decision holds an outstanding one: `DecisionsAreRequested`.
- **OneShotProofs.** `UntouchedInv`/`DesyncInv` (a desync that restarts left the attempt
  without irreversible requests or answers), `ChildInv`, `CompletedInv`.

- **JournalWriterProofs.** `CallInv` says where each call is: a caller waits for a command that
  is in the channel or with the thread. `NumberInv` and `OrderInv` say that the commands of a
  caller in the log, with the thread and in the channel are in the order of its calls.
  With `StatementInv`, what the statements left in `todo` still have to do, they give `AcknowledgedIsDurableAlways`, `CallsStayInOrder` and
  `WriterImplementsAppendLog`; which captures each remaining statement of the migration has
  still to copy gives `LegacyIsKeptAlways` and `PrunedForGood`.
- **AppServerProofs.** The number of the leader is in use as long as a signal may still be
  sent (`OwnGroupOnlyAlways`); after the kill no member is up, and a process that is not up
  cannot fork into the group (`NoMemberSurvivesAlways`); the handles hold what was verified
  from the moment they exist (`RunsWhatWasVerifiedAlways`); and what the results ok and spawn
  still imply at each step of clean-up (`NothingIsLeftAlways`). Descendants are any set.
  The second part is the transport. `ReaderInv` says that what was returned, then what is
  pending, then what is in hand, as far as it matches no call, is what was read, as far as it
  matches no call, in this order (`ReadInOrder`); that only such messages are pending; and that
  `pending_bytes` is the sum of their sizes. `ReadInOrder` speaks of what
  was read only, which no write of the app-server changes; with the unread messages put behind
  both sides it is NotificationsInOrder. `NotificationsInOrderAlways` and `PendingIsExactAlways`
  hold for any number of calls, messages, sizes and limits.
- **OwnerViewProofs.** What clients of the owner are given. Of a descriptor: one lemma for
  each method says that if it is reviewable, what is displayed is the effect of the request.
  For a patch this says that within the limits every change is shown at its own index,
  whatever the budget did before. Texts, limits and requests are arbitrary:
  `GrantsAreInformed`. `LimitsAreExactAlways` follows the budget: what the first changes used
  of it is a recursive function that never exceeds the limit and is the sum of what is shown
  (`ShownSizeIsUsed`), and while an ordinary patch is read it is the sum of all texts so far, so
  that each of them fits (`OrdinaryIsUsed`).
  Of the event stream: `StoreInv` says that the counters are the sizes of what is retained,
  that no event is retained twice, and that the ids of a list and of a channel increase;
  `StreamInv` says that what a subscriber has received comes before its replay and that before
  what the channel still has, and that each retained event has been received or lost or is in
  one of these. `EventInv`, both with the types, is inductive and gives
  `ReplayIsExactAlways`, `EachOnceAlways` and `NothingIsSkippedAlways`. That eviction makes
  room (`EvictionMakesRoom`) and that pruning gives back exactly what it removes
  (`PruneKeepsExact`) are the lemmas about the counters.
- **ListsProofs.** The facts about sums and filtered lists that these proofs cite: a sum
  over a finite set or a list with an element more, one less, or split in two; a filtered
  list of an appended, joined or ordered list. The library defines both by
  recursion over sets, and its induction rules take the statement as an operator, which the
  provers here cannot instantiate. Each statement is therefore the set of the numbers, sets or lists
  it holds of (`Induction`, `SetInduction`, `SeqInduction`, by the least counterexample), and
  that the recursive functions exist is proved first (`Recursion`, `SetRecursion`).

Every invariant that a run checks is a theorem for all values of the constants, and so are
the refinements of TurnTask, Ledger and AppendLog. Only model-checked is what the prover
cannot express, liveness under fairness: `TaskTerminates`, `DecisionSettles`, `TurnEnds`,
`OneShotEnds`, `SessionEnds`, `TerminalEndsStream`, `CallsReturn` and `ShutdownEnds`; and the
violations of section 3. The type invariants and a few more properties
(`DeliveredIsAnswered`, `ConfirmedInterrupt`, `CompletedWasAccepted`, `DeletedForGood`) are
proved and are not repeated in the runs.

## 5. What is not modelled

- Command line, HTTP routing and formats; of the configuration, everything but the files
  AppServer uses: sequential, without state.
- The fake app-server: the modelled child may do more.
- Texts: redaction is the class of a text in ApprovalDescriptor and nothing in JournalWriter.
- Request keys: `approval_request_key` is a function of method and ids (`KeyOf`), taken to
  have no collisions of its hash.
- `append_with_capture` and `prune_expired`, which only tests call, are in JournalWriter;
  no production caller sends captures.
- Threads in the API, which only name turns, and `Shutdown`, which nothing sends.
- `wait_for_notification`, which only tests call.
- Texts of statuses: `api.rs:1120` searches for `turn_status=completed` in a summary,
  which the models replace by the class of the status.
- A second process on one journal file; streams that observe without the lease in
  RuntimeOwner (they change nothing there; EventReplay has them).

## 6. Plan

Done, in this order: SessionState and TurnTask with proofs; RuntimeOwner with proofs
and its refinement; Recovery and Ledger with proofs; OneShot with proofs; JsonlReader;
EventReplay; JournalWriter and AppendLog with proofs; AppServer with proofs;
ApprovalDescriptor with proofs; the proofs of what clients see of approvals and
terminal statuses, and of the decisions in the journal; Lists, and the proofs of the
transport, of the event stream and of the limits of descriptors.

Next, the model:
1. A second process on one journal (`orchestrator.rs:531`): Recovery with two processes, whose
   starts recover each other's live executions.
2. The quota decision and the duplicate detector as operators against a reference.
3. Threads, and statuses with text where `owner_finished` and the journal differ.

Next, the proofs: what a second process on the journal leaves of `RecoveryImplementsLedger`;
that what JsonlReader returns is what TurnTask assumes of its calls, as a refinement; and the
safety part of the liveness properties, such as that an awaited acknowledgement always has
somebody who can still send it.
