----------------------------- MODULE JournalWriter -----------------------------
(***************************************************************************)
(* The writer of the journal (src/src/journal.rs): one thread that owns the *)
(* connection and takes commands from a bounded channel, the clones of      *)
(* JournalWriter that send them and wait for a reply, and the file, with    *)
(* the captures that an older version kept on the event rows.  SQLite       *)
(* commits statement by statement; a caller may be dropped while it waits,  *)
(* and the process may end between any two statements.                      *)
(***************************************************************************)
EXTENDS Naturals, Sequences, FiniteSets

CONSTANTS
    Caller,       \* the holders of a JournalWriter
    Original,     \* the one whose JournalWriter has the thread's handle
    CapturesOf,   \* the captures a caller's appends carry and the config keeps
    Legacy,       \* <<row, kind>>: captures on rows of the older version
    NoCommand,    \* not a command
    Fails,        \* may SQLite fail?
    ChannelCap,   \* capacity of the channel (128)
    MaxCalls,     \* bound of the model: calls of each caller
    MaxLives      \* bound of the model: starts of the process

Kind == {"terminal_output", "raw_capture"}
Call == UNION {{c} \X (1 .. MaxCalls[c]) : c \in Caller}

ASSUME WriterAssumption ==
    /\ Original \in Caller
    /\ CapturesOf \in [Caller -> SUBSET Kind]
    /\ \A x \in Legacy : x[1] \notin Call /\ x[2] \in Kind
    /\ Fails \in BOOLEAN
    /\ ChannelCap \in Nat \ {0} /\ MaxCalls \in [Caller -> Nat] /\ MaxLives \in Nat \ {0}

VARIABLES
    log,        \* journal_events, after the rows of the older version
    cells,      \* the captures still on their rows
    captures,   \* journal_captures
    expired,    \* the captures whose expires_at_ms has passed
    life,       \* starts so far
    writer,     \* where open and the thread are
    todo,       \* the statements of the current operation not yet executed
    current,    \* the command the thread executes
    queue,      \* the channel
    stage,      \* where each caller is
    ask,        \* the command it is waiting for
    calls,      \* how many it has made
    outcome     \* what each append returned

durable == <<log, cells, captures, expired>>
threadVars == <<writer, todo, current>>
callerVars == <<stage, ask, calls, outcome>>
vars == <<durable, life, threadVars, queue, callerVars>>

-------------------------------------------------------------------------------
Command == [op : {"append", "prune", "shutdown"}, id : Call]
Statement == {"event", "clear"} \cup Kind
Outcome == {"none", "open", "dropped", "ok", "failed", "stopped", "lost"}

TypeOK ==
    /\ log \in Seq(Call)
    /\ cells \in SUBSET Legacy
    /\ captures \in SUBSET ((Call \X Kind) \cup Legacy)
    /\ expired \in SUBSET ((Call \X Kind) \cup Legacy)
    /\ life \in 1 .. MaxLives
    /\ writer \in {"init", "closed", "prepare", "deaf", "recv", "append", "stopping", "stopped"}
    /\ todo \in Seq(Statement)
    /\ current \in Command \cup {NoCommand}
    /\ queue \in Seq(Command) /\ Len(queue) <= ChannelCap
    /\ stage \in [Caller -> {"idle", "sending", "waiting", "joining", "gone"}]
    /\ ask \in [Caller -> Command \cup {NoCommand}]
    /\ calls \in [Caller -> Nat] /\ \A c \in Caller : calls[c] <= MaxCalls[c]
    /\ outcome \in [Call -> Outcome]

\* Mutant: the rows are cleared before they are read.
ClearFirst == <<"clear", "terminal_output", "raw_capture">>

\* migrate_legacy_captures, which every open runs on two connections.
Migration == <<"terminal_output", "raw_capture", "clear">>

Init ==
    /\ log = <<>> /\ cells = Legacy /\ captures = {} /\ expired = {}
    /\ life = 1
    /\ writer = "init" /\ todo = Migration /\ current = NoCommand
    /\ queue = <<>>
    /\ stage = [c \in Caller |-> "idle"]
    /\ ask = [c \in Caller |-> NoCommand]
    /\ calls = [c \in Caller |-> 0]
    /\ outcome = [i \in Call |-> "none"]

-------------------------------------------------------------------------------
(* The file *)

Migrating == writer \in {"init", "prepare"}

MigrateStatement ==
    /\ Migrating /\ todo # <<>>
    /\ captures' = captures \cup {x \in cells : x[2] = Head(todo)}
    /\ cells' = IF Head(todo) = "clear" THEN {} ELSE cells
    /\ todo' = Tail(todo)
    /\ UNCHANGED <<log, expired, life, writer, current, queue, callerVars>>

\* init_db is done, and the thread prepares its own connection; or the thread is ready.
MigrationEnds ==
    /\ Migrating /\ todo = <<>>
    /\ \/ writer = "init" /\ writer' = "prepare" /\ todo' = Migration
       \/ writer = "prepare" /\ writer' = "recv" /\ UNCHANGED todo
    /\ UNCHANGED <<durable, life, current, queue, callerVars>>

\* open returns the error of init_db; the thread keeps its own for the first command.
OpenFails ==
    /\ Fails /\ Migrating
    /\ writer' = IF writer = "init" THEN "closed" ELSE "deaf"
    /\ todo' = <<>>
    /\ UNCHANGED <<durable, life, current, queue, callerVars>>

Expire ==
    /\ \E x \in (captures \cup cells) \ expired : expired' = expired \cup {x}
    /\ UNCHANGED <<log, cells, captures, life, threadVars, queue, callerVars>>

-------------------------------------------------------------------------------
(* The callers *)

Opened == writer \notin {"init", "closed"}

Make(c, op) ==
    LET id == <<c, calls[c] + 1>> IN
    /\ Opened /\ stage[c] = "idle" /\ calls[c] < MaxCalls[c]
    /\ stage' = [stage EXCEPT ![c] = "sending"]
    /\ ask' = [ask EXCEPT ![c] = [op |-> op, id |-> id]]
    /\ calls' = [calls EXCEPT ![c] = @ + 1]
    /\ outcome' = IF op = "append" THEN [outcome EXCEPT ![id] = "open"] ELSE outcome
    /\ UNCHANGED <<durable, life, threadVars, queue>>

Send(c) ==
    /\ stage[c] = "sending" /\ writer # "stopped" /\ Len(queue) < ChannelCap
    /\ queue' = Append(queue, ask[c])
    /\ stage' = [stage EXCEPT ![c] = "waiting"]
    /\ UNCHANGED <<durable, life, threadVars, ask, calls, outcome>>

\* A caller returns; shutdown consumes its JournalWriter.
Left(cmd) == IF cmd.op = "shutdown" THEN "gone" ELSE "idle"

Return(c, r) ==
    /\ stage' = [stage EXCEPT ![c] = Left(ask[c])]
    /\ outcome' = IF ask[c].op = "append" THEN [outcome EXCEPT ![ask[c].id] = r] ELSE outcome
    /\ ask' = [ask EXCEPT ![c] = NoCommand]
    /\ UNCHANGED calls

SendFails(c) ==
    /\ stage[c] = "sending" /\ writer = "stopped"
    /\ Return(c, "stopped")
    /\ UNCHANGED <<durable, life, threadVars, queue>>

\* Mutant: a call that takes too long is reported as WriterStopped.
TimesOutAsStopped(c) ==
    /\ stage[c] \in {"sending", "waiting"}
    /\ Return(c, "stopped")
    /\ UNCHANGED <<durable, life, threadVars, queue>>

\* The future of a call is dropped; what was sent stays sent.
Abandon(c) ==
    /\ stage[c] \in {"sending", "waiting"}
    /\ Return(c, "dropped")
    /\ UNCHANGED <<durable, life, threadVars, queue>>

DropWriter(c) ==
    /\ Opened /\ stage[c] = "idle"
    /\ stage' = [stage EXCEPT ![c] = "gone"]
    /\ UNCHANGED <<durable, life, threadVars, queue, ask, calls, outcome>>

Joined ==
    /\ stage[Original] = "joining" /\ writer = "stopped"
    /\ stage' = [stage EXCEPT ![Original] = "gone"]
    /\ UNCHANGED <<durable, life, threadVars, queue, ask, calls, outcome>>

-------------------------------------------------------------------------------
(* The thread *)

\* The callers whose command is in cmds get the answer r; whoever gave up gets nothing.
\* A shutdown that succeeded joins the thread if it can.
Waits(c, cmds) == stage[c] = "waiting" /\ ask[c] \in cmds

AfterReply(c, r) ==
    IF ask[c].op = "shutdown" /\ r = "ok" /\ c = Original THEN "joining" ELSE Left(ask[c])

Reply(cmds, r) ==
    /\ stage' = [c \in Caller |-> IF Waits(c, cmds) THEN AfterReply(c, r) ELSE stage[c]]
    /\ outcome' = [i \in Call |->
            IF \E c \in Caller : Waits(c, cmds) /\ ask[c].op = "append" /\ ask[c].id = i
            THEN r ELSE outcome[i]]
    /\ ask' = [c \in Caller |-> IF Waits(c, cmds) THEN NoCommand ELSE ask[c]]
    /\ UNCHANGED calls

Take(op) ==
    /\ writer = "recv" /\ queue # <<>> /\ Head(queue).op = op
    /\ queue' = Tail(queue)

\* append_record: the event, then each capture if the caller has one and the config keeps it.
Insertion == <<"event", "terminal_output", "raw_capture">>

Kept == {k \in Kind : k \in CapturesOf[current.id[1]]}

TakeAppend ==
    /\ Take("append")
    /\ writer' = "append"
    /\ current' = Head(queue)
    /\ todo' = Insertion
    /\ UNCHANGED <<durable, life, callerVars>>

AppendStatement ==
    /\ writer = "append" /\ todo # <<>>
    /\ IF Head(todo) = "event"
       THEN log' = Append(log, current.id) /\ UNCHANGED captures
       ELSE captures' = captures \cup {<<current.id, k>> : k \in Kept \cap {Head(todo)}} /\ UNCHANGED log
    /\ todo' = Tail(todo)
    /\ UNCHANGED <<cells, expired, life, writer, current, queue, callerVars>>

\* Mutants: errors are ignored; a failed append goes back to the channel to be tried again.
IgnoresErrors ==
    /\ writer = "append"
    /\ \/ todo = <<>>
       \/ Fails /\ todo # <<>> /\ Head(todo) \in Kept \cup {"event"}
    /\ Reply({current}, "ok")
    /\ writer' = "recv" /\ todo' = <<>> /\ current' = NoCommand
    /\ UNCHANGED <<durable, life, queue>>

TriesAgain ==
    /\ writer = "append"
    /\ \/ todo = <<>> /\ Reply({current}, "ok") /\ UNCHANGED queue
       \/ /\ Fails /\ todo # <<>> /\ Head(todo) = "event" /\ Len(queue) < ChannelCap
          /\ queue' = Append(queue, current) /\ UNCHANGED callerVars
    /\ writer' = "recv" /\ todo' = <<>> /\ current' = NoCommand
    /\ UNCHANGED <<durable, life>>

\* append_record is through, or one of its statements failed; what is written stays.
AppendReturns ==
    /\ writer = "append"
    /\ \/ todo = <<>> /\ Reply({current}, "ok")
       \/ Fails /\ todo # <<>> /\ Head(todo) \in Kept \cup {"event"} /\ Reply({current}, "failed")
    /\ writer' = "recv" /\ todo' = <<>> /\ current' = NoCommand
    /\ UNCHANGED <<durable, life, queue>>

\* The captures that a prune deletes.
Pruned == {x \in captures : x \in expired}

TakePrune ==
    /\ Take("prune")
    /\ \/ captures' = captures \ Pruned /\ Reply({Head(queue)}, "ok")
       \/ Fails /\ UNCHANGED captures /\ Reply({Head(queue)}, "failed")
    /\ UNCHANGED <<log, cells, expired, life, threadVars>>

TakeShutdown ==
    /\ Take("shutdown")
    /\ Reply({Head(queue)}, "ok")
    /\ writer' = "stopping"
    /\ UNCHANGED <<durable, life, todo, current>>

\* A thread that could not prepare its connection answers one command and ends.
AnswerOne ==
    /\ writer = "deaf" /\ queue # <<>>
    /\ Reply({Head(queue)}, "failed")
    /\ queue' = Tail(queue)
    /\ writer' = "stopping"
    /\ UNCHANGED <<durable, life, todo, current>>

\* The last sender is gone and the channel is drained.
AllGone ==
    /\ writer \in {"recv", "deaf"} /\ queue = <<>>
    /\ \A c \in Caller : stage[c] = "gone"
    /\ writer' = "stopping"
    /\ UNCHANGED <<durable, life, todo, current, queue, callerVars>>

\* The thread's end closes the channel and drops what is in it.
Queued == {queue[n] : n \in 1 .. Len(queue)}

\* Mutant: the thread ends and leaves the channel open.
StopLeavesTheChannel ==
    /\ writer = "stopping"
    /\ writer' = "stopped"
    /\ UNCHANGED <<durable, life, todo, current, queue, callerVars>>

Stop ==
    /\ writer = "stopping"
    /\ writer' = "stopped"
    /\ Reply(Queued, "stopped")
    /\ queue' = <<>>
    /\ UNCHANGED <<durable, life, todo, current>>

\* The process ends, at any point, and is started again.
Crash ==
    /\ life < MaxLives
    /\ life' = life + 1
    /\ writer' = "init" /\ todo' = Migration /\ current' = NoCommand
    /\ queue' = <<>>
    /\ stage' = [c \in Caller |-> "idle"]
    /\ ask' = [c \in Caller |-> NoCommand]
    /\ outcome' = [i \in Call |-> IF outcome[i] = "open" THEN "lost" ELSE outcome[i]]
    /\ UNCHANGED <<durable, calls>>

-------------------------------------------------------------------------------
Thread ==
    MigrateStatement \/ MigrationEnds \/ TakeAppend \/ AppendStatement \/ AppendReturns
    \/ TakePrune \/ TakeShutdown \/ AnswerOne \/ AllGone \/ Stop

CallerStep(c) == Send(c) \/ SendFails(c)

Next ==
    \/ Thread \/ OpenFails \/ Expire \/ Joined \/ Crash
    \/ \E c \in Caller : CallerStep(c) \/ Abandon(c) \/ DropWriter(c)
    \/ \E c \in Caller, op \in {"append", "prune", "shutdown"} : Make(c, op)

Spec == Init /\ [][Next]_vars

\* The thread is scheduled, and a task that can go on is polled.
FairSpec ==
    /\ Spec
    /\ WF_vars(Thread) /\ WF_vars(Joined)
    /\ \A c \in Caller : WF_vars(CallerStep(c))

-------------------------------------------------------------------------------
(* Properties *)

Written(i) == \E n \in 1 .. Len(log) : log[n] = i

\* append (journal.rs:257-287) that returned Ok has its row, and each capture it carried
\* (journal.rs:407-418) is stored until its time has passed.
AcknowledgedIsDurable ==
    \A i \in Call : outcome[i] = "ok" =>
        /\ Written(i)
        /\ \A k \in CapturesOf[i[1]] : <<i, k>> \in captures \cup expired

\* The rows of a caller (journal.rs:280-287) stand in the order of its calls, those
\* included whose futures were dropped before the reply: a decision never precedes the
\* request it decides, nor an end its start.
OrderOfCalls ==
    \A m, n \in 1 .. Len(log) : m < n /\ log[m][1] = log[n][1] => log[m][2] < log[n][2]

\* migrate_legacy_captures (journal.rs:367-389), cut off by a crash or an error between
\* its statements and repeated, loses no capture before its time ...
LegacyIsKept == Legacy \subseteq cells \cup captures \cup expired

\* ... and leaves none in its row that a prune (journal.rs:421-426) deletes: the next open
\* would bring it back.
DeletedForGood == [][\A x \in captures \ captures' : x \notin cells']_vars

\* The channel, the thread and the statements (journal.rs:218-324) implement AppendLog.
Log == INSTANCE AppendLog WITH
    Id <- Call, Plain <- {i \in Call : CapturesOf[i[1]] = {}}, rows <- log, result <- outcome

ImplementsAppendLog == Log!LogSpec

\* Every call of a writer (journal.rs:257-324) returns, whether the thread runs, failed to
\* open its connection, was shut down by another clone, or dies with the call in its channel.
CallsReturn ==
    \A c \in Caller : stage[c] \in {"sending", "waiting", "joining"} ~> stage[c] \in {"idle", "gone"}
===============================================================================
