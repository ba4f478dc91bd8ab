-------------------------- MODULE JournalWriterProofs --------------------------
(***************************************************************************)
(* Proofs about JournalWriter: an acknowledged append is durable, the rows  *)
(* of a caller stand in the order of its calls, the migration of an older   *)
(* file loses nothing, and the channel, the thread and the statements       *)
(* implement AppendLog, for any callers, captures, capacity and crashes.    *)
(***************************************************************************)
EXTENDS JournalWriter, SequenceTheorems, TLAPS

-------------------------------------------------------------------------------
(* The inductive invariant. *)

\* Calls of one caller are ordered by their numbers.
Before(i, j) == i[1] = j[1] => i[2] < j[2]

\* What the thread has taken and not yet inserted stands after the rows and before the channel,
\* and what a caller is about to send stands after everything.
OrderInv ==
    /\ \A m, n \in 1 .. Len(log) : m < n => Before(log[m], log[n])
    /\ \A m, n \in 1 .. Len(queue) : m < n => Before(queue[m].id, queue[n].id)
    /\ \A m \in 1 .. Len(log), n \in 1 .. Len(queue) : Before(log[m], queue[n].id)
    /\ writer = "append" =>
        /\ \A n \in 1 .. Len(queue) : Before(current.id, queue[n].id)
        /\ todo = Insertion => \A m \in 1 .. Len(log) : Before(log[m], current.id)

\* The numbers in use, and those of a call still to be sent.
NumberInv ==
    /\ \A m \in 1 .. Len(log) : log[m][2] <= calls[log[m][1]]
    /\ \A n \in 1 .. Len(queue) : queue[n].id[2] <= calls[queue[n].id[1]]
    /\ writer = "append" => current.id[2] <= calls[current.id[1]]
    /\ \A c \in Caller : stage[c] = "sending" =>
        /\ \A m \in 1 .. Len(log) : Before(log[m], ask[c].id)
        /\ \A n \in 1 .. Len(queue) : Before(queue[n].id, ask[c].id)
        /\ writer = "append" => Before(current.id, ask[c].id)

\* What the callers wait for, and what has not been answered.
CallInv ==
    /\ \A c \in Caller : stage[c] \in {"sending", "waiting"} =>
        /\ ask[c] \in Command /\ ask[c].id = <<c, calls[c]>>
        /\ ask[c].op = "append" => outcome[ask[c].id] = "open"
    /\ \A i \in Call : i[2] > calls[i[1]] => outcome[i] = "none"
    /\ \A n \in 1 .. Len(queue) :
        queue[n].op = "append" => outcome[queue[n].id] \in {"open", "dropped"}
    /\ writer = "append" =>
        /\ current \in Command /\ current.op = "append"
        /\ outcome[current.id] \in {"open", "dropped"}

\* What the statements executed so far have done.
StatementInv ==
    /\ Migrating =>
        /\ todo \in {Migration, <<"raw_capture", "clear">>, <<"clear">>, <<>>}
        /\ todo # Migration => {x \in cells : x[2] = "terminal_output"} \subseteq captures
        /\ todo \in {<<"clear">>, <<>>} => cells \subseteq captures
        /\ todo = <<>> => cells = {}
    /\ writer = "append" =>
        /\ todo \in {Insertion, <<"terminal_output", "raw_capture">>, <<"raw_capture">>, <<>>}
        /\ todo # Insertion => Written(current.id)
        /\ todo \in {<<"raw_capture">>, <<>>} /\ "terminal_output" \in Kept
            => <<current.id, "terminal_output">> \in captures
        /\ todo = <<>> /\ "raw_capture" \in Kept => <<current.id, "raw_capture">> \in captures
    /\ writer \in {"recv", "append"} => cells = {}

IInv ==
    /\ TypeOK /\ OrderInv /\ NumberInv /\ CallInv /\ StatementInv
    /\ AcknowledgedIsDurable /\ LegacyIsKept

-------------------------------------------------------------------------------
(* Calls, commands and sequences of them. *)

LEMMA CallType ==
    /\ \A i \in Call : i[1] \in Caller /\ i[2] \in 1 .. MaxCalls[i[1]] /\ i = <<i[1], i[2]>>
    /\ \A c \in Caller : \A n \in 1 .. MaxCalls[c] : <<c, n>> \in Call
    /\ \A c \in Caller : MaxCalls[c] \in Nat
    /\ \A i \in Call : i[2] \in Nat
  BY WriterAssumption DEF Call

LEMMA CommandType ==
    ASSUME NEW cmd \in Command
    PROVE  /\ cmd.op \in {"append", "prune", "shutdown"} /\ cmd.id \in Call
           /\ cmd = [op |-> cmd.op, id |-> cmd.id]
  BY DEF Command

LEMMA Appended ==
    ASSUME NEW S, NEW q \in Seq(S), NEW e \in S
    PROVE  /\ Append(q, e) \in Seq(S)
           /\ Len(q) \in Nat /\ Len(Append(q, e)) = Len(q) + 1
           /\ \A n \in 1 .. Len(q) : Append(q, e)[n] = q[n] /\ q[n] \in S
           /\ Append(q, e)[Len(q) + 1] = e
  BY AppendProperties

LEMMA Taken ==
    ASSUME NEW S, NEW q \in Seq(S), q # <<>>
    PROVE  /\ Head(q) \in S /\ Head(q) = q[1] /\ 1 \in 1 .. Len(q)
           /\ Tail(q) \in Seq(S) /\ Len(q) \in Nat /\ Len(Tail(q)) = Len(q) - 1
           /\ \A n \in 1 .. Len(Tail(q)) : n + 1 \in 1 .. Len(q) /\ Tail(q)[n] = q[n + 1]
  BY HeadTailProperties

LEMMA StatementLists ==
    /\ Migration \in Seq(Statement) /\ Insertion \in Seq(Statement)
    /\ <<>> \in Seq(Statement)
    /\ Migration # <<>> /\ Head(Migration) = "terminal_output"
    /\ Tail(Migration) = <<"raw_capture", "clear">>
    /\ Head(<<"raw_capture", "clear">>) = "raw_capture"
    /\ Tail(<<"raw_capture", "clear">>) = <<"clear">>
    /\ Head(<<"clear">>) = "clear" /\ Tail(<<"clear">>) = <<>>
    /\ Insertion # <<>> /\ Head(Insertion) = "event"
    /\ Tail(Insertion) = <<"terminal_output", "raw_capture">>
    /\ Head(<<"terminal_output", "raw_capture">>) = "terminal_output"
    /\ Tail(<<"terminal_output", "raw_capture">>) = <<"raw_capture">>
    /\ Head(<<"raw_capture">>) = "raw_capture" /\ Tail(<<"raw_capture">>) = <<>>
  BY DEF Migration, Insertion, Statement, Kind

\* Which lists are which.
LEMMA ListsDiffer ==
    /\ Migration # <<"raw_capture", "clear">> /\ Migration # <<"clear">> /\ Migration # <<>>
    /\ <<"raw_capture", "clear">> # <<"clear">> /\ <<"raw_capture", "clear">> # <<>>
    /\ <<"clear">> # <<>>
    /\ Insertion # <<"terminal_output", "raw_capture">> /\ Insertion # <<"raw_capture">>
    /\ Insertion # <<>> /\ <<"terminal_output", "raw_capture">> # <<"raw_capture">>
    /\ <<"terminal_output", "raw_capture">> # <<>> /\ <<"raw_capture">> # <<>>
  BY DEF Migration, Insertion

\* What an answer does to the callers and to the outcomes.
LEMMA ReplyEffect ==
    ASSUME TypeOK, CallInv, NEW cmds, NEW r \in {"ok", "failed", "stopped"}, Reply(cmds, r)
    PROVE  /\ stage' \in [Caller -> {"idle", "sending", "waiting", "joining", "gone"}]
           /\ ask' \in [Caller -> Command \cup {NoCommand}]
           /\ outcome' \in [Call -> Outcome] /\ calls' = calls
           /\ \A c \in Caller : stage'[c] \in {"sending", "waiting"} =>
                /\ stage'[c] = stage[c] /\ ask'[c] = ask[c]
                /\ ask[c].op = "append" => outcome'[ask[c].id] = outcome[ask[c].id]
           /\ \A i \in Call : outcome'[i] = outcome[i]
                \/ /\ outcome[i] = "open" /\ outcome'[i] = r
                   /\ [op |-> "append", id |-> i] \in cmds
                   /\ i[2] <= calls[i[1]]
  <1>1. \A c \in Caller : Waits(c, cmds) =>
            AfterReply(c, r) \in {"idle", "joining", "gone"}
    BY DEF AfterReply, Left
  <1>2. stage' \in [Caller -> {"idle", "sending", "waiting", "joining", "gone"}]
    BY <1>1 DEF Reply, TypeOK
  <1>3. ask' \in [Caller -> Command \cup {NoCommand}]
    BY DEF Reply, TypeOK
  <1>4. outcome' \in [Call -> Outcome]
    BY DEF Reply, TypeOK, Outcome
  <1>5. ASSUME NEW c \in Caller, Waits(c, cmds)
        PROVE  ask[c] \in Command /\ ask[c].id = <<c, calls[c]>> /\ ask[c] \in cmds
               /\ (ask[c].op = "append" => outcome[ask[c].id] = "open")
    BY <1>5 DEF Waits, CallInv
  <1>6. ASSUME NEW i \in Call, outcome'[i] # outcome[i]
        PROVE  /\ outcome[i] = "open" /\ outcome'[i] = r
               /\ [op |-> "append", id |-> i] \in cmds
               /\ i[2] <= calls[i[1]]
               /\ Waits(i[1], cmds)
    <2>1. PICK c \in Caller : Waits(c, cmds) /\ ask[c].op = "append" /\ ask[c].id = i
      BY <1>6 DEF Reply
    <2>2. outcome'[i] = r
      BY <1>6, <2>1 DEF Reply
    <2>3. i = <<c, calls[c]>> /\ calls[c] \in Nat /\ i[1] = c /\ i[2] = calls[c]
      <3>1. ask[c].id = <<c, calls[c]>>
        BY <1>5, <2>1
      <3>2. i = <<c, calls[c]>>
        BY <2>1, <3>1
      <3> QED BY <3>2 DEF TypeOK
    <2>4. ask[c] = [op |-> "append", id |-> i]
      BY <1>5, <2>1, CommandType
    <2> QED BY <1>5, <2>1, <2>2, <2>3, <2>4
  <1>7. ASSUME NEW c \in Caller, stage'[c] \in {"sending", "waiting"}
        PROVE  /\ ~Waits(c, cmds) /\ stage'[c] = stage[c] /\ ask'[c] = ask[c]
    BY <1>1, <1>7 DEF Reply
  <1>8. ASSUME NEW c \in Caller, stage'[c] \in {"sending", "waiting"}, ask[c].op = "append"
        PROVE  outcome'[ask[c].id] = outcome[ask[c].id]
    <2>1. ask[c] \in Command /\ ask[c].id = <<c, calls[c]>> /\ ask[c].id \in Call
      BY <1>7, <1>8, CommandType DEF CallInv
    <2>2. ask[c].id[1] = c
      BY <2>1
    <2>3. ASSUME outcome'[ask[c].id] # outcome[ask[c].id]
          PROVE  Waits(c, cmds)
      <3> DEFINE i == ask[c].id
      <3>1. i \in Call /\ outcome'[i] # outcome[i] /\ i[1] = c
        BY <2>1, <2>2, <2>3
      <3>2. Waits(i[1], cmds)
        BY <1>6, <3>1
      <3> HIDE DEF i
      <3> QED BY <3>1, <3>2 DEF Waits
    <2> QED BY <1>7, <1>8, <2>3
  <1> QED BY <1>2, <1>3, <1>4, <1>6, <1>7, <1>8 DEF Reply

\* A caller that returns by itself.
LEMMA ReturnEffect ==
    ASSUME TypeOK, CallInv, NEW c \in Caller, stage[c] \in {"sending", "waiting"},
           NEW r \in Outcome, Return(c, r)
    PROVE  /\ stage' \in [Caller -> {"idle", "sending", "waiting", "joining", "gone"}]
           /\ ask' \in [Caller -> Command \cup {NoCommand}]
           /\ outcome' \in [Call -> Outcome] /\ calls' = calls
           /\ \A d \in Caller : stage'[d] \in {"sending", "waiting"} =>
                /\ stage'[d] = stage[d] /\ ask'[d] = ask[d] /\ d # c
                /\ ask[d].op = "append" => outcome'[ask[d].id] = outcome[ask[d].id]
           /\ \A i \in Call : outcome'[i] = outcome[i]
                \/ /\ outcome[i] = "open" /\ outcome'[i] = r
                   /\ i = ask[c].id /\ ask[c].op = "append"
                   /\ i[2] <= calls[i[1]]
  <1>1. /\ ask[c] \in Command /\ ask[c].id = <<c, calls[c]>> /\ ask[c].id \in Call
        /\ ask[c].op = "append" => outcome[ask[c].id] = "open"
    BY CommandType DEF CallInv
  <1>2. ask[c].id[1] = c /\ ask[c].id[2] = calls[c] /\ calls[c] \in Nat
    BY <1>1 DEF TypeOK
  <1>3. /\ stage' \in [Caller -> {"idle", "sending", "waiting", "joining", "gone"}]
        /\ stage'[c] \in {"idle", "gone"}
        /\ \A d \in Caller : d # c => stage'[d] = stage[d] /\ ask'[d] = ask[d]
    BY DEF Return, Left, TypeOK
  <1>4. ask' \in [Caller -> Command \cup {NoCommand}]
    BY DEF Return, TypeOK
  <1>5. /\ outcome' \in [Call -> Outcome]
        /\ \A i \in Call : outcome'[i] = outcome[i]
             \/ (outcome'[i] = r /\ i = ask[c].id /\ ask[c].op = "append")
    <2>1. outcome \in [Call -> Outcome]
      BY DEF TypeOK
    <2>2. outcome' = IF ask[c].op = "append" THEN [outcome EXCEPT ![ask[c].id] = r] ELSE outcome
      BY DEF Return
    <2> QED BY <1>1, <2>1, <2>2
  <1>6. ASSUME NEW d \in Caller, stage'[d] \in {"sending", "waiting"}
        PROVE  /\ stage'[d] = stage[d] /\ ask'[d] = ask[d] /\ d # c
               /\ ask[d].id = <<d, calls[d]>> /\ ask[d].id[1] = d /\ ask[d].id \in Call
    <2>1. d # c /\ stage'[d] = stage[d] /\ ask'[d] = ask[d]
      BY <1>3, <1>6
    <2>2. ask[d] \in Command /\ ask[d].id = <<d, calls[d]>>
      BY <1>6, <2>1 DEF CallInv
    <2> QED BY <2>1, <2>2, CommandType
  <1> QED BY <1>1, <1>2, <1>3, <1>4, <1>5, <1>6 DEF Return

-------------------------------------------------------------------------------
(* Type correctness. *)

LEMMA InitIsTyped ==
    ASSUME Init
    PROVE  TypeOK
  BY WriterAssumption, StatementLists DEF Init, TypeOK, Outcome

LEMMA FileTypeStep ==
    ASSUME TypeOK, MigrateStatement \/ MigrationEnds \/ OpenFails \/ Expire \/ Crash
    PROVE  TypeOK'
  <1>1. CASE MigrateStatement
    <2>1. todo' \in Seq(Statement)
      BY <1>1, Taken DEF TypeOK, MigrateStatement
    <2>2. cells' \in SUBSET Legacy /\ captures' \in SUBSET ((Call \X Kind) \cup Legacy)
      BY <1>1 DEF TypeOK, MigrateStatement
    <2> QED BY <1>1, <2>1, <2>2 DEF TypeOK, MigrateStatement, callerVars
  <1>2. CASE MigrationEnds
    BY <1>2, StatementLists DEF TypeOK, MigrationEnds, durable, callerVars
  <1>3. CASE OpenFails
    BY <1>3, StatementLists DEF TypeOK, OpenFails, durable, callerVars
  <1>4. CASE Expire
    <2>1. expired' \in SUBSET ((Call \X Kind) \cup Legacy)
      BY <1>4 DEF TypeOK, Expire
    <2> QED BY <1>4, <2>1 DEF TypeOK, Expire, threadVars, callerVars
  <1>5. CASE Crash
    <2>1. outcome' \in [Call -> Outcome]
      BY <1>5 DEF TypeOK, Crash, Outcome
    <2>2. queue' \in Seq(Command) /\ Len(queue') <= ChannelCap
      BY <1>5, WriterAssumption DEF Crash
    <2>3. life' \in 1 .. MaxLives
      BY <1>5, WriterAssumption DEF Crash, TypeOK
    <2>4. stage' \in [Caller -> {"idle", "sending", "waiting", "joining", "gone"}]
          /\ ask' \in [Caller -> Command \cup {NoCommand}]
      BY <1>5 DEF Crash
    <2> QED BY <1>5, <2>1, <2>2, <2>3, <2>4, StatementLists DEF TypeOK, Crash, durable
  <1> QED BY <1>1, <1>2, <1>3, <1>4, <1>5

LEMMA CallerTypeStep ==
    ASSUME TypeOK, CallInv,
           \/ Joined
           \/ \E c \in Caller : Send(c) \/ SendFails(c) \/ Abandon(c) \/ DropWriter(c)
           \/ \E c \in Caller, op \in {"append", "prune", "shutdown"} : Make(c, op)
    PROVE  TypeOK'
  <1>1. CASE Joined
    BY <1>1, WriterAssumption DEF TypeOK, Joined, durable, threadVars
  <1>2. ASSUME NEW c \in Caller, Send(c)
        PROVE  TypeOK'
    <2>1. ask[c] \in Command
      BY <1>2 DEF Send, CallInv
    <2>2. queue' \in Seq(Command) /\ Len(queue') <= ChannelCap
      BY <1>2, <2>1, Appended, WriterAssumption DEF Send, TypeOK
    <2> QED BY <1>2, <2>2 DEF TypeOK, Send, durable, threadVars
  <1>3. ASSUME NEW c \in Caller, SendFails(c) \/ Abandon(c)
        PROVE  TypeOK'
    <2>1. PICK r \in Outcome : Return(c, r)
      BY <1>3 DEF SendFails, Abandon, Outcome
    <2>2. stage[c] \in {"sending", "waiting"}
      BY <1>3 DEF SendFails, Abandon
    <2> QED BY <1>3, <2>1, <2>2, ReturnEffect
            DEF TypeOK, SendFails, Abandon, durable, threadVars
  <1>4. ASSUME NEW c \in Caller, DropWriter(c)
        PROVE  TypeOK'
    BY <1>4 DEF TypeOK, DropWriter, durable, threadVars
  <1>5. ASSUME NEW c \in Caller, NEW op \in {"append", "prune", "shutdown"}, Make(c, op)
        PROVE  TypeOK'
    <2> DEFINE id == <<c, calls[c] + 1>>
    <2>1. id \in Call
      BY <1>5, CallType DEF Make, TypeOK
    <2>2. [op |-> op, id |-> id] \in Command
      BY <2>1 DEF Command
    <2>3. ask' \in [Caller -> Command \cup {NoCommand}]
      BY <1>5, <2>2 DEF Make, TypeOK
    <2>4. outcome' \in [Call -> Outcome]
      BY <1>5, <2>1 DEF Make, TypeOK, Outcome
    <2>5. calls' \in [Caller -> Nat] /\ \A d \in Caller : calls'[d] <= MaxCalls[d]
      BY <1>5, CallType DEF Make, TypeOK
    <2> QED BY <1>5, <2>3, <2>4, <2>5 DEF TypeOK, Make, durable, threadVars
  <1> QED BY <1>1, <1>2, <1>3, <1>4, <1>5

LEMMA ThreadTypeStep ==
    ASSUME TypeOK, CallInv,
           TakeAppend \/ AppendStatement \/ AppendReturns \/ TakePrune \/ TakeShutdown
             \/ AnswerOne \/ AllGone \/ Stop
    PROVE  TypeOK'
  <1>1. CASE TakeAppend
    <2>1. queue' \in Seq(Command) /\ Len(queue') <= ChannelCap /\ current' \in Command
      BY <1>1, Taken, WriterAssumption DEF TakeAppend, Take, TypeOK
    <2> QED BY <1>1, <2>1, StatementLists DEF TypeOK, TakeAppend, Take, durable, callerVars
  <1>2. CASE AppendStatement
    <2>1. todo' \in Seq(Statement)
      BY <1>2, Taken DEF TypeOK, AppendStatement
    <2>2. current.id \in Call
      BY <1>2, CommandType DEF AppendStatement, CallInv
    <2>3. log' \in Seq(Call)
      <3>1. log' = log \/ log' = Append(log, current.id)
        BY <1>2 DEF AppendStatement
      <3>2. log \in Seq(Call)
        BY DEF TypeOK
      <3>3. Append(log, current.id) \in Seq(Call)
        BY <2>2, <3>2, Appended
      <3> QED BY <3>1, <3>2, <3>3
    <2>4. captures' \in SUBSET ((Call \X Kind) \cup Legacy)
      BY <1>2, <2>2 DEF AppendStatement, TypeOK, Kept
    <2> QED BY <1>2, <2>1, <2>3, <2>4 DEF TypeOK, AppendStatement, callerVars
  <1>3. CASE AppendReturns
    <2>1. PICK r \in {"ok", "failed", "stopped"} : Reply({current}, r)
      BY <1>3 DEF AppendReturns
    <2> QED BY <1>3, <2>1, ReplyEffect, StatementLists DEF TypeOK, AppendReturns, durable
  <1>4. CASE TakePrune \/ TakeShutdown \/ AnswerOne
    <2>1. queue' \in Seq(Command) /\ Len(queue') <= ChannelCap
      <3>1. queue # <<>> /\ queue' = Tail(queue)
        BY <1>4 DEF TakePrune, TakeShutdown, AnswerOne, Take
      <3>2. queue \in Seq(Command) /\ Len(queue) <= ChannelCap
        BY DEF TypeOK
      <3>3. Tail(queue) \in Seq(Command) /\ Len(queue) \in Nat /\ Len(Tail(queue)) = Len(queue) - 1
        BY <3>1, <3>2, Taken
      <3> QED BY <3>1, <3>2, <3>3, WriterAssumption
    <2>2. PICK r \in {"ok", "failed", "stopped"} : Reply({Head(queue)}, r)
      BY <1>4 DEF TakePrune, TakeShutdown, AnswerOne
    <2>3. captures' \in SUBSET ((Call \X Kind) \cup Legacy)
      BY <1>4 DEF TakePrune, TakeShutdown, AnswerOne, TypeOK, durable
    <2>4. /\ stage' \in [Caller -> {"idle", "sending", "waiting", "joining", "gone"}]
          /\ ask' \in [Caller -> Command \cup {NoCommand}]
          /\ outcome' \in [Call -> Outcome] /\ calls' = calls
      BY <2>2, ReplyEffect
    <2>5. writer' \in {"recv", "stopping"}
      BY <1>4 DEF TakePrune, TakeShutdown, AnswerOne, Take, threadVars
    <2> QED BY <1>4, <2>1, <2>3, <2>4, <2>5
            DEF TypeOK, TakePrune, TakeShutdown, AnswerOne, durable, threadVars
  <1>5. CASE AllGone
    BY <1>5 DEF TypeOK, AllGone, durable, callerVars
  <1>6. CASE Stop
    <2>1. queue' \in Seq(Command) /\ Len(queue') <= ChannelCap
      BY <1>6, WriterAssumption DEF Stop
    <2> QED BY <1>6, <2>1, ReplyEffect DEF TypeOK, Stop, durable
  <1> QED BY <1>1, <1>2, <1>3, <1>4, <1>5, <1>6

LEMMA TypeStep ==
    ASSUME TypeOK, CallInv, [Next]_vars
    PROVE  TypeOK'
  <1>1. CASE UNCHANGED vars
    BY <1>1 DEF TypeOK, vars, durable, threadVars, callerVars
  <1> QED BY <1>1, FileTypeStep, CallerTypeStep, ThreadTypeStep DEF Next, Thread, CallerStep

-------------------------------------------------------------------------------
(* The channel only loses commands from its front, except when a caller sends. *)

Shrinks == queue' = queue \/ (queue # <<>> /\ queue' = Tail(queue)) \/ queue' = <<>>

\* The thread keeps what it executes, or has nothing.
Keeps == writer' = "append" => writer = "append" /\ current' = current /\ todo' = todo

LEMMA Shrunk ==
    ASSUME TypeOK, Shrinks
    PROVE  \E d \in {0, 1} : \A n \in 1 .. Len(queue') :
               n + d \in 1 .. Len(queue) /\ queue'[n] = queue[n + d] /\ queue'[n] \in Command
  <1>1. queue \in Seq(Command)
    BY DEF TypeOK
  <1>2. CASE queue' = queue
    BY <1>1, <1>2
  <1>3. CASE queue # <<>> /\ queue' = Tail(queue)
    BY <1>1, <1>3, Taken
  <1>4. CASE queue' = <<>>
    BY <1>4
  <1> QED BY <1>2, <1>3, <1>4 DEF Shrinks

LEMMA OrderFrame ==
    ASSUME TypeOK, TypeOK', OrderInv, Shrinks, Keeps, UNCHANGED log
    PROVE  OrderInv'
  <1>1. PICK d \in {0, 1} : \A n \in 1 .. Len(queue') :
               n + d \in 1 .. Len(queue) /\ queue'[n] = queue[n + d]
    BY Shrunk
  <1>2. ASSUME NEW m \in 1 .. Len(queue'), NEW n \in 1 .. Len(queue'), m < n
        PROVE  Before(queue'[m].id, queue'[n].id)
    <2>1. /\ m + d \in 1 .. Len(queue) /\ n + d \in 1 .. Len(queue) /\ m + d < n + d
          /\ queue'[m] = queue[m + d] /\ queue'[n] = queue[n + d]
      BY <1>1, <1>2
    <2>2. Before(queue[m + d].id, queue[n + d].id)
      BY <2>1 DEF OrderInv
    <2> QED BY <2>1, <2>2
  <1>3. ASSUME NEW m \in 1 .. Len(log), NEW n \in 1 .. Len(queue')
        PROVE  Before(log[m], queue'[n].id)
    <2>1. n + d \in 1 .. Len(queue) /\ queue'[n] = queue[n + d]
      BY <1>1
    <2>2. Before(log[m], queue[n + d].id)
      BY <2>1 DEF OrderInv
    <2> QED BY <2>1, <2>2
  <1>4. writer' = "append" =>
        /\ \A n \in 1 .. Len(queue') : Before(current'.id, queue'[n].id)
        /\ todo' = Insertion => \A m \in 1 .. Len(log') : Before(log'[m], current'.id)
    <2>1. SUFFICES ASSUME writer' = "append"
                   PROVE  /\ \A n \in 1 .. Len(queue') : Before(current'.id, queue'[n].id)
                          /\ todo' = Insertion => \A m \in 1 .. Len(log') : Before(log'[m], current'.id)
      OBVIOUS
    <2>2. writer = "append" /\ current' = current /\ todo' = todo
      BY <2>1 DEF Keeps
    <2>3. /\ \A n \in 1 .. Len(queue) : Before(current.id, queue[n].id)
          /\ todo = Insertion => \A m \in 1 .. Len(log) : Before(log[m], current.id)
      BY <2>2 DEF OrderInv
    <2> QED BY <1>1, <2>2, <2>3
  <1> QED BY <1>2, <1>3, <1>4 DEF OrderInv, Before

LEMMA NumberFrame ==
    ASSUME TypeOK, NumberInv, Shrinks, Keeps, UNCHANGED <<log, calls>>,
           \A c \in Caller : stage'[c] = "sending" => stage[c] = "sending" /\ ask'[c] = ask[c]
    PROVE  NumberInv'
  <1>1. PICK d \in {0, 1} : \A n \in 1 .. Len(queue') :
               n + d \in 1 .. Len(queue) /\ queue'[n] = queue[n + d]
    BY Shrunk
  <1>2. /\ \A m \in 1 .. Len(log') : log'[m][2] <= calls'[log'[m][1]]
        /\ writer' = "append" => current'.id[2] <= calls'[current'.id[1]]
    BY DEF NumberInv, Keeps
  <1>3. \A n \in 1 .. Len(queue') : queue'[n].id[2] <= calls'[queue'[n].id[1]]
    BY <1>1 DEF NumberInv
  <1>4. ASSUME NEW c \in Caller, stage'[c] = "sending"
        PROVE  /\ \A m \in 1 .. Len(log') : Before(log'[m], ask'[c].id)
               /\ \A n \in 1 .. Len(queue') : Before(queue'[n].id, ask'[c].id)
               /\ writer' = "append" => Before(current'.id, ask'[c].id)
    <2>1. /\ ask'[c] = ask[c]
          /\ \A m \in 1 .. Len(log) : Before(log[m], ask[c].id)
          /\ \A n \in 1 .. Len(queue) : Before(queue[n].id, ask[c].id)
          /\ writer = "append" => Before(current.id, ask[c].id)
      BY <1>4 DEF NumberInv
    <2> QED BY <1>1, <2>1 DEF Keeps
  <1> QED BY <1>2, <1>3, <1>4 DEF NumberInv, Before

\* An outcome changes for a call that is made, and to "dropped" unless it is neither in the
\* channel nor executed any more.
LEMMA CallFrame ==
    ASSUME TypeOK, CallInv, Shrinks, Keeps, UNCHANGED calls,
           \A c \in Caller : stage'[c] \in {"sending", "waiting"} =>
                /\ stage[c] \in {"sending", "waiting"} /\ ask'[c] = ask[c]
                /\ ask[c].op = "append" => outcome'[ask[c].id] = outcome[ask[c].id],
           \A i \in Call : outcome'[i] # outcome[i] =>
                /\ i[2] <= calls[i[1]]
                /\ \/ outcome'[i] = "dropped"
                   \/ /\ \A n \in 1 .. Len(queue') : queue'[n].op = "append" => queue'[n].id # i
                      /\ writer' = "append" => current.id # i
    PROVE  CallInv'
  <1>1. PICK d \in {0, 1} : \A n \in 1 .. Len(queue') :
            n + d \in 1 .. Len(queue) /\ queue'[n] = queue[n + d] /\ queue'[n] \in Command
    BY Shrunk
  <1>2. ASSUME NEW c \in Caller, stage'[c] \in {"sending", "waiting"}
        PROVE  /\ ask'[c] \in Command /\ ask'[c].id = <<c, calls'[c]>>
               /\ ask'[c].op = "append" => outcome'[ask'[c].id] = "open"
    BY <1>2 DEF CallInv
  <1>3. ASSUME NEW i \in Call, i[2] > calls'[i[1]]
        PROVE  outcome'[i] = "none"
    <2>1. i[1] \in Caller /\ i[2] \in Nat /\ calls[i[1]] \in Nat
      BY CallType DEF TypeOK
    <2>2. ~ (i[2] <= calls[i[1]])
      BY <1>3, <2>1
    <2> QED BY <1>3, <2>2 DEF CallInv
  <1>4. ASSUME NEW n \in 1 .. Len(queue'), queue'[n].op = "append"
        PROVE  outcome'[queue'[n].id] \in {"open", "dropped"}
    <2>1. queue'[n].id \in Call /\ outcome[queue'[n].id] \in {"open", "dropped"}
      BY <1>1, <1>4, CommandType DEF CallInv
    <2> QED BY <1>4, <2>1
  <1>5. ASSUME writer' = "append"
        PROVE  /\ current' \in Command /\ current'.op = "append"
               /\ outcome'[current'.id] \in {"open", "dropped"}
    <2>1. /\ current' = current /\ current \in Command /\ current.op = "append"
          /\ outcome[current.id] \in {"open", "dropped"}
      BY <1>5 DEF CallInv, Keeps
    <2>2. current.id \in Call
      BY <2>1, CommandType
    <2> QED BY <1>5, <2>1, <2>2
  <1> QED BY <1>2, <1>3, <1>4, <1>5 DEF CallInv

-------------------------------------------------------------------------------
(* The steps that disturb the frames. *)

LEMMA InsertionSteps ==
    ASSUME TypeOK, OrderInv, NumberInv, CallInv, StatementInv,
           TakeAppend \/ AppendStatement
    PROVE  OrderInv' /\ NumberInv' /\ CallInv'
  <1>0. queue \in Seq(Command) /\ log \in Seq(Call)
    BY DEF TypeOK
  <1>1. CASE TakeAppend
    <2>1. /\ queue # <<>> /\ queue' = Tail(queue) /\ Head(queue) = queue[1] /\ 1 \in 1 .. Len(queue)
          /\ queue[1] \in Command /\ queue[1].op = "append"
          /\ \A n \in 1 .. Len(queue') : n + 1 \in 1 .. Len(queue) /\ queue'[n] = queue[n + 1]
      BY <1>0, <1>1, Taken DEF TakeAppend, Take
    <2>2. /\ writer' = "append" /\ current' = queue[1] /\ UNCHANGED <<log, callerVars>>
      BY <1>1, <2>1 DEF TakeAppend, durable
    <2>3. \A n \in 1 .. Len(queue') : 1 < n + 1
      OBVIOUS
    <2>4. OrderInv'
      <3>1. ASSUME NEW m \in 1 .. Len(queue'), NEW n \in 1 .. Len(queue'), m < n
            PROVE  Before(queue'[m].id, queue'[n].id)
        <4>1. m + 1 \in 1 .. Len(queue) /\ n + 1 \in 1 .. Len(queue) /\ m + 1 < n + 1
          BY <2>1, <3>1
        <4>2. Before(queue[m + 1].id, queue[n + 1].id)
          BY <4>1 DEF OrderInv
        <4> QED BY <2>1, <4>2
      <3>2. \A m \in 1 .. Len(log), n \in 1 .. Len(queue') : Before(log[m], queue'[n].id)
        BY <2>1 DEF OrderInv
      <3>3. \A n \in 1 .. Len(queue') : Before(queue[1].id, queue'[n].id)
        BY <2>1, <2>3 DEF OrderInv
      <3>4. \A m \in 1 .. Len(log) : Before(log[m], queue[1].id)
        BY <2>1 DEF OrderInv
      <3> QED BY <2>2, <3>1, <3>2, <3>3, <3>4 DEF OrderInv, Before
    <2>5. NumberInv'
      BY <2>1, <2>2 DEF NumberInv, callerVars, Before
    <2>6. CallInv'
      BY <2>1, <2>2 DEF CallInv, callerVars
    <2> QED BY <2>4, <2>5, <2>6
  <1>2. CASE AppendStatement
    <2>1. /\ writer = "append" /\ writer' = "append" /\ current' = current /\ queue' = queue
          /\ UNCHANGED callerVars /\ current.id \in Call
      BY <1>2, CommandType DEF AppendStatement, CallInv
    <2>2. CallInv'
      BY <2>1 DEF CallInv, callerVars
    <2>3. CASE todo # Insertion
      <3>1. UNCHANGED log /\ todo' # Insertion
        BY <1>2, <2>1, <2>3, StatementLists, ListsDiffer DEF AppendStatement, StatementInv
      <3>2. OrderInv'
        BY <2>1, <3>1 DEF OrderInv, Before
      <3>3. NumberInv'
        BY <2>1, <3>1 DEF NumberInv, Before, callerVars
      <3> QED BY <2>2, <3>2, <3>3
    <2>4. CASE todo = Insertion
      <3>1. log' = Append(log, current.id) /\ todo' # Insertion
        BY <1>2, <2>1, <2>4, StatementLists, ListsDiffer DEF AppendStatement
      <3>2. /\ Len(log) \in Nat /\ Len(log') = Len(log) + 1
            /\ \A n \in 1 .. Len(log) : log'[n] = log[n]
            /\ log'[Len(log) + 1] = current.id
        BY <1>0, <2>1, <3>1, Appended
      <3>3. \A n \in 1 .. Len(log') : n \in 1 .. Len(log) \/ n = Len(log) + 1
        BY <3>2
      <3>4. \A m, n \in 1 .. Len(log') : m < n => Before(log'[m], log'[n])
        BY <2>1, <2>4, <3>2, <3>3 DEF OrderInv
      <3>5. \A m \in 1 .. Len(log'), n \in 1 .. Len(queue) : Before(log'[m], queue[n].id)
        BY <2>1, <3>2, <3>3 DEF OrderInv
      <3>6. OrderInv'
        BY <2>1, <3>1, <3>4, <3>5 DEF OrderInv, Before
      <3>7. \A m \in 1 .. Len(log') : log'[m][2] <= calls[log'[m][1]]
        BY <2>1, <3>2, <3>3 DEF NumberInv
      <3>8. \A c \in Caller : stage[c] = "sending" => \A m \in 1 .. Len(log') : Before(log'[m], ask[c].id)
        BY <2>1, <3>2, <3>3 DEF NumberInv
      <3>9. NumberInv'
        BY <2>1, <3>7, <3>8 DEF NumberInv, Before, callerVars
      <3> QED BY <2>2, <3>6, <3>9
    <2> QED BY <2>3, <2>4
  <1> QED BY <1>1, <1>2

LEMMA SendStep ==
    ASSUME TypeOK, OrderInv, NumberInv, CallInv, NEW c \in Caller, Send(c)
    PROVE  OrderInv' /\ NumberInv' /\ CallInv'
  <1>1. /\ queue \in Seq(Command) /\ queue' = Append(queue, ask[c])
        /\ stage[c] = "sending" /\ ask[c] \in Command /\ ask[c].id = <<c, calls[c]>>
        /\ ask[c].op = "append" => outcome[ask[c].id] = "open"
        /\ UNCHANGED <<log, writer, todo, current, ask, calls, outcome>>
    BY DEF Send, TypeOK, CallInv, durable, threadVars
  <1>2. ask[c].id[1] = c /\ ask[c].id[2] = calls[c] /\ calls[c] \in Nat
    BY <1>1 DEF TypeOK
  <1>3. /\ Len(queue) \in Nat /\ Len(queue') = Len(queue) + 1
        /\ \A n \in 1 .. Len(queue) : queue'[n] = queue[n]
        /\ queue'[Len(queue) + 1] = ask[c]
    BY <1>1, Appended
  <1>4. \A n \in 1 .. Len(queue') : n \in 1 .. Len(queue) \/ n = Len(queue) + 1
    BY <1>3
  <1>5. /\ \A m \in 1 .. Len(log) : Before(log[m], ask[c].id)
        /\ \A n \in 1 .. Len(queue) : Before(queue[n].id, ask[c].id)
        /\ writer = "append" => Before(current.id, ask[c].id)
    BY <1>1 DEF NumberInv
  <1>6. OrderInv'
    <2>1. \A m, n \in 1 .. Len(queue') : m < n => Before(queue'[m].id, queue'[n].id)
      BY <1>3, <1>4, <1>5 DEF OrderInv
    <2>2. \A m \in 1 .. Len(log), n \in 1 .. Len(queue') : Before(log[m], queue'[n].id)
      BY <1>3, <1>4, <1>5 DEF OrderInv
    <2>3. writer = "append" => \A n \in 1 .. Len(queue') : Before(current.id, queue'[n].id)
      BY <1>3, <1>4, <1>5 DEF OrderInv
    <2> QED BY <1>1, <2>1, <2>2, <2>3 DEF OrderInv, Before
  <1>7. NumberInv'
    <2>1. \A n \in 1 .. Len(queue') : queue'[n].id[2] <= calls[queue'[n].id[1]]
      BY <1>2, <1>3, <1>4 DEF NumberInv
    <2>2. \A d \in Caller : stage'[d] = "sending" => d # c /\ stage[d] = "sending"
      BY DEF Send, TypeOK
    <2>3. ASSUME NEW d \in Caller, stage'[d] = "sending"
          PROVE  Before(ask[c].id, ask[d].id)
      <3>1. d # c /\ ask[d].id = <<d, calls[d]>>
        BY <2>2, <2>3 DEF CallInv
      <3>2. ask[d].id[1] = d
        BY <3>1
      <3> QED BY <1>2, <3>1, <3>2 DEF Before
    <2>4. \A d \in Caller : stage'[d] = "sending" =>
              \A n \in 1 .. Len(queue') : Before(queue'[n].id, ask[d].id)
      BY <1>3, <1>4, <2>2, <2>3 DEF NumberInv
    <2> QED BY <1>1, <2>1, <2>2, <2>4 DEF NumberInv, Before
  <1>8. CallInv'
    <2>1. \A d \in Caller : stage'[d] \in {"sending", "waiting"} => stage[d] \in {"sending", "waiting"}
      BY <1>1 DEF Send, TypeOK
    <2>2. \A n \in 1 .. Len(queue') :
              queue'[n].op = "append" => outcome[queue'[n].id] \in {"open", "dropped"}
      BY <1>1, <1>3, <1>4 DEF CallInv
    <2> QED BY <1>1, <2>1, <2>2 DEF CallInv
  <1> QED BY <1>6, <1>7, <1>8

LEMMA MakeStep ==
    ASSUME TypeOK, OrderInv, NumberInv, CallInv,
           NEW c \in Caller, NEW op \in {"append", "prune", "shutdown"}, Make(c, op)
    PROVE  OrderInv' /\ NumberInv' /\ CallInv'
  <1> DEFINE new == <<c, calls[c] + 1>>
             cmd == [op |-> op, id |-> new]
  <1>1. /\ UNCHANGED <<log, queue, writer, todo, current>>
        /\ stage' = [stage EXCEPT ![c] = "sending"] /\ stage[c] = "idle"
        /\ ask' = [ask EXCEPT ![c] = cmd]
        /\ calls' = [calls EXCEPT ![c] = @ + 1]
        /\ outcome' = IF op = "append" THEN [outcome EXCEPT ![new] = "open"] ELSE outcome
    BY DEF Make, durable, threadVars
  <1>2. /\ calls[c] \in Nat /\ new \in Call /\ new[1] = c /\ new[2] = calls[c] + 1
        /\ cmd \in Command /\ cmd.id = new /\ cmd.op = op
    BY CallType DEF Make, TypeOK, Command
  <1>3. \A d \in Caller : calls[d] \in Nat /\ calls'[d] \in Nat /\ calls'[d] >= calls[d]
                          /\ (d # c => calls'[d] = calls[d])
    BY <1>1 DEF TypeOK
  <1>4. calls'[c] = calls[c] + 1 /\ ask'[c] = cmd
    BY <1>1 DEF TypeOK
  <1>5. /\ \A n \in 1 .. Len(log) : log[n] \in Call
        /\ \A n \in 1 .. Len(queue) : queue[n] \in Command /\ queue[n].id \in Call
        /\ writer = "append" => current.id \in Call
    <2>1. log \in Seq(Call) /\ queue \in Seq(Command)
      BY DEF TypeOK
    <2>2. \A n \in 1 .. Len(log) : log[n] \in Call
      BY <2>1
    <2>3. \A n \in 1 .. Len(queue) : queue[n] \in Command
      BY <2>1
    <2>4. writer = "append" => current.id \in Call
      BY CommandType DEF CallInv
    <2> QED BY <2>2, <2>3, <2>4, CommandType
  <1>6. ASSUME NEW i \in Call, i[2] <= calls[i[1]]
        PROVE  Before(i, new) /\ i # new /\ i[2] <= calls'[i[1]]
    <2>1. i[1] \in Caller /\ i[2] \in Nat
      BY CallType
    <2>2. i[2] <= calls'[i[1]]
      BY <1>3, <1>6, <2>1
    <2>3. i[1] = c => i[2] < new[2]
      BY <1>2, <1>6, <2>1
    <2>4. i # new
      BY <1>2, <2>1, <2>3
    <2> HIDE DEF new
    <2>5. Before(i, new)
      BY <1>2, <2>3 DEF Before
    <2> QED BY <2>2, <2>4, <2>5
  <1>7. OrderInv'
    BY <1>1 DEF OrderInv, Before
  <1>8. NumberInv'
    <2>1. /\ \A m \in 1 .. Len(log) : log[m][2] <= calls'[log[m][1]]
          /\ \A n \in 1 .. Len(queue) : queue[n].id[2] <= calls'[queue[n].id[1]]
          /\ writer = "append" => current.id[2] <= calls'[current.id[1]]
      BY <1>5, <1>6 DEF NumberInv
    <2>2. ASSUME NEW d \in Caller, stage'[d] = "sending"
          PROVE  /\ \A m \in 1 .. Len(log) : Before(log[m], ask'[d].id)
                 /\ \A n \in 1 .. Len(queue) : Before(queue[n].id, ask'[d].id)
                 /\ writer = "append" => Before(current.id, ask'[d].id)
      <3>1. CASE d = c
        BY <1>2, <1>4, <1>5, <1>6, <3>1 DEF NumberInv
      <3>2. CASE d # c
        <4>1. stage[d] = "sending" /\ ask'[d] = ask[d]
          BY <1>1, <2>2, <3>2 DEF TypeOK
        <4> QED BY <4>1 DEF NumberInv
      <3> QED BY <3>1, <3>2
    <2> QED BY <1>1, <2>1, <2>2 DEF NumberInv, Before
  <1>9. CallInv'
    <2>1. outcome[new] = "none"
      BY <1>2 DEF CallInv
    <2>2. /\ outcome' \in [Call -> Outcome] /\ \A i \in Call : i # new => outcome'[i] = outcome[i]
          /\ op = "append" => outcome'[new] = "open"
      <3>1. outcome \in [Call -> Outcome]
        BY DEF TypeOK
      <3> QED BY <1>1, <1>2, <3>1 DEF Outcome
    <2>3. ASSUME NEW d \in Caller, stage'[d] \in {"sending", "waiting"}
          PROVE  /\ ask'[d] \in Command /\ ask'[d].id = <<d, calls'[d]>>
                 /\ ask'[d].op = "append" => outcome'[ask'[d].id] = "open"
      <3>1. CASE d = c
        BY <1>2, <1>4, <2>2, <3>1
      <3>2. CASE d # c
        <4>1. stage[d] \in {"sending", "waiting"} /\ ask'[d] = ask[d] /\ calls'[d] = calls[d]
          BY <1>1, <1>3, <2>3, <3>2 DEF TypeOK
        <4>2. ask[d] \in Command /\ ask[d].id = <<d, calls[d]>> /\ ask[d].id \in Call
          BY <4>1, CommandType DEF CallInv
        <4>3. ask[d].id # new
          BY <3>2, <4>2
        <4> QED BY <2>2, <4>1, <4>2, <4>3 DEF CallInv
      <3> QED BY <3>1, <3>2
    <2>4. ASSUME NEW i \in Call, i[2] > calls'[i[1]]
          PROVE  outcome'[i] = "none"
      <3>1. i[1] \in Caller /\ i[2] \in Nat
        BY CallType
      <3>2. i[2] > calls[i[1]] /\ i # new
        BY <1>2, <1>3, <1>4, <2>4, <3>1
      <3> QED BY <2>2, <3>2 DEF CallInv
    <2>5. ASSUME NEW n \in 1 .. Len(queue), queue[n].op = "append"
          PROVE  outcome'[queue[n].id] \in {"open", "dropped"}
      <3>1. outcome[queue[n].id] \in {"open", "dropped"} /\ queue[n].id \in Call
        BY <1>5, <2>5 DEF CallInv
      <3> QED BY <2>1, <2>2, <3>1
    <2>6. ASSUME writer = "append"
          PROVE  outcome'[current.id] \in {"open", "dropped"}
      <3>1. outcome[current.id] \in {"open", "dropped"} /\ current.id \in Call
        BY <1>5, <2>6 DEF CallInv
      <3> QED BY <2>1, <2>2, <3>1
    <2>7. writer' = "append" => current' \in Command /\ current'.op = "append"
      BY <1>1 DEF CallInv
    <2> QED BY <1>1, <2>3, <2>4, <2>5, <2>6, <2>7 DEF CallInv
  <1> QED BY <1>7, <1>8, <1>9

\* No call stands twice in the channel or is executed while it stands there.
LEMMA Distinct ==
    ASSUME TypeOK, OrderInv, CallInv
    PROVE  /\ queue # <<>> => \A n \in 1 .. Len(Tail(queue)) : Tail(queue)[n].id # Head(queue).id
           /\ writer = "append" => \A n \in 1 .. Len(queue) : queue[n].id # current.id
  <1>1. queue \in Seq(Command)
    BY DEF TypeOK
  <1>2. \A i \in Call : ~Before(i, i)
    BY CallType DEF Before
  <1>3. ASSUME queue # <<>>, NEW n \in 1 .. Len(Tail(queue))
        PROVE  Tail(queue)[n].id # Head(queue).id
    <2>1. /\ n + 1 \in 1 .. Len(queue) /\ Tail(queue)[n] = queue[n + 1]
          /\ Head(queue) = queue[1] /\ 1 \in 1 .. Len(queue) /\ queue[1] \in Command /\ 1 < n + 1
      BY <1>1, <1>3, Taken
    <2>2. Before(queue[1].id, queue[n + 1].id)
      BY <2>1 DEF OrderInv
    <2>3. queue[1].id \in Call
      BY <2>1, CommandType
    <2>4. queue[n + 1].id # queue[1].id
      BY <1>2, <2>2, <2>3
    <2> QED BY <2>1, <2>4
  <1>4. ASSUME writer = "append", NEW n \in 1 .. Len(queue)
        PROVE  queue[n].id # current.id
    <2>1. current.id \in Call
      BY <1>4, CommandType DEF CallInv
    <2>2. Before(current.id, queue[n].id)
      BY <1>4 DEF OrderInv
    <2> QED BY <1>2, <2>1, <2>2
  <1> QED BY <1>3, <1>4

\* A thread's answer, with the command it takes gone from the channel or from its hands.
LEMMA AnswerStep ==
    ASSUME TypeOK, TypeOK', OrderInv, NumberInv, CallInv,
           NEW cmds, NEW r \in {"ok", "failed", "stopped"}, Reply(cmds, r),
           UNCHANGED log, writer' # "append",
           \/ cmds = {current} /\ writer = "append" /\ queue' = queue
           \/ cmds = {Head(queue)} /\ queue # <<>> /\ queue' = Tail(queue)
           \/ queue' = <<>>
    PROVE  OrderInv' /\ NumberInv' /\ CallInv'
  <1>1. Shrinks /\ Keeps
    BY DEF Shrinks, Keeps
  <1>3. /\ calls' = calls
        /\ \A c \in Caller : stage'[c] \in {"sending", "waiting"} =>
             /\ stage'[c] = stage[c] /\ ask'[c] = ask[c]
             /\ ask[c].op = "append" => outcome'[ask[c].id] = outcome[ask[c].id]
        /\ \A i \in Call : outcome'[i] # outcome[i] =>
             [op |-> "append", id |-> i] \in cmds /\ i[2] <= calls[i[1]]
    BY ReplyEffect
  <1>4. ASSUME NEW i \in Call, outcome'[i] # outcome[i]
        PROVE  /\ \A n \in 1 .. Len(queue') : queue'[n].op = "append" => queue'[n].id # i
               /\ writer' # "append"
    <2>1. [op |-> "append", id |-> i] \in cmds
      BY <1>3, <1>4
    <2>2. CASE cmds = {current} /\ writer = "append" /\ queue' = queue
      <3>1. current.id = i
        BY <2>1, <2>2
      <3> QED BY <2>2, <3>1, Distinct
    <2>3. CASE cmds = {Head(queue)} /\ queue # <<>> /\ queue' = Tail(queue)
      <3>1. Head(queue).id = i
        BY <2>1, <2>3
      <3> QED BY <2>3, <3>1, Distinct
    <2>4. CASE queue' = <<>>
      BY <2>4
    <2> QED BY <2>2, <2>3, <2>4
  <1>5. CallInv'
    BY <1>1, <1>3, <1>4, CallFrame
  <1> QED BY <1>1, <1>3, <1>5, OrderFrame, NumberFrame

LEMMA ThreadStep ==
    ASSUME TypeOK, TypeOK', OrderInv, NumberInv, CallInv,
           AppendReturns \/ TakePrune \/ TakeShutdown \/ AnswerOne \/ Stop
    PROVE  OrderInv' /\ NumberInv' /\ CallInv'
  <1>1. CASE AppendReturns
    <2>1. PICK r \in {"ok", "failed", "stopped"} : Reply({current}, r)
      BY <1>1 DEF AppendReturns
    <2>2. UNCHANGED log /\ writer = "append" /\ writer' # "append" /\ queue' = queue
      BY <1>1 DEF AppendReturns, durable
    <2> QED BY <2>1, <2>2, AnswerStep
  <1>2. CASE TakePrune \/ TakeShutdown \/ AnswerOne
    <2>1. PICK r \in {"ok", "failed", "stopped"} : Reply({Head(queue)}, r)
      BY <1>2 DEF TakePrune, TakeShutdown, AnswerOne
    <2>2. UNCHANGED log /\ writer' # "append" /\ queue # <<>> /\ queue' = Tail(queue)
      BY <1>2 DEF TakePrune, TakeShutdown, AnswerOne, Take, durable, threadVars
    <2> QED BY <2>1, <2>2, AnswerStep
  <1>3. CASE Stop
    <2>1. UNCHANGED log /\ writer' # "append" /\ queue' = <<>> /\ Reply(Queued, "stopped")
      BY <1>3 DEF Stop, durable
    <2> QED BY <2>1, AnswerStep
  <1> QED BY <1>1, <1>2, <1>3

LEMMA QuietStep ==
    ASSUME TypeOK, TypeOK', OrderInv, NumberInv, CallInv,
           \/ UNCHANGED vars
           \/ MigrateStatement \/ MigrationEnds \/ OpenFails \/ Expire \/ AllGone \/ Joined
           \/ \E c \in Caller : DropWriter(c)
    PROVE  OrderInv' /\ NumberInv' /\ CallInv'
  <1>1. Shrinks /\ Keeps /\ UNCHANGED <<log, ask, calls, outcome>>
    BY DEF MigrateStatement, MigrationEnds, Migrating, OpenFails, Expire, AllGone, Joined,
           DropWriter, Shrinks, Keeps, vars, durable, threadVars, callerVars
  <1>2. \A c \in Caller : stage'[c] = stage[c] \/ stage'[c] = "gone"
    BY DEF MigrateStatement, MigrationEnds, OpenFails, Expire, AllGone, Joined, DropWriter,
           vars, callerVars, TypeOK
  <1>3. OrderInv'
    BY <1>1, OrderFrame
  <1>4. NumberInv'
    BY <1>1, <1>2, NumberFrame
  <1>5. CallInv'
    BY <1>1, <1>2, CallFrame
  <1> QED BY <1>3, <1>4, <1>5

LEMMA ReturnStep ==
    ASSUME TypeOK, TypeOK', OrderInv, NumberInv, CallInv,
           NEW c \in Caller, SendFails(c) \/ Abandon(c)
    PROVE  OrderInv' /\ NumberInv' /\ CallInv'
  <1>1. Shrinks /\ Keeps /\ UNCHANGED <<log, queue, writer>>
    BY DEF SendFails, Abandon, Shrinks, Keeps, durable, threadVars
  <1>2. PICK r \in Outcome : /\ Return(c, r) /\ stage[c] \in {"sending", "waiting"}
                             /\ r = "dropped" \/ (stage[c] = "sending" /\ writer = "stopped")
    BY DEF SendFails, Abandon, Outcome
  <1>3. /\ calls' = calls
        /\ \A d \in Caller : stage'[d] \in {"sending", "waiting"} =>
             /\ stage'[d] = stage[d] /\ ask'[d] = ask[d]
             /\ ask[d].op = "append" => outcome'[ask[d].id] = outcome[ask[d].id]
        /\ \A i \in Call : outcome'[i] # outcome[i] =>
             outcome'[i] = r /\ i = ask[c].id /\ i[2] <= calls[i[1]]
    BY <1>2, ReturnEffect
  <1>4. ASSUME NEW i \in Call, outcome'[i] # outcome[i], outcome'[i] # "dropped"
        PROVE  /\ \A n \in 1 .. Len(queue') : queue'[n].op = "append" => queue'[n].id # i
               /\ writer' # "append"
    <2>1. i = ask[c].id /\ stage[c] = "sending" /\ writer = "stopped"
      BY <1>2, <1>3, <1>4
    <2>2. \A n \in 1 .. Len(queue) : Before(queue[n].id, i)
      BY <2>1 DEF NumberInv
    <2>3. ~Before(i, i)
      BY CallType DEF Before
    <2>4. \A n \in 1 .. Len(queue) : queue[n].id # i
      BY <2>2, <2>3
    <2> QED BY <1>1, <2>1, <2>4
  <1>5. CallInv'
    BY <1>1, <1>3, <1>4, CallFrame
  <1> QED BY <1>1, <1>3, <1>5, OrderFrame, NumberFrame

LEMMA CrashStep ==
    ASSUME TypeOK, TypeOK', OrderInv, NumberInv, CallInv, Crash
    PROVE  OrderInv' /\ NumberInv' /\ CallInv'
  <1>1. Shrinks /\ Keeps /\ UNCHANGED <<log, calls>> /\ queue' = <<>> /\ writer' = "init"
    BY DEF Crash, Shrinks, Keeps, durable
  <1>2. \A c \in Caller : stage'[c] = "idle"
    BY DEF Crash
  <1>3. ASSUME NEW i \in Call, outcome'[i] # outcome[i]
        PROVE  i[2] <= calls[i[1]]
    <2>1. outcome[i] = "open"
      BY <1>3 DEF Crash
    <2>2. i[1] \in Caller /\ i[2] \in Nat /\ calls[i[1]] \in Nat
      BY CallType DEF TypeOK
    <2> QED BY <2>1, <2>2 DEF CallInv
  <1>4. CallInv'
    BY <1>1, <1>2, <1>3, CallFrame
  <1> QED BY <1>1, <1>2, <1>4, OrderFrame, NumberFrame

-------------------------------------------------------------------------------
(* The statements. *)

LEMMA MigrationStep ==
    ASSUME TypeOK, StatementInv, LegacyIsKept,
           MigrateStatement \/ MigrationEnds \/ OpenFails \/ Crash
    PROVE  StatementInv' /\ LegacyIsKept'
  <1>1. CASE MigrateStatement
    <2>1. /\ writer' = writer /\ writer \in {"init", "prepare"} /\ todo # <<>>
          /\ todo' = Tail(todo) /\ UNCHANGED expired
          /\ captures' = captures \cup {x \in cells : x[2] = Head(todo)}
          /\ cells' = IF Head(todo) = "clear" THEN {} ELSE cells
      BY <1>1 DEF MigrateStatement, Migrating
    <2>2. \A x \in cells : x[2] \in {"terminal_output", "raw_capture"}
      BY WriterAssumption DEF TypeOK, Kind
    <2>3. CASE todo = Migration
      BY <2>1, <2>3, StatementLists, ListsDiffer DEF StatementInv, LegacyIsKept, Migrating
    <2>4. CASE todo = <<"raw_capture", "clear">>
      <3>1. {x \in cells : x[2] = "terminal_output"} \subseteq captures
        BY <2>1, <2>4, ListsDiffer DEF StatementInv, Migrating
      <3>2. cells' = cells /\ cells' \subseteq captures' /\ todo' = <<"clear">>
        BY <2>1, <2>2, <2>4, <3>1, StatementLists
      <3>3. LegacyIsKept'
        BY <2>1, <3>2 DEF LegacyIsKept
      <3> QED BY <2>1, <3>2, <3>3, ListsDiffer DEF StatementInv, Migrating
    <2>5. CASE todo = <<"clear">>
      <3>1. cells \subseteq captures
        BY <2>1, <2>5 DEF StatementInv, Migrating
      <3>2. cells' = {} /\ captures \subseteq captures' /\ todo' = <<>>
        BY <2>1, <2>5, StatementLists
      <3>3. LegacyIsKept'
        BY <2>1, <3>1, <3>2 DEF LegacyIsKept
      <3> QED BY <2>1, <3>2, <3>3, ListsDiffer DEF StatementInv, Migrating
    <2> QED BY <2>1, <2>3, <2>4, <2>5 DEF StatementInv, Migrating
  <1>2. CASE MigrationEnds
    BY <1>2, ListsDiffer DEF MigrationEnds, StatementInv, LegacyIsKept, Migrating, durable
  <1>3. CASE OpenFails
    BY <1>3 DEF OpenFails, StatementInv, LegacyIsKept, Migrating, durable
  <1>4. CASE Crash
    BY <1>4, ListsDiffer DEF Crash, StatementInv, LegacyIsKept, Migrating, durable
  <1> QED BY <1>1, <1>2, <1>3, <1>4

LEMMA InsertionStatementStep ==
    ASSUME TypeOK, CallInv, StatementInv, LegacyIsKept, TakeAppend \/ AppendStatement
    PROVE  StatementInv' /\ LegacyIsKept'
  <1>1. CASE TakeAppend
    BY <1>1, ListsDiffer DEF TakeAppend, Take, StatementInv, LegacyIsKept, Migrating, durable
  <1>2. CASE AppendStatement
    <2>1. /\ writer = "append" /\ writer' = "append" /\ todo # <<>> /\ todo' = Tail(todo)
          /\ UNCHANGED <<cells, expired, current>> /\ cells = {}
          /\ Kept' = Kept
      BY <1>2 DEF AppendStatement, StatementInv, Kept
    <2>2. LegacyIsKept'
      BY <1>2 DEF AppendStatement, LegacyIsKept
    <2>3. CASE todo = Insertion
      <3>1. log' = Append(log, current.id) /\ log \in Seq(Call) /\ current.id \in Call
        BY <1>2, <2>1, <2>3, StatementLists, CommandType DEF AppendStatement, TypeOK, CallInv
      <3>2. Len(log') = Len(log) + 1 /\ Len(log) \in Nat /\ log'[Len(log) + 1] = current.id
        BY <3>1, Appended
      <3>3. Written(current.id)'
        BY <2>1, <3>2 DEF Written
      <3> QED BY <2>1, <2>2, <2>3, <3>3, StatementLists, ListsDiffer DEF StatementInv, Migrating
    <2>4. CASE todo # Insertion
      <3>1. /\ UNCHANGED log /\ Written(current.id)
            /\ captures' = captures \cup {<<current.id, k>> : k \in Kept \cap {Head(todo)}}
        BY <1>2, <2>1, <2>4, StatementLists, ListsDiffer DEF AppendStatement, StatementInv
      <3>2. Written(current.id)'
        BY <2>1, <3>1 DEF Written
      <3>3. CASE todo = <<"terminal_output", "raw_capture">>
        BY <2>1, <2>2, <3>1, <3>2, <3>3, StatementLists, ListsDiffer DEF StatementInv, Migrating
      <3>4. CASE todo = <<"raw_capture">>
        <4>1. "terminal_output" \in Kept => <<current.id, "terminal_output">> \in captures
          BY <2>1, <3>4 DEF StatementInv
        <4> QED BY <2>1, <2>2, <3>1, <3>2, <3>4, <4>1, StatementLists, ListsDiffer
                DEF StatementInv, Migrating
      <3> QED BY <2>1, <2>4, <3>3, <3>4 DEF StatementInv
    <2> QED BY <2>3, <2>4
  <1> QED BY <1>1, <1>2

\* The others leave the statements alone, or leave the states that they are about.
LEMMA OtherStatementStep ==
    ASSUME TypeOK, StatementInv, LegacyIsKept,
           \/ UNCHANGED vars \/ Expire \/ Joined
           \/ AppendReturns \/ TakePrune \/ TakeShutdown \/ AnswerOne \/ AllGone \/ Stop
           \/ \E c \in Caller : Send(c) \/ SendFails(c) \/ Abandon(c) \/ DropWriter(c)
           \/ \E c \in Caller, op \in {"append", "prune", "shutdown"} : Make(c, op)
    PROVE  StatementInv' /\ LegacyIsKept'
  <1>1. CASE TakePrune
    <2>1. /\ writer = "recv" /\ UNCHANGED <<log, cells, expired, writer, todo, current>>
          /\ captures' = captures \/ captures' = captures \ Pruned
      BY <1>1 DEF TakePrune, Take, threadVars
    <2>2. LegacyIsKept'
      BY <2>1 DEF LegacyIsKept, Pruned
    <2> QED BY <2>1, <2>2 DEF StatementInv, Migrating
  <1>2. CASE AppendReturns \/ TakeShutdown \/ AnswerOne \/ AllGone \/ Stop
    <2>1. /\ UNCHANGED <<log, cells, captures, expired>> /\ writer' \in {"recv", "stopping", "stopped"}
          /\ writer' = "recv" => writer = "append"
      BY <1>2 DEF AppendReturns, TakeShutdown, Take, AnswerOne, AllGone, Stop, durable
    <2> QED BY <2>1 DEF StatementInv, LegacyIsKept, Migrating
  <1>3. CASE Expire
    BY <1>3 DEF Expire, threadVars, StatementInv, LegacyIsKept, Migrating, Written, Kept
  <1>4. ASSUME UNCHANGED <<durable, threadVars>>
        PROVE  StatementInv' /\ LegacyIsKept'
    BY <1>4 DEF durable, threadVars, StatementInv, LegacyIsKept, Migrating, Written, Kept
  <1>5. CASE UNCHANGED vars
    BY <1>4, <1>5 DEF vars
  <1>6. CASE Joined
    BY <1>4, <1>6 DEF Joined
  <1>7. CASE \E c \in Caller : Send(c) \/ SendFails(c) \/ Abandon(c) \/ DropWriter(c)
    BY <1>4, <1>7 DEF Send, SendFails, Abandon, DropWriter
  <1>8. CASE \E c \in Caller, op \in {"append", "prune", "shutdown"} : Make(c, op)
    BY <1>4, <1>8 DEF Make
  <1> QED BY <1>1, <1>2, <1>3, <1>5, <1>6, <1>7, <1>8

-------------------------------------------------------------------------------
(* What was acknowledged. *)

\* A step that acknowledges nothing and loses no row and no capture before its time.
LEMMA DurableFrame ==
    ASSUME TypeOK, AcknowledgedIsDurable,
           \A i \in Call : outcome'[i] = "ok" => outcome[i] = "ok",
           log' = log \/ \E i \in Call : log' = Append(log, i),
           captures \cup expired \subseteq captures' \cup expired'
    PROVE  AcknowledgedIsDurable'
  <1>1. log \in Seq(Call)
    BY DEF TypeOK
  <1>2. Len(log) \in Nat /\ Len(log') >= Len(log) /\ Len(log') \in Nat
        /\ \A n \in 1 .. Len(log) : log'[n] = log[n]
    BY <1>1, Appended
  <1>3. \A i \in Call : Written(i) => Written(i)'
    BY <1>2 DEF Written
  <1> QED BY <1>3 DEF AcknowledgedIsDurable

LEMMA DurableStep ==
    ASSUME TypeOK, OrderInv, NumberInv, CallInv, StatementInv, AcknowledgedIsDurable, [Next]_vars
    PROVE  AcknowledgedIsDurable'
  <1> DEFINE Acks == \A i \in Call : outcome'[i] = "ok" => outcome[i] = "ok"
             Rows == log' = log \/ \E i \in Call : log' = Append(log, i)
             Stored == captures \cup expired \subseteq captures' \cup expired'
  <1>1. CASE UNCHANGED vars \/ MigrateStatement \/ MigrationEnds \/ OpenFails \/ Expire \/ AllGone
             \/ Joined \/ TakeAppend
    <2>1. Acks /\ Rows
      BY <1>1 DEF MigrateStatement, MigrationEnds, OpenFails, Expire, AllGone, Joined, TakeAppend,
                  vars, durable, callerVars
    <2>2. Stored
      BY <1>1 DEF MigrateStatement, MigrationEnds, OpenFails, Expire, AllGone, Joined, TakeAppend,
                  vars, durable
    <2> QED BY <2>1, <2>2, DurableFrame
  <1>2. CASE \E c \in Caller : Send(c) \/ DropWriter(c)
    <2>1. UNCHANGED <<outcome, log, captures, expired>>
      BY <1>2 DEF Send, DropWriter, durable
    <2> QED BY <2>1, DurableFrame
  <1>3. ASSUME NEW c \in Caller, SendFails(c) \/ Abandon(c)
        PROVE  AcknowledgedIsDurable'
    <2>1. PICK r \in {"stopped", "dropped"} : Return(c, r)
      BY <1>3 DEF SendFails, Abandon
    <2>2. stage[c] \in {"sending", "waiting"} /\ UNCHANGED <<log, captures, expired>> /\ r \in Outcome
      BY <1>3 DEF SendFails, Abandon, durable, Outcome
    <2>3. Acks
      BY <2>1, <2>2, ReturnEffect
    <2> QED BY <2>2, <2>3, DurableFrame
  <1>4. ASSUME NEW c \in Caller, NEW op \in {"append", "prune", "shutdown"}, Make(c, op)
        PROVE  AcknowledgedIsDurable'
    <2>1. UNCHANGED <<log, captures, expired>>
      BY <1>4 DEF Make, durable
    <2>2. Acks
      BY <1>4 DEF Make, TypeOK
    <2> QED BY <2>1, <2>2, DurableFrame
  <1>5. CASE AppendStatement
    <2>1. current.id \in Call /\ UNCHANGED <<outcome, expired>> /\ Rows /\ Stored
      BY <1>5, CommandType DEF AppendStatement, CallInv, callerVars
    <2> QED BY <2>1, DurableFrame
  <1>6. CASE AppendReturns
    <2>1. UNCHANGED <<log, captures, expired>> /\ writer = "append"
      BY <1>6 DEF AppendReturns, durable
    <2>2. CASE todo = <<>> /\ Reply({current}, "ok")
      <3>1. ASSUME NEW i \in Call, outcome'[i] # outcome[i]
            PROVE  current = [op |-> "append", id |-> i]
        <4>1. [op |-> "append", id |-> i] \in {current}
          BY <2>2, <3>1, ReplyEffect
        <4> QED BY <4>1
      <3>2. /\ Written(current.id)
            /\ \A k \in Kept : <<current.id, k>> \in captures
        <4>1. /\ Written(current.id)
              /\ "terminal_output" \in Kept => <<current.id, "terminal_output">> \in captures
              /\ "raw_capture" \in Kept => <<current.id, "raw_capture">> \in captures
          BY <2>1, <2>2, ListsDiffer DEF StatementInv
        <4> QED BY <4>1 DEF Kept, Kind
      <3>3. ASSUME NEW i \in Call, outcome'[i] = "ok", outcome[i] # "ok"
            PROVE  Written(i) /\ \A k \in CapturesOf[i[1]] : <<i, k>> \in captures
        <4>1. current.id = i
          BY <3>1, <3>3
        <4>2. i[1] \in Caller /\ CapturesOf[i[1]] \subseteq Kind
          BY CallType, WriterAssumption
        <4> QED BY <3>2, <4>1, <4>2 DEF Kept
      <3>4. \A i \in Call : Written(i)' = Written(i)
        BY <2>1 DEF Written
      <3> QED BY <2>1, <3>3, <3>4 DEF AcknowledgedIsDurable
    <2>3. CASE Reply({current}, "failed")
      <3>1. Acks
        BY <2>3, ReplyEffect
      <3> QED BY <2>1, <3>1, DurableFrame
    <2> QED BY <1>6, <2>2, <2>3 DEF AppendReturns
  <1>7. CASE TakePrune \/ TakeShutdown \/ AnswerOne
    <2>1. PICK r \in {"ok", "failed", "stopped"} :
              Reply({Head(queue)}, r) /\ (r = "ok" => Head(queue).op # "append")
      <3>1. CASE TakePrune \/ TakeShutdown
        BY <1>7, <3>1 DEF TakePrune, TakeShutdown, Take
      <3>2. CASE AnswerOne
        BY <3>2 DEF AnswerOne
      <3> QED BY <1>7, <3>1, <3>2
    <2>2. ASSUME NEW i \in Call, outcome'[i] = "ok", outcome[i] # "ok"
          PROVE  FALSE
      <3>1. [op |-> "append", id |-> i] \in {Head(queue)} /\ r = "ok"
        BY <2>1, <2>2, ReplyEffect
      <3> QED BY <2>1, <3>1
    <2>3. UNCHANGED <<log, expired>> /\ (captures' = captures \/ captures' = captures \ Pruned)
      BY <1>7 DEF TakePrune, TakeShutdown, AnswerOne, durable
    <2>4. Stored
      BY <2>3 DEF Pruned
    <2> QED BY <2>2, <2>3, <2>4, DurableFrame
  <1>8. CASE Stop
    <2>1. Reply(Queued, "stopped") /\ UNCHANGED <<log, captures, expired>>
      BY <1>8 DEF Stop, durable
    <2>2. Acks
      BY <2>1, ReplyEffect
    <2> QED BY <2>1, <2>2, DurableFrame
  <1>9. CASE Crash
    <2>1. Acks /\ UNCHANGED <<log, captures, expired>>
      BY <1>9 DEF Crash, durable
    <2> QED BY <2>1, DurableFrame
  <1> QED BY <1>1, <1>2, <1>3, <1>4, <1>5, <1>6, <1>7, <1>8, <1>9 DEF Next, Thread, CallerStep

-------------------------------------------------------------------------------
(* The invariant. *)

LEMMA Initially ==
    ASSUME Init
    PROVE  IInv
  <1>1. TypeOK
    BY InitIsTyped
  <1>2. Len(queue) = 0 /\ Len(log) = 0
    BY DEF Init
  <1>3. OrderInv /\ NumberInv
    BY <1>2 DEF Init, OrderInv, NumberInv
  <1>4. CallInv
    BY <1>2 DEF Init, CallInv
  <1>5. StatementInv
    BY ListsDiffer DEF Init, StatementInv, Migrating
  <1>6. AcknowledgedIsDurable /\ LegacyIsKept
    BY DEF Init, AcknowledgedIsDurable, LegacyIsKept
  <1> QED BY <1>1, <1>3, <1>4, <1>5, <1>6 DEF IInv

LEMMA InvariantStep ==
    ASSUME IInv, [Next]_vars
    PROVE  IInv'
  <1>1. TypeOK'
    BY TypeStep DEF IInv
  <1>2. AcknowledgedIsDurable'
    BY DurableStep DEF IInv
  <1>3. OrderInv' /\ NumberInv' /\ CallInv'
    BY <1>1, InsertionSteps, SendStep, MakeStep, ThreadStep, QuietStep, ReturnStep, CrashStep
       DEF IInv, Next, Thread, CallerStep
  <1>4. StatementInv' /\ LegacyIsKept'
    BY MigrationStep, InsertionStatementStep, OtherStatementStep
       DEF IInv, Next, Thread, CallerStep
  <1> QED BY <1>1, <1>2, <1>3, <1>4 DEF IInv

LEMMA Invariance == Spec => []IInv
  BY Initially, InvariantStep, PTL DEF Spec

\* The state of the writer stays in its types: in particular its channel holds at most ChannelCap
\* commands (journal.rs:237), whoever sends and whoever gives up.
THEOREM WriterTypeCorrect == Spec => []TypeOK
  <1>1. IInv => TypeOK
    BY DEF IInv
  <1> QED BY <1>1, Invariance, PTL

\* append (journal.rs:257-288) that returned Ok has its row and its captures on disk.
THEOREM AcknowledgedIsDurableAlways == Spec => []AcknowledgedIsDurable
  <1>1. IInv => AcknowledgedIsDurable
    BY DEF IInv
  <1> QED BY <1>1, Invariance, PTL

\* The rows of one caller stand in the order of its calls, dropped ones included
\* (journal.rs:280-287): the thread inserts them one after the other.
THEOREM CallsStayInOrder == Spec => []OrderOfCalls
  <1>1. ASSUME IInv
        PROVE  OrderOfCalls
    BY <1>1 DEF IInv, OrderInv, Before, OrderOfCalls
  <1> QED BY <1>1, Invariance, PTL

\* migrate_legacy_captures (journal.rs:363-389) loses no capture, wherever a crash or an error
\* cuts it off.
THEOREM LegacyIsKeptAlways == Spec => []LegacyIsKept
  <1>1. IInv => LegacyIsKept
    BY DEF IInv
  <1> QED BY <1>1, Invariance, PTL

\* A capture that a prune (journal.rs:421-426) deletes has no copy in its row: the thread
\* answers no command before the migration is through.
THEOREM PrunedForGood == Spec => DeletedForGood
  <1>1. ASSUME IInv, [Next]_vars
        PROVE  [\A x \in captures \ captures' : x \notin cells']_vars
    <2>1. CASE TakePrune
      <3>1. cells' = cells /\ writer = "recv"
        BY <2>1 DEF TakePrune, Take
      <3> QED BY <1>1, <3>1 DEF IInv, StatementInv
    <2>2. CASE ~TakePrune
      <3>1. captures \subseteq captures'
        BY <1>1, <2>2 DEF Next, Thread, CallerStep, MigrateStatement, MigrationEnds, OpenFails, Expire,
              Joined, Crash, Send, SendFails, Abandon, DropWriter, Make, TakeAppend,
              AppendStatement, AppendReturns, TakeShutdown, AnswerOne, AllGone, Stop, vars, durable
      <3> QED BY <3>1
    <2> QED BY <2>1, <2>2
  <1> QED BY <1>1, Invariance, PTL DEF Spec, DeletedForGood

-------------------------------------------------------------------------------
(* The refinement. *)

\* Calls that are answered, in one step, with what AppendLog allows.
LEMMA Settled ==
    ASSUME TypeOK, NEW r \in {"ok", "failed", "stopped", "lost"}, UNCHANGED log,
           outcome' \in [Call -> Outcome],
           \A i \in Call : outcome'[i] = outcome[i]
               \/ (outcome[i] = "open" /\ outcome'[i] = r /\ Log!Agrees(i, r))
    PROVE  Log!LogNext
  <1> DEFINE I == {i \in Call : outcome[i] = "open" /\ outcome'[i] = r}
  <1>1. I \in SUBSET Call /\ \A i \in I : outcome[i] = "open" /\ Log!Agrees(i, r)
    BY DEF Log!Agrees
  <1>2. outcome' = [i \in Call |-> IF i \in I THEN r ELSE outcome[i]]
    BY DEF TypeOK
  <1>3. Log!Settle(r)
    BY <1>1, <1>2 DEF Log!Settle
  <1> QED BY <1>3 DEF Log!LogNext

\* A call that waits to be sent, or stands in the channel, has no row.
LEMMA NotWritten ==
    ASSUME TypeOK, OrderInv, NumberInv, CallInv
    PROVE  /\ \A c \in Caller : stage[c] = "sending" => ~Log!Written(ask[c].id)
           /\ \A n \in 1 .. Len(queue) : ~Log!Written(queue[n].id)
           /\ writer = "append" /\ todo = Insertion => ~Log!Written(current.id)
  <1>1. \A i \in Call : ~Before(i, i)
    BY CallType DEF Before
  <1>2. log \in Seq(Call) /\ \A n \in 1 .. Len(log) : log[n] \in Call
    BY DEF TypeOK
  <1>3. ASSUME NEW i \in Call, \A n \in 1 .. Len(log) : Before(log[n], i)
        PROVE  ~Log!Written(i)
    BY <1>1, <1>3 DEF Log!Written
  <1>4. ASSUME NEW c \in Caller, stage[c] = "sending"
        PROVE  ~Log!Written(ask[c].id)
    <2>1. ask[c].id \in Call
      BY <1>4, CommandType DEF CallInv
    <2>2. \A n \in 1 .. Len(log) : Before(log[n], ask[c].id)
      BY <1>4 DEF NumberInv
    <2> QED BY <1>3, <2>1, <2>2
  <1>5. ASSUME NEW n \in 1 .. Len(queue)
        PROVE  ~Log!Written(queue[n].id)
    <2>1. queue[n].id \in Call
      BY CommandType DEF TypeOK
    <2>2. \A m \in 1 .. Len(log) : Before(log[m], queue[n].id)
      BY DEF OrderInv
    <2> QED BY <1>3, <2>1, <2>2
  <1>6. ASSUME writer = "append", todo = Insertion
        PROVE  ~Log!Written(current.id)
    <2>1. current.id \in Call
      BY <1>6, CommandType DEF CallInv
    <2>2. \A n \in 1 .. Len(log) : Before(log[n], current.id)
      BY <1>6 DEF OrderInv
    <2> QED BY <1>3, <2>1, <2>2
  <1> QED BY <1>4, <1>5, <1>6

\* The steps of a caller.
LEMMA CallerRefines ==
    ASSUME IInv, TypeOK', NEW c \in Caller,
           \/ Send(c) \/ SendFails(c) \/ Abandon(c) \/ DropWriter(c)
           \/ \E op \in {"append", "prune", "shutdown"} : Make(c, op)
    PROVE  Log!LogNext \/ UNCHANGED <<log, outcome>>
  <1>0. TypeOK /\ OrderInv /\ NumberInv /\ CallInv
    BY DEF IInv
  <1>1. CASE Send(c) \/ DropWriter(c)
    BY <1>1 DEF Send, DropWriter, durable
  <1>2. CASE Abandon(c)
    <2>1. /\ \A i \in Call : outcome'[i] = outcome[i]
               \/ (outcome[i] = "open" /\ outcome'[i] = "dropped" /\ i = ask[c].id)
          /\ outcome' \in [Call -> Outcome] /\ UNCHANGED log
      BY <1>0, <1>2, ReturnEffect DEF Abandon, durable, Outcome
    <2>2. CASE \E i \in Call : outcome'[i] # outcome[i]
      <3>1. PICK i \in Call : outcome'[i] # outcome[i]
        BY <2>2
      <3>2. i = ask[c].id /\ outcome[i] = "open" /\ outcome' = [outcome EXCEPT ![i] = "dropped"]
        BY <1>0, <2>1, <3>1 DEF TypeOK
      <3>3. Log!Drop(i)
        BY <2>1, <3>2 DEF Log!Drop
      <3> QED BY <3>3 DEF Log!LogNext
    <2>3. CASE ~ \E i \in Call : outcome'[i] # outcome[i]
      <3>1. outcome' = outcome
        BY <1>0, <2>1, <2>3 DEF TypeOK
      <3> QED BY <2>1, <3>1
    <2> QED BY <2>2, <2>3
  <1>3. CASE SendFails(c)
    <2>1. /\ \A i \in Call : outcome'[i] = outcome[i]
               \/ (outcome[i] = "open" /\ outcome'[i] = "stopped" /\ i = ask[c].id)
          /\ outcome' \in [Call -> Outcome] /\ UNCHANGED log
      BY <1>0, <1>3, ReturnEffect DEF SendFails, durable, Outcome
    <2>2. ~Log!Written(ask[c].id)
      BY <1>0, <1>3, NotWritten DEF SendFails
    <2>3. \A i \in Call : i = ask[c].id => Log!Agrees(i, "stopped")
      BY <2>2 DEF Log!Agrees
    <2> QED BY <1>0, <2>1, <2>3, Settled
  <1>4. ASSUME NEW op \in {"append", "prune", "shutdown"}, Make(c, op)
        PROVE  Log!LogNext \/ UNCHANGED <<log, outcome>>
    <2> DEFINE i == <<c, calls[c] + 1>>
    <2>1. i \in Call /\ calls[c] \in Nat
      BY <1>0, <1>4, CallType DEF Make, TypeOK
    <2>2. outcome[i] = "none"
      BY <1>0, <2>1 DEF CallInv
    <2>3. UNCHANGED log /\ outcome' = IF op = "append" THEN [outcome EXCEPT ![i] = "open"] ELSE outcome
      BY <1>4 DEF Make, durable
    <2>4. CASE op = "append"
      <3>1. Log!Call(i)
        BY <2>2, <2>3, <2>4 DEF Log!Call
      <3> QED BY <2>1, <3>1 DEF Log!LogNext
    <2>5. CASE op # "append"
      BY <2>3, <2>5
    <2> QED BY <2>4, <2>5
  <1> QED BY <1>1, <1>2, <1>3, <1>4

\* The steps of the thread: the insertion of the event is the commit.
LEMMA ThreadRefines ==
    ASSUME IInv, TypeOK', Thread
    PROVE  Log!LogNext \/ UNCHANGED <<log, outcome>>
  <1>0. TypeOK /\ OrderInv /\ NumberInv /\ CallInv /\ StatementInv
    BY DEF IInv
  <1>1. CASE MigrateStatement \/ MigrationEnds \/ TakeAppend \/ AllGone
    BY <1>1 DEF MigrateStatement, MigrationEnds, TakeAppend, AllGone, durable, callerVars
  <1>2. CASE AppendStatement
    <2>1. CASE todo = Insertion
      <3>1. /\ writer = "append" /\ log' = Append(log, current.id) /\ UNCHANGED outcome
        BY <1>2, <2>1, StatementLists DEF AppendStatement, callerVars
      <3>2. current.id \in Call /\ outcome[current.id] \in {"open", "dropped"}
        BY <1>0, <3>1, CommandType DEF CallInv
      <3>3. ~Log!Written(current.id)
        BY <1>0, <2>1, <3>1, NotWritten
      <3>4. Log!Commit(current.id)
        BY <3>1, <3>2, <3>3 DEF Log!Commit, Log!Undecided
      <3> QED BY <3>2, <3>4 DEF Log!LogNext
    <2>2. CASE todo # Insertion
      BY <1>0, <1>2, <2>2, StatementLists, ListsDiffer DEF AppendStatement, StatementInv, callerVars
    <2> QED BY <2>1, <2>2
  <1>3. CASE AppendReturns
    <2>1. writer = "append" /\ current \in Command /\ UNCHANGED log
      BY <1>0, <1>3 DEF AppendReturns, CallInv, durable
    <2>2. CASE todo = <<>> /\ Reply({current}, "ok")
      <3>1. Written(current.id)
        BY <1>0, <2>1, <2>2, ListsDiffer DEF StatementInv
      <3>2. Log!Written(current.id)
        BY <3>1 DEF Log!Written, Written
      <3>3. ASSUME NEW i \in Call, outcome'[i] # outcome[i]
            PROVE  outcome[i] = "open" /\ outcome'[i] = "ok" /\ Log!Agrees(i, "ok")
        <4>1. /\ outcome[i] = "open" /\ outcome'[i] = "ok"
              /\ [op |-> "append", id |-> i] \in {current}
          BY <1>0, <2>2, <3>3, ReplyEffect
        <4>2. current.id = i
          BY <4>1
        <4> QED BY <3>2, <4>1, <4>2 DEF Log!Agrees
      <3>4. outcome' \in [Call -> Outcome]
        BY DEF TypeOK
      <3> QED BY <1>0, <2>1, <3>3, <3>4, Settled
    <2>3. CASE Fails /\ todo # <<>> /\ Head(todo) \in Kept \cup {"event"} /\ Reply({current}, "failed")
      <3>1. current.id \in Call /\ current.id[1] \in Caller
        BY <2>1, CommandType, CallType
      <3>2. CapturesOf[current.id[1]] = {} => ~Log!Written(current.id)
        <4>1. CapturesOf[current.id[1]] = {} => todo = Insertion
          BY <1>0, <2>1, <2>3, StatementLists DEF Kept, StatementInv
        <4> QED BY <1>0, <2>1, <4>1, NotWritten
      <3>3. ASSUME NEW i \in Call, outcome'[i] # outcome[i]
            PROVE  outcome[i] = "open" /\ outcome'[i] = "failed" /\ Log!Agrees(i, "failed")
        <4>1. /\ outcome[i] = "open" /\ outcome'[i] = "failed"
              /\ [op |-> "append", id |-> i] \in {current}
          BY <1>0, <2>3, <3>3, ReplyEffect
        <4>2. current.id = i
          BY <4>1
        <4> QED BY <3>2, <4>1, <4>2 DEF Log!Agrees
      <3>4. outcome' \in [Call -> Outcome]
        BY DEF TypeOK
      <3> QED BY <1>0, <2>1, <3>3, <3>4, Settled
    <2> QED BY <1>3, <2>2, <2>3 DEF AppendReturns
  <1>4. CASE TakePrune \/ TakeShutdown
    <2>1. PICK r \in {"ok", "failed", "stopped"} :
              Reply({Head(queue)}, r) /\ Head(queue).op # "append" /\ UNCHANGED log
      BY <1>4 DEF TakePrune, TakeShutdown, Take, durable
    <2>2. ASSUME NEW i \in Call
          PROVE  outcome'[i] = outcome[i]
      <3>1. outcome'[i] # outcome[i] => [op |-> "append", id |-> i] \in {Head(queue)}
        BY <1>0, <2>1, ReplyEffect
      <3> QED BY <2>1, <3>1
    <2>3. outcome' = outcome
      BY <1>0, <2>2 DEF TypeOK
    <2> QED BY <2>1, <2>3
  <1>5. CASE AnswerOne
    <2>1. Reply({Head(queue)}, "failed") /\ queue # <<>> /\ UNCHANGED log /\ queue \in Seq(Command)
      BY <1>0, <1>5 DEF AnswerOne, durable, TypeOK
    <2>2. Head(queue) = queue[1] /\ 1 \in 1 .. Len(queue)
      BY <2>1, Taken
    <2>3. ~Log!Written(Head(queue).id)
      BY <1>0, <2>2, NotWritten
    <2>4. ASSUME NEW i \in Call, outcome'[i] # outcome[i]
          PROVE  outcome[i] = "open" /\ outcome'[i] = "failed" /\ Log!Agrees(i, "failed")
      <3>1. /\ outcome[i] = "open" /\ outcome'[i] = "failed"
            /\ [op |-> "append", id |-> i] \in {Head(queue)}
        BY <1>0, <2>1, <2>4, ReplyEffect
      <3>2. Head(queue).id = i
        BY <3>1
      <3> QED BY <2>3, <3>1, <3>2 DEF Log!Agrees
    <2>5. outcome' \in [Call -> Outcome]
      BY DEF TypeOK
    <2> QED BY <1>0, <2>1, <2>4, <2>5, Settled
  <1>6. CASE Stop
    <2>1. Reply(Queued, "stopped") /\ UNCHANGED log
      BY <1>6 DEF Stop, durable
    <2>2. ASSUME NEW i \in Call, outcome'[i] # outcome[i]
          PROVE  outcome[i] = "open" /\ outcome'[i] = "stopped" /\ Log!Agrees(i, "stopped")
      <3>1. /\ outcome[i] = "open" /\ outcome'[i] = "stopped"
            /\ [op |-> "append", id |-> i] \in Queued
        BY <1>0, <2>1, <2>2, ReplyEffect
      <3>2. PICK n \in 1 .. Len(queue) : queue[n] = [op |-> "append", id |-> i]
        BY <3>1 DEF Queued
      <3>3. queue[n].id = i
        BY <3>2
      <3>4. ~Log!Written(i)
        BY <1>0, <3>3, NotWritten
      <3> QED BY <3>1, <3>4 DEF Log!Agrees
    <2>3. outcome' \in [Call -> Outcome]
      BY DEF TypeOK
    <2> QED BY <1>0, <2>1, <2>2, <2>3, Settled
  <1> QED BY <1>1, <1>2, <1>3, <1>4, <1>5, <1>6 DEF Thread

LEMMA StepRefines ==
    ASSUME IInv, [Next]_vars
    PROVE  Log!LogNext \/ UNCHANGED <<log, outcome>>
  <1>1. TypeOK'
    BY InvariantStep DEF IInv
  <1>2. CASE UNCHANGED vars \/ OpenFails \/ Expire \/ Joined
    BY <1>2 DEF vars, durable, callerVars, OpenFails, Expire, Joined
  <1>3. CASE Crash
    <2>1. \A i \in Call : outcome'[i] = outcome[i]
            \/ (outcome[i] = "open" /\ outcome'[i] = "lost" /\ Log!Agrees(i, "lost"))
      BY <1>3 DEF Crash, Log!Agrees
    <2>2. TypeOK /\ UNCHANGED log /\ outcome' \in [Call -> Outcome]
      BY <1>1, <1>3 DEF Crash, IInv, TypeOK, durable
    <2> QED BY <2>1, <2>2, Settled
  <1> QED BY <1>1, <1>2, <1>3, CallerRefines, ThreadRefines DEF Next, CallerStep

\* The channel, the thread and its statements (journal.rs:218-426) implement AppendLog: to its
\* callers an append happens in one step, or never.
THEOREM WriterImplementsAppendLog == Spec => ImplementsAppendLog
  <1>1. Init => Log!LogInit
    BY DEF Init, Log!LogInit
  <1>2. IInv /\ [Next]_vars => [Log!LogNext]_<<log, outcome>>
    BY StepRefines
  <1> QED BY <1>1, <1>2, Invariance, PTL DEF Spec, ImplementsAppendLog, Log!LogSpec
===============================================================================
