----------------------------- MODULE JsonlReader -----------------------------
(***************************************************************************)
(* The JSONL transport between the runner and one app-server: JsonlClient   *)
(* (src/src/jsonl.rs), driven as CodexClient drives it: the calls up to     *)
(* turn/start, the wait for turn/completed, and, when that wait is          *)
(* preempted, the call turn/interrupt and a second wait.  The app-server    *)
(* may write any message at any time; one that is honest also answers every *)
(* call it reads and completes the turn.                                    *)
(***************************************************************************)
EXTENDS Naturals, Lists

CONSTANTS
    Calls,         \* the calls before the wait; the last one is turn/start
    MaxPending,    \* MAX_PENDING_MESSAGES
    MaxBytes,      \* MAX_PENDING_BYTES
    Sizes,         \* sizes of the messages the app-server writes unasked
    MaxUnasked     \* bound of the model: how many of these it writes

ASSUME ReaderAssumption ==
    /\ Calls \in Nat \ {0}
    /\ MaxPending \in Nat /\ MaxBytes \in Nat
    /\ Sizes \subseteq Nat \ {0} /\ Sizes # {}
    /\ MaxUnasked \in Nat

VARIABLES
    sent,        \* everything the app-server has written to its stdout
    unasked,     \* how many of these nothing called for
    answered,    \* the calls it has answered
    heard,       \* the calls whose line has reached it whole
    served,      \* how many of its requests the runner has answered
    pos,         \* how many messages have been read whole
    half,        \* a part of the next one is in ReaderState::frame
    pending,     \* ReaderState::pending, as positions in sent
    pendingBytes,
    stdin,       \* the last line the runner wrote
    doing, id,      \* what the runner does, the id of its last call
    hand,        \* the message in the hands of the call or of the wait's handler
    got          \* what next_message has returned

server == <<sent, unasked, answered, heard>>
reader == <<pos, half, pending, pendingBytes>>
owner == <<served, stdin, doing, id, hand, got>>
readerVars == <<server, reader, owner>>

Kind == {"response", "odd", "note", "completed", "request", "bad"}

\* An "odd" response has an id that is not a u64; a "bad" frame is oversized or
\* malformed, or cut off by the end of the stream.
Message == [kind : Kind, id : 0 .. Calls + 2, size : Sizes]

ReaderTypeOK ==
    /\ sent \in Seq(Message)
    /\ unasked \in 0 .. MaxUnasked
    /\ answered \subseteq 1 .. Calls + 1 /\ heard \subseteq 1 .. Calls + 1
    /\ served \in Nat
    /\ pos \in 0 .. Len(sent) /\ half \in BOOLEAN
    /\ pending \in Seq(1 .. Len(sent)) /\ pendingBytes \in Nat
    /\ stdin \in {"whole", "cut", "joined"}
    /\ doing \in {"next", "call", "match", "wait", "respond", "ended"}
    /\ id \in 0 .. Calls + 1
    /\ hand \in 0 .. Len(sent)
    /\ got \in Seq(1 .. Len(sent))

ReaderInit ==
    /\ sent = <<>> /\ unasked = 0 /\ answered = {} /\ heard = {} /\ served = 0
    /\ pos = 0 /\ half = FALSE /\ pending = <<>> /\ pendingBytes = 0
    /\ stdin = "whole" /\ doing = "next" /\ id = 0 /\ hand = 0 /\ got = <<>>

-------------------------------------------------------------------------------
(* The app-server. *)

IsA(kind) == {i \in DOMAIN sent : sent[i].kind = kind}

\* It may hold everything back until its requests are answered; turn/interrupt ends
\* that.
Held == Cardinality(IsA("request")) > served /\ Calls + 1 \notin heard

Write(kind, n, size) == sent' = Append(sent, [kind |-> kind, id |-> n, size |-> size])

Smallest == CHOOSE size \in Sizes : \A other \in Sizes : size <= other

AppServerAnswers ==
    /\ ~Held
    /\ \E n \in heard \ answered :
        /\ Write("response", n, Smallest)
        /\ answered' = answered \cup {n}
    /\ UNCHANGED <<unasked, heard, reader, owner>>

\* turn/completed may come before the response of turn/start.
AppServerCompletes ==
    /\ ~Held /\ Calls \in heard /\ IsA("completed") = {}
    /\ Write("completed", 0, Smallest)
    /\ UNCHANGED <<unasked, answered, heard, reader, owner>>

AppServerWrites(kind, n, size) ==
    /\ unasked < MaxUnasked /\ doing # "ended"
    /\ unasked' = unasked + 1
    /\ Write(kind, n, size)
    /\ UNCHANGED <<answered, heard, reader, owner>>

-------------------------------------------------------------------------------
(* JsonlClient::call, up to its response. *)

\* What the runner does after the call.
AfterCall == IF id < Calls THEN "next" ELSE "wait"

\* The request; after a line that was cut off, the two become one.
StartCall ==
    /\ doing = "next" /\ doing' = "call"
    /\ id' = id + 1
    /\ stdin' = IF stdin = "whole" THEN "whole" ELSE "joined"
    /\ heard' = IF stdin = "whole" THEN heard \cup {id + 1} ELSE heard
    /\ UNCHANGED <<sent, unasked, answered, served, reader, hand, got>>

\* remove_pending
RemovePending(k) ==
    /\ pending' = RemoveAt(pending, k)
    /\ pendingBytes' = pendingBytes - sent[pending[k]].size

IsResponse(i) == sent[i].kind = "response" /\ sent[i].id = id
IsServerRequest(i) == sent[i].kind = "request"

\* The first pending message a call takes before it reads, 0 if there is none.
Wanted ==
    IF \E k \in DOMAIN pending : IsResponse(pending[k])
    THEN SelectInSeq(pending, IsResponse) ELSE SelectInSeq(pending, IsServerRequest)

\* read_bounded_frame: the next message whole, continuing what is in the frame.
ReadFrame ==
    /\ pos < Len(sent)
    /\ pos' = pos + 1 /\ half' = FALSE

\* A part of the next message arrives; the read goes on waiting.
ReadPart ==
    /\ doing = "call" \/ (doing = "wait" /\ pending = <<>>)
    /\ pos < Len(sent) /\ ~half
    /\ half' = TRUE
    /\ UNCHANGED <<server, pos, pending, pendingBytes, owner>>

\* A pending message if one is wanted, or else the next one of stdout.
CallReads ==
    /\ doing = "call" /\ doing' = "match"
    /\ IF Wanted # 0
       THEN hand' = pending[Wanted] /\ RemovePending(Wanted) /\ UNCHANGED <<pos, half>>
       ELSE ReadFrame /\ hand' = pos + 1 /\ UNCHANGED <<pending, pendingBytes>>
    /\ UNCHANGED <<server, served, stdin, id, got>>

CallReturns ==
    /\ doing = "match" /\ IsResponse(hand)
    /\ doing' = AfterCall /\ hand' = 0
    /\ UNCHANGED <<server, reader, served, stdin, id, got>>

\* The handler answers the request while the call waits.
CallDispatches ==
    /\ doing = "match" /\ sent[hand].kind = "request"
    /\ doing' = "call" /\ hand' = 0
    /\ served' = served + 1
    /\ UNCHANGED <<server, reader, stdin, id, got>>

\* A response to another call, or a frame that is not a message.
CallDesyncs ==
    /\ doing = "match" /\ ~IsResponse(hand) /\ sent[hand].kind \in {"response", "bad"}
    /\ doing' = "ended" /\ hand' = 0
    /\ UNCHANGED <<server, reader, served, stdin, id, got>>

Unmatched == {"note", "completed", "odd"}

\* Mutant of CallBuffers: what nobody waits for yet is discarded.
CallDiscards ==
    /\ doing = "match" /\ sent[hand].kind \in Unmatched
    /\ doing' = "call" /\ hand' = 0
    /\ UNCHANGED <<server, reader, served, stdin, id, got>>

\* push_pending; without room the call fails and the session with it.
CallBuffers ==
    /\ doing = "match" /\ sent[hand].kind \in Unmatched
    /\ hand' = 0
    /\ IF Len(pending) < MaxPending /\ pendingBytes + sent[hand].size <= MaxBytes
       THEN /\ pending' = Append(pending, hand)
            /\ pendingBytes' = pendingBytes + sent[hand].size
            /\ doing' = "call"
       ELSE doing' = "ended" /\ UNCHANGED <<pending, pendingBytes>>
    /\ UNCHANGED <<server, pos, half, served, stdin, id, got>>

-------------------------------------------------------------------------------
(* CodexClient::wait_turn_completed and its read_next_message. *)

\* What the wait does with message i.
AfterMessage(i) ==
    CASE sent[i].kind = "request" -> "respond"
      [] sent[i].kind = "note" -> "wait"
      [] OTHER -> "ended"     \* turn/completed, a response, or a bad frame

Hands(i) ==
    /\ got' = Append(got, i)
    /\ doing' = AfterMessage(i)
    /\ hand' = IF doing' = "respond" THEN i ELSE 0

\* Mutant of WaitReads: what is on stdout comes first.
WaitReadsStdout ==
    /\ doing = "wait"
    /\ IF pos = Len(sent)
       THEN pending # <<>> /\ Hands(Head(pending)) /\ RemovePending(1) /\ UNCHANGED <<pos, half>>
       ELSE ReadFrame /\ Hands(pos + 1) /\ UNCHANGED <<pending, pendingBytes>>
    /\ UNCHANGED <<server, served, stdin, id>>

\* Mutant of WaitReads: the bytes of a message that was pending are not given back.
WaitKeepsBytes ==
    /\ doing = "wait"
    /\ IF pending # <<>>
       THEN /\ Hands(Head(pending))
            /\ pending' = Tail(pending)
            /\ UNCHANGED <<pos, half, pendingBytes>>
       ELSE ReadFrame /\ Hands(pos + 1) /\ UNCHANGED <<pending, pendingBytes>>
    /\ UNCHANGED <<server, served, stdin, id>>

\* The oldest pending message, or the next one of stdout.
WaitReads ==
    /\ doing = "wait"
    /\ IF pending # <<>>
       THEN Hands(Head(pending)) /\ RemovePending(1) /\ UNCHANGED <<pos, half>>
       ELSE ReadFrame /\ Hands(pos + 1) /\ UNCHANGED <<pending, pendingBytes>>
    /\ UNCHANGED <<server, served, stdin, id>>

WaitResponds ==
    /\ doing = "respond" /\ doing' = "wait"
    /\ served' = served + 1 /\ hand' = 0
    /\ UNCHANGED <<server, reader, stdin, id, got>>

\* A control preempts the first wait: the read, or the handler in the middle of its
\* response, is dropped and turn/interrupt is called.
Interrupt ==
    /\ doing \in {"wait", "respond"} /\ id = Calls
    /\ doing' = "next" /\ hand' = 0
    /\ stdin' \in IF doing = "respond" THEN {"whole", "cut"} ELSE {"whole"}
    /\ UNCHANGED <<server, reader, served, id, got>>

\* A timer, the end of a stream, a handler's error, or a call dropped for a control:
\* the client is not used again.
GiveUp ==
    /\ doing # "ended" /\ doing' = "ended"
    /\ hand' = 0
    /\ UNCHANGED <<server, reader, served, stdin, id, got>>

CallStep == StartCall \/ CallReads \/ CallReturns \/ CallDispatches \/ CallDesyncs \/ CallBuffers
ClientStep == CallStep \/ ReadPart \/ WaitReads \/ WaitResponds

AppServerStep ==
    \/ AppServerAnswers \/ AppServerCompletes
    \/ \E kind \in {"note", "odd"}, size \in Sizes : AppServerWrites(kind, 0, size)
    \/ \E kind \in {"request", "bad"} : AppServerWrites(kind, 0, Smallest)
    \/ \E n \in 1 .. Calls + 2 : AppServerWrites("response", n, Smallest)

ReaderNext == ClientStep \/ Interrupt \/ GiveUp \/ AppServerStep

ReaderSpec == ReaderInit /\ [][ReaderNext]_readerVars

\* The client's task is polled; an honest app-server answers and completes the turn.
\* No timer has to fire.
FairReaderSpec ==
    ReaderSpec /\ WF_readerVars(ClientStep) /\ WF_readerVars(AppServerAnswers) /\ WF_readerVars(AppServerCompletes)

-------------------------------------------------------------------------------
(* Properties. *)

Unmatching == {i \in DOMAIN sent : sent[i].kind \in Unmatched}

InHand == IF doing = "match" THEN <<hand>> ELSE <<>>
Unread == [i \in 1 .. Len(sent) - pos |-> pos + i]

\* jsonl.rs:11-14 and 106-118: every notification is returned by next_message exactly
\* once and in the order it was written, whatever was awaited when it came and
\* wherever a read was dropped.
NotificationsInOrder ==
    doing # "ended" =>
        Filter(got, Unmatching) \o pending \o Filter(InHand \o Unread, Unmatching)
        = Filter([i \in DOMAIN sent |-> i], Unmatching)

\* jsonl.rs:459-466 and 515-528: pending_bytes is what is retained now, not what has
\* passed through, and both limits hold.
PendingIsExact ==
    /\ pendingBytes = SumFunction([k \in DOMAIN pending |-> sent[pending[k]].size])
    /\ Len(pending) <= MaxPending /\ pendingBytes <= MaxBytes

\* jsonl.rs:205-207 and 649-653: with an honest app-server, which may wait for its own
\* requests to be answered and complete the turn before turn/start returns, the session
\* ends without the help of a timer.
SessionEnds == <>(doing = "ended" \/ stdin = "joined")
===============================================================================
