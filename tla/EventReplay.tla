----------------------------- MODULE EventReplay -----------------------------
(***************************************************************************)
(* The events of the turns and their SSE streams (src/src/api.rs): the      *)
(* owner retains the latest events for replay under two limits, and a       *)
(* broadcast channel per turn, which forgets what a slow subscriber has not *)
(* taken, carries the live ones.  A subscriber follows one turn and, when   *)
(* it comes back, gives the id of the last event it received.               *)
(***************************************************************************)
EXTENDS Naturals, FiniteSetsExt, Lists

CONSTANTS
    Turn, Subscriber,
    Follows,        \* the turn a subscriber follows
    Size,           \* encoded sizes of events
    MaxEventBytes,  \* MAX_EVENT_BYTES
    MaxReplay,      \* MAX_SSE_REPLAY_BYTES
    MaxEvents,      \* MAX_EVENTS_PER_TURN
    Channel,        \* EVENT_CHANNEL_CAPACITY
    MaxTurns,       \* MAX_TURNS
    MaxPushed       \* bound of the model: events that are not terminal

ASSUME ReplayAssumption ==
    /\ Follows \in [Subscriber -> Turn]
    /\ Size \subseteq Nat \ {0}
    /\ {MaxEventBytes, MaxReplay, MaxEvents, Channel, MaxTurns, MaxPushed} \subseteq Nat \ {0}
    /\ MaxEventBytes <= MaxReplay

VARIABLES
    status,                  \* of a turn; a pruned one is gone, with its sender
    next,                    \* OwnerState::next_event
    events, bytes,           \* TurnRecord::events and event_bytes
    replayBytes,             \* OwnerState::replay_bytes
    channel,                 \* everything sent on the broadcast channel of a turn
    last,                    \* the terminal event of a turn
    conn,                    \* the stream of a subscriber
    replay, cursor, from,    \* what of its replay is left, where in the channel it is,
                             \* and its last_seen
    received, lagged         \* what it has received over all its streams, and missed by lag

store == <<next, events, bytes, replayBytes>>
turns == <<status, channel, last>>
streams == <<conn, replay, cursor, from, received, lagged>>
eventVars == <<store, turns, streams>>

EventId == 1 .. next - 1

EventTypeOK ==
    /\ status \in [Turn -> {"absent", "running", "terminal", "pruned"}]
    /\ next \in Nat \ {0}
    /\ events \in [Turn -> Seq([id : EventId, size : Size])] /\ bytes \in [Turn -> Nat]
    /\ replayBytes \in 0 .. MaxReplay
    /\ channel \in [Turn -> Seq(EventId)]
    /\ last \in [Turn -> 0 .. next - 1]
    /\ conn \in [Subscriber -> {"off", "live", "replay", "ended"}]
    /\ replay \in [Subscriber -> Seq(EventId)]
    /\ cursor \in [Subscriber -> Nat]
    /\ from \in [Subscriber -> 0 .. next - 1]
    /\ received \in [Subscriber -> Seq(EventId)]
    /\ lagged \in [Subscriber -> SUBSET EventId]

EventInit ==
    /\ status = [t \in Turn |-> "absent"]
    /\ next = 1
    /\ events = [t \in Turn |-> <<>>] /\ bytes = [t \in Turn |-> 0]
    /\ replayBytes = 0
    /\ channel = [t \in Turn |-> <<>>] /\ last = [t \in Turn |-> 0]
    /\ conn = [s \in Subscriber |-> "off"]
    /\ replay = [s \in Subscriber |-> <<>>]
    /\ cursor = [s \in Subscriber |-> 0] /\ from = [s \in Subscriber |-> 0]
    /\ received = [s \in Subscriber |-> <<>>] /\ lagged = [s \in Subscriber |-> {}]

-------------------------------------------------------------------------------
(* push_event *)

Retained(ev) == UNION {ToSet(ev[t]) : t \in Turn}
SizeOf(evs) == SumFunctionOnSet([e \in evs |-> e.size], evs)

\* The oldest retained events, of whatever turn, until one of b bytes fits.
Evicted(ev, total, b) ==
    {e \in Retained(ev) : total + b > MaxReplay + SizeOf({f \in Retained(ev) : f.id < e.id})}

Without(evs, q) == Filter(q, ToSet(q) \ evs)

\* Mutant of Overflow: one event too many is kept.
OverflowLate(q) == IF Len(q) > MaxEvents + 1 THEN {Head(q)} ELSE {}

\* The event a turn with too many gives up.
Overflow(q) == IF Len(q) > MaxEvents THEN {Head(q)} ELSE {}

\* An event of b bytes of turn t.  ev, by, total and ch are the retained events, their
\* bytes per turn and in all, and the channels, when it is pushed; an oversized one
\* only uses up its id.
PushEvent(t, b, ev, by, total, ch) ==
    /\ next' = next + 1
    /\ IF b > MaxEventBytes
       THEN events' = ev /\ bytes' = by /\ replayBytes' = total /\ channel' = ch
       ELSE LET old == Evicted(ev, total, b)
                pushed == Append(Without(old, ev[t]), [id |-> next, size |-> b])
                over == Overflow(pushed)
                gone == old \cup over
            IN  /\ events' = [u \in Turn |-> IF u = t THEN Without(over, pushed)
                                            ELSE Without(old, ev[u])]
                /\ bytes' = [u \in Turn |-> by[u] + (IF u = t THEN b ELSE 0)
                                              - SizeOf(gone \cap ToSet(ev[u]))]
                /\ replayBytes' = total + b - SizeOf(gone)
                /\ channel' = [ch EXCEPT ![t] = Append(@, next)]

\* prune_terminal_records: the bytes that remain.
Prune(gone) == replayBytes - SumFunctionOnSet(bytes, gone)

\* A turn is created and turn.started pushed; when no record is free, those of the
\* terminal turns are pruned first.
CreateTurn(t, b) ==
    /\ status[t] = "absent" /\ b <= MaxEventBytes
    /\ LET present == {u \in Turn : status[u] \in {"running", "terminal"}}
           gone == IF Cardinality(present) >= MaxTurns
                   THEN {u \in Turn : status[u] = "terminal"} ELSE {}
       IN  /\ Cardinality(present \ gone) < MaxTurns
           /\ status' = [u \in Turn |-> IF u = t THEN "running"
                                        ELSE IF u \in gone THEN "pruned" ELSE status[u]]
           /\ PushEvent(t, b, [u \in Turn |-> IF u \in gone THEN <<>> ELSE events[u]],
                        [u \in Turn |-> IF u \in gone THEN 0 ELSE bytes[u]], Prune(gone), channel)
    /\ UNCHANGED <<last, streams>>

\* approval.requested and approval.decided.
TurnEvent(t, b) ==
    /\ status[t] = "running" /\ next <= MaxPushed
    /\ b <= MaxEventBytes    \* event_fits, or a small payload
    /\ PushEvent(t, b, events, bytes, replayBytes, channel)
    /\ UNCHANGED <<status, last, streams>>

\* terminalize; the summary of the turn may be oversized.
Terminalize(t, b) ==
    /\ status[t] = "running"
    /\ status' = [status EXCEPT ![t] = "terminal"]
    /\ PushEvent(t, b, events, bytes, replayBytes, channel)
    /\ last' = [last EXCEPT ![t] = IF b > MaxEventBytes THEN 0 ELSE next]
    /\ UNCHANGED streams

-------------------------------------------------------------------------------
(* turn_events and the stream it returns. *)

Ids(t) == [k \in DOMAIN events[t] |-> events[t][k].id]

LastOf(q) == IF q = <<>> THEN 0 ELSE Last(q)

\* Mutant of Replay: Last-Event-ID is taken for the first event that is missing.
ReplayAfterNext(t, seen) == Filter(Ids(t), seen + 2 .. next - 1)

Replay(t, seen) == Filter(Ids(t), seen + 1 .. next - 1)

\* Mutant of Joins: the receiver starts with the latest event.
JoinsEarly(t) == Len(channel[t]) - 1

\* sender.subscribe(): the receiver starts after what has been sent.
Joins(t) == Len(channel[t])

\* owner_subscribe: the replay and the receiver are taken in one command.
Subscribe(s) ==
    LET t == Follows[s] IN
    /\ conn[s] = "off" /\ status[t] \in {"running", "terminal"}
    /\ conn' = [conn EXCEPT ![s] = IF status[t] = "terminal" THEN "replay" ELSE "live"]
    /\ from' = [from EXCEPT ![s] = LastOf(received[s])]
    /\ replay' = [replay EXCEPT ![s] = Replay(t, LastOf(received[s]))]
    /\ cursor' = [cursor EXCEPT ![s] = Joins(t)]
    /\ UNCHANGED <<store, turns, received, lagged>>

\* Mutant of AfterEvent: the stream stays open after the terminal event.
StaysOpen(s, i) == conn[s]

\* terminal_seen
AfterEvent(s, i) == IF i = last[Follows[s]] THEN "ended" ELSE conn[s]

Deliver(s, i) ==
    /\ received' = [received EXCEPT ![s] = Append(@, i)]
    /\ conn' = [conn EXCEPT ![s] = AfterEvent(s, i)]

FromReplay(s) ==
    /\ conn[s] \in {"live", "replay"} /\ replay[s] # <<>>
    /\ Deliver(s, Head(replay[s]))
    /\ replay' = [replay EXCEPT ![s] = Tail(@)]
    /\ UNCHANGED <<store, turns, cursor, from, lagged>>

Behind(s) == Len(channel[Follows[s]]) - cursor[s]

\* RecvError::Lagged, which the stream skips: the channel has only the latest events.
Lag(s) ==
    LET sentTo == channel[Follows[s]] IN
    /\ conn[s] = "live" /\ replay[s] = <<>> /\ Behind(s) > Channel
    /\ cursor' = [cursor EXCEPT ![s] = Len(sentTo) - Channel]
    /\ lagged' = [lagged EXCEPT ![s] = @ \cup {sentTo[k] : k \in cursor[s] + 1 .. cursor'[s]}]
    /\ UNCHANGED <<store, turns, conn, replay, from, received>>

FromChannel(s) ==
    /\ conn[s] = "live" /\ replay[s] = <<>> /\ Behind(s) \in 1 .. Channel
    /\ LET i == channel[Follows[s]][cursor[s] + 1]
       IN  IF i > from[s] THEN Deliver(s, i) ELSE UNCHANGED <<received, conn>>
    /\ cursor' = [cursor EXCEPT ![s] = @ + 1]
    /\ UNCHANGED <<store, turns, replay, from, lagged>>

\* The stream has nothing more: the replay of a terminal turn, or a channel whose
\* sender is gone.
StreamEnds(s) ==
    /\ replay[s] = <<>>
    /\ \/ conn[s] = "replay"
       \/ conn[s] = "live" /\ Behind(s) = 0 /\ status[Follows[s]] = "pruned"
    /\ conn' = [conn EXCEPT ![s] = "ended"]
    /\ UNCHANGED <<store, turns, replay, cursor, from, received, lagged>>

\* The client goes away; it may come back after the end of a stream, too.
Disconnect(s) ==
    /\ conn[s] # "off"
    /\ conn' = [conn EXCEPT ![s] = "off"]
    /\ replay' = [replay EXCEPT ![s] = <<>>]
    /\ cursor' = [cursor EXCEPT ![s] = 0] /\ from' = [from EXCEPT ![s] = 0]
    /\ UNCHANGED <<store, turns, received, lagged>>

StreamStep(s) == FromReplay(s) \/ Lag(s) \/ FromChannel(s) \/ StreamEnds(s)

OwnerStep == \E t \in Turn, b \in Size : CreateTurn(t, b) \/ TurnEvent(t, b) \/ Terminalize(t, b)

EventNext == OwnerStep \/ \E s \in Subscriber : Subscribe(s) \/ StreamStep(s) \/ Disconnect(s)

EventSpec == EventInit /\ [][EventNext]_eventVars

\* axum polls the streams; no client has to come, and no turn to end.
FairEventSpec == EventSpec /\ \A s \in Subscriber : WF_eventVars(StreamStep(s))

-------------------------------------------------------------------------------
(* Properties. *)

\* api.rs:1805-1868: replay_bytes and event_bytes are what is retained, through eviction
\* across turns and pruning, and the limits hold.
ReplayIsExact ==
    /\ \A t \in Turn : bytes[t] = SizeOf(ToSet(events[t])) /\ Len(events[t]) <= MaxEvents
    /\ replayBytes = SizeOf(Retained(events)) /\ replayBytes <= MaxReplay

\* api.rs:696-723 and 1642-1651: over all the streams of a subscriber the ids only grow,
\* so that nothing is received twice, where replay and channel meet and after a
\* reconnect.
EachOnce ==
    \A s \in Subscriber : \A k \in 1 .. Len(received[s]) - 1 : received[s][k] < received[s][k + 1]

\* api.rs:696-723: what a subscriber has not received although it came before something
\* it did receive was lost by lag or is no longer retained.
NothingIsSkipped ==
    \A s \in Subscriber : \A i \in ToSet(Ids(Follows[s])) :
        i < LastOf(received[s]) => i \in ToSet(received[s]) \cup lagged[s]

\* api.rs:1678-1696: when its turn is terminal and its terminal event was not oversized,
\* a stream ends, however far behind it was.
TerminalEndsStream ==
    \A s \in Subscriber :
        (status[Follows[s]] = "terminal" /\ last[Follows[s]] # 0 /\ conn[s] = "live")
            ~> conn[s] \in {"ended", "off"}
===============================================================================
