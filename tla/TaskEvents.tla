------------------------------ MODULE TaskEvents ------------------------------
(***************************************************************************)
(* The events of one task: publish and Subscribe on the server             *)
(* (server/internal/daemon/bridge_task.go), the SSE stream of its handler  *)
(* (bridge_http.go), and BridgeClient.events (go/client.ts), which         *)
(* reconnects with Last-Event-ID until it has the terminal event.          *)
(*                                                                         *)
(* The server keeps the last EventLimit events and gives a subscriber that *)
(* falls behind up; the connection may be cut at any time with frames in   *)
(* it.  A subscription whose client has gone is removed and touches no     *)
(* other, so the model keeps the one of the present connection.            *)
(***************************************************************************)
EXTENDS Naturals, Sequences

CONSTANTS
    EventLimit,      \* eventLimit: the events kept for replay
    SubscriberSize,  \* subscriberSize: the least capacity of a subscriber's channel
    WireSize,        \* bound: frames the connection holds before a write blocks
    MaxEvents,       \* bound: events of the task
    MaxCuts          \* bound: connections cut

ASSUME EventsAssumption ==
    /\ EventLimit \in Nat \ {0} /\ SubscriberSize \in Nat \ {0} /\ WireSize \in Nat \ {0}
    /\ MaxEvents \in Nat \ {0} /\ MaxCuts \in Nat

VARIABLES
    nextEventID,  \* the id of the last event
    events,       \* the events kept
    terminal,     \* whether the terminal event is published
    pruned,       \* whether the task is forgotten (pruneExpired)
    channel,      \* the subscriber's channel: its events, capacity and whether it is open
    wire,         \* the frames between the handler and the client
    closed,       \* whether the handler has returned
    client,       \* "reconnecting", "streaming", "complete", "lost" or "protocolError"
    cursor,       \* the id of the last event the client yielded
    seen,         \* the events the client yielded
    cuts          \* connections cut so far

server == <<nextEventID, events, terminal, pruned>>
connection == <<channel, wire, closed>>
vars == <<server, connection, client, cursor, seen, cuts>>

-----------------------------------------------------------------------------
(* An event as far as delivery goes; replay_overflow is a status event     *)
(* that Subscribe makes up, with the id of the newest event dropped.       *)
EventIds == 1..MaxEvents
Events == [id : EventIds, type : {"progress", "terminal", "replay_overflow"}]

NoChannel == [queue |-> <<>>, capacity |-> 0, open |-> FALSE]

TypeOK ==
    /\ nextEventID \in 0..MaxEvents
    /\ events \in Seq(Events) /\ Len(events) <= EventLimit
    /\ terminal \in BOOLEAN
    /\ pruned \in BOOLEAN
    /\ channel \in [queue : Seq(Events), capacity : Nat, open : BOOLEAN]
    /\ Len(channel.queue) <= channel.capacity
    /\ wire \in Seq(Events) /\ Len(wire) <= WireSize
    /\ closed \in BOOLEAN
    /\ client \in {"reconnecting", "streaming", "complete", "lost", "protocolError"}
    /\ cursor \in 0..MaxEvents
    /\ seen \in Seq(Events)
    /\ cuts \in 0..MaxCuts

Init ==
    /\ nextEventID = 0
    /\ events = <<>>
    /\ terminal = FALSE
    /\ pruned = FALSE
    /\ channel = NoChannel
    /\ wire = <<>>
    /\ closed = TRUE
    /\ client = "reconnecting"
    /\ cursor = 0
    /\ seen = <<>>
    /\ cuts = 0

-----------------------------------------------------------------------------
(* The server                                                              *)

(* The newest EventLimit of the events.                                    *)
Kept(all) ==
    IF Len(all) > EventLimit THEN SubSeq(all, Len(all) - EventLimit + 1, Len(all)) ELSE all

(* Mutant: an event that does not fit is left out.                         *)
OfferedSkipping(ch, event) ==
    IF ch.open /\ Len(ch.queue) < ch.capacity THEN [ch EXCEPT !.queue = Append(@, event)] ELSE ch

(* The send of publish: a channel that is full is closed instead.          *)
Offered(ch, event) ==
    IF ~ch.open THEN ch
    ELSE IF Len(ch.queue) < ch.capacity THEN [ch EXCEPT !.queue = Append(@, event)]
    ELSE [ch EXCEPT !.open = FALSE]

(* publish: after the terminal event nothing is published, and every       *)
(* subscriber's channel is closed behind it.                               *)
Publish(type) ==
    LET event == [id |-> nextEventID + 1, type |-> type]
        offered == Offered(channel, event)
    IN  /\ ~terminal
        /\ IF type = "terminal" THEN nextEventID < MaxEvents ELSE nextEventID + 1 < MaxEvents
        /\ nextEventID' = event.id
        /\ events' = Kept(Append(events, event))
        /\ terminal' = (type = "terminal")
        /\ channel' = IF type = "terminal" THEN [offered EXCEPT !.open = FALSE] ELSE offered
        /\ UNCHANGED <<pruned, wire, closed, client, cursor, seen, cuts>>

(* pruneExpired forgets a task some time after its terminal event.         *)
Prune ==
    /\ terminal /\ ~pruned
    /\ pruned' = TRUE
    /\ UNCHANGED <<nextEventID, events, terminal, connection, client, cursor, seen, cuts>>

(* Mutant: the mark takes the place of the oldest event kept.              *)
ReplayFromMark(afterID) ==
    IF events # <<>> /\ afterID < events[1].id - 1
    THEN <<[id |-> events[1].id, type |-> "replay_overflow"]>> \o Tail(events)
    ELSE SelectSeq(events, LAMBDA event : event.id > afterID)

(* Mutant: no mark.                                                        *)
ReplayUnmarked(afterID) == SelectSeq(events, LAMBDA event : event.id > afterID)

(* The kept events past the cursor: ids ascend, so that they are the end   *)
(* of what is kept.                                                        *)
Past(afterID) ==
    LET first == CHOOSE i \in 1..(Len(events) + 1) :
                     \A j \in 1..Len(events) : events[j].id > afterID <=> j >= i
    IN  SubSeq(events, first, Len(events))

(* What Subscribe replays: they, with a mark in front when older ones are  *)
(* gone.                                                                   *)
Replay(afterID) ==
    IF events # <<>> /\ afterID < events[1].id - 1
    THEN <<[id |-> events[1].id - 1, type |-> "replay_overflow"]>> \o Past(afterID)
    ELSE Past(afterID)

(* The request of a client that (re)connects: the task is gone, the cursor *)
(* is ahead of the task, or it is subscribed.                              *)
Subscribe ==
    /\ client = "reconnecting"
    /\ IF pruned \/ cursor > nextEventID
       THEN client' = "lost" /\ UNCHANGED connection
       ELSE LET replay == Replay(cursor)
                size == IF Len(replay) > SubscriberSize THEN Len(replay) ELSE SubscriberSize
            IN  /\ channel' = [queue |-> replay, capacity |-> size, open |-> ~terminal]
                /\ wire' = <<>>
                /\ closed' = FALSE
                /\ client' = "streaming"
    /\ UNCHANGED <<server, cursor, seen, cuts>>

(* handleTaskEvents: one event from the channel to the connection.         *)
Forward ==
    /\ client = "streaming" /\ ~closed
    /\ channel.queue # <<>> /\ Len(wire) < WireSize
    /\ wire' = Append(wire, Head(channel.queue))
    /\ channel' = [channel EXCEPT !.queue = Tail(@)]
    /\ UNCHANGED <<server, closed, client, cursor, seen, cuts>>

(* The channel is closed and empty: the response ends.                     *)
HandlerReturns ==
    /\ client = "streaming" /\ ~closed
    /\ channel.queue = <<>> /\ ~channel.open
    /\ closed' = TRUE
    /\ UNCHANGED <<server, channel, wire, client, cursor, seen, cuts>>

-----------------------------------------------------------------------------
(* The client                                                              *)

Disconnected ==
    /\ channel' = NoChannel
    /\ wire' = <<>>
    /\ closed' = TRUE

(* The check on an event's id in events().                                 *)
Expected(event) ==
    \/ event.id = cursor + 1
    \/ event.type = "replay_overflow" /\ event.id > cursor

(* events() reads one frame.                                               *)
Receive ==
    LET event == Head(wire)
    IN  /\ client = "streaming" /\ wire # <<>>
        /\ IF Expected(event)
           THEN cursor' = event.id /\ seen' = Append(seen, event)
           ELSE UNCHANGED <<cursor, seen>>
        /\ IF Expected(event) /\ event.type # "terminal"
           THEN wire' = Tail(wire) /\ UNCHANGED <<channel, closed, client>>
           ELSE /\ client' = IF Expected(event) THEN "complete" ELSE "protocolError"
                /\ Disconnected
        /\ UNCHANGED <<server, cuts>>

(* The response has ended without the terminal event: reconnect.           *)
StreamEnds ==
    /\ client = "streaming" /\ closed /\ wire = <<>>
    /\ client' = "reconnecting"
    /\ Disconnected
    /\ UNCHANGED <<server, cursor, seen, cuts>>

(* A transport error or the idle timeout; what was in flight is lost.      *)
Cut ==
    /\ client = "streaming" /\ cuts < MaxCuts
    /\ cuts' = cuts + 1
    /\ client' = "reconnecting"
    /\ Disconnected
    /\ UNCHANGED <<server, cursor, seen>>

Next ==
    \/ \E type \in {"progress", "terminal"} : Publish(type)
    \/ Prune
    \/ Subscribe \/ Forward \/ HandlerReturns
    \/ Receive \/ StreamEnds \/ Cut

Spec == Init /\ [][Next]_vars

(* Both ends run.  A task need not end, nor a task be pruned, and nothing  *)
(* cuts a connection of necessity.                                         *)
Fairness ==
    /\ WF_vars(Forward \/ HandlerReturns)
    /\ WF_vars(Subscribe \/ Receive \/ StreamEnds)

FairSpec == Spec /\ Fairness

-----------------------------------------------------------------------------
(* Whatever is cut, dropped, replayed or overrun, the client never meets   *)
(* an event out of sequence, and its cursor is never ahead of the task.    *)
NeverMisled == client # "protocolError" /\ cursor <= nextEventID

Seen == {seen[i].id : i \in {j \in DOMAIN seen : seen[j].type # "replay_overflow"}}

(* The client misses an event only if the server has dropped it, and is    *)
(* told so: the mark that follows the gap carries the id of its end.       *)
LossIsMarked ==
    \A id \in (1..cursor) \ Seen :
        /\ id < events[1].id
        /\ \E i \in DOMAIN seen :
              /\ seen[i].type = "replay_overflow" /\ id <= seen[i].id
              /\ i > 1 => seen[i - 1].id < id

(* A client of a task that ends gets its terminal event, unless the task   *)
(* is forgotten while the client is away.                                  *)
Completes == terminal ~> client \in {"complete", "lost"}

=============================================================================
