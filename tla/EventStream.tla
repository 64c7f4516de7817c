---------------------------- MODULE EventStream ----------------------------
(***************************************************************************)
(* The event bus of events/bus.go, the SSE handler of httpapi/sse.go that  *)
(* subscribes to it, and the EventSource of the web page at the other end  *)
(* (web/src/lib/api/events.ts), which reconnects with the last event id it *)
(* saw.  The bus trims its replay, disconnects subscribers that do not     *)
(* keep up, and starts again from event 1 in a new process.                *)
(*                                                                         *)
(* An event is its id, the process that published it and its encoded size. *)
(* The id 0 stands for the empty id: no Last-Event-ID, no event cursor.    *)
(***************************************************************************)
EXTENDS Naturals, FiniteSets, SequencesExt

CONSTANTS
    Clients,            \* web pages with an event stream
    Sizes,              \* encoded sizes of events
    ReplayCount, ReplayBytes,           \* Limits of the replay
    SubscriberCount, SubscriberBytes,   \* Limits of one subscriber
    MaxEvents,          \* bound: events published by one process
    MaxRestarts,        \* bound: restarts of the process
    MaxBreaks           \* bound: broken connections of each page

ASSUME ClientsFinite == IsFiniteSet(Clients)
\* normalizedLimits replaces every limit below one (lines 212-226).
ASSUME LimitsAssumption ==
    /\ {ReplayCount, ReplayBytes, SubscriberCount, SubscriberBytes} \subseteq Nat \ {0}
    /\ {MaxEvents, MaxRestarts, MaxBreaks} \subseteq Nat
    /\ Sizes \subseteq Nat \ {0}

VARIABLES
    process,    \* history: how often the process was restarted
    nextID,     \* Bus.nextID
    replay,     \* Bus.replay
    sub,        \* each page's subscriber
    pc,         \* where the stream handler of each page is
    wire,       \* what the handler wrote and the page has not read
    last,       \* the page's last event id, sent as Last-Event-ID
    covers,     \* history: the last event the page's state reflects
    breaks      \* connections of each page that broke

busVars == <<process, nextID, replay>>
streamVars == <<sub, pc, wire>>
pageVars == <<last, covers, breaks>>
vars == <<busVars, streamVars, pageVars>>

-----------------------------------------------------------------------------
Events == [id : 1..MaxEvents, process : 0..MaxRestarts, size : Sizes]

\* registered: in Bus.subscribers, `done` still open.  hand: what the goroutine
\* `forward` took from the queue.  owed: sizes sent but not yet subtracted.
Subscribers ==
    [registered : BOOLEAN, queue : Seq(Events), hand : Seq(Events), owed : Seq(Nat),
     count : Nat, bytes : Nat]

Fresh == [registered |-> TRUE, queue |-> <<>>, hand |-> <<>>, owed |-> <<>>,
          count |-> 0, bytes |-> 0]

Disconnected(s) == [s EXCEPT !.registered = FALSE]

\* What is written to a page: an event, or a snapshot (first or resync) with its
\* event cursor.  `covers` is what the page knows after reading it.
Marks == [process : 0..MaxRestarts, id : 0..MaxEvents]
Messages == [kind : {"event", "snapshot"}, id : 0..MaxEvents, covers : Marks]

Now == [process |-> process, id |-> nextID]

EventMessage(e) ==
    [kind |-> "event", id |-> e.id, covers |-> [process |-> e.process, id |-> e.id]]

TotalSize(events) == FoldSeq(LAMBDA e, total : e.size + total, 0, events)

-----------------------------------------------------------------------------
(* Publish.  Operators named Bug... are mutants: faults the properties must *)
(* notice.                                                                  *)

FitsReplay(events) == Len(events) <= ReplayCount /\ TotalSize(events) <= ReplayBytes

\* trimReplay: the oldest events go until both limits hold.
Trimmed(events) ==
    LET Rest(n) == SubSeq(events, n + 1, Len(events))
        dropped == CHOOSE n \in 0..Len(events) :
                      FitsReplay(Rest(n)) /\ \A k \in 0..(n - 1) : ~FitsReplay(Rest(k))
    IN  Rest(dropped)

TooSlow(s, e) ==
    \/ e.size > SubscriberBytes
    \/ s.count >= SubscriberCount
    \/ s.bytes + e.size > SubscriberBytes

Counting(s, e) == [s EXCEPT !.count = @ + 1, !.bytes = @ + e.size]

BugSkipWhenSlow(s, e) ==
    IF ~s.registered \/ TooSlow(s, e) THEN s
    ELSE [Counting(s, e) EXCEPT !.queue = Append(@, e)]

\* An event is offered to a subscriber; the queue itself may refuse it.
Offer(s, e) ==
    IF ~s.registered THEN s
    ELSE IF TooSlow(s, e) THEN Disconnected(s)
    ELSE IF Len(s.queue) >= SubscriberCount THEN Disconnected(Counting(s, e))
    ELSE [Counting(s, e) EXCEPT !.queue = Append(@, e)]

Publish(size) ==
    /\ nextID < MaxEvents
    /\ nextID' = nextID + 1
    /\ LET e == [id |-> nextID + 1, process |-> process, size |-> size] IN
        /\ replay' = Trimmed(Append(replay, e))
        /\ sub' = [c \in Clients |-> Offer(sub[c], e)]
    /\ UNCHANGED <<process, pc, wire, pageVars>>

-----------------------------------------------------------------------------
(* The goroutine `forward` of a subscriber.  Once `done` is closed, its     *)
(* selects may still pick the other case.                                   *)

Take(c) ==
    /\ pc[c] = "open"
    /\ sub[c].hand = <<>> /\ sub[c].owed = <<>>
    /\ sub[c].queue # <<>>
    /\ sub' = [sub EXCEPT ![c].hand = <<Head(sub[c].queue)>>, ![c].queue = Tail(@)]
    /\ UNCHANGED <<busVars, pc, wire, pageVars>>

\* The rendezvous with the stream handler, which writes the event.
Send(c) ==
    /\ pc[c] = "open"
    /\ sub[c].hand # <<>>
    /\ wire' = [wire EXCEPT ![c] = Append(@, EventMessage(Head(sub[c].hand)))]
    /\ sub' = [sub EXCEPT ![c].hand = <<>>, ![c].owed = <<Head(sub[c].hand).size>>]
    /\ UNCHANGED <<busVars, pc, pageVars>>

BugSettleCountOnly(c) ==
    /\ sub[c].owed # <<>>
    /\ sub' = [sub EXCEPT ![c].owed = <<>>, ![c].count = @ - 1]
    /\ UNCHANGED <<busVars, pc, wire, pageVars>>

Settle(c) ==
    /\ sub[c].owed # <<>>
    /\ sub' = [sub EXCEPT ![c].owed = <<>>, ![c].count = @ - 1,
                          ![c].bytes = @ - Head(sub[c].owed)]
    /\ UNCHANGED <<busVars, pc, wire, pageVars>>

\* `forward` returns and closes the channel, so the stream handler returns.
Hangup(c) ==
    /\ pc[c] = "open"
    /\ ~sub[c].registered
    /\ sub[c].owed = <<>>
    /\ pc' = [pc EXCEPT ![c] = "ended"]
    /\ UNCHANGED <<busVars, sub, wire, pageVars>>

-----------------------------------------------------------------------------
(* The stream handler: openSubscription.  *)

Subscribed(c, messages) ==
    /\ sub' = [sub EXCEPT ![c] = Fresh]
    /\ wire' = [wire EXCEPT ![c] = messages]
    /\ pc' = [pc EXCEPT ![c] = "open"]

Cursor == IF replay = <<>> THEN 0 ELSE Last(replay).id

IsReplayable(id) == \E n \in DOMAIN replay : replay[n].id = id

\* What follows the event with that id.
Replayed(id) ==
    SubSeq(replay, (CHOOSE n \in DOMAIN replay : replay[n].id = id) + 1, Len(replay))

\* subscribeWithSnapshot: cursor, snapshot and subscriber under one lock.
WithSnapshot(c) ==
    Subscribed(c, <<[kind |-> "snapshot", id |-> Cursor, covers |-> Now]>>)

ConnectFirst(c) ==
    /\ pc[c] = "closed"
    /\ last[c] = 0
    /\ WithSnapshot(c)
    /\ UNCHANGED <<busVars, pageVars>>

\* Subscribe(lastID) finds the id in the replay.
Resume(c) ==
    /\ pc[c] = "closed"
    /\ last[c] # 0
    /\ IsReplayable(last[c])
    /\ Subscribed(c, [n \in DOMAIN Replayed(last[c]) |-> EventMessage(Replayed(last[c])[n])])
    /\ UNCHANGED <<busVars, pageVars>>

BugResumeLatest(c) ==
    /\ pc[c] = "closed"
    /\ last[c] # 0
    /\ ~IsReplayable(last[c])
    /\ Subscribed(c, <<>>)
    /\ UNCHANGED <<busVars, pageVars>>

\* It does not: the subscription is closed, and a new one opened below.
FindGap(c) ==
    /\ pc[c] = "closed"
    /\ last[c] # 0
    /\ ~IsReplayable(last[c])
    /\ pc' = [pc EXCEPT ![c] = "gap"]
    /\ UNCHANGED <<busVars, sub, wire, pageVars>>

Resync(c) ==
    /\ pc[c] = "gap"
    /\ WithSnapshot(c)
    /\ UNCHANGED <<busVars, pageVars>>

Connect(c) == ConnectFirst(c) \/ Resume(c) \/ FindGap(c) \/ Resync(c)

-----------------------------------------------------------------------------
(* The page. *)

\* A message without an id leaves the last event id alone.
Read(c) ==
    /\ wire[c] # <<>>
    /\ LET message == Head(wire[c]) IN
        /\ last' = [last EXCEPT ![c] = IF message.id = 0 THEN @ ELSE message.id]
        /\ covers' = [covers EXCEPT ![c] = message.covers]
    /\ wire' = [wire EXCEPT ![c] = Tail(@)]
    /\ UNCHANGED <<busVars, sub, pc, breaks>>

Closed(c) ==
    /\ pc' = [pc EXCEPT ![c] = "closed"]
    /\ sub' = [sub EXCEPT ![c] = Disconnected(Fresh)]
    /\ wire' = [wire EXCEPT ![c] = <<>>]

\* The page has read everything a stream that ended had to say.
ReadEnd(c) ==
    /\ pc[c] = "ended"
    /\ wire[c] = <<>>
    /\ Closed(c)
    /\ UNCHANGED <<busVars, pageVars>>

\* The connection breaks, the session expires at a heartbeat, or the management
\* listener is replaced; what is on the wire is lost.
Break(c) ==
    /\ pc[c] # "closed"
    /\ breaks[c] < MaxBreaks
    /\ breaks' = [breaks EXCEPT ![c] = @ + 1]
    /\ Closed(c)
    /\ UNCHANGED <<busVars, last, covers>>

\* A new process serves the same pages.
Restart ==
    /\ process < MaxRestarts
    /\ process' = process + 1
    /\ nextID' = 0
    /\ replay' = <<>>
    /\ pc' = [c \in Clients |-> "closed"]
    /\ sub' = [c \in Clients |-> Disconnected(Fresh)]
    /\ wire' = [c \in Clients |-> <<>>]
    /\ UNCHANGED pageVars

-----------------------------------------------------------------------------
Init ==
    /\ process = 0
    /\ nextID = 0
    /\ replay = <<>>
    /\ sub = [c \in Clients |-> Disconnected(Fresh)]
    /\ pc = [c \in Clients |-> "closed"]
    /\ wire = [c \in Clients |-> <<>>]
    /\ last = [c \in Clients |-> 0]
    /\ covers = [c \in Clients |-> Now]
    /\ breaks = [c \in Clients |-> 0]

Stream(c) == Take(c) \/ Send(c) \/ Settle(c) \/ Hangup(c) \/ Connect(c) \/ Read(c) \/ ReadEnd(c)

Next ==
    \/ \E size \in Sizes : Publish(size)
    \/ \E c \in Clients : Stream(c) \/ Break(c)
    \/ Restart

(***************************************************************************)
(* Fairness: goroutines that can run do run, the page reads what arrives   *)
(* and, as EventSource does, connects again while it is open.  Nothing is  *)
(* assumed of Publish, Break or Restart.                                   *)
(***************************************************************************)
Fairness == \A c \in Clients : WF_vars(Stream(c))

Spec == Init /\ [][Next]_vars

FairSpec == Spec /\ Fairness

-----------------------------------------------------------------------------
(* Properties. *)

TypeOK ==
    /\ process \in 0..MaxRestarts
    /\ nextID \in 0..MaxEvents
    /\ replay \in Seq(Events)
    /\ sub \in [Clients -> Subscribers]
    /\ pc \in [Clients -> {"closed", "gap", "open", "ended"}]
    /\ wire \in [Clients -> Seq(Messages)]
    /\ last \in [Clients -> 0..MaxEvents]
    /\ covers \in [Clients -> Marks]
    /\ breaks \in [Clients -> 0..MaxBreaks]

\* What a subscriber is charged for: its queue, the event in the hand of
\* `forward`, and what was sent but not yet subtracted.
Charged(s) == TotalSize(s.queue) + TotalSize(s.hand) + (IF s.owed = <<>> THEN 0 ELSE Head(s.owed))

\* The pending counters, changed by Publish and by `forward` at different
\* moments, stay exact: a subscriber that keeps up is never cut off by a leak,
\* the channel `queue` itself never refuses what the counters admit, and what waits
\* for a slow page never exceeds either limit.
PendingExact ==
    \A c \in Clients : pc[c] = "open" =>
        /\ sub[c].count = Len(sub[c].queue) + Len(sub[c].hand) + Len(sub[c].owed)
        /\ sub[c].bytes = Charged(sub[c])
        /\ sub[c].count < SubscriberCount => Len(sub[c].queue) < SubscriberCount
        /\ sub[c].count <= SubscriberCount /\ sub[c].bytes <= SubscriberBytes

ReadsEvent(c) == wire[c] # <<>> /\ wire'[c] = Tail(wire[c]) /\ Head(wire[c]).kind = "event"

\* As long as the first process lives, a page reads every event exactly once and
\* in order, or a snapshot that covers it, through slow reads, broken connections,
\* replays that have been trimmed and the hand-over from replay to live events.
ContiguousDelivery ==
    [][\A c \in Clients : process = 0 /\ ReadsEvent(c) =>
          Head(wire[c]).covers = [covers[c] EXCEPT !.id = @ + 1]]_vars

\* As long as the first process lives, a page falls behind only for a while:
\* when events and breaks stop, its state reflects the last event.
CatchesUp == \A c \in Clients : []<>(covers[c] = Now \/ process > 0)

(* What the documentation says and the code does not do. *)

\* docs/api-v1.md:116: "A replay gap receives `resync` with a fresh atomic RAM
\* snapshot."
GapsAreResynced ==
    [][\A c \in Clients :
          ReadsEvent(c) => Head(wire[c]).covers.process = covers[c].process]_vars
=============================================================================
