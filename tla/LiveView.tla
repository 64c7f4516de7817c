----------------------------- MODULE LiveView ------------------------------
(***************************************************************************)
(* The Realtime and History lists of the web page (AppShell.svelte,        *)
(* history.ts, realtime-feed.ts) and the management API they are filled    *)
(* from (exchanges.go): events that arrive in order, and answers to        *)
(* requests that arrive whenever they do.  EventStream models how events   *)
(* reach the page, ExchangePipeline and Persistence how exchanges come to  *)
(* RAM and SQLite; here both are as small as the lists can tell.           *)
(*                                                                         *)
(* An exchange has two revisions, active and ended.  Times are distinct,   *)
(* so that a page boundary is a time; 0 is no boundary, or no end.         *)
(***************************************************************************)
EXTENDS Naturals, FiniteSets, SequencesExt

CONSTANTS
    Limit,          \* exchanges on a page of History
    FeedLimit,      \* realtimeExchangeLimit
    Capacity,       \* of Memory
    Before,         \* exchanges an earlier process left in SQLite
    MaxExchanges, MaxWire, MaxAsked,    \* bounds: exchanges, messages and requests in flight
    MaxRare     \* bound: what users do and what goes wrong, together

ASSUME LimitsAssumption ==
    /\ {Limit, FeedLimit, Capacity} \subseteq Nat \ {0}
    /\ {MaxExchanges, MaxWire, MaxAsked, MaxRare} \subseteq Nat
    /\ Before \in 0..MaxExchanges

VARIABLES
    clock, started,     \* the time, and how many exchanges were received
    ram, queued, rows,  \* copies in Memory, on their way to SQLite, and in it
    wire,               \* the stream: what the page has not read; <<>> until it opens
    connected,
    asked,              \* requests of the page for the detail of an exchange
    load,               \* its request for a page of History
    confirmed,          \* its deletions and clearings the server has done
    live, history,      \* the lists
    dismissed,          \* dismissedLiveIDs
    list,               \* historyCursor, historyHasMore, historyError
    gone,               \* history variable: exchanges whose deletion the page read
    owed,               \* history variable: what the walk through History has to show
    rare                \* how often users or faults interfered

server == <<clock, started, ram, queued, rows>>
lists == <<live, history, dismissed, list>>
vars == <<server, wire, connected, asked, load, confirmed, lists, gone, owed, rare>>

-----------------------------------------------------------------------------
Copies == [id : 1..MaxExchanges, revision : {1, 2}, started : Nat, completed : Nat]

Ended(c) == c.completed # 0
Ids(copies) == {c.id : c \in copies}
Of(copies, id) == {c \in copies : c.id = id}
Without(copies, id) == {c \in copies : c.id # id}

\* exchangeOrderingTime, and the same in the page.
OrderingTime(c) == IF Ended(c) THEN c.completed ELSE c.started

\* The first n of the copies, newest first.
Top(copies, n) ==
    {c \in copies : Cardinality({d \in copies : OrderingTime(d) > OrderingTime(c)}) < n}

Older(copies, boundary) == {c \in copies : boundary = 0 \/ OrderingTime(c) < boundary}

\* Both histories of the server, RAM first.
Present == ram \cup {r \in rows : r.id \notin Ids(ram)}

MergeNewest(current, incoming) ==
    {c \in current : \A d \in Of(incoming, c.id) : d.revision < c.revision}
        \cup {d \in incoming : \A c \in Of(current, d.id) : d.revision >= c.revision}

AppendOlder(current, page) == current \cup {c \in page : c.id \notin Ids(current)}

MergeRealtime(current, incoming) == Top(MergeNewest(current, incoming), FeedLimit)

-----------------------------------------------------------------------------
(* The server. *)

Rare == rare < MaxRare /\ rare' = rare + 1

Event(type, id, revision) == [type |-> type, id |-> id, revision |-> revision]

Publish(events) ==
    /\ Len(wire) < MaxWire
    /\ wire' = IF connected THEN wire \o events ELSE wire

\* Memory.evictExcess: the ended copies beyond the capacity, oldest first.
Evicted(copies) ==
    LET ended == {c \in copies : Ended(c)} IN ended \ Top(ended, Capacity)

OldestFirst(copies) == SetToSortSeq(copies, LAMBDA a, b : OrderingTime(a) < OrderingTime(b))

\* Pipeline.save and the event of the step.  Evictions are published first.
Save(c, type) ==
    LET saved == Without(ram, c.id) \cup {c}
        out == Evicted(saved)
    IN  /\ ram' = saved \ out
        /\ Publish([i \in 1..Cardinality(out) |->
                       LET e == OldestFirst(out)[i] IN Event("exchange.evicted", e.id, e.revision)]
                   \o <<Event(type, c.id, c.revision)>>)
        \* What is in neither history until it is committed, no page can show.
        /\ owed' = owed \ {id \in Ids(out) : id \notin Ids(rows)}

Start ==
    /\ started < MaxExchanges
    /\ started' = started + 1
    /\ clock' = clock + 1
    /\ Save([id |-> started', revision |-> 1, started |-> clock', completed |-> 0],
            "exchange.started")
    /\ UNCHANGED <<queued, rows, connected, asked, load, confirmed, lists, gone, rare>>

Complete(c) ==
    /\ c \in ram /\ ~Ended(c)
    /\ clock' = clock + 1
    /\ LET ended == [c EXCEPT !.revision = 2, !.completed = clock'] IN
        /\ Save(ended, "response.completed")
        /\ queued' = queued \cup {ended}
    /\ UNCHANGED <<started, rows, connected, asked, load, confirmed, lists, gone, rare>>

Commit(c) ==
    /\ c \in queued
    /\ queued' = queued \ {c}
    /\ rows' = rows \cup {c}
    /\ UNCHANGED <<clock, started, ram, wire, connected, asked, load, confirmed, lists, gone, owed, rare>>

\* DELETE of an exchange by this page (it awaits the answer) or by another; WaitIdle
\* lets the queue run empty first.
DeleteExchange(c) ==
    /\ c \in Present /\ Ended(c) /\ queued = {}
    /\ Rare
    /\ ram' = Without(ram, c.id) /\ rows' = Without(rows, c.id)
    /\ Publish(<<Event("exchange.deleted", c.id, c.revision)>>)
    /\ owed' = owed \ {c.id}
    /\ \/ c.id \in Ids(live \cup history) /\ confirmed' = confirmed \cup {c.id}
       \/ UNCHANGED confirmed
    /\ UNCHANGED <<clock, started, queued, connected, asked, load, lists, gone>>

\* DELETE of all of them; 0 stands for its answer.
ClearExchanges ==
    /\ queued = {}
    /\ Rare
    /\ ram' = {c \in ram : ~Ended(c)} /\ rows' = {}
    /\ Publish(<<Event("history.cleared", 0, 0)>>)
    /\ owed' = {}
    /\ \/ confirmed' = confirmed \cup {0}
       \/ UNCHANGED confirmed
    /\ UNCHANGED <<clock, started, queued, connected, asked, load, lists, gone>>

\* GET of one exchange: RAM, then SQLite.
AnswerDetail(r) ==
    /\ r \in asked /\ ~r.answered
    /\ asked' = (asked \ {r}) \cup {[r EXCEPT !.answered = TRUE, !.found = Of(Present, r.id)]}
    /\ UNCHANGED <<server, wire, connected, load, confirmed, lists, gone, owed, rare>>

\* GET of a page (handler.exchanges): RAM is listed first ...
ListMemory ==
    /\ load.at = "sent"
    /\ load' = [load EXCEPT !.at = "memory", !.items = ram]
    /\ owed' = IF load.cursor = 0 THEN {c.id : c \in {d \in Present : Ended(d)}} ELSE owed
    /\ UNCHANGED <<server, wire, connected, asked, confirmed, lists, gone, rare>>

OldestOf(page) ==
    CHOOSE t \in {OrderingTime(c) : c \in page} : \A c \in page : t <= OrderingTime(c)

\* cursorIndex, ContainsBoundary.
Retained(boundary) ==
    boundary = 0 \/ \E c \in load.items \cup rows : OrderingTime(c) = boundary

\* Repository.List asks for one row more than the limit to learn whether there is one.
OlderRows == Older(rows, load.cursor)

BugPersistentMore(limit) == FALSE  \* it asks for no more than the limit
PersistentMore(limit) == Top(OlderRows, limit) # OlderRows

\* ... then SQLite, for enough rows that all of RAM could be among them.
ListRows ==
    LET memory == Older(load.items, load.cursor)
        limit == Limit + Cardinality(memory)
        merged == memory \cup {r \in Top(OlderRows, limit) : r.id \notin Ids(memory)}
        page == Top(merged, Limit)
        more == PersistentMore(limit) \/ page # merged
    IN  /\ load.at = "memory" /\ Retained(load.cursor)
        /\ load' = [load EXCEPT !.at = "answered", !.items = page, !.hasMore = more,
                                !.next = IF more /\ page # {} THEN OldestOf(page) ELSE 0]
        /\ UNCHANGED <<server, wire, connected, asked, confirmed, lists, gone, owed, rare>>

-----------------------------------------------------------------------------
(* The page. *)

NoLoad == [at |-> "none", reset |-> FALSE, cursor |-> 0, items |-> {}, hasMore |-> FALSE, next |-> 0]

\* The first half of loadHistory, which returns at once while a page is awaited.
LoadHistory(reset, cursor) ==
    IF load.at = "none"
    THEN load' = [NoLoad EXCEPT !.at = "sent", !.reset = reset, !.cursor = IF reset THEN 0 ELSE cursor]
    ELSE UNCHANGED load

\* The end of the list comes in sight, or Retry is pressed after an error.
LoadMore ==
    /\ load.at = "none" /\ (list.hasMore \/ list.error)
    /\ LoadHistory(FALSE, list.cursor)
    /\ list' = [list EXCEPT !.error = FALSE]
    /\ UNCHANGED <<server, wire, connected, asked, confirmed, live, history, dismissed, gone, owed, rare>>

\* Its second half.
ReceivePage ==
    /\ load.at = "answered"
    /\ load' = NoLoad
    /\ history' = IF load.reset THEN MergeNewest({}, load.items) ELSE AppendOlder(history, load.items)
    /\ list' = [cursor |-> load.next, hasMore |-> load.hasMore, error |-> FALSE]
    /\ UNCHANGED <<server, wire, connected, asked, confirmed, live, dismissed, gone, owed, rare>>

\* 409 resync_required; or a failed read or a lost connection.  The cursor stays.
LoadFails ==
    /\ \/ load.at = "memory" /\ ~Retained(load.cursor) /\ UNCHANGED rare
       \/ load.at # "none" /\ Rare
    /\ load' = NoLoad
    /\ list' = [list EXCEPT !.error = TRUE]
    /\ UNCHANGED <<server, wire, connected, asked, confirmed, live, history, dismissed, gone, owed>>

\* loadApplication opens the stream once the first page was awaited.
OpenStream ==
    /\ ~connected /\ load.at = "none"
    /\ connected' = TRUE
    /\ wire' = <<[type |-> "snapshot", items |-> ram]>>
    /\ UNCHANGED <<server, asked, load, confirmed, lists, gone, owed, rare>>

\* The stream breaks and comes back after the replay was trimmed.
Resync ==
    /\ connected /\ Rare
    /\ wire' = <<[type |-> "snapshot", items |-> ram]>>
    /\ UNCHANGED <<server, connected, asked, load, confirmed, lists, gone, owed>>

Read(type) == wire # <<>> /\ Head(wire).type = type /\ wire' = Tail(wire)

ReadSnapshot ==
    /\ Read("snapshot")
    /\ history' = MergeNewest(history, Head(wire).items)
    /\ UNCHANGED <<server, connected, asked, load, confirmed, live, dismissed, list, gone, owed, rare>>

\* receiveLiveExchange, until its await.
ReadLifecycle(type) ==
    /\ Read(type) /\ Cardinality(asked) < MaxAsked
    /\ LET e == Head(wire) IN
        asked' = IF e.id \in dismissed THEN asked
                 ELSE asked \cup {[id |-> e.id, revision |-> e.revision, answered |-> FALSE, found |-> {}]}
    /\ UNCHANGED <<server, connected, load, confirmed, lists, gone, owed, rare>>

BugAccepted(r) ==  \* dismissed is not looked at again
    {c \in r.found : c.revision >= r.revision}

Accepted(r) == {c \in r.found : c.revision >= r.revision /\ r.id \notin dismissed}

\* receiveLiveExchange after its await; a 404 or an old revision changes nothing.
ReceiveDetail(r) ==
    /\ r \in asked /\ r.answered
    /\ asked' = asked \ {r}
    /\ history' = MergeNewest(history, Accepted(r))
    /\ live' = MergeRealtime(live, Accepted(r))
    /\ UNCHANGED <<server, wire, connected, load, confirmed, dismissed, list, gone, owed, rare>>

ReadEvicted ==
    /\ Read("exchange.evicted")
    /\ live' = Without(live, Head(wire).id)
    /\ UNCHANGED <<server, connected, asked, load, confirmed, history, dismissed, list, gone, owed, rare>>

RemoveExchangeFromViews(id) ==
    /\ live' = Without(live, id)
    /\ history' = Without(history, id)
    /\ dismissed' = dismissed \ {id}

ReadDeleted ==
    /\ Read("exchange.deleted")
    /\ RemoveExchangeFromViews(Head(wire).id)
    /\ gone' = gone \cup {Head(wire).id}
    /\ LoadHistory(TRUE, 0)
    /\ list' = [list EXCEPT !.cursor = 0, !.error = @ /\ load.at # "none"]
    /\ UNCHANGED <<server, connected, asked, confirmed, owed, rare>>

ClearLists ==
    /\ live' = {} /\ history' = {}
    /\ list' = [list EXCEPT !.cursor = 0]
    /\ UNCHANGED dismissed

ReadCleared ==
    /\ Read("history.cleared")
    /\ ClearLists
    /\ owed' = {}
    /\ UNCHANGED <<server, connected, asked, load, confirmed, gone, rare>>

\* The rest of deleteExchange and clearHistory, when their answer arrives.
ReceiveDeleted(id) ==
    /\ id \in confirmed \ {0}
    /\ confirmed' = confirmed \ {id}
    /\ RemoveExchangeFromViews(id)
    /\ UNCHANGED <<server, wire, connected, asked, load, list, gone, owed, rare>>

ReceiveCleared ==
    /\ 0 \in confirmed
    /\ confirmed' = confirmed \ {0}
    /\ ClearLists
    /\ owed' = {}
    /\ UNCHANGED <<server, wire, connected, asked, load, gone, rare>>

DismissLiveExchange(id) ==
    /\ id \in Ids(live) /\ Rare
    /\ dismissed' = dismissed \cup {id}
    /\ live' = Without(live, id)
    /\ UNCHANGED <<server, wire, connected, asked, load, confirmed, history, list, gone, owed>>

ClearRealtime ==
    /\ live # {} /\ Rare
    /\ live' = {} /\ dismissed' = {}
    /\ UNCHANGED <<server, wire, connected, asked, load, confirmed, history, list, gone, owed>>

-----------------------------------------------------------------------------
Init ==
    /\ clock = 2 * Before /\ started = Before
    /\ ram = {} /\ queued = {}
    /\ rows = {[id |-> i, revision |-> 2, started |-> i, completed |-> Before + i] : i \in 1..Before}
    /\ wire = <<>> /\ connected = FALSE
    /\ asked = {} /\ confirmed = {}
    /\ load = [NoLoad EXCEPT !.at = "sent", !.reset = TRUE]
    /\ live = {} /\ history = {} /\ dismissed = {}
    /\ list = [cursor |-> 0, hasMore |-> FALSE, error |-> FALSE]
    /\ gone = {} /\ owed = {}
    /\ rare = 0

Server ==
    \/ Start \/ (\E c \in ram : Complete(c)) \/ (\E c \in queued : Commit(c))
    \/ (\E c \in Present : DeleteExchange(c)) \/ ClearExchanges
    \/ (\E r \in asked : AnswerDetail(r)) \/ ListMemory \/ ListRows

Stream ==
    \/ OpenStream \/ Resync \/ ReadSnapshot
    \/ ReadLifecycle("exchange.started") \/ ReadLifecycle("response.completed")
    \/ ReadEvicted \/ ReadDeleted \/ ReadCleared

Page ==
    \/ LoadMore \/ ReceivePage \/ LoadFails
    \/ \E r \in asked : ReceiveDetail(r)
    \/ (\E id \in confirmed : ReceiveDeleted(id)) \/ ReceiveCleared
    \/ (\E id \in Ids(live) : DismissLiveExchange(id)) \/ ClearRealtime

Next == Server \/ Stream \/ Page

Spec == Init /\ [][Next]_vars

-----------------------------------------------------------------------------
(* Properties. *)

TypeOK ==
    /\ ram \cup queued \cup rows \cup live \cup history \subseteq Copies
    /\ dismissed \cup gone \cup owed \subseteq 1..MaxExchanges
    /\ confirmed \subseteq 0..MaxExchanges
    /\ load.at \in {"none", "sent", "memory", "answered"}
    /\ list.cursor \in 0..clock

\* Close "removes only that card from the current browser's Realtime feed"
\* (docs/realtime-history.md:11), and the lists retain "the newest revision": answers
\* that were on their way, and overtake each other, neither bring a dismissed card
\* back nor take a card back to an earlier revision.
CardsAdvance ==
    [][/\ Ids(live') \cap dismissed' = {}
       /\ \A c \in live : \A d \in Of(live', c.id) : d.revision >= c.revision]_vars

\* "Newer inserts do not invalidate older-page cursors" (docs/api-v1.md:15): a walk
\* from the first page to the last shows every exchange that had ended when it began
\* and is still kept, whatever arrives, ends, is committed, evicted or deleted, and
\* wherever a listing falls between Memory and SQLite.
WalkSkipsNothing ==
    load.at = "none" /\ ~list.hasMore /\ ~list.error => owed \subseteq Ids(history)

\* "`exchange.deleted` removes one exchange from Realtime and History in every
\* connected interface" (docs/api-v1.md:120).
DeletedLeavesViews == gone \cap Ids(live \cup history) = {}
=============================================================================
