----------------------------- MODULE UDPSessions -----------------------------
(***************************************************************************)
(* The upstream sessions of the UDP proxy and the reloads of the UDP plane *)
(* that replace them.                                                      *)
(*                                                                         *)
(* A receiver goroutine per listener forwards each datagram through the    *)
(* session manager the plane had when the datagram was read.  A manager    *)
(* keeps one connected socket per client in an LRU cache with expiry,      *)
(* whose own goroutine (the janitor) removes what has expired, and each    *)
(* socket has a reader goroutine that sends replies back.  Forward holds   *)
(* the manager's mutex, but the cache has a lock of its own: the janitor   *)
(* runs between the steps of a Forward.                                    *)
(***************************************************************************)
EXTENDS Naturals, FiniteSets, SequencesExt, Selection

CONSTANTS
    Clients,      \* canonical client addresses
    Listeners,    \* listeners in the order the plane may use them: 1..n
    MaxManagers,  \* bound: session managers, the first included
    MaxDials,     \* bound: sockets that are ever connected
    MaxTime,      \* bound: ticks of the clock
    MaxSessions,  \* udp.max_sessions
    TTL           \* udp.session_ttl, in ticks

ASSUME MaxManagersAssumption == MaxManagers \in Nat \ {0}
ASSUME MaxSessionsAssumption == MaxSessions \in Nat \ {0}
ASSUME TTLAssumption == TTL \in Nat \ {0}

Managers == 1..MaxManagers

VARIABLES
    now,
    listener, manager, \* udpPlane.listener and .sessions; 0 when there is none
    transition,        \* what the holder of the plane's transition lock is doing
    closed,            \* closed[m]: udpSessions.closed
    cache,             \* cache[m]: entries [client, session, expires], least recent first
    session,           \* the sockets in the order they were connected
    receiver           \* the receive loop of each listener

vars == <<now, listener, manager, transition, closed, cache, session, receiver>>

Idle == [at |-> "read"]

Init ==
    /\ now = 0
    /\ listener = 1 /\ manager = 1
    /\ transition = [doing |-> "nothing"]
    /\ closed = [m \in Managers |-> FALSE]
    /\ cache = [m \in Managers |-> <<>>]
    /\ session = <<>>
    /\ receiver = [l \in Listeners |-> Idle]

Tick ==
    /\ now < MaxTime /\ now' = now + 1
    /\ UNCHANGED <<listener, manager, transition, closed, cache, session, receiver>>

(***************************************************************************)
(* The cache (hashicorp/golang-lru/v2/expirable).  Each operation is one   *)
(* section of its lock; onEvict, which closes the session, runs inside.    *)
(***************************************************************************)
Of(entries, client) == Kept(entries, {e \in Range(entries) : e.client = client})
Without(entries, client) == Kept(entries, {e \in Range(entries) : e.client # client})

\* An expired entry is not found, and stays.
Found(entries, client) == \E e \in Range(Of(entries, client)) : now <= e.expires

\* A key that is present is renewed; a new one may push the oldest out.
Added(entries, client, s) ==
    Append(Without(entries, client), [client |-> client, session |-> s, expires |-> now + TTL])
Trimmed(entries) == IF Len(entries) > MaxSessions THEN Tail(entries) ELSE entries
Evicted(entries) == IF Len(entries) > MaxSessions THEN {Head(entries).session} ELSE {}

\* udpSession.close, of several sessions.
Closing(all, victims) ==
    [s \in DOMAIN all |-> IF s \in victims THEN [all[s] EXCEPT !.open = FALSE] ELSE all[s]]

(***************************************************************************)
(* receiveUDP and Forward.                                                 *)
(***************************************************************************)
MutexFree(m) == \A l \in Listeners : receiver[l].at \in {"refresh", "dial", "send"} => receiver[l].manager # m

Moves(l, state) == receiver' = [receiver EXCEPT ![l] = state]

\* A datagram is read and runtime() asked: a replaced listener's is dropped.
Receive(l) ==
    /\ receiver[l].at = "read" /\ listener = l /\ manager # 0
    /\ \E c \in Clients : Moves(l, [at |-> "forward", client |-> c, manager |-> manager])
    /\ UNCHANGED <<now, listener, manager, transition, closed, cache, session>>

\* A lookup that does not ask whether the manager is closed.
BugLookUp(l) ==
    LET m == receiver[l].manager
        mine == Of(cache[m], receiver[l].client)
    IN  /\ receiver[l].at = "forward" /\ MutexFree(m)
        /\ IF Found(cache[m], receiver[l].client)
           THEN Moves(l, [receiver[l] EXCEPT !.at = "refresh"] @@ [session |-> mine[1].session])
           ELSE Moves(l, [receiver[l] EXCEPT !.at = "dial"])
        /\ UNCHANGED <<now, listener, manager, transition, closed, cache, session>>

\* The manager's mutex, the closed check and the cache's Get, which makes a found
\* entry the most recent one.
LookUp(l) ==
    LET m == receiver[l].manager
        c == receiver[l].client
        mine == Of(cache[m], c)
    IN  /\ receiver[l].at = "forward" /\ MutexFree(m)
        /\ CASE closed[m] -> Moves(l, Idle) /\ UNCHANGED cache
             [] ~closed[m] /\ Found(cache[m], c) ->
                  /\ Moves(l, [at |-> "refresh", client |-> c, manager |-> m, session |-> mine[1].session])
                  /\ cache' = [cache EXCEPT ![m] = Without(cache[m], c) \o mine]
             [] OTHER -> Moves(l, [receiver[l] EXCEPT !.at = "dial"]) /\ UNCHANGED cache
        /\ UNCHANGED <<now, listener, manager, transition, closed, session>>

\* The found session is added again to renew its expiry.
Refresh(l) ==
    LET m == receiver[l].manager
        entries == Added(cache[m], receiver[l].client, receiver[l].session)
    IN  /\ receiver[l].at = "refresh"
        /\ cache' = [cache EXCEPT ![m] = Trimmed(entries)]
        /\ session' = Closing(session, Evicted(entries))
        /\ Moves(l, [receiver[l] EXCEPT !.at = "send"])
        /\ UNCHANGED <<now, listener, manager, transition, closed>>

\* A dial that replaces an expired entry without removing it first.
BugDial(l) ==
    LET m == receiver[l].manager
        c == receiver[l].client
        entries == Added(cache[m], c, Len(session) + 1)
    IN  /\ receiver[l].at = "dial" /\ Len(session) < MaxDials
        /\ Moves(l, [at |-> "send", client |-> c, manager |-> m, session |-> Len(session) + 1])
        /\ cache' = [cache EXCEPT ![m] = Trimmed(entries)]
        /\ session' = Append(Closing(session, Evicted(entries)),
                             [client |-> c, manager |-> m, open |-> TRUE, reader |-> "read"])
        /\ UNCHANGED <<now, listener, manager, transition, closed>>

\* An expired entry is removed and closed; then a socket is connected and added.
Dial(l) ==
    LET m == receiver[l].manager
        c == receiver[l].client
        old == {e.session : e \in Range(Of(cache[m], c))}
        entries == Added(cache[m], c, Len(session) + 1)
    IN  /\ receiver[l].at = "dial"
        /\ \/ /\ Moves(l, Idle)
              /\ cache' = [cache EXCEPT ![m] = Without(cache[m], c)]
              /\ session' = Closing(session, old)
           \/ /\ Len(session) < MaxDials
              /\ Moves(l, [at |-> "send", client |-> c, manager |-> m, session |-> Len(session) + 1])
              /\ cache' = [cache EXCEPT ![m] = Trimmed(entries)]
              /\ session' = Append(Closing(session, old \cup Evicted(entries)),
                                   [client |-> c, manager |-> m, open |-> TRUE, reader |-> "read"])
        /\ UNCHANGED <<now, listener, manager, transition, closed>>

\* The datagram is written, or refused because the session is closed.
Send(l) ==
    /\ receiver[l].at = "send"
    /\ Moves(l, Idle)
    /\ UNCHANGED <<now, listener, manager, transition, closed, cache, session>>

\* A janitor that closes the sockets and leaves the entries.
BugExpire(m) ==
    /\ \E e \in Range(cache[m]) :
         /\ e.expires <= now
         /\ session' = Closing(session, {e.session})
    /\ UNCHANGED <<now, listener, manager, transition, closed, cache, receiver>>

\* The cache's own goroutine; it has no end, not even when the manager is closed.
Expire(m) ==
    /\ \E e \in Range(cache[m]) :
         /\ e.expires <= now
         /\ cache' = [cache EXCEPT ![m] = Without(cache[m], e.client)]
         /\ session' = Closing(session, {e.session})
    /\ UNCHANGED <<now, listener, manager, transition, closed, receiver>>

(***************************************************************************)
(* The reader of a session.                                                *)
(***************************************************************************)
Reads(s, from, to) ==
    /\ session[s].reader = from
    /\ session' = [session EXCEPT ![s].reader = to]
    /\ UNCHANGED <<now, listener, manager, transition, closed, cache, receiver>>

\* A reply is read, the session is not cancelled, and size and budgets accept it; one
\* they reject only raises a counter.  A cancelled session is as good as a failed read.
ReadReply(s) == session[s].open /\ Reads(s, "read", "write")

\* Read fails for good: the socket was closed, or the upstream port is not open and
\* the error of an earlier datagram comes back on the connected socket.
ReadFails(s) == Reads(s, "read", "gone")

WriteReply(s) == Reads(s, "write", "read")

(***************************************************************************)
(* udpPlane: Activate and Close replace the manager and then close it.     *)
(***************************************************************************)
Free == transition.doing = "nothing"

\* New sessions, on the old listener or the next one.
Activate ==
    /\ Free /\ manager # 0 /\ manager < MaxManagers
    /\ manager' = manager + 1
    /\ listener' \in {listener, listener + 1} \cap Listeners
    /\ transition' = [doing |-> "close", manager |-> manager]
    /\ UNCHANGED <<now, closed, cache, session, receiver>>

Close ==
    /\ Free /\ manager # 0
    /\ manager' = 0 /\ listener' = 0
    /\ transition' = [doing |-> "close", manager |-> manager]
    /\ UNCHANGED <<now, closed, cache, session, receiver>>

\* A Close that does not purge.
BugCloseSessions ==
    /\ transition.doing = "close" /\ MutexFree(transition.manager)
    /\ closed' = [closed EXCEPT ![transition.manager] = TRUE]
    /\ transition' = [transition EXCEPT !.doing = "wait"]
    /\ UNCHANGED <<now, listener, manager, cache, session, receiver>>

\* udpSessions.Close: closed and Purge under the mutex, then the wait for the readers.
CloseSessions ==
    LET m == transition.manager
    IN  /\ transition.doing = "close" /\ MutexFree(m)
        /\ closed' = [closed EXCEPT ![m] = TRUE]
        /\ cache' = [cache EXCEPT ![m] = <<>>]
        /\ session' = Closing(session, {e.session : e \in Range(cache[m])})
        /\ transition' = [transition EXCEPT !.doing = "wait"]
        /\ UNCHANGED <<now, listener, manager, receiver>>

ReadersGone(m) == \A s \in DOMAIN session : session[s].manager = m => session[s].reader = "gone"

CloseReturns ==
    /\ transition.doing = "wait" /\ ReadersGone(transition.manager)
    /\ transition' = [doing |-> "nothing"]
    /\ UNCHANGED <<now, listener, manager, closed, cache, session, receiver>>

\* A closed plane rests.
Closed ==
    /\ manager = 0 /\ Free /\ \A l \in Listeners : receiver[l] = Idle
    /\ UNCHANGED vars

Forward(l) == LookUp(l) \/ Refresh(l) \/ Dial(l) \/ Send(l)
Reader(s) == ReadReply(s) \/ ReadFails(s) \/ WriteReply(s)

Next ==
    \/ Tick
    \/ \E l \in Listeners : Receive(l) \/ Forward(l)
    \/ \E m \in Managers : Expire(m)
    \/ \E s \in DOMAIN session : Reader(s)
    \/ Activate \/ Close \/ CloseSessions \/ CloseReturns
    \/ Closed

\* The goroutines run on; a read from a closed socket fails.  A manager's mutex is
\* wanted by one receiver and by its Close, which no later Forward overtakes.
Fairness ==
    /\ \A l \in Listeners : WF_vars(Forward(l))
    /\ \A m \in Managers : WF_vars(Expire(m))
    /\ \A s \in 1..MaxDials :
         WF_vars(s \in DOMAIN session /\ ((~session[s].open /\ ReadFails(s)) \/ WriteReply(s)))
    /\ WF_vars(CloseSessions) /\ WF_vars(CloseReturns)

Spec == Init /\ [][Next]_vars /\ Fairness

(***************************************************************************)
(* Properties.                                                             *)
(***************************************************************************)
TypeOK ==
    /\ now \in 0..MaxTime
    /\ listener \in Listeners \cup {0} /\ manager \in Managers \cup {0}
    /\ transition.doing \in {"nothing", "close", "wait"}
    /\ closed \in [Managers -> BOOLEAN]
    /\ \A m \in Managers : Len(cache[m]) <= MaxSessions /\ \A e \in Range(cache[m]) :
         e.client \in Clients /\ e.session \in DOMAIN session /\ e.expires \in 0..MaxTime + TTL
    /\ session \in Seq([client : Clients, manager : Managers, open : BOOLEAN,
                        reader : {"read", "write", "gone"}])
    /\ \A l \in Listeners : receiver[l].at \in {"read", "forward", "refresh", "dial", "send"}

OpenSockets(m) == {s \in DOMAIN session : session[s].manager = m /\ session[s].open}

\* An open socket is the cached one of its client, so that eviction, expiry or Purge
\* will close it: renewing, replacing or re-adding an entry forgets no socket, even
\* when the janitor comes between the lookup and the Add of a Forward.  So
\* udp.max_sessions bounds the sockets of a manager, not only its entries.
NoOrphans ==
    \A m \in Managers :
        /\ Cardinality(OpenSockets(m)) <= MaxSessions
        /\ \A s \in OpenSockets(m) :
             \E e \in Range(cache[m]) : e.session = s /\ e.client = session[s].client

\* "UDP proxy sessions close on every UDP reload" (docs/api-v1.md:104): once Close of
\* a manager has returned it has no socket and no reader, and a Forward that read the
\* manager before the reload does not give it new ones.
QuietAfterClose ==
    \A m \in Managers :
        closed[m] => /\ OpenSockets(m) = {} /\ cache[m] = <<>>
                     /\ (transition.doing = "wait" /\ transition.manager = m) \/ ReadersGone(m)

\* A reload and the shutdown are not held up by readers or by a Forward.
ReloadReturns == transition.doing = "close" ~> Free

\* A socket whose client stays silent for the TTL is closed without another datagram.
Overdue(m) == \E e \in Range(cache[m]) : e.expires < now
IdleSessionsEnd == \A m \in Managers : Overdue(m) ~> ~Overdue(m)

\* A datagram goes out through a socket that works: "each canonical client address gets
\* one connected upstream socket" (docs/configuration.md:133), and replies come back
\* through it.  So a Forward never finds, and renews, a session whose reader has ended.
FoundIsRead ==
    [][\A l \in Listeners :
         receiver[l].at = "forward" /\ receiver'[l].at = "refresh" =>
             session[receiver'[l].session].reader # "gone"]_vars

\* The other half: a session in the cache is open.
CachedIsOpen ==
    \A m \in Managers : \A e \in Range(cache[m]) : session[e.session].open
=============================================================================
