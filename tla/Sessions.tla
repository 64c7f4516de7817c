------------------------------ MODULE Sessions ------------------------------
(***************************************************************************)
(* Login and sessions of the management plane (internal/httpapi/auth.go):  *)
(* two bounded maps, sessions by token and login attempts by peer, that    *)
(* are only cleaned on the way, and their replacement by a management      *)
(* reload.  Every operation is one section of the authenticator's mutex.   *)
(*                                                                         *)
(* Tokens are numbered as they are issued: 32 random bytes are never equal.*)
(* issued and compared are history variables: what the current             *)
(* authenticator has handed out, and the credentials it has looked at.     *)
(***************************************************************************)
EXTENDS Naturals, FiniteSets, SequencesExt, Functions, Selection

CONSTANTS
    Peers,        \* client addresses without the port
    MaxSessions,  \* 1024
    MaxAttempts,  \* 1024
    AttemptLimit, \* 5
    Minute,       \* in ticks
    TTL,          \* authentication.session_ttl, in ticks
    MaxTime,      \* bound: ticks
    MaxTokens,    \* bound: sessions that are ever created
    MaxReloads    \* bound: management reloads

ASSUME BoundsAssumption ==
    /\ MaxSessions \in Nat /\ MaxAttempts \in Nat /\ AttemptLimit \in Nat
    /\ Minute \in Nat \ {0} /\ TTL \in Nat

VARIABLES
    now,
    required,  \* a username is configured
    sessions,  \* token -> expiry
    attempts,  \* peer -> the times of its attempts, oldest first
    issued,    \* the tokens: [expires, over], over after a logout or a reload
    compared,  \* the looked-at credentials: [peer, at]
    reloads,
    answer     \* what the last login said: [peer, code]

vars == <<now, required, sessions, attempts, issued, compared, reloads, answer>>

Empty == [key \in {} |-> 0]
Quiet == [code |-> "none"]

Init ==
    /\ now = 0 /\ required \in BOOLEAN
    /\ sessions = Empty /\ attempts = Empty
    /\ issued = <<>> /\ compared = <<>> /\ reloads = 0
    /\ answer = Quiet

Tick ==
    /\ now < MaxTime /\ now' = now + 1
    /\ answer' = Quiet
    /\ UNCHANGED <<required, sessions, attempts, issued, compared, reloads>>

(***************************************************************************)
(* login.                                                                  *)
(***************************************************************************)
\* value.After(now - minute)
BugRecent(at) == at + Minute > now + 1
Recent(at) == at + Minute > now
RecentAttempts(peer) ==
    IF peer \in DOMAIN attempts THEN Kept(attempts[peer], {at \in 0..now : Recent(at)}) ELSE <<>>

Put(f, key, value) == [k \in DOMAIN f \cup {key} |-> IF k = key THEN value ELSE f[k]]

BugFull(f, max) == Cardinality(DOMAIN f) > max
Full(f, max) == Cardinality(DOMAIN f) >= max
BugPruned(peer) ==  \* pruning that keeps peers without a recent attempt
    [p \in DOMAIN attempts |-> RecentAttempts(p)]
\* The attempts after a full map was pruned for a peer that is not in it.
Pruned(peer) ==
    IF peer \notin DOMAIN attempts /\ Full(attempts, MaxAttempts)
    THEN [p \in {q \in DOMAIN attempts : RecentAttempts(q) # <<>>} |-> RecentAttempts(p)]
    ELSE attempts

BugRemoveExpired ==  \* makes room at the cost of good sessions
    IF Full(sessions, MaxSessions) THEN Empty ELSE sessions

\* Unexpired sessions, once the map is full.
RemoveExpired ==
    IF Full(sessions, MaxSessions)
    THEN Restrict(sessions, {token \in DOMAIN sessions : sessions[token] > now})
    ELSE sessions

Says(peer, code) == answer' = [peer |-> peer, code |-> code]

\* authentication_disabled: nothing is recorded.
DisabledLogin(peer) ==
    /\ ~required
    /\ Says(peer, "authentication_disabled")
    /\ UNCHANGED <<now, required, sessions, attempts, issued, compared, reloads>>

\* No place for the peer in the map, or too many attempts in the last minute.
LimitLogin(peer) ==
    /\ required
    /\ \/ /\ peer \notin DOMAIN Pruned(peer) /\ Full(Pruned(peer), MaxAttempts)
          /\ attempts' = Pruned(peer)
       \/ /\ peer \in DOMAIN Pruned(peer) \/ ~Full(Pruned(peer), MaxAttempts)
          /\ Len(RecentAttempts(peer)) >= AttemptLimit
          /\ attempts' = Put(Pruned(peer), peer, RecentAttempts(peer))
    /\ Says(peer, "login_rate_limited")
    /\ UNCHANGED <<now, required, sessions, issued, compared, reloads>>

\* The attempt is recorded before the credentials are compared, right or wrong.
Compare(peer) ==
    /\ required
    /\ peer \in DOMAIN Pruned(peer) \/ ~Full(Pruned(peer), MaxAttempts)
    /\ Len(RecentAttempts(peer)) < AttemptLimit
    /\ attempts' = Put(Pruned(peer), peer, Append(RecentAttempts(peer), now))
    /\ compared' = Append(compared, [peer |-> peer, at |-> now])
    /\ UNCHANGED <<now, required, reloads>>

RejectLogin(peer) ==
    /\ Compare(peer)
    /\ Says(peer, "invalid_credentials")
    /\ UNCHANGED <<sessions, issued>>

ExhaustSessions(peer) ==
    /\ Compare(peer) /\ Full(RemoveExpired, MaxSessions)
    /\ sessions' = RemoveExpired
    /\ Says(peer, "session_capacity_exhausted")
    /\ UNCHANGED issued

AcceptLogin(peer) ==
    /\ Compare(peer) /\ ~Full(RemoveExpired, MaxSessions)
    /\ Len(issued) < MaxTokens
    /\ sessions' = Put(RemoveExpired, Len(issued) + 1, now + TTL)
    /\ issued' = Append(issued, [expires |-> now + TTL, over |-> FALSE])
    /\ Says(peer, "authenticated")

Login(peer) ==
    \/ DisabledLogin(peer) \/ LimitLogin(peer) \/ RejectLogin(peer)
    \/ ExhaustSessions(peer) \/ AcceptLogin(peer)

(***************************************************************************)
(* The operations of a client that has a token.                            *)
(***************************************************************************)
\* The check in front of every protected handler.
Authenticated(token) == ~required \/ (token \in DOMAIN sessions /\ sessions[token] > now)

\* valid: a request that is refused deletes its token.
Refuse(token) ==
    /\ required /\ ~Authenticated(token)
    /\ sessions' = Restrict(sessions, DOMAIN sessions \ {token})
    /\ answer' = Quiet
    /\ UNCHANGED <<now, required, attempts, issued, compared, reloads>>

Logout(token) ==
    /\ sessions' = Restrict(sessions, DOMAIN sessions \ {token})
    /\ issued' = [issued EXCEPT ![token].over = TRUE]
    /\ answer' = Quiet
    /\ UNCHANGED <<now, required, attempts, compared, reloads>>

(***************************************************************************)
(* A management reload makes a new handler with a new authenticator.       *)
(***************************************************************************)
Reload ==
    /\ reloads < MaxReloads /\ reloads' = reloads + 1
    /\ required' \in BOOLEAN
    /\ sessions' = Empty /\ attempts' = Empty /\ compared' = <<>>
    /\ issued' = [token \in DOMAIN issued |-> [issued[token] EXCEPT !.over = TRUE]]
    /\ answer' = Quiet
    /\ UNCHANGED now

Next ==
    \/ Tick
    \/ \E peer \in Peers : Login(peer)
    \/ \E token \in DOMAIN issued : Refuse(token) \/ Logout(token)
    \/ Reload

Spec == Init /\ [][Next]_vars

(***************************************************************************)
(* Properties.                                                             *)
(***************************************************************************)
TypeOK ==
    /\ now \in 0..MaxTime /\ required \in BOOLEAN
    /\ issued \in Seq([expires : Nat, over : BOOLEAN])
    /\ DOMAIN sessions \subseteq DOMAIN issued
    /\ \A token \in DOMAIN sessions : sessions[token] = issued[token].expires
    /\ DOMAIN attempts \subseteq Peers
    /\ \A peer \in DOMAIN attempts : attempts[peer] \in Seq(0..now)

\* "session and attempt stores are bounded" (docs/api-v1.md:108): entries are only
\* dropped when a map is full and a new one comes, and that is enough.
StoresBounded ==
    /\ Cardinality(DOMAIN sessions) <= MaxSessions
    /\ Cardinality(DOMAIN attempts) <= MaxAttempts

LastMinute == {i \in DOMAIN compared : compared[i].at + Minute > now}

\* "Login is rate-limited per peer" (docs/api-v1.md:108): no minute has more than five
\* looked-at credentials of a peer; pruning for another peer, and the rewriting of the
\* list by a refused login, forget no recent attempt.
RateLimited ==
    \A peer \in Peers :
        Cardinality({i \in LastMinute : compared[i].peer = peer}) <= AttemptLimit

\* A token is accepted exactly until it expires, is logged out or the plane is
\* reloaded: neither is a used-up one brought back nor a good one given up when the
\* map is full and is cleaned.
GoodUntilOver ==
    required => \A token \in DOMAIN issued :
        Authenticated(token) <=> ~issued[token].over /\ issued[token].expires > now

Unexpired == {token \in DOMAIN issued : ~issued[token].over /\ issued[token].expires > now}
RecentPeers == {compared[i].peer : i \in LastMinute}

\* A login is refused for want of room only when the room is taken by sessions and
\* peers that count: entries that are no longer good keep nobody out.
RefusedForRoom ==
    [][/\ answer'.code = "session_capacity_exhausted" => Cardinality(Unexpired) >= MaxSessions
       /\ answer'.code = "login_rate_limited" /\ answer'.peer \notin RecentPeers =>
              AttemptLimit = 0 \/ Cardinality(RecentPeers) >= MaxAttempts]_vars
=============================================================================
