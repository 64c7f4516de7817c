--------------------------- MODULE SessionsProofs ---------------------------
(***************************************************************************)
(* The maps of the authenticator stay bounded without giving up a good     *)
(* session or a recent attempt, and refuse nobody for entries that no      *)
(* longer count, for any number of peers, sessions and reloads and any     *)
(* limits.                                                                 *)
(***************************************************************************)
EXTENDS Sessions, SelectionProofs, FiniteSetTheorems, SequenceTheorems, TLAPS

Tokens == [expires : Nat, over : BOOLEAN]

\* sessions and issued tell the same of a token, but that a session may be gone once
\* it has expired.
SessionsAgree ==
    /\ now \in Nat /\ issued \in Seq(Tokens)
    /\ DOMAIN sessions \subseteq DOMAIN issued
    /\ \A token \in DOMAIN sessions :
          sessions[token] = issued[token].expires /\ ~issued[token].over
    /\ \A token \in DOMAIN issued :
          ~issued[token].over /\ issued[token].expires > now => token \in DOMAIN sessions

\* A map with no more than max keys.
Bounded(f, max) == IsFiniteSet(DOMAIN f) /\ Cardinality(DOMAIN f) <= max

MapsBounded == Bounded(sessions, MaxSessions) /\ Bounded(attempts, MaxAttempts)

-----------------------------------------------------------------------------
\* A map that is not full has room for one more key.
LEMMA PutBounded ==
    ASSUME NEW f, NEW max \in Nat, Bounded(f, max), NEW key, NEW value,
           key \in DOMAIN f \/ ~Full(f, max)
    PROVE  Bounded(Put(f, key, value), max)
<1>1. DOMAIN Put(f, key, value) = DOMAIN f \cup {key}
  BY DEF Put
<1>2. Cardinality(DOMAIN f) \in Nat
  BY FS_CardinalityType DEF Bounded
<1>3. /\ IsFiniteSet(DOMAIN f \cup {key})
      /\ Cardinality(DOMAIN f \cup {key}) =
            IF key \in DOMAIN f THEN Cardinality(DOMAIN f) ELSE Cardinality(DOMAIN f) + 1
  BY FS_AddElement DEF Bounded
<1> QED BY <1>1, <1>2, <1>3 DEF Bounded, Full

LEMMA SmallerBounded ==
    ASSUME NEW f, NEW g, NEW max \in Nat, Bounded(f, max), DOMAIN g \subseteq DOMAIN f
    PROVE  Bounded(g, max)
<1>1. IsFiniteSet(DOMAIN g) /\ Cardinality(DOMAIN g) <= Cardinality(DOMAIN f)
  BY FS_Subset DEF Bounded
<1>2. Cardinality(DOMAIN f) \in Nat /\ Cardinality(DOMAIN g) \in Nat
  BY <1>1, FS_CardinalityType DEF Bounded
<1> QED BY <1>1, <1>2 DEF Bounded

LEMMA EmptyBounded == ASSUME NEW max \in Nat PROVE Bounded(Empty, max)
<1>1. DOMAIN Empty = {}
  BY DEF Empty
<1> QED BY <1>1, FS_EmptySet DEF Bounded

\* Both prunings only drop keys.
LEMMA PruningDrops ==
    /\ DOMAIN RemoveExpired \subseteq DOMAIN sessions
    /\ \A peer : DOMAIN Pruned(peer) \subseteq DOMAIN attempts
BY DEF RemoveExpired, Restrict, Pruned

\* One more attempt is recorded only where there is room for its peer.
LEMMA CompareBounded ==
    ASSUME MapsBounded, NEW peer, Compare(peer)
    PROVE  Bounded(attempts', MaxAttempts)
<1>1. Bounded(Pruned(peer), MaxAttempts)
  BY SmallerBounded, PruningDrops, BoundsAssumption DEF MapsBounded
<1> QED BY <1>1, PutBounded, BoundsAssumption DEF Compare

LEMMA MapsBoundedStep == MapsBounded /\ [Next]_vars => MapsBounded'
<1> SUFFICES ASSUME MapsBounded, [Next]_vars
             PROVE  Bounded(sessions', MaxSessions) /\ Bounded(attempts', MaxAttempts)
  BY DEF MapsBounded, Bounded
<1> USE BoundsAssumption
<1>1. Bounded(RemoveExpired, MaxSessions)
  BY SmallerBounded, PruningDrops DEF MapsBounded
<1>2. ASSUME NEW peer \in Peers, LimitLogin(peer)
      PROVE  Bounded(sessions', MaxSessions) /\ Bounded(attempts', MaxAttempts)
  <2>1. Bounded(Pruned(peer), MaxAttempts)
    BY SmallerBounded, PruningDrops DEF MapsBounded
  <2> QED BY <1>2, <2>1, PutBounded DEF LimitLogin, MapsBounded
<1>3. ASSUME NEW peer \in Peers, RejectLogin(peer) \/ ExhaustSessions(peer) \/ AcceptLogin(peer)
      PROVE  Bounded(sessions', MaxSessions) /\ Bounded(attempts', MaxAttempts)
  <2>1. Bounded(attempts', MaxAttempts)
    BY <1>3, CompareBounded DEF RejectLogin, ExhaustSessions, AcceptLogin
  <2>2. CASE RejectLogin(peer) \/ ExhaustSessions(peer)
    BY <1>1, <2>1, <2>2 DEF RejectLogin, ExhaustSessions, MapsBounded
  <2>3. CASE AcceptLogin(peer)
    BY <1>1, <2>1, <2>3, PutBounded DEF AcceptLogin
  <2> QED BY <1>3, <2>2, <2>3
<1>4. ASSUME NEW token, Refuse(token) \/ Logout(token)
      PROVE  Bounded(sessions', MaxSessions) /\ Bounded(attempts', MaxAttempts)
  <2>1. DOMAIN sessions' \subseteq DOMAIN sessions /\ attempts' = attempts
    BY <1>4 DEF Refuse, Logout, Restrict
  <2> QED BY <2>1, SmallerBounded DEF MapsBounded
<1>5. CASE Reload
  BY <1>5, EmptyBounded DEF Reload
<1>6. CASE Tick \/ (\E peer \in Peers : DisabledLogin(peer)) \/ UNCHANGED vars
  BY <1>6 DEF Tick, DisabledLogin, vars, MapsBounded
<1> QED BY <1>2, <1>3, <1>4, <1>5, <1>6 DEF Next, Login

\* "session and attempt stores are bounded" (docs/api-v1.md:108), whatever the limits.
THEOREM StoresStayBounded == Spec => []StoresBounded
<1>1. Init => MapsBounded
  BY EmptyBounded, BoundsAssumption DEF Init, MapsBounded
<1>2. MapsBounded => StoresBounded
  BY DEF MapsBounded, Bounded, StoresBounded
<1> QED BY <1>1, <1>2, MapsBoundedStep, PTL DEF Spec

-----------------------------------------------------------------------------
(***************************************************************************)
(* What is left of a token.                                                *)
(***************************************************************************)
LEMMA AgreeInit == Init => SessionsAgree
<1> SUFFICES ASSUME Init PROVE SessionsAgree
  OBVIOUS
<1>1. issued = <<>> /\ DOMAIN issued = {} /\ DOMAIN sessions = {}
  BY DEF Init, Empty
<1> QED BY <1>1 DEF Init, SessionsAgree, Tokens

\* Dropping sessions that have expired takes no good one.
LEMMA CleaningAgrees ==
    ASSUME SessionsAgree
    PROVE  /\ DOMAIN RemoveExpired \subseteq DOMAIN sessions
           /\ \A token \in DOMAIN RemoveExpired : RemoveExpired[token] = sessions[token]
           /\ \A token \in DOMAIN sessions : sessions[token] > now => token \in DOMAIN RemoveExpired
BY DEF RemoveExpired, Restrict, SessionsAgree

\* A new token is the next number, and no session of an older one is touched.
LEMMA AcceptAgrees ==
    ASSUME SessionsAgree, NEW peer, AcceptLogin(peer)
    PROVE  SessionsAgree'
<1> DEFINE new == Len(issued) + 1
<1>1. now' = now /\ now \in Nat /\ TTL \in Nat /\ now + TTL \in Nat
  BY BoundsAssumption DEF AcceptLogin, Compare, SessionsAgree
<1>2. /\ issued' \in Seq(Tokens) /\ Len(issued) \in Nat
      /\ DOMAIN issued = 1..Len(issued) /\ DOMAIN issued' = 1..new
      /\ issued'[new] = [expires |-> now + TTL, over |-> FALSE]
      /\ \A token \in DOMAIN issued : issued'[token] = issued[token]
  BY <1>1 DEF AcceptLogin, SessionsAgree, Tokens
<1>3. new \notin DOMAIN issued /\ DOMAIN issued' = DOMAIN issued \cup {new}
  BY <1>2
<1>4. /\ DOMAIN sessions' = DOMAIN RemoveExpired \cup {new}
      /\ sessions'[new] = now + TTL
      /\ \A token \in DOMAIN RemoveExpired : token # new => sessions'[token] = RemoveExpired[token]
  BY DEF AcceptLogin, Put
<1> HIDE DEF new
<1>5. DOMAIN sessions' \subseteq DOMAIN issued'
  BY <1>3, <1>4, CleaningAgrees DEF SessionsAgree
<1>6. ASSUME NEW token \in DOMAIN sessions'
      PROVE  sessions'[token] = issued'[token].expires /\ ~issued'[token].over
  <2>1. CASE token = new
    BY <1>2, <1>4, <2>1
  <2>2. CASE token # new
    BY <1>2, <1>4, <2>2, CleaningAgrees DEF SessionsAgree
  <2> QED BY <2>1, <2>2
<1>7. ASSUME NEW token \in DOMAIN issued', ~issued'[token].over, issued'[token].expires > now
      PROVE  token \in DOMAIN sessions'
  <2>1. CASE token = new
    BY <1>4, <2>1
  <2>2. CASE token # new
    <3>1. token \in DOMAIN issued /\ issued'[token] = issued[token]
      BY <1>2, <1>3, <2>2
    <3>2. token \in DOMAIN sessions /\ sessions[token] > now
      BY <1>7, <3>1 DEF SessionsAgree
    <3> QED BY <1>4, <3>2, CleaningAgrees
  <2> QED BY <2>1, <2>2
<1> QED BY <1>1, <1>2, <1>5, <1>6, <1>7 DEF SessionsAgree

\* What is known of the tokens may change in place.
LEMMA Rewritten ==
    ASSUME SessionsAgree, NEW next, DOMAIN next = DOMAIN issued,
           next = [token \in DOMAIN issued |-> next[token]],
           \A token \in DOMAIN issued : next[token] \in Tokens
    PROVE  next \in Seq(Tokens)
<1>1. DOMAIN issued = 1..Len(issued) /\ Len(issued) \in Nat
  BY DEF SessionsAgree
<1>2. next \in [1..Len(issued) -> Tokens]
  BY <1>1
<1> QED BY <1>1, <1>2, SeqDef

\* A token that is given back, or refused, leaves the others alone.
LEMMA EndAgrees ==
    ASSUME SessionsAgree, NEW token \in DOMAIN issued, Refuse(token) \/ Logout(token)
    PROVE  SessionsAgree'
<1>1. /\ DOMAIN sessions' = DOMAIN sessions \ {token}
      /\ \A other \in DOMAIN sessions' : sessions'[other] = sessions[other]
      /\ now' = now
  BY DEF Refuse, Logout, Restrict
<1>2. CASE Refuse(token)
  <2>1. ~(token \in DOMAIN sessions /\ sessions[token] > now) /\ issued' = issued
    BY <1>2 DEF Refuse, Authenticated
  <2> QED BY <1>1, <2>1 DEF SessionsAgree
<1>3. CASE Logout(token)
  <2>1. issued' = [issued EXCEPT ![token].over = TRUE]
    BY <1>3 DEF Logout
  <2>2. issued[token] \in Tokens /\ \A other \in DOMAIN issued : issued[other] \in Tokens
    BY DEF SessionsAgree
  <2>3. /\ DOMAIN issued' = DOMAIN issued
        /\ issued'[token] = [issued[token] EXCEPT !.over = TRUE]
        /\ issued' = [other \in DOMAIN issued |-> issued'[other]]
        /\ \A other \in DOMAIN issued : other # token => issued'[other] = issued[other]
    BY <2>1
  <2>4. issued'[token] \in Tokens /\ issued'[token].over
    BY <2>2, <2>3 DEF Tokens
  <2>5. issued' \in Seq(Tokens)
    BY <2>2, <2>3, <2>4, Rewritten
  <2> QED BY <1>1, <2>3, <2>4, <2>5 DEF SessionsAgree
<1> QED BY <1>2, <1>3

LEMMA SessionsAgreeStep == SessionsAgree /\ [Next]_vars => SessionsAgree'
<1> SUFFICES ASSUME SessionsAgree, [Next]_vars PROVE SessionsAgree'
  OBVIOUS
<1>1. ASSUME NEW peer \in Peers, ExhaustSessions(peer)
      PROVE  SessionsAgree'
  <2>1. sessions' = RemoveExpired /\ UNCHANGED <<now, issued>>
    BY <1>1 DEF ExhaustSessions, Compare
  <2>2. ASSUME NEW token \in DOMAIN issued, ~issued[token].over, issued[token].expires > now
        PROVE  token \in DOMAIN RemoveExpired
    BY <2>2, CleaningAgrees DEF SessionsAgree
  <2> QED BY <2>1, <2>2, CleaningAgrees DEF SessionsAgree
<1>2. ASSUME NEW peer \in Peers, AcceptLogin(peer)
      PROVE  SessionsAgree'
  BY <1>2, AcceptAgrees
<1>3. ASSUME NEW token \in DOMAIN issued, Refuse(token) \/ Logout(token)
      PROVE  SessionsAgree'
  BY <1>3, EndAgrees
<1>4. CASE Reload
  <2>1. /\ issued' = [token \in DOMAIN issued |-> [issued[token] EXCEPT !.over = TRUE]]
        /\ sessions' = Empty /\ now' = now
    BY <1>4 DEF Reload
  <2>2. /\ DOMAIN issued' = DOMAIN issued
        /\ issued' = [token \in DOMAIN issued |-> issued'[token]]
        /\ \A token \in DOMAIN issued :
              issued[token] \in Tokens /\ issued'[token] = [issued[token] EXCEPT !.over = TRUE]
    BY <2>1 DEF SessionsAgree
  <2>3. \A token \in DOMAIN issued : issued'[token] \in Tokens /\ issued'[token].over
    BY <2>2 DEF Tokens
  <2>4. issued' \in Seq(Tokens)
    BY <2>2, <2>3, Rewritten
  <2>5. DOMAIN sessions' = {}
    BY <2>1 DEF Empty
  <2> QED BY <2>1, <2>2, <2>3, <2>4, <2>5 DEF SessionsAgree
<1>5. CASE Tick
  <2>1. now' = now + 1 /\ UNCHANGED <<sessions, issued>>
    BY <1>5 DEF Tick
  <2>2. \A token \in DOMAIN issued : issued[token] \in Tokens /\ issued[token].expires \in Nat
    <3>1. \A token \in DOMAIN issued : issued[token] \in Tokens
      BY DEF SessionsAgree
    <3> QED BY <3>1 DEF Tokens
  <2> QED BY <2>1, <2>2 DEF SessionsAgree
<1>6. CASE UNCHANGED <<now, sessions, issued>>
  BY <1>6 DEF SessionsAgree
<1>7. ASSUME NEW peer \in Peers, DisabledLogin(peer) \/ LimitLogin(peer) \/ RejectLogin(peer)
      PROVE  UNCHANGED <<now, sessions, issued>>
  BY <1>7 DEF DisabledLogin, LimitLogin, RejectLogin, Compare
<1>8. CASE UNCHANGED vars
  BY <1>6, <1>8 DEF vars
<1> QED BY <1>1, <1>2, <1>3, <1>4, <1>5, <1>6, <1>7, <1>8 DEF Next, Login

\* A token is accepted exactly until it has expired, was logged out or the plane was
\* reloaded (auth.go:63 prunes, auth.go:88 checks): cleaning a full map gives up no
\* good session, for any limits, peers and lifetimes.
THEOREM GoodSessionsStay == Spec => []GoodUntilOver
<1>1. SessionsAgree => GoodUntilOver
  BY DEF SessionsAgree, GoodUntilOver, Authenticated
<1> QED BY <1>1, AgreeInit, SessionsAgreeStep, PTL DEF Spec

-----------------------------------------------------------------------------
(***************************************************************************)
(* What the lists of attempts remember of the credentials looked at.       *)
(***************************************************************************)
Looked == [peer : Peers, at : Nat]

At(f, peer) == IF peer \in DOMAIN f THEN f[peer] ELSE <<>>

\* Each of the looked-at credentials in M has a place of its own in a list.
Covers(list, M, looked) ==
    \E place \in [M -> DOMAIN list] :
        /\ \A i, j \in M : place[i] = place[j] => i = j
        /\ \A i \in M : list[place[i]] = looked[i].at

\* A list holds nothing but attempts of its peer.
Recorded(list, peer, looked) ==
    \A k \in DOMAIN list : \E i \in DOMAIN looked : looked[i] = [peer |-> peer, at |-> list[k]]

InMinute(peer) == {i \in LastMinute : compared[i].peer = peer}

Matches(list, peer, M, looked) ==
    /\ list \in Seq(Nat) /\ Len(list) <= AttemptLimit
    /\ Recorded(list, peer, looked) /\ Covers(list, M, looked)

AttemptsMatch ==
    /\ now \in Nat /\ compared \in Seq(Looked) /\ DOMAIN attempts \subseteq Peers
    /\ \A i \in DOMAIN compared : compared[i].at <= now
    /\ \A peer \in Peers : Matches(At(attempts, peer), peer, InMinute(peer), compared)

Fresh == {at \in 0..now : Recent(at)}

LEMMA NothingMatches == ASSUME NEW peer PROVE Matches(<<>>, peer, {}, <<>>)
<1>1. [i \in {} |-> 0] \in [{} -> DOMAIN <<>>]
  OBVIOUS
<1>2. Covers(<<>>, {}, <<>>)
  BY <1>1 DEF Covers
<1> QED BY <1>2, BoundsAssumption DEF Matches, Recorded

LEMMA KeptCovers ==
    ASSUME NEW s \in Seq(Nat), NEW S, NEW M, NEW looked, Covers(s, M, looked),
           \A i \in M : looked[i].at \in S
    PROVE  Covers(Kept(s, S), M, looked)
<1>1. PICK place \in [M -> DOMAIN s] :
        /\ \A i, j \in M : place[i] = place[j] => i = j
        /\ \A i \in M : s[place[i]] = looked[i].at
  BY DEF Covers
<1>2. \A i \in M : place[i] \in Places(s, S)
  BY <1>1 DEF Places
<1> DEFINE kept == [i \in M |-> Rank(s, S, place[i])]
<1>3. \A i \in M : kept[i] \in DOMAIN Kept(s, S) /\ Kept(s, S)[kept[i]] = looked[i].at
  BY <1>1, <1>2, Keeping
<1>4. \A i, j \in M : kept[i] = kept[j] => i = j
  BY <1>1, <1>2, Keeping
<1>5. kept \in [M -> DOMAIN Kept(s, S)]
  BY <1>3
<1> HIDE DEF kept
<1> QED BY <1>3, <1>4, <1>5 DEF Covers

LEMMA CoversLess ==
    ASSUME NEW s, NEW M, NEW N, N \subseteq M, NEW looked, Covers(s, M, looked)
    PROVE  Covers(s, N, looked)
<1>1. PICK place \in [M -> DOMAIN s] :
        /\ \A i, j \in M : place[i] = place[j] => i = j
        /\ \A i \in M : s[place[i]] = looked[i].at
  BY DEF Covers
<1> DEFINE less == [i \in N |-> place[i]]
<1>2. less \in [N -> DOMAIN s]
  BY <1>1
<1>3. \A i \in N : less[i] = place[i] /\ i \in M
  OBVIOUS
<1> HIDE DEF less
<1> QED BY <1>1, <1>2, <1>3 DEF Covers

\* The filter keeps a list that matches a list that matches, with nothing old in it.
LEMMA RecentMatches ==
    ASSUME AttemptsMatch, NEW peer \in Peers
    PROVE  /\ Matches(RecentAttempts(peer), peer, InMinute(peer), compared)
           /\ \A k \in DOMAIN RecentAttempts(peer) : RecentAttempts(peer)[k] + Minute > now
<1> DEFINE list == At(attempts, peer)
<1>1. list \in Seq(Nat) /\ Len(list) <= AttemptLimit /\ Len(list) \in Nat
  BY DEF AttemptsMatch, Matches
<1>2. RecentAttempts(peer) = Kept(list, Fresh)
  <2>1. CASE peer \in DOMAIN attempts
    BY <2>1 DEF RecentAttempts, Fresh, At
  <2>2. CASE peer \notin DOMAIN attempts
    <3>1. list = <<>> /\ RecentAttempts(peer) = <<>> /\ Len(list) = 0
      BY <2>2 DEF RecentAttempts, At
    <3>2. Kept(list, Fresh) = <<>>
      <4> HIDE DEF list
      <4>1. /\ Kept(list, Fresh) \in Seq(Nat) /\ Len(Kept(list, Fresh)) \in Nat
            /\ Len(Kept(list, Fresh)) <= Len(list)
        BY <1>1, Keeping
      <4>2. Len(Kept(list, Fresh)) = 0
        BY <3>1, <4>1
      <4> QED BY <4>1, <4>2
    <3> QED BY <3>1, <3>2
  <2> QED BY <2>1, <2>2
<1>3. Covers(Kept(list, Fresh), InMinute(peer), compared)
  <2>1. \A i \in InMinute(peer) : compared[i].at \in Fresh
    <3>1. \A i \in DOMAIN compared : compared[i] \in Looked /\ compared[i].at <= now /\ now \in Nat
      BY DEF AttemptsMatch
    <3>2. \A i \in DOMAIN compared : compared[i].at \in 0..now
      BY <3>1 DEF Looked
    <3> QED BY <3>2 DEF InMinute, LastMinute, Fresh, Recent
  <2>2. Covers(list, InMinute(peer), compared)
    BY DEF AttemptsMatch, Matches
  <2> HIDE DEF list
  <2> QED BY <1>1, <2>1, <2>2, KeptCovers
<1>4. Recorded(list, peer, compared)
  BY DEF AttemptsMatch, Matches
<1> HIDE DEF list
<1>5. \A n \in DOMAIN Kept(list, Fresh) : \E k \in DOMAIN list :
        list[k] \in Fresh /\ Kept(list, Fresh)[n] = list[k]
  <2>1. \A n \in DOMAIN Kept(list, Fresh) :
          \E k \in Places(list, Fresh) : Kept(list, Fresh)[n] = list[k]
    BY <1>1, Keeping
  <2> QED BY <2>1 DEF Places
<1>6. Kept(list, Fresh) \in Seq(Nat) /\ Len(Kept(list, Fresh)) <= AttemptLimit
  BY <1>1, Keeping, BoundsAssumption
<1>7. Recorded(Kept(list, Fresh), peer, compared)
  BY <1>4, <1>5 DEF Recorded
<1>8. \A n \in DOMAIN Kept(list, Fresh) : Kept(list, Fresh)[n] + Minute > now
  BY <1>5 DEF Fresh, Recent
<1> QED BY <1>2, <1>3, <1>6, <1>7, <1>8 DEF Matches

\* Both prunings leave a peer its list or what is recent of it.
LEMMA PrunedLists ==
    ASSUME NEW peer, NEW p
    PROVE  At(Pruned(peer), p) \in {At(attempts, p), RecentAttempts(p)}
<1>1. CASE peer \notin DOMAIN attempts /\ Full(attempts, MaxAttempts)
  <2>1. Pruned(peer) = [q \in {q \in DOMAIN attempts : RecentAttempts(q) # <<>>} |-> RecentAttempts(q)]
    BY <1>1 DEF Pruned
  <2>2. p \notin DOMAIN attempts => RecentAttempts(p) = <<>>
    BY DEF RecentAttempts
  <2> HIDE DEF RecentAttempts
  <2> QED BY <2>1, <2>2 DEF At
<1>2. CASE ~(peer \notin DOMAIN attempts /\ Full(attempts, MaxAttempts))
  <2>1. Pruned(peer) = attempts
    BY <1>2 DEF Pruned
  <2> QED BY <2>1
<1> QED BY <1>1, <1>2

LEMMA PutLists ==
    ASSUME NEW f, NEW key, NEW value
    PROVE  /\ At(Put(f, key, value), key) = value
           /\ \A p : p # key => At(Put(f, key, value), p) = At(f, p)
BY DEF At, Put

\* Credentials looked at later change nothing for the peers they are not of.
LEMMA GrownMatches ==
    ASSUME NEW looked \in Seq(Looked), NEW next \in Looked, NEW peer, NEW list,
           NEW M, M \subseteq DOMAIN looked, Matches(list, peer, M, looked)
    PROVE  Matches(list, peer, M, Append(looked, next))
<1>1. \A i \in DOMAIN looked : i \in DOMAIN Append(looked, next) /\ Append(looked, next)[i] = looked[i]
  OBVIOUS
<1>2. Recorded(list, peer, Append(looked, next))
  BY <1>1 DEF Matches, Recorded
<1>3. PICK place \in [M -> DOMAIN list] :
        /\ \A i, j \in M : place[i] = place[j] => i = j
        /\ \A i \in M : list[place[i]] = looked[i].at
  BY DEF Matches, Covers
<1>4. \A i \in M : list[place[i]] = Append(looked, next)[i].at
  BY <1>1, <1>3
<1>5. Covers(list, M, Append(looked, next))
  BY <1>3, <1>4 DEF Covers
<1> QED BY <1>2, <1>5 DEF Matches

\* A recorded attempt covers the credentials that are looked at next.
LEMMA AppendMatches ==
    ASSUME NEW looked \in Seq(Looked), NEW peer \in Peers, NEW at \in Nat, NEW list,
           NEW M, M \subseteq DOMAIN looked, Matches(list, peer, M, looked), Len(list) < AttemptLimit
    PROVE  Matches(Append(list, at), peer, M \cup {Len(looked) + 1},
                   Append(looked, [peer |-> peer, at |-> at]))
<1> DEFINE entry == [peer |-> peer, at |-> at]
<1> DEFINE new == Len(looked) + 1
<1> DEFINE last == Len(list) + 1
<1>1. entry \in Looked /\ entry.at = at
  BY DEF Looked
<1> HIDE DEF entry
<1>2. /\ Append(looked, entry) \in Seq(Looked) /\ new \in DOMAIN Append(looked, entry)
      /\ Append(looked, entry)[new] = entry /\ new \notin M
      /\ \A i \in DOMAIN looked : i \in DOMAIN Append(looked, entry) /\ Append(looked, entry)[i] = looked[i]
  BY <1>1
<1>3. /\ list \in Seq(Nat) /\ Len(list) \in Nat /\ Append(list, at) \in Seq(Nat)
      /\ Len(Append(list, at)) = last /\ last \notin DOMAIN list
      /\ DOMAIN Append(list, at) = DOMAIN list \cup {last} /\ Append(list, at)[last] = at
      /\ \A k \in DOMAIN list : Append(list, at)[k] = list[k]
  BY DEF Matches
<1>4. last <= AttemptLimit
  BY <1>3, BoundsAssumption
<1> HIDE DEF new, last
<1>5. Recorded(Append(list, at), peer, Append(looked, entry))
  <2>1. \A k \in DOMAIN list :
          \E i \in DOMAIN Append(looked, entry) :
             Append(looked, entry)[i] = [peer |-> peer, at |-> Append(list, at)[k]]
    BY <1>2, <1>3 DEF Matches, Recorded
  <2>2. Append(looked, entry)[new] = [peer |-> peer, at |-> Append(list, at)[last]]
    BY <1>2, <1>3 DEF entry
  <2> QED BY <1>2, <1>3, <2>1, <2>2 DEF Recorded
<1>6. PICK place \in [M -> DOMAIN list] :
        /\ \A i, j \in M : place[i] = place[j] => i = j
        /\ \A i \in M : list[place[i]] = looked[i].at
  BY DEF Matches, Covers
<1> DEFINE more == [i \in M \cup {new} |-> IF i = new THEN last ELSE place[i]]
<1>7. more[new] = last /\ \A i \in M : more[i] = place[i] /\ place[i] \in DOMAIN list
  BY <1>2, <1>6
<1>8. more \in [M \cup {new} -> DOMAIN Append(list, at)]
  BY <1>3, <1>6
<1> HIDE DEF more
<1>9. \A i, j \in M \cup {new} : more[i] = more[j] => i = j
  BY <1>3, <1>6, <1>7
<1>10. \A i \in M \cup {new} : Append(list, at)[more[i]] = Append(looked, entry)[i].at
  BY <1>1, <1>2, <1>3, <1>6, <1>7
<1>11. Covers(Append(list, at), M \cup {new}, Append(looked, entry))
  BY <1>8, <1>9, <1>10 DEF Covers
<1> QED BY <1>3, <1>4, <1>5, <1>11 DEF Matches, entry, new

\* What a login does to the list of a peer that it is not of, or that it refuses.
LEMMA PrunedMatches ==
    ASSUME AttemptsMatch, NEW peer, NEW p \in Peers
    PROVE  Matches(At(Pruned(peer), p), p, InMinute(p), compared)
BY PrunedLists, RecentMatches DEF AttemptsMatch

LEMMA PrunedOfPeers ==
    ASSUME AttemptsMatch, NEW peer \in Peers, NEW value
    PROVE  DOMAIN Pruned(peer) \subseteq Peers /\ DOMAIN Put(Pruned(peer), peer, value) \subseteq Peers
BY PruningDrops DEF AttemptsMatch, Put

LEMMA LimitMatches ==
    ASSUME AttemptsMatch, NEW peer \in Peers, LimitLogin(peer)
    PROVE  AttemptsMatch'
<1>1. now' = now /\ compared' = compared
  BY DEF LimitLogin
<1>2. \A p \in Peers : InMinute(p)' = InMinute(p)
  BY <1>1 DEF InMinute, LastMinute
<1>3. \/ attempts' = Pruned(peer)
      \/ attempts' = Put(Pruned(peer), peer, RecentAttempts(peer))
  BY DEF LimitLogin
<1>4. ASSUME NEW p \in Peers
      PROVE  Matches(At(attempts', p), p, InMinute(p), compared)
  BY <1>3, PrunedMatches, PutLists, RecentMatches
<1>5. DOMAIN attempts' \subseteq Peers
  BY <1>3, PrunedOfPeers
<1> QED BY <1>1, <1>2, <1>4, <1>5 DEF AttemptsMatch

LEMMA CompareMatches ==
    ASSUME AttemptsMatch, NEW peer \in Peers, Compare(peer)
    PROVE  AttemptsMatch'
<1> DEFINE entry == [peer |-> peer, at |-> now]
<1> DEFINE new == Len(compared) + 1
<1>1. /\ now' = now /\ compared' = Append(compared, entry)
      /\ attempts' = Put(Pruned(peer), peer, Append(RecentAttempts(peer), now))
      /\ Len(RecentAttempts(peer)) < AttemptLimit
  BY DEF Compare
<1>2. /\ entry \in Looked /\ entry.at = now /\ entry.peer = peer
      /\ now \in Nat /\ compared \in Seq(Looked)
  BY DEF AttemptsMatch, Looked
<1> HIDE DEF entry
<1>3. /\ compared' \in Seq(Looked) /\ DOMAIN compared' = DOMAIN compared \cup {new}
      /\ compared'[new] = entry
      /\ \A i \in DOMAIN compared : compared'[i] = compared[i]
  BY <1>1, <1>2
<1> HIDE DEF new
<1>4. \A i \in DOMAIN compared' : compared'[i].at <= now'
  BY <1>1, <1>2, <1>3 DEF AttemptsMatch
<1>5. \A p \in Peers : InMinute(p) \subseteq DOMAIN compared
  BY DEF InMinute, LastMinute
<1>6. /\ \A p \in Peers : p # peer => InMinute(p)' \subseteq InMinute(p)
      /\ InMinute(peer)' \subseteq InMinute(peer) \cup {new}
  BY <1>1, <1>2, <1>3 DEF InMinute, LastMinute
<1>7. ASSUME NEW p \in Peers, p # peer
      PROVE  Matches(At(attempts', p), p, InMinute(p)', compared')
  <2>1. Matches(At(attempts', p), p, InMinute(p), compared)
    BY <1>1, <1>7, PrunedMatches, PutLists
  <2>2. Matches(At(attempts', p), p, InMinute(p), compared')
    BY <1>1, <1>2, <1>5, <2>1, GrownMatches
  <2> QED BY <1>6, <1>7, <2>2, CoversLess DEF Matches
<1>8. Matches(At(attempts', peer), peer, InMinute(peer)', compared')
  <2>1. At(attempts', peer) = Append(RecentAttempts(peer), now)
    <3> DEFINE value == Append(RecentAttempts(peer), now)
    <3>1. attempts' = Put(Pruned(peer), peer, value)
      BY <1>1
    <3> HIDE DEF value
    <3>2. At(attempts', peer) = value
      BY <3>1, PutLists
    <3> QED BY <3>2 DEF value
  <2>2. Matches(At(attempts', peer), peer, InMinute(peer) \cup {new}, compared')
    BY <1>1, <1>2, <1>5, <2>1, RecentMatches, AppendMatches DEF entry, new
  <2> QED BY <1>6, <2>2, CoversLess DEF Matches
<1>9. DOMAIN attempts' \subseteq Peers
  BY <1>1, PrunedOfPeers
<1> QED BY <1>1, <1>2, <1>3, <1>4, <1>7, <1>8, <1>9 DEF AttemptsMatch

LEMMA AttemptsMatchStep == AttemptsMatch /\ [Next]_vars => AttemptsMatch'
<1> SUFFICES ASSUME AttemptsMatch, [Next]_vars PROVE AttemptsMatch'
  OBVIOUS
<1>1. CASE Tick
  <2>1. now \in Nat /\ now' = now + 1 /\ UNCHANGED <<attempts, compared>>
    BY <1>1 DEF Tick, AttemptsMatch
  <2>2. \A i \in DOMAIN compared : compared[i] \in Looked /\ compared[i].at <= now
    BY DEF AttemptsMatch
  <2>3. \A i \in DOMAIN compared : compared[i].at \in Nat /\ compared[i].at <= now'
    BY <2>1, <2>2 DEF Looked
  <2>4. \A peer \in Peers : InMinute(peer)' \subseteq InMinute(peer)
    BY <2>1, <2>3, BoundsAssumption DEF InMinute, LastMinute
  <2>5. \A peer \in Peers : Matches(At(attempts, peer), peer, InMinute(peer)', compared)
    BY <2>4, CoversLess DEF AttemptsMatch, Matches
  <2> QED BY <2>1, <2>3, <2>5 DEF AttemptsMatch
<1>2. CASE Reload
  <2>1. now' = now /\ DOMAIN attempts' = {} /\ compared' = <<>>
    BY <1>2 DEF Reload, Empty
  <2>2. \A peer \in Peers : At(attempts', peer) = <<>> /\ InMinute(peer)' = {}
    BY <2>1 DEF At, InMinute, LastMinute
  <2>3. \A peer \in Peers : Matches(<<>>, peer, {}, <<>>)
    BY NothingMatches
  <2>4. compared' \in Seq(Looked) /\ \A i \in DOMAIN compared' : compared'[i].at <= now'
    BY <2>1
  <2>5. DOMAIN attempts' \subseteq Peers
    BY <2>1
  <2>6. \A peer \in Peers : Matches(At(attempts', peer), peer, InMinute(peer)', compared')
    BY <2>1, <2>2, <2>3
  <2> QED BY <2>1, <2>4, <2>5, <2>6 DEF AttemptsMatch
<1>3. ASSUME NEW peer \in Peers, LimitLogin(peer)
      PROVE  AttemptsMatch'
  BY <1>3, LimitMatches
<1>4. ASSUME NEW peer \in Peers, Compare(peer)
      PROVE  AttemptsMatch'
  BY <1>4, CompareMatches
<1>5. CASE UNCHANGED <<now, attempts, compared>>
  <2>1. \A peer \in Peers : InMinute(peer)' = InMinute(peer)
    BY <1>5 DEF InMinute, LastMinute
  <2> QED BY <1>5, <2>1 DEF AttemptsMatch
<1>6. ASSUME NEW token, Refuse(token) \/ Logout(token)
      PROVE  UNCHANGED <<now, attempts, compared>>
  BY <1>6 DEF Refuse, Logout
<1>7. ASSUME NEW peer \in Peers, Login(peer)
      PROVE  LimitLogin(peer) \/ Compare(peer) \/ UNCHANGED <<now, attempts, compared>>
  BY <1>7 DEF Login, DisabledLogin, RejectLogin, ExhaustSessions, AcceptLogin
<1>8. UNCHANGED vars => UNCHANGED <<now, attempts, compared>>
  BY DEF vars
<1> QED BY <1>1, <1>2, <1>3, <1>4, <1>5, <1>6, <1>7, <1>8 DEF Next

LEMMA AttemptsMatchInit == Init => AttemptsMatch
<1> SUFFICES ASSUME Init PROVE AttemptsMatch
  OBVIOUS
<1>1. now = 0 /\ DOMAIN attempts = {} /\ compared = <<>>
  BY DEF Init, Empty
<1>2. \A peer \in Peers : At(attempts, peer) = <<>> /\ InMinute(peer) = {}
  BY <1>1 DEF At, InMinute, LastMinute
<1>3. \A peer \in Peers : Matches(At(attempts, peer), peer, InMinute(peer), compared)
  BY <1>1, <1>2, NothingMatches
<1> QED BY <1>1, <1>3 DEF AttemptsMatch

LEMMA CoveredIsFewer ==
    ASSUME NEW list \in Seq(Nat), NEW M, NEW looked, Covers(list, M, looked)
    PROVE  IsFiniteSet(M) /\ Cardinality(M) <= Len(list)
<1>1. PICK place \in [M -> DOMAIN list] : \A i, j \in M : place[i] = place[j] => i = j
  BY DEF Covers
<1>2. place \in Injection(M, DOMAIN list)
  BY <1>1 DEF Injection, IsInjective
<1>3. PICK n \in Nat : n = Len(list) /\ DOMAIN list = 1..n
  OBVIOUS
<1> QED BY <1>2, <1>3, Counting, FS_Injection

\* "Login is rate-limited per peer" (docs/api-v1.md:108): no minute has more looked-at
\* credentials of a peer than the limit, although the lists of the other peers are
\* pruned on the way (auth.go:127) and a refused login rewrites its own (auth.go:55).
THEOREM LoginsAreRateLimited == Spec => []RateLimited
<1>1. AttemptsMatch => RateLimited
  <2> SUFFICES ASSUME AttemptsMatch, NEW peer \in Peers
               PROVE  Cardinality(InMinute(peer)) <= AttemptLimit
    BY DEF RateLimited, InMinute
  <2>1. Matches(At(attempts, peer), peer, InMinute(peer), compared)
    BY DEF AttemptsMatch
  <2>2. Cardinality(InMinute(peer)) \in Nat /\ Cardinality(InMinute(peer)) <= Len(At(attempts, peer))
    BY <2>1, CoveredIsFewer, FS_CardinalityType DEF Matches
  <2>3. Len(At(attempts, peer)) \in Nat /\ Len(At(attempts, peer)) <= AttemptLimit
    BY <2>1 DEF Matches
  <2> QED BY <2>2, <2>3, BoundsAssumption
<1> QED BY <1>1, AttemptsMatchInit, AttemptsMatchStep, PTL DEF Spec

-----------------------------------------------------------------------------
(***************************************************************************)
(* Whom a full map refuses.                                                *)
(***************************************************************************)
\* A session that cleaning leaves is one that counts.
LEMMA CleanedAreGood ==
    ASSUME SessionsAgree, Full(RemoveExpired, MaxSessions)
    PROVE  Cardinality(Unexpired) >= MaxSessions
<1>1. Full(sessions, MaxSessions)
  BY DEF RemoveExpired
<1>2. DOMAIN RemoveExpired \in SUBSET Unexpired
  BY <1>1 DEF RemoveExpired, Restrict, SessionsAgree, Unexpired
<1>3. PICK n \in Nat : DOMAIN issued = 1..n
  BY DEF SessionsAgree
<1>4. IsFiniteSet(Unexpired)
  BY <1>3, Counting, FS_Subset DEF Unexpired
<1>5. IsFiniteSet(DOMAIN RemoveExpired) /\ Cardinality(DOMAIN RemoveExpired) <= Cardinality(Unexpired)
  BY <1>2, <1>4, FS_Subset
<1>6. Cardinality(DOMAIN RemoveExpired) >= MaxSessions
  BY DEF Full
<1> QED BY <1>4, <1>5, <1>6, FS_CardinalityType, BoundsAssumption

\* A peer with a recent attempt on its list has had its credentials looked at.
LEMMA RecentIsLooked ==
    ASSUME AttemptsMatch, NEW peer \in Peers, RecentAttempts(peer) # <<>>
    PROVE  peer \in RecentPeers
<1>1. /\ RecentAttempts(peer) \in Seq(Nat) /\ Recorded(RecentAttempts(peer), peer, compared)
      /\ \A k \in DOMAIN RecentAttempts(peer) : RecentAttempts(peer)[k] + Minute > now
  BY RecentMatches DEF Matches
<1>2. 1 \in DOMAIN RecentAttempts(peer)
  BY <1>1
<1>3. PICK i \in DOMAIN compared : compared[i] = [peer |-> peer, at |-> RecentAttempts(peer)[1]]
  BY <1>1, <1>2 DEF Recorded
<1>4. i \in LastMinute /\ compared[i].peer = peer
  BY <1>1, <1>2, <1>3 DEF LastMinute
<1> QED BY <1>4 DEF RecentPeers

\* The peers that pruning leaves in a full map are recent ones.
LEMMA PrunedAreRecent ==
    ASSUME AttemptsMatch, NEW peer, peer \notin DOMAIN Pruned(peer), Full(Pruned(peer), MaxAttempts)
    PROVE  Cardinality(RecentPeers) >= MaxAttempts
<1>1. peer \notin DOMAIN attempts /\ Full(attempts, MaxAttempts)
  BY DEF Pruned
<1>2. DOMAIN Pruned(peer) = {q \in DOMAIN attempts : RecentAttempts(q) # <<>>}
  BY <1>1 DEF Pruned
<1>3. DOMAIN Pruned(peer) \in SUBSET RecentPeers
  BY <1>2, RecentIsLooked DEF AttemptsMatch
<1>4. PICK n \in Nat : DOMAIN compared = 1..n
  BY DEF AttemptsMatch
<1>5. IsFiniteSet(LastMinute)
  BY <1>4, Counting, FS_Subset DEF LastMinute
<1> DEFINE who == [i \in LastMinute |-> compared[i].peer]
<1>6. who \in Surjection(LastMinute, RecentPeers)
  BY DEF Surjection, RecentPeers
<1> HIDE DEF who
<1>7. IsFiniteSet(RecentPeers)
  BY <1>5, <1>6, FS_Surjection
<1>8. IsFiniteSet(DOMAIN Pruned(peer)) /\ Cardinality(DOMAIN Pruned(peer)) <= Cardinality(RecentPeers)
  BY <1>3, <1>7, FS_Subset
<1>9. Cardinality(DOMAIN Pruned(peer)) >= MaxAttempts
  BY DEF Full
<1> QED BY <1>7, <1>8, <1>9, FS_CardinalityType, BoundsAssumption

RoomTaken ==
    /\ answer'.code = "session_capacity_exhausted" => Cardinality(Unexpired) >= MaxSessions
    /\ answer'.code = "login_rate_limited" /\ answer'.peer \notin RecentPeers =>
           AttemptLimit = 0 \/ Cardinality(RecentPeers) >= MaxAttempts

LEMMA RoomTakenStep ==
    ASSUME AttemptsMatch, SessionsAgree, Next
    PROVE  RoomTaken
<1>1. ASSUME NEW peer \in Peers, LimitLogin(peer)
      PROVE  RoomTaken
  <2>1. answer' = [peer |-> peer, code |-> "login_rate_limited"]
    BY <1>1 DEF LimitLogin, Says
  <2>2. CASE peer \notin DOMAIN Pruned(peer) /\ Full(Pruned(peer), MaxAttempts)
    BY <2>1, <2>2, PrunedAreRecent DEF RoomTaken
  <2>3. CASE Len(RecentAttempts(peer)) >= AttemptLimit
    <3>1. RecentAttempts(peer) = <<>> => AttemptLimit = 0
      BY <2>3, BoundsAssumption
    <3> QED BY <2>1, <3>1, RecentIsLooked DEF RoomTaken
  <2> QED BY <1>1, <2>2, <2>3 DEF LimitLogin
<1>2. ASSUME NEW peer \in Peers, ExhaustSessions(peer)
      PROVE  RoomTaken
  <2>1. answer' = [peer |-> peer, code |-> "session_capacity_exhausted"]
    BY <1>2 DEF ExhaustSessions, Says
  <2> QED BY <1>2, <2>1, CleanedAreGood DEF ExhaustSessions, RoomTaken
<1>3. ASSUME NEW peer \in Peers, DisabledLogin(peer) \/ RejectLogin(peer) \/ AcceptLogin(peer)
      PROVE  RoomTaken
  BY <1>3 DEF DisabledLogin, RejectLogin, AcceptLogin, Says, RoomTaken
<1>4. ASSUME NEW token, Refuse(token) \/ Logout(token)
      PROVE  RoomTaken
  BY <1>4 DEF Refuse, Logout, Quiet, RoomTaken
<1>5. CASE Tick \/ Reload
  BY <1>5 DEF Tick, Reload, Quiet, RoomTaken
<1> QED BY <1>1, <1>2, <1>3, <1>4, <1>5 DEF Next, Login

\* A login is refused for want of room only when sessions or peers that count take it:
\* auth.go:63 cleans the sessions, and auth.go:47 the attempts, before they refuse.
THEOREM OnlyGoodEntriesRefuse == Spec => RefusedForRoom
<1>1. AttemptsMatch /\ SessionsAgree /\ [Next]_vars => [RoomTaken]_vars
  BY RoomTakenStep
<1>2. Spec => [](AttemptsMatch /\ SessionsAgree)
  BY AttemptsMatchInit, AttemptsMatchStep, AgreeInit, SessionsAgreeStep, PTL DEF Spec
<1> QED BY <1>1, <1>2, PTL DEF Spec, RefusedForRoom, RoomTaken
=============================================================================
