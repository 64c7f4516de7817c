-------------------------- MODULE UDPSessionsProofs --------------------------
(***************************************************************************)
(* The UDP proxy forgets no socket and a closed manager stays quiet, for   *)
(* any number of clients, listeners, managers and sockets and any limits.  *)
(*                                                                         *)
(* A Forward looks an entry up and adds it again in two sections of the    *)
(* cache's lock.  What it adds is right because nobody but the janitor     *)
(* comes between, who only removes: while a Forward is about to renew a    *)
(* session, no entry of its client has another one.                        *)
(***************************************************************************)
EXTENDS UDPSessions, SelectionProofs, FiniteSetTheorems, TLAPS

Entry == [client : Clients, session : Nat, expires : Nat]
Socket == [client : Clients, manager : Managers, open : BOOLEAN, reader : {"read", "write", "gone"}]
Receiving ==
    [at : {"read"}]
    \cup [at : {"forward", "dial"}, client : Clients, manager : Managers]
    \cup [at : {"refresh", "send"}, client : Clients, manager : Managers, session : Nat]

Transition == [doing : {"nothing"}] \cup [doing : {"close", "wait"}, manager : Managers]

Types ==
    /\ now \in Nat /\ manager \in Managers \cup {0}
    /\ transition \in Transition
    /\ closed \in [Managers -> BOOLEAN]
    /\ cache \in [Managers -> Seq(Entry)]
    /\ session \in Seq(Socket)
    /\ receiver \in [Listeners -> Receiving]

\* The entries of a client share one session.
Single(entries) ==
    \A e, f \in Range(entries) : e.client = f.client => e.session = f.session

\* The open sockets of a manager are in its cache.
Accounted(m, entries, all) ==
    \A s \in DOMAIN all : all[s].manager = m /\ all[s].open =>
        \E e \in Range(entries) : e.session = s /\ e.client = all[s].client

WellKept(m) ==
    /\ Len(cache[m]) <= MaxSessions
    /\ Single(cache[m])
    /\ Accounted(m, cache[m], session)

\* In the manager's mutex.
Holds(l, m) == receiver[l].at \in {"refresh", "dial", "send"} /\ receiver[l].manager = m

OneForward == \A k, l \in Listeners : \A m \in Managers : Holds(k, m) /\ Holds(l, m) => k = l

RenewsItsOwn ==
    \A l \in Listeners : receiver[l].at = "refresh" =>
        \A e \in Range(cache[receiver[l].manager]) :
            e.client = receiver[l].client => e.session = receiver[l].session

Quiet(m) ==
    closed[m] =>
        /\ cache[m] = <<>>
        /\ \A l \in Listeners : ~Holds(l, m)
        /\ (transition.doing = "wait" /\ transition.manager = m) \/ ReadersGone(m)

UInv ==
    /\ Types /\ OneForward /\ RenewsItsOwn
    /\ \A m \in Managers : WellKept(m) /\ Quiet(m)

-----------------------------------------------------------------------------
(***************************************************************************)
(* The operations of the cache.                                            *)
(***************************************************************************)
LEMMA RangeIs == \A s : Range(s) = {s[k] : k \in DOMAIN s}
BY DEF Range

\* What Kept leaves of entries, as a set.
LEMMA KeptRange ==
    ASSUME NEW entries \in Seq(Entry), NEW S, S \subseteq Range(entries)
    PROVE  Kept(entries, S) \in Seq(Entry) /\ Range(Kept(entries, S)) = S
<1>1. /\ Kept(entries, S) \in Seq(Entry)
      /\ \A k \in Places(entries, S) :
            Rank(entries, S, k) \in DOMAIN Kept(entries, S)
            /\ Kept(entries, S)[Rank(entries, S, k)] = entries[k]
      /\ \A n \in DOMAIN Kept(entries, S) : \E k \in Places(entries, S) : Kept(entries, S)[n] = entries[k]
  BY Keeping
<1>2. \A e \in S : \E k \in Places(entries, S) : entries[k] = e
  BY RangeIs DEF Places
<1>3. \A k \in Places(entries, S) : entries[k] \in S
  BY DEF Places
<1>4. S \subseteq Range(Kept(entries, S))
  BY <1>1, <1>2, RangeIs
<1>5. Range(Kept(entries, S)) \subseteq S
  BY <1>1, <1>3, RangeIs
<1> QED BY <1>1, <1>4, <1>5

LEMMA OfAndWithout ==
    ASSUME NEW entries \in Seq(Entry), NEW c
    PROVE  /\ Of(entries, c) \in Seq(Entry) /\ Without(entries, c) \in Seq(Entry)
           /\ Range(Of(entries, c)) = {e \in Range(entries) : e.client = c}
           /\ Range(Without(entries, c)) = {e \in Range(entries) : e.client # c}
           /\ Len(Of(entries, c)) + Len(Without(entries, c)) = Len(entries)
           /\ Len(Of(entries, c)) \in Nat /\ Len(Without(entries, c)) \in Nat
<1> DEFINE A == {e \in Range(entries) : e.client = c}
<1> DEFINE B == {e \in Range(entries) : e.client # c}
<1>1. Of(entries, c) = Kept(entries, A) /\ Without(entries, c) = Kept(entries, B)
  BY DEF Of, Without
<1>2. A \subseteq Range(entries) /\ B \subseteq Range(entries) /\ \A x \in Range(entries) : x \in A <=> x \notin B
  OBVIOUS
<1>3. entries \in Seq(Range(entries))
  BY RangeIs
<1> HIDE DEF A, B
<1>4. Kept(entries, A) \in Seq(Entry) /\ Range(Kept(entries, A)) = A
  BY <1>2, KeptRange
<1>5. Kept(entries, B) \in Seq(Entry) /\ Range(Kept(entries, B)) = B
  BY <1>2, KeptRange
<1>6. Len(Kept(entries, A)) + Len(Kept(entries, B)) = Len(entries)
  BY <1>2, <1>3, Parting
<1>7. Len(Kept(entries, A)) \in Nat /\ Len(Kept(entries, B)) \in Nat
  BY <1>4, <1>5
<1> QED BY <1>1, <1>4, <1>5, <1>6, <1>7 DEF A, B

LEMMA AppendRange ==
    ASSUME NEW entries \in Seq(Entry), NEW new \in Entry
    PROVE  Append(entries, new) \in Seq(Entry) /\ Range(Append(entries, new)) = Range(entries) \cup {new}
<1>1. /\ DOMAIN Append(entries, new) = DOMAIN entries \cup {Len(entries) + 1}
      /\ Append(entries, new)[Len(entries) + 1] = new
      /\ \A k \in DOMAIN entries : Append(entries, new)[k] = entries[k]
      /\ Append(entries, new) \in Seq(Entry)
  OBVIOUS
<1> DEFINE longer == Append(entries, new)
<1> HIDE DEF longer
<1>2. Range(longer) = Range(entries) \cup {new}
  <2>1. \A k \in DOMAIN entries : longer[k] \in Range(entries)
    BY <1>1, RangeIs DEF longer
  <2>2. \A k \in DOMAIN longer : longer[k] \in Range(entries) \cup {new}
    BY <1>1, <2>1 DEF longer
  <2>3. \A e \in Range(entries) : e \in Range(longer)
    BY <1>1, RangeIs DEF longer
  <2>4. new \in Range(longer)
    BY <1>1, RangeIs DEF longer
  <2> QED BY <2>2, <2>3, <2>4, RangeIs
<1> QED BY <1>1, <1>2 DEF longer

\* What an Add of a client leaves before it evicts.
LEMMA AddedIs ==
    ASSUME Types, NEW entries \in Seq(Entry), NEW c \in Clients, NEW s \in Nat
    PROVE  /\ Added(entries, c, s) \in Seq(Entry)
           /\ Len(Added(entries, c, s)) <= Len(entries) + 1
           /\ Len(Added(entries, c, s)) \in Nat \ {0}
           /\ \E new \in Entry :
                 /\ new.client = c /\ new.session = s
                 /\ Added(entries, c, s)[Len(Added(entries, c, s))] = new
                 /\ Range(Added(entries, c, s)) = {e \in Range(entries) : e.client # c} \cup {new}
<1> DEFINE new == [client |-> c, session |-> s, expires |-> now + TTL]
<1> DEFINE rest == Without(entries, c)
<1>1. new \in Entry /\ new.client = c /\ new.session = s
  BY TTLAssumption DEF Types, Entry
<1>2. Added(entries, c, s) = Append(rest, new)
  BY DEF Added
<1>3. /\ rest \in Seq(Entry) /\ Range(rest) = {e \in Range(entries) : e.client # c}
      /\ Len(rest) \in Nat /\ Len(rest) <= Len(entries)
  BY OfAndWithout
<1> HIDE DEF new, rest
<1>4. Len(Append(rest, new)) = Len(rest) + 1 /\ Append(rest, new)[Len(rest) + 1] = new
  BY <1>1, <1>3
<1>5. Append(rest, new) \in Seq(Entry) /\ Range(Append(rest, new)) = Range(rest) \cup {new}
  BY <1>1, <1>3, AppendRange
<1> QED BY <1>1, <1>2, <1>3, <1>4, <1>5

\* An eviction closes what it drops, and never drops what was added last.
LEMMA TrimmedIs ==
    ASSUME NEW entries \in Seq(Entry), Len(entries) \in Nat \ {0}, Len(entries) <= MaxSessions + 1
    PROVE  /\ Trimmed(entries) \in Seq(Entry) /\ Len(Trimmed(entries)) <= MaxSessions
           /\ Range(Trimmed(entries)) \subseteq Range(entries)
           /\ entries[Len(entries)] \in Range(Trimmed(entries))
           /\ \A e \in Range(entries) : e \in Range(Trimmed(entries)) \/ e.session \in Evicted(entries)
<1>1. CASE Len(entries) > MaxSessions
  <2>1. Trimmed(entries) = Tail(entries) /\ Evicted(entries) = {Head(entries).session}
    BY <1>1 DEF Trimmed, Evicted
  <2>2. /\ Tail(entries) \in Seq(Entry) /\ Len(Tail(entries)) = Len(entries) - 1
        /\ \A k \in DOMAIN Tail(entries) : k + 1 \in DOMAIN entries /\ Tail(entries)[k] = entries[k + 1]
        /\ \A k \in DOMAIN entries : k # 1 => k - 1 \in DOMAIN Tail(entries) /\ Tail(entries)[k - 1] = entries[k]
        /\ Head(entries) = entries[1]
    OBVIOUS
  <2>3. Len(entries) > 1 /\ Len(entries) \in DOMAIN entries
    BY <1>1, MaxSessionsAssumption
  <2>4. Len(Tail(entries)) <= MaxSessions
    BY <2>2, MaxSessionsAssumption
  <2>5. Range(Tail(entries)) \subseteq Range(entries)
    BY <2>2, RangeIs
  <2>6. \A k \in DOMAIN entries : k # 1 => entries[k] \in Range(Tail(entries))
    <3> DEFINE rest == Tail(entries)
    <3>1. \A k \in DOMAIN entries : k # 1 => k - 1 \in DOMAIN rest /\ rest[k - 1] = entries[k]
      BY <2>2
    <3>2. Range(rest) = {rest[k] : k \in DOMAIN rest}
      BY RangeIs
    <3> HIDE DEF rest
    <3>3. \A k \in DOMAIN rest : rest[k] \in Range(rest)
      BY <3>2
    <3>4. \A k \in DOMAIN entries : k # 1 => entries[k] \in Range(rest)
      BY <3>1, <3>3
    <3> QED BY <3>4 DEF rest
  <2>7. entries[Len(entries)] \in Range(Tail(entries))
    BY <2>3, <2>6
  <2>8. \A e \in Range(entries) : e \in Range(Tail(entries)) \/ e = Head(entries)
    BY <2>2, <2>6, RangeIs
  <2> QED BY <2>1, <2>2, <2>4, <2>5, <2>7, <2>8
<1>2. CASE ~(Len(entries) > MaxSessions)
  <2>1. Trimmed(entries) = entries
    BY <1>2 DEF Trimmed
  <2>2. entries[Len(entries)] \in Range(entries)
    BY RangeIs
  <2> QED BY <1>2, <2>1, <2>2, MaxSessionsAssumption
<1> QED BY <1>1, <1>2

\* Sockets redrawn in place.
LEMMA Redrawn ==
    ASSUME NEW all \in Seq(Socket), NEW next, next = [s \in DOMAIN all |-> next[s]],
           \A s \in DOMAIN all : next[s] \in Socket
    PROVE  next \in Seq(Socket) /\ Len(next) = Len(all) /\ DOMAIN next = DOMAIN all
<1>1. PICK n \in Nat : n = Len(all) /\ DOMAIN all = 1..n
  OBVIOUS
<1>2. next \in [1..n -> Socket]
  BY <1>1
<1> QED BY <1>1, <1>2

LEMMA ClosingIs ==
    ASSUME NEW all \in Seq(Socket), NEW victims
    PROVE  /\ Closing(all, victims) \in Seq(Socket)
           /\ Len(Closing(all, victims)) = Len(all) /\ DOMAIN Closing(all, victims) = DOMAIN all
           /\ \A s \in DOMAIN all :
                /\ Closing(all, victims)[s].client = all[s].client
                /\ Closing(all, victims)[s].manager = all[s].manager
                /\ Closing(all, victims)[s].reader = all[s].reader
                /\ Closing(all, victims)[s].open <=> all[s].open /\ s \notin victims
<1> DEFINE next == Closing(all, victims)
<1>1. \A s \in DOMAIN all : all[s] \in Socket
  OBVIOUS
<1>2. /\ next = [s \in DOMAIN all |-> next[s]]
      /\ \A s \in DOMAIN all :
            next[s] = IF s \in victims THEN [all[s] EXCEPT !.open = FALSE] ELSE all[s]
  BY DEF Closing
<1> HIDE DEF next
<1>3. \A s \in DOMAIN all :
        /\ next[s] \in Socket
        /\ next[s].client = all[s].client /\ next[s].manager = all[s].manager
        /\ next[s].reader = all[s].reader
        /\ next[s].open <=> all[s].open /\ s \notin victims
  BY <1>1, <1>2 DEF Socket
<1>4. next \in Seq(Socket) /\ Len(next) = Len(all) /\ DOMAIN next = DOMAIN all
  BY <1>2, <1>3, Redrawn
<1> QED BY <1>3, <1>4 DEF next

\* An Add of a client renews or replaces its entries, and keeps the others or closes them.
LEMMA AddKeeps ==
    ASSUME Types, NEW entries \in Seq(Entry), Len(entries) <= MaxSessions, Single(entries),
           NEW c \in Clients, NEW s \in Nat
    PROVE  /\ Trimmed(Added(entries, c, s)) \in Seq(Entry)
           /\ Len(Trimmed(Added(entries, c, s))) <= MaxSessions
           /\ Single(Trimmed(Added(entries, c, s)))
           /\ \A e \in Range(Trimmed(Added(entries, c, s))) : e.client = c => e.session = s
           /\ \E e \in Range(Trimmed(Added(entries, c, s))) : e.client = c /\ e.session = s
           /\ \A e \in Range(entries) :
                 e.client # c => \/ e \in Range(Trimmed(Added(entries, c, s)))
                                 \/ e.session \in Evicted(Added(entries, c, s))
<1> DEFINE added == Added(entries, c, s)
<1>1. PICK new \in Entry :
        /\ new.client = c /\ new.session = s /\ added[Len(added)] = new
        /\ Range(added) = {e \in Range(entries) : e.client # c} \cup {new}
  BY AddedIs
<1>2. /\ added \in Seq(Entry) /\ Len(added) \in Nat \ {0} /\ Len(added) <= Len(entries) + 1
      /\ Len(entries) \in Nat
  BY AddedIs
<1> HIDE DEF added
<1>3. Len(added) <= MaxSessions + 1
  BY <1>2, MaxSessionsAssumption
<1>4. /\ Trimmed(added) \in Seq(Entry) /\ Len(Trimmed(added)) <= MaxSessions
      /\ Range(Trimmed(added)) \subseteq Range(added)
      /\ new \in Range(Trimmed(added))
      /\ \A e \in Range(added) : e \in Range(Trimmed(added)) \/ e.session \in Evicted(added)
  BY <1>1, <1>2, <1>3, TrimmedIs
<1>5. \A e \in Range(Trimmed(added)) : e.client = c => e = new
  BY <1>1, <1>4
<1>6. Single(Trimmed(added))
  BY <1>1, <1>4, <1>5 DEF Single
<1> QED BY <1>1, <1>4, <1>5, <1>6 DEF added

LEMMA ConcatRange ==
    ASSUME NEW s \in Seq(Entry), NEW t \in Seq(Entry)
    PROVE  /\ s \o t \in Seq(Entry) /\ Len(s \o t) = Len(s) + Len(t)
           /\ Range(s \o t) = Range(s) \cup Range(t)
<1> DEFINE both == s \o t
<1>1. /\ both \in Seq(Entry) /\ Len(both) = Len(s) + Len(t)
      /\ \A k \in DOMAIN s : k \in DOMAIN both /\ both[k] = s[k]
      /\ \A k \in DOMAIN t : Len(s) + k \in DOMAIN both /\ both[Len(s) + k] = t[k]
      /\ \A k \in DOMAIN both : k \in DOMAIN s \/ (k - Len(s) \in DOMAIN t /\ both[k] = t[k - Len(s)])
  OBVIOUS
<1> HIDE DEF both
<1>2. \A k \in DOMAIN s : s[k] \in Range(s) /\ s[k] \in Range(both)
  BY <1>1, RangeIs
<1>3. \A k \in DOMAIN t : t[k] \in Range(t) /\ t[k] \in Range(both)
  <2>1. \A k \in DOMAIN both : both[k] \in Range(both)
    BY RangeIs
  <2> QED BY <1>1, <2>1, RangeIs
<1>4. \A k \in DOMAIN both : both[k] \in Range(s) \cup Range(t)
  BY <1>1, <1>2, <1>3
<1>5. Range(both) = Range(s) \cup Range(t)
  BY <1>2, <1>3, <1>4, RangeIs
<1> QED BY <1>1, <1>5 DEF both

-----------------------------------------------------------------------------
(***************************************************************************)
(* What most steps leave alone.                                            *)
(***************************************************************************)
\* No socket of m was opened, and none forgot that its reader is gone.
NothingNew(m) ==
    \A s \in DOMAIN session' : session'[s].manager = m =>
        /\ s \in DOMAIN session /\ session[s].manager = m
        /\ session'[s].client = session[s].client
        /\ session'[s].open => session[s].open
        /\ session[s].reader = "gone" => session'[s].reader = "gone"

LEMMA KeptStays ==
    ASSUME NEW m, WellKept(m), cache'[m] = cache[m], NothingNew(m)
    PROVE  WellKept(m)'
BY DEF WellKept, Accounted, NothingNew

LEMMA QuietStays ==
    ASSUME NEW m, Quiet(m), UNCHANGED <<closed, transition>>, cache'[m] = cache[m], NothingNew(m),
           \A l \in Listeners : Holds(l, m)' => Holds(l, m)
    PROVE  Quiet(m)'
BY DEF Quiet, ReadersGone, NothingNew

LEMMA RenewsStays ==
    ASSUME RenewsItsOwn, NEW l \in Listeners, receiver'[l].at # "refresh",
           \A k \in Listeners : k # l => receiver'[k] = receiver[k],
           \A k \in Listeners : k # l /\ receiver[k].at = "refresh" =>
               cache'[receiver[k].manager] = cache[receiver[k].manager]
    PROVE  RenewsItsOwn'
BY DEF RenewsItsOwn

LEMMA NothingOpens == ASSUME UNCHANGED session, NEW m PROVE NothingNew(m)
BY DEF NothingNew

LEMMA Moved ==
    ASSUME Types, NEW l \in Listeners, NEW state \in Receiving, Moves(l, state)
    PROVE  /\ receiver' \in [Listeners -> Receiving] /\ receiver'[l] = state
           /\ \A k \in Listeners : k # l => receiver'[k] = receiver[k]
BY DEF Types, Moves

\* A receiver that is not in its read has a client and a manager.
LEMMA ReceiverIs ==
    ASSUME Types, NEW l \in Listeners, receiver[l].at # "read"
    PROVE  /\ receiver[l].client \in Clients /\ receiver[l].manager \in Managers
           /\ receiver[l].at \in {"refresh", "send"} => receiver[l].session \in Nat
           /\ receiver[l].at = "forward" => [receiver[l] EXCEPT !.at = "dial"] \in Receiving
           /\ receiver[l].at = "refresh" => [receiver[l] EXCEPT !.at = "send"] \in Receiving
BY DEF Types, Receiving

-----------------------------------------------------------------------------
(***************************************************************************)
(* A Forward.                                                              *)
(***************************************************************************)
LEMMA ReceiveUInv == ASSUME UInv, NEW l \in Listeners, Receive(l) PROVE UInv'
<1>1. PICK c \in Clients : Moves(l, [at |-> "forward", client |-> c, manager |-> manager])
  BY DEF Receive
<1>2. /\ [at |-> "forward", client |-> c, manager |-> manager] \in Receiving
      /\ UNCHANGED <<now, listener, manager, transition, closed, cache, session>>
  BY DEF Receive, Receiving, UInv, Types
<1>3. /\ receiver' \in [Listeners -> Receiving] /\ receiver'[l].at = "forward"
      /\ \A k \in Listeners : k # l => receiver'[k] = receiver[k]
  BY <1>1, <1>2, Moved DEF UInv
<1>4. \A k \in Listeners, m \in Managers : Holds(k, m)' => Holds(k, m)
  BY <1>3 DEF Holds
<1>5. OneForward'
  BY <1>4 DEF UInv, OneForward
<1>6. RenewsItsOwn'
  <2>1. UNCHANGED cache /\ receiver'[l].at # "refresh" /\ RenewsItsOwn
    BY <1>2, <1>3 DEF UInv
  <2> QED BY <1>3, <2>1, RenewsStays
<1>7. Types'
  BY <1>2, <1>3 DEF UInv, Types
<1>8. \A m \in Managers : WellKept(m)' /\ Quiet(m)'
  BY <1>2, <1>4, NothingOpens, KeptStays, QuietStays DEF UInv
<1> QED BY <1>5, <1>6, <1>7, <1>8 DEF UInv

\* A Forward that takes the mutex is the only one that holds it.
LEMMA TakesMutex ==
    ASSUME UInv, NEW l \in Listeners, receiver[l].at = "forward", MutexFree(receiver[l].manager),
           \A k \in Listeners : k # l => receiver'[k] = receiver[k],
           receiver'[l].manager = receiver[l].manager
    PROVE  /\ OneForward'
           /\ \A k \in Listeners, m \in Managers : Holds(k, m)' => Holds(k, m) \/ (k = l /\ m = receiver[l].manager)
           /\ \A k \in Listeners : k # l /\ receiver'[k].at = "refresh" => receiver'[k].manager # receiver[l].manager
BY DEF UInv, OneForward, Holds, MutexFree

LEMMA LookUpUInv == ASSUME UInv, NEW l \in Listeners, LookUp(l) PROVE UInv'
<1>0. PICK m \in Managers, c \in Clients : m = receiver[l].manager /\ c = receiver[l].client
  BY ReceiverIs DEF LookUp, UInv
<1> DEFINE mine == Of(cache[m], c)
<1> DEFINE rest == Without(cache[m], c)
<1>1. /\ receiver[l].at = "forward" /\ MutexFree(m)
      /\ UNCHANGED <<now, listener, manager, transition, closed, session>>
      /\ \/ closed[m] /\ Moves(l, Idle) /\ UNCHANGED cache
         \/ /\ ~closed[m] /\ Found(cache[m], c)
            /\ Moves(l, [at |-> "refresh", client |-> c, manager |-> m, session |-> mine[1].session])
            /\ cache' = [cache EXCEPT ![m] = rest \o mine]
         \/ ~closed[m] /\ Moves(l, [receiver[l] EXCEPT !.at = "dial"]) /\ UNCHANGED cache
  BY <1>0 DEF LookUp
<1>2. /\ Types /\ cache[m] \in Seq(Entry)
      /\ [receiver[l] EXCEPT !.at = "dial"] \in Receiving
      /\ Idle \in Receiving
  BY <1>1, ReceiverIs DEF UInv, Types, Receiving, Idle
<1>3. \A p : NothingNew(p)
  BY <1>1, NothingOpens
<1>4. CASE closed[m] /\ Moves(l, Idle) /\ UNCHANGED cache
  <2>1. /\ receiver' \in [Listeners -> Receiving] /\ receiver'[l].at = "read"
        /\ \A k \in Listeners : k # l => receiver'[k] = receiver[k]
    BY <1>2, <1>4, Moved DEF Idle
  <2>2. \A k \in Listeners, p \in Managers : Holds(k, p)' => Holds(k, p)
    BY <2>1 DEF Holds
  <2>3. OneForward' /\ RenewsItsOwn'
    BY <1>4, <2>1, <2>2 DEF UInv, OneForward, RenewsItsOwn
  <2>4. \A p \in Managers : WellKept(p)' /\ Quiet(p)'
    BY <1>1, <1>3, <1>4, <2>2, KeptStays, QuietStays DEF UInv
  <2>5. Types'
    BY <1>1, <1>2, <1>4, <2>1 DEF Types
  <2> QED BY <2>3, <2>4, <2>5 DEF UInv
<1>5. CASE ~closed[m] /\ Moves(l, [receiver[l] EXCEPT !.at = "dial"]) /\ UNCHANGED cache
  <2>1. /\ receiver' \in [Listeners -> Receiving]
        /\ receiver'[l] = [receiver[l] EXCEPT !.at = "dial"]
        /\ \A k \in Listeners : k # l => receiver'[k] = receiver[k]
    BY <1>2, <1>5, Moved
  <2>2. receiver'[l].at = "dial" /\ receiver'[l].manager = m
    BY <1>0, <1>1, <1>2, <2>1 DEF Types, Receiving
  <2>3. OneForward' /\ \A k \in Listeners, p \in Managers : Holds(k, p)' => Holds(k, p) \/ (k = l /\ p = m)
    BY <1>0, <1>1, <2>1, <2>2, TakesMutex
  <2>4. RenewsItsOwn'
    <3>1. UNCHANGED cache /\ receiver'[l].at # "refresh" /\ RenewsItsOwn
      BY <1>5, <2>2 DEF UInv
    <3>2. \A k \in Listeners : k # l => receiver'[k] = receiver[k]
      BY <2>1
    <3> QED BY <3>1, <3>2, RenewsStays
  <2>5. \A p \in Managers : WellKept(p)'
    BY <1>3, <1>5, KeptStays DEF UInv
  <2>6. ASSUME NEW p \in Managers PROVE Quiet(p)'
    <3>1. CASE p = m
      BY <1>1, <1>5, <3>1 DEF Quiet
    <3>2. CASE p # m
      BY <1>1, <1>3, <1>5, <2>3, <3>2, QuietStays DEF UInv
    <3> QED BY <3>1, <3>2
  <2>7. Types'
    BY <1>1, <1>2, <1>5, <2>1 DEF Types
  <2> QED BY <2>3, <2>4, <2>5, <2>6, <2>7 DEF UInv
<1>6. CASE /\ ~closed[m] /\ Found(cache[m], c)
           /\ Moves(l, [at |-> "refresh", client |-> c, manager |-> m, session |-> mine[1].session])
           /\ cache' = [cache EXCEPT ![m] = rest \o mine]
  <2>1. /\ mine \in Seq(Entry) /\ rest \in Seq(Entry)
        /\ Range(mine) = {e \in Range(cache[m]) : e.client = c}
        /\ Range(rest) = {e \in Range(cache[m]) : e.client # c}
        /\ Len(mine) + Len(rest) = Len(cache[m])
        /\ Len(mine) \in Nat /\ Len(rest) \in Nat
    BY <1>2, OfAndWithout
  <2>2. \E e \in Range(mine) : TRUE
    BY <1>6 DEF Found
  <2> HIDE DEF mine, rest
  <2>3. 1 \in DOMAIN mine
    BY <2>1, <2>2, RangeIs
  <2>4. mine[1] \in Entry /\ mine[1] \in Range(mine)
    BY <2>1, <2>3, RangeIs
  <2> DEFINE state == [at |-> "refresh", client |-> c, manager |-> m, session |-> mine[1].session]
  <2>5. state \in Receiving /\ state.at = "refresh" /\ state.client = c /\ state.manager = m
        /\ state.session = mine[1].session
    BY <1>2, <2>4 DEF Receiving, Entry
  <2> HIDE DEF state
  <2>6. /\ receiver' \in [Listeners -> Receiving] /\ receiver'[l] = state
        /\ \A k \in Listeners : k # l => receiver'[k] = receiver[k]
    BY <1>2, <1>6, <2>5, Moved DEF state
  <2>7. /\ rest \o mine \in Seq(Entry) /\ Len(rest \o mine) = Len(cache[m])
        /\ Range(rest \o mine) = Range(cache[m])
    BY <2>1, ConcatRange
  <2>8. /\ cache' \in [Managers -> Seq(Entry)] /\ cache'[m] = rest \o mine
        /\ \A p \in Managers : p # m => cache'[p] = cache[p]
    BY <1>2, <1>6, <2>7 DEF Types
  <2>9. /\ OneForward'
        /\ \A k \in Listeners, p \in Managers : Holds(k, p)' => Holds(k, p) \/ (k = l /\ p = m)
        /\ \A k \in Listeners : k # l /\ receiver'[k].at = "refresh" => receiver'[k].manager # m
    BY <1>0, <1>1, <2>5, <2>6, TakesMutex
  <2>10. RenewsItsOwn'
    <3>1. ASSUME NEW k \in Listeners, receiver'[k].at = "refresh", k # l
          PROVE  \A e \in Range(cache'[receiver'[k].manager]) :
                    e.client = receiver'[k].client => e.session = receiver'[k].session
      <4>1. receiver'[k] = receiver[k] /\ receiver[k].manager # m /\ receiver[k].manager \in Managers
        BY <2>6, <2>9, <3>1, ReceiverIs, <1>2
      <4>2. receiver[k].at = "refresh" /\ cache'[receiver'[k].manager] = cache[receiver[k].manager]
        BY <2>8, <3>1, <4>1
      <4>3. RenewsItsOwn
        BY <1>1 DEF UInv
      <4>4. \A e \in Range(cache[receiver[k].manager]) :
               e.client = receiver[k].client => e.session = receiver[k].session
        BY <4>2, <4>3 DEF RenewsItsOwn
      <4> QED BY <4>1, <4>2, <4>4
    <3>2. \A e \in Range(cache'[m]) : e.client = c => e.session = mine[1].session
      BY <1>2, <2>1, <2>4, <2>7, <2>8 DEF UInv, WellKept, Single
    <3> QED BY <2>5, <2>6, <3>1, <3>2 DEF RenewsItsOwn
  <2>11. Types'
    BY <1>1, <2>6, <2>8 DEF UInv, Types
  <2>12. ASSUME NEW p \in Managers PROVE WellKept(p)' /\ Quiet(p)'
    <3>1. CASE p = m
      <4>1. WellKept(m) /\ UNCHANGED <<session, closed>>
        BY <1>1 DEF UInv
      <4>2. Len(cache'[m]) <= MaxSessions /\ Single(cache'[m]) /\ Accounted(m, cache'[m], session)
        BY <2>7, <2>8, <4>1 DEF WellKept, Single, Accounted
      <4>3. WellKept(m)'
        BY <4>1, <4>2 DEF WellKept
      <4>4. Quiet(m)'
        BY <1>6, <4>1 DEF Quiet
      <4> QED BY <3>1, <4>3, <4>4
    <3>2. CASE p # m
      BY <1>1, <1>3, <2>8, <2>9, <3>2, KeptStays, QuietStays DEF UInv
    <3> QED BY <3>1, <3>2
  <2> QED BY <2>9, <2>10, <2>11, <2>12 DEF UInv
<1> QED BY <1>1, <1>4, <1>5, <1>6

\* The others that are about to renew are at other managers.
LEMMA OthersElsewhere ==
    ASSUME UInv, NEW l \in Listeners, NEW m \in Managers, Holds(l, m)
    PROVE  \A k \in Listeners : k # l => ~Holds(k, m)
BY DEF UInv, OneForward

LEMMA RefreshUInv == ASSUME UInv, NEW l \in Listeners, Refresh(l) PROVE UInv'
<1>1. PICK m \in Managers, c \in Clients, s \in Nat :
        m = receiver[l].manager /\ c = receiver[l].client /\ s = receiver[l].session
  BY ReceiverIs DEF Refresh, UInv
<1> DEFINE added == Added(cache[m], c, s)
<1>2. /\ receiver[l].at = "refresh" /\ Holds(l, m)
      /\ cache' = [cache EXCEPT ![m] = Trimmed(added)]
      /\ session' = Closing(session, Evicted(added))
      /\ Moves(l, [receiver[l] EXCEPT !.at = "send"])
      /\ UNCHANGED <<now, listener, manager, transition, closed>>
  BY <1>1 DEF Refresh, Holds
<1>3. Types /\ WellKept(m) /\ cache[m] \in Seq(Entry) /\ session \in Seq(Socket)
  BY DEF UInv, Types
<1>4. /\ Trimmed(added) \in Seq(Entry) /\ Len(Trimmed(added)) <= MaxSessions /\ Single(Trimmed(added))
      /\ \A e \in Range(Trimmed(added)) : e.client = c => e.session = s
      /\ \E e \in Range(Trimmed(added)) : e.client = c /\ e.session = s
      /\ \A e \in Range(cache[m]) :
            e.client # c => e \in Range(Trimmed(added)) \/ e.session \in Evicted(added)
  BY <1>3, AddKeeps DEF WellKept
<1>5. /\ session' \in Seq(Socket) /\ DOMAIN session' = DOMAIN session
      /\ \A t \in DOMAIN session :
           /\ session'[t].client = session[t].client /\ session'[t].manager = session[t].manager
           /\ session'[t].reader = session[t].reader
           /\ session'[t].open <=> session[t].open /\ t \notin Evicted(added)
  BY <1>2, <1>3, ClosingIs
<1> HIDE DEF added
<1>6. /\ cache' \in [Managers -> Seq(Entry)] /\ cache'[m] = Trimmed(added)
      /\ \A p \in Managers : p # m => cache'[p] = cache[p]
  BY <1>2, <1>3, <1>4 DEF Types
<1>7. /\ receiver' \in [Listeners -> Receiving]
      /\ receiver'[l] = [receiver[l] EXCEPT !.at = "send"]
      /\ \A k \in Listeners : k # l => receiver'[k] = receiver[k]
  BY <1>2, <1>3, ReceiverIs, Moved
<1>8. receiver'[l].at = "send" /\ receiver'[l].manager = m
  BY <1>1, <1>2, <1>3, <1>7 DEF Types, Receiving
<1>9. \A k \in Listeners, p \in Managers : Holds(k, p)' => Holds(k, p)
  BY <1>2, <1>7, <1>8 DEF Holds
<1>10. OneForward'
  BY <1>9 DEF UInv, OneForward
<1>11. RenewsItsOwn'
  <2>1. ASSUME NEW k \in Listeners, k # l, receiver[k].at = "refresh"
        PROVE  cache'[receiver[k].manager] = cache[receiver[k].manager]
    <3>1. receiver[k].manager \in Managers /\ Holds(k, receiver[k].manager)
      BY <1>3, <2>1, ReceiverIs DEF Holds
    <3>2. receiver[k].manager # m
      BY <1>2, <2>1, <3>1, OthersElsewhere
    <3> QED BY <1>6, <3>1, <3>2
  <2>2. RenewsItsOwn /\ receiver'[l].at # "refresh"
    BY <1>8 DEF UInv
  <2> QED BY <1>7, <2>1, <2>2, RenewsStays
<1>12. Types'
  BY <1>2, <1>3, <1>5, <1>6, <1>7 DEF Types
<1>13. WellKept(m)'
  <2>1. ASSUME NEW t \in DOMAIN session', session'[t].manager = m, session'[t].open
        PROVE  \E e \in Range(Trimmed(added)) : e.session = t /\ e.client = session'[t].client
    <3>1. PICK e \in Range(cache[m]) : e.session = t /\ e.client = session[t].client
      BY <1>3, <1>5, <2>1 DEF WellKept, Accounted
    <3>2. CASE e.client = c
      <4>1. e.session = s
        BY <1>1, <1>2, <3>1, <3>2 DEF UInv, RenewsItsOwn
      <4>2. session'[t].client = c
        BY <1>5, <3>1, <3>2
      <4> QED BY <1>4, <3>1, <4>1, <4>2
    <3>3. CASE e.client # c
      BY <1>4, <1>5, <2>1, <3>1, <3>3
    <3> QED BY <3>2, <3>3
  <2>2. Accounted(m, cache'[m], session')
    BY <1>6, <2>1 DEF Accounted
  <2> QED BY <1>4, <1>6, <2>2 DEF WellKept
<1>14. \A p \in Managers : NothingNew(p)
  BY <1>5 DEF NothingNew
<1>15. \A p \in Managers : p # m => WellKept(p)' /\ Quiet(p)'
  BY <1>2, <1>6, <1>9, <1>14, KeptStays, QuietStays DEF UInv
<1>16. Quiet(m)'
  BY <1>2 DEF UInv, Quiet
<1> QED BY <1>10, <1>11, <1>12, <1>13, <1>15, <1>16 DEF UInv

\* What Forward(l) changes of the receivers when it leaves dial or send: nothing that
\* the others wait for.
LEMMA Leaving ==
    ASSUME UInv, NEW l \in Listeners, NEW state \in Receiving, Moves(l, state),
           NEW m \in Managers, Holds(l, m),
           state.at = "read" \/ (state.at = "send" /\ state.manager = m),
           \A p \in Managers : p # m => cache'[p] = cache[p]
    PROVE  /\ receiver' \in [Listeners -> Receiving]
           /\ \A k \in Listeners, p \in Managers : Holds(k, p)' => Holds(k, p)
           /\ OneForward' /\ RenewsItsOwn'
<1>1. /\ receiver' \in [Listeners -> Receiving] /\ receiver'[l] = state
      /\ \A k \in Listeners : k # l => receiver'[k] = receiver[k]
  BY Moved DEF UInv
<1>2. \A k \in Listeners, p \in Managers : Holds(k, p)' => Holds(k, p)
  BY <1>1 DEF Holds
<1>3. OneForward'
  BY <1>2 DEF UInv, OneForward
<1>4. ASSUME NEW k \in Listeners, k # l, receiver[k].at = "refresh"
      PROVE  cache'[receiver[k].manager] = cache[receiver[k].manager]
  <2>1. receiver[k].manager \in Managers /\ Holds(k, receiver[k].manager)
    BY <1>4, ReceiverIs DEF UInv, Holds
  <2>2. receiver[k].manager # m
    BY <1>4, <2>1, OthersElsewhere
  <2> QED BY <2>1, <2>2
<1>5. RenewsItsOwn'
  BY <1>1, <1>4, RenewsStays DEF UInv
<1> QED BY <1>1, <1>2, <1>3, <1>5

LEMMA SendUInv == ASSUME UInv, NEW l \in Listeners, Send(l) PROVE UInv'
<1>1. PICK m \in Managers : m = receiver[l].manager
  BY ReceiverIs DEF Send, UInv
<1>2. /\ Holds(l, m) /\ Moves(l, Idle) /\ Idle \in Receiving /\ Idle.at = "read"
      /\ UNCHANGED <<now, listener, manager, transition, closed, cache, session>>
  BY <1>1 DEF Send, Holds, Idle, Receiving
<1>3. /\ receiver' \in [Listeners -> Receiving] /\ OneForward' /\ RenewsItsOwn'
      /\ \A k \in Listeners, p \in Managers : Holds(k, p)' => Holds(k, p)
  BY <1>2, Leaving
<1>4. \A p \in Managers : WellKept(p)' /\ Quiet(p)'
  BY <1>2, <1>3, NothingOpens, KeptStays, QuietStays DEF UInv
<1>5. Types'
  BY <1>2, <1>3 DEF UInv, Types
<1> QED BY <1>3, <1>4, <1>5 DEF UInv

\* No upstream: the expired entry is gone and closed.
LEMMA DialFails ==
    ASSUME UInv, NEW l \in Listeners, NEW m \in Managers, NEW c \in Clients, Holds(l, m),
           Moves(l, Idle), UNCHANGED <<now, listener, manager, transition, closed>>,
           cache' = [cache EXCEPT ![m] = Without(cache[m], c)],
           session' = Closing(session, {e.session : e \in Range(Of(cache[m], c))})
    PROVE  UInv'
<1> DEFINE old == {e.session : e \in Range(Of(cache[m], c))}
<1> DEFINE rest == Without(cache[m], c)
<1>1. Types /\ WellKept(m) /\ cache[m] \in Seq(Entry) /\ session \in Seq(Socket)
  BY DEF UInv, Types
<1>2. /\ rest \in Seq(Entry) /\ Len(rest) <= Len(cache[m]) /\ Len(cache[m]) \in Nat /\ Len(rest) \in Nat
      /\ Range(rest) = {e \in Range(cache[m]) : e.client # c}
      /\ \A e \in Range(cache[m]) : e.client = c => e.session \in old
  BY <1>1, OfAndWithout
<1>3. /\ session' \in Seq(Socket) /\ DOMAIN session' = DOMAIN session
      /\ \A t \in DOMAIN session :
           /\ session'[t].client = session[t].client /\ session'[t].manager = session[t].manager
           /\ session'[t].reader = session[t].reader
           /\ session'[t].open <=> session[t].open /\ t \notin old
  BY <1>1, ClosingIs
<1> HIDE DEF old, rest
<1>4. /\ cache' \in [Managers -> Seq(Entry)] /\ cache'[m] = rest
      /\ \A p \in Managers : p # m => cache'[p] = cache[p]
  BY <1>1, <1>2 DEF Types, rest
<1>5. /\ receiver' \in [Listeners -> Receiving] /\ OneForward' /\ RenewsItsOwn'
      /\ \A k \in Listeners, p \in Managers : Holds(k, p)' => Holds(k, p)
  <2>1. Idle \in Receiving /\ Idle.at = "read"
    BY DEF Idle, Receiving
  <2> QED BY <1>4, <2>1, Leaving
<1>6. WellKept(m)'
  <2>1. Len(rest) <= MaxSessions /\ Single(rest)
    BY <1>1, <1>2, MaxSessionsAssumption DEF WellKept, Single
  <2>2. ASSUME NEW t \in DOMAIN session', session'[t].manager = m, session'[t].open
        PROVE  \E e \in Range(rest) : e.session = t /\ e.client = session'[t].client
    <3>1. PICK e \in Range(cache[m]) : e.session = t /\ e.client = session[t].client
      BY <1>1, <1>3, <2>2 DEF WellKept, Accounted
    <3> QED BY <1>2, <1>3, <2>2, <3>1
  <2>3. Accounted(m, cache'[m], session')
    BY <1>4, <2>2 DEF Accounted
  <2> QED BY <1>4, <2>1, <2>3 DEF WellKept
<1>7. \A p \in Managers : NothingNew(p)
  BY <1>3 DEF NothingNew
<1>8. \A p \in Managers : p # m => WellKept(p)' /\ Quiet(p)'
  BY <1>4, <1>5, <1>7, KeptStays, QuietStays DEF UInv
<1>9. Quiet(m)'
  BY DEF UInv, Quiet
<1>10. Types'
  BY <1>1, <1>3, <1>4, <1>5 DEF Types
<1> QED BY <1>5, <1>6, <1>8, <1>9, <1>10 DEF UInv

\* A socket is connected.
Connects(l, m, c) ==
    /\ Moves(l, [at |-> "send", client |-> c, manager |-> m, session |-> Len(session) + 1])
    /\ UNCHANGED <<now, listener, manager, transition, closed>>
    /\ cache' = [cache EXCEPT ![m] = Trimmed(Added(cache[m], c, Len(session) + 1))]
    /\ session' = Append(Closing(session, {e.session : e \in Range(Of(cache[m], c))}
                                          \cup Evicted(Added(cache[m], c, Len(session) + 1))),
                         [client |-> c, manager |-> m, open |-> TRUE, reader |-> "read"])

LEMMA OneMoreSocket ==
    ASSUME NEW left \in Seq(Socket), NEW new \in Socket, NEW n, n = Len(left) + 1
    PROVE  /\ Append(left, new) \in Seq(Socket)
           /\ DOMAIN Append(left, new) = DOMAIN left \cup {n} /\ Append(left, new)[n] = new
           /\ \A t \in DOMAIN left : Append(left, new)[t] = left[t]
OBVIOUS

\* A connected socket takes the place of the entry it replaces.
LEMMA DialConnects ==
    ASSUME UInv, NEW l \in Listeners, NEW m \in Managers, NEW c \in Clients, Holds(l, m),
           Connects(l, m, c)
    PROVE  UInv'
<1> DEFINE old == {e.session : e \in Range(Of(cache[m], c))}
<1>1. Types /\ WellKept(m) /\ cache[m] \in Seq(Entry) /\ session \in Seq(Socket)
  BY DEF UInv, Types
<1>2. PICK n \in Nat : n = Len(session) + 1 /\ n \notin DOMAIN session
  BY <1>1
<1> DEFINE added == Added(cache[m], c, n)
<1> DEFINE gone == old \cup Evicted(added)
<1> DEFINE left == Closing(session, gone)
<1> DEFINE new == [client |-> c, manager |-> m, open |-> TRUE, reader |-> "read"]
<1>3. cache' = [cache EXCEPT ![m] = Trimmed(added)] /\ session' = Append(left, new)
  BY <1>2 DEF Connects
<1>4. /\ Trimmed(added) \in Seq(Entry) /\ Len(Trimmed(added)) <= MaxSessions /\ Single(Trimmed(added))
      /\ \E e \in Range(Trimmed(added)) : e.client = c /\ e.session = n
      /\ \A e \in Range(cache[m]) :
            e.client # c => e \in Range(Trimmed(added)) \/ e.session \in gone
  BY <1>1, AddKeeps DEF WellKept
<1>5. \A e \in Range(cache[m]) : e.client = c => e.session \in gone
  BY <1>1, OfAndWithout
<1> HIDE DEF added, gone
<1>6. /\ left \in Seq(Socket) /\ Len(left) = Len(session) /\ DOMAIN left = DOMAIN session
      /\ \A t \in DOMAIN session :
           /\ left[t].client = session[t].client /\ left[t].manager = session[t].manager
           /\ left[t].reader = session[t].reader
           /\ left[t].open <=> session[t].open /\ t \notin gone
  BY <1>1, ClosingIs
<1>7. /\ new \in Socket /\ new.manager = m /\ new.client = c
  BY DEF Socket
<1> HIDE DEF left, new
<1>8. /\ session' \in Seq(Socket) /\ DOMAIN session' = DOMAIN session \cup {n} /\ session'[n] = new
      /\ \A t \in DOMAIN session : session'[t] = left[t]
  BY <1>2, <1>3, <1>6, <1>7, OneMoreSocket
<1>9. /\ cache' \in [Managers -> Seq(Entry)] /\ cache'[m] = Trimmed(added)
      /\ \A p \in Managers : p # m => cache'[p] = cache[p]
  BY <1>1, <1>3, <1>4 DEF Types
<1>10. /\ receiver' \in [Listeners -> Receiving] /\ OneForward' /\ RenewsItsOwn'
       /\ \A k \in Listeners, p \in Managers : Holds(k, p)' => Holds(k, p)
  <2> DEFINE state == [at |-> "send", client |-> c, manager |-> m, session |-> n]
  <2>1. state \in Receiving /\ state.at = "send" /\ state.manager = m /\ Moves(l, state)
    BY <1>2 DEF Receiving, Connects
  <2> HIDE DEF state
  <2> QED BY <1>9, <2>1, Leaving
<1>11. WellKept(m)'
  <2>1. ASSUME NEW t \in DOMAIN session', session'[t].manager = m, session'[t].open
        PROVE  \E e \in Range(Trimmed(added)) : e.session = t /\ e.client = session'[t].client
    <3>1. CASE t = n
      BY <1>4, <1>7, <1>8, <3>1
    <3>2. CASE t # n
      <4>1. /\ t \in DOMAIN session /\ session[t].manager = m /\ session[t].open /\ t \notin gone
            /\ session'[t].client = session[t].client
        BY <1>6, <1>8, <2>1, <3>2
      <4>2. PICK e \in Range(cache[m]) : e.session = t /\ e.client = session[t].client
        BY <1>1, <4>1 DEF WellKept, Accounted
      <4> QED BY <1>4, <1>5, <4>1, <4>2
    <3> QED BY <3>1, <3>2
  <2>2. Accounted(m, cache'[m], session')
    BY <1>9, <2>1 DEF Accounted
  <2> QED BY <1>4, <1>9, <2>2 DEF WellKept
<1>12. \A p \in Managers : p # m => NothingNew(p)
  BY <1>6, <1>7, <1>8 DEF NothingNew
<1>13. \A p \in Managers : p # m => WellKept(p)' /\ Quiet(p)'
  BY <1>9, <1>10, <1>12, KeptStays, QuietStays DEF UInv, Connects
<1>14. Quiet(m)'
  BY DEF UInv, Quiet, Connects
<1>15. Types'
  BY <1>1, <1>8, <1>9, <1>10 DEF Types, Connects
<1> QED BY <1>10, <1>11, <1>13, <1>14, <1>15 DEF UInv

LEMMA DialUInv == ASSUME UInv, NEW l \in Listeners, Dial(l) PROVE UInv'
<1>1. PICK m \in Managers, c \in Clients : m = receiver[l].manager /\ c = receiver[l].client
  BY ReceiverIs DEF Dial, UInv
<1>2. Holds(l, m)
  BY <1>1 DEF Dial, Holds
<1> QED BY <1>1, <1>2, DialFails, DialConnects DEF Dial, Connects

-----------------------------------------------------------------------------
(***************************************************************************)
(* The janitor, the readers and the plane.                                 *)
(***************************************************************************)
\* Steps that move no receiver and only take entries away.
LEMMA ReceiversStay ==
    ASSUME UInv, UNCHANGED receiver,
           \A m \in Managers : Range(cache'[m]) \subseteq Range(cache[m])
    PROVE  /\ OneForward' /\ RenewsItsOwn'
           /\ \A k \in Listeners, p \in Managers : Holds(k, p)' => Holds(k, p)
<1>1. \A k, p : Holds(k, p)' <=> Holds(k, p)
  BY DEF Holds
<1>2. OneForward'
  BY <1>1 DEF UInv, OneForward
<1>3. \A l \in Listeners : receiver[l].at = "refresh" => receiver[l].manager \in Managers
  BY ReceiverIs DEF UInv
<1>4. RenewsItsOwn'
  BY <1>3 DEF UInv, RenewsItsOwn
<1> QED BY <1>1, <1>2, <1>4

LEMMA ExpireUInv == ASSUME UInv, NEW m \in Managers, Expire(m) PROVE UInv'
<1>1. PICK e \in Range(cache[m]) :
        /\ cache' = [cache EXCEPT ![m] = Without(cache[m], e.client)]
        /\ session' = Closing(session, {e.session})
        /\ UNCHANGED <<now, listener, manager, transition, closed, receiver>>
  BY DEF Expire
<1>2. Types /\ WellKept(m) /\ Quiet(m) /\ cache[m] \in Seq(Entry) /\ session \in Seq(Socket)
  BY DEF UInv, Types
<1> DEFINE rest == Without(cache[m], e.client)
<1>3. /\ rest \in Seq(Entry) /\ Len(rest) <= Len(cache[m]) /\ Len(cache[m]) \in Nat /\ Len(rest) \in Nat
      /\ Range(rest) = {f \in Range(cache[m]) : f.client # e.client}
  BY <1>2, OfAndWithout
<1> HIDE DEF rest
<1>4. /\ session' \in Seq(Socket) /\ DOMAIN session' = DOMAIN session
      /\ \A t \in DOMAIN session :
           /\ session'[t].client = session[t].client /\ session'[t].manager = session[t].manager
           /\ session'[t].reader = session[t].reader
           /\ session'[t].open <=> session[t].open /\ t # e.session
  BY <1>1, <1>2, ClosingIs
<1>5. /\ cache' \in [Managers -> Seq(Entry)] /\ cache'[m] = rest
      /\ \A p \in Managers : p # m => cache'[p] = cache[p]
  BY <1>1, <1>2, <1>3 DEF Types, rest
<1>6. \A p \in Managers : Range(cache'[p]) \subseteq Range(cache[p])
  BY <1>3, <1>5
<1>7. OneForward' /\ RenewsItsOwn' /\ \A k \in Listeners, p \in Managers : Holds(k, p)' => Holds(k, p)
  BY <1>1, <1>6, ReceiversStay
<1>8. WellKept(m)'
  <2>1. Len(rest) <= MaxSessions /\ Single(rest)
    BY <1>2, <1>3, MaxSessionsAssumption DEF WellKept, Single
  <2>2. ASSUME NEW t \in DOMAIN session', session'[t].manager = m, session'[t].open
        PROVE  \E f \in Range(rest) : f.session = t /\ f.client = session'[t].client
    <3>1. PICK f \in Range(cache[m]) : f.session = t /\ f.client = session[t].client
      BY <1>2, <1>4, <2>2 DEF WellKept, Accounted
    <3>2. f.client # e.client
      BY <1>2, <1>4, <2>2, <3>1 DEF WellKept, Single
    <3> QED BY <1>3, <1>4, <2>2, <3>1, <3>2
  <2>3. Accounted(m, cache'[m], session')
    BY <1>5, <2>2 DEF Accounted
  <2> QED BY <1>5, <2>1, <2>3 DEF WellKept
<1>9. \A p \in Managers : NothingNew(p)
  BY <1>4 DEF NothingNew
<1>10. \A p \in Managers : p # m => WellKept(p)' /\ Quiet(p)'
  BY <1>1, <1>5, <1>7, <1>9, KeptStays, QuietStays DEF UInv
<1>11. Quiet(m)'
  <2>1. cache[m] # <<>>
    BY RangeIs
  <2> QED BY <1>1, <1>2, <2>1 DEF Quiet
<1>12. Types'
  BY <1>1, <1>2, <1>4, <1>5 DEF Types
<1> QED BY <1>7, <1>8, <1>10, <1>11, <1>12 DEF UInv

LEMMA ReadsUInv ==
    ASSUME UInv, NEW s \in DOMAIN session, NEW from \in {"read", "write"},
           NEW to \in {"read", "write", "gone"}, Reads(s, from, to)
    PROVE  UInv'
<1>1. /\ session[s].reader = from /\ session' = [session EXCEPT ![s].reader = to]
      /\ UNCHANGED <<now, listener, manager, transition, closed, cache, receiver>>
  BY DEF Reads
<1>2. Types /\ session \in Seq(Socket) /\ \A t \in DOMAIN session : session[t] \in Socket
  BY DEF UInv, Types
<1>3. /\ DOMAIN session' = DOMAIN session
      /\ session' = [t \in DOMAIN session |-> session'[t]]
      /\ session'[s] = [session[s] EXCEPT !.reader = to]
      /\ \A t \in DOMAIN session : t # s => session'[t] = session[t]
  BY <1>1
<1>4. /\ session'[s] \in Socket
      /\ session'[s].client = session[s].client /\ session'[s].manager = session[s].manager
      /\ session'[s].open = session[s].open
  BY <1>2, <1>3 DEF Socket
<1>5. session' \in Seq(Socket)
  BY <1>2, <1>3, <1>4, Redrawn
<1>6. \A p \in Managers : NothingNew(p)
  BY <1>1, <1>3, <1>4 DEF NothingNew
<1>7. OneForward' /\ RenewsItsOwn' /\ \A k \in Listeners, p \in Managers : Holds(k, p)' => Holds(k, p)
  BY <1>1, ReceiversStay
<1>8. \A p \in Managers : WellKept(p)' /\ Quiet(p)'
  BY <1>1, <1>6, <1>7, KeptStays, QuietStays DEF UInv
<1>9. Types'
  BY <1>1, <1>2, <1>5 DEF Types
<1> QED BY <1>7, <1>8, <1>9 DEF UInv

\* The transition that replaces a manager ends when its readers have ended.
LEMMA PlaneUInv ==
    ASSUME UInv, Activate \/ Close \/ CloseReturns
    PROVE  UInv'
<1>1. /\ UNCHANGED <<now, closed, cache, session, receiver>>
      /\ manager' \in Managers \cup {0}
      /\ transition' \in Transition
      /\ \A p \in Managers : transition.doing = "wait" /\ transition.manager = p => ReadersGone(p)
  <2>1. CASE Activate
    <3>1. manager \in Managers /\ manager < MaxManagers /\ manager' = manager + 1 /\ transition'.manager = manager
      BY <2>1 DEF Activate, UInv, Types
    <3>2. manager' \in Managers
      BY <3>1, MaxManagersAssumption DEF Managers
    <3> QED BY <2>1, <3>1, <3>2 DEF Activate, Free, Transition
  <2>2. CASE Close
    BY <2>2 DEF Close, Free, UInv, Types, Transition
  <2>3. CASE CloseReturns
    BY <2>3 DEF CloseReturns, UInv, Types, Transition
  <2> QED BY <2>1, <2>2, <2>3
<1>2. \A p \in Managers : NothingNew(p)
  BY <1>1, NothingOpens
<1>3. OneForward' /\ RenewsItsOwn' /\ \A k \in Listeners, p \in Managers : Holds(k, p)' => Holds(k, p)
  BY <1>1, ReceiversStay
<1>4. \A p \in Managers : WellKept(p)'
  BY <1>1, <1>2, KeptStays DEF UInv
<1>5. \A p \in Managers : Quiet(p)'
  BY <1>1, <1>3 DEF UInv, Quiet, ReadersGone
<1>6. Types'
  BY <1>1 DEF UInv, Types
<1> QED BY <1>3, <1>4, <1>5, <1>6 DEF UInv

LEMMA CloseSessionsUInv == ASSUME UInv, CloseSessions PROVE UInv'
<1>1. PICK m \in Managers : m = transition.manager
  BY DEF CloseSessions, UInv, Types, Transition
<1>2. /\ transition.doing = "close" /\ MutexFree(m)
      /\ closed' = [closed EXCEPT ![m] = TRUE]
      /\ cache' = [cache EXCEPT ![m] = <<>>]
      /\ session' = Closing(session, {e.session : e \in Range(cache[m])})
      /\ transition' = [transition EXCEPT !.doing = "wait"]
      /\ UNCHANGED <<now, listener, manager, receiver>>
  BY <1>1 DEF CloseSessions
<1>3. Types /\ WellKept(m) /\ session \in Seq(Socket)
  BY DEF UInv, Types
<1> DEFINE gone == {e.session : e \in Range(cache[m])}
<1> HIDE DEF gone
<1>4. /\ session' \in Seq(Socket) /\ DOMAIN session' = DOMAIN session
      /\ \A t \in DOMAIN session :
           /\ session'[t].client = session[t].client /\ session'[t].manager = session[t].manager
           /\ session'[t].reader = session[t].reader
           /\ session'[t].open <=> session[t].open /\ t \notin gone
  BY <1>2, <1>3, ClosingIs DEF gone
<1>5. /\ cache' \in [Managers -> Seq(Entry)] /\ cache'[m] = <<>>
      /\ closed' \in [Managers -> BOOLEAN] /\ closed'[m]
      /\ \A p \in Managers : p # m => cache'[p] = cache[p] /\ closed'[p] = closed[p]
  BY <1>2, <1>3 DEF Types
<1>6. Range(<<>>) = {}
  BY RangeIs
<1>7. OneForward' /\ RenewsItsOwn' /\ \A k \in Listeners, p \in Managers : Holds(k, p)' => Holds(k, p)
  <2>1. \A p \in Managers : Range(cache'[p]) \subseteq Range(cache[p])
    BY <1>5, <1>6
  <2> QED BY <1>2, <2>1, ReceiversStay
<1>8. \A p \in Managers : NothingNew(p)
  BY <1>4 DEF NothingNew
<1>9. WellKept(m)'
  <2>1. \A t \in DOMAIN session' : session'[t].manager = m => ~session'[t].open
    BY <1>3, <1>4 DEF WellKept, Accounted, gone
  <2>2. Accounted(m, cache'[m], session')
    BY <2>1 DEF Accounted
  <2>3. Len(<<>>) <= MaxSessions /\ Single(<<>>)
    BY <1>6, MaxSessionsAssumption DEF Single
  <2> QED BY <1>5, <2>2, <2>3 DEF WellKept
<1>10. transition' \in Transition /\ transition'.doing = "wait" /\ transition'.manager = m
  BY <1>1, <1>2, <1>3 DEF Types, Transition
<1>11. \A p \in Managers : p # m => WellKept(p)'
  BY <1>5, <1>8, KeptStays DEF UInv
<1>12. ASSUME NEW p \in Managers, p # m PROVE Quiet(p)'
  <2>1. closed[p] => cache[p] = <<>> /\ (\A l \in Listeners : ~Holds(l, p)) /\ ReadersGone(p)
    BY <1>2 DEF UInv, Quiet
  <2>2. ReadersGone(p) => ReadersGone(p)'
    BY <1>4 DEF ReadersGone
  <2> QED BY <1>5, <1>7, <1>12, <2>1, <2>2 DEF Quiet
<1>13. Quiet(m)'
  <2>1. \A l \in Listeners : ~Holds(l, m)
    BY <1>2 DEF MutexFree, Holds
  <2> QED BY <1>5, <1>7, <1>10, <2>1 DEF Quiet
<1>14. Types'
  BY <1>2, <1>3, <1>4, <1>5, <1>10 DEF Types
<1> QED BY <1>7, <1>9, <1>11, <1>12, <1>13, <1>14 DEF UInv

LEMMA UInit == Init => UInv
<1> SUFFICES ASSUME Init PROVE UInv
  OBVIOUS
<1>1. /\ now = 0 /\ manager = 1 /\ session = <<>> /\ transition = [doing |-> "nothing"]
      /\ closed = [m \in Managers |-> FALSE] /\ cache = [m \in Managers |-> <<>>]
      /\ receiver = [l \in Listeners |-> Idle]
  BY DEF Init
<1>2. 1 \in Managers
  BY MaxManagersAssumption DEF Managers
<1>3. Idle \in Receiving /\ Idle.at = "read"
  BY DEF Idle, Receiving
<1>4. Types
  BY <1>1, <1>2, <1>3 DEF Types, Transition
<1>5. OneForward /\ RenewsItsOwn
  BY <1>1, <1>3 DEF OneForward, RenewsItsOwn, Holds
<1>6. ASSUME NEW m \in Managers PROVE WellKept(m) /\ Quiet(m)
  <2>1. Range(<<>>) = {} /\ Len(<<>>) <= MaxSessions
    BY RangeIs, MaxSessionsAssumption
  <2>2. WellKept(m)
    BY <1>1, <2>1 DEF WellKept, Single, Accounted
  <2> QED BY <1>1, <2>2 DEF Quiet
<1> QED BY <1>4, <1>5, <1>6 DEF UInv

LEMMA UInvStep == UInv /\ [Next]_vars => UInv'
<1> SUFFICES ASSUME UInv, [Next]_vars PROVE UInv'
  OBVIOUS
<1>1. ASSUME NEW l \in Listeners, Receive(l) \/ Forward(l)
      PROVE  UInv'
  BY <1>1, ReceiveUInv, LookUpUInv, RefreshUInv, DialUInv, SendUInv DEF Forward
<1>2. ASSUME NEW m \in Managers, Expire(m)
      PROVE  UInv'
  BY <1>2, ExpireUInv
<1>3. ASSUME NEW s \in DOMAIN session, Reader(s)
      PROVE  UInv'
  BY <1>3, ReadsUInv DEF Reader, ReadReply, ReadFails, WriteReply
<1>4. CASE Activate \/ Close \/ CloseReturns
  BY <1>4, PlaneUInv
<1>5. CASE CloseSessions
  BY <1>5, CloseSessionsUInv
<1>6. CASE Tick \/ Closed \/ UNCHANGED vars
  <2>1. UNCHANGED <<manager, transition, closed, cache, session, receiver>>
    BY <1>6 DEF Tick, Closed, vars
  <2>2. now' \in Nat
    BY <1>6 DEF Tick, Closed, vars, UInv, Types
  <2>3. \A p \in Managers : NothingNew(p)
    BY <2>1, NothingOpens
  <2>4. OneForward' /\ RenewsItsOwn' /\ \A k \in Listeners, p \in Managers : Holds(k, p)' => Holds(k, p)
    BY <2>1, ReceiversStay
  <2>5. \A p \in Managers : WellKept(p)' /\ Quiet(p)'
    BY <2>1, <2>3, <2>4, KeptStays, QuietStays DEF UInv
  <2>6. Types'
    BY <2>1, <2>2 DEF UInv, Types
  <2> QED BY <2>4, <2>5, <2>6 DEF UInv
<1> QED BY <1>1, <1>2, <1>3, <1>4, <1>5, <1>6 DEF Next

\* No more sockets are open than the cache has entries.
LEMMA FewSockets ==
    ASSUME UInv, NEW m \in Managers
    PROVE  Cardinality(OpenSockets(m)) <= MaxSessions
<1>1. /\ cache[m] \in Seq(Entry) /\ Len(cache[m]) <= MaxSessions
      /\ Accounted(m, cache[m], session)
  BY DEF UInv, Types, WellKept
<1>2. PICK n \in Nat : n = Len(cache[m]) /\ DOMAIN cache[m] = 1..n
  BY <1>1
<1> DEFINE cached == [k \in 1..n |-> cache[m][k].session]
<1> DEFINE all == {cached[k] : k \in 1..n}
<1>3. cached \in Surjection(1..n, all)
  BY DEF Surjection
<1>4. OpenSockets(m) \in SUBSET all
  BY <1>1, <1>2, RangeIs DEF OpenSockets, Accounted
<1> HIDE DEF cached, all
<1>5. IsFiniteSet(all) /\ Cardinality(all) <= n
  BY <1>3, Counting, FS_Surjection
<1>6. IsFiniteSet(OpenSockets(m)) /\ Cardinality(OpenSockets(m)) <= Cardinality(all)
  BY <1>4, <1>5, FS_Subset
<1>7. Cardinality(all) \in Nat /\ Cardinality(OpenSockets(m)) \in Nat
  BY <1>5, <1>6, FS_CardinalityType
<1> QED BY <1>1, <1>2, <1>5, <1>6, <1>7, MaxSessionsAssumption

LEMMA UInvariant == Spec => []UInv
BY UInit, UInvStep, PTL DEF Spec

\* Renewing, replacing or re-adding an entry forgets no socket, although the janitor may
\* come between the Get (udp_sessions.go:62) and the Add of a Forward (:76), and the sockets
\* of a manager are bounded by udp.max_sessions as its entries are.
THEOREM NoSocketForgotten == Spec => []NoOrphans
<1>1. UInv => NoOrphans
  <2> SUFFICES ASSUME UInv, NEW m \in Managers
               PROVE  /\ Cardinality(OpenSockets(m)) <= MaxSessions
                      /\ \A s \in OpenSockets(m) :
                            \E e \in Range(cache[m]) : e.session = s /\ e.client = session[s].client
    BY DEF NoOrphans
  <2> QED BY FewSockets DEF UInv, WellKept, Accounted, OpenSockets
<1> QED BY <1>1, UInvariant, PTL

\* "UDP proxy sessions close on every UDP reload" (docs/api-v1.md:104): the closed check
\* is made under the mutex that Close takes (udp_sessions.go:59, :86), so a Forward that
\* read the manager before the reload gives it no new socket.
THEOREM ClosedStaysQuiet == Spec => []QuietAfterClose
<1>1. UInv => QuietAfterClose
  <2> SUFFICES ASSUME UInv, NEW m \in Managers, closed[m]
               PROVE  /\ OpenSockets(m) = {} /\ cache[m] = <<>>
                      /\ (transition.doing = "wait" /\ transition.manager = m) \/ ReadersGone(m)
    BY DEF QuietAfterClose
  <2>1. Quiet(m) /\ Accounted(m, cache[m], session) /\ Range(<<>>) = {}
    BY RangeIs DEF UInv, WellKept
  <2>2. cache[m] = <<>> /\ ((transition.doing = "wait" /\ transition.manager = m) \/ ReadersGone(m))
    BY <2>1 DEF Quiet
  <2>3. OpenSockets(m) = {}
    BY <2>1, <2>2 DEF Accounted, OpenSockets
  <2> QED BY <2>2, <2>3
<1> QED BY <1>1, UInvariant, PTL
=============================================================================
