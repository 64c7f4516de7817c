--------------------------- MODULE LiveViewProofs ---------------------------
(***************************************************************************)
(* The lists of the web page for any page size, feed limit, capacity of    *)
(* Memory and number of exchanges: cards of Realtime never come back and   *)
(* never go back, and a walk through History shows every exchange that had *)
(* ended when it began and is still kept.                                  *)
(***************************************************************************)
EXTENDS LiveView, FiniteSetTheorems, WellFoundedInduction, TLAPS

-----------------------------------------------------------------------------
(* The inductive invariant. *)

Loads == [at : {"none", "sent", "memory", "answered"}, reset : BOOLEAN, cursor : 0..clock,
          items : SUBSET Copies, hasMore : BOOLEAN, next : 0..clock]

Pages == [cursor : 0..clock, hasMore : BOOLEAN, error : BOOLEAN]

Requests == [id : 1..MaxExchanges, revision : {1, 2}, answered : BOOLEAN, found : SUBSET Copies]

Types ==
    /\ clock \in Nat /\ started \in 0..MaxExchanges
    /\ {ram, queued, rows, live, history} \subseteq SUBSET Copies
    /\ IsFiniteSet(ram) /\ IsFiniteSet(rows) /\ IsFiniteSet(load.items)
    /\ dismissed \cup gone \subseteq 1..MaxExchanges
    /\ asked \subseteq Requests
    /\ load \in Loads
    /\ list \in Pages

Single(copies) == \A c, d \in copies : c.id = d.id => c = d

\* What the server has, and what it read of RAM for the page it is putting together.
Stored == ram \cup queued \cup rows
Known == Stored \cup load.items

\* An exchange ends once: all copies of its end are equal, and as long as RAM holds it
\* as active there is none.
EndsOnce ==
    /\ Single(ram)
    /\ \A c \in Known : c.id <= started /\ OrderingTime(c) <= clock
    /\ \A c \in queued \cup rows : Ended(c)
    /\ \A c, d \in Known : c.id = d.id /\ Ended(d) => (Ended(c) => c = d) /\ (c \in ram => Ended(c))

\* An exchange that was deleted, and never comes back.
Dead(id) == id \in 1..started /\ id \notin Ids(Stored)

Fits(m) ==
    /\ m.type = "snapshot" => m.items \subseteq Copies
    /\ m.type \in {"exchange.started", "response.completed"} =>
          m.id \in 1..MaxExchanges /\ m.revision \in {1, 2}
    /\ m.type = "exchange.deleted" => Dead(m.id)

Carried == {wire[i] : i \in DOMAIN wire}

Delivered ==
    /\ wire \in Seq(Carried)
    /\ \A m \in Carried : Fits(m)
    /\ \A id \in confirmed : id # 0 => Dead(id)

\* Realtime has one card of an exchange and none that was dismissed, and an answer
\* is about the exchange that was asked for.
Cards ==
    /\ Single(live)
    /\ Ids(live) \cap dismissed = {}
    /\ \A r \in asked : Single(r.found) /\ \A c \in r.found : c.id = r.id

EndedOf(id, copies) == \E c \in copies : c.id = id /\ Ended(c)

\* What a walk that goes on below cursor still has to show is below it.
Ahead(cursor) ==
    \A c \in ram \cup rows :
       Ended(c) /\ c.id \in owed /\ c.id \notin Ids(history) => c.completed < cursor

\* Between two pages, the rest of the walk is below the cursor, or the list says that
\* there is nothing more, or that it failed.
Between ==
    load.at = "none" =>
       /\ list.cursor = 0 \/ Ahead(list.cursor)
       /\ list.error \/ list.hasMore \/ owed \subseteq Ids(history)

\* While a page is awaited the walk goes on below its cursor, whether or not it fails.
Asked ==
    load.at # "none" =>
       /\ list.cursor \in {0, load.cursor}
       /\ load.cursor = 0 \/ Ahead(load.cursor)
       /\ load.reset => load.cursor = 0

\* Between listing Memory and listing SQLite no exchange is in neither.
Listing ==
    load.at = "memory" =>
       /\ \A id \in owed : EndedOf(id, load.items \cup rows)
       /\ \A c \in load.items : c.id \in owed => Ended(c)

\* The page shows what it has to, or leaves it below the next cursor.
Answered ==
    load.at = "answered" =>
       \A c \in ram \cup rows : Ended(c) /\ c.id \in owed =>
          \/ c.id \in Ids(load.items)
          \/ load.cursor # 0 /\ c.id \in Ids(history)
          \/ load.hasMore /\ c.completed < load.next

Walk ==
    /\ \A id \in owed : EndedOf(id, ram \cup rows)
    /\ Between /\ Asked /\ Listing /\ Answered

LInv == Types /\ EndsOnce /\ Delivered /\ Cards /\ Walk

-----------------------------------------------------------------------------
(* The first n of some copies. *)

LEMMA Times ==
    \A c \in Copies :
       OrderingTime(c) \in Nat /\ c.id \in Nat /\ (Ended(c) => OrderingTime(c) = c.completed)
BY LimitsAssumption DEF Copies, OrderingTime, Ended

NewerIn(copies, c) == {d \in copies : OrderingTime(d) > OrderingTime(c)}

LEMMA TopIs == ASSUME NEW S, NEW n
               PROVE  /\ Top(S, n) = {c \in S : Cardinality(NewerIn(S, c)) < n}
                      /\ Top(S, n) \subseteq S
BY DEF Top, NewerIn

LEMMA Ranks ==
    ASSUME NEW S \in SUBSET Copies, IsFiniteSet(S), NEW c
    PROVE  NewerIn(S, c) \in SUBSET S /\ IsFiniteSet(NewerIn(S, c)) /\ Cardinality(NewerIn(S, c)) \in Nat
<1>1. NewerIn(S, c) \in SUBSET S
  BY DEF NewerIn
<1>2. IsFiniteSet(NewerIn(S, c))
  BY <1>1, FS_Subset
<1> QED BY <1>1, <1>2, FS_CardinalityType

\* Fewer copies are newer than a newer copy.
LEMMA RanksOrder ==
    ASSUME NEW S \in SUBSET Copies, IsFiniteSet(S), NEW c \in S, NEW d \in S,
           OrderingTime(c) >= OrderingTime(d)
    PROVE  /\ Cardinality(NewerIn(S, c)) <= Cardinality(NewerIn(S, d))
           /\ OrderingTime(c) > OrderingTime(d)
                 => Cardinality(NewerIn(S, c)) < Cardinality(NewerIn(S, d))
<1>1. NewerIn(S, c) \in SUBSET NewerIn(S, d)
  BY Times DEF NewerIn
<1>2. OrderingTime(c) > OrderingTime(d) => c \in NewerIn(S, d) /\ c \notin NewerIn(S, c)
  BY Times DEF NewerIn
<1>3. /\ IsFiniteSet(NewerIn(S, d))
      /\ Cardinality(NewerIn(S, c)) \in Nat /\ Cardinality(NewerIn(S, d)) \in Nat
  BY Ranks
<1>4. /\ Cardinality(NewerIn(S, c)) <= Cardinality(NewerIn(S, d))
      /\ Cardinality(NewerIn(S, d)) = Cardinality(NewerIn(S, c)) => NewerIn(S, d) = NewerIn(S, c)
  BY <1>1, <1>3, FS_Subset
<1> QED BY <1>2, <1>3, <1>4

\* Some copy is the newest.
LEMMA Newest ==
    ASSUME NEW S \in SUBSET Copies, IsFiniteSet(S), S # {}
    PROVE  \E c \in S : NewerIn(S, c) = {}
<1> DEFINE T == {Cardinality(NewerIn(S, c)) : c \in S}
<1>1. T \subseteq Nat /\ T # {}
  BY Ranks
<1> HIDE DEF T
<1>2. PICK t \in T : \A u \in T : <<u, t>> \notin OpToRel(<, Nat)
  BY <1>1, NatLessThanWellFounded, WFMin
<1>3. \A u \in T : ~(u < t)
  BY <1>1, <1>2 DEF OpToRel
<1>4. PICK c \in S : t = Cardinality(NewerIn(S, c))
  BY DEF T
<1>5. ASSUME NEW d \in NewerIn(S, c) PROVE FALSE
  <2>1. d \in S /\ OrderingTime(d) > OrderingTime(c)
    BY DEF NewerIn
  <2>2. Cardinality(NewerIn(S, d)) < Cardinality(NewerIn(S, c))
    BY <2>1, RanksOrder, Times
  <2> QED BY <1>3, <1>4, <2>1, <2>2 DEF T
<1> QED BY <1>5

\* What is not among the first n is older than all of them, and there are n of them.
LEMMA TopCuts ==
    ASSUME NEW S \in SUBSET Copies, IsFiniteSet(S), NEW n \in Nat \ {0}
    PROVE  /\ IsFiniteSet(Top(S, n))
           /\ S # {} => Top(S, n) # {}
           /\ \A c \in S \ Top(S, n) : \A d \in Top(S, n) : OrderingTime(c) < OrderingTime(d)
           /\ Top(S, n) # S => Cardinality(Top(S, n)) >= n
<1>1. IsFiniteSet(Top(S, n)) /\ Cardinality(Top(S, n)) \in Nat
  <2>1. Top(S, n) \in SUBSET S
    BY TopIs
  <2> QED BY <2>1, FS_Subset, FS_CardinalityType
<1>2. ASSUME S # {} PROVE Top(S, n) # {}
  <2>1. PICK c \in S : NewerIn(S, c) = {}
    BY <1>2, Newest
  <2> QED BY <2>1, TopIs, FS_EmptySet
<1>3. ASSUME NEW c \in S \ Top(S, n), NEW d \in Top(S, n) PROVE OrderingTime(c) < OrderingTime(d)
  <2>1. d \in S /\ Cardinality(NewerIn(S, d)) < n /\ ~(Cardinality(NewerIn(S, c)) < n)
    BY TopIs
  <2>2. Cardinality(NewerIn(S, d)) \in Nat /\ Cardinality(NewerIn(S, c)) \in Nat
    BY Ranks
  <2>3. OrderingTime(c) >= OrderingTime(d)
           => Cardinality(NewerIn(S, c)) <= Cardinality(NewerIn(S, d))
    BY <2>1, RanksOrder
  <2> QED BY <2>1, <2>2, <2>3, Times
<1>4. ASSUME Top(S, n) # S PROVE Cardinality(Top(S, n)) >= n
  <2> DEFINE Rest == S \ Top(S, n)
  <2>1. Rest \in SUBSET Copies /\ IsFiniteSet(Rest) /\ Rest # {}
    BY <1>4, TopIs, FS_Difference
  <2>2. PICK q \in Rest : NewerIn(Rest, q) = {}
    BY <2>1, Newest
  <2>3. NewerIn(S, q) \in SUBSET Top(S, n)
    BY <2>2 DEF NewerIn
  <2>4. Cardinality(NewerIn(S, q)) <= Cardinality(Top(S, n))
    BY <1>1, <2>3, FS_Subset
  <2>5. ~(Cardinality(NewerIn(S, q)) < n) /\ Cardinality(NewerIn(S, q)) \in Nat
    BY <2>2, TopIs, Ranks
  <2> QED BY <1>1, <2>4, <2>5
<1> QED BY <1>1, <1>2, <1>3, <1>4

LEMMA OldestIs ==
    ASSUME NEW S \in SUBSET Copies, S # {}
    PROVE  /\ \E c \in S : OldestOf(S) = OrderingTime(c)
           /\ \A c \in S : OldestOf(S) <= OrderingTime(c)
<1> DEFINE T == {OrderingTime(c) : c \in S}
<1>1. T \subseteq Nat /\ T # {}
  BY Times
<1>2. \E t \in T : \A u \in T : t <= u
  <2> HIDE DEF T
  <2>1. PICK t \in T : \A u \in T : <<u, t>> \notin OpToRel(<, Nat)
    BY <1>1, NatLessThanWellFounded, WFMin
  <2>2. \A u \in T : ~(u < t)
    BY <1>1, <2>1 DEF OpToRel
  <2>3. \A u \in T : u \in Nat /\ t \in Nat
    BY <1>1
  <2> QED BY <2>2, <2>3
<1>3. OldestOf(S) \in T /\ \A u \in T : OldestOf(S) <= u
  BY <1>2 DEF OldestOf
<1> QED BY <1>3

\* Rows of exchanges that RAM had too are at most as many as those copies.
LEMMA Shadowed ==
    ASSUME NEW memory \in SUBSET Copies, IsFiniteSet(memory),
           NEW found \in SUBSET Copies, IsFiniteSet(found), Single(found)
    PROVE  Cardinality({r \in found : r.id \in Ids(memory)}) <= Cardinality(memory)
<1> DEFINE S == {r \in found : r.id \in Ids(memory)}
<1> DEFINE f == [r \in S |-> CHOOSE m \in memory : m.id = r.id]
<1>1. \A r \in S : f[r] \in memory /\ f[r].id = r.id
  BY DEF Ids
<1>2. \A a, b \in S : f[a] = f[b] => a = b
  <2>1. \A a, b \in S : a \in found /\ b \in found
    OBVIOUS
  <2> HIDE DEF S, f
  <2> QED BY <1>1, <2>1 DEF Single
<1>3. f \in [S -> memory]
  BY <1>1
<1> HIDE DEF S, f
<1>4. f \in Injection(S, memory)
  BY <1>2, <1>3 DEF Injection, IsInjective
<1>5. Cardinality(S) <= Cardinality(memory)
  BY <1>4, FS_Injection
<1> QED BY <1>5 DEF S

\* A page shows all that was listed, or leaves it to the pages after it: SQLite is
\* asked for enough rows that all of RAM could be among them.
LEMMA PageCovers ==
    ASSUME NEW memory \in SUBSET Copies, IsFiniteSet(memory),
           NEW older \in SUBSET Copies, IsFiniteSet(older), Single(older),
           NEW limit, limit = Limit + Cardinality(memory),
           NEW merged, merged = memory \cup {r \in Top(older, limit) : r.id \notin Ids(memory)},
           NEW page, page = Top(merged, Limit),
           NEW c \in memory \cup {r \in older : r.id \notin Ids(memory)}, c \notin page
    PROVE  /\ Top(older, limit) # older \/ page # merged
           /\ page # {} /\ OrderingTime(c) < OldestOf(page)
<1> DEFINE found == Top(older, limit)
<1>1. Limit \in Nat \ {0} /\ Cardinality(memory) \in Nat /\ limit \in Nat \ {0}
  BY LimitsAssumption, FS_CardinalityType
<1>2. /\ found \in SUBSET older /\ IsFiniteSet(found) /\ Cardinality(found) \in Nat
      /\ \A r \in older \ found : \A d \in found : OrderingTime(r) < OrderingTime(d)
      /\ found # older => Cardinality(found) >= limit
  BY <1>1, TopCuts, TopIs, FS_CardinalityType
<1> DEFINE fresh == {r \in found : r.id \notin Ids(memory)}
<1>3. fresh \in SUBSET Copies /\ IsFiniteSet(fresh) /\ merged = memory \cup fresh
  <2>1. fresh \in SUBSET found
    OBVIOUS
  <2> QED BY <1>2, <2>1, FS_Subset
<1> HIDE DEF fresh
<1>4. merged \in SUBSET Copies /\ IsFiniteSet(merged)
  <2>1. IsFiniteSet(memory \cup fresh)
    BY <1>3, FS_Union
  <2> QED BY <1>3, <2>1
<1>5. /\ page \in SUBSET merged
      /\ merged # {} => page # {}
      /\ \A x \in merged \ page : \A y \in page : OrderingTime(x) < OrderingTime(y)
  BY <1>1, <1>4, TopCuts, TopIs
<1>6. page # {} => \E y \in page : OldestOf(page) = OrderingTime(y)
  <2>1. page \in SUBSET Copies
    BY <1>4, <1>5
  <2> QED BY <2>1, OldestIs
<1> SUFFICES /\ found # older \/ page # merged
             /\ page # {} /\ \A y \in page : OrderingTime(c) < OrderingTime(y)
  BY <1>6
<1>8. CASE c \in merged
  BY <1>5, <1>8
<1>9. CASE c \notin merged
  <2>1. c \in older /\ c \notin found
    BY <1>3, <1>9
  <2> DEFINE shadow == {r \in found : r.id \in Ids(memory)}
  <2>2. /\ Cardinality(shadow) <= Cardinality(memory) /\ shadow \in SUBSET found
        /\ fresh = found \ shadow /\ found \cap shadow = shadow
    BY <1>2, Shadowed DEF Single, fresh
  <2> HIDE DEF shadow
  <2>3. Cardinality(shadow) \in Nat
    BY <1>2, <2>2, FS_Subset, FS_CardinalityType
  <2>4. Cardinality(fresh) = Cardinality(found) - Cardinality(shadow)
    <3>1. Cardinality(found \ shadow) = Cardinality(found) - Cardinality(found \cap shadow)
      BY <1>2, FS_Difference
    <3> QED BY <2>2, <3>1
  <2>5. Cardinality(fresh) >= Limit /\ Cardinality(fresh) \in Nat
    BY <1>1, <1>2, <2>1, <2>2, <2>3, <2>4
  <2>6. \A r \in fresh : OrderingTime(c) < OrderingTime(r)
    BY <1>2, <2>1 DEF fresh
  <2>7. page # {}
    BY <1>1, <1>3, <1>5, <2>5, FS_EmptySet
  <2>8. ASSUME NEW y \in page PROVE OrderingTime(c) < OrderingTime(y)
    <3>1. y \in merged /\ Cardinality(NewerIn(merged, y)) < Limit
      BY TopIs
    <3>2. /\ IsFiniteSet(NewerIn(merged, y)) /\ Cardinality(NewerIn(merged, y)) \in Nat
      BY <1>4, Ranks
    <3>3. c \in Copies /\ y \in Copies /\ \A r \in fresh : r \in Copies /\ r \in merged
      BY <1>3, <1>4, <2>1, <3>1
    <3>4. ASSUME ~(OrderingTime(c) < OrderingTime(y)) PROVE fresh \in SUBSET NewerIn(merged, y)
      BY <2>6, <3>3, <3>4, Times DEF NewerIn
    <3>5. ASSUME ~(OrderingTime(c) < OrderingTime(y)) PROVE FALSE
      BY <1>1, <2>5, <3>1, <3>2, <3>4, <3>5, FS_Subset
    <3> QED BY <3>5
  <2> QED BY <2>1, <2>7, <2>8
<1> QED BY <1>8, <1>9

-----------------------------------------------------------------------------
(* The parts of the invariant, each under the steps that touch what it is  *)
(* about.                                                                  *)

LEMMA Merging ==
    ASSUME NEW current \in SUBSET Copies, NEW incoming \in SUBSET Copies
    PROVE  /\ MergeNewest(current, incoming) \in SUBSET Copies
           /\ Ids(MergeNewest(current, incoming)) = Ids(current) \cup Ids(incoming)
           /\ Single(current) /\ Single(incoming) => Single(MergeNewest(current, incoming))
<1> DEFINE merged == MergeNewest(current, incoming)
<1>1. merged \in SUBSET Copies
  BY DEF MergeNewest
<1>2. Ids(merged) \subseteq Ids(current) \cup Ids(incoming)
  BY DEF MergeNewest, Ids
<1>3. \A c \in current \cup incoming : c.revision = 1 \/ c.revision = 2
  BY DEF Copies
<1>4. ASSUME NEW c \in current \cup incoming PROVE \E d \in merged : d.id = c.id
  BY <1>3 DEF MergeNewest, Of
<1>5. Ids(current) \cup Ids(incoming) \subseteq Ids(merged)
  BY <1>4 DEF Ids
<1>6. ASSUME Single(current), Single(incoming) PROVE Single(merged)
  <2> SUFFICES ASSUME NEW c \in merged, NEW d \in merged, c.id = d.id PROVE c = d
    BY DEF Single
  <2>1. c \in current /\ d \in current => c = d
    BY <1>6 DEF Single
  <2>2. c \in incoming /\ d \in incoming => c = d
    BY <1>6 DEF Single
  <2>3. \A a \in current, b \in incoming : a.id = b.id /\ a \in merged /\ b \in merged => a = b
    <3> SUFFICES ASSUME NEW a \in current, NEW b \in incoming, a.id = b.id, a \in merged, b \in merged,
                        a \notin incoming, b \notin current
                 PROVE  FALSE
      BY <1>6 DEF Single
    <3>1. b.revision < a.revision /\ b.revision >= a.revision
      BY DEF MergeNewest, Of
    <3> QED BY <1>3, <3>1
  <2> QED BY <2>1, <2>2, <2>3 DEF MergeNewest
<1> QED BY <1>1, <1>2, <1>5, <1>6

\* The server forgets copies, or reads some of those it has for the page.
LEMMA EndsShrinks ==
    ASSUME EndsOnce, ram' \subseteq ram, queued' \cup rows' \subseteq queued \cup rows,
           load'.items \subseteq Known, UNCHANGED <<clock, started>>
    PROVE  EndsOnce'
<1>1. Known' \subseteq Known
  BY DEF Known, Stored
<1>2. Single(ram)' /\ \A c \in Known' : c.id <= started' /\ OrderingTime(c) <= clock'
  BY <1>1 DEF EndsOnce, Single
<1>3. \A c \in queued' \cup rows' : Ended(c)
  BY DEF EndsOnce
<1>4. \A c, d \in Known' : c.id = d.id /\ Ended(d) => (Ended(c) => c = d) /\ (c \in ram' => Ended(c))
  BY <1>1 DEF EndsOnce
<1> QED BY <1>2, <1>3, <1>4 DEF EndsOnce

\* The exchanges that were deleted stay so.
KeepsDead == \A id : Dead(id) => Dead(id)'

LEMMA DeadStays ==
    ASSUME Types, started' \in 0..MaxExchanges, started <= started',
           \A c \in Stored' : c.id \in Ids(Stored) \/ c.id = started + 1
    PROVE  KeepsDead
BY LimitsAssumption DEF KeepsDead, Dead, Types, Ids

LEMMA OwnElements ==
    ASSUME NEW S, NEW s \in Seq(S)
    PROVE  s \in Seq({s[i] : i \in DOMAIN s}) /\ {s[i] : i \in DOMAIN s} \subseteq S
OBVIOUS

LEMMA ListsItsElements ==
    ASSUME NEW n \in Nat, NEW f, f = [i \in 1..n |-> f[i]]
    PROVE  f \in Seq({f[i] : i \in 1..n})
OBVIOUS

LEMMA DeliveredIf ==
    ASSUME NEW S, wire' \in Seq(S),
           \A m \in S : Fits(m)', \A id \in confirmed' : id # 0 => Dead(id)'
    PROVE  Delivered'
<1>1. wire' \in Seq(Carried') /\ Carried' \subseteq S
  BY OwnElements DEF Carried
<1> QED BY <1>1 DEF Delivered

LEMMA FitsStays == ASSUME NEW m, Fits(m), KeepsDead PROVE Fits(m)'
BY DEF Fits, KeepsDead

\* The stream is left alone, or its first message is read.
LEMMA DeliveredStays ==
    ASSUME Delivered, KeepsDead, confirmed' \subseteq confirmed,
           wire' = wire \/ (wire # <<>> /\ wire' = Tail(wire))
    PROVE  Delivered'
<1>1. wire' \in Seq(Carried)
  BY DEF Delivered
<1>2. \A m \in Carried : Fits(m)'
  BY FitsStays DEF Delivered
<1>3. \A id \in confirmed' : id # 0 => Dead(id)'
  BY DEF Delivered, KeepsDead
<1> QED BY <1>1, <1>2, <1>3, DeliveredIf

LEMMA DeliveredPublishes ==
    ASSUME Delivered, KeepsDead, NEW S, NEW events \in Seq(S), Publish(events),
           \A m \in S : Fits(m)', \A id \in confirmed' : id # 0 => Dead(id)'
    PROVE  Delivered'
<1>1. wire' \in Seq(Carried \cup S)
  <2>1. wire \in Seq(Carried \cup S) /\ events \in Seq(Carried \cup S)
    BY DEF Delivered
  <2> QED BY <2>1 DEF Publish
<1>2. \A m \in Carried : Fits(m)'
  BY FitsStays DEF Delivered
<1> QED BY <1>1, <1>2, DeliveredIf

LEMMA FirstMessage ==
    ASSUME Delivered, wire # <<>>
    PROVE  Fits(Head(wire))
<1>1. Head(wire) \in Carried
  BY DEF Delivered, Carried
<1> QED BY <1>1 DEF Delivered

LEMMA CardsStay == ASSUME Cards, UNCHANGED <<live, dismissed, asked>> PROVE Cards'
BY DEF Cards

\* A step that leaves the page request alone, and of the list at most starts it over.
LEMMA WalkSteps ==
    ASSUME Walk, UNCHANGED <<load, list.hasMore, list.error>>, list'.cursor \in {list.cursor, 0},
           owed' \subseteq owed,
           \A id \in owed' : id \in Ids(history) => id \in Ids(history'),
           \A c \in ram' \cup rows' : Ended(c) /\ c.id \in owed' => c \in ram \cup rows,
           \A id \in owed' : EndedOf(id, ram' \cup rows'),
           \A id \in owed' : EndedOf(id, load.items \cup rows) => EndedOf(id, load.items \cup rows')
    PROVE  Walk'
<1>1. \A cursor : Ahead(cursor) => Ahead(cursor)'
  BY DEF Ahead
<1>2. Between'
  BY <1>1 DEF Walk, Between
<1>3. Asked'
  BY <1>1 DEF Walk, Asked
<1>4. Listing'
  BY DEF Walk, Listing
<1>5. Answered'
  BY DEF Walk, Answered
<1> QED BY <1>2, <1>3, <1>4, <1>5 DEF Walk

\* A step that only adds to History.
LEMMA WalkStays ==
    ASSUME Walk, UNCHANGED <<ram, rows, owed, load, list>>, Ids(history) \subseteq Ids(history')
    PROVE  Walk'
BY WalkSteps DEF Walk

-----------------------------------------------------------------------------
(* The steps of the server. *)

LEMMA Growing ==
    ASSUME Types, clock' \in Nat, clock <= clock'
    PROVE  Loads \subseteq Loads' /\ Pages \subseteq Pages'
BY DEF Types, Loads, Pages

\* Pipeline.save: what leaves RAM has ended, and what is then in neither history is not owed.
LEMMA SaveIs ==
    ASSUME LInv, NEW c \in Copies, NEW type \in {"exchange.started", "response.completed"},
           Save(c, type)
    PROVE  /\ ram' \in SUBSET Copies /\ IsFiniteSet(ram')
           /\ ram' \subseteq Without(ram, c.id) \cup {c}
           /\ owed' \subseteq owed
           /\ \A d \in ram : d.id # c.id /\ d \notin ram' /\ d.id \in owed' => d.id \in Ids(rows)
           /\ KeepsDead /\ confirmed' = confirmed => Delivered'
<1> DEFINE saved == Without(ram, c.id) \cup {c}
<1> DEFINE out == Evicted(saved)
<1>1. /\ ram' = saved \ out /\ owed' = owed \ {id \in Ids(out) : id \notin Ids(rows)}
      /\ Publish([i \in 1..Cardinality(out) |->
                     LET e == OldestFirst(out)[i] IN Event("exchange.evicted", e.id, e.revision)]
                 \o <<Event(type, c.id, c.revision)>>)
  BY DEF Save
<1>2. saved \in SUBSET Copies /\ IsFiniteSet(saved)
  <2>1. Without(ram, c.id) \in SUBSET ram
    BY DEF Without
  <2>2. IsFiniteSet(Without(ram, c.id))
    BY <2>1, FS_Subset DEF LInv, Types
  <2> QED BY <2>1, <2>2, FS_AddElement DEF LInv, Types
<1>3. out \in SUBSET saved /\ IsFiniteSet(out) /\ Cardinality(out) \in Nat
  <2>1. out \in SUBSET saved
    BY DEF Evicted
  <2> QED BY <1>2, <2>1, FS_Subset, FS_CardinalityType
<1>4. ram' \in SUBSET saved /\ IsFiniteSet(ram')
  BY <1>1, <1>2, FS_Difference
<1>5. ASSUME NEW d \in ram, d.id # c.id, d \notin ram', d.id \in owed' PROVE d.id \in Ids(rows)
  <2>1. d \in out
    BY <1>1, <1>5 DEF Without
  <2> HIDE DEF out
  <2> QED BY <1>1, <1>5, <2>1 DEF Ids
<1>6. ASSUME KeepsDead, confirmed' = confirmed PROVE Delivered'
  <2> DEFINE evictions == [i \in 1..Cardinality(out) |->
                 LET e == OldestFirst(out)[i] IN Event("exchange.evicted", e.id, e.revision)]
  <2> DEFINE S == {evictions[i] : i \in 1..Cardinality(out)}
  <2> DEFINE last == Event(type, c.id, c.revision)
  <2>1. \A m \in S : m.type = "exchange.evicted"
    BY DEF Event
  <2>2. evictions \in Seq(S)
    <3> DEFINE n == Cardinality(out)
    <3>1. evictions = [i \in 1..n |-> evictions[i]]
      OBVIOUS
    <3> HIDE DEF n, evictions
    <3>2. evictions \in Seq({evictions[i] : i \in 1..n})
      BY <1>3, <3>1, ListsItsElements DEF n
    <3> QED BY <3>2 DEF n
  <2>3. Fits(last)' /\ \A m \in S : Fits(m)'
    BY <2>1 DEF Fits, Event, Copies
  <2>4. Publish(evictions \o <<last>>)
    BY <1>1
  <2> HIDE DEF out, evictions, last, S
  <2>5. evictions \o <<last>> \in Seq(S \cup {last})
    BY <2>2
  <2>6. \A id \in confirmed' : id # 0 => Dead(id)'
    BY <1>6 DEF LInv, Delivered, KeepsDead
  <2> QED BY <1>6, <2>3, <2>4, <2>5, <2>6, DeliveredPublishes DEF LInv
<1> HIDE DEF out
<1> QED BY <1>1, <1>2, <1>4, <1>5, <1>6

\* What is saved is a copy of an exchange that the walk does not owe.
LEMMA SaveWalks ==
    ASSUME LInv, NEW c \in Copies, NEW type \in {"exchange.started", "response.completed"},
           Save(c, type), c.id \notin owed, UNCHANGED <<rows, lists, load>>
    PROVE  Walk'
<1>1. /\ ram' \subseteq Without(ram, c.id) \cup {c} /\ owed' \subseteq owed
      /\ \A d \in ram : d.id # c.id /\ d \notin ram' /\ d.id \in owed' => d.id \in Ids(rows)
  BY SaveIs
<1>2. Walk /\ \A d \in rows : Ended(d)
  BY DEF LInv, EndsOnce
<1>3. \A d \in ram' \cup rows' : Ended(d) /\ d.id \in owed' => d \in ram \cup rows
  BY <1>1 DEF Without, lists
<1>4. ASSUME NEW id \in owed' PROVE EndedOf(id, ram' \cup rows')
  <2>1. PICK d \in ram \cup rows : d.id = id /\ Ended(d)
    BY <1>1, <1>2 DEF Walk, EndedOf
  <2> QED BY <1>1, <1>2, <2>1 DEF EndedOf, Ids
<1> QED BY <1>1, <1>2, <1>3, <1>4, WalkSteps DEF lists

LEMMA Starts == ASSUME LInv, Start PROVE LInv'
<1> DEFINE c == [id |-> started', revision |-> 1, started |-> clock', completed |-> 0]
<1>1. /\ started < MaxExchanges /\ started' = started + 1 /\ clock' = clock + 1
      /\ Save(c, "exchange.started")
      /\ UNCHANGED <<queued, rows, connected, asked, load, confirmed, live, history, dismissed, list, gone, rare>>
  BY DEF Start, lists
<1>2. /\ clock \in Nat /\ started \in 0..MaxExchanges /\ MaxExchanges \in Nat
  BY LimitsAssumption DEF LInv, Types
<1>3. /\ c \in Copies /\ c.id = started + 1 /\ ~Ended(c) /\ OrderingTime(c) = clock + 1
  BY <1>1, <1>2 DEF Copies, Ended, OrderingTime
<1> HIDE DEF c
<1>4. /\ ram' \in SUBSET Copies /\ IsFiniteSet(ram')
      /\ ram' \subseteq Without(ram, c.id) \cup {c}
      /\ owed' \subseteq owed
      /\ KeepsDead /\ confirmed' = confirmed => Delivered'
  BY <1>1, <1>3, SaveIs
<1>5. \A d \in Known : d.id <= started /\ OrderingTime(d) <= clock /\ d \in Copies
  BY DEF LInv, EndsOnce, Types, Known, Stored, Loads
<1>6. \A d \in Known : d.id # c.id
  BY <1>2, <1>3, <1>5 DEF Copies
<1>7. Known' \subseteq Known \cup {c} /\ ram' \subseteq ram \cup {c} /\ queued' = queued /\ rows' = rows
  BY <1>1, <1>4 DEF Known, Stored, Without
<1>8. EndsOnce'
  <2>1. Single(ram)'
    BY <1>6, <1>7 DEF LInv, EndsOnce, Single, Known, Stored
  <2>2. \A d \in Known' : d.id <= started' /\ OrderingTime(d) <= clock'
    <3>1. \A d \in Copies : d.id \in Nat /\ OrderingTime(d) \in Nat
      BY Times
    <3> QED BY <1>1, <1>2, <1>3, <1>5, <1>7, <3>1
  <2>3. \A d \in queued' \cup rows' : Ended(d)
    BY <1>7 DEF LInv, EndsOnce
  <2>4. \A a, d \in Known' : a.id = d.id /\ Ended(d) => (Ended(a) => a = d) /\ (a \in ram' => Ended(a))
    BY <1>3, <1>6, <1>7 DEF LInv, EndsOnce
  <2> QED BY <2>1, <2>2, <2>3, <2>4 DEF EndsOnce
<1>9. Types'
  <2>1. load' \in Loads' /\ list' \in Pages'
    BY <1>1, <1>2, Growing DEF LInv, Types
  <2> QED BY <1>1, <1>2, <1>4, <2>1 DEF LInv, Types
<1>10. KeepsDead
  BY <1>1, <1>2, <1>3, <1>7, DeadStays DEF LInv, Stored, Ids
<1>11. Walk'
  <2>1. c.id \notin owed
    BY <1>6 DEF LInv, Walk, EndedOf, Known, Stored
  <2> QED BY <1>1, <1>3, <2>1, SaveWalks DEF lists
<1> QED BY <1>1, <1>4, <1>8, <1>9, <1>10, <1>11, CardsStay DEF LInv

LEMMA EndOf ==
    ASSUME NEW c \in Copies, NEW t \in Nat \ {0}, NEW e,
           e = [c EXCEPT !.revision = 2, !.completed = t]
    PROVE  e \in Copies /\ e.id = c.id /\ Ended(e) /\ OrderingTime(e) = t
BY DEF Copies, Ended, OrderingTime

LEMMA Completes == ASSUME LInv, NEW c \in ram, Complete(c) PROVE LInv'
<1> DEFINE e == [c EXCEPT !.revision = 2, !.completed = clock']
<1>1. /\ ~Ended(c) /\ clock' = clock + 1 /\ Save(e, "response.completed") /\ queued' = queued \cup {e}
      /\ UNCHANGED <<started, rows, connected, asked, load, confirmed, live, history, dismissed, list, gone, rare>>
  BY DEF Complete, lists
<1>2. clock \in Nat /\ c \in Copies
  BY DEF LInv, Types
<1>3. e \in Copies /\ e.id = c.id /\ Ended(e) /\ OrderingTime(e) = clock + 1
  <2> DEFINE t == clock'
  <2>1. t \in Nat \ {0} /\ t = clock + 1 /\ e = [c EXCEPT !.revision = 2, !.completed = t]
    BY <1>1, <1>2
  <2> HIDE DEF t, e
  <2> QED BY <1>2, <2>1, EndOf
<1> HIDE DEF e
<1>4. /\ ram' \in SUBSET Copies /\ IsFiniteSet(ram')
      /\ ram' \subseteq Without(ram, c.id) \cup {e}
      /\ owed' \subseteq owed
      /\ KeepsDead /\ confirmed' = confirmed => Delivered'
  BY <1>1, <1>3, SaveIs
<1>5. c \in Known /\ \A d \in Known : d.id <= started /\ OrderingTime(d) <= clock /\ d \in Copies
  BY DEF LInv, EndsOnce, Types, Known, Stored, Loads
<1>6. \A d \in Known : d.id = c.id => ~Ended(d)
  BY <1>1, <1>5 DEF LInv, EndsOnce
<1>7. /\ Known' \subseteq Known \cup {e} /\ rows' = rows
      /\ \A d \in ram' : d = e \/ (d \in ram /\ d.id # c.id)
  BY <1>1, <1>4 DEF Known, Stored, Without
<1>8. EndsOnce'
  <2>1. Single(ram)'
    BY <1>3, <1>7 DEF LInv, EndsOnce, Single
  <2>2. \A d \in Known' : d.id <= started' /\ OrderingTime(d) <= clock'
    <3>1. \A d \in Copies : OrderingTime(d) \in Nat
      BY Times
    <3> QED BY <1>1, <1>2, <1>3, <1>5, <1>7, <3>1
  <2>3. \A d \in queued' \cup rows' : Ended(d)
    BY <1>1, <1>3, <1>7 DEF LInv, EndsOnce
  <2>4. \A a, d \in Known' : a.id = d.id /\ Ended(d) => (Ended(a) => a = d) /\ (a \in ram' => Ended(a))
    BY <1>3, <1>6, <1>7 DEF LInv, EndsOnce
  <2> QED BY <2>1, <2>2, <2>3, <2>4 DEF EndsOnce
<1>9. Types'
  <2>1. load' \in Loads' /\ list' \in Pages'
    BY <1>1, <1>2, Growing DEF LInv, Types
  <2> QED BY <1>1, <1>2, <1>3, <1>4, <2>1 DEF LInv, Types
<1>10. KeepsDead
  <2>1. \A d \in Stored' : d.id \in Ids(Stored)
    BY <1>1, <1>3, <1>7 DEF Stored, Ids
  <2> QED BY <1>1, <2>1, DeadStays, LimitsAssumption DEF LInv, Types
<1>11. Walk'
  <2>1. c.id \notin owed
    BY <1>6 DEF LInv, Walk, EndedOf, Known, Stored
  <2> QED BY <1>1, <1>3, <2>1, SaveWalks DEF lists
<1> QED BY <1>1, <1>4, <1>8, <1>9, <1>10, <1>11, CardsStay DEF LInv

LEMMA Commits == ASSUME LInv, NEW c \in queued, Commit(c) PROVE LInv'
<1>1. /\ queued' = queued \ {c} /\ rows' = rows \cup {c}
      /\ UNCHANGED <<clock, started, ram, wire, connected, asked, load, confirmed, lists, gone, owed, rare>>
  BY DEF Commit
<1>2. Types'
  <2>1. IsFiniteSet(rows')
    BY <1>1, FS_AddElement DEF LInv, Types
  <2> QED BY <1>1, <2>1 DEF LInv, Types, lists, Loads, Pages
<1>3. EndsOnce'
  BY <1>1, EndsShrinks DEF LInv, Known
<1>4. Delivered'
  <2>1. Stored' = Stored
    BY <1>1 DEF Stored
  <2>2. KeepsDead
    BY <1>1, <2>1 DEF KeepsDead, Dead
  <2> QED BY <1>1, <2>2, DeliveredStays DEF LInv
<1>5. Walk'
  <2>1. c \in Known /\ Ended(c) /\ ram \cup rows \subseteq Known /\ \A d \in rows : Ended(d)
    BY DEF LInv, EndsOnce, Known, Stored
  <2>2. ASSUME NEW d \in ram' \cup rows', Ended(d), d.id \in owed' PROVE d \in ram \cup rows
    <3>1. PICK o \in ram \cup rows : o.id = d.id /\ Ended(o)
      BY <1>1, <2>2 DEF LInv, Walk, EndedOf
    <3>2. d \in Known /\ o = d
      BY <1>1, <2>1, <2>2, <3>1 DEF LInv, EndsOnce
    <3> QED BY <3>1, <3>2
  <2>3. \A id \in owed' : EndedOf(id, ram' \cup rows')
    BY <1>1 DEF LInv, Walk, EndedOf
  <2>4. \A id : EndedOf(id, load.items \cup rows) => EndedOf(id, load.items \cup rows')
    BY <1>1 DEF EndedOf
  <2> QED BY <1>1, <2>2, <2>3, <2>4, WalkSteps DEF LInv, lists
<1> QED BY <1>1, <1>2, <1>3, <1>4, <1>5, CardsStay DEF LInv, lists

LEMMA Deletes == ASSUME LInv, NEW c \in Present, DeleteExchange(c) PROVE LInv'
<1> DEFINE event == Event("exchange.deleted", c.id, c.revision)
<1>1. /\ Ended(c) /\ queued = {} /\ ram' = Without(ram, c.id) /\ rows' = Without(rows, c.id)
      /\ Publish(<<event>>) /\ owed' = owed \ {c.id} /\ confirmed' \subseteq confirmed \cup {c.id}
      /\ UNCHANGED <<clock, started, queued, connected, asked, load, lists, gone>>
  BY DEF DeleteExchange
<1>2. /\ c \in Known /\ c \in Copies /\ c.id \in 1..started
  <2>1. c \in Stored /\ c \in Copies /\ MaxExchanges \in Nat
    BY LimitsAssumption DEF LInv, Types, Stored, Present
  <2>2. c.id \in 1..MaxExchanges /\ c.id <= started
    BY <2>1 DEF LInv, EndsOnce, Known, Copies
  <2> QED BY <2>1, <2>2 DEF LInv, Types, Known
<1>3. ram' \in SUBSET ram /\ rows' \in SUBSET rows
  BY <1>1 DEF Without
<1>4. Types'
  <2>1. IsFiniteSet(ram') /\ IsFiniteSet(rows')
    BY <1>3, FS_Subset DEF LInv, Types
  <2> QED BY <1>1, <1>3, <2>1 DEF LInv, Types, lists, Loads, Pages
<1>5. EndsOnce'
  BY <1>1, <1>3, EndsShrinks DEF LInv, Known
<1>6. KeepsDead
  BY <1>1, <1>3 DEF KeepsDead, Dead, Stored, Ids
<1>7. Dead(c.id)'
  BY <1>1, <1>2 DEF Dead, Stored, Ids, Without
<1>8. Delivered'
  <2> DEFINE S == {event}
  <2> DEFINE events == <<event>>
  <2>1. \A m \in S : Fits(m)'
    BY <1>7 DEF Fits, Event
  <2>2. \A id \in confirmed' : id # 0 => Dead(id)'
    BY <1>1, <1>6, <1>7 DEF LInv, Delivered, KeepsDead
  <2>3. events \in Seq(S) /\ Publish(events)
    BY <1>1
  <2> HIDE DEF event, events, S
  <2> QED BY <1>6, <2>1, <2>2, <2>3, DeliveredPublishes DEF LInv
<1>9. Walk'
  <2>1. ASSUME NEW id \in owed' PROVE EndedOf(id, ram' \cup rows')
    BY <1>1 DEF LInv, Walk, EndedOf, Without
  <2>2. ASSUME NEW id \in owed', EndedOf(id, load.items \cup rows)
        PROVE  EndedOf(id, load.items \cup rows')
    BY <1>1, <2>2 DEF EndedOf, Without
  <2> QED BY <1>1, <1>3, <2>1, <2>2, WalkSteps DEF LInv, lists
<1> QED BY <1>1, <1>4, <1>5, <1>8, <1>9, CardsStay DEF LInv, lists

LEMMA Clears == ASSUME LInv, ClearExchanges PROVE LInv'
<1> DEFINE event == Event("history.cleared", 0, 0)
<1>1. /\ queued = {} /\ ram' = {c \in ram : ~Ended(c)} /\ rows' = {}
      /\ Publish(<<event>>) /\ owed' = {} /\ confirmed' \subseteq confirmed \cup {0}
      /\ UNCHANGED <<clock, started, queued, connected, asked, load, lists, gone>>
  BY DEF ClearExchanges
<1>2. ram' \in SUBSET ram /\ rows' \in SUBSET rows
  BY <1>1
<1>3. Types'
  <2>1. IsFiniteSet(ram') /\ IsFiniteSet(rows')
    BY <1>2, FS_Subset DEF LInv, Types
  <2> QED BY <1>1, <1>2, <2>1 DEF LInv, Types, lists, Loads, Pages
<1>4. EndsOnce'
  BY <1>1, <1>2, EndsShrinks DEF LInv, Known
<1>5. KeepsDead
  BY <1>1, <1>2 DEF KeepsDead, Dead, Stored, Ids
<1>6. Delivered'
  <2> DEFINE S == {event}
  <2> DEFINE events == <<event>>
  <2>1. \A m \in S : Fits(m)'
    BY DEF Fits, Event
  <2>2. \A id \in confirmed' : id # 0 => Dead(id)'
    BY <1>1, <1>5 DEF LInv, Delivered, KeepsDead
  <2>3. events \in Seq(S) /\ Publish(events)
    BY <1>1
  <2> HIDE DEF event, events, S
  <2> QED BY <1>5, <2>1, <2>2, <2>3, DeliveredPublishes DEF LInv
<1>7. Walk'
  BY <1>1, <1>2, WalkSteps DEF LInv, lists
<1> QED BY <1>1, <1>3, <1>4, <1>6, <1>7, CardsStay DEF LInv, lists

\* The parts that are about neither the page's requests nor its lists.
LEMMA ServerStays ==
    ASSUME LInv, UNCHANGED server, load'.items \subseteq Known, confirmed' \subseteq confirmed,
           wire' = wire \/ (wire # <<>> /\ wire' = Tail(wire))
    PROVE  EndsOnce' /\ Delivered' /\ KeepsDead
<1>1. EndsOnce'
  BY EndsShrinks DEF LInv, server
<1>2. KeepsDead
  BY DEF KeepsDead, Dead, Stored, server
<1> QED BY <1>1, <1>2, DeliveredStays DEF LInv

LEMMA AnswersDetail == ASSUME LInv, NEW r \in asked, AnswerDetail(r) PROVE LInv'
<1> DEFINE a == [r EXCEPT !.answered = TRUE, !.found = Of(Present, r.id)]
<1>1. /\ asked' = (asked \ {r}) \cup {a}
      /\ UNCHANGED <<server, wire, connected, load, confirmed, lists, gone, owed, rare>>
  BY DEF AnswerDetail
<1>2. r \in Requests /\ Of(Present, r.id) \in SUBSET Copies
  BY DEF LInv, Types, Of, Present
<1>3. a \in Requests /\ a.id = r.id /\ a.found = Of(Present, r.id)
  BY <1>2 DEF Requests
<1> HIDE DEF a
<1>4. Types'
  BY <1>1, <1>3 DEF LInv, Types, server, lists, Loads, Pages
<1>5. EndsOnce' /\ Delivered'
  BY <1>1, ServerStays DEF Known
<1>6. Cards'
  <2>1. Single(a.found)
    BY <1>3 DEF LInv, EndsOnce, Single, Of, Present, Known, Stored, Ids
  <2>2. \A c \in a.found : c.id = a.id
    BY <1>3 DEF Of
  <2> QED BY <1>1, <2>1, <2>2 DEF LInv, Cards, lists
<1>7. Walk'
  BY <1>1, WalkStays DEF LInv, server, lists
<1> QED BY <1>4, <1>5, <1>6, <1>7 DEF LInv

LEMMA ListsMemory == ASSUME LInv, ListMemory PROVE LInv'
<1>1. /\ load.at = "sent" /\ load' = [load EXCEPT !.at = "memory", !.items = ram]
      /\ owed' = IF load.cursor = 0 THEN {c.id : c \in {d \in Present : Ended(d)}} ELSE owed
      /\ UNCHANGED <<server, wire, connected, asked, confirmed, lists, gone, rare>>
  BY DEF ListMemory
<1>2. /\ load'.at = "memory" /\ load'.items = ram /\ load' \in Loads
      /\ load'.cursor = load.cursor /\ load'.reset = load.reset
  BY <1>1 DEF LInv, Types, Loads
<1>3. Types'
  BY <1>1, <1>2 DEF LInv, Types, server, lists, Loads, Pages
<1>4. EndsOnce' /\ Delivered'
  BY <1>1, <1>2, ServerStays DEF Known, Stored
<1>5. ASSUME NEW id \in owed' PROVE EndedOf(id, ram \cup rows)
  BY <1>1, <1>5 DEF LInv, Walk, EndedOf, Present
<1>6. Walk'
  <2>1. Asked'
    BY <1>1, <1>2 DEF LInv, Walk, Asked, Ahead, server, lists
  <2>2. Listing'
    <3>1. \A c \in load'.items : c.id \in owed' => Ended(c)
      BY <1>2, <1>5 DEF LInv, EndsOnce, EndedOf, Known, Stored
    <3> QED BY <1>1, <1>2, <1>5, <3>1 DEF Listing, server
  <2>3. Between' /\ Answered'
    BY <1>2 DEF Between, Answered
  <2> QED BY <1>1, <1>5, <2>1, <2>2, <2>3 DEF Walk, server
<1> QED BY <1>1, <1>3, <1>4, <1>6, CardsStay DEF LInv, lists

LEMMA ListsRows == ASSUME LInv, ListRows PROVE LInv'
<1> DEFINE memory == Older(load.items, load.cursor)
<1> DEFINE limit == Limit + Cardinality(memory)
<1> DEFINE merged == memory \cup {r \in Top(OlderRows, limit) : r.id \notin Ids(memory)}
<1> DEFINE page == Top(merged, Limit)
<1> DEFINE more == PersistentMore(limit) \/ page # merged
<1> DEFINE next == IF more /\ page # {} THEN OldestOf(page) ELSE 0
<1>1. /\ load.at = "memory"
      /\ load' = [load EXCEPT !.at = "answered", !.items = page, !.hasMore = more, !.next = next]
      /\ UNCHANGED <<server, wire, connected, asked, confirmed, lists, gone, owed, rare>>
  BY DEF ListRows
<1>2. /\ load.items \in SUBSET Copies /\ IsFiniteSet(load.items)
      /\ rows \in SUBSET Copies /\ IsFiniteSet(rows)
  BY DEF LInv, Types, Loads
<1>3. /\ memory \in SUBSET load.items /\ OlderRows \in SUBSET rows
      /\ memory \in SUBSET Copies /\ OlderRows \in SUBSET Copies
  BY <1>2 DEF Older, OlderRows
<1>4. IsFiniteSet(memory) /\ IsFiniteSet(OlderRows)
  <2> HIDE DEF memory
  <2> QED BY <1>2, <1>3, FS_Subset
<1>5. Single(OlderRows)
  BY <1>3 DEF LInv, EndsOnce, Single, Known, Stored
<1>6. merged \in SUBSET (load.items \cup rows) /\ IsFiniteSet(merged) /\ page \in SUBSET merged
  <2> DEFINE fresh == {r \in Top(OlderRows, limit) : r.id \notin Ids(memory)}
  <2>1. fresh \in SUBSET OlderRows
    BY TopIs
  <2>2. merged = memory \cup fresh
    OBVIOUS
  <2> HIDE DEF fresh, memory, limit
  <2>3. IsFiniteSet(fresh)
    BY <1>4, <2>1, FS_Subset
  <2>4. IsFiniteSet(memory \cup fresh)
    BY <1>4, <2>3, FS_Union
  <2> QED BY <1>3, <2>1, <2>2, <2>4, TopIs
<1>7. ASSUME NEW c \in memory \cup {r \in OlderRows : r.id \notin Ids(memory)}, c \notin page
      PROVE  more /\ OrderingTime(c) < next
  <2>1. /\ Top(OlderRows, limit) # OlderRows \/ page # merged
        /\ page # {} /\ OrderingTime(c) < OldestOf(page)
    <3> HIDE DEF memory
    <3> QED BY <1>3, <1>4, <1>5, <1>7, PageCovers
  <2> QED BY <2>1 DEF PersistentMore
<1> HIDE DEF memory, limit, merged, page, more
<1>8. page \in SUBSET Known /\ page \in SUBSET Copies /\ IsFiniteSet(page)
  BY <1>2, <1>6, FS_Subset DEF Known, Stored
<1>9. next \in 0..clock
  <2>1. clock \in Nat /\ \A c \in page : OrderingTime(c) \in Nat /\ OrderingTime(c) <= clock
    BY <1>8, Times DEF LInv, Types, EndsOnce
  <2> QED BY <1>8, <2>1, OldestIs
<1> HIDE DEF next
<1>10. more \in BOOLEAN
  BY DEF more, PersistentMore
<1>11. /\ load'.at = "answered" /\ load'.items = page /\ load'.hasMore = more /\ load'.next = next
       /\ load'.cursor = load.cursor /\ load'.reset = load.reset /\ load' \in Loads
  BY <1>1, <1>8, <1>9, <1>10 DEF LInv, Types, Loads
<1>12. Types'
  BY <1>1, <1>8, <1>11 DEF LInv, Types, server, lists, Loads, Pages
<1>13. EndsOnce' /\ Delivered'
  BY <1>1, <1>8, <1>11, ServerStays
<1>14. ASSUME NEW c \in ram \cup rows, Ended(c), c.id \in owed
       PROVE  \/ c.id \in Ids(page)
              \/ load.cursor # 0 /\ c.id \in Ids(history)
              \/ more /\ c.completed < next
  <2>1. c \in load.items \cup rows
    <3>1. PICK d \in load.items \cup rows : d.id = c.id /\ Ended(d)
      BY <1>1, <1>14 DEF LInv, Walk, Listing, EndedOf
    <3>2. c = d
      BY <1>14, <3>1 DEF LInv, EndsOnce, Known, Stored
    <3> QED BY <3>1, <3>2
  <2>2. OrderingTime(c) = c.completed /\ c \in Copies
    BY <1>14, Times DEF LInv, Types
  <2>3. CASE load.cursor = 0 \/ c.completed < load.cursor
    <3>1. c \in memory \/ c \in OlderRows
      BY <2>1, <2>2, <2>3 DEF memory, Older, OlderRows
    <3>2. c.id \in Ids(memory) => c \in memory
      <4>1. ASSUME NEW d \in memory, d.id = c.id PROVE d = c
        <5>1. d \in load.items /\ Ended(d)
          BY <1>1, <1>3, <1>14, <4>1 DEF LInv, Walk, Listing
        <5> QED BY <1>14, <4>1, <5>1 DEF LInv, EndsOnce, Known, Stored
      <4> QED BY <4>1 DEF Ids
    <3>3. c \in memory \cup {r \in OlderRows : r.id \notin Ids(memory)}
      BY <3>1, <3>2
    <3> QED BY <1>7, <2>2, <3>3 DEF Ids
  <2>4. CASE ~(load.cursor = 0 \/ c.completed < load.cursor)
    BY <1>1, <1>14, <2>4 DEF LInv, Walk, Asked, Ahead
  <2> QED BY <2>3, <2>4
<1>15. Walk'
  <2>1. Asked'
    BY <1>1, <1>11 DEF LInv, Walk, Asked, Ahead, server, lists
  <2>2. Answered'
    BY <1>1, <1>11, <1>14 DEF Answered, server, lists
  <2>3. Between' /\ Listing'
    BY <1>11 DEF Between, Listing
  <2> QED BY <1>1, <2>1, <2>2, <2>3 DEF LInv, Walk, server
<1> QED BY <1>1, <1>12, <1>13, <1>15, CardsStay DEF LInv, lists

-----------------------------------------------------------------------------
(* The page's requests for History. *)

LEMMA NoLoadIs ==
    ASSUME Types, NEW reset \in BOOLEAN, NEW cursor \in 0..clock
    PROVE  /\ NoLoad \in Loads /\ NoLoad.at = "none" /\ NoLoad.items = {}
           /\ LET sent == [NoLoad EXCEPT !.at = "sent", !.reset = reset, !.cursor = cursor]
              IN  /\ sent \in Loads /\ sent.at = "sent" /\ sent.items = {}
                  /\ sent.reset = reset /\ sent.cursor = cursor
<1>1. 0 \in 0..clock
  BY DEF Types
<1> QED BY <1>1 DEF NoLoad, Loads

LEMMA LoadsMore == ASSUME LInv, LoadMore PROVE LInv'
<1>1. /\ load.at = "none"
      /\ load' = [NoLoad EXCEPT !.at = "sent", !.reset = FALSE, !.cursor = list.cursor]
      /\ list' = [list EXCEPT !.error = FALSE]
      /\ UNCHANGED <<server, wire, connected, asked, confirmed, live, history, dismissed, gone, owed, rare>>
  BY DEF LoadMore, LoadHistory
<1>2. list.cursor \in 0..clock /\ Types
  BY DEF LInv, Types, Pages
<1>3. /\ load' \in Loads /\ load'.at = "sent" /\ load'.items = {}
      /\ load'.reset = FALSE /\ load'.cursor = list.cursor
  BY <1>1, <1>2, NoLoadIs
<1>4. list' \in Pages /\ list'.cursor = list.cursor
  BY <1>1 DEF LInv, Types, Pages
<1>5. Types'
  BY <1>1, <1>3, <1>4, FS_EmptySet DEF LInv, Types, server, Loads, Pages
<1>6. EndsOnce' /\ Delivered'
  BY <1>1, <1>3, ServerStays
<1>7. Walk'
  <2>1. Asked'
    BY <1>1, <1>3, <1>4 DEF LInv, Walk, Between, Asked, Ahead, server
  <2>2. Between' /\ Listing' /\ Answered'
    BY <1>3 DEF Between, Listing, Answered
  <2> QED BY <1>1, <2>1, <2>2 DEF LInv, Walk, server
<1> QED BY <1>1, <1>5, <1>6, <1>7, CardsStay DEF LInv

LEMMA ReceivesPage == ASSUME LInv, ReceivePage PROVE LInv'
<1>1. /\ load.at = "answered" /\ load' = NoLoad
      /\ history' = IF load.reset THEN MergeNewest({}, load.items) ELSE AppendOlder(history, load.items)
      /\ list' = [cursor |-> load.next, hasMore |-> load.hasMore, error |-> FALSE]
      /\ UNCHANGED <<server, wire, connected, asked, confirmed, live, dismissed, gone, owed, rare>>
  BY DEF ReceivePage
<1>2. load \in Loads /\ load.items \in SUBSET Copies /\ load.next \in 0..clock /\ load.hasMore \in BOOLEAN
  BY DEF LInv, Types, Loads
<1>3. NoLoad \in Loads /\ NoLoad.at = "none" /\ NoLoad.items = {}
  BY NoLoadIs DEF LInv, Types, Pages
<1>4. /\ history' \in SUBSET Copies /\ Ids(load.items) \subseteq Ids(history')
      /\ ~load.reset => Ids(history) \subseteq Ids(history')
  <2>1. CASE load.reset
    <3> DEFINE shown == {}
    <3>1. shown \in SUBSET Copies /\ history' = MergeNewest(shown, load.items)
      BY <1>1, <2>1
    <3> HIDE DEF shown
    <3>2. /\ MergeNewest(shown, load.items) \in SUBSET Copies
          /\ Ids(MergeNewest(shown, load.items)) = Ids(shown) \cup Ids(load.items)
      BY <1>2, <3>1, Merging
    <3> QED BY <2>1, <3>1, <3>2
  <2>2. CASE ~load.reset
    BY <1>1, <1>2, <2>2 DEF LInv, Types, AppendOlder, Ids
  <2> QED BY <2>1, <2>2
<1>5. list' \in Pages /\ list'.cursor = load.next /\ list'.hasMore = load.hasMore
  BY <1>1, <1>2 DEF Pages
<1>6. Types'
  BY <1>1, <1>3, <1>4, <1>5, FS_EmptySet DEF LInv, Types, server, Loads, Pages
<1>7. EndsOnce' /\ Delivered'
  BY <1>1, <1>3, ServerStays
<1>8. Walk'
  <2>1. \A c \in ram \cup rows : Ended(c) /\ c.id \in owed /\ c.id \notin Ids(history')
           => load.hasMore /\ c.completed < load.next
    BY <1>1, <1>4 DEF LInv, Walk, Asked, Answered
  <2>2. load.hasMore \/ owed \subseteq Ids(history')
    BY <2>1 DEF LInv, Walk, EndedOf
  <2>3. Ahead(list.cursor)'
    BY <1>1, <1>5, <2>1 DEF Ahead, server
  <2>4. Between'
    BY <1>1, <1>5, <2>2, <2>3 DEF Between
  <2>5. Asked' /\ Listing' /\ Answered'
    BY <1>1, <1>3 DEF Asked, Listing, Answered
  <2> QED BY <1>1, <2>4, <2>5 DEF LInv, Walk, server
<1> QED BY <1>1, <1>6, <1>7, <1>8, CardsStay DEF LInv

LEMMA LoadFailing == ASSUME LInv, LoadFails PROVE LInv'
<1>1. /\ load.at # "none" /\ load' = NoLoad /\ list' = [list EXCEPT !.error = TRUE]
      /\ UNCHANGED <<server, wire, connected, asked, confirmed, live, history, dismissed, gone, owed>>
  BY DEF LoadFails
<1>2. NoLoad \in Loads /\ NoLoad.at = "none" /\ NoLoad.items = {}
  BY NoLoadIs DEF LInv, Types, Pages
<1>3. list' \in Pages /\ list'.cursor = list.cursor /\ list'.error
  BY <1>1 DEF LInv, Types, Pages
<1>4. Types'
  BY <1>1, <1>2, <1>3, FS_EmptySet DEF LInv, Types, server, Loads, Pages
<1>5. EndsOnce' /\ Delivered'
  BY <1>1, <1>2, ServerStays
<1>6. Walk'
  <2>1. Between'
    BY <1>1, <1>3 DEF LInv, Walk, Asked, Between, Ahead, server
  <2>2. Asked' /\ Listing' /\ Answered'
    BY <1>1, <1>2 DEF Asked, Listing, Answered
  <2> QED BY <1>1, <2>1, <2>2 DEF LInv, Walk, server
<1> QED BY <1>1, <1>4, <1>5, <1>6, CardsStay DEF LInv

-----------------------------------------------------------------------------
(* The stream, and what the page does with it. *)

LEMMA SendsSnapshot ==
    ASSUME LInv, wire' = <<[type |-> "snapshot", items |-> ram]>>,
           UNCHANGED <<server, asked, load, confirmed, lists, gone, owed>>
    PROVE  LInv'
<1> DEFINE snapshot == [type |-> "snapshot", items |-> ram]
<1>1. Types'
  BY DEF LInv, Types, server, lists, Loads, Pages
<1>2. EndsOnce' /\ KeepsDead
  <2>1. EndsOnce'
    BY EndsShrinks DEF LInv, server, Known
  <2> QED BY <2>1 DEF KeepsDead, Dead, Stored, server
<1>3. Delivered'
  <2> DEFINE S == {snapshot}
  <2>1. wire' \in Seq(S)
    OBVIOUS
  <2>2. \A m \in S : Fits(m)'
    BY DEF LInv, Types, Fits
  <2>3. \A id \in confirmed' : id # 0 => Dead(id)'
    BY <1>2 DEF LInv, Delivered, KeepsDead
  <2> HIDE DEF S
  <2> QED BY <2>1, <2>2, <2>3, DeliveredIf
<1>4. Walk'
  BY WalkStays DEF LInv, server, lists
<1> QED BY <1>1, <1>2, <1>3, <1>4, CardsStay DEF LInv, lists

LEMMA ReadsSnapshot == ASSUME LInv, ReadSnapshot PROVE LInv'
<1>1. /\ wire # <<>> /\ Head(wire).type = "snapshot" /\ wire' = Tail(wire)
      /\ history' = MergeNewest(history, Head(wire).items)
      /\ UNCHANGED <<server, connected, asked, load, confirmed, live, dismissed, list, gone, owed, rare>>
  BY DEF ReadSnapshot, Read
<1>2. Head(wire).items \in SUBSET Copies
  BY <1>1, FirstMessage DEF LInv, Fits
<1>3. history' \in SUBSET Copies /\ Ids(history) \subseteq Ids(history')
  BY <1>1, <1>2, Merging DEF LInv, Types
<1>4. Types'
  BY <1>1, <1>3 DEF LInv, Types, server, Loads, Pages
<1>5. EndsOnce' /\ Delivered'
  BY <1>1, ServerStays DEF Known
<1>6. Walk'
  BY <1>1, <1>3, WalkStays DEF LInv, server
<1> QED BY <1>1, <1>4, <1>5, <1>6, CardsStay DEF LInv

LEMMA ReadsLifecycle ==
    ASSUME LInv, NEW type \in {"exchange.started", "response.completed"}, ReadLifecycle(type)
    PROVE  LInv'
<1> DEFINE e == Head(wire)
<1> DEFINE r == [id |-> e.id, revision |-> e.revision, answered |-> FALSE, found |-> {}]
<1>1. /\ wire # <<>> /\ e.type = type /\ wire' = Tail(wire)
      /\ asked' = asked \/ asked' = asked \cup {r}
      /\ UNCHANGED <<server, connected, load, confirmed, lists, gone, owed, rare>>
  BY DEF ReadLifecycle, Read
<1>2. r \in Requests /\ r.found = {}
  BY <1>1, FirstMessage DEF LInv, Fits, Requests
<1> HIDE DEF e, r
<1>3. Types'
  BY <1>1, <1>2 DEF LInv, Types, server, lists, Loads, Pages
<1>4. EndsOnce' /\ Delivered'
  BY <1>1, ServerStays DEF Known
<1>5. Cards'
  BY <1>1, <1>2 DEF LInv, Cards, Single, lists
<1>6. Walk'
  BY <1>1, WalkStays DEF LInv, server, lists
<1> QED BY <1>3, <1>4, <1>5, <1>6 DEF LInv

\* An answer that is accepted is one card, of an exchange that is not dismissed.
LEMMA AcceptedIs ==
    ASSUME LInv, NEW r \in asked
    PROVE  /\ Accepted(r) \in SUBSET Copies /\ Single(Accepted(r))
           /\ Ids(Accepted(r)) \cap dismissed = {}
BY DEF LInv, Types, Requests, Cards, Single, Accepted, Ids

LEMMA ReceivesDetail == ASSUME LInv, NEW r \in asked, ReceiveDetail(r) PROVE LInv'
<1>1. /\ asked' = asked \ {r}
      /\ history' = MergeNewest(history, Accepted(r))
      /\ live' = MergeRealtime(live, Accepted(r))
      /\ UNCHANGED <<server, wire, connected, load, confirmed, dismissed, list, gone, owed, rare>>
  BY DEF ReceiveDetail
<1>2. /\ history' \in SUBSET Copies /\ Ids(history) \subseteq Ids(history')
  BY <1>1, AcceptedIs, Merging DEF LInv, Types
<1>3. /\ live' \subseteq MergeNewest(live, Accepted(r))
      /\ MergeNewest(live, Accepted(r)) \in SUBSET Copies
      /\ Single(MergeNewest(live, Accepted(r)))
      /\ Ids(MergeNewest(live, Accepted(r))) = Ids(live) \cup Ids(Accepted(r))
  BY <1>1, AcceptedIs, Merging, TopIs DEF LInv, Types, Cards, MergeRealtime
<1>4. Types'
  BY <1>1, <1>2, <1>3 DEF LInv, Types, server, Loads, Pages
<1>5. EndsOnce' /\ Delivered'
  BY <1>1, ServerStays DEF Known
<1>6. Cards'
  <2>1. Single(live')
    BY <1>3 DEF Single
  <2>2. Ids(live') \subseteq Ids(live) \cup Ids(Accepted(r))
    BY <1>3 DEF Ids
  <2> QED BY <1>1, <2>1, <2>2, AcceptedIs DEF LInv, Cards, Single
<1>7. Walk'
  BY <1>1, <1>2, WalkStays DEF LInv, server
<1> QED BY <1>4, <1>5, <1>6, <1>7 DEF LInv

LEMMA CardsShrink ==
    ASSUME Cards, live' \subseteq live, dismissed' \subseteq dismissed, asked' = asked
    PROVE  Cards'
<1>1. Single(live')
  BY DEF Cards, Single
<1>2. Ids(live') \cap dismissed' = {}
  BY DEF Cards, Ids
<1> QED BY <1>1, <1>2 DEF Cards, Single

\* What a list loses of one exchange.
LEMMA Losing ==
    ASSUME NEW S, NEW id
    PROVE  /\ Without(S, id) \subseteq S
           /\ Ids(Without(S, id)) = Ids(S) \ {id}
BY DEF Without, Ids

LEMMA ReadsEvicted == ASSUME LInv, ReadEvicted PROVE LInv'
<1>1. /\ wire # <<>> /\ wire' = Tail(wire) /\ live' \subseteq live
      /\ UNCHANGED <<server, connected, asked, load, confirmed, history, dismissed, list, gone, owed, rare>>
  BY Losing DEF ReadEvicted, Read
<1>2. Types'
  BY <1>1 DEF LInv, Types, server, Loads, Pages
<1>3. EndsOnce' /\ Delivered'
  BY <1>1, ServerStays DEF Known
<1>4. Walk'
  BY <1>1, WalkStays DEF LInv, server
<1> QED BY <1>1, <1>2, <1>3, <1>4, CardsShrink DEF LInv

\* An exchange that was deleted is not owed any more.
LEMMA DeadNotOwed == ASSUME LInv, NEW id, Dead(id) PROVE id \notin owed /\ id \in 1..MaxExchanges
BY LimitsAssumption DEF LInv, Types, Walk, EndedOf, Dead, Stored, Ids

LEMMA ReadsDeleted == ASSUME LInv, ReadDeleted PROVE LInv'
<1> DEFINE id == Head(wire).id
<1>1. /\ wire # <<>> /\ Head(wire).type = "exchange.deleted" /\ wire' = Tail(wire)
      /\ live' = Without(live, id) /\ history' = Without(history, id) /\ dismissed' = dismissed \ {id}
      /\ gone' = gone \cup {id}
      /\ LoadHistory(TRUE, 0)
      /\ list' = [list EXCEPT !.cursor = 0, !.error = list.error /\ load.at # "none"]
      /\ UNCHANGED <<server, connected, asked, confirmed, owed, rare>>
  BY DEF ReadDeleted, Read, RemoveExchangeFromViews
<1>2. id \notin owed /\ id \in 1..MaxExchanges
  BY <1>1, FirstMessage, DeadNotOwed DEF LInv, Fits
<1>3. /\ live' \subseteq live /\ history' \subseteq history /\ dismissed' \subseteq dismissed
      /\ Ids(history') = Ids(history) \ {id}
  BY <1>1, Losing
<1> HIDE DEF id
<1>4. 0 \in 0..clock
  BY DEF LInv, Types
<1>5. /\ list' \in Pages /\ list'.cursor = 0 /\ list'.hasMore = list.hasMore
      /\ load.at # "none" => list'.error = list.error
  BY <1>1, <1>4 DEF LInv, Types, Pages
<1>6. \/ load.at # "none" /\ load' = load
      \/ load' \in Loads /\ load'.at = "sent" /\ load'.items = {} /\ load'.cursor = 0
  <2>1. CASE load.at # "none"
    BY <1>1, <2>1 DEF LoadHistory
  <2>2. CASE load.at = "none"
    <3>1. load' = [NoLoad EXCEPT !.at = "sent", !.reset = TRUE, !.cursor = 0]
      BY <1>1, <2>2 DEF LoadHistory
    <3> QED BY <1>4, <3>1, NoLoadIs DEF LInv
  <2> QED BY <2>1, <2>2
<1>7. Types'
  <2>1. load' \in Loads /\ IsFiniteSet(load'.items)
    BY <1>6, FS_EmptySet DEF LInv, Types
  <2> QED BY <1>1, <1>2, <1>3, <1>5, <2>1 DEF LInv, Types, server, Loads, Pages
<1>8. EndsOnce' /\ Delivered'
  <2>1. load'.items \subseteq Known
    BY <1>6 DEF Known
  <2> QED BY <1>1, <2>1, ServerStays
<1>9. Walk'
  <2>1. CASE load.at # "none" /\ load' = load
    <3>1. /\ UNCHANGED <<load, list.hasMore, list.error>> /\ list'.cursor \in {list.cursor, 0}
          /\ ram' = ram /\ rows' = rows /\ owed' = owed
      BY <1>1, <1>5, <2>1 DEF server
    <3>2. \A i \in owed' : i \in Ids(history) => i \in Ids(history')
      BY <1>2, <1>3, <3>1
    <3> QED BY <3>1, <3>2, WalkSteps DEF LInv, Walk
  <2>2. CASE load'.at = "sent" /\ load'.cursor = 0
    <3>1. Between' /\ Asked' /\ Listing' /\ Answered'
      BY <1>5, <2>2 DEF Between, Asked, Listing, Answered
    <3> QED BY <1>1, <3>1 DEF LInv, Walk, server
  <2> QED BY <1>6, <2>1, <2>2
<1> QED BY <1>1, <1>3, <1>7, <1>8, <1>9, CardsShrink DEF LInv

\* Clearing the lists, when nothing is owed any more.
LEMMA ClearingLists ==
    ASSUME LInv, ClearLists, owed' = {}, UNCHANGED <<server, asked, load, gone>>
    PROVE  Types' /\ Cards' /\ Walk'
<1>1. /\ live' = {} /\ history' = {} /\ list' = [list EXCEPT !.cursor = 0]
      /\ dismissed' = dismissed
  BY DEF ClearLists
<1>2. 0 \in 0..clock
  BY DEF LInv, Types
<1>3. /\ list' \in Pages /\ list'.cursor = 0 /\ list'.hasMore = list.hasMore /\ list'.error = list.error
  BY <1>1, <1>2 DEF LInv, Types, Pages
<1>4. Types'
  BY <1>1, <1>3 DEF LInv, Types, server, Loads, Pages
<1>5. Cards'
  BY <1>1, CardsShrink DEF LInv
<1>6. Walk'
  BY <1>1, <1>3, WalkSteps DEF LInv, server
<1> QED BY <1>4, <1>5, <1>6

LEMMA ReadsCleared == ASSUME LInv, ReadCleared PROVE LInv'
<1>1. /\ wire # <<>> /\ wire' = Tail(wire) /\ ClearLists /\ owed' = {}
      /\ UNCHANGED <<server, connected, asked, load, confirmed, gone, rare>>
  BY DEF ReadCleared, Read
<1>2. EndsOnce' /\ Delivered'
  BY <1>1, ServerStays DEF Known
<1> QED BY <1>1, <1>2, ClearingLists DEF LInv

LEMMA ReceivesCleared == ASSUME LInv, ReceiveCleared PROVE LInv'
<1>1. /\ confirmed' = confirmed \ {0} /\ ClearLists /\ owed' = {}
      /\ UNCHANGED <<server, wire, connected, asked, load, gone, rare>>
  BY DEF ReceiveCleared
<1>2. EndsOnce' /\ Delivered'
  BY <1>1, ServerStays DEF Known
<1> QED BY <1>1, <1>2, ClearingLists DEF LInv

LEMMA ReceivesDeleted == ASSUME LInv, NEW id \in confirmed, ReceiveDeleted(id) PROVE LInv'
<1>1. /\ id # 0 /\ confirmed' = confirmed \ {id}
      /\ live' = Without(live, id) /\ history' = Without(history, id) /\ dismissed' = dismissed \ {id}
      /\ UNCHANGED <<server, wire, connected, asked, load, list, gone, owed, rare>>
  BY DEF ReceiveDeleted, RemoveExchangeFromViews
<1>2. id \notin owed
  BY <1>1, DeadNotOwed DEF LInv, Delivered
<1>3. /\ live' \subseteq live /\ history' \subseteq history /\ dismissed' \subseteq dismissed
      /\ Ids(history') = Ids(history) \ {id}
  BY <1>1, Losing
<1>4. Types'
  BY <1>1, <1>3 DEF LInv, Types, server, Loads, Pages
<1>5. EndsOnce' /\ Delivered'
  BY <1>1, ServerStays DEF Known
<1>6. Walk'
  BY <1>1, <1>2, <1>3, WalkSteps DEF LInv, Walk, server
<1> QED BY <1>1, <1>3, <1>4, <1>5, <1>6, CardsShrink DEF LInv

LEMMA Dismisses == ASSUME LInv, NEW id \in Ids(live), DismissLiveExchange(id) PROVE LInv'
<1>1. /\ dismissed' = dismissed \cup {id} /\ live' = Without(live, id)
      /\ UNCHANGED <<server, wire, connected, asked, load, confirmed, history, list, gone, owed>>
  BY DEF DismissLiveExchange
<1>2. live' \subseteq live /\ Ids(live') = Ids(live) \ {id} /\ id \in 1..MaxExchanges
  BY <1>1, Losing DEF LInv, Types, Ids, Copies
<1>3. Types'
  BY <1>1, <1>2 DEF LInv, Types, server, Loads, Pages
<1>4. EndsOnce' /\ Delivered'
  BY <1>1, ServerStays DEF Known
<1>5. Cards'
  BY <1>1, <1>2 DEF LInv, Cards, Single
<1>6. Walk'
  BY <1>1, WalkStays DEF LInv, server
<1> QED BY <1>3, <1>4, <1>5, <1>6 DEF LInv

LEMMA ClearsRealtime == ASSUME LInv, ClearRealtime PROVE LInv'
<1>1. /\ dismissed' = {} /\ live' = {}
      /\ UNCHANGED <<server, wire, connected, asked, load, confirmed, history, list, gone, owed>>
  BY DEF ClearRealtime
<1>2. Types'
  BY <1>1 DEF LInv, Types, server, Loads, Pages
<1>3. EndsOnce' /\ Delivered'
  BY <1>1, ServerStays DEF Known
<1>4. Walk'
  BY <1>1, WalkStays DEF LInv, server
<1> QED BY <1>1, <1>2, <1>3, <1>4, CardsShrink DEF LInv

-----------------------------------------------------------------------------
(* The theorems. *)

LEMMA Initially == Init => LInv
<1> SUFFICES ASSUME Init PROVE LInv
  OBVIOUS
<1> DEFINE row(i) == [id |-> i, revision |-> 2, started |-> i, completed |-> Before + i]
<1>1. /\ clock = 2 * Before /\ started = Before /\ ram = {} /\ queued = {}
      /\ rows = {row(i) : i \in 1..Before}
      /\ wire = <<>> /\ asked = {} /\ confirmed = {}
      /\ load = [NoLoad EXCEPT !.at = "sent", !.reset = TRUE]
      /\ live = {} /\ history = {} /\ dismissed = {}
      /\ list = [cursor |-> 0, hasMore |-> FALSE, error |-> FALSE]
      /\ gone = {} /\ owed = {}
  BY DEF Init
<1>2. Before \in Nat /\ Before <= MaxExchanges /\ MaxExchanges \in Nat
  BY LimitsAssumption
<1>3. \A i \in 1..Before : /\ row(i) \in Copies /\ row(i).id = i /\ Ended(row(i))
                           /\ OrderingTime(row(i)) = Before + i
  BY <1>2 DEF Copies, Ended, OrderingTime
<1>4. IsFiniteSet(rows)
  <2> DEFINE f == [i \in 1..Before |-> row(i)]
  <2>1. f \in Surjection(1..Before, rows)
    BY <1>1 DEF Surjection
  <2> HIDE DEF f
  <2> QED BY <1>2, <2>1, FS_Interval, FS_Surjection
<1> HIDE DEF row
<1>5. rows \subseteq Copies /\ \A c \in rows : c = row(c.id) /\ c.id \in 1..Before
  BY <1>1, <1>3
<1>6. load \in Loads /\ load.at = "sent" /\ load.items = {} /\ load.cursor = 0
  <2>1. 0 \in 0..clock
    BY <1>1, <1>2
  <2> QED BY <1>1, <2>1 DEF NoLoad, Loads
<1>7. Types
  <2>1. clock \in Nat /\ started \in 0..MaxExchanges /\ 0 \in 0..clock
    BY <1>1, <1>2
  <2>2. list \in Pages
    BY <1>1, <2>1 DEF Pages
  <2> QED BY <1>1, <1>4, <1>5, <1>6, <2>1, <2>2, FS_EmptySet DEF Types
<1>8. EndsOnce
  <2>1. Known = rows
    BY <1>1, <1>6 DEF Known, Stored
  <2>2. \A c \in rows : c.id <= started /\ OrderingTime(c) <= clock /\ Ended(c)
    BY <1>1, <1>2, <1>3, <1>5
  <2>3. \A c, d \in rows : c.id = d.id => c = d
    BY <1>5
  <2> QED BY <1>1, <2>1, <2>2, <2>3 DEF EndsOnce, Single
<1>9. Delivered
  BY <1>1 DEF Delivered, Carried
<1>10. Cards
  BY <1>1 DEF Cards, Single, Ids
<1>11. Walk
  BY <1>1, <1>6 DEF Walk, Between, Asked, Listing, Answered
<1> QED BY <1>7, <1>8, <1>9, <1>10, <1>11 DEF LInv

LEMMA Inductive == LInv /\ [Next]_vars => LInv'
<1> SUFFICES ASSUME LInv, [Next]_vars PROVE LInv'
  OBVIOUS
<1>1. CASE Server
  BY <1>1, Starts, Completes, Commits, Deletes, Clears, AnswersDetail, ListsMemory, ListsRows DEF Server
<1>2. CASE Stream
  <2>1. CASE OpenStream \/ Resync
    BY <2>1, SendsSnapshot DEF OpenStream, Resync
  <2> QED BY <1>2, <2>1, ReadsSnapshot, ReadsLifecycle, ReadsEvicted, ReadsDeleted, ReadsCleared DEF Stream
<1>3. CASE Page
  BY <1>3, LoadsMore, ReceivesPage, LoadFailing, ReceivesDetail, ReceivesDeleted, ReceivesCleared,
     Dismisses, ClearsRealtime DEF Page
<1>4. CASE UNCHANGED vars
  <2>1. /\ UNCHANGED <<server, wire, asked, load, confirmed, lists, gone, owed>>
    BY <1>4 DEF vars
  <2>2. Types'
    BY <2>1 DEF LInv, Types, server, lists, Loads, Pages
  <2>3. EndsOnce' /\ Delivered'
    BY <2>1, ServerStays DEF Known
  <2>4. Walk'
    BY <2>1, WalkStays DEF LInv, server, lists
  <2> QED BY <2>1, <2>2, <2>3, <2>4, CardsStay DEF LInv, lists
<1> QED BY <1>1, <1>2, <1>3, <1>4 DEF Next

LEMMA AlwaysLInv == Spec => []LInv
<1> QED BY Initially, Inductive, PTL DEF Spec

\* The copies, lists, requests and cursors are of their types, and no list goes on below
\* a time that has not come yet.
THEOREM ListsTypeCorrect == Spec => []TypeOK
<1>1. ASSUME LInv PROVE TypeOK
  <2>1. ram \cup queued \cup rows \cup live \cup history \subseteq Copies
    BY <1>1 DEF LInv, Types
  <2>2. owed \subseteq 1..MaxExchanges
    BY <1>1, <2>1 DEF LInv, Walk, EndedOf, Copies
  <2>3. confirmed \subseteq 0..MaxExchanges
    <3>1. 0 \in 0..MaxExchanges /\ \A id \in 1..MaxExchanges : id \in 0..MaxExchanges
      BY LimitsAssumption
    <3>2. \A id \in confirmed : id # 0 => id \in 1..MaxExchanges
      BY <1>1, DeadNotOwed DEF LInv, Delivered
    <3> QED BY <3>1, <3>2
  <2>4. load.at \in {"none", "sent", "memory", "answered"} /\ list.cursor \in 0..clock
    BY <1>1 DEF LInv, Types, Loads, Pages
  <2>5. dismissed \cup gone \subseteq 1..MaxExchanges
    BY <1>1 DEF LInv, Types
  <2> QED BY <2>1, <2>2, <2>3, <2>4, <2>5 DEF TypeOK
<1> QED BY <1>1, AlwaysLInv, PTL

\* Whatever the page size and the capacity of Memory, however pages, events and commits
\* interleave, and also after pages that failed: a walk that came to its end showed every
\* exchange that had ended when it began and is still kept.
THEOREM WalkShowsAll == Spec => []WalkSkipsNothing
<1>1. LInv => WalkSkipsNothing
  BY DEF LInv, Walk, Between, WalkSkipsNothing
<1> QED BY <1>1, AlwaysLInv, PTL

\* Answers that overtake each other bring no dismissed card back, and take no card back to
\* an earlier revision of its exchange.
THEOREM CardsOnlyAdvance == Spec => CardsAdvance
<1>1. ASSUME LInv, LInv', [Next]_vars
      PROVE  [/\ Ids(live') \cap dismissed' = {}
              /\ \A c \in live : \A d \in Of(live', c.id) : d.revision >= c.revision]_vars
  <2>1. Ids(live') \cap dismissed' = {}
    BY <1>1 DEF LInv, Cards
  <2>2. \A c \in live : c.revision \in Nat
    BY <1>1 DEF LInv, Types, Copies
  <2>3. ASSUME live' \subseteq live, NEW c \in live, NEW d \in Of(live', c.id)
        PROVE  d.revision >= c.revision
    <3>1. d \in live /\ d = c
      BY <1>1, <2>3 DEF LInv, Cards, Single, Of
    <3> QED BY <2>2, <3>1
  <2>4. ASSUME NEW r \in asked, ReceiveDetail(r), NEW c \in live, NEW d \in Of(live', c.id)
        PROVE  d.revision >= c.revision
    <3>1. d \in MergeNewest(live, Accepted(r)) /\ d.id = c.id
      BY <2>4, TopIs DEF ReceiveDetail, MergeRealtime, Of
    <3>2. d \in live => d = c
      BY <1>1, <3>1 DEF LInv, Cards, Single
    <3>3. d \notin live => d.revision >= c.revision
      BY <3>1 DEF MergeNewest, Of
    <3> QED BY <2>2, <3>2, <3>3
  <2>5. live' \subseteq live \/ \E r \in asked : ReceiveDetail(r)
    <3>1. CASE Server
      BY <3>1 DEF Server, Start, Complete, Commit, DeleteExchange, ClearExchanges, AnswerDetail,
                  ListMemory, ListRows, lists
    <3>2. CASE Stream
      <4>1. \A type : OpenStream \/ Resync \/ ReadSnapshot \/ ReadLifecycle(type) => live' = live
        BY DEF OpenStream, Resync, ReadSnapshot, ReadLifecycle, lists
      <4>2. ReadEvicted => live' \subseteq live
        BY Losing DEF ReadEvicted
      <4>3. ReadDeleted => live' \subseteq live
        BY Losing DEF ReadDeleted, RemoveExchangeFromViews
      <4>4. ReadCleared => live' \subseteq live
        BY DEF ReadCleared, ClearLists
      <4> QED BY <3>2, <4>1, <4>2, <4>3, <4>4 DEF Stream
    <3>3. CASE Page
      <4>1. LoadMore \/ ReceivePage \/ LoadFails => live' = live
        BY DEF LoadMore, ReceivePage, LoadFails
      <4>2. \A id : ReceiveDeleted(id) => live' \subseteq live
        BY Losing DEF ReceiveDeleted, RemoveExchangeFromViews
      <4>3. ReceiveCleared \/ ClearRealtime => live' \subseteq live
        BY DEF ReceiveCleared, ClearRealtime, ClearLists
      <4>4. \A id : DismissLiveExchange(id) => live' \subseteq live
        BY Losing DEF DismissLiveExchange
      <4> QED BY <3>3, <4>1, <4>2, <4>3, <4>4 DEF Page
    <3>4. CASE UNCHANGED vars
      BY <3>4 DEF vars, lists
    <3> QED BY <1>1, <3>1, <3>2, <3>3, <3>4 DEF Next
  <2> QED BY <2>1, <2>3, <2>4, <2>5
<1> QED BY <1>1, AlwaysLInv, PTL DEF Spec, CardsAdvance
=============================================================================
