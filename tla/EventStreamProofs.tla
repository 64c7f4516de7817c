------------------------- MODULE EventStreamProofs -------------------------
(***************************************************************************)
(* The event stream of a page, for any number of pages, events and limits: *)
(* the pending counters of a subscriber are exact, and within one process  *)
(* a page misses no event and reads none twice.                            *)
(***************************************************************************)
EXTENDS EventStream, FiniteSetTheorems, SequenceTheorems, TLAPS

(* Sums.  TotalSize folds over the positions of a sequence in an order the  *)
(* fold chooses; a total does not depend on it.                             *)

\* What holds of a subset when it holds of all that lack one element holds of all.
LEMMA SetInduction ==
    ASSUME NEW T, IsFiniteSet(T), NEW Good,
           \A s \in SUBSET T : (\A x \in s : s \ {x} \in Good) => s \in Good
    PROVE  SUBSET T \subseteq Good
<1> DEFINE Bad == (SUBSET T) \ Good
<1> SUFFICES ASSUME Bad # {} PROVE FALSE
  OBVIOUS
<1>1. IsWellFoundedOn(StrictSubsetOrdering(T), SUBSET T)
  <2>1. FiniteSubsetsOf(T) = SUBSET T
    BY FS_FiniteSubsetsOfFinite
  <2>2. IsWellFoundedOn(StrictSubsetOrdering(T), FiniteSubsetsOf(T))
    BY FS_StrictSubsetOrderingWellFounded
  <2> QED BY <2>1, <2>2
<1>2. Bad \subseteq SUBSET T
  OBVIOUS
<1>3. PICK s \in Bad : \A r \in Bad : <<r, s>> \notin StrictSubsetOrdering(T)
  BY <1>1, <1>2, WFMin
<1>4. ASSUME NEW x \in s PROVE s \ {x} \in Good
  <2>1. s \ {x} \in SUBSET T /\ s \ {x} # s
    OBVIOUS
  <2>2. <<s \ {x}, s>> \in StrictSubsetOrdering(T)
    BY <2>1 DEF StrictSubsetOrdering
  <2> QED BY <1>3, <2>1, <2>2
<1> QED BY <1>4

\* A function that gives each subset of T the sum of w over it.
IsSum(g, w, T) ==
    /\ g \in [SUBSET T -> Nat]
    /\ g[{}] = 0
    /\ \A s \in SUBSET T : \A x \in s : g[s] = w[x] + g[s \ {x}]

LEMMA SumExists ==
    ASSUME NEW T, IsFiniteSet(T), NEW w \in [T -> Nat]
    PROVE  \E g : IsSum(g, w, T)
<1> DEFINE Good == {s \in SUBSET T : \E g : IsSum(g, w, s)}
<1>1. ASSUME NEW s \in SUBSET T, \A x \in s : s \ {x} \in Good PROVE s \in Good
  <2>1. CASE s = {}
    <3> DEFINE g == [r \in SUBSET s |-> 0]
    <3>1. IsSum(g, w, s)
      BY <2>1 DEF IsSum
    <3> QED BY <3>1
  <2>2. CASE s # {}
    <3>1. PICK x \in s : TRUE
      BY <2>2
    <3>2. PICK f : IsSum(f, w, s \ {x})
      BY <1>1
    <3> DEFINE part(r) == IF x \in r THEN w[x] ELSE 0
    <3> DEFINE g == [r \in SUBSET s |-> f[r \ {x}] + part(r)]
    <3>3. \A y \in s : w[y] \in Nat
      OBVIOUS
    <3>4. \A r \in SUBSET s : r \ {x} \in SUBSET (s \ {x}) /\ f[r \ {x}] \in Nat /\ part(r) \in Nat
      BY <3>2, <3>3 DEF IsSum
    <3>5. g \in [SUBSET s -> Nat] /\ g[{}] = 0
      BY <3>2, <3>3, <3>4 DEF IsSum
    <3>6. \A r \in SUBSET s : g[r] = f[r \ {x}] + part(r)
      OBVIOUS
    <3> HIDE DEF g
    <3>7. ASSUME NEW r \in SUBSET s, NEW y \in r PROVE g[r] = w[y] + g[r \ {y}]
      <4>1. r \ {y} \in SUBSET s /\ y \in s
        OBVIOUS
      <4>2. CASE y = x
        <5>1. (r \ {y}) \ {x} = r \ {x} /\ part(r \ {y}) = 0 /\ part(r) = w[y]
          BY <4>2
        <5>2. g[r] = f[r \ {x}] + w[y]
          BY <3>6, <5>1
        <5>3. g[r \ {y}] = f[r \ {x}] + 0
          BY <3>6, <4>1, <5>1
        <5>4. f[r \ {x}] \in Nat /\ w[y] \in Nat
          BY <3>3, <3>4, <4>1
        <5> QED BY <5>2, <5>3, <5>4
      <4>3. CASE y # x
        <5>1. (r \ {y}) \ {x} = (r \ {x}) \ {y} /\ y \in r \ {x} /\ part(r \ {y}) = part(r)
          BY <4>3
        <5> HIDE DEF part
        <5>2. f[r \ {x}] = w[y] + f[(r \ {x}) \ {y}]
          BY <3>2, <3>4, <5>1 DEF IsSum
        <5>3. f[(r \ {x}) \ {y}] \in Nat /\ w[y] \in Nat /\ part(r) \in Nat
          BY <3>3, <3>4, <4>1, <5>1
        <5>4. g[r \ {y}] = f[(r \ {x}) \ {y}] + part(r)
          BY <3>6, <4>1, <5>1
        <5>5. g[r] = w[y] + f[(r \ {x}) \ {y}] + part(r)
          BY <3>6, <5>2
        <5> QED BY <5>3, <5>4, <5>5
      <4> QED BY <4>2, <4>3
    <3>8. IsSum(g, w, s)
      BY <3>5, <3>7 DEF IsSum
    <3> QED BY <3>8
  <2> QED BY <2>1, <2>2
<1> HIDE DEF Good
<1>2. SUBSET T \subseteq Good
  BY <1>1, SetInduction
<1> QED BY <1>2 DEF Good

SizesOf(events) == [n \in DOMAIN events |-> events[n].size]

\* The fold computes that sum: it is one order among all.
LEMMA FoldIsSum ==
    ASSUME NEW events \in Seq(Events), NEW g, IsSum(g, SizesOf(events), DOMAIN events)
    PROVE  TotalSize(events) = g[DOMAIN events]
<1> DEFINE S == DOMAIN events
<1> DEFINE first(s) == CHOOSE x \in s : TRUE
<1> DEFINE Body(f) ==
      [s \in SUBSET S |-> IF s = {} THEN 0 ELSE events[first(s)].size + f[s \ {first(s)}]]
<1> DEFINE iter == CHOOSE f : f = Body(f)
<1>1. TotalSize(events) = iter[S]
  BY DEF TotalSize, FoldSeq, FoldFunction, FoldFunctionOnSet, MapThenFoldSet
<1>2. \A s \in SUBSET S : s # {} => first(s) \in s
  OBVIOUS
<1>3. g = Body(g)
  <2>1. g \in [SUBSET S -> Nat] /\ g[{}] = 0
    BY DEF IsSum
  <2>2. ASSUME NEW s \in SUBSET S, s # {}
        PROVE  g[s] = events[first(s)].size + g[s \ {first(s)}]
    <3>1. first(s) \in s
      BY <1>2, <2>2
    <3> HIDE DEF first
    <3> QED BY <3>1 DEF IsSum, SizesOf
  <2> HIDE DEF first
  <2> QED BY <2>1, <2>2
<1>4. iter = Body(iter)
  <2>1. \E f : f = Body(f)
    BY <1>3
  <2> HIDE DEF Body
  <2> QED BY <2>1
<1> HIDE DEF iter, first
<1> DEFINE Good == {s \in SUBSET S : iter[s] = g[s]}
<1>5. ASSUME NEW s \in SUBSET S, \A x \in s : s \ {x} \in Good PROVE s \in Good
  <2>1. CASE s = {}
    BY <1>3, <1>4, <2>1
  <2>2. CASE s # {}
    <3>1. s \ {first(s)} \in Good
      BY <1>2, <1>5, <2>2
    <3> QED BY <1>3, <1>4, <2>2, <3>1
  <2> QED BY <2>1, <2>2
<1> HIDE DEF Good
<1>6. SUBSET S \subseteq Good
  <2>1. S = 1..Len(events) /\ Len(events) \in Nat
    OBVIOUS
  <2>2. IsFiniteSet(S)
    BY <2>1, FS_Interval
  <2>3. \A s \in SUBSET S : (\A x \in s : s \ {x} \in Good) => s \in Good
    BY <1>5
  <2> HIDE DEF S
  <2> QED BY <2>2, <2>3, SetInduction
<1>7. iter[S] = g[S]
  <2>1. S \in Good
    BY <1>6
  <2> QED BY <2>1 DEF Good
<1> QED BY <1>1, <1>7

LEMMA Sizing ==
    ASSUME NEW events \in Seq(Events)
    PROVE  /\ IsFiniteSet(DOMAIN events)
           /\ SizesOf(events) \in [DOMAIN events -> Nat]
           /\ TotalSize(events) \in Nat
           /\ events = <<>> => TotalSize(events) = 0
<1>1. DOMAIN events = 1..Len(events) /\ Len(events) \in Nat
  OBVIOUS
<1>2. IsFiniteSet(DOMAIN events)
  BY <1>1, FS_Interval
<1>3. \A n \in DOMAIN events : events[n] \in Events
  OBVIOUS
<1>4. \A e \in Events : e.size \in Nat
  BY LimitsAssumption DEF Events
<1>5. SizesOf(events) \in [DOMAIN events -> Nat]
  BY <1>3, <1>4 DEF SizesOf
<1>6. PICK g : IsSum(g, SizesOf(events), DOMAIN events)
  BY <1>2, <1>5, SumExists
<1>7. TotalSize(events) = g[DOMAIN events]
  BY <1>6, FoldIsSum
<1>8. g[DOMAIN events] \in Nat /\ g[{}] = 0
  BY <1>6 DEF IsSum
<1>9. events = <<>> => DOMAIN events = {}
  BY <1>1
<1> QED BY <1>2, <1>5, <1>7, <1>8, <1>9

\* One more event adds its size.
LEMMA TotalOfAppend ==
    ASSUME NEW events \in Seq(Events), NEW e \in Events
    PROVE  TotalSize(Append(events, e)) = TotalSize(events) + e.size
<1> DEFINE longer == Append(events, e)
<1> DEFINE D == DOMAIN events
<1>1. /\ longer \in Seq(Events) /\ D = 1..Len(events) /\ Len(events) \in Nat
      /\ DOMAIN longer = 1..(Len(events) + 1)
      /\ longer[Len(events) + 1] = e /\ \A n \in D : longer[n] = events[n]
  OBVIOUS
<1> HIDE DEF longer
<1>2. PICK g : IsSum(g, SizesOf(longer), DOMAIN longer)
  BY <1>1, Sizing, SumExists
<1> DEFINE h == [s \in SUBSET D |-> g[s]]
<1>3. D \subseteq DOMAIN longer /\ (DOMAIN longer) \ {Len(events) + 1} = D
  BY <1>1
<1>4. IsSum(h, SizesOf(events), D)
  <2>1. h \in [SUBSET D -> Nat] /\ h[{}] = 0
    BY <1>2, <1>3 DEF IsSum
  <2>2. ASSUME NEW s \in SUBSET D, NEW x \in s
        PROVE  h[s] = SizesOf(events)[x] + h[s \ {x}]
    <3>1. g[s] = SizesOf(longer)[x] + g[s \ {x}]
      BY <1>2, <1>3 DEF IsSum
    <3>2. SizesOf(longer)[x] = SizesOf(events)[x]
      BY <1>1, <1>3 DEF SizesOf
    <3> QED BY <3>1, <3>2
  <2> QED BY <2>1, <2>2 DEF IsSum
<1>5. TotalSize(events) = g[D]
  BY <1>4, FoldIsSum
<1>6. TotalSize(longer) = g[DOMAIN longer]
  BY <1>1, <1>2, FoldIsSum
<1>7. g[DOMAIN longer] = e.size + g[D]
  <2>1. Len(events) + 1 \in DOMAIN longer /\ SizesOf(longer)[Len(events) + 1] = e.size
    BY <1>1 DEF SizesOf
  <2> QED BY <1>2, <1>3, <2>1 DEF IsSum
<1>8. e.size \in Nat /\ g[D] \in Nat
  BY <1>2, <1>3, LimitsAssumption DEF IsSum, Events
<1> QED BY <1>5, <1>6, <1>7, <1>8 DEF longer

\* The first one gone takes its size along.
LEMMA TotalOfTail ==
    ASSUME NEW events \in Seq(Events), events # <<>>
    PROVE  TotalSize(events) = Head(events).size + TotalSize(Tail(events))
<1> DEFINE rest == Tail(events)
<1> DEFINE D == DOMAIN rest
<1> DEFINE up(s) == {n + 1 : n \in s}
<1>1. /\ rest \in Seq(Events) /\ D = 1..(Len(events) - 1) /\ Len(events) \in Nat \ {0}
      /\ DOMAIN events = 1..Len(events)
      /\ \A n \in D : rest[n] = events[n + 1]
      /\ Head(events) = events[1]
  OBVIOUS
<1> HIDE DEF rest
<1>2. PICK g : IsSum(g, SizesOf(events), DOMAIN events)
  BY Sizing, SumExists
<1>3. \A s \in SUBSET D : up(s) \in SUBSET (DOMAIN events)
  BY <1>1
<1>4. up({}) = {} /\ up(D) = (DOMAIN events) \ {1}
  <2>1. \A n \in (DOMAIN events) \ {1} : n - 1 \in D /\ n = (n - 1) + 1
    BY <1>1
  <2>2. (DOMAIN events) \ {1} \subseteq up(D)
    BY <2>1
  <2>3. \A n \in D : n + 1 \in (DOMAIN events) \ {1}
    BY <1>1
  <2> QED BY <2>2, <2>3
<1>5. ASSUME NEW s \in SUBSET D, NEW x \in s
      PROVE  x + 1 \in up(s) /\ up(s \ {x}) = up(s) \ {x + 1}
  BY <1>1
<1> HIDE DEF up
<1> DEFINE h == [s \in SUBSET D |-> g[up(s)]]
<1>6. IsSum(h, SizesOf(rest), D)
  <2>1. h \in [SUBSET D -> Nat] /\ h[{}] = 0
    BY <1>2, <1>3, <1>4 DEF IsSum
  <2>2. ASSUME NEW s \in SUBSET D, NEW x \in s
        PROVE  h[s] = SizesOf(rest)[x] + h[s \ {x}]
    <3>1. g[up(s)] = SizesOf(events)[x + 1] + g[up(s) \ {x + 1}]
      BY <1>2, <1>3, <1>5 DEF IsSum
    <3>2. SizesOf(events)[x + 1] = SizesOf(rest)[x]
      <4>1. x \in D /\ x + 1 \in DOMAIN events
        BY <1>1
      <4> QED BY <1>1, <4>1 DEF SizesOf
    <3>3. h[s \ {x}] = g[up(s) \ {x + 1}] /\ h[s] = g[up(s)]
      BY <1>5
    <3> QED BY <3>1, <3>2, <3>3
  <2> HIDE DEF h
  <2> QED BY <2>1, <2>2 DEF IsSum
<1>7. TotalSize(rest) = g[up(D)]
  <2>1. TotalSize(rest) = h[D]
    BY <1>1, <1>6, FoldIsSum
  <2> QED BY <2>1
<1>8. TotalSize(events) = g[DOMAIN events]
  BY <1>2, FoldIsSum
<1>9. g[DOMAIN events] = Head(events).size + g[(DOMAIN events) \ {1}]
  <2>1. 1 \in DOMAIN events /\ SizesOf(events)[1] = Head(events).size
    BY <1>1 DEF SizesOf
  <2> QED BY <1>2, <2>1 DEF IsSum
<1> QED BY <1>4, <1>7, <1>8, <1>9 DEF rest

LEMMA TotalOfOne ==
    ASSUME NEW e \in Events
    PROVE  TotalSize(<<e>>) = e.size
<1>1. <<>> \in Seq(Events) /\ Append(<<>>, e) = <<e>>
  OBVIOUS
<1>2. TotalSize(<<>>) = 0 /\ e.size \in Nat
  BY <1>1, Sizing, LimitsAssumption DEF Events
<1>3. TotalSize(Append(<<>>, e)) = TotalSize(<<>>) + e.size
  BY <1>1, TotalOfAppend
<1> QED BY <1>1, <1>2, <1>3

-----------------------------------------------------------------------------
(* Types. *)

\* What the trimmed replay keeps: a rest of it, down to none.
LEMMA Trimming ==
    ASSUME NEW events \in Seq(Events)
    PROVE  \E n \in 0..Len(events) :
              /\ Trimmed(events) \in Seq(Events)
              /\ Len(Trimmed(events)) = Len(events) - n
              /\ \A k \in 1..(Len(events) - n) : Trimmed(events)[k] = events[n + k]
<1> DEFINE Rest(n) == SubSeq(events, n + 1, Len(events))
<1> DEFINE Fits == {n \in 0..Len(events) : FitsReplay(Rest(n))}
<1>1. Len(events) \in Fits
  <2>1. Len(events) \in Nat /\ Rest(Len(events)) = <<>>
    BY SubSeqEmpty
  <2>2. <<>> \in Seq(Events) /\ Len(<<>>) = 0
    OBVIOUS
  <2>3. TotalSize(<<>>) = 0 /\ ReplayCount \in Nat /\ ReplayBytes \in Nat
    BY <2>2, Sizing, LimitsAssumption
  <2>4. FitsReplay(<<>>)
    BY <2>2, <2>3 DEF FitsReplay
  <2> HIDE DEF Rest
  <2> QED BY <2>1, <2>4
<1>2. Fits \subseteq Nat /\ Fits # {}
  BY <1>1
<1> HIDE DEF Fits
<1>3. PICK n \in Fits : \A k \in Fits : <<k, n>> \notin OpToRel(<, Nat)
  BY <1>2, NatLessThanWellFounded, WFMin
<1>4. \A k \in Fits : ~(k < n)
  BY <1>2, <1>3 DEF OpToRel
<1> HIDE DEF Rest
<1>5. n \in 0..Len(events) /\ FitsReplay(Rest(n)) /\ \A k \in 0..(n - 1) : ~FitsReplay(Rest(k))
  BY <1>4 DEF Fits
<1> DEFINE dropped == CHOOSE m \in 0..Len(events) :
                         FitsReplay(Rest(m)) /\ \A k \in 0..(m - 1) : ~FitsReplay(Rest(k))
<1>6. dropped \in 0..Len(events)
  BY <1>5
<1>7. Trimmed(events) = Rest(dropped)
  BY DEF Trimmed, Rest
<1> HIDE DEF dropped
<1>8. \A k \in (dropped + 1)..Len(events) : events[k] \in Events
  BY <1>6
<1>9. /\ Rest(dropped) \in Seq(Events) /\ Len(Rest(dropped)) = Len(events) - dropped
      /\ \A k \in 1..(Len(events) - dropped) : Rest(dropped)[k] = events[dropped + k]
  <2>1. dropped + 1 \in Int /\ Len(events) \in Int
    BY <1>6
  <2> QED BY <1>6, <1>8, <2>1, SubSeqProperties DEF Rest
<1> QED BY <1>6, <1>7, <1>9

-----------------------------------------------------------------------------
(* One subscriber.  `forward` has an event in its hand or owes one, never   *)
(* both, so what Publish and `forward` count in turn is what is there.      *)

Waiting(s) == Len(s.queue)
InHand(s) == Len(s.hand)
Owing(s) == Len(s.owed)

Exact(s) ==
    /\ InHand(s) + Owing(s) <= 1
    /\ s.count = Waiting(s) + InHand(s) + Owing(s)
    /\ s.bytes = Charged(s)
    /\ s.count <= SubscriberCount /\ s.bytes <= SubscriberBytes

\* The limits and sizes are numbers.
LEMMA Numbers ==
    /\ {ReplayCount, ReplayBytes, SubscriberCount, SubscriberBytes} \subseteq Nat \ {0}
    /\ {MaxEvents, MaxRestarts, MaxBreaks} \subseteq Nat
    /\ \A e \in Events : e.size \in Nat /\ e.id \in 1..MaxEvents /\ e.process \in 0..MaxRestarts
BY LimitsAssumption DEF Events

LEMMA NoEvents ==
    /\ <<>> \in Seq(Events) /\ <<>> \in Seq(Nat) /\ Len(<<>>) = 0
    /\ TotalSize(<<>>) = 0
<1>1. <<>> \in Seq(Events) /\ <<>> \in Seq(Nat) /\ Len(<<>>) = 0
  OBVIOUS
<1> QED BY <1>1, Sizing

LEMMA OneEvent ==
    ASSUME NEW e \in Events
    PROVE  /\ <<e>> \in Seq(Events) /\ Len(<<e>>) = 1 /\ Head(<<e>>) = e /\ <<e>> # <<>>
           /\ TotalSize(<<e>>) = e.size
BY TotalOfOne

\* What a subscriber has sent but is still charged for.
OwedBytes(s) == IF s.owed = <<>> THEN 0 ELSE Head(s.owed)

\* The parts of a subscriber.
Numbered(s) ==
    /\ s.count \in Nat /\ s.bytes \in Nat
    /\ Waiting(s) \in Nat /\ InHand(s) \in Nat /\ Owing(s) \in Nat
    /\ TotalSize(s.queue) \in Nat /\ TotalSize(s.hand) \in Nat /\ OwedBytes(s) \in Nat
    /\ Charged(s) = TotalSize(s.queue) + TotalSize(s.hand) + OwedBytes(s)

LEMMA Parts ==
    ASSUME NEW s \in Subscribers
    PROVE  /\ Numbered(s) /\ s.registered \in BOOLEAN
           /\ s.queue \in Seq(Events) /\ s.hand \in Seq(Events) /\ s.owed \in Seq(Nat)
           /\ InHand(s) = 0 <=> s.hand = <<>>
           /\ Owing(s) = 0 <=> s.owed = <<>>
<1>1. /\ s.registered \in BOOLEAN /\ s.count \in Nat /\ s.bytes \in Nat
      /\ s.queue \in Seq(Events) /\ s.hand \in Seq(Events) /\ s.owed \in Seq(Nat)
  BY DEF Subscribers
<1>2. Waiting(s) \in Nat /\ InHand(s) \in Nat /\ Owing(s) \in Nat
  BY <1>1 DEF Waiting, InHand, Owing
<1>3. OwedBytes(s) \in Nat
  BY <1>1 DEF OwedBytes
<1>4. TotalSize(s.queue) \in Nat /\ TotalSize(s.hand) \in Nat
  BY <1>1, Sizing
<1>5. (InHand(s) = 0 <=> s.hand = <<>>) /\ (Owing(s) = 0 <=> s.owed = <<>>)
  BY <1>1 DEF InHand, Owing
<1>6. Charged(s) = TotalSize(s.queue) + TotalSize(s.hand) + OwedBytes(s)
  BY DEF Charged, OwedBytes
<1> QED BY <1>1, <1>2, <1>3, <1>4, <1>5, <1>6 DEF Numbered

LEMMA FreshExact ==
    /\ Fresh \in Subscribers /\ Exact(Fresh)
    /\ Disconnected(Fresh) \in Subscribers /\ Exact(Disconnected(Fresh))
<1> DEFINE gone == Disconnected(Fresh)
<1>1. Fresh \in Subscribers /\ gone \in Subscribers
  BY NoEvents DEF Fresh, Disconnected, Subscribers
<1>2. /\ Fresh.queue = <<>> /\ Fresh.hand = <<>> /\ Fresh.owed = <<>>
      /\ Fresh.count = 0 /\ Fresh.bytes = 0
  BY DEF Fresh
<1>3. /\ gone.queue = <<>> /\ gone.hand = <<>> /\ gone.owed = <<>>
      /\ gone.count = 0 /\ gone.bytes = 0
  BY DEF Fresh, Disconnected
<1> HIDE DEF gone
<1>4. Charged(Fresh) = 0 /\ Charged(gone) = 0
  BY <1>2, <1>3, NoEvents DEF Charged
<1>5. SubscriberCount \in Nat /\ SubscriberBytes \in Nat
  BY Numbers
<1>6. /\ Waiting(Fresh) = 0 /\ InHand(Fresh) = 0 /\ Owing(Fresh) = 0
      /\ Waiting(gone) = 0 /\ InHand(gone) = 0 /\ Owing(gone) = 0
  BY <1>2, <1>3, NoEvents DEF Waiting, InHand, Owing
<1>7. Exact(Fresh) /\ Exact(gone)
  BY <1>2, <1>3, <1>4, <1>5, <1>6 DEF Exact
<1> QED BY <1>1, <1>7 DEF gone

\* What an event does to a subscriber: it queues it, loses the subscriber, or finds
\* it lost already.
LEMMA Offered ==
    ASSUME NEW s \in Subscribers, Exact(s), NEW e \in Events
    PROVE  /\ Offer(s, e) \in Subscribers /\ Exact(Offer(s, e))
           /\ Offer(s, e).hand = s.hand
           /\ \/ Offer(s, e).queue = s.queue /\ ~Offer(s, e).registered
              \/ /\ s.registered /\ Offer(s, e).registered
                 /\ Offer(s, e).queue = Append(s.queue, e)
<1>1. CASE ~s.registered
  BY <1>1 DEF Offer, Subscribers
<1> DEFINE lost == Disconnected(s)
<1>2. /\ lost \in Subscribers /\ Exact(lost)
      /\ lost.hand = s.hand /\ lost.queue = s.queue /\ ~lost.registered
  BY DEF Disconnected, Subscribers, Exact, Waiting, InHand, Owing, Charged
<1>3. CASE s.registered /\ TooSlow(s, e)
  BY <1>2, <1>3 DEF Offer
<1>4. CASE s.registered /\ ~TooSlow(s, e)
  <2>1. e.size \in Nat /\ SubscriberCount \in Nat /\ SubscriberBytes \in Nat
    BY Numbers
  <2>0. Numbered(s)
    BY Parts
  <2>2. s.count < SubscriberCount /\ s.bytes + e.size <= SubscriberBytes
    BY <1>4, <2>0, <2>1 DEF TooSlow, Numbered
  <2>3. Waiting(s) < SubscriberCount
    BY <2>0, <2>1, <2>2 DEF Exact, Numbered
  <2> DEFINE next == [Counting(s, e) EXCEPT !.queue = Append(@, e)]
  <2>4. Offer(s, e) = next
    <3>1. ~(Waiting(s) >= SubscriberCount)
      BY <2>0, <2>1, <2>3 DEF Numbered
    <3> QED BY <1>4, <3>1 DEF Offer, Waiting
  <2>5. /\ next.queue = Append(s.queue, e) /\ next.hand = s.hand /\ next.owed = s.owed
        /\ next.registered = s.registered
        /\ next.count = s.count + 1 /\ next.bytes = s.bytes + e.size
    BY DEF Counting, Subscribers
  <2>6. Append(s.queue, e) \in Seq(Events)
    BY Parts
  <2>7. next \in Subscribers
    <3>1. s.count + 1 \in Nat /\ s.bytes + e.size \in Nat
      BY <2>0, <2>1 DEF Numbered
    <3> QED BY <2>6, <3>1 DEF Counting, Subscribers
  <2>8. TotalSize(next.queue) = TotalSize(s.queue) + e.size
    BY <2>5, Parts, TotalOfAppend
  <2> HIDE DEF next
  <2>9. Waiting(next) = Waiting(s) + 1 /\ InHand(next) = InHand(s) /\ Owing(next) = Owing(s)
    BY <2>5, Parts DEF Waiting, InHand, Owing
  <2>10. OwedBytes(next) = OwedBytes(s)
    BY <2>5 DEF OwedBytes
  <2>11. Charged(next) = Charged(s) + e.size
    <3>1. Numbered(next)
      BY <2>7, Parts
    <3>2. TotalSize(next.hand) = TotalSize(s.hand)
      BY <2>5
    <3> QED BY <2>0, <2>1, <2>8, <2>10, <3>1, <3>2 DEF Numbered
  <2>12. Exact(next)
    <3>1. next.count = s.count + 1 /\ next.bytes = s.bytes + e.size
      BY <2>5
    <3> QED BY <2>0, <2>1, <2>2, <2>9, <2>11, <3>1 DEF Exact, Numbered
  <2> QED BY <1>4, <2>4, <2>5, <2>7, <2>12
<1>5. s.registered \in BOOLEAN
  BY Parts
<1> QED BY <1>1, <1>3, <1>4, <1>5

\* The event in the hand comes out of the queue.
LEMMA Taken ==
    ASSUME NEW s \in Subscribers, Exact(s), s.hand = <<>>, s.owed = <<>>, s.queue # <<>>,
           NEW next, next = [s EXCEPT !.hand = <<Head(s.queue)>>, !.queue = Tail(@)]
    PROVE  next \in Subscribers /\ Exact(next)
<1>1. Head(s.queue) \in Events /\ Tail(s.queue) \in Seq(Events)
  BY Parts
<1>2. /\ next.queue = Tail(s.queue) /\ next.hand = <<Head(s.queue)>> /\ next.owed = s.owed
      /\ next.registered = s.registered /\ next.count = s.count /\ next.bytes = s.bytes
  BY DEF Subscribers
<1>3. next \in Subscribers
  BY <1>1, OneEvent DEF Subscribers
<1>4. TotalSize(s.queue) = Head(s.queue).size + TotalSize(Tail(s.queue))
  BY Parts, TotalOfTail
<1>5. Head(s.queue).size \in Nat /\ TotalSize(Tail(s.queue)) \in Nat
  BY <1>1, Numbers, Sizing
<1>6. OwedBytes(next) = OwedBytes(s) /\ Owing(next) = Owing(s) /\ Owing(s) = 0 /\ InHand(s) = 0
  BY <1>2, Parts DEF OwedBytes, Owing
<1>7. Waiting(next) = Waiting(s) - 1 /\ InHand(next) = 1
  BY <1>1, <1>2, Parts DEF Waiting, InHand
<1>8. TotalSize(next.hand) = Head(s.queue).size /\ TotalSize(s.hand) = 0
  BY <1>1, <1>2, OneEvent, NoEvents
<1>9. Numbered(s) /\ Numbered(next)
  BY <1>3, Parts
<1>10. Charged(next) = Charged(s)
  BY <1>2, <1>4, <1>5, <1>6, <1>8, <1>9 DEF Numbered
<1> QED BY <1>2, <1>3, <1>6, <1>7, <1>9, <1>10 DEF Exact, Numbered

\* What was sent is owed.
LEMMA Sent ==
    ASSUME NEW s \in Subscribers, Exact(s), s.hand # <<>>,
           NEW next, next = [s EXCEPT !.hand = <<>>, !.owed = <<Head(s.hand).size>>]
    PROVE  /\ next \in Subscribers /\ Exact(next)
           /\ s.hand = <<Head(s.hand)>> /\ Head(s.hand) \in Events
<1>0. Numbered(s)
  BY Parts
<1>1. Head(s.hand) \in Events /\ InHand(s) # 0
  BY Parts
<1>2. InHand(s) = 1 /\ Owing(s) = 0
  BY <1>0, <1>1 DEF Exact, Numbered
<1>3. s.hand = <<Head(s.hand)>> /\ s.owed = <<>>
  BY <1>2, Parts DEF InHand
<1>4. /\ next.queue = s.queue /\ next.hand = <<>> /\ next.owed = <<Head(s.hand).size>>
      /\ next.registered = s.registered /\ next.count = s.count /\ next.bytes = s.bytes
  BY DEF Subscribers
<1>5. Head(s.hand).size \in Nat /\ TotalSize(s.hand) = Head(s.hand).size
  BY <1>1, <1>3, OneEvent, Numbers
<1>6. <<Head(s.hand).size>> \in Seq(Nat)
  BY <1>5
<1>7. next \in Subscribers
  BY <1>6, NoEvents DEF Subscribers
<1>8. OwedBytes(next) = Head(s.hand).size /\ OwedBytes(s) = 0 /\ TotalSize(next.hand) = 0
  BY <1>3, <1>4, <1>5, NoEvents DEF OwedBytes
<1>9. Charged(next) = Charged(s)
  <2>1. Numbered(next)
    BY <1>7, Parts
  <2> QED BY <1>0, <1>4, <1>5, <1>8, <2>1 DEF Numbered
<1>10. Waiting(next) = Waiting(s) /\ InHand(next) = 0 /\ Owing(next) = 1
  BY <1>4, <1>6, NoEvents DEF Waiting, InHand, Owing
<1> QED BY <1>0, <1>1, <1>2, <1>3, <1>4, <1>7, <1>9, <1>10 DEF Exact, Numbered

\* What is owed is subtracted.
LEMMA Settled ==
    ASSUME NEW s \in Subscribers, Exact(s), s.owed # <<>>,
           NEW next, next = [s EXCEPT !.owed = <<>>, !.count = @ - 1, !.bytes = @ - Head(s.owed)]
    PROVE  next \in Subscribers /\ Exact(next)
<1>0. Numbered(s)
  BY Parts
<1>1. Owing(s) # 0 /\ Head(s.owed) \in Nat
  BY Parts
<1>2. InHand(s) = 0 /\ Owing(s) = 1 /\ s.hand = <<>>
  <2>1. InHand(s) = 0 /\ Owing(s) = 1
    BY <1>0, <1>1 DEF Exact, Numbered
  <2> QED BY <2>1, Parts
<1>3. /\ next.queue = s.queue /\ next.hand = s.hand /\ next.owed = <<>>
      /\ next.registered = s.registered
      /\ next.count = s.count - 1 /\ next.bytes = s.bytes - Head(s.owed)
  BY DEF Subscribers
<1>4. OwedBytes(s) = Head(s.owed) /\ OwedBytes(next) = 0
  BY <1>3 DEF OwedBytes
<1>5. s.bytes = TotalSize(s.queue) + Head(s.owed) /\ s.count = Waiting(s) + 1
  BY <1>0, <1>1, <1>2, <1>4, NoEvents DEF Exact, Numbered
<1>6. s.count - 1 \in Nat /\ s.bytes - Head(s.owed) \in Nat
  <2>1. Waiting(s) \in Nat /\ TotalSize(s.queue) \in Nat
    BY <1>0 DEF Numbered
  <2>2. s.count - 1 = Waiting(s)
    BY <1>5, <2>1
  <2>3. s.bytes - Head(s.owed) = TotalSize(s.queue)
    BY <1>1, <1>5, <2>1
  <2> QED BY <2>1, <2>2, <2>3
<1>7. next \in Subscribers
  <2>1. <<>> \in Seq(Nat)
    BY NoEvents
  <2> QED BY <1>6, <2>1 DEF Subscribers
<1>8. Charged(next) = next.bytes
  <2>1. Numbered(next)
    BY <1>7, Parts
  <2>2. TotalSize(next.queue) = TotalSize(s.queue) /\ TotalSize(next.hand) = 0
    BY <1>2, <1>3, NoEvents
  <2>3. Charged(next) = TotalSize(s.queue)
    BY <1>0, <1>4, <2>1, <2>2 DEF Numbered
  <2>4. next.bytes = TotalSize(s.queue)
    BY <1>0, <1>1, <1>3, <1>5 DEF Numbered
  <2> QED BY <2>3, <2>4
<1>9. Waiting(next) = Waiting(s) /\ InHand(next) = 0 /\ Owing(next) = 0
  BY <1>2, <1>3, NoEvents DEF Waiting, InHand, Owing
<1>10. SubscriberCount \in Nat /\ SubscriberBytes \in Nat
  BY Numbers
<1>11. next.count <= SubscriberCount /\ next.bytes <= SubscriberBytes
  <2>1. /\ s.count \in Nat /\ s.bytes \in Nat
        /\ s.count <= SubscriberCount /\ s.bytes <= SubscriberBytes
    BY <1>0 DEF Exact, Numbered
  <2>2. next.count <= s.count /\ next.bytes <= s.bytes
    <3>1. next.count = s.count - 1 /\ next.bytes = s.bytes - Head(s.owed)
      BY <1>3
    <3> QED BY <1>1, <2>1, <3>1
  <2>3. next.count \in Nat /\ next.bytes \in Nat
    BY <1>3, <1>6
  <2> QED BY <1>10, <2>1, <2>2, <2>3
<1>12. next.count = Waiting(next)
  BY <1>0, <1>3, <1>5, <1>9 DEF Numbered
<1>13. Numbered(next)
  BY <1>7, Parts
<1> QED BY <1>7, <1>8, <1>9, <1>11, <1>12, <1>13 DEF Exact, Numbered
-----------------------------------------------------------------------------
(* Every step keeps the types and the counters.  A page without a stream   *)
(* has nothing on the wire and a subscriber that is gone.                   *)

Pending == \A c \in Clients : Exact(sub[c])

Idle == \A c \in Clients :
    pc[c] \in {"closed", "gap"} => wire[c] = <<>> /\ sub[c] = Disconnected(Fresh)

TInv == TypeOK /\ Pending /\ Idle

LEMMA TInit == Init => TInv
<1> SUFFICES ASSUME Init PROVE TInv
  OBVIOUS
<1>1. /\ Disconnected(Fresh) \in Subscribers /\ Exact(Disconnected(Fresh))
      /\ <<>> \in Seq(Messages) /\ <<>> \in Seq(Events)
      /\ MaxEvents \in Nat /\ MaxRestarts \in Nat /\ MaxBreaks \in Nat
  BY FreshExact, Numbers
<1>2. TypeOK
  BY <1>1 DEF Init, TypeOK, Now, Marks
<1>3. Pending /\ Idle
  BY <1>1 DEF Init, Pending, Idle
<1> QED BY <1>2, <1>3 DEF TInv

\* One subscriber changes, and what is written to its page.
LEMMA StreamMoves ==
    ASSUME TInv, NEW c \in Clients, NEW next \in Subscribers, Exact(next),
           NEW phase \in {"open", "ended"}, NEW written \in Seq(Messages),
           sub' = [sub EXCEPT ![c] = next],
           wire' = [wire EXCEPT ![c] = written], pc' = [pc EXCEPT ![c] = phase],
           UNCHANGED <<busVars, pageVars>>
    PROVE  TInv'
<1> USE DEF TInv, busVars, pageVars
<1>1. TypeOK'
  BY DEF TypeOK
<1>2. Pending' /\ Idle'
  BY DEF TypeOK, Pending, Idle
<1> QED BY <1>1, <1>2

\* What is written to a page is a message.
LEMMA Writes ==
    ASSUME TInv
    PROVE  /\ \A e \in Events : EventMessage(e) \in Messages
           /\ [kind |-> "snapshot", id |-> Cursor, covers |-> Now] \in Messages
<1>1. \A e \in Events : EventMessage(e) \in Messages
  BY Numbers DEF EventMessage, Messages, Marks
<1>2. Cursor \in 0..MaxEvents
  <2>1. CASE replay = <<>>
    BY <2>1, Numbers DEF Cursor
  <2>2. CASE replay # <<>>
    <3>1. Len(replay) \in DOMAIN replay /\ replay[Len(replay)] \in Events
      BY <2>2 DEF TInv, TypeOK
    <3>2. replay[Len(replay)].id \in 0..MaxEvents
      BY <3>1, Numbers
    <3> QED BY <2>2, <3>2 DEF Cursor, Last
  <2> QED BY <2>1, <2>2
<1>3. Now \in Marks
  BY DEF Now, Marks, TInv, TypeOK
<1> QED BY <1>1, <1>2, <1>3 DEF Messages

LEMMA PublishTInv == ASSUME TInv, NEW size \in Sizes, Publish(size) PROVE TInv'
<1> DEFINE e == [id |-> nextID + 1, process |-> process, size |-> size]
<1>1. e \in Events /\ nextID + 1 \in 0..MaxEvents
  BY Numbers DEF TInv, TypeOK, Publish, Events
<1>2. /\ nextID' = nextID + 1
      /\ replay' = Trimmed(Append(replay, e))
      /\ sub' = [c \in Clients |-> Offer(sub[c], e)]
      /\ UNCHANGED <<process, pc, wire, last, covers, breaks>>
  BY DEF Publish, pageVars
<1> HIDE DEF e
<1>3. replay' \in Seq(Events)
  <2>1. Append(replay, e) \in Seq(Events)
    BY <1>1 DEF TInv, TypeOK
  <2> QED BY <1>2, <2>1, Trimming
<1>4. \A c \in Clients : sub'[c] \in Subscribers /\ Exact(sub'[c])
  BY <1>1, <1>2, Offered DEF TInv, TypeOK, Pending
<1>5. Idle'
  <2>1. Offer(Disconnected(Fresh), e) = Disconnected(Fresh)
    BY DEF Offer, Disconnected, Fresh
  <2> QED BY <1>2, <2>1 DEF TInv, Idle
<1>6. TypeOK'
  BY <1>1, <1>2, <1>3, <1>4 DEF TInv, TypeOK
<1> QED BY <1>4, <1>5, <1>6 DEF TInv, Pending

LEMMA ForwardTInv ==
    ASSUME TInv, NEW c \in Clients, Take(c) \/ Send(c) \/ Settle(c) \/ Hangup(c)
    PROVE  TInv'
<1> USE DEF streamVars
<1>1. sub[c] \in Subscribers /\ Exact(sub[c]) /\ wire[c] \in Seq(Messages)
  BY DEF TInv, TypeOK, Pending
<1>2. sub = [sub EXCEPT ![c] = sub[c]] /\ wire = [wire EXCEPT ![c] = wire[c]]
      /\ pc = [pc EXCEPT ![c] = pc[c]]
  BY DEF TInv, TypeOK
<1>3. CASE Take(c)
  <2>1. PICK next : next = [sub[c] EXCEPT !.hand = <<Head(sub[c].queue)>>, !.queue = Tail(@)]
    OBVIOUS
  <2>2. sub' = [sub EXCEPT ![c] = next] /\ pc[c] = "open"
    BY <1>3, <2>1 DEF Take, TInv, TypeOK
  <2>3. next \in Subscribers /\ Exact(next)
    BY <1>1, <1>3, <2>1, Taken DEF Take
  <2>4. /\ wire' = [wire EXCEPT ![c] = wire[c]] /\ pc' = [pc EXCEPT ![c] = "open"]
        /\ UNCHANGED <<busVars, pageVars>>
    BY <1>2, <1>3, <2>2 DEF Take
  <2> QED BY <1>1, <2>2, <2>3, <2>4, StreamMoves
<1>4. CASE Send(c)
  <2>1. PICK next : next = [sub[c] EXCEPT !.hand = <<>>, !.owed = <<Head(sub[c].hand).size>>]
    OBVIOUS
  <2>2. sub' = [sub EXCEPT ![c] = next] /\ pc[c] = "open"
    BY <1>4, <2>1 DEF Send, TInv, TypeOK
  <2>3. next \in Subscribers /\ Exact(next) /\ Head(sub[c].hand) \in Events
    BY <1>1, <1>4, <2>1, Sent DEF Send
  <2>4. PICK written : /\ written = Append(wire[c], EventMessage(Head(sub[c].hand)))
                       /\ wire' = [wire EXCEPT ![c] = written]
    BY <1>4 DEF Send
  <2>5. written \in Seq(Messages)
    BY <1>1, <2>3, <2>4, Writes
  <2>6. pc' = [pc EXCEPT ![c] = "open"] /\ UNCHANGED <<busVars, pageVars>>
    BY <1>2, <1>4, <2>2 DEF Send
  <2> QED BY <2>2, <2>3, <2>4, <2>5, <2>6, StreamMoves
<1>5. CASE Settle(c)
  <2>1. PICK next : next = [sub[c] EXCEPT !.owed = <<>>, !.count = @ - 1, !.bytes = @ - Head(sub[c].owed)]
    OBVIOUS
  <2>2. sub' = [sub EXCEPT ![c] = next]
    BY <1>5, <2>1 DEF Settle, TInv, TypeOK
  <2>3. next \in Subscribers /\ Exact(next)
    <3>1. sub[c].owed # <<>>
      BY <1>5 DEF Settle
    <3> QED BY <1>1, <2>1, <3>1, Settled
  <2>4. pc[c] \in {"open", "ended"}
    BY <1>5 DEF Settle, TInv, TypeOK, Idle, Disconnected, Fresh
  <2>5. UNCHANGED <<pc, wire, busVars, pageVars>>
    BY <1>5 DEF Settle
  <2>6. wire' = [wire EXCEPT ![c] = wire[c]] /\ pc' = [pc EXCEPT ![c] = pc[c]]
    BY <1>2, <2>5
  <2> QED BY <1>1, <2>2, <2>3, <2>4, <2>5, <2>6, StreamMoves
<1>6. CASE Hangup(c)
  BY <1>1, <1>2, <1>6, StreamMoves DEF Hangup
<1> QED BY <1>3, <1>4, <1>5, <1>6

LEMMA ConnectTInv == ASSUME TInv, NEW c \in Clients, Connect(c) PROVE TInv'
<1>1. ASSUME NEW messages \in Seq(Messages), Subscribed(c, messages), UNCHANGED <<busVars, pageVars>>
      PROVE  TInv'
  BY <1>1, FreshExact, StreamMoves DEF Subscribed
<1>2. CASE ConnectFirst(c) \/ Resync(c)
  <2>1. PICK message : message = [kind |-> "snapshot", id |-> Cursor, covers |-> Now]
    OBVIOUS
  <2>2. Subscribed(c, <<message>>) /\ UNCHANGED <<busVars, pageVars>>
    BY <1>2, <2>1 DEF ConnectFirst, Resync, WithSnapshot
  <2>3. <<message>> \in Seq(Messages)
    BY <2>1, Writes
  <2> QED BY <1>1, <2>2, <2>3
<1>3. CASE Resume(c)
  <2>1. Replayed(last[c]) \in Seq(Events)
    <3> DEFINE n == CHOOSE m \in DOMAIN replay : replay[m].id = last[c]
    <3>1. n \in DOMAIN replay
      BY <1>3 DEF Resume, IsReplayable
    <3>2. Replayed(last[c]) = SubSeq(replay, n + 1, Len(replay))
      BY DEF Replayed
    <3> HIDE DEF n
    <3>3. n + 1 \in Int /\ Len(replay) \in Int /\ \A k \in (n + 1)..Len(replay) : replay[k] \in Events
      BY <3>1 DEF TInv, TypeOK
    <3> QED BY <3>2, <3>3, SubSeqProperties
  <2>2. PICK messages : messages = [n \in DOMAIN Replayed(last[c]) |-> EventMessage(Replayed(last[c])[n])]
    OBVIOUS
  <2>3. messages \in Seq(Messages)
    BY <2>1, <2>2, Writes
  <2>4. Subscribed(c, messages) /\ UNCHANGED <<busVars, pageVars>>
    BY <1>3, <2>2 DEF Resume
  <2> QED BY <1>1, <2>3, <2>4
<1>4. CASE FindGap(c)
  <2>1. TypeOK'
    BY <1>4 DEF FindGap, TInv, TypeOK, busVars, pageVars
  <2>2. Pending' /\ Idle'
    BY <1>4 DEF FindGap, TInv, TypeOK, Pending, Idle
  <2> QED BY <2>1, <2>2 DEF TInv
<1> QED BY <1>2, <1>3, <1>4 DEF Connect

LEMMA PageTInv ==
    ASSUME TInv, NEW c \in Clients, Read(c) \/ ReadEnd(c) \/ Break(c)
    PROVE  TInv'
<1> USE DEF TInv, busVars, streamVars, pageVars
<1>1. CASE Read(c)
  <2>1. PICK message \in Messages : message = Head(wire[c])
    BY <1>1 DEF Read, TypeOK
  <2>2. message.id \in 0..MaxEvents /\ message.covers \in Marks
    BY <2>1 DEF Messages
  <2>3. last' = [last EXCEPT ![c] = IF message.id = 0 THEN @ ELSE message.id]
        /\ covers' = [covers EXCEPT ![c] = message.covers]
    BY <1>1, <2>1 DEF Read
  <2>4. last' \in [Clients -> 0..MaxEvents] /\ covers' \in [Clients -> Marks]
    BY <2>2, <2>3 DEF TypeOK
  <2>5. Tail(wire[c]) \in Seq(Messages)
    BY <1>1 DEF Read, TypeOK
  <2>6. TypeOK'
    BY <1>1, <2>4, <2>5 DEF Read, TypeOK
  <2>7. Pending' /\ Idle'
    BY <1>1 DEF Read, TypeOK, Pending, Idle
  <2> QED BY <2>6, <2>7
<1>2. CASE ReadEnd(c) \/ Break(c)
  <2>1. Closed(c) /\ UNCHANGED <<busVars, last, covers>>
    BY <1>2 DEF ReadEnd, Break
  <2>2. breaks' \in [Clients -> 0..MaxBreaks]
    <3>1. CASE ReadEnd(c)
      BY <3>1 DEF ReadEnd, TypeOK
    <3>2. CASE Break(c)
      <4>1. breaks[c] + 1 \in 0..MaxBreaks
        BY <3>2, Numbers DEF Break, TypeOK
      <4> QED BY <3>2, <4>1 DEF Break, TypeOK
    <3> QED BY <1>2, <3>1, <3>2
  <2>3. <<>> \in Seq(Messages)
    OBVIOUS
  <2>4. TypeOK'
    BY <2>1, <2>2, <2>3, FreshExact DEF Closed, TypeOK
  <2>5. Pending' /\ Idle'
    BY <2>1, FreshExact DEF Closed, TypeOK, Pending, Idle
  <2> QED BY <2>4, <2>5
<1> QED BY <1>1, <1>2

LEMMA RestartTInv == ASSUME TInv, Restart PROVE TInv'
<1> USE DEF TInv, Restart, pageVars
<1>1. <<>> \in Seq(Messages) /\ <<>> \in Seq(Events)
  OBVIOUS
<1>2. TypeOK'
  BY <1>1, FreshExact, Numbers DEF TypeOK
<1>3. Pending' /\ Idle'
  BY FreshExact DEF Pending, Idle
<1> QED BY <1>2, <1>3

LEMMA TInvStep == ASSUME TInv, [Next]_vars PROVE TInv'
<1>1. CASE UNCHANGED vars
  BY <1>1 DEF vars, busVars, streamVars, pageVars, TInv, TypeOK, Pending, Idle
<1> QED BY <1>1, PublishTInv, ForwardTInv, ConnectTInv, PageTInv, RestartTInv DEF Next, Stream

LEMMA TInvariant == Spec => []TInv
  BY TInit, TInvStep, PTL DEF Spec

\* The pending counters of a subscriber, changed by Publish and by `forward` at
\* different moments, say what is there; its channel admits all they admit, and
\* neither limit is exceeded (bus.go:99-111 and 146-167).
THEOREM CountersStayExact == Spec => []PendingExact
<1>1. ASSUME TInv PROVE PendingExact
  <2> SUFFICES ASSUME NEW c \in Clients
               PROVE  /\ sub[c].count = Len(sub[c].queue) + Len(sub[c].hand) + Len(sub[c].owed)
                      /\ sub[c].bytes = Charged(sub[c])
                      /\ sub[c].count < SubscriberCount => Len(sub[c].queue) < SubscriberCount
                      /\ sub[c].count <= SubscriberCount /\ sub[c].bytes <= SubscriberBytes
    BY DEF PendingExact
  <2>1. Exact(sub[c]) /\ Numbered(sub[c])
    BY <1>1, Parts DEF TInv, TypeOK, Pending
  <2>2. sub[c].count < SubscriberCount => Waiting(sub[c]) < SubscriberCount
    BY <2>1, Numbers DEF Exact, Numbered
  <2> QED BY <2>1, <2>2 DEF Exact, Waiting, InHand, Owing
<1> QED BY <1>1, TInvariant, PTL
-----------------------------------------------------------------------------
(* Delivery.  What a page knows, what is on its wire, what `forward` holds  *)
(* and what is queued follow each other without a gap up to the last event. *)

\* Every event is the next one; a snapshot comes first, and an event cursor that is
\* empty stands for events that are not in the replay.
Linked(messages, known, base) ==
    \A n \in DOMAIN messages :
        LET before == IF n = 1 THEN known.id ELSE messages[n - 1].covers.id IN
        /\ messages[n].covers.process = 0
        /\ messages[n].kind = "event" =>
              messages[n].id = messages[n].covers.id /\ messages[n].covers.id = before + 1
        /\ messages[n].kind = "snapshot" =>
              /\ n = 1 /\ before <= messages[n].covers.id
              /\ \/ messages[n].id = messages[n].covers.id
                 \/ messages[n].id = 0 /\ messages[n].covers.id <= base

\* What the page knows when it has read them.
Reach(messages, known) ==
    IF messages = <<>> THEN known.id ELSE messages[Len(messages)].covers.id

\* Events of the first process, from the next one on.
Ahead(events, from) ==
    \A n \in DOMAIN events : events[n].id = from + n /\ events[n].process = 0

\* What a subscriber still has to send.
Coming(s) == s.hand \o s.queue

\* The last event that the replay does not hold, or none.
Base == nextID - Len(replay)

Consecutive == Len(replay) <= nextID /\ Ahead(replay, Base)

Chain(messages, s, seen, known, base, latest) ==
    /\ known.process = 0 /\ seen <= known.id
    /\ seen = known.id \/ seen <= base
    /\ Linked(messages, known, base)
    /\ known.id <= latest /\ \A n \in DOMAIN messages : messages[n].covers.id <= latest
    /\ Ahead(Coming(s), Reach(messages, known))
    /\ Reach(messages, known) + Len(Coming(s)) <= latest
    /\ s.registered => Reach(messages, known) + Len(Coming(s)) = latest

Chained(c) == Chain(wire[c], sub[c], last[c], covers[c], Base, nextID)

Delivery == process = 0 => Consecutive /\ \A c \in Clients : Chained(c)

LEMMA ReachNat ==
    ASSUME NEW messages \in Seq(Messages), NEW known \in Marks
    PROVE  Reach(messages, known) \in Nat
<1>1. known.id \in Nat
  BY Numbers DEF Marks
<1>2. ASSUME messages # <<>> PROVE messages[Len(messages)].covers.id \in Nat
  <2>1. messages[Len(messages)] \in Messages
    BY <1>2
  <2> QED BY <2>1, Numbers DEF Messages, Marks
<1> QED BY <1>1, <1>2 DEF Reach

\* One more event on the wire.
LEMMA LinkedAppend ==
    ASSUME NEW messages \in Seq(Messages), NEW known \in Marks, NEW base,
           Linked(messages, known, base),
           NEW e \in Events, e.process = 0, e.id = Reach(messages, known) + 1
    PROVE  /\ Linked(Append(messages, EventMessage(e)), known, base)
           /\ Reach(Append(messages, EventMessage(e)), known) = e.id
<1> DEFINE m == EventMessage(e)
<1> DEFINE more == Append(messages, m)
<1>1. /\ m.kind = "event" /\ m.id = e.id /\ m.covers.id = e.id /\ m.covers.process = 0
  BY DEF EventMessage
<1> HIDE DEF m
<1>2. /\ Len(messages) \in Nat /\ DOMAIN messages = 1..Len(messages)
      /\ Len(more) = Len(messages) + 1 /\ DOMAIN more = 1..(Len(messages) + 1)
      /\ more[Len(messages) + 1] = m /\ \A n \in DOMAIN messages : more[n] = messages[n]
  OBVIOUS
<1> HIDE DEF more
<1>3. Reach(more, known) = e.id
  BY <1>1, <1>2 DEF Reach
<1>4. ASSUME NEW n \in DOMAIN more
      PROVE  LET before == IF n = 1 THEN known.id ELSE more[n - 1].covers.id IN
             /\ more[n].covers.process = 0
             /\ more[n].kind = "event" => more[n].id = more[n].covers.id /\ more[n].covers.id = before + 1
             /\ more[n].kind = "snapshot" =>
                   /\ n = 1 /\ before <= more[n].covers.id
                   /\ \/ more[n].id = more[n].covers.id
                      \/ more[n].id = 0 /\ more[n].covers.id <= base
  <2>1. CASE n \in DOMAIN messages
    <3>1. more[n] = messages[n] /\ (n # 1 => more[n - 1] = messages[n - 1])
      BY <1>2, <2>1
    <3> QED BY <2>1, <3>1 DEF Linked
  <2>2. CASE n = Len(messages) + 1
    <3>1. (IF n = 1 THEN known.id ELSE more[n - 1].covers.id) = Reach(messages, known)
      BY <1>2, <2>2 DEF Reach
    <3> QED BY <1>1, <1>2, <2>2, <3>1
  <2> QED BY <1>2, <2>1, <2>2
<1> QED BY <1>3, <1>4 DEF Linked, more, m

\* The page has read the first message.
LEMMA LinkedTail ==
    ASSUME NEW messages \in Seq(Messages), messages # <<>>, NEW known, NEW base,
           Linked(messages, known, base)
    PROVE  /\ Linked(Tail(messages), Head(messages).covers, base)
           /\ Reach(Tail(messages), Head(messages).covers) = Reach(messages, known)
<1> DEFINE rest == Tail(messages)
<1>1. /\ Len(messages) \in Nat \ {0} /\ DOMAIN messages = 1..Len(messages)
      /\ Len(rest) = Len(messages) - 1 /\ DOMAIN rest = 1..(Len(messages) - 1)
      /\ rest \in Seq(Messages) /\ \A n \in DOMAIN rest : rest[n] = messages[n + 1]
      /\ Head(messages) = messages[1]
  OBVIOUS
<1> HIDE DEF rest
<1>2. Reach(rest, Head(messages).covers) = Reach(messages, known)
  <2>1. CASE rest = <<>>
    <3>1. Len(messages) = 1
      <4>1. Len(rest) = 0
        BY <2>1, NoEvents
      <4>2. Len(messages) \in Nat /\ Len(rest) = Len(messages) - 1
        BY <1>1
      <4> QED BY <4>1, <4>2
    <3> QED BY <1>1, <2>1, <3>1 DEF Reach
  <2>2. CASE rest # <<>>
    <3>1. Len(rest) \in DOMAIN rest
      BY <1>1, <2>2
    <3> QED BY <1>1, <2>2, <3>1 DEF Reach
  <2> QED BY <2>1, <2>2
<1>3. ASSUME NEW n \in DOMAIN rest
      PROVE  LET before == IF n = 1 THEN Head(messages).covers.id ELSE rest[n - 1].covers.id IN
             /\ rest[n].covers.process = 0
             /\ rest[n].kind = "event" => rest[n].id = rest[n].covers.id /\ rest[n].covers.id = before + 1
             /\ rest[n].kind = "snapshot" =>
                   /\ n = 1 /\ before <= rest[n].covers.id
                   /\ \/ rest[n].id = rest[n].covers.id
                      \/ rest[n].id = 0 /\ rest[n].covers.id <= base
  <2>1. /\ n + 1 \in DOMAIN messages /\ n + 1 # 1 /\ (n + 1) - 1 = n
        /\ rest[n] = messages[n + 1] /\ (n # 1 => rest[n - 1] = messages[n])
    BY <1>1
  <2>2. (IF n = 1 THEN Head(messages).covers.id ELSE rest[n - 1].covers.id) = messages[n].covers.id
    BY <1>1, <2>1
  <2>3. /\ messages[n + 1].covers.process = 0
        /\ messages[n + 1].kind = "event" =>
              /\ messages[n + 1].id = messages[n + 1].covers.id
              /\ messages[n + 1].covers.id = messages[n].covers.id + 1
        /\ messages[n + 1].kind # "snapshot"
    BY <2>1 DEF Linked
  <2> QED BY <2>1, <2>2, <2>3
<1> QED BY <1>2, <1>3 DEF Linked, rest

LEMMA AheadAppend ==
    ASSUME NEW events \in Seq(Events), NEW from, Ahead(events, from),
           NEW e \in Events, e.process = 0, e.id = from + Len(events) + 1, from \in Nat
    PROVE  Ahead(Append(events, e), from)
<1>1. /\ Len(events) \in Nat /\ DOMAIN Append(events, e) = 1..(Len(events) + 1)
      /\ Append(events, e)[Len(events) + 1] = e
      /\ \A n \in 1..Len(events) : Append(events, e)[n] = events[n] /\ n \in DOMAIN events
  OBVIOUS
<1>2. ASSUME NEW n \in DOMAIN Append(events, e)
      PROVE  Append(events, e)[n].id = from + n /\ Append(events, e)[n].process = 0
  <2>1. CASE n = Len(events) + 1
    BY <1>1, <2>1
  <2>2. CASE n \in 1..Len(events)
    BY <1>1, <2>2 DEF Ahead
  <2> QED BY <1>1, <2>1, <2>2
<1> QED BY <1>2 DEF Ahead

LEMMA AheadTail ==
    ASSUME NEW events \in Seq(Events), events # <<>>, NEW from \in Nat, Ahead(events, from)
    PROVE  /\ Head(events).id = from + 1 /\ Head(events).process = 0
           /\ Ahead(Tail(events), from + 1)
<1>1. /\ Len(events) \in Nat \ {0} /\ DOMAIN events = 1..Len(events) /\ Head(events) = events[1]
      /\ DOMAIN Tail(events) = 1..(Len(events) - 1)
      /\ \A n \in 1..(Len(events) - 1) : Tail(events)[n] = events[n + 1]
  OBVIOUS
<1>2. ASSUME NEW n \in DOMAIN Tail(events)
      PROVE  Tail(events)[n].id = (from + 1) + n /\ Tail(events)[n].process = 0
  <2>1. n + 1 \in DOMAIN events /\ n \in Nat /\ Tail(events)[n] = events[n + 1]
    BY <1>1
  <2>2. events[n + 1].id = from + (n + 1) /\ events[n + 1].process = 0
    BY <2>1 DEF Ahead
  <2> QED BY <2>1, <2>2
<1>3. 1 \in DOMAIN events
  BY <1>1
<1> QED BY <1>1, <1>2, <1>3 DEF Ahead

LEMMA LinkedLater ==
    ASSUME NEW messages \in Seq(Messages), NEW known, NEW base \in Int, NEW later \in Int,
           base <= later, Linked(messages, known, base)
    PROVE  Linked(messages, known, later)
<1>1. \A n \in DOMAIN messages : messages[n].covers.id \in Nat
  <2>1. \A n \in DOMAIN messages : messages[n] \in Messages
    OBVIOUS
  <2> QED BY <2>1, Numbers DEF Messages, Marks
<1>2. \A n \in DOMAIN messages : messages[n].covers.id <= base => messages[n].covers.id <= later
  BY <1>1
<1> QED BY <1>2 DEF Linked

LEMMA ComingType ==
    ASSUME NEW s \in Subscribers
    PROVE  Coming(s) \in Seq(Events) /\ Len(Coming(s)) \in Nat
<1>1. \A h \in Seq(Events), q \in Seq(Events) : h \o q \in Seq(Events) /\ Len(h \o q) \in Nat
  OBVIOUS
<1> QED BY <1>1, Parts DEF Coming

LEMMA ComingOffered ==
    ASSUME NEW s \in Subscribers, NEW next, NEW e \in Events,
           next.hand = s.hand, next.queue = Append(s.queue, e)
    PROVE  Coming(next) = Append(Coming(s), e)
<1>1. \A h \in Seq(Events), q \in Seq(Events) : h \o Append(q, e) = Append(h \o q, e)
  OBVIOUS
<1> QED BY <1>1, Parts DEF Coming

LEMMA ComingTaken ==
    ASSUME NEW s \in Subscribers, NEW next, s.hand = <<>>, s.queue # <<>>,
           next.hand = <<Head(s.queue)>>, next.queue = Tail(s.queue)
    PROVE  Coming(next) = Coming(s)
<1>1. \A q \in Seq(Events) : q # <<>> => <<Head(q)>> \o Tail(q) = q /\ <<>> \o q = q
  OBVIOUS
<1> QED BY <1>1, Parts DEF Coming

LEMMA ComingSent ==
    ASSUME NEW s \in Subscribers, NEW next, NEW e \in Events, s.hand = <<e>>,
           next.hand = <<>>, next.queue = s.queue
    PROVE  /\ Coming(s) # <<>> /\ Head(Coming(s)) = e /\ Coming(next) = Tail(Coming(s))
           /\ Len(Coming(next)) = Len(Coming(s)) - 1
<1>1. \A q \in Seq(Events) : /\ <<e>> \o q # <<>> /\ Head(<<e>> \o q) = e
                             /\ <<>> \o q = Tail(<<e>> \o q)
                             /\ Len(<<>> \o q) = Len(<<e>> \o q) - 1
  OBVIOUS
<1> QED BY <1>1, Parts DEF Coming

LEMMA ComingFresh ==
    /\ Coming(Fresh) = <<>> /\ Coming(Disconnected(Fresh)) = <<>> /\ Len(<<>>) = 0
    /\ ~Disconnected(Fresh).registered
<1>1. <<>> \o <<>> = <<>> /\ Len(<<>>) = 0
  OBVIOUS
<1> QED BY <1>1 DEF Coming, Fresh, Disconnected

\* An event is offered, and the replay has lost events perhaps.
LEMMA ChainOffered ==
    ASSUME NEW messages \in Seq(Messages), NEW s \in Subscribers, NEW seen \in Nat,
           NEW known \in Marks, NEW base \in Int, NEW latest \in Nat,
           Chain(messages, s, seen, known, base, latest), Exact(s),
           NEW later \in Int, base <= later,
           NEW e \in Events, e.process = 0, e.id = latest + 1
    PROVE  Chain(messages, Offer(s, e), seen, known, later, latest + 1)
<1> DEFINE next == Offer(s, e)
<1> DEFINE reach == Reach(messages, known)
<1>1. /\ next \in Subscribers /\ next.hand = s.hand
      /\ \/ next.queue = s.queue /\ ~next.registered
         \/ s.registered /\ next.registered /\ next.queue = Append(s.queue, e)
  BY Offered
<1> HIDE DEF next
<1>2. Linked(messages, known, later)
  BY LinkedLater DEF Chain
<1>3. \A n \in DOMAIN messages : messages[n].covers.id \in Nat
  <2>1. \A n \in DOMAIN messages : messages[n] \in Messages
    OBVIOUS
  <2> QED BY <2>1, Numbers DEF Messages, Marks
<1>4. /\ \A n \in DOMAIN messages : messages[n].covers.id <= latest + 1
      /\ known.id <= latest + 1 /\ (seen = known.id \/ seen <= later)
  <2>1. known.id \in Nat
    BY Numbers DEF Marks
  <2>2. \A i \in Nat : i <= latest => i <= latest + 1
    OBVIOUS
  <2>3. seen <= base => seen <= later
    OBVIOUS
  <2> QED BY <1>3, <2>1, <2>2, <2>3 DEF Chain
<1>5. reach \in Nat /\ Coming(s) \in Seq(Events) /\ Len(Coming(s)) \in Nat
  BY ReachNat, ComingType
<1> HIDE DEF reach
<1>6. CASE next.queue = s.queue /\ ~next.registered
  <2>1. Coming(next) = Coming(s)
    BY <1>1, <1>6 DEF Coming
  <2>2. reach + Len(Coming(s)) <= latest /\ Ahead(Coming(s), reach)
    BY DEF Chain, reach
  <2>3. reach + Len(Coming(s)) <= latest + 1
    BY <1>5, <2>2
  <2> QED BY <1>2, <1>4, <1>6, <2>1, <2>2, <2>3 DEF Chain, next, reach
<1>7. CASE s.registered /\ next.registered /\ next.queue = Append(s.queue, e)
  <2>1. Coming(next) = Append(Coming(s), e)
    BY <1>1, <1>7, ComingOffered
  <2>2. reach + Len(Coming(s)) = latest /\ Ahead(Coming(s), reach)
    BY <1>7 DEF Chain, reach
  <2>3. e.id = reach + Len(Coming(s)) + 1
    BY <1>5, <2>2
  <2>4. Ahead(Coming(next), reach)
    BY <1>5, <2>1, <2>2, <2>3, AheadAppend
  <2>5. Len(Coming(next)) = Len(Coming(s)) + 1
    BY <1>5, <2>1
  <2>6. reach + Len(Coming(next)) = latest + 1
    BY <1>5, <2>2, <2>5
  <2>7. reach + Len(Coming(next)) <= latest + 1
    BY <2>6
  <2> QED BY <1>2, <1>4, <2>4, <2>6, <2>7 DEF Chain, next, reach
<1> QED BY <1>1, <1>6, <1>7

\* `forward` has put an event on the wire.
LEMMA ChainSent ==
    ASSUME NEW messages \in Seq(Messages), NEW s \in Subscribers, NEW seen \in Nat,
           NEW known \in Marks, NEW base \in Int, NEW latest \in Nat,
           Chain(messages, s, seen, known, base, latest),
           NEW e \in Events, s.hand = <<e>>,
           NEW next, next.hand = <<>>, next.queue = s.queue, next.registered = s.registered
    PROVE  Chain(Append(messages, EventMessage(e)), next, seen, known, base, latest)
<1> DEFINE more == Append(messages, EventMessage(e))
<1> DEFINE reach == Reach(messages, known)
<1>1. /\ Coming(s) # <<>> /\ Head(Coming(s)) = e /\ Coming(next) = Tail(Coming(s))
      /\ Len(Coming(next)) = Len(Coming(s)) - 1
  BY ComingSent
<1>2. reach \in Nat /\ Coming(s) \in Seq(Events) /\ Len(Coming(s)) \in Nat
  BY ReachNat, ComingType
<1>3. e.id = reach + 1 /\ e.process = 0 /\ Ahead(Coming(next), reach + 1)
  <2>1. Ahead(Coming(s), reach)
    BY DEF Chain
  <2> HIDE DEF reach
  <2> QED BY <1>1, <1>2, <2>1, AheadTail
<1>4. Linked(more, known, base) /\ Reach(more, known) = reach + 1
  BY <1>3, LinkedAppend DEF Chain
<1>5. (reach + 1) + Len(Coming(next)) = reach + Len(Coming(s))
  <2> HIDE DEF reach
  <2> QED BY <1>1, <1>2
<1>6. e.id <= latest
  <2>1. reach + Len(Coming(s)) <= latest
    BY DEF Chain
  <2>2. Len(Coming(s)) >= 1
    BY <1>1, <1>2
  <2> HIDE DEF reach
  <2> QED BY <1>2, <1>3, <2>1, <2>2
<1>7. ASSUME NEW n \in DOMAIN more PROVE more[n].covers.id <= latest
  <2>1. \/ n \in DOMAIN messages /\ more[n] = messages[n]
        \/ more[n] = EventMessage(e)
    OBVIOUS
  <2> QED BY <1>6, <2>1 DEF Chain, EventMessage
<1> HIDE DEF more
<1> QED BY <1>3, <1>4, <1>5, <1>7 DEF Chain, more

\* The page has read a message.
LEMMA ChainRead ==
    ASSUME NEW messages \in Seq(Messages), NEW s \in Subscribers, NEW seen \in Nat,
           NEW known \in Marks, NEW base \in Int, NEW latest \in Nat,
           Chain(messages, s, seen, known, base, latest), messages # <<>>,
           NEW now, now = IF Head(messages).id = 0 THEN seen ELSE Head(messages).id
    PROVE  Chain(Tail(messages), s, now, Head(messages).covers, base, latest)
<1> DEFINE first == Head(messages)
<1> DEFINE rest == Tail(messages)
<1>1. /\ 1 \in DOMAIN messages /\ first = messages[1] /\ first \in Messages
      /\ \A n \in DOMAIN rest : rest[n] = messages[n + 1] /\ n + 1 \in DOMAIN messages
  OBVIOUS
<1>2. Linked(rest, first.covers, base) /\ Reach(rest, first.covers) = Reach(messages, known)
  BY LinkedTail DEF Chain
<1> HIDE DEF first, rest
<1>3. /\ first.kind \in {"event", "snapshot"} /\ first.id \in Nat /\ first.covers.id \in Nat
      /\ known.id \in Nat
  <2>1. MaxEvents \in Nat /\ first \in Messages
    BY <1>1, Numbers
  <2>2. 0..MaxEvents \subseteq Nat
    BY <2>1
  <2>3. first.id \in 0..MaxEvents /\ first.covers \in Marks /\ first.kind \in {"event", "snapshot"}
    BY <2>1 DEF Messages
  <2> QED BY <2>2, <2>3 DEF Marks
<1>4. /\ first.covers.process = 0
      /\ first.kind = "event" => first.id = first.covers.id /\ first.covers.id = known.id + 1
      /\ first.kind = "snapshot" =>
            /\ known.id <= first.covers.id
            /\ first.id = first.covers.id \/ (first.id = 0 /\ first.covers.id <= base)
  <2>1. Linked(messages, known, base)
    BY DEF Chain
  <2> QED BY <1>1, <2>1 DEF Linked
<1>5. seen <= known.id /\ (seen = known.id \/ seen <= base)
  BY DEF Chain
<1>6. now <= first.covers.id /\ (now = first.covers.id \/ now <= base)
  <2>1. now = IF first.id = 0 THEN seen ELSE first.id
    BY DEF first
  <2>2. CASE first.id # 0
    <3>1. now = first.covers.id
      BY <1>3, <1>4, <2>1, <2>2
    <3> QED BY <1>3, <3>1
  <2>3. CASE first.id = 0
    <3>1. now = seen /\ known.id <= first.covers.id
      BY <1>3, <1>4, <2>1, <2>3
    <3>2. first.covers.id = 0 \/ first.covers.id <= base
      BY <1>3, <1>4, <2>3
    <3> QED BY <1>3, <1>5, <3>1, <3>2
  <2> QED BY <2>2, <2>3
<1>7. first.covers.id <= latest /\ \A n \in DOMAIN rest : rest[n].covers.id <= latest
  BY <1>1 DEF Chain
<1> QED BY <1>2, <1>4, <1>6, <1>7 DEF Chain, first, rest

\* The stream is closed, or a new one starts with a snapshot.
LEMMA ChainClosed ==
    ASSUME NEW messages, NEW s, NEW seen \in Nat, NEW known \in Marks,
           NEW base, NEW latest, Chain(messages, s, seen, known, base, latest)
    PROVE  Chain(<<>>, Disconnected(Fresh), seen, known, base, latest)
<1>0. known.id \in Nat
  BY Numbers DEF Marks
<1>1. DOMAIN <<>> = {} /\ Len(<<>>) = 0 /\ known.id + 0 = known.id
  BY <1>0
<1>2. Linked(<<>>, known, base) /\ Ahead(<<>>, known.id) /\ Reach(<<>>, known) = known.id
  BY <1>1 DEF Linked, Ahead, Reach
<1>3. known.process = 0 /\ seen <= known.id /\ (seen = known.id \/ seen <= base) /\ known.id <= latest
  BY DEF Chain
<1> QED BY <1>1, <1>2, <1>3, ComingFresh DEF Chain

LEMMA ChainSnapshot ==
    ASSUME NEW messages, NEW s, NEW seen \in Nat, NEW known \in Marks,
           NEW base, NEW latest \in Nat, Chain(messages, s, seen, known, base, latest),
           NEW message, message.kind = "snapshot",
           message.covers.process = 0, message.covers.id = latest,
           message.id = latest \/ (message.id = 0 /\ latest <= base)
    PROVE  Chain(<<message>>, Fresh, seen, known, base, latest)
<1>1. DOMAIN <<message>> = {1} /\ <<message>>[1] = message /\ Len(<<message>>) = 1 /\ <<message>> # <<>>
  OBVIOUS
<1>2. DOMAIN <<>> = {} /\ Len(<<>>) = 0 /\ latest + 0 = latest /\ latest <= latest
  OBVIOUS
<1>3. Linked(<<message>>, known, base) /\ Reach(<<message>>, known) = latest
  BY <1>1 DEF Chain, Linked, Reach
<1>4. Ahead(<<>>, latest)
  BY <1>2 DEF Ahead
<1> QED BY <1>1, <1>2, <1>3, <1>4, ComingFresh DEF Chain

\* The stream resumes behind the last event the page saw, which the replay still has.
LEMMA ChainResumed ==
    ASSUME NEW s, NEW seen \in Nat, NEW known \in Marks, NEW base \in Nat, NEW latest \in Nat,
           NEW waiting, Chain(waiting, s, seen, known, base, latest),
           NEW events \in Seq(Events), Ahead(events, base), base + Len(events) = latest,
           NEW n \in DOMAIN events, events[n].id = seen,
           NEW messages \in Seq(Messages), DOMAIN messages = 1..(Len(events) - n),
           \A k \in DOMAIN messages : messages[k] = EventMessage(events[n + k])
    PROVE  Chain(messages, Fresh, seen, known, base, latest)
<1>0. \A i \in Nat, j \in Nat, k \in Nat : (i + (j + (k - 1))) + 1 = i + (j + k)
  OBVIOUS
<1>1. known.id \in Nat
  BY Numbers DEF Marks
<1>2. known.process = 0 /\ seen <= known.id /\ (seen = known.id \/ seen <= base) /\ known.id <= latest
  BY DEF Chain
<1>3. /\ Len(events) \in Nat /\ n \in 1..Len(events)
      /\ \A k \in DOMAIN messages : n + k \in DOMAIN events
  OBVIOUS
<1>4. seen = base + n /\ known.id = base + n
  <2>1. events[n].id = base + n
    BY DEF Ahead
  <2> QED BY <1>1, <1>2, <1>3, <2>1
<1>5. ASSUME NEW k \in DOMAIN messages
      PROVE  /\ messages[k].kind = "event" /\ messages[k].id = base + (n + k)
             /\ messages[k].covers.id = base + (n + k) /\ messages[k].covers.process = 0
  <2>1. messages[k] = EventMessage(events[n + k]) /\ n + k \in DOMAIN events
    BY <1>3
  <2>2. events[n + k].id = base + (n + k) /\ events[n + k].process = 0
    BY <2>1 DEF Ahead
  <2> QED BY <2>1, <2>2 DEF EventMessage
<1>6. PICK length \in Nat : length = Len(events) - n /\ n + length = Len(events)
  <2>1. PICK whole \in Nat : whole = Len(events) /\ n \in 1..whole
    BY <1>3
  <2>2. whole - n \in Nat /\ n + (whole - n) = whole
    BY <2>1
  <2> QED BY <2>1, <2>2
<1>7. DOMAIN messages = 1..length /\ Len(messages) = length /\ (messages = <<>> <=> length = 0)
  <2>1. DOMAIN messages = 1..length
    BY <1>3, <1>6
  <2>2. PICK size \in Nat : size = Len(messages) /\ DOMAIN messages = 1..size
    OBVIOUS
  <2>3. size = length
    <3>1. size \in 1..size => size \in 1..length
      BY <2>1, <2>2
    <3>2. length \in 1..length => length \in 1..size
      BY <2>1, <2>2
    <3> QED BY <2>2, <3>1, <3>2
  <2>4. messages = <<>> <=> Len(messages) = 0
    OBVIOUS
  <2> QED BY <2>1, <2>2, <2>3, <2>4
<1>8. \A k \in 1..length :
         /\ messages[k].kind = "event" /\ messages[k].id = base + (n + k)
         /\ messages[k].covers.id = base + (n + k) /\ messages[k].covers.process = 0
  BY <1>3, <1>5, <1>6
<1>9. ASSUME NEW k \in 1..length
      PROVE  base + (n + k) = (IF k = 1 THEN known.id ELSE messages[k - 1].covers.id) + 1
  <2>0. n \in Nat /\ k \in Nat
    BY <1>3
  <2>1. CASE k = 1
    BY <1>4, <2>0, <2>1
  <2>2. CASE k # 1
    <3>1. k - 1 \in 1..length
      BY <1>6, <2>2
    <3>2. messages[k - 1].covers.id = base + (n + (k - 1))
      BY <1>8, <3>1
    <3>3. (base + (n + (k - 1))) + 1 = base + (n + k)
      BY <1>0, <2>0
    <3> QED BY <2>2, <3>2, <3>3
  <2> QED BY <2>1, <2>2
<1>10. Linked(messages, known, base)
  <2>1. \A k \in 1..length : messages[k].kind # "snapshot"
    BY <1>8
  <2> SUFFICES ASSUME NEW k \in DOMAIN messages
               PROVE  LET before == IF k = 1 THEN known.id ELSE messages[k - 1].covers.id IN
                      /\ messages[k].covers.process = 0
                      /\ messages[k].kind = "event" =>
                            messages[k].id = messages[k].covers.id /\ messages[k].covers.id = before + 1
                      /\ messages[k].kind = "snapshot" =>
                            /\ k = 1 /\ before <= messages[k].covers.id
                            /\ \/ messages[k].id = messages[k].covers.id
                               \/ messages[k].id = 0 /\ messages[k].covers.id <= base
    BY Zenon DEF Linked
  <2>2. k \in 1..length
    BY <1>7
  <2>3. /\ messages[k].id = messages[k].covers.id
        /\ messages[k].covers.id = (IF k = 1 THEN known.id ELSE messages[k - 1].covers.id) + 1
    BY <1>8, <1>9, <2>2, Zenon
  <2> QED BY <1>8, <2>1, <2>2, <2>3, Zenon
<1>11. Reach(messages, known) = latest
  <2>1. CASE length = 0
    <3>1. base + n = latest
      <4>1. n = Len(events)
        BY <1>3, <1>6, <2>1
      <4> QED BY <4>1
    <3> QED BY <1>4, <1>7, <2>1, <3>1 DEF Reach
  <2>2. CASE length # 0
    <3>1. length \in 1..length
      BY <1>6, <2>2
    <3>2. messages[length].covers.id = base + (n + length)
      BY <1>8, <3>1
    <3>3. messages # <<>> /\ Len(messages) = length
      BY <1>7, <2>2
    <3>4. Reach(messages, known) = messages[length].covers.id
      BY <3>3 DEF Reach
    <3> QED BY <1>6, <3>2, <3>4
  <2> QED BY <2>1, <2>2
<1>12. \A k \in DOMAIN messages : messages[k].covers.id <= latest
  <2>1. n \in Nat
    BY <1>3
  <2>2. \A k \in 1..length : base + (n + k) <= latest
    BY <1>6, <2>1
  <2>3. \A k \in 1..length : messages[k].covers.id = base + (n + k)
    BY <1>8
  <2> QED BY <1>7, <2>2, <2>3
<1>13. DOMAIN <<>> = {} /\ Len(<<>>) = 0 /\ latest + 0 = latest /\ latest <= latest
  OBVIOUS
<1>14. Ahead(<<>>, latest)
  BY <1>13 DEF Ahead
<1> HIDE DEF Linked
<1> QED BY <1>2, <1>10, <1>11, <1>12, <1>13, <1>14, ComingFresh DEF Chain

\* The replay holds the last events, whatever has been trimmed.
LEMMA ReplayMoves ==
    ASSUME TInv, Consecutive, process = 0, NEW size \in Sizes, Publish(size)
    PROVE  Consecutive' /\ Base <= Base'
<1> DEFINE e == [id |-> nextID + 1, process |-> process, size |-> size]
<1> DEFINE more == Append(replay, e)
<1>1. e \in Events /\ nextID \in Nat
  BY Numbers DEF TInv, TypeOK, Publish, Events
<1>2. e.id = nextID + 1 /\ e.process = 0
  OBVIOUS
<1>3. nextID' = nextID + 1 /\ replay' = Trimmed(more)
  BY DEF Publish
<1> HIDE DEF e
<1>4. replay \in Seq(Events) /\ Len(replay) \in Nat /\ more \in Seq(Events) /\ Len(more) = Len(replay) + 1
  BY <1>1 DEF TInv, TypeOK
<1>5. Len(replay) <= nextID /\ Ahead(replay, Base) /\ Base = nextID - Len(replay) /\ Base \in Nat
  <2>1. Len(replay) <= nextID /\ Ahead(replay, Base) /\ Base = nextID - Len(replay)
    BY DEF Consecutive, Base
  <2>2. Base \in Nat
    BY <1>1, <1>4, <2>1
  <2> QED BY <2>1, <2>2
<1>6. Ahead(more, Base)
  <2>1. e.id = Base + Len(replay) + 1
    BY <1>1, <1>2, <1>4, <1>5
  <2> QED BY <1>1, <1>2, <1>4, <1>5, <2>1, AheadAppend
<1> HIDE DEF more
<1>7. PICK n \in 0..Len(more) :
         /\ replay' \in Seq(Events) /\ Len(replay') = Len(more) - n
         /\ \A k \in 1..(Len(more) - n) : replay'[k] = more[n + k]
  BY <1>3, <1>4, Trimming
<1>8. Base' = Base + n /\ Len(replay') <= nextID'
  <2>1. Base' = nextID' - Len(replay')
    BY DEF Base
  <2> QED BY <1>1, <1>3, <1>4, <1>5, <1>7, <2>1
<1>9. ASSUME NEW k \in DOMAIN replay'
      PROVE  replay'[k].id = Base' + k /\ replay'[k].process = 0
  <2>1. k \in 1..(Len(more) - n) /\ n + k \in DOMAIN more
    BY <1>4, <1>7
  <2>2. more[n + k].id = Base + (n + k) /\ more[n + k].process = 0
    BY <1>6, <2>1 DEF Ahead
  <2>3. Base + (n + k) = Base' + k
    BY <1>5, <1>7, <1>8, <2>1
  <2> QED BY <1>7, <2>1, <2>2, <2>3
<1>10. Ahead(replay', Base')
  BY <1>9 DEF Ahead
<1>11. Base <= Base'
  BY <1>5, <1>7, <1>8
<1> QED BY <1>8, <1>10, <1>11 DEF Consecutive

\* One page's chain changes; the bus is as it was.
LEMMA ChainMoves ==
    ASSUME TInv, Delivery, process = 0, NEW c \in Clients,
           Chain(wire'[c], sub'[c], last'[c], covers'[c], Base, nextID),
           UNCHANGED busVars,
           \A d \in Clients \ {c} : /\ wire'[d] = wire[d] /\ sub'[d] = sub[d]
                                    /\ last'[d] = last[d] /\ covers'[d] = covers[d]
    PROVE  Delivery'
<1>1. UNCHANGED <<process, nextID, replay>> /\ Base' = Base
  BY DEF busVars, Base
<1>2. Consecutive'
  BY <1>1 DEF Delivery, Consecutive
<1>3. Chained(c)'
  BY <1>1 DEF Chained
<1>4. ASSUME NEW d \in Clients \ {c} PROVE Chained(d)'
  BY <1>1 DEF Delivery, Chained
<1> QED BY <1>2, <1>3, <1>4 DEF Delivery

LEMMA DeliveryInit == Init => Delivery
<1> SUFFICES ASSUME Init PROVE Delivery
  OBVIOUS
<1>1. Len(<<>>) = 0 /\ DOMAIN <<>> = {} /\ 0 + 0 = 0 /\ 0 <= 0 /\ 0 - 0 = 0
  OBVIOUS
<1>2. nextID = 0 /\ replay = <<>> /\ Base = 0
  BY <1>1 DEF Init, Base
<1>3. Consecutive
  BY <1>1, <1>2 DEF Consecutive, Ahead
<1>4. ASSUME NEW c \in Clients PROVE Chained(c)
  <2>1. /\ wire[c] = <<>> /\ sub[c] = Disconnected(Fresh) /\ last[c] = 0
        /\ covers[c].id = 0 /\ covers[c].process = 0
    BY <1>2 DEF Init, Now
  <2>2. Linked(<<>>, covers[c], 0) /\ Ahead(<<>>, 0) /\ Reach(<<>>, covers[c]) = 0
    BY <1>1, <2>1 DEF Linked, Ahead, Reach
  <2> QED BY <1>1, <1>2, <2>1, <2>2, ComingFresh DEF Chained, Chain
<1> QED BY <1>3, <1>4 DEF Delivery

LEMMA PublishDelivery ==
    ASSUME TInv, Delivery, NEW size \in Sizes, Publish(size)
    PROVE  Delivery'
<1> SUFFICES ASSUME process = 0 PROVE Delivery'
  BY DEF Delivery, Publish
<1> DEFINE e == [id |-> nextID + 1, process |-> process, size |-> size]
<1>1. e \in Events /\ nextID \in Nat /\ e.id = nextID + 1 /\ e.process = 0
  BY Numbers DEF TInv, TypeOK, Publish, Events
<1>2. /\ nextID' = nextID + 1 /\ sub' = [c \in Clients |-> Offer(sub[c], e)]
      /\ UNCHANGED <<process, wire, last, covers>>
  BY DEF Publish, pageVars
<1> HIDE DEF e
<1>3. Consecutive' /\ Base <= Base' /\ Base \in Int /\ Base' \in Int
  <2>1. Consecutive' /\ Base <= Base'
    BY ReplayMoves DEF Delivery
  <2>2. Len(replay) \in Nat
    BY DEF TInv, TypeOK
  <2>3. Base \in Int
    BY <1>1, <2>2 DEF Base
  <2>4. replay' \in Seq(Events)
    BY PublishTInv DEF TInv, TypeOK
  <2>5. Len(replay') \in Nat /\ nextID' \in Nat
    BY <1>1, <1>2, <2>4
  <2>6. Base' \in Int
    BY <2>5 DEF Base
  <2> QED BY <2>1, <2>3, <2>6
<1>4. ASSUME NEW c \in Clients PROVE Chained(c)'
  <2>1. /\ wire[c] \in Seq(Messages) /\ sub[c] \in Subscribers /\ last[c] \in Nat
        /\ covers[c] \in Marks /\ Exact(sub[c])
    BY Numbers DEF TInv, TypeOK, Pending
  <2>2. Chain(wire[c], sub[c], last[c], covers[c], Base, nextID)
    BY DEF Delivery, Chained
  <2>3. Chain(wire[c], Offer(sub[c], e), last[c], covers[c], Base', nextID + 1)
    BY <1>1, <1>3, <2>1, <2>2, ChainOffered
  <2> QED BY <1>2, <2>3 DEF Chained
<1> QED BY <1>3, <1>4 DEF Delivery

\* A step that changes neither what is to come nor what was written.
LEMMA ForwardDelivery ==
    ASSUME TInv, Delivery, NEW c \in Clients, Take(c) \/ Send(c) \/ Settle(c) \/ Hangup(c)
    PROVE  Delivery'
<1>1. UNCHANGED <<process, nextID, replay, last, covers>> /\ UNCHANGED busVars
  BY DEF Take, Send, Settle, Hangup, busVars, pageVars
<1> SUFFICES ASSUME process = 0 PROVE Delivery'
  BY <1>1 DEF Delivery
<1>2. /\ wire[c] \in Seq(Messages) /\ sub[c] \in Subscribers /\ last[c] \in Nat
      /\ covers[c] \in Marks /\ Exact(sub[c]) /\ nextID \in Nat
  BY Numbers DEF TInv, TypeOK, Pending
<1>3. Base \in Int
  <2>1. Len(replay) \in Nat
    BY DEF TInv, TypeOK
  <2> QED BY <1>2, <2>1 DEF Base
<1>4. Chain(wire[c], sub[c], last[c], covers[c], Base, nextID)
  BY DEF Delivery, Chained
<1>5. ASSUME NEW next, Coming(next) = Coming(sub[c]), next.registered = sub[c].registered
      PROVE  Chain(wire[c], next, last[c], covers[c], Base, nextID)
  BY <1>4, <1>5 DEF Chain
<1>6. \A d \in Clients \ {c} : /\ wire'[d] = wire[d] /\ sub'[d] = sub[d]
                               /\ last'[d] = last[d] /\ covers'[d] = covers[d]
  BY <1>1 DEF Take, Send, Settle, Hangup, TInv, TypeOK
<1>7. CASE Take(c)
  <2>1. /\ sub'[c].hand = <<Head(sub[c].queue)>> /\ sub'[c].queue = Tail(sub[c].queue)
        /\ sub'[c].registered = sub[c].registered /\ wire' = wire
        /\ sub[c].hand = <<>> /\ sub[c].queue # <<>>
    BY <1>7 DEF Take, TInv, TypeOK, Subscribers
  <2>2. Coming(sub'[c]) = Coming(sub[c])
    BY <1>2, <2>1, ComingTaken
  <2> QED BY <1>1, <1>5, <1>6, <2>1, <2>2, ChainMoves
<1>8. CASE Send(c)
  <2>1. /\ sub'[c].hand = <<>> /\ sub'[c].queue = sub[c].queue
        /\ sub'[c].registered = sub[c].registered
        /\ sub[c].hand # <<>> /\ wire'[c] = Append(wire[c], EventMessage(Head(sub[c].hand)))
    BY <1>8 DEF Send, TInv, TypeOK, Subscribers
  <2>2. PICK e \in Events : e = Head(sub[c].hand) /\ sub[c].hand = <<e>>
    <3>1. PICK next : next = [sub[c] EXCEPT !.hand = <<>>, !.owed = <<Head(sub[c].hand).size>>]
      OBVIOUS
    <3> QED BY <1>2, <2>1, <3>1, Sent
  <2>3. Chain(Append(wire[c], EventMessage(e)), sub'[c], last[c], covers[c], Base, nextID)
    BY <1>2, <1>3, <1>4, <2>1, <2>2, ChainSent
  <2> QED BY <1>1, <1>6, <2>1, <2>2, <2>3, ChainMoves
<1>9. CASE Settle(c) \/ Hangup(c)
  <2>1. /\ sub'[c].hand = sub[c].hand /\ sub'[c].queue = sub[c].queue
        /\ sub'[c].registered = sub[c].registered /\ wire' = wire
    BY <1>9 DEF Settle, Hangup, TInv, TypeOK, Subscribers
  <2>2. Coming(sub'[c]) = Coming(sub[c])
    BY <2>1 DEF Coming
  <2> QED BY <1>1, <1>5, <1>6, <2>1, <2>2, ChainMoves
<1> QED BY <1>7, <1>8, <1>9

LEMMA ConnectDelivery ==
    ASSUME TInv, Delivery, NEW c \in Clients, Connect(c)
    PROVE  Delivery'
<1>1. UNCHANGED <<process, nextID, replay, last, covers>> /\ UNCHANGED busVars
  BY DEF Connect, ConnectFirst, Resume, FindGap, Resync, busVars, pageVars
<1> SUFFICES ASSUME process = 0 PROVE Delivery'
  BY <1>1 DEF Delivery
<1>2. /\ last[c] \in Nat /\ covers[c] \in Marks /\ nextID \in Nat
      /\ replay \in Seq(Events) /\ Len(replay) \in Nat
  BY Numbers DEF TInv, TypeOK
<1>3. Chain(wire[c], sub[c], last[c], covers[c], Base, nextID)
  BY DEF Delivery, Chained
<1>4. Len(replay) <= nextID /\ Ahead(replay, Base) /\ Base \in Nat /\ Base + Len(replay) = nextID
  <2>1. Len(replay) <= nextID /\ Ahead(replay, Base) /\ Base = nextID - Len(replay)
    BY DEF Delivery, Consecutive, Base
  <2>2. \A i \in Nat, k \in Nat : k <= i => i - k \in Nat /\ (i - k) + k = i
    OBVIOUS
  <2> QED BY <1>2, <2>1, <2>2
<1>5. ASSUME NEW messages, Subscribed(c, messages),
             Chain(messages, Fresh, last[c], covers[c], Base, nextID)
      PROVE  Delivery'
  <2>1. /\ wire'[c] = messages /\ sub'[c] = Fresh
        /\ \A d \in Clients \ {c} : wire'[d] = wire[d] /\ sub'[d] = sub[d]
    BY <1>5 DEF Subscribed, TInv, TypeOK
  <2> QED BY <1>1, <1>5, <2>1, ChainMoves
<1>6. CASE ConnectFirst(c) \/ Resync(c)
  <2>1. PICK message : message = [kind |-> "snapshot", id |-> Cursor, covers |-> Now]
    OBVIOUS
  <2>2. Subscribed(c, <<message>>)
    BY <1>6, <2>1 DEF ConnectFirst, Resync, WithSnapshot
  <2>3. message.id = nextID \/ (message.id = 0 /\ nextID <= Base)
    <3>1. CASE replay = <<>>
      <4>1. Len(replay) = 0 /\ Cursor = 0
        BY <3>1, NoEvents DEF Cursor
      <4>2. nextID <= Base
        BY <1>2, <1>4, <4>1
      <4> QED BY <2>1, <4>1, <4>2
    <3>2. CASE replay # <<>>
      <4>1. Len(replay) \in DOMAIN replay /\ Cursor = replay[Len(replay)].id
        BY <1>2, <3>2 DEF Cursor, Last
      <4>2. Cursor = Base + Len(replay)
        BY <1>4, <4>1 DEF Ahead
      <4> QED BY <1>4, <2>1, <4>2
    <3> QED BY <3>1, <3>2
  <2>4. message.kind = "snapshot" /\ message.covers.process = 0 /\ message.covers.id = nextID
    BY <2>1 DEF Now
  <2>5. Chain(<<message>>, Fresh, last[c], covers[c], Base, nextID)
    BY <1>2, <1>3, <2>3, <2>4, ChainSnapshot
  <2> QED BY <1>5, <2>2, <2>5
<1>7. CASE Resume(c)
  <2> DEFINE chosen == CHOOSE m \in DOMAIN replay : replay[m].id = last[c]
  <2>1. chosen \in DOMAIN replay /\ replay[chosen].id = last[c]
    BY <1>7 DEF Resume, IsReplayable
  <2>2. PICK n \in DOMAIN replay : n = chosen /\ replay[n].id = last[c]
    BY <2>1
  <2>3. PICK rest : rest = SubSeq(replay, n + 1, Len(replay))
    OBVIOUS
  <2>4. Replayed(last[c]) = rest
    BY <2>2, <2>3 DEF Replayed
  <2>5. /\ rest \in Seq(Events) /\ DOMAIN rest = 1..(Len(replay) - n)
        /\ \A k \in DOMAIN rest : rest[k] = replay[n + k]
    BY <1>2, <2>3
  <2>6. PICK messages : messages = [k \in DOMAIN rest |-> EventMessage(rest[k])]
    OBVIOUS
  <2>7. Subscribed(c, messages)
    BY <1>7, <2>4, <2>6 DEF Resume
  <2>8. messages \in Seq(Messages)
    <3>1. rest \in Seq(Events)
      BY <2>5
    <3>2. \A e \in Events : EventMessage(e) \in Messages
      BY Writes
    <3> QED BY <2>6, <3>1, <3>2
  <2>9. /\ DOMAIN messages = 1..(Len(replay) - n)
        /\ \A k \in DOMAIN messages : messages[k] = EventMessage(replay[n + k])
    BY <2>5, <2>6
  <2> HIDE DEF chosen
  <2>10. Chain(messages, Fresh, last[c], covers[c], Base, nextID)
    BY <1>2, <1>3, <1>4, <2>2, <2>8, <2>9, ChainResumed
  <2> QED BY <1>5, <2>7, <2>10
<1>8. CASE FindGap(c)
  BY <1>1, <1>3, <1>8, ChainMoves DEF FindGap
<1> QED BY <1>6, <1>7, <1>8 DEF Connect

LEMMA PageDelivery ==
    ASSUME TInv, Delivery, NEW c \in Clients, Read(c) \/ ReadEnd(c) \/ Break(c)
    PROVE  Delivery'
<1>1. UNCHANGED <<process, nextID, replay>> /\ UNCHANGED busVars
  BY DEF Read, ReadEnd, Break, busVars
<1> SUFFICES ASSUME process = 0 PROVE Delivery'
  BY <1>1 DEF Delivery
<1>2. /\ wire[c] \in Seq(Messages) /\ sub[c] \in Subscribers /\ last[c] \in Nat
      /\ covers[c] \in Marks /\ nextID \in Nat
  BY Numbers DEF TInv, TypeOK
<1>3. Base \in Int
  <2>1. Len(replay) \in Nat
    BY DEF TInv, TypeOK
  <2> QED BY <1>2, <2>1 DEF Base
<1>4. Chain(wire[c], sub[c], last[c], covers[c], Base, nextID)
  BY DEF Delivery, Chained
<1>5. \A d \in Clients \ {c} : /\ wire'[d] = wire[d] /\ sub'[d] = sub[d]
                               /\ last'[d] = last[d] /\ covers'[d] = covers[d]
  BY DEF Read, ReadEnd, Break, Closed, pageVars, TInv, TypeOK
<1>6. CASE Read(c)
  <2>1. /\ wire[c] # <<>> /\ wire'[c] = Tail(wire[c]) /\ sub' = sub
        /\ last'[c] = IF Head(wire[c]).id = 0 THEN last[c] ELSE Head(wire[c]).id
        /\ covers'[c] = Head(wire[c]).covers
    BY <1>6 DEF Read, TInv, TypeOK
  <2>2. Chain(Tail(wire[c]), sub[c], last'[c], Head(wire[c]).covers, Base, nextID)
    BY <1>2, <1>3, <1>4, <2>1, ChainRead
  <2> QED BY <1>1, <1>5, <2>1, <2>2, ChainMoves
<1>7. CASE ReadEnd(c) \/ Break(c)
  <2>1. wire'[c] = <<>> /\ sub'[c] = Disconnected(Fresh) /\ UNCHANGED <<last, covers>>
    BY <1>7 DEF ReadEnd, Break, Closed, pageVars, TInv, TypeOK
  <2>2. Chain(<<>>, Disconnected(Fresh), last[c], covers[c], Base, nextID)
    BY <1>2, <1>4, ChainClosed
  <2> QED BY <1>1, <1>5, <2>1, <2>2, ChainMoves
<1> QED BY <1>6, <1>7

LEMMA DeliveryStep == ASSUME TInv, Delivery, [Next]_vars PROVE Delivery'
<1>1. CASE UNCHANGED vars
  <2>1. UNCHANGED <<process, nextID, replay, sub, wire, last, covers>> /\ Base' = Base
    BY <1>1 DEF vars, busVars, streamVars, pageVars, Base
  <2>2. \A c \in Clients : Chained(c)' <=> Chained(c)
    BY <2>1 DEF Chained
  <2> QED BY <2>1, <2>2 DEF Delivery, Consecutive
<1>2. CASE Restart
  <2>1. process \in Nat /\ process' = process + 1
    BY <1>2, Numbers DEF Restart, TInv, TypeOK
  <2> QED BY <2>1 DEF Delivery
<1> QED BY <1>1, <1>2, PublishDelivery, ForwardDelivery, ConnectDelivery, PageDelivery DEF Next, Stream

LEMMA DeliveryInvariant == Spec => []Delivery
<1>1. Init => Delivery
  BY DeliveryInit
<1>2. TInv /\ Delivery /\ [Next]_vars => Delivery'
  BY DeliveryStep
<1> QED BY <1>1, <1>2, TInvariant, PTL DEF Spec

\* As long as the first process lives, the event a page reads is the one after what
\* it knows: none is lost, repeated or overtaken by slow reads, a trimmed replay, a
\* broken connection or the hand-over from replay to live events (bus.go:89-137,
\* sse.go and web/src/lib/api/events.ts).
THEOREM EveryEventOnce == Spec => ContiguousDelivery
<1>1. ASSUME TInv, Delivery, NEW c \in Clients, process = 0, ReadsEvent(c)
      PROVE  Head(wire[c]).covers = [covers[c] EXCEPT !.id = @ + 1]
  <2>1. /\ wire[c] \in Seq(Messages) /\ wire[c] # <<>> /\ covers[c] \in Marks
        /\ Head(wire[c]).kind = "event"
    BY <1>1 DEF TInv, TypeOK, ReadsEvent
  <2>2. PICK first \in Messages : first = Head(wire[c]) /\ first = wire[c][1] /\ 1 \in DOMAIN wire[c]
    BY <2>1
  <2>3. covers[c].process = 0 /\ Linked(wire[c], covers[c], Base)
    BY <1>1 DEF Delivery, Chained, Chain
  <2>4. first.covers.process = 0 /\ first.covers.id = covers[c].id + 1
    <3>1. wire[c][1].kind = "event" /\ 1 \in DOMAIN wire[c]
      BY <2>1, <2>2
    <3>2. /\ wire[c][1].covers.process = 0 /\ wire[c][1].covers.id = covers[c].id + 1
      BY <2>3, <3>1 DEF Linked
    <3> QED BY <2>2, <3>2
  <2>5. first.covers \in Marks
    BY <2>2 DEF Messages
  <2> QED BY <2>1, <2>2, <2>3, <2>4, <2>5 DEF Marks
<1>2. TInv /\ Delivery /\ [Next]_vars =>
         [\A c \in Clients : process = 0 /\ ReadsEvent(c) =>
             Head(wire[c]).covers = [covers[c] EXCEPT !.id = @ + 1]]_vars
  BY <1>1
<1> QED BY <1>2, TInvariant, DeliveryInvariant, PTL DEF ContiguousDelivery, Spec
=============================================================================
