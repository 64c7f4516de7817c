--------------------------- MODULE SelectionProofs ---------------------------
(***************************************************************************)
(* What Kept keeps: each element of the set once, and nothing else.        *)
(***************************************************************************)
EXTENDS Selection, FiniteSetTheorems, TLAPS

LEMMA Counting == ASSUME NEW n \in Nat PROVE IsFiniteSet(1..n) /\ Cardinality(1..n) = n
BY FS_Interval

LEMMA PlacesFinite ==
    ASSUME NEW T, NEW s \in Seq(T), NEW S
    PROVE  /\ Places(s, S) \subseteq 1..Len(s) /\ Len(s) \in Nat
           /\ IsFiniteSet(Places(s, S))
           /\ Cardinality(Places(s, S)) \in Nat /\ Cardinality(Places(s, S)) <= Len(s)
<1>1. Places(s, S) \subseteq 1..Len(s) /\ Len(s) \in Nat
  <2>1. Places(s, S) \subseteq DOMAIN s
    BY DEF Places
  <2>2. DOMAIN s = 1..Len(s) /\ Len(s) \in Nat
    OBVIOUS
  <2> QED BY <2>1, <2>2
<1>2. IsFiniteSet(1..Len(s)) /\ Cardinality(1..Len(s)) = Len(s)
  BY <1>1, Counting
<1>3. IsFiniteSet(Places(s, S)) /\ Cardinality(Places(s, S)) <= Cardinality(1..Len(s))
  BY <1>1, <1>2, FS_Subset
<1>4. Cardinality(Places(s, S)) \in Nat
  BY <1>3, FS_CardinalityType
<1> QED BY <1>1, <1>2, <1>3, <1>4

\* Places have different ranks, from 1 up to how many there are.
LEMMA Ranking ==
    ASSUME NEW T, NEW s \in Seq(T), NEW S
    PROVE  /\ \A k \in Places(s, S) : Rank(s, S, k) \in 1..Cardinality(Places(s, S))
           /\ \A j, k \in Places(s, S) : Rank(s, S, j) = Rank(s, S, k) => j = k
           /\ \A n \in 1..Cardinality(Places(s, S)) : \E k \in Places(s, S) : Rank(s, S, k) = n
<1> DEFINE P == Places(s, S)
<1> DEFINE UpTo(k) == {j \in P : j <= k}
<1>1. P \subseteq Nat /\ IsFiniteSet(P) /\ Cardinality(P) \in Nat
  <2>1. P \subseteq 1..Len(s) /\ Len(s) \in Nat
    BY PlacesFinite
  <2> QED BY <2>1, PlacesFinite
<1> HIDE DEF P
<1>2. \A k : Rank(s, S, k) = Cardinality(UpTo(k)) /\ UpTo(k) \subseteq P
  BY DEF Rank, P
<1>3. \A k : IsFiniteSet(UpTo(k)) /\ Cardinality(UpTo(k)) \in Nat /\ Cardinality(UpTo(k)) <= Cardinality(P)
  <2> SUFFICES ASSUME NEW k
               PROVE  IsFiniteSet(UpTo(k)) /\ Cardinality(UpTo(k)) \in Nat
                      /\ Cardinality(UpTo(k)) <= Cardinality(P)
    OBVIOUS
  <2>1. UpTo(k) \in SUBSET P
    OBVIOUS
  <2> HIDE DEF UpTo
  <2>2. IsFiniteSet(UpTo(k)) /\ Cardinality(UpTo(k)) <= Cardinality(P)
    BY <1>1, <2>1, FS_Subset
  <2> QED BY <2>2, FS_CardinalityType
<1>4. ASSUME NEW k \in P PROVE Cardinality(UpTo(k)) \in 1..Cardinality(P)
  <2>1. k \in UpTo(k)
    BY <1>1
  <2>2. Cardinality(UpTo(k)) # 0
    BY <1>3, <2>1, FS_EmptySet
  <2> HIDE DEF UpTo
  <2> QED BY <1>1, <1>3, <2>2
<1>5. ASSUME NEW j \in P, NEW k \in P, Cardinality(UpTo(j)) = Cardinality(UpTo(k))
      PROVE  j = k
  <2>1. ASSUME NEW a \in P, NEW b \in P, a < b PROVE Cardinality(UpTo(a)) # Cardinality(UpTo(b))
    <3>1. /\ UpTo(a) \in SUBSET UpTo(b)
          /\ b \in UpTo(b) /\ b \notin UpTo(a)
      <4>1. \A c \in P : c \in Nat
        BY <1>1
      <4>2. a \in Nat /\ b \in Nat /\ a < b
        BY <4>1, <2>1
      <4>3. ASSUME NEW c \in UpTo(a) PROVE c \in UpTo(b)
        <5>1. c \in P /\ c <= a /\ c \in Nat
          BY <4>1
        <5> QED BY <4>2, <5>1
      <4>4. b \in UpTo(b) /\ b \notin UpTo(a)
        BY <4>2
      <4> HIDE DEF UpTo
      <4> QED BY <4>3, <4>4
    <3> HIDE DEF UpTo
    <3> QED BY <1>3, <3>1, FS_Subset
  <2> HIDE DEF UpTo
  <2>2. j \in Nat /\ k \in Nat
    BY <1>1
  <2> QED BY <1>5, <2>1, <2>2
<1>6. ASSUME NEW n \in 1..Cardinality(P) PROVE \E k \in P : Cardinality(UpTo(k)) = n
  <2> HIDE DEF UpTo
  <2> DEFINE f == [k \in P |-> Cardinality(UpTo(k))]
  <2>1. f \in Injection(P, 1..Cardinality(P))
    BY <1>4, <1>5 DEF Injection, IsInjective
  <2>2. IsFiniteSet(1..Cardinality(P)) /\ Cardinality(1..Cardinality(P)) = Cardinality(P)
    BY <1>1, Counting
  <2> HIDE DEF f
  <2>3. f \in Surjection(P, 1..Cardinality(P))
    BY <2>1, <2>2, FS_Injection
  <2>4. \E k \in P : f[k] = n
    BY <2>3 DEF Surjection
  <2> QED BY <2>4 DEF f
<1> HIDE DEF UpTo
<1> QED BY <1>2, <1>4, <1>5, <1>6 DEF P

\* Every place of an element of the set has one place in what is kept, its rank, and
\* there are no other places.
LEMMA Keeping ==
    ASSUME NEW T, NEW s \in Seq(T), NEW S
    PROVE  /\ Kept(s, S) \in Seq(T) /\ Len(Kept(s, S)) = Cardinality(Places(s, S))
           /\ Len(Kept(s, S)) \in Nat /\ Len(Kept(s, S)) <= Len(s)
           /\ \A k \in Places(s, S) :
                 Rank(s, S, k) \in DOMAIN Kept(s, S) /\ Kept(s, S)[Rank(s, S, k)] = s[k]
           /\ \A j, k \in Places(s, S) : Rank(s, S, j) = Rank(s, S, k) => j = k
           /\ \A n \in DOMAIN Kept(s, S) : \E k \in Places(s, S) : Kept(s, S)[n] = s[k]
<1> DEFINE P == Places(s, S)
<1> DEFINE place(n) == CHOOSE k \in P : Rank(s, S, k) = n
<1>1. PICK count \in Nat : count = Cardinality(P) /\ count <= Len(s)
  BY PlacesFinite
<1>2. /\ \A k \in P : Rank(s, S, k) \in 1..count
      /\ \A j, k \in P : Rank(s, S, j) = Rank(s, S, k) => j = k
      /\ \A n \in 1..count : \E k \in P : Rank(s, S, k) = n
  BY <1>1, Ranking
<1>3. \A n \in 1..count : place(n) \in P /\ Rank(s, S, place(n)) = n
  BY <1>2
<1>4. \A k \in P : place(Rank(s, S, k)) = k
  BY <1>2, <1>3
<1>5. Kept(s, S) = [n \in 1..count |-> s[place(n)]]
  BY <1>1 DEF Kept
<1> HIDE DEF place
<1>6. \A k \in P : s[k] \in T
  BY DEF Places
<1>7. Kept(s, S) \in Seq(T) /\ Len(Kept(s, S)) = count /\ DOMAIN Kept(s, S) = 1..count
  BY <1>3, <1>5, <1>6
<1>8. \A n \in 1..count : Kept(s, S)[n] = s[place(n)]
  BY <1>5
<1> HIDE DEF P
<1> QED BY <1>1, <1>2, <1>3, <1>4, <1>7, <1>8 DEF P

\* A set and its complement part the places.
LEMMA Parting ==
    ASSUME NEW T, NEW s \in Seq(T), NEW S, NEW R, \A x \in T : x \in S <=> x \notin R
    PROVE  Len(Kept(s, S)) + Len(Kept(s, R)) = Len(s)
<1> DEFINE P == Places(s, S)
<1> DEFINE Q == Places(s, R)
<1>1. P \cup Q = 1..Len(s) /\ P \cap Q = {}
  <2>1. DOMAIN s = 1..Len(s) /\ \A k \in DOMAIN s : s[k] \in T
    OBVIOUS
  <2> QED BY <2>1 DEF Places
<1>2. /\ IsFiniteSet(P) /\ IsFiniteSet(Q) /\ Len(s) \in Nat
      /\ Cardinality(P) \in Nat /\ Cardinality(Q) \in Nat
      /\ Len(Kept(s, S)) = Cardinality(P) /\ Len(Kept(s, R)) = Cardinality(Q)
  BY PlacesFinite, Keeping
<1> HIDE DEF P, Q
<1>3. Cardinality(P \cup Q) = Cardinality(P) + Cardinality(Q) - Cardinality(P \cap Q)
  BY <1>2, FS_Union
<1>4. Cardinality(1..Len(s)) = Len(s) /\ Cardinality({}) = 0
  BY <1>2, Counting, FS_EmptySet
<1>5. Cardinality(P) + Cardinality(Q) - 0 = Cardinality(P) + Cardinality(Q)
  BY <1>2
<1> QED BY <1>1, <1>2, <1>3, <1>4, <1>5
=============================================================================
