------------------------------ MODULE Selection ------------------------------
(***************************************************************************)
(* What a loop that filters a list leaves of it: the elements that are in  *)
(* a set, in their order.  It is SelectSeq of the standard modules,        *)
(* without recursion, so that proofs can say what it keeps.                *)
(***************************************************************************)
EXTENDS Naturals, FiniteSets, Sequences

Places(s, S) == {k \in DOMAIN s : s[k] \in S}

\* How many elements are kept up to place k.
Rank(s, S, k) == Cardinality({j \in Places(s, S) : j <= k})

Kept(s, S) ==
    [n \in 1..Cardinality(Places(s, S)) |-> s[CHOOSE k \in Places(s, S) : Rank(s, S, k) = n]]
=============================================================================
