--------------------------- MODULE MCPersistence ---------------------------
(***************************************************************************)
(* Small instances of Persistence for TLC.                                 *)
(***************************************************************************)
EXTENDS Persistence, TLC

CONSTANTS e1, e2, e3, m1, m2

\* Three exchanges: the queue holds two, two bytes hold either the large
\* exchange alone or the two small ones, and the two oldest complete at the
\* same instant.
ThreeIds == {e1, e2, e3}
ThreeBytes == [i \in ThreeIds |-> IF i = e1 THEN 2 ELSE 1]
ThreeTimes == [i \in ThreeIds |-> IF i = e3 THEN 2 ELSE 1]

TwoIds == {e1, e2}
TwoBytes == [i \in TwoIds |-> IF i = e1 THEN 2 ELSE 1]
TwoTimes == [i \in TwoIds |-> IF i = e1 THEN 1 ELSE 2]

TwoCallers == {m1, m2}
OneCaller == {m1}

\* Between the two completion times, and above them.
BetweenTimes == {2}
AboveTimes == {3}
=============================================================================
