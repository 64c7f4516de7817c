--------------------------- MODULE MCEventStream ---------------------------
(***************************************************************************)
(* Small instances of EventStream for TLC.                                 *)
(***************************************************************************)
EXTENDS EventStream

CONSTANT c1

OnePage == {c1}

\* Two of size 1 or one of size 2 fill a subscriber and the replay; size 3 fits
\* in neither.
AllSizes == {1, 2, 3}
SmallAndHuge == {1, 3}
=============================================================================
