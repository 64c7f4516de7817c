--------------------------- MODULE DurableHistory ---------------------------
(***************************************************************************)
(* What the SQLite history promises about one exchange, seen from outside  *)
(* the repository: an admitted exchange becomes durable at most once and   *)
(* together with the batch it travels in, or is dropped; a durable row     *)
(* leaves the database only by being erased, and never comes back.         *)
(* Persistence.tla is the program that implements it.                      *)
(***************************************************************************)
EXTENDS FiniteSets

CONSTANT Ids

VARIABLE phase

Phases == {"absent", "pending", "stored", "dropped", "erased"}

DurableInit == phase = [i \in Ids |-> "absent"]

\* The exchanges of S leave phase `from` for phase `to` in one step.
MoveAll(S, from, to) ==
    /\ S # {}
    /\ \A i \in S : phase[i] = from
    /\ phase' = [i \in Ids |-> IF i \in S THEN to ELSE phase[i]]

Admit == \E i \in Ids : MoveAll({i}, "absent", "pending")
Store == \E S \in SUBSET Ids : MoveAll(S, "pending", "stored")
Drop  == \E S \in SUBSET Ids : MoveAll(S, "pending", "dropped")
Erase == \E S \in SUBSET Ids : MoveAll(S, "stored", "erased")

DurableNext == Admit \/ Store \/ Drop \/ Erase

DurableSafety == DurableInit /\ [][DurableNext]_phase

\* No admitted exchange stays undecided for ever.
EventuallyDecided == \A i \in Ids : phase[i] = "pending" ~> phase[i] # "pending"

DurableSpec == DurableSafety /\ EventuallyDecided
=============================================================================
