---------------------------- MODULE PlaneSettings ----------------------------
(***************************************************************************)
(* What a reload promises: a plane runs with the committed settings, or    *)
(* with the ones they replaced until it follows; its settings are not      *)
(* committed anew before it has followed.  Nothing is promised of a plane  *)
(* that a save changed without a plan, until a later save has one.         *)
(***************************************************************************)
CONSTANTS Planes, Part(_, _)
VARIABLES committed, live, unplanned

Follows(plane) == live[plane] = Part(plane, committed)

Init == unplanned = {} /\ \A plane \in Planes : Follows(plane)

Alters(plane) == Part(plane, committed') # Part(plane, committed)

\* One save replaces the whole configuration.
Save ==
    /\ \A plane \in Planes :
         /\ Alters(plane) => Follows(plane) \/ plane \in unplanned \cup unplanned'
         /\ plane \in unplanned' => Alters(plane) \/ plane \in unplanned
    /\ unplanned' \subseteq Planes
    /\ UNCHANGED live

\* A plane activates what is committed.
Follow(plane) ==
    /\ plane \in unplanned \/ live'[plane] = Part(plane, committed)
    /\ \A other \in Planes \ {plane} : live'[other] = live[other]
    /\ UNCHANGED <<committed, unplanned>>

Next == Save \/ \E plane \in Planes : Follow(plane)

Spec == Init /\ [][Next]_<<committed, live, unplanned>>
=============================================================================
