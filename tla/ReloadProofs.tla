---------------------------- MODULE ReloadProofs ----------------------------
(***************************************************************************)
(* Configuration updates never lose a save, and the planes follow what is  *)
(* committed, for any number of requests, changes and handler instances.   *)
(*                                                                         *)
(* Two requests of different handler instances do run at the same time.    *)
(* What keeps them apart are the transition locks and the revision: a      *)
(* request whose expected revision existed when it was decoded, and still  *)
(* is the manager's, has read since what is in effect now.  So the planes  *)
(* it computed from what it read are the ones its commit changes, and it   *)
(* holds their locks.  One that ran ahead may have read something older;   *)
(* what it changes without a plan is unplanned.  That takes two handler    *)
(* instances: with one, its mutex lets no commit come between.             *)
(***************************************************************************)
EXTENDS Reload, TLAPS

Phases == Outside \cup {"prepare", "return", "abort"} \cup Preparing \cup Committed

\* The variables that are functions have the domains they had at first.
Shapes ==
    /\ revision \in Nat
    /\ DOMAIN live = Planes
    /\ pc \in [Requests -> Phases]
    /\ DOMAIN asked = Requests /\ DOMAIN current = Requests
    /\ DOMAIN prepared = Requests /\ DOMAIN plan = Requests
    /\ \A r \in Requests : DOMAIN plan[r] \subseteq Planes
    /\ unplanned \subseteq Planes

\* A transition lock has one holder.
LocksExclude ==
    \A r, s \in Requests : r # s => DOMAIN plan[r] \cap DOMAIN plan[s] = {}

\* The revision a request expects has existed, unless it runs ahead: then Prepare is
\* where it is known to.
ExpectedKnown ==
    \A r \in Requests : pc[r] \notin {"idle", "routed"} =>
        /\ asked[r].expected \in Nat
        /\ pc[r] \in Preparing \/ ~asked[r].ahead => asked[r].expected <= revision

\* A request that may still commit.
UpToDate(r) == pc[r] \in Preparing /\ asked[r].expected = revision

\* What it read is what is in effect, unless it ran ahead ...
FreshRead ==
    \A r \in Requests : UpToDate(r) \/ (pc[r] = "prepare" /\ asked[r].expected = revision)
                            => asked[r].ahead \/ current[r] = effective

\* ... and what it would save differs from the overrides as it was asked to.
Untouched(change, next) ==
    \A field \in Fields \ (change.removals \cup DOMAIN change.values) :
        /\ field \in DOMAIN next <=> field \in DOMAIN overrides
        /\ field \in DOMAIN overrides => next[field] = overrides[field]

SaveMerges == \A r \in Requests : UpToDate(r) => Untouched(asked[r].change, prepared[r])

\* The planes that wait for their Prepare when a request is at phase.
Pending(phase) == IF phase = "management" THEN Planes
                  ELSE IF phase = "commit" THEN {} ELSE {phase} \cup Later(phase)

\* A request holds the lock of every plane it changes, or is about to take it.
ChangesCovered ==
    \A r \in Requests : pc[r] \in Preparing => \A plane \in Planes :
        Part(plane, current[r]) # Part(plane, Target(r)) =>
            plane \in DOMAIN plan[r] \cup Pending(pc[r])

\* A plan of a committed request is not out of date: a later save that would change
\* the plane again waits for its lock, or changes it unplanned.  While the old UDP
\* listener is retired the plane runs with the new settings already.
CommittedAgree ==
    \A r \in Requests :
        /\ pc[r] \in Committed => \A plane \in DOMAIN plan[r] \ unplanned :
              Part(plane, Target(r)) = Part(plane, effective)
        /\ pc[r] = "retire" => /\ "udp" \in DOMAIN plan[r]
                               /\ "udp" \in unplanned \/ live["udp"] = Part("udp", effective)

\* What PlanesFollow says, but for the handler instances.
AllFollow == \A plane \in Planes \ unplanned : Follows(plane)

IInv ==
    /\ Shapes /\ LocksExclude /\ ExpectedKnown /\ FreshRead
    /\ SaveMerges /\ ChangesCovered /\ CommittedAgree /\ AllFollow

-----------------------------------------------------------------------------
\* NextPlane passes no plane over whose settings change.
LEMMA NextPlaneDue ==
    ASSUME NEW candidates \in SUBSET Planes, NEW cfg, NEW next
    PROVE  LET phase == NextPlane(candidates, cfg, next)
           IN  /\ phase \in Preparing
               /\ \A plane \in candidates :
                      Part(plane, cfg) # Part(plane, next) => plane \in Pending(phase)
<1> DEFINE due == {plane \in candidates : Part(plane, cfg) # Part(plane, next)}
<1> DEFINE first(plane) == plane \in due /\ due \subseteq {plane} \cup Later(plane)
<1>1. CASE due = {}
  BY <1>1 DEF NextPlane, Preparing, Pending
<1>2. CASE due # {}
  <2>1. \E plane \in due : due \subseteq {plane} \cup Later(plane)
    BY <1>2 DEF Planes, Later
  <2>2. PICK plane \in due : /\ due \subseteq {plane} \cup Later(plane)
                             /\ NextPlane(candidates, cfg, next) = plane
    BY <1>2, <2>1 DEF NextPlane
  <2>3. plane \in Preparing /\ due \subseteq Pending(plane)
    BY <2>2 DEF Planes, Preparing, Pending, Later
  <2> QED BY <2>2, <2>3
<1> QED BY <1>1, <1>2

\* The processes start with the lower configuration and no request.
LEMMA InitIInv == Init => IInv
<1> SUFFICES ASSUME Init PROVE IInv
  OBVIOUS
<1>1. Shapes
  BY DEF Init, Shapes, Phases, Outside, NoPlan
<1>2. LocksExclude
  BY DEF Init, LocksExclude, NoPlan
<1>3. ExpectedKnown /\ FreshRead /\ SaveMerges /\ ChangesCovered /\ CommittedAgree
  BY DEF Init, ExpectedKnown, FreshRead, SaveMerges, ChangesCovered, CommittedAgree, UpToDate,
         Preparing, Committed
<1>4. AllFollow
  BY DEF Init, AllFollow, Follows
<1> QED BY <1>1, <1>2, <1>3, <1>4 DEF IInv

-----------------------------------------------------------------------------
\* What does not touch what the invariant is about.
LEMMA Unmoved ==
    ASSUME IInv,
           UNCHANGED <<effective, overrides, revision, unplanned, live, pc, asked, current, prepared, plan>>
    PROVE  IInv'
BY DEF IInv, Shapes, LocksExclude, ExpectedKnown, FreshRead, SaveMerges, ChangesCovered,
       CommittedAgree, AllFollow, Follows, UpToDate, Untouched, Target

\* A request goes on to a phase in which it neither prepares anything nor has just
\* committed it.
LEMMA PhaseMoves ==
    ASSUME IInv, NEW r \in Requests, NEW phase \in Phases \ (Preparing \cup {"prepare", "retire"}),
           pc' = [pc EXCEPT ![r] = phase],
           phase \in Committed <=> pc[r] \in Committed,
           phase \in {"idle", "routed"} \/ pc[r] \notin {"idle", "routed"},
           UNCHANGED <<effective, overrides, revision, unplanned, live, asked, current, prepared, plan>>
    PROVE  IInv'
<1>1. Shapes' /\ LocksExclude'
  BY DEF IInv, Shapes, LocksExclude
<1>2. ExpectedKnown'
  BY DEF IInv, Shapes, ExpectedKnown
<1>3. \A s \in Requests : pc'[s] \in Preparing \cup {"prepare"} => s # r /\ pc'[s] = pc[s]
  BY DEF IInv, Shapes
<1>4. FreshRead' /\ SaveMerges' /\ ChangesCovered'
  BY <1>3 DEF IInv, FreshRead, SaveMerges, ChangesCovered, UpToDate, Untouched, Target
<1>5. CommittedAgree' /\ AllFollow'
  BY DEF IInv, Shapes, CommittedAgree, AllFollow, Follows, Target
<1> QED BY <1>1, <1>2, <1>4, <1>5 DEF IInv

LEMMA DecodeIInv == ASSUME IInv, NEW r \in Requests, Decode(r) PROVE IInv'
<1> USE DEF Decode, At, manager, planes
<1>1. Shapes' /\ LocksExclude'
  BY DEF IInv, Shapes, LocksExclude, Phases, Outside
<1>2. ExpectedKnown'
  <2>1. PICK expected \in Revisions, change \in Changes :
            asked' = [asked EXCEPT ![r] = [change |-> change, expected |-> expected,
                                           ahead |-> expected > revision]]
    OBVIOUS
  <2>2. asked'[r].expected = expected /\ asked'[r].ahead = (expected > revision)
    BY <2>1 DEF IInv, Shapes
  <2>3. expected \in Nat /\ revision \in Nat /\ revision' = revision
    BY RevisionsAssumption DEF IInv, Shapes
  <2>4. ~asked'[r].ahead => asked'[r].expected <= revision
    <3>1. ~(expected > revision) => expected <= revision
      BY <2>3
    <3> QED BY <2>2, <3>1, Zenon
  <2>5. pc'[r] = "ready" /\ \A s \in Requests \ {r} : pc'[s] = pc[s] /\ asked'[s] = asked[s]
    BY <2>1 DEF IInv, Shapes
  <2> QED BY <2>2, <2>3, <2>4, <2>5 DEF IInv, ExpectedKnown, Preparing
<1>3. FreshRead' /\ SaveMerges' /\ ChangesCovered'
  BY DEF IInv, Shapes, FreshRead, SaveMerges, ChangesCovered, UpToDate, Untouched, Target, Preparing
<1>4. CommittedAgree' /\ AllFollow'
  BY DEF IInv, Shapes, CommittedAgree, AllFollow, Follows, Target, Committed
<1> QED BY <1>1, <1>2, <1>3, <1>4 DEF IInv

LEMMA LockIInv == ASSUME IInv, NEW r \in Requests, Lock(r) PROVE IInv'
<1> USE DEF Lock, At, manager, planes
<1>1. Shapes' /\ LocksExclude'
  BY DEF IInv, Shapes, LocksExclude, Phases, Outside
<1>2. ExpectedKnown'
  BY DEF IInv, Shapes, ExpectedKnown, Preparing
<1>3. FreshRead' /\ SaveMerges' /\ ChangesCovered'
  BY DEF IInv, Shapes, FreshRead, SaveMerges, ChangesCovered, UpToDate, Untouched, Target, Preparing
<1>4. CommittedAgree' /\ AllFollow'
  BY DEF IInv, Shapes, CommittedAgree, AllFollow, Follows, Target, Committed
<1> QED BY <1>1, <1>2, <1>3, <1>4 DEF IInv

LEMMA CommitIInv == ASSUME IInv, NEW r \in Requests, Commit(r) PROVE IInv'
<1> USE DEF Commit, At, planes
<1>1. Shapes' /\ LocksExclude'
  BY DEF IInv, Shapes, LocksExclude, Phases, Committed, Unplanned, Changed
<1>2. ExpectedKnown'
  BY DEF IInv, Shapes, ExpectedKnown
<1>3. FreshRead' /\ SaveMerges'
  BY DEF IInv, Shapes, ExpectedKnown, FreshRead, SaveMerges, UpToDate, Preparing
<1>4. ChangesCovered'
  BY DEF IInv, Shapes, ChangesCovered, Target, Preparing
\* A plane that this request has no plan for is changed by it only unplanned.
<1>5. ASSUME NEW plane \in Planes \ DOMAIN plan[r], plane \notin unplanned'
      PROVE  plane \notin unplanned /\ Part(plane, effective') = Part(plane, effective)
  <2>1. plane \notin unplanned /\ (asked[r].ahead => plane \notin Changed(r))
    BY <1>5 DEF Unplanned
  <2>2. CASE asked[r].ahead
    BY <2>1, <2>2 DEF Changed
  <2>3. CASE ~asked[r].ahead
    BY <2>1, <2>3 DEF IInv, Shapes, ChangesCovered, FreshRead, UpToDate, Preparing, Pending, Target
  <2> QED BY <2>1, <2>2, <2>3
\* A plane that it has a plan for is planned by no other, and no longer unplanned.
<1>6. \A plane \in DOMAIN plan[r] :
          /\ plane \notin unplanned' /\ Part(plane, effective') = Part(plane, Target(r))
          /\ \A s \in Requests \ {r} : plane \notin DOMAIN plan[s]
  BY DEF IInv, LocksExclude, Unplanned
<1>7. pc'[r] = "resize" /\ \A s \in Requests \ {r} : pc'[s] = pc[s]
  BY DEF IInv, Shapes
<1>8. CommittedAgree'
  <2>1. ASSUME NEW s \in Requests, pc'[s] \in Committed, NEW plane \in DOMAIN plan[s] \ unplanned'
        PROVE  Part(plane, Target(s)') = Part(plane, effective')
    <3>1. CASE s = r
      BY <3>1 DEF Target
    <3>2. CASE s # r
      BY <2>1, <3>2, <1>5, <1>6, <1>7 DEF IInv, Shapes, CommittedAgree, Target
    <3> QED BY <3>1, <3>2
  <2>2. ASSUME NEW s \in Requests, pc'[s] = "retire"
        PROVE  "udp" \in DOMAIN plan[s] /\ ("udp" \in unplanned' \/ live["udp"] = Part("udp", effective'))
    <3>1. s # r /\ "udp" \in DOMAIN plan[s] /\ ("udp" \in unplanned \/ live["udp"] = Part("udp", effective))
      BY <2>2, <1>7 DEF IInv, CommittedAgree
    <3>2. "udp" \in Planes \ DOMAIN plan[r]
      BY <3>1, <1>6 DEF Planes
    <3> QED BY <3>1, <3>2, <1>5
  <2> QED BY <2>1, <2>2 DEF CommittedAgree
<1>9. AllFollow'
  <2> SUFFICES ASSUME NEW plane \in Planes \ unplanned' PROVE Follows(plane)'
    BY DEF AllFollow
  <2>1. CASE plane \in DOMAIN plan[r]
    BY <2>1, <1>6, <1>7 DEF Follows, Target, Committed
  <2>2. CASE plane \notin DOMAIN plan[r]
    BY <2>2, <1>5, <1>7 DEF IInv, AllFollow, Follows, Target, Committed
  <2> QED BY <2>1, <2>2
<1> QED BY <1>1, <1>2, <1>3, <1>4, <1>8, <1>9 DEF IInv

LEMMA PrepareIInv == ASSUME IInv, NEW r \in Requests, Prepare(r) PROVE IInv'
<1> DEFINE change == asked[r].change
<1> DEFINE kept == Restrict(overrides, DOMAIN overrides \ (change.removals \cup DOMAIN change.values))
<1> DEFINE next == [field \in DOMAIN kept \cup DOMAIN change.values |->
                       IF field \in DOMAIN change.values THEN change.values[field] ELSE kept[field]]
<1> DEFINE ok == asked[r].expected = revision /\ Valid(Effective(next))
<1> DEFINE phase == NextPlane(Planes, current[r], Effective(next))
<1>1. CASE ~ok
  <2>1. pc[r] = "prepare" /\ pc' = [pc EXCEPT ![r] = "abort"]
    BY <1>1 DEF Prepare, At
  <2>2. UNCHANGED <<effective, overrides, revision, unplanned, live, asked, current, prepared, plan>>
    BY <1>1 DEF Prepare, manager, planes
  <2> QED BY <2>1, <2>2, PhaseMoves DEF Phases, Preparing, Committed
<1>2. CASE ok
  <2>1. pc[r] = "prepare" /\ pc' = [pc EXCEPT ![r] = phase] /\ prepared' = [prepared EXCEPT ![r] = next]
    BY <1>2 DEF Prepare, At
  <2>2. UNCHANGED <<effective, overrides, revision, unplanned, live, asked, current, plan>>
    BY DEF Prepare, manager, planes
  <2>3. /\ phase \in Preparing
        /\ \A plane \in Planes :
              Part(plane, current[r]) # Part(plane, Effective(next)) => plane \in Pending(phase)
    BY NextPlaneDue
  <2>4. Untouched(change, next)
    BY DEF Untouched, Restrict
  <2> HIDE DEF next, change, phase
  <2>5. Shapes' /\ LocksExclude' /\ ExpectedKnown'
    BY <1>2, <2>1, <2>2, <2>3 DEF IInv, Shapes, LocksExclude, ExpectedKnown, Phases
  <2>6. FreshRead'
    BY <1>2, <2>1, <2>2, <2>3 DEF IInv, Shapes, FreshRead, UpToDate
  <2>7. SaveMerges'
    BY <2>1, <2>2, <2>3, <2>4 DEF IInv, Shapes, SaveMerges, UpToDate, Untouched, change
  <2>8. ChangesCovered'
    BY <2>1, <2>2, <2>3 DEF IInv, Shapes, ChangesCovered, Target
  <2>9. CommittedAgree' /\ AllFollow'
    BY <2>1, <2>2, <2>3 DEF IInv, Shapes, CommittedAgree, AllFollow, Follows, Target, Preparing, Committed
  <2> QED BY <2>5, <2>6, <2>7, <2>8, <2>9 DEF IInv
<1> QED BY <1>1, <1>2

LEMMA PreparePlaneIInv ==
    ASSUME IInv, NEW r \in Requests, NEW plane \in Planes, PreparePlane(r, plane)
    PROVE  IInv'
<1> DEFINE phase == NextPlane(Later(plane), current[r], Target(r))
<1>1. pc[r] = plane /\ pc' = [pc EXCEPT ![r] = phase] /\ TransitionFree(plane)
  BY DEF PreparePlane, At
<1>2. PICK fresh : plan' = [plan EXCEPT ![r] =
                      [p \in DOMAIN plan[r] \cup {plane} |-> IF p = plane THEN fresh ELSE plan[r][p]]]
  BY DEF PreparePlane
<1>3. UNCHANGED <<effective, overrides, revision, unplanned, live, asked, current, prepared>>
  BY DEF PreparePlane, manager
<1>4. /\ phase \in Preparing
      /\ \A p \in Later(plane) : Part(p, current[r]) # Part(p, Target(r)) => p \in Pending(phase)
  BY NextPlaneDue DEF Later, Planes
<1>5. pc[r] \in Preparing /\ pc[r] \notin Committed /\ Pending(plane) \subseteq {plane} \cup Later(plane)
  BY <1>1 DEF Planes, Preparing, Committed, Pending, Later
<1> HIDE DEF phase
<1>6. Shapes' /\ ExpectedKnown'
  BY <1>1, <1>2, <1>3, <1>4, <1>5 DEF IInv, Shapes, ExpectedKnown, Phases, Preparing
<1>7. LocksExclude'
  BY <1>1, <1>2 DEF IInv, Shapes, LocksExclude, TransitionFree
<1>8. FreshRead' /\ SaveMerges'
  BY <1>1, <1>3, <1>4, <1>5 DEF IInv, Shapes, FreshRead, SaveMerges, UpToDate, Untouched, Preparing
<1>9. ChangesCovered'
  BY <1>1, <1>2, <1>3, <1>4, <1>5 DEF IInv, Shapes, ChangesCovered, Target
<1>10. CommittedAgree' /\ AllFollow'
  BY <1>1, <1>2, <1>3, <1>4, <1>5 DEF IInv, Shapes, CommittedAgree, AllFollow, Follows, Target, Preparing, Committed
<1> QED BY <1>6, <1>7, <1>8, <1>9, <1>10 DEF IInv

\* The phases in which plans are given up one by one, and those a request goes on to.
InSettlement(phase) ==
    phase \in Phases /\ phase \notin Preparing \cup {"idle", "routed", "prepare", "retire"}

\* A plan is given up; if its request has committed, the plane follows already.
LEMMA PlanEnds ==
    ASSUME IInv, NEW r \in Requests, NEW plane \in Planes, plane \in DOMAIN plan[r],
           pc[r] = "retire" \/ InSettlement(pc[r]),
           Release(r, plane),
           NEW phase, InSettlement(phase),
           pc' = [pc EXCEPT ![r] = phase], phase \in Committed <=> pc[r] \in Committed,
           DOMAIN live' = Planes, \A p \in Planes \ {plane} : live'[p] = live[p],
           IF pc[r] \in Committed THEN live'[plane] = Part(plane, effective) \/ plane \in unplanned
                                 ELSE live'[plane] = live[plane],
           UNCHANGED <<effective, overrides, revision, unplanned, asked, current, prepared>>
    PROVE  IInv'
<1>0. /\ phase \in Phases /\ phase \notin Preparing \cup {"idle", "routed", "prepare", "retire"}
      /\ pc[r] \notin Preparing /\ pc[r] \notin {"idle", "routed", "prepare"}
  BY DEF InSettlement, Preparing
<1>1. /\ DOMAIN plan' = Requests /\ DOMAIN plan'[r] = DOMAIN plan[r] \ {plane}
      /\ \A s \in Requests \ {r} : plan'[s] = plan[s]
  BY DEF IInv, Shapes, Release, Restrict
<1>2. \A s \in Requests \ {r} : pc'[s] = pc[s]
  BY DEF IInv, Shapes
<1>3. pc'[r] = phase /\ pc' \in [Requests -> Phases]
  BY <1>0 DEF IInv, Shapes
<1>4. Shapes' /\ LocksExclude' /\ ExpectedKnown'
  BY <1>0, <1>1, <1>2, <1>3 DEF IInv, Shapes, LocksExclude, ExpectedKnown
<1>5. FreshRead' /\ SaveMerges' /\ ChangesCovered'
  BY <1>0, <1>1, <1>2, <1>3 DEF IInv, FreshRead, SaveMerges, ChangesCovered, UpToDate, Untouched, Target
<1>6. CommittedAgree'
  <2>1. \A s \in Requests : pc'[s] \in Committed => \A p \in DOMAIN plan'[s] \ unplanned' :
            Part(p, Target(s)') = Part(p, effective')
    BY <1>0, <1>1, <1>2, <1>3 DEF IInv, CommittedAgree, Target
  <2>2. ASSUME NEW s \in Requests, pc'[s] = "retire"
        PROVE  /\ "udp" \in DOMAIN plan'[s]
               /\ "udp" \in unplanned' \/ live'["udp"] = Part("udp", effective')
    <3>1. /\ s # r /\ "udp" \in DOMAIN plan[s]
          /\ "udp" \in unplanned \/ live["udp"] = Part("udp", effective)
      BY <1>0, <2>2, <1>2, <1>3 DEF IInv, CommittedAgree
    <3>2. plane # "udp" /\ "udp" \in Planes
      BY <3>1 DEF IInv, LocksExclude, Planes
    <3> QED BY <1>1, <3>1, <3>2
  <2> QED BY <2>1, <2>2 DEF CommittedAgree
<1>7. AllFollow'
  BY <1>0, <1>1, <1>2, <1>3 DEF IInv, LocksExclude, AllFollow, Follows, Target
<1> QED BY <1>4, <1>5, <1>6, <1>7 DEF IInv

\* A committed request that installs what it prepared installs what is in effect,
\* unless a save has changed the plane unplanned.
LEMMA Installs ==
    ASSUME IInv, NEW r \in Requests, NEW plane \in DOMAIN plan[r], pc[r] \in Committed
    PROVE  /\ plane \in Planes
           /\ plane \in unplanned \/ Part(plane, Target(r)) = Part(plane, effective)
BY DEF IInv, Shapes, CommittedAgree

LEMMA ActivateTrafficIInv == ASSUME IInv, NEW r \in Requests, ActivateTraffic(r) PROVE IInv'
<1>1. pc[r] = "activate" /\ "traffic" \in DOMAIN plan[r] /\ Release(r, "traffic")
  BY DEF ActivateTraffic, Innermost
<1>2. /\ "traffic" \in Planes
      /\ "traffic" \in unplanned \/ Part("traffic", Target(r)) = Part("traffic", effective)
  BY <1>1, Installs DEF Committed
<1>3. pc' = [pc EXCEPT ![r] = "activate"]
  BY <1>1 DEF ActivateTraffic, IInv, Shapes
<1>4. /\ DOMAIN live' = Planes
      /\ live'["traffic"] = Part("traffic", effective) \/ "traffic" \in unplanned
      /\ \A p \in Planes \ {"traffic"} : live'[p] = live[p]
  BY <1>2 DEF ActivateTraffic, IInv, Shapes
<1>5. UNCHANGED <<effective, overrides, revision, unplanned, asked, current, prepared>>
  BY DEF ActivateTraffic, manager
<1>6. "activate" \in Committed /\ InSettlement("activate")
  BY DEF Committed, InSettlement, Phases, Preparing
<1> QED BY <1>1, <1>2, <1>3, <1>4, <1>5, <1>6, PlanEnds DEF InSettlement

LEMMA ActivateManagementIInv == ASSUME IInv, NEW r \in Requests, ActivateManagement(r) PROVE IInv'
<1>1. pc[r] = "activate" /\ "management" \in DOMAIN plan[r] /\ Release(r, "management")
  BY DEF ActivateManagement, Innermost
<1>2. /\ "management" \in Planes
      /\ "management" \in unplanned \/ Part("management", Target(r)) = Part("management", effective)
  BY <1>1, Installs DEF Committed
<1>3. pc' = [pc EXCEPT ![r] = "activate"]
  BY <1>1 DEF ActivateManagement, IInv, Shapes
\* The address is the plan's, the credentials are the manager's.
<1>4. \/ [address |-> Part("management", Target(r)).address, other |-> effective.auth]
             = Part("management", effective)
      \/ "management" \in unplanned
  BY <1>2 DEF Part
<1>5. /\ DOMAIN live' = Planes
      /\ live'["management"] = Part("management", effective) \/ "management" \in unplanned
      /\ \A p \in Planes \ {"management"} : live'[p] = live[p]
  BY <1>2, <1>4 DEF ActivateManagement, IInv, Shapes
<1>6. UNCHANGED <<effective, overrides, revision, unplanned, asked, current, prepared>>
  BY DEF ActivateManagement, manager
<1>7. "activate" \in Committed /\ InSettlement("activate")
  BY DEF Committed, InSettlement, Phases, Preparing
<1> QED BY <1>1, <1>2, <1>3, <1>5, <1>6, <1>7, PlanEnds DEF InSettlement

LEMMA ActivateUDPIInv == ASSUME IInv, NEW r \in Requests, ActivateUDP(r) PROVE IInv'
<1> USE DEF ActivateUDP, At
<1>1. pc[r] = "activate" /\ "udp" \in DOMAIN plan[r] /\ pc' = [pc EXCEPT ![r] = "retire"]
  BY DEF Innermost
<1>2. /\ "udp" \in Planes
      /\ "udp" \in unplanned \/ Part("udp", Target(r)) = Part("udp", effective)
  BY <1>1, Installs DEF Committed
<1>3. /\ DOMAIN live' = Planes
      /\ live'["udp"] = Part("udp", effective) \/ "udp" \in unplanned
      /\ \A p \in Planes \ {"udp"} : live'[p] = live[p]
  BY <1>2 DEF IInv, Shapes
<1>4. /\ DOMAIN plan' = Requests /\ DOMAIN plan'[r] = DOMAIN plan[r]
      /\ \A s \in Requests \ {r} : plan'[s] = plan[s]
  BY DEF IInv, Shapes
<1>5. UNCHANGED <<effective, overrides, revision, unplanned, asked, current, prepared>>
  BY DEF manager
<1>6. Shapes' /\ LocksExclude' /\ ExpectedKnown'
  BY <1>1, <1>3, <1>4, <1>5 DEF IInv, Shapes, LocksExclude, ExpectedKnown, Phases, Preparing, Committed
<1>7. FreshRead' /\ SaveMerges' /\ ChangesCovered'
  BY <1>1, <1>4, <1>5 DEF IInv, Shapes, FreshRead, SaveMerges, ChangesCovered, UpToDate, Untouched,
                          Target, Preparing
<1>8. CommittedAgree'
  BY <1>1, <1>2, <1>3, <1>4, <1>5 DEF IInv, Shapes, CommittedAgree, Target, Committed
<1>9. AllFollow'
  BY <1>1, <1>2, <1>3, <1>4, <1>5 DEF IInv, Shapes, AllFollow, Follows, Target, Committed
<1> QED BY <1>6, <1>7, <1>8, <1>9 DEF IInv

LEMMA RetireUDPIInv == ASSUME IInv, NEW r \in Requests, RetireUDP(r) PROVE IInv'
<1>1. pc[r] = "retire" /\ pc' = [pc EXCEPT ![r] = "activate"] /\ Release(r, "udp")
  BY DEF RetireUDP, At
<1>2. /\ "udp" \in DOMAIN plan[r] /\ "udp" \in Planes
      /\ live["udp"] = Part("udp", effective) \/ "udp" \in unplanned
  BY <1>1 DEF IInv, CommittedAgree, Planes
<1>3. UNCHANGED <<effective, overrides, revision, unplanned, live, asked, current, prepared>>
  BY DEF RetireUDP, manager
<1>4. DOMAIN live = Planes
  BY DEF IInv, Shapes
<1>5. "activate" \in Committed /\ "retire" \in Committed /\ InSettlement("activate")
  BY DEF Committed, InSettlement, Phases, Preparing
<1> QED BY <1>1, <1>2, <1>3, <1>4, <1>5, PlanEnds

LEMMA AbortPlanIInv ==
    ASSUME IInv, NEW r \in Requests, NEW plane \in Planes, AbortPlan(r, plane)
    PROVE  IInv'
<1>1. pc[r] = "abort" /\ plane \in DOMAIN plan[r] /\ Release(r, plane)
  BY DEF AbortPlan, Innermost
<1>2. pc' = [pc EXCEPT ![r] = "abort"] /\ DOMAIN live = Planes
  BY <1>1 DEF AbortPlan, IInv, Shapes
<1>3. UNCHANGED <<effective, overrides, revision, unplanned, live, asked, current, prepared>>
  BY DEF AbortPlan, manager
<1>4. "abort" \notin Committed /\ InSettlement("abort")
  BY DEF Committed, InSettlement, Phases, Preparing
<1> QED BY <1>1, <1>2, <1>3, <1>4, PlanEnds

LEMMA ReturnIInv == ASSUME IInv, NEW r \in Requests, Return(r) PROVE IInv'
<1> USE DEF Return
<1>1. pc' = [pc EXCEPT ![r] = "idle"] /\ DOMAIN plan[r] = {}
  OBVIOUS
<1>2. UNCHANGED <<effective, overrides, revision, unplanned, live, plan>>
  BY DEF manager, planes
<1>3. /\ \A s \in Requests \ {r} : /\ pc'[s] = pc[s] /\ asked'[s] = asked[s]
                                  /\ current'[s] = current[s] /\ prepared'[s] = prepared[s]
      /\ DOMAIN asked' = Requests /\ DOMAIN current' = Requests /\ DOMAIN prepared' = Requests
      /\ pc'[r] = "idle" /\ pc' \in [Requests -> Phases]
  BY DEF IInv, Shapes, Phases, Outside
<1>4. Shapes' /\ LocksExclude' /\ ExpectedKnown'
  BY <1>2, <1>3 DEF IInv, Shapes, LocksExclude, ExpectedKnown
<1>5. FreshRead' /\ SaveMerges' /\ ChangesCovered'
  BY <1>2, <1>3 DEF IInv, FreshRead, SaveMerges, ChangesCovered, UpToDate, Untouched, Target, Preparing
<1>6. CommittedAgree' /\ AllFollow'
  BY <1>1, <1>2, <1>3 DEF IInv, CommittedAgree, AllFollow, Follows, Target, Committed
<1> QED BY <1>4, <1>5, <1>6 DEF IInv

-----------------------------------------------------------------------------
LEMMA IInvStep == IInv /\ [Next]_vars => IInv'
<1> SUFFICES ASSUME IInv, [Next]_vars PROVE IInv'
  OBVIOUS
<1>1. ASSUME NEW r \in Requests, Route(r) PROVE IInv'
  <2>1. pc[r] = "idle" /\ pc' = [pc EXCEPT ![r] = "routed"]
    BY <1>1 DEF Route, At
  <2> QED BY <1>1, <2>1, PhaseMoves DEF Route, manager, planes, Phases, Outside, Preparing, Committed
<1>2. ASSUME NEW r \in Requests, NEW plane \in Planes, PreparePlaneFails(r, plane) PROVE IInv'
  <2>1. pc[r] = plane /\ pc' = [pc EXCEPT ![r] = "abort"]
    BY <1>2 DEF PreparePlaneFails, At
  <2> QED
    BY <1>2, <2>1, PhaseMoves
    DEF PreparePlaneFails, manager, planes, Planes, Phases, Preparing, Committed
<1>3. ASSUME NEW r \in Requests, CommitFails(r) PROVE IInv'
  <2>1. pc[r] = "commit" /\ pc' = [pc EXCEPT ![r] = "abort"]
    BY <1>3 DEF CommitFails, At
  <2> QED BY <1>3, <2>1, PhaseMoves DEF CommitFails, manager, planes, Phases, Preparing, Committed
<1>4. ASSUME NEW r \in Requests, ResizeHistory(r) PROVE IInv'
  <2>1. pc[r] = "resize" /\ pc' = [pc EXCEPT ![r] = "retention"]
    BY <1>4 DEF ResizeHistory, At
  <2> QED BY <1>4, <2>1, PhaseMoves DEF ResizeHistory, manager, planes, Phases, Preparing, Committed
<1>5. ASSUME NEW r \in Requests, ApplyStorageSettings(r) PROVE IInv'
  <2>1. pc[r] = "retention" /\ pc' = [pc EXCEPT ![r] = "activate"]
    BY <1>5 DEF ApplyStorageSettings, At
  <2> QED
    BY <1>5, <2>1, PhaseMoves DEF ApplyStorageSettings, manager, planes, Phases, Preparing, Committed
<1>6. ASSUME NEW r \in Requests, Step(r) PROVE IInv'
  BY <1>2, <1>3, <1>4, <1>5, <1>6, DecodeIInv, LockIInv, PrepareIInv, PreparePlaneIInv, AbortPlanIInv,
     CommitIInv, ActivateUDPIInv, RetireUDPIInv, ActivateTrafficIInv, ActivateManagementIInv,
     ReturnIInv
  DEF Step
<1>7. ASSUME NEW socket \in bound, Drain(socket) PROVE IInv'
  BY <1>7, Unmoved DEF Drain, manager, request
<1>8. CASE StopRequested \/ Stop \/ Stopped \/ UNCHANGED vars
  BY <1>8, Unmoved
  DEF StopRequested, Stop, Stopped, CloseStreams, CloseTraffic, CloseUDP, ShutdownManagement,
      vars, manager, planes, request
<1> QED BY <1>1, <1>6, <1>7, <1>8 DEF Next

\* The inductive invariant holds in every reachable state.
LEMMA IInvariant == Spec => []IInv
  BY InitIInv, IInvStep, PTL DEF Spec

\* Only a commit changes the overrides, only an activation a plane.
LEMMA WhoWrites ==
    ASSUME [Next]_vars
    PROVE  \/ UNCHANGED <<effective, overrides, unplanned, live>>
           \/ \E r \in Requests : Commit(r) \/ ActivateUDP(r) \/ ActivateTraffic(r) \/ ActivateManagement(r)
<1>1. ASSUME NEW r \in Requests, Step(r)
      PROVE  \/ UNCHANGED <<effective, overrides, unplanned, live>>
             \/ Commit(r) \/ ActivateUDP(r) \/ ActivateTraffic(r) \/ ActivateManagement(r)
  <2>1. CASE Decode(r) \/ Lock(r) \/ Prepare(r) \/ Return(r) \/ RetireUDP(r)
    BY <2>1 DEF Decode, Lock, Prepare, Return, RetireUDP, manager, planes
  <2>2. CASE \E plane \in Planes : PreparePlane(r, plane) \/ PreparePlaneFails(r, plane) \/ AbortPlan(r, plane)
    BY <2>2 DEF PreparePlane, PreparePlaneFails, AbortPlan, manager, planes
  <2>3. CASE CommitFails(r) \/ ResizeHistory(r) \/ ApplyStorageSettings(r)
    BY <2>3 DEF CommitFails, ResizeHistory, ApplyStorageSettings, manager, planes
  <2> QED BY <1>1, <2>1, <2>2, <2>3 DEF Step
<1>2. ASSUME NEW r \in Requests, Route(r) PROVE UNCHANGED <<effective, overrides, unplanned, live>>
  BY <1>2 DEF Route, manager, planes
<1>3. ASSUME NEW socket \in bound, Drain(socket) PROVE UNCHANGED <<effective, overrides, unplanned, live>>
  BY <1>3 DEF Drain, manager
<1>4. CASE StopRequested \/ Stop \/ Stopped \/ UNCHANGED vars
  BY <1>4
  DEF StopRequested, Stop, Stopped, CloseStreams, CloseTraffic, CloseUDP, ShutdownManagement,
      vars, manager, planes
<1> QED BY <1>1, <1>2, <1>3, <1>4 DEF Next

\* A save changes the overrides it names and no other, although what it merges them
\* with was read when the request was prepared (manager.go:139-190).
THEOREM SavesAreNotLost == Spec => NoLostUpdate
<1> DEFINE Saves == overrides' # overrides =>
               \E r \in Requests : pc[r] = "commit" /\ pc'[r] = "resize" /\ \A field \in Fields :
                   \/ field \in asked[r].change.removals \cup DOMAIN asked[r].change.values
                   \/ /\ field \in DOMAIN overrides' <=> field \in DOMAIN overrides
                      /\ field \in DOMAIN overrides => overrides'[field] = overrides[field]
<1>1. ASSUME IInv, [Next]_vars PROVE Saves
  <2> SUFFICES ASSUME overrides' # overrides PROVE Saves
    OBVIOUS
  <2>1. PICK r \in Requests : Commit(r)
    BY <1>1, WhoWrites DEF ActivateUDP, ActivateTraffic, ActivateManagement, manager
  <2>2. pc[r] = "commit" /\ pc'[r] = "resize"
    BY <1>1, <2>1 DEF Commit, At, IInv, Shapes
  <2>3. Untouched(asked[r].change, prepared[r]) /\ overrides' = prepared[r]
    BY <1>1, <2>1, <2>2 DEF Commit, IInv, SaveMerges, UpToDate, Preparing
  <2> QED BY <2>2, <2>3 DEF Untouched
<1> QED BY <1>1, IInvariant, PTL DEF Spec, NoLostUpdate

\* The planes follow the committed configuration one save at a time, but for those a
\* save that ran ahead changed unplanned: updates, with their locks, plans, failures and
\* handler instances, implement PlaneSettings.
THEOREM UpdatesImplementPromise == Spec => ImplementsPromise
<1>1. Init => Promise!Init
  BY DEF Init, Promise!Init, Promise!Follows
<1>2. ASSUME IInv, [Next]_vars PROVE [Promise!Next]_<<effective, live, unplanned>>
  <2>1. ASSUME NEW r \in Requests, Commit(r) PROVE Promise!Save
    <3>1. /\ pc[r] = "commit" /\ asked[r].expected = revision
          /\ effective' = Target(r) /\ live' = live /\ unplanned' = Unplanned(r)
      BY <2>1 DEF Commit, At, planes
    <3>2. ASSUME NEW plane \in Planes, Part(plane, effective') # Part(plane, effective),
                 plane \notin unplanned, plane \notin unplanned'
          PROVE  live[plane] = Part(plane, effective)
      <4>1. plane \in DOMAIN plan[r]
        <5>1. CASE asked[r].ahead
          BY <3>1, <3>2, <5>1 DEF Unplanned, Changed
        <5>2. CASE ~asked[r].ahead
          BY <1>2, <3>1, <3>2, <5>2 DEF IInv, ChangesCovered, FreshRead, UpToDate, Preparing, Pending
        <5> QED BY <5>1, <5>2
      <4>2. \A s \in Requests : pc[s] \in Committed => plane \notin DOMAIN plan[s]
        BY <1>2, <3>1, <4>1 DEF IInv, LocksExclude, Committed
      <4> QED BY <1>2, <3>2, <4>2 DEF IInv, AllFollow, Follows
    <3>3. /\ unplanned' \subseteq Planes
          /\ \A plane \in Planes : plane \in unplanned' =>
                Part(plane, effective') # Part(plane, effective) \/ plane \in unplanned
      BY <1>2, <3>1 DEF IInv, Shapes, Unplanned, Changed
    <3> QED BY <3>1, <3>2, <3>3 DEF Promise!Save, Promise!Alters, Promise!Follows
  <2>2. ASSUME NEW r \in Requests, ActivateUDP(r) PROVE Promise!Follow("udp") /\ "udp" \in Planes
    <3>1. /\ pc[r] = "activate" /\ "udp" \in DOMAIN plan[r] /\ UNCHANGED <<effective, unplanned>>
          /\ live' = [live EXCEPT !["udp"] = Part("udp", Target(r))]
      BY <2>2 DEF ActivateUDP, At, Innermost, manager
    <3> QED BY <1>2, <3>1, Installs DEF IInv, Shapes, Committed, Promise!Follow
  <2>3. ASSUME NEW r \in Requests, ActivateTraffic(r)
        PROVE  Promise!Follow("traffic") /\ "traffic" \in Planes
    <3>1. /\ pc[r] = "activate" /\ "traffic" \in DOMAIN plan[r] /\ UNCHANGED <<effective, unplanned>>
          /\ live' = [live EXCEPT !["traffic"] = Part("traffic", Target(r))]
      BY <2>3 DEF ActivateTraffic, Innermost, manager
    <3> QED BY <1>2, <3>1, Installs DEF IInv, Shapes, Committed, Promise!Follow
  <2>4. ASSUME NEW r \in Requests, ActivateManagement(r)
        PROVE  Promise!Follow("management") /\ "management" \in Planes
    <3>1. /\ "management" \in Planes
          /\ \/ "management" \in unplanned
             \/ Part("management", Target(r)) = Part("management", effective)
      BY <1>2, <2>4, Installs DEF ActivateManagement, Innermost, Committed
    <3>2. \/ "management" \in unplanned
          \/ [address |-> Part("management", Target(r)).address, other |-> effective.auth]
                = Part("management", effective)
      BY <3>1 DEF Part
    <3> QED BY <1>2, <2>4, <3>1, <3>2 DEF IInv, Shapes, ActivateManagement, manager, Promise!Follow
  <2> QED BY <1>2, <2>1, <2>2, <2>3, <2>4, WhoWrites DEF Promise!Next
<1> QED BY <1>1, <1>2, IInvariant, PTL DEF Spec, ImplementsPromise, Promise!Spec

-----------------------------------------------------------------------------
\* While there is one handler instance its mutex admits one request at a time, so what
\* a request has just committed is still in effect when it resizes the history.
OneAtATime ==
    /\ \A address \in DOMAIN routes : routes[address] = 0
    /\ \A r \in Requests : instance[r] = 0
    /\ \A r, s \in Requests : pc[r] \notin Outside /\ pc[s] \notin Outside => r = s
    /\ \A r \in Requests : pc[r] = "resize" => effective = Target(r)
    /\ (\A r \in Requests : pc[r] # "resize") => capacity = effective.capacity

OneInstance ==
    /\ generation \in Nat /\ DOMAIN instance = Requests
    /\ generation = 0 => OneAtATime

\* A request inside its mutex goes on to a phase before or after the resize.
LEMMA InsideMoves ==
    ASSUME IInv, OneInstance, NEW r \in Requests, NEW phase,
           pc[r] \notin Outside, pc[r] # "resize", phase # "resize",
           pc' = [pc EXCEPT ![r] = phase],
           instance' = instance \/ (phase = "idle" /\ instance' = [instance EXCEPT ![r] = 0]),
           prepared' = prepared \/ pc[r] = "prepare" \/ phase = "idle",
           \A s \in Requests \ {r} : prepared'[s] = prepared[s],
           UNCHANGED <<effective, generation, routes, capacity>>
    PROVE  OneInstance'
<1>1. pc'[r] = phase /\ \A s \in Requests \ {r} : pc'[s] = pc[s]
  BY DEF IInv, Shapes
<1>2. generation' \in Nat /\ DOMAIN instance' = Requests
  BY DEF OneInstance
<1>3. ASSUME generation = 0 PROVE OneAtATime'
  <2>1. OneAtATime
    BY <1>3 DEF OneInstance
  <2>2. \A s \in Requests : pc'[s] \notin Outside => s = r
    BY <1>1, <2>1 DEF OneAtATime
  <2>3. \A s \in Requests : instance'[s] = 0
    BY <2>1 DEF OneAtATime, OneInstance
  <2>4. \A s \in Requests : pc'[s] # "resize" /\ pc[s] # "resize"
    BY <1>1, <2>2, <2>1 DEF OneAtATime, Outside
  <2> QED BY <2>1, <2>2, <2>3, <2>4 DEF OneAtATime
<1> QED BY <1>2, <1>3 DEF OneInstance

LEMMA OneInstanceStep ==
    ASSUME IInv, OneInstance, NEW r \in Requests, Step(r)
    PROVE  OneInstance'
<1> USE DEF At, handler
<1>1. CASE Decode(r)
  <2>1. pc[r] = "routed" /\ pc' = [pc EXCEPT ![r] = "ready"]
    BY <1>1 DEF Decode
  <2>2. UNCHANGED <<effective, generation, routes, capacity, instance, prepared>>
    BY <1>1 DEF Decode, manager, applied
  <2> QED BY <2>1, <2>2 DEF OneInstance, OneAtATime, IInv, Shapes, Outside, Target
<1>2. CASE Lock(r)
  <2>1. PICK phase \in {"prepare", "return"} : pc[r] = "ready" /\ pc' = [pc EXCEPT ![r] = phase]
    BY <1>2 DEF Lock
  <2>2. UNCHANGED <<effective, generation, routes, capacity, instance, prepared>>
    BY <1>2 DEF Lock, manager, applied
  <2>3. generation = 0 => \A s \in Requests : pc[s] \in Outside
    BY <1>2 DEF Lock, MutexFree, OneInstance, OneAtATime
  <2> QED BY <2>1, <2>2, <2>3 DEF OneInstance, OneAtATime, IInv, Shapes, Outside
<1>3. CASE Prepare(r)
  <2>1. PICK phase : phase # "resize" /\ pc[r] = "prepare" /\ pc' = [pc EXCEPT ![r] = phase]
    BY <1>3, NextPlaneDue DEF Prepare, Preparing
  <2>2. \A s \in Requests \ {r} : prepared'[s] = prepared[s]
    BY <1>3 DEF Prepare, IInv, Shapes
  <2> QED BY <1>3, <2>1, <2>2, InsideMoves DEF Prepare, manager, applied, Outside
<1>4. ASSUME NEW plane \in Planes,
             PreparePlane(r, plane) \/ PreparePlaneFails(r, plane) \/ AbortPlan(r, plane)
      PROVE  OneInstance'
  <2>1. Later(plane) \subseteq Planes
    BY DEF Later, Planes
  <2>2. PICK phase : /\ phase # "resize" /\ pc[r] \in Planes \cup {"abort"}
                     /\ pc' = [pc EXCEPT ![r] = phase]
    <3>1. CASE PreparePlane(r, plane)
      BY <3>1, <2>1, NextPlaneDue DEF PreparePlane, Preparing
    <3>2. CASE PreparePlaneFails(r, plane)
      BY <3>2 DEF PreparePlaneFails
    <3>3. CASE AbortPlan(r, plane)
      <4>1. pc[r] = "abort" /\ pc' = [pc EXCEPT ![r] = "abort"]
        BY <3>3 DEF AbortPlan, IInv, Shapes
      <4> QED BY <4>1
    <3> QED BY <1>4, <3>1, <3>2, <3>3
  <2>3. UNCHANGED <<effective, generation, routes, capacity, instance, prepared>>
    BY <1>4 DEF PreparePlane, PreparePlaneFails, AbortPlan, manager, applied
  <2> QED BY <2>2, <2>3, InsideMoves DEF Planes, Outside
<1>5. CASE Commit(r)
  <2>1. /\ pc[r] = "commit" /\ pc' = [pc EXCEPT ![r] = "resize"] /\ effective' = Target(r)
        /\ UNCHANGED <<generation, routes, capacity, instance, prepared>>
    BY <1>5 DEF Commit, applied
  <2>2. generation = 0 => \A s \in Requests \ {r} : pc[s] \in Outside
    BY <2>1 DEF OneInstance, OneAtATime, Outside
  <2> QED BY <2>1, <2>2 DEF OneInstance, OneAtATime, IInv, Shapes, Outside, Target
<1>6. CASE CommitFails(r)
  <2>1. pc[r] = "commit" /\ pc' = [pc EXCEPT ![r] = "abort"]
    BY <1>6 DEF CommitFails
  <2> QED BY <1>6, <2>1, InsideMoves DEF CommitFails, manager, applied, Outside
<1>7. CASE ResizeHistory(r)
  <2>1. /\ pc[r] = "resize" /\ pc' = [pc EXCEPT ![r] = "retention"] /\ capacity' = Target(r).capacity
        /\ UNCHANGED <<effective, generation, routes, instance, prepared>>
    BY <1>7 DEF ResizeHistory, manager
  <2>2. generation = 0 => effective = Target(r)
    BY <2>1 DEF OneInstance, OneAtATime
  <2> QED BY <2>1, <2>2 DEF OneInstance, OneAtATime, IInv, Shapes, Outside, Target
<1>8. CASE ApplyStorageSettings(r) \/ ActivateUDP(r) \/ RetireUDP(r)
  <2>1. PICK phase : /\ phase # "resize" /\ pc[r] \in {"retention", "activate", "retire"}
                     /\ pc' = [pc EXCEPT ![r] = phase]
    BY <1>8 DEF ApplyStorageSettings, ActivateUDP, RetireUDP
  <2>2. UNCHANGED <<effective, generation, routes, capacity, instance, prepared>>
    BY <1>8 DEF ApplyStorageSettings, ActivateUDP, RetireUDP, manager, applied
  <2> QED BY <2>1, <2>2, InsideMoves DEF Outside
<1>9. CASE ActivateTraffic(r)
  BY <1>9 DEF ActivateTraffic, OneInstance, OneAtATime, manager, applied, Target
<1>10. CASE ActivateManagement(r)
  BY <1>10 DEF ActivateManagement, OneInstance
<1>11. CASE Return(r)
  <2>1. /\ pc[r] \notin Outside /\ pc[r] # "resize" /\ pc' = [pc EXCEPT ![r] = "idle"]
        /\ instance' = [instance EXCEPT ![r] = 0]
    BY <1>11 DEF Return, Outside
  <2>2. \A s \in Requests \ {r} : prepared'[s] = prepared[s]
    BY <1>11 DEF Return, IInv, Shapes
  <2> QED BY <1>11, <2>1, <2>2, InsideMoves DEF Return, manager, applied
<1> QED BY <1>1, <1>2, <1>3, <1>4, <1>5, <1>6, <1>7, <1>8, <1>9, <1>10, <1>11 DEF Step

LEMMA OneInstanceAlways == Spec => []OneInstance
<1>1. Init => OneInstance
  BY DEF Init, OneInstance, OneAtATime, Outside
<1>2. ASSUME IInv, OneInstance, [Next]_vars PROVE OneInstance'
  <2>1. ASSUME NEW r \in Requests, Route(r) PROVE OneInstance'
    <3>1. /\ pc[r] = "idle" /\ pc' = [pc EXCEPT ![r] = "routed"]
          /\ UNCHANGED <<effective, generation, routes, capacity, prepared>>
      BY <2>1 DEF Route, At, manager, handler, applied
    <3>2. PICK address \in DOMAIN routes : instance' = [instance EXCEPT ![r] = routes[address]]
      BY <2>1 DEF Route
    <3>3. DOMAIN instance' = Requests /\ instance'[r] = routes[address]
          /\ \A s \in Requests \ {r} : instance'[s] = instance[s]
      BY <1>2, <3>2 DEF OneInstance
    <3> QED BY <1>2, <3>1, <3>3 DEF OneInstance, OneAtATime, IInv, Shapes, Outside, Target
  <2>2. ASSUME NEW socket \in bound, Drain(socket) PROVE OneInstance'
    <3>1. UNCHANGED <<effective, generation, capacity, instance, prepared, pc>>
      BY <2>2 DEF Drain, manager, applied, request
    <3>2. \A address \in DOMAIN routes' : address \in DOMAIN routes /\ routes'[address] = routes[address]
      BY <2>2 DEF Drain, Restrict
    <3> QED BY <1>2, <3>1, <3>2 DEF OneInstance, OneAtATime, Target
  <2>3. CASE StopRequested \/ Stop \/ Stopped \/ UNCHANGED vars
    <3>1. UNCHANGED <<effective, generation, capacity, instance, prepared, pc>>
      BY <2>3
      DEF StopRequested, Stop, Stopped, CloseStreams, CloseTraffic, CloseUDP, ShutdownManagement,
          vars, manager, handler, applied, request
    <3>2. routes' = routes \/ DOMAIN routes' = {}
      BY <2>3
      DEF StopRequested, Stop, Stopped, CloseStreams, CloseTraffic, CloseUDP, ShutdownManagement,
          vars, handler
    <3> QED BY <1>2, <3>1, <3>2 DEF OneInstance, OneAtATime, Target
  <2> QED BY <1>2, <2>1, <2>2, <2>3, OneInstanceStep DEF Next
<1> QED BY <1>1, <1>2, IInvariant, PTL DEF Spec

\* As long as no management reload has installed a second handler instance, RAM has the
\* committed capacity as soon as no update is between its commit and its resize
\* (handler.go:334-335 and 380-386).
THEOREM CapacityFollowsOneInstance == Spec => []CapacityFollows
<1>1. OneInstance => CapacityFollows
  BY DEF OneInstance, OneAtATime, CapacityFollows
<1> QED BY <1>1, OneInstanceAlways, PTL

\* Until then, what a request has read stays in effect until it commits, whatever
\* revision its client sent: so nothing is changed unplanned.
SoleReader ==
    generation = 0 =>
        /\ unplanned = {}
        /\ \A r \in Requests : pc[r] \in Preparing \cup {"prepare"} => current[r] = effective

LEMMA SoleReaderStep ==
    ASSUME IInv, OneInstance, SoleReader, [Next]_vars
    PROVE  SoleReader'
<1> USE DEF At, manager, handler, request
<1>0. Requests = DOMAIN pc /\ DOMAIN current = Requests /\ generation \in Nat
  BY DEF IInv, Shapes, OneInstance
<1>1. ASSUME NEW r \in Requests, Lock(r) PROVE SoleReader'
  BY <1>0, <1>1 DEF Lock, SoleReader, Preparing
<1>2. ASSUME NEW r \in Requests, Prepare(r) PROVE SoleReader'
  BY <1>0, <1>2 DEF Prepare, SoleReader, Preparing
<1>3. ASSUME NEW r \in Requests, NEW plane \in Planes, PreparePlane(r, plane) PROVE SoleReader'
  BY <1>0, <1>3 DEF PreparePlane, SoleReader, Preparing, Planes
<1>4. ASSUME NEW r \in Requests, Commit(r) PROVE SoleReader'
  <2> SUFFICES ASSUME generation = 0 PROVE SoleReader'
    BY <1>4 DEF Commit, SoleReader
  <2>1. pc[r] = "commit" /\ pc'[r] = "resize" /\ \A s \in Requests \ {r} : pc'[s] \in Outside
    BY <1>0, <1>4 DEF Commit, OneInstance, OneAtATime, Outside
  <2>2. Changed(r) \subseteq DOMAIN plan[r]
    BY <2>1 DEF IInv, ChangesCovered, SoleReader, Changed, Preparing, Pending
  <2>3. unplanned' = {}
    BY <1>4, <2>2 DEF Commit, Unplanned, SoleReader
  <2> QED BY <2>1, <2>3 DEF SoleReader, Outside, Preparing
<1>5. ASSUME NEW r \in Requests, ActivateManagement(r) PROVE SoleReader'
  BY <1>0, <1>5 DEF ActivateManagement, SoleReader
\* The other steps read and commit nothing and lead to no phase that goes on to commit.
<1>6. ASSUME UNCHANGED <<generation, effective, unplanned>>,
             \A r \in Requests : pc'[r] \in Preparing \cup {"prepare"} =>
                 pc'[r] = pc[r] /\ current'[r] = current[r]
      PROVE  SoleReader'
  BY <1>6 DEF SoleReader
<1>7. ASSUME NEW r \in Requests,
             \/ Route(r) \/ Decode(r) \/ CommitFails(r) \/ ResizeHistory(r)
             \/ ApplyStorageSettings(r) \/ ActivateUDP(r) \/ RetireUDP(r) \/ ActivateTraffic(r)
             \/ Return(r)
             \/ \E plane \in Planes : PreparePlaneFails(r, plane) \/ AbortPlan(r, plane)
      PROVE  SoleReader'
  BY <1>0, <1>6, <1>7
  DEF Route, Decode, CommitFails, ResizeHistory, ApplyStorageSettings, ActivateUDP, RetireUDP,
      ActivateTraffic, Return, PreparePlaneFails, AbortPlan, Preparing
<1>8. ASSUME NEW r \in Requests, Step(r) PROVE SoleReader'
  BY <1>1, <1>2, <1>3, <1>4, <1>5, <1>7, <1>8 DEF Step
<1>9. CASE \/ (\E socket \in bound : Drain(socket)) \/ StopRequested \/ Stop \/ Stopped \/ UNCHANGED vars
  BY <1>6, <1>9
  DEF Drain, StopRequested, Stop, CloseStreams, CloseTraffic, CloseUDP, ShutdownManagement,
      Stopped, vars
<1> QED BY <1>7, <1>8, <1>9 DEF Next

\* A plane that does not run with the committed settings is about to, whatever the
\* handler instances, failures and the shutdown do, unless beside a newer instance a
\* save that ran ahead changed it without a plan (handler.go:331-412).
THEOREM PlanesFollowAlways == Spec => []PlanesFollow
<1>1. Init => SoleReader
  BY DEF Init, SoleReader, Preparing
<1>2. IInv /\ OneInstance /\ SoleReader => PlanesFollow
  BY DEF IInv, AllFollow, OneInstance, SoleReader, PlanesFollow
<1> QED BY <1>1, <1>2, SoleReaderStep, OneInstanceAlways, IInvariant, PTL DEF Spec

-----------------------------------------------------------------------------
(***************************************************************************)
(* Updates and the shutdown leak no listener, close none that is in use,   *)
(* and close the stream channel of each handler instance once.             *)
(*                                                                         *)
(* A listener belongs to a plane, to the plan of the request that holds    *)
(* the plane's transition lock, or to a drain goroutine.  It is enough to  *)
(* know that no two of them have the same one, and that the settings a     *)
(* plan was made for are those its plane still has.                        *)
(***************************************************************************)

\* The listener a plane runs with, the one in a plan, and whether it is in any plan.
Owns(plane, socket) == plane \notin closed /\ socket \in Socket(plane, live[plane].address)
Holds(r, plane, socket) == plane \in DOMAIN plan[r] /\ socket \in Socket(plane, plan[r][plane])
Owned(socket) == \E plane \in Planes : Owns(plane, socket)
Held(socket) == \E r \in Requests : \E plane \in Planes : Holds(r, plane, socket)

Accounted == \A socket : socket \in bound <=> Owned(socket) \/ socket \in draining \/ Held(socket)

\* No listener has two owners.
Apart ==
    /\ \A socket \in draining : ~Owned(socket) /\ ~Held(socket)
    /\ \A socket : Owned(socket) => ~Held(socket)

\* What is prepared was validated: the HTTP planes have an address.
AddressesGiven ==
    /\ live["management"].address # None /\ live["traffic"].address # None
    /\ \A r \in Requests : pc[r] \in Preparing \cup Committed => Valid(Target(r))

\* A closed plane is in no plan.
ClosedAreFree == closed \subseteq Planes /\ \A plane \in closed : TransitionFree(plane)

\* A plan has a listener exactly where the plane's address changes, until the UDP
\* plane is activated: then it stands for the old one.
PlansFit ==
    \A r \in Requests : \A plane \in DOMAIN plan[r] :
        /\ pc[r] \in Preparing \cup Committed /\ ~(pc[r] = "retire" /\ plane = "udp") =>
              plan[r][plane] = IF NeedsListener(r, plane) THEN Part(plane, Target(r)).address ELSE None

\* Nothing is planned before the request has prepared its change.
NoEarlyPlan ==
    \A r \in Requests : pc[r] \notin Preparing \cup Committed \cup {"abort"} => DOMAIN plan[r] = {}

LInv == IInv /\ NoEarlyPlan /\ Accounted /\ Apart /\ AddressesGiven /\ ClosedAreFree /\ PlansFit

-----------------------------------------------------------------------------
LEMMA LInit == Init => LInv
<1> SUFFICES ASSUME Init PROVE LInv
  OBVIOUS
<1>1. IInv
  BY InitIInv
<1>2. /\ live = [plane \in Planes |-> Part(plane, Lower)]
      /\ bound = {<<plane, live[plane].address>> : plane \in Planes} \ {<<"udp", None>>}
      /\ draining = {} /\ closed = {}
      /\ \A r \in Requests : plan[r] = NoPlan /\ pc[r] = "idle" /\ DOMAIN plan[r] = {}
  BY DEF Init, NoPlan
<1>3. live["management"].address # None /\ live["traffic"].address # None
  <2>1. live["management"] = Part("management", Lower) /\ live["traffic"] = Part("traffic", Lower)
    BY <1>2 DEF Planes
  <2>2. Part("management", Lower) = [address |-> Lower.management, other |-> Lower.auth]
    BY DEF Part
  <2>3. Part("traffic", Lower) = [address |-> Lower.traffic, other |-> Lower.cors]
    BY DEF Part
  <2> QED BY <2>1, <2>2, <2>3, LowerValid DEF Valid
<1>4. ASSUME NEW socket PROVE socket \in bound <=> Owned(socket)
  <2>1. \A plane \in Planes : live[plane].address = None => plane = "udp"
    BY <1>3 DEF Planes
  <2>2. socket \in bound => Owned(socket)
    BY <1>2, <2>1 DEF Owned, Owns, Socket
  <2>3. ASSUME NEW plane \in Planes, Owns(plane, socket) PROVE socket \in bound
    <3>1. live[plane].address # None /\ socket = <<plane, live[plane].address>>
      BY <2>3 DEF Owns, Socket
    <3>2. socket # <<"udp", None>>
      BY <3>1
    <3> QED BY <1>2, <3>1, <3>2
  <2> QED BY <2>2, <2>3 DEF Owned
<1>5. Accounted /\ Apart
  BY <1>2, <1>4 DEF Accounted, Apart, Held, Holds
<1>6. AddressesGiven /\ ClosedAreFree /\ PlansFit
  BY <1>2, <1>3 DEF AddressesGiven, ClosedAreFree, PlansFit, Preparing, Committed
<1>7. NoEarlyPlan
  BY <1>2 DEF NoEarlyPlan
<1> QED BY <1>1, <1>5, <1>6, <1>7 DEF LInv

-----------------------------------------------------------------------------
\* A request goes on without touching a plane; what it prepared stays what it is.
LEMMA RequestMoves ==
    ASSUME LInv, IInv', NEW r \in Requests, NEW phase, phase # "retire",
           pc' = [pc EXCEPT ![r] = phase],
           phase \in Preparing \cup Committed => pc[r] \in (Preparing \cup Committed) \ {"retire"},
           phase \in Preparing \cup Committed \cup {"abort"} \/ DOMAIN plan[r] = {},
           UNCHANGED <<live, bound, draining, closed, plan, prepared>>
    PROVE  LInv'
<1>1. Accounted' /\ Apart'
  BY DEF LInv, Accounted, Apart, Owned, Held, Owns, Holds
<1>2. AddressesGiven'
  BY DEF LInv, IInv, Shapes, AddressesGiven, Target
<1>3. ClosedAreFree'
  BY DEF LInv, ClosedAreFree, TransitionFree
<1>4. PlansFit'
  BY DEF LInv, IInv, Shapes, PlansFit, NeedsListener, Target
<1>5. NoEarlyPlan'
  BY DEF LInv, IInv, Shapes, NoEarlyPlan
<1> QED BY <1>1, <1>2, <1>3, <1>4, <1>5 DEF LInv

\* A step that touches neither requests nor planes.
LEMMA NothingMoves ==
    ASSUME LInv, IInv', UNCHANGED <<live, bound, draining, closed, plan, prepared, pc>>
    PROVE  LInv'
BY DEF LInv, Accounted, Apart, Owned, Held, Owns, Holds, AddressesGiven, ClosedAreFree,
       TransitionFree, PlansFit, NeedsListener, NoEarlyPlan, Target

LEMMA PrepareLInv == ASSUME LInv, IInv', NEW r \in Requests, Prepare(r) PROVE LInv'
<1> DEFINE change == asked[r].change
<1> DEFINE kept == Restrict(overrides, DOMAIN overrides \ (change.removals \cup DOMAIN change.values))
<1> DEFINE next == [field \in DOMAIN kept \cup DOMAIN change.values |->
                       IF field \in DOMAIN change.values THEN change.values[field] ELSE kept[field]]
<1> DEFINE ok == asked[r].expected = revision /\ Valid(Effective(next))
<1> DEFINE phase == NextPlane(Planes, current[r], Effective(next))
<1>1. CASE ~ok
  <2>1. pc[r] = "prepare" /\ pc' = [pc EXCEPT ![r] = "abort"]
    BY <1>1 DEF Prepare, At
  <2>2. UNCHANGED <<live, bound, draining, closed, plan, prepared>>
    BY <1>1 DEF Prepare, planes
  <2> QED BY <2>1, <2>2, RequestMoves DEF Preparing, Committed
<1>2. CASE ok
  <2>1. pc[r] = "prepare" /\ pc' = [pc EXCEPT ![r] = phase] /\ prepared' = [prepared EXCEPT ![r] = next]
    BY <1>2 DEF Prepare, At
  <2>2. UNCHANGED <<live, bound, draining, closed, plan>>
    BY DEF Prepare, planes
  <2>3. phase \in Preparing /\ DOMAIN plan[r] = {}
    BY <2>1, NextPlaneDue DEF LInv, NoEarlyPlan, Preparing, Committed
  <2>4. Valid(Effective(next))
    BY <1>2
  <2> HIDE DEF next, phase
  <2>5. Accounted' /\ Apart' /\ ClosedAreFree'
    BY <2>2 DEF LInv, Accounted, Apart, Owned, Held, Owns, Holds, ClosedAreFree, TransitionFree
  <2>6. AddressesGiven'
    BY <2>1, <2>2, <2>4 DEF LInv, IInv, Shapes, AddressesGiven, Target
  <2>7. PlansFit' /\ NoEarlyPlan'
    BY <2>1, <2>2, <2>3 DEF LInv, IInv, Shapes, PlansFit, NoEarlyPlan, NeedsListener, Target
  <2> QED BY <2>5, <2>6, <2>7 DEF LInv
<1> QED BY <1>1, <1>2

\* A listener that is opened for a plan belonged to nobody: the address was not in use.
LEMMA PreparePlaneLInv ==
    ASSUME LInv, IInv', NEW r \in Requests, NEW plane \in Planes, PreparePlane(r, plane)
    PROVE  LInv'
<1> DEFINE phase == NextPlane(Later(plane), current[r], Target(r))
<1> DEFINE address == Part(plane, Target(r)).address
<1> DEFINE fresh == IF NeedsListener(r, plane) THEN address ELSE None
<1>1. pc[r] = plane /\ pc' = [pc EXCEPT ![r] = phase] /\ TransitionFree(plane) /\ plane \notin closed
  BY DEF PreparePlane, At
<1>2. /\ fresh # None => ~InUse(plane, fresh)
      /\ plan' = [plan EXCEPT ![r] =
            [p \in DOMAIN plan[r] \cup {plane} |-> IF p = plane THEN fresh ELSE plan[r][p]]]
      /\ bound' = bound \cup Socket(plane, fresh)
  BY DEF PreparePlane, Socket
<1>3. UNCHANGED <<live, draining, closed, prepared>>
  BY DEF PreparePlane
<1>4. phase \in Preparing /\ pc[r] \in Preparing /\ plane \notin DOMAIN plan[r]
  BY <1>1, NextPlaneDue DEF Later, Planes, Preparing, TransitionFree
<1>5. \A socket \in Socket(plane, fresh) : socket \notin bound
  BY <1>2 DEF InUse, Socket, Planes
<1> HIDE DEF phase, address
<1>6. /\ DOMAIN plan' = Requests /\ DOMAIN plan'[r] = DOMAIN plan[r] \cup {plane}
      /\ plan'[r][plane] = fresh
      /\ \A p \in DOMAIN plan[r] : plan'[r][p] = plan[r][p]
      /\ \A s \in Requests \ {r} : plan'[s] = plan[s]
  BY <1>2, <1>4 DEF LInv, IInv, Shapes
<1>7. ASSUME NEW socket
      PROVE  /\ Owned(socket)' <=> Owned(socket)
             /\ Held(socket)' <=> Held(socket) \/ socket \in Socket(plane, fresh)
  <2>1. Owned(socket)' <=> Owned(socket)
    BY <1>3 DEF Owned, Owns
  <2>2. ASSUME NEW s \in Requests, NEW p \in Planes
        PROVE  Holds(s, p, socket)' <=> Holds(s, p, socket)
                                        \/ (s = r /\ p = plane /\ socket \in Socket(plane, fresh))
    BY <1>4, <1>6 DEF Holds
  <2> QED BY <2>1, <2>2 DEF Held
<1> HIDE DEF fresh
<1>8. Accounted' /\ Apart'
  BY <1>2, <1>3, <1>5, <1>7 DEF LInv, Accounted, Apart
<1>9. AddressesGiven'
  BY <1>1, <1>3, <1>4 DEF LInv, IInv, Shapes, AddressesGiven, Target
<1>10. ClosedAreFree'
  BY <1>1, <1>3, <1>6 DEF LInv, ClosedAreFree, TransitionFree
<1>11. PlansFit' /\ NoEarlyPlan'
  <2>1. fresh = IF NeedsListener(r, plane) THEN Part(plane, Target(r)).address ELSE None
    BY DEF fresh, address
  <2>2. \A s \in Requests : /\ Target(s)' = Target(s)
                             /\ \A p \in Planes : NeedsListener(s, p)' <=> NeedsListener(s, p)
    BY <1>3 DEF Target, NeedsListener
  <2>3. NoEarlyPlan'
    BY <1>1, <1>4, <1>6 DEF LInv, IInv, Shapes, NoEarlyPlan
  <2>4. PlansFit'
    BY <1>1, <1>4, <1>6, <2>1, <2>2 DEF LInv, IInv, Shapes, PlansFit, Preparing
  <2> QED BY <2>3, <2>4
<1> QED BY <1>8, <1>9, <1>10, <1>11 DEF LInv

\* A plan that is given up gives up its listener: aborted it is closed with it, ...
LEMMA PlanGone ==
    ASSUME LInv, NEW r \in Requests, NEW plane \in Planes, plane \in DOMAIN plan[r],
           Release(r, plane), NEW socket
    PROVE  Held(socket)' <=> Held(socket) /\ socket \notin Socket(plane, plan[r][plane])
<1>1. /\ DOMAIN plan' = Requests /\ DOMAIN plan'[r] = DOMAIN plan[r] \ {plane}
      /\ \A p \in DOMAIN plan[r] \ {plane} : plan'[r][p] = plan[r][p]
      /\ \A s \in Requests \ {r} : plan'[s] = plan[s]
  BY DEF LInv, IInv, Shapes, Release, Restrict
<1>2. \A s \in Requests \ {r} : plane \notin DOMAIN plan[s]
  BY DEF LInv, IInv, LocksExclude
<1>3. ASSUME NEW s \in Requests, NEW p \in Planes
      PROVE  Holds(s, p, socket)' <=> Holds(s, p, socket) /\ ~(s = r /\ p = plane)
  BY <1>1 DEF Holds
<1>4. ASSUME NEW s \in Requests, NEW p \in Planes, Holds(s, p, socket), socket \in Socket(plane, plan[r][plane])
      PROVE  s = r /\ p = plane
  <2>1. p = plane
    BY <1>4 DEF Holds, Socket
  <2> QED BY <1>2, <1>4, <2>1 DEF Holds
<1>5. Holds(r, plane, socket) => socket \in Socket(plane, plan[r][plane])
  BY DEF Holds
<1>6. Held(socket)' => Held(socket) /\ socket \notin Socket(plane, plan[r][plane])
  BY <1>3, <1>4 DEF Held
<1>7. Held(socket) /\ socket \notin Socket(plane, plan[r][plane]) => Held(socket)'
  BY <1>3, <1>5 DEF Held
<1> QED BY <1>6, <1>7

\* ... whatever else the step does to the phase of the request.
LEMMA OthersKeepPlans ==
    ASSUME LInv, NEW r \in Requests, NEW plane \in Planes, plane \in DOMAIN plan[r],
           Release(r, plane), closed' = closed, prepared' = prepared,
           NEW phase, pc' = [pc EXCEPT ![r] = phase], phase \notin {"retire"},
           phase \in Preparing \cup Committed => pc[r] \in Preparing \cup Committed,
           pc[r] = "retire" => plane = "udp",
           phase \in Preparing \cup Committed \cup {"abort"},
           \A p \in Planes \ {plane} : live'[p] = live[p]
    PROVE  ClosedAreFree' /\ PlansFit' /\ NoEarlyPlan'
<1>1. /\ DOMAIN plan' = Requests /\ DOMAIN plan'[r] = DOMAIN plan[r] \ {plane}
      /\ \A p \in DOMAIN plan[r] \ {plane} : plan'[r][p] = plan[r][p]
      /\ \A s \in Requests \ {r} : plan'[s] = plan[s]
  BY DEF LInv, IInv, Shapes, Release, Restrict
<1>2. \A s \in Requests \ {r} : plane \notin DOMAIN plan[s]
  BY DEF LInv, IInv, LocksExclude
<1>3. ClosedAreFree' /\ NoEarlyPlan'
  BY <1>1 DEF LInv, IInv, Shapes, ClosedAreFree, TransitionFree, NoEarlyPlan
<1>4. \A s \in Requests : /\ Target(s)' = Target(s)
                           /\ \A p \in Planes \ {plane} : NeedsListener(s, p)' <=> NeedsListener(s, p)
  BY DEF Target, NeedsListener
<1>5. ASSUME NEW s \in Requests, NEW p \in DOMAIN plan'[s], pc'[s] \in Preparing \cup Committed,
             ~(pc'[s] = "retire" /\ p = "udp")
      PROVE  plan'[s][p] = IF NeedsListener(s, p)' THEN Part(p, Target(s)').address ELSE None
  <2>1. p \in DOMAIN plan[s] /\ plan'[s][p] = plan[s][p] /\ p \in Planes \ {plane}
    BY <1>1, <1>2 DEF LInv, IInv, Shapes
  <2>2. pc[s] \in Preparing \cup Committed /\ ~(pc[s] = "retire" /\ p = "udp")
    BY <1>5, <2>1 DEF LInv, IInv, Shapes
  <2>3. plan[s][p] = IF NeedsListener(s, p) THEN Part(p, Target(s)).address ELSE None
    BY <2>1, <2>2 DEF LInv, PlansFit
  <2>4. Target(s)' = Target(s) /\ (NeedsListener(s, p)' <=> NeedsListener(s, p))
    BY <1>4, <2>1
  <2> QED BY <2>1, <2>3, <2>4
<1> QED BY <1>3, <1>5 DEF PlansFit

\* An aborted plan, and the UDP plan after its plane has moved, is closed.
LEMMA PlanCloses ==
    ASSUME LInv, IInv', NEW r \in Requests, NEW plane \in Planes, plane \in DOMAIN plan[r],
           Release(r, plane), bound' = bound \ Socket(plane, plan[r][plane]),
           UNCHANGED <<live, draining, closed, prepared>>,
           NEW phase \in {"abort", "activate"}, pc' = [pc EXCEPT ![r] = phase],
           phase = "activate" => pc[r] = "retire" /\ plane = "udp",
           phase = "abort" => pc[r] = "abort"
    PROVE  LInv'
<1>1. ClosedAreFree' /\ PlansFit' /\ NoEarlyPlan'
  BY OthersKeepPlans DEF Preparing, Committed
<1>2. AddressesGiven'
  BY DEF LInv, IInv, Shapes, AddressesGiven, Target, Preparing, Committed
<1>3. \A socket : Owned(socket)' <=> Owned(socket)
  BY DEF Owned, Owns
<1>4. \A socket : socket \in Socket(plane, plan[r][plane]) => Held(socket)
  BY DEF Held, Holds
<1>5. Accounted' /\ Apart'
  BY <1>3, <1>4, PlanGone DEF LInv, Accounted, Apart
<1> QED BY <1>1, <1>2, <1>5 DEF LInv

LEMMA AbortPlanLInv ==
    ASSUME LInv, IInv', NEW r \in Requests, NEW plane \in Planes, AbortPlan(r, plane)
    PROVE  LInv'
<1>1. pc[r] = "abort" /\ plane \in DOMAIN plan[r] /\ pc' = [pc EXCEPT ![r] = "abort"]
  BY DEF AbortPlan, Innermost, LInv, IInv, Shapes
<1> QED BY <1>1, PlanCloses DEF AbortPlan

LEMMA RetireUDPLInv == ASSUME LInv, IInv', NEW r \in Requests, RetireUDP(r) PROVE LInv'
<1>1. pc[r] = "retire" /\ pc' = [pc EXCEPT ![r] = "activate"]
  BY DEF RetireUDP, At
<1>2. "udp" \in DOMAIN plan[r] /\ "udp" \in Planes
  BY <1>1 DEF LInv, IInv, CommittedAgree, Planes
<1> QED BY <1>1, <1>2, PlanCloses DEF RetireUDP

-----------------------------------------------------------------------------
\* What the owner of a listener is when one plane moves.
LEMMA PlaneMoves ==
    ASSUME LInv, NEW plane \in Planes, plane \notin closed, closed' = closed,
           \A p \in Planes \ {plane} : live'[p] = live[p],
           NEW socket
    PROVE  Owned(socket)' <=> \/ Owned(socket) /\ socket \notin Socket(plane, live[plane].address)
                              \/ socket \in Socket(plane, live'[plane].address)
<1>1. \A p \in Planes \ {plane} : /\ Owns(p, socket)' <=> Owns(p, socket)
                                  /\ Owns(p, socket) => socket \notin Socket(plane, live[plane].address)
  BY DEF Owns, Socket
<1>2. /\ Owns(plane, socket)' <=> socket \in Socket(plane, live'[plane].address)
      /\ Owns(plane, socket) <=> socket \in Socket(plane, live[plane].address)
  BY DEF Owns
<1> QED BY <1>1, <1>2 DEF Owned

\* A new HTTP listener takes over and the old one is left to its drain goroutine.
LEMMA HTTPActivates ==
    ASSUME LInv, IInv', NEW r \in Requests, NEW plane \in {"management", "traffic"},
           pc[r] = "activate", plane \in DOMAIN plan[r], Release(r, plane),
           live'[plane].address = Part(plane, Target(r)).address,
           \A p \in Planes \ {plane} : live'[p] = live[p],
           draining' = draining \cup Replaced(r, plane),
           UNCHANGED <<bound, closed, pc, prepared>>
    PROVE  LInv'
<1> DEFINE old == live[plane].address
<1> DEFINE new == Part(plane, Target(r)).address
<1>1. plane \in Planes /\ plane \notin closed /\ pc' = [pc EXCEPT ![r] = "activate"]
  BY DEF LInv, IInv, Shapes, ClosedAreFree, TransitionFree, Planes
<1>2. Valid(Target(r))
  BY DEF LInv, AddressesGiven, Committed
<1>3. old # None /\ new # None
  <2>1. old # None
    BY DEF LInv, AddressesGiven
  <2>2. CASE plane = "management"
    BY <1>2, <2>1, <2>2 DEF Part, Valid
  <2>3. CASE plane = "traffic"
    BY <1>2, <2>1, <2>3 DEF Part, Valid
  <2> QED BY <2>2, <2>3
<1>4. plan[r][plane] = IF new = old THEN None ELSE new
  BY <1>3 DEF LInv, PlansFit, NeedsListener, Committed
<1>5. AddressesGiven'
  BY <1>1, <1>3 DEF LInv, AddressesGiven, Target, Planes
<1>6. ClosedAreFree' /\ PlansFit' /\ NoEarlyPlan'
  BY <1>1, OthersKeepPlans DEF Committed, Preparing
<1> HIDE DEF new, old
<1>7. \A socket : Owned(socket)' <=> \/ Owned(socket) /\ socket # <<plane, old>>
                                    \/ socket = <<plane, new>>
  BY <1>1, <1>3, PlaneMoves DEF Socket, new, old
<1>8. Owned(<<plane, old>>)
  BY <1>1, <1>3 DEF Owned, Owns, Socket, old
<1>9. Accounted' /\ Apart'
  <2>1. CASE new = old
    <3>1. \A socket : (Owned(socket)' <=> Owned(socket)) /\ (Held(socket)' <=> Held(socket))
      BY <1>1, <1>4, <1>7, <1>8, <2>1, PlanGone DEF Socket
    <3>2. draining' = draining
      BY <1>4, <2>1 DEF Replaced
    <3> QED BY <3>1, <3>2 DEF LInv, Accounted, Apart
  <2>2. CASE new # old
    <3>1. \A socket : Held(socket)' <=> Held(socket) /\ socket # <<plane, new>>
      BY <1>1, <1>3, <1>4, <2>2, PlanGone DEF Socket
    <3>2. Held(<<plane, new>>)
      BY <1>1, <1>3, <1>4, <2>2 DEF Held, Holds, Socket
    <3>3. draining' = draining \cup {<<plane, old>>}
      BY <1>3, <1>4, <2>2 DEF Replaced, old
    <3>4. <<plane, old>> # <<plane, new>>
      BY <2>2
    <3> QED BY <1>7, <1>8, <3>1, <3>2, <3>3, <3>4 DEF LInv, Accounted, Apart
  <2> QED BY <2>1, <2>2
<1> QED BY <1>5, <1>6, <1>9 DEF LInv

LEMMA ActivateTrafficLInv ==
    ASSUME LInv, IInv', NEW r \in Requests, ActivateTraffic(r) PROVE LInv'
<1> USE DEF ActivateTraffic, Innermost
<1>1. live'["traffic"] = Part("traffic", Target(r)) /\ \A p \in Planes \ {"traffic"} : live'[p] = live[p]
  BY DEF LInv, IInv, Shapes, Planes
<1> QED BY <1>1, HTTPActivates

LEMMA ActivateManagementLInv ==
    ASSUME LInv, IInv', NEW r \in Requests, ActivateManagement(r) PROVE LInv'
<1> USE DEF ActivateManagement, Innermost
<1>1. /\ live'["management"].address = Part("management", Target(r)).address
      /\ \A p \in Planes \ {"management"} : live'[p] = live[p]
  BY DEF LInv, IInv, Shapes, Planes
<1> QED BY <1>1, HTTPActivates

\* The plan hands its listener to the plane and takes the old one, if it is given up.
LEMMA ActivateUDPLInv ==
    ASSUME LInv, IInv', NEW r \in Requests, ActivateUDP(r) PROVE LInv'
<1> DEFINE old == live["udp"].address
<1> DEFINE new == Part("udp", Target(r)).address
<1> DEFINE gone == IF old = new THEN None ELSE old
<1>1. /\ pc[r] = "activate" /\ pc' = [pc EXCEPT ![r] = "retire"] /\ "udp" \in DOMAIN plan[r]
      /\ "udp" \in Planes /\ "udp" \notin closed
      /\ UNCHANGED <<bound, draining, closed, prepared>>
  BY DEF ActivateUDP, At, Innermost, LInv, ClosedAreFree, TransitionFree, Planes
<1>2. /\ live' = [live EXCEPT !["udp"] = Part("udp", Target(r))]
      /\ plan' = [plan EXCEPT ![r] = [plan[r] EXCEPT !["udp"] = gone]]
  BY DEF ActivateUDP
<1>3. /\ live'["udp"].address = new
      /\ \A p \in Planes \ {"udp"} : live'[p] = live[p]
      /\ DOMAIN plan' = Requests /\ DOMAIN plan'[r] = DOMAIN plan[r] /\ plan'[r]["udp"] = gone
      /\ \A p \in DOMAIN plan[r] \ {"udp"} : plan'[r][p] = plan[r][p]
      /\ \A s \in Requests \ {r} : plan'[s] = plan[s]
  BY <1>1, <1>2 DEF LInv, IInv, Shapes
<1>4. plan[r]["udp"] = IF new # None /\ new # old THEN new ELSE None
  BY <1>1 DEF LInv, PlansFit, NeedsListener, Committed
<1>5. \A s \in Requests \ {r} : "udp" \notin DOMAIN plan[s]
  BY <1>1 DEF LInv, IInv, LocksExclude
<1>6. \A s \in Requests : /\ Target(s)' = Target(s)
                           /\ \A p \in Planes \ {"udp"} : NeedsListener(s, p)' <=> NeedsListener(s, p)
  BY <1>1, <1>3 DEF Target, NeedsListener
<1> HIDE DEF new, old, gone
<1>7. \A socket : Owned(socket)' <=> \/ Owned(socket) /\ socket \notin Socket("udp", old)
                                    \/ socket \in Socket("udp", new)
  BY <1>1, <1>3, PlaneMoves DEF old
<1>8. \A socket \in Socket("udp", old) : Owned(socket)
  BY <1>1 DEF Owned, Owns, old
<1>9. \A socket \in Socket("udp", plan[r]["udp"]) : Held(socket)
  BY <1>1 DEF Held, Holds
<1>10. ASSUME NEW socket
       PROVE  Held(socket)' <=> \/ Held(socket) /\ socket \notin Socket("udp", plan[r]["udp"])
                                \/ socket \in Socket("udp", gone)
  <2>1. \A s \in Requests : \A p \in Planes \ {"udp"} :
            /\ Holds(s, p, socket)' <=> Holds(s, p, socket)
            /\ Holds(s, p, socket) => socket \notin Socket("udp", plan[r]["udp"])
    BY <1>3 DEF Holds, Socket
  <2>2. \A s \in Requests \ {r} : ~Holds(s, "udp", socket) /\ ~Holds(s, "udp", socket)'
    BY <1>3, <1>5 DEF Holds
  <2>3. /\ Holds(r, "udp", socket)' <=> socket \in Socket("udp", gone)
        /\ Holds(r, "udp", socket) <=> socket \in Socket("udp", plan[r]["udp"])
    BY <1>1, <1>3 DEF Holds
  <2>4. Held(socket)' <=> \/ \E s \in Requests : \E p \in Planes \ {"udp"} : Holds(s, p, socket)
                          \/ socket \in Socket("udp", gone)
    BY <1>1, <2>1, <2>2, <2>3 DEF Held
  <2>5. Held(socket) <=> \/ \E s \in Requests : \E p \in Planes \ {"udp"} : Holds(s, p, socket)
                         \/ socket \in Socket("udp", plan[r]["udp"])
    BY <1>1, <2>2, <2>3 DEF Held
  <2> QED BY <2>1, <2>4, <2>5
<1>11. Accounted' /\ Apart'
  <2>1. CASE new = old
    BY <1>1, <1>4, <1>7, <1>8, <1>10, <2>1 DEF gone, LInv, Accounted, Apart, Socket
  <2>2. CASE new # old
    <3>1. gone = old /\ plan[r]["udp"] = new
      BY <1>4, <2>2 DEF gone
    <3>2. \A socket \in Socket("udp", old) : socket \notin Socket("udp", new)
      BY <2>2 DEF Socket
    <3> QED BY <1>1, <1>7, <1>8, <1>9, <1>10, <3>1, <3>2 DEF LInv, Accounted, Apart
  <2> QED BY <2>1, <2>2
<1>12. AddressesGiven'
  BY <1>1, <1>3, <1>6 DEF LInv, IInv, Shapes, AddressesGiven, Committed, Planes
<1>13. ClosedAreFree' /\ NoEarlyPlan'
  BY <1>1, <1>3 DEF LInv, IInv, Shapes, ClosedAreFree, TransitionFree, NoEarlyPlan, Committed
<1>14. ASSUME NEW s \in Requests, NEW p \in DOMAIN plan'[s], pc'[s] \in Preparing \cup Committed,
              ~(pc'[s] = "retire" /\ p = "udp")
       PROVE  plan'[s][p] = IF NeedsListener(s, p)' THEN Part(p, Target(s)').address ELSE None
  <2>1. p \in DOMAIN plan[s] /\ plan'[s][p] = plan[s][p] /\ p \in Planes \ {"udp"}
    BY <1>1, <1>3, <1>5, <1>14 DEF LInv, IInv, Shapes
  <2>2. pc[s] \in Preparing \cup Committed
    BY <1>1, <1>14 DEF LInv, IInv, Shapes, Committed
  <2>3. plan[s][p] = IF NeedsListener(s, p) THEN Part(p, Target(s)).address ELSE None
    BY <2>1, <2>2 DEF LInv, PlansFit
  <2>4. Target(s)' = Target(s) /\ (NeedsListener(s, p)' <=> NeedsListener(s, p))
    BY <1>6, <2>1
  <2> QED BY <2>1, <2>3, <2>4
<1>15. PlansFit'
  BY <1>14 DEF PlansFit
<1> QED BY <1>11, <1>12, <1>13, <1>15 DEF LInv

-----------------------------------------------------------------------------
\* The drain goroutine closes a listener that nobody else has.
LEMMA DrainLInv == ASSUME LInv, IInv', NEW socket \in bound, Drain(socket) PROVE LInv'
<1>1. /\ socket \in draining /\ bound' = bound \ {socket} /\ draining' = draining \ {socket}
      /\ UNCHANGED <<live, closed, pc, plan, prepared>>
  BY DEF Drain, request
<1>2. \A s : (Owned(s)' <=> Owned(s)) /\ (Held(s)' <=> Held(s))
  BY <1>1 DEF Owned, Owns, Held, Holds
<1>3. Accounted' /\ Apart'
  BY <1>1, <1>2 DEF LInv, Accounted, Apart
<1>4. AddressesGiven' /\ ClosedAreFree' /\ PlansFit' /\ NoEarlyPlan'
  BY <1>1 DEF LInv, AddressesGiven, ClosedAreFree, TransitionFree, PlansFit, NoEarlyPlan,
              NeedsListener, Target
<1> QED BY <1>3, <1>4 DEF LInv

\* Closing a plane waits for its plan to end.
LEMMA ClosePlaneLInv ==
    ASSUME LInv, IInv', NEW plane \in Planes, TransitionFree(plane), ClosePlane(plane),
           UNCHANGED <<live, pc, plan, prepared>>
    PROVE  LInv'
<1> USE DEF ClosePlane
<1>1. \A socket : /\ Owned(socket)' <=> Owned(socket) /\ socket[1] # plane
                  /\ Held(socket)' <=> Held(socket)
                  /\ Held(socket) => socket[1] # plane
  <2>1. \A socket : \A p \in Planes :
            Owns(p, socket) => socket[1] = p
    BY DEF Owns, Socket
  <2>2. \A socket : \A p \in Planes : Owns(p, socket)' <=> Owns(p, socket) /\ p # plane
    BY DEF Owns
  <2>3. \A socket : \A r \in Requests : \A p \in Planes :
            /\ Holds(r, p, socket)' <=> Holds(r, p, socket)
            /\ Holds(r, p, socket) => socket[1] = p /\ p # plane
    BY DEF Holds, Socket, TransitionFree
  <2> QED BY <2>1, <2>2, <2>3 DEF Owned, Held
<1>2. Accounted' /\ Apart'
  BY <1>1 DEF LInv, Accounted, Apart
<1>3. AddressesGiven' /\ ClosedAreFree' /\ PlansFit' /\ NoEarlyPlan'
  BY DEF LInv, AddressesGiven, ClosedAreFree, TransitionFree, PlansFit, NoEarlyPlan,
         NeedsListener, Target
<1> QED BY <1>2, <1>3 DEF LInv

LEMMA ReturnLInv == ASSUME LInv, IInv', NEW r \in Requests, Return(r) PROVE LInv'
<1>1. /\ UNCHANGED <<bound, live, draining, closed, plan>> /\ DOMAIN plan[r] = {}
      /\ pc' = [pc EXCEPT ![r] = "idle"] /\ prepared' = [prepared EXCEPT ![r] = None]
  BY DEF Return, planes
<1>2. \A s \in Requests \ {r} : pc'[s] = pc[s] /\ prepared'[s] = prepared[s]
  BY <1>1 DEF LInv, IInv, Shapes
<1>3. pc'[r] = "idle"
  BY <1>1 DEF LInv, IInv, Shapes
<1>4. Accounted' /\ Apart' /\ ClosedAreFree'
  BY <1>1 DEF LInv, Accounted, Apart, Owned, Held, Owns, Holds, ClosedAreFree, TransitionFree
<1>5. AddressesGiven' /\ PlansFit' /\ NoEarlyPlan'
  BY <1>1, <1>2, <1>3 DEF LInv, AddressesGiven, PlansFit, NoEarlyPlan, NeedsListener, Target,
                          Preparing, Committed
<1> QED BY <1>4, <1>5 DEF LInv

\* The phases of a request that touch no plane.
LEMMA PhasesLInv ==
    ASSUME LInv, IInv', NEW r \in Requests,
           \/ Route(r) \/ Decode(r) \/ Lock(r) \/ Commit(r) \/ CommitFails(r)
           \/ ResizeHistory(r) \/ ApplyStorageSettings(r)
           \/ \E plane \in Planes : PreparePlaneFails(r, plane)
    PROVE  LInv'
<1> USE DEF Preparing, Committed, planes, At
<1>1. CASE Route(r)
  BY <1>1, RequestMoves DEF Route, LInv, NoEarlyPlan
<1>2. CASE Decode(r)
  BY <1>2, RequestMoves DEF Decode, LInv, NoEarlyPlan
<1>3. CASE Lock(r)
  <2>1. /\ pc[r] = "ready" /\ UNCHANGED <<bound, live, draining, closed, plan, prepared>>
        /\ pc' = [pc EXCEPT ![r] = "prepare"] \/ pc' = [pc EXCEPT ![r] = "return"]
    BY <1>3 DEF Lock
  <2> QED BY <2>1, RequestMoves DEF LInv, NoEarlyPlan
<1>4. CASE Commit(r)
  BY <1>4, RequestMoves DEF Commit
<1>5. CASE CommitFails(r)
  BY <1>5, RequestMoves DEF CommitFails
<1>6. CASE ResizeHistory(r) \/ ApplyStorageSettings(r)
  BY <1>6, RequestMoves DEF ResizeHistory, ApplyStorageSettings
<1>7. CASE \E plane \in Planes : PreparePlaneFails(r, plane)
  BY <1>7, RequestMoves DEF PreparePlaneFails
<1> QED BY <1>1, <1>2, <1>3, <1>4, <1>5, <1>6, <1>7

LEMMA LInvStep == LInv /\ [Next]_vars => LInv'
<1> SUFFICES ASSUME LInv, [Next]_vars PROVE LInv'
  OBVIOUS
<1>1. IInv'
  BY IInvStep DEF LInv
<1>2. ASSUME NEW r \in Requests, Step(r) PROVE LInv'
  BY <1>1, <1>2, PhasesLInv, PrepareLInv, PreparePlaneLInv, AbortPlanLInv, ActivateUDPLInv,
     RetireUDPLInv, ActivateTrafficLInv, ActivateManagementLInv, ReturnLInv
  DEF Step
<1>3. ASSUME NEW r \in Requests, Route(r) PROVE LInv'
  BY <1>1, <1>3, PhasesLInv
<1>4. ASSUME NEW socket \in bound, Drain(socket) PROVE LInv'
  BY <1>1, <1>4, DrainLInv
<1>5. CASE StopRequested \/ CloseStreams \/ Stopped \/ UNCHANGED vars
  BY <1>1, <1>5, NothingMoves DEF StopRequested, CloseStreams, Stopped, vars, planes, request
<1>6. CASE CloseTraffic \/ CloseUDP \/ ShutdownManagement
  BY <1>1, <1>6, ClosePlaneLInv
  DEF CloseTraffic, CloseUDP, ShutdownManagement, Stopping, request, Planes
<1> QED BY <1>2, <1>3, <1>4, <1>5, <1>6 DEF Next, Stop

\* Prepare, Activate, Abort, drains and Close of the planes (traffic.go:91, udp.go:108,
\* management.go:113) leak no listener and close none in use.
THEOREM ListenersStayAccounted == Spec => []ListenersAccounted
<1>1. ASSUME LInv PROVE ListenersAccounted
  <2> DEFINE own == UNION {Socket(plane, live[plane].address) : plane \in Planes \ closed}
  <2> DEFINE planned == UNION {UNION {Socket(plane, plan[r][plane]) : plane \in DOMAIN plan[r]} :
                                  r \in Requests}
  <2>1. \A socket : socket \in own <=> Owned(socket)
    BY DEF Owned, Owns
  <2>2. \A socket : socket \in planned <=> Held(socket)
    BY <1>1 DEF Held, Holds, LInv, IInv, Shapes
  <2>3. ListenersAccounted <=> bound = own \cup draining \cup planned
    BY DEF ListenersAccounted
  <2> HIDE DEF own, planned
  <2>4. bound = own \cup draining \cup planned
    BY <1>1, <2>1, <2>2 DEF LInv, Accounted
  <2> QED BY <2>3, <2>4
<1> QED BY <1>1, LInit, LInvStep, PTL DEF Spec

-----------------------------------------------------------------------------
\* A reload, CloseStreams and Shutdown all close the channel that ends the event
\* streams (management.go:181): it is closed once, and never left open behind them.
THEOREM StreamsStayAccounted == Spec => []StreamsAccounted
<1>1. Init => StreamsAccounted
  BY DEF Init, StreamsAccounted
<1>2. ASSUME StreamsAccounted, [Next]_vars PROVE StreamsAccounted'
  <2>1. ASSUME NEW r \in Requests, ActivateManagement(r) PROVE StreamsAccounted'
    BY <1>2, <2>1 DEF ActivateManagement, StreamsAccounted
  <2>2. CASE CloseStreams \/ ShutdownManagement
    BY <1>2, <2>2 DEF CloseStreams, ShutdownManagement, CloseStreamChannel, StreamsAccounted
  <2>3. CASE UNCHANGED <<generation, streams, streamClosed, panicked>>
    BY <1>2, <2>3 DEF StreamsAccounted
  <2>4. ASSUME NEW r \in Requests, Step(r)
        PROVE  ActivateManagement(r) \/ UNCHANGED <<generation, streams, streamClosed, panicked>>
    <3> USE DEF handler
    <3>1. CASE Decode(r) \/ Lock(r) \/ Prepare(r) \/ Commit(r) \/ CommitFails(r) \/ Return(r)
      BY <3>1 DEF Decode, Lock, Prepare, Commit, CommitFails, Return
    <3>2. CASE \E plane \in Planes : PreparePlane(r, plane) \/ PreparePlaneFails(r, plane) \/ AbortPlan(r, plane)
      BY <3>2 DEF PreparePlane, PreparePlaneFails, AbortPlan
    <3>3. CASE ResizeHistory(r) \/ ApplyStorageSettings(r) \/ ActivateUDP(r) \/ RetireUDP(r) \/ ActivateTraffic(r)
      BY <3>3 DEF ResizeHistory, ApplyStorageSettings, ActivateUDP, RetireUDP, ActivateTraffic
    <3> QED BY <2>4, <3>1, <3>2, <3>3 DEF Step
  <2>5. CASE \/ (\E r \in Requests : Route(r)) \/ (\E socket \in bound : Drain(socket))
             \/ StopRequested \/ CloseTraffic \/ CloseUDP \/ Stopped \/ UNCHANGED vars
    BY <2>5, <2>3 DEF Route, Drain, StopRequested, CloseTraffic, CloseUDP, Stopped, vars, handler
  <2> QED BY <1>2, <2>1, <2>2, <2>3, <2>4, <2>5 DEF Next, Stop
<1> QED BY <1>1, <1>2, PTL DEF Spec
=============================================================================
