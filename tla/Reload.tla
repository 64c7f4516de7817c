------------------------------- MODULE Reload -------------------------------
(***************************************************************************)
(* Configuration updates of the management API and the reload of the three *)
(* planes (management, traffic, UDP) they cause, with the shutdown of the  *)
(* process beside them.                                                    *)
(*                                                                         *)
(* An update is serialised by a mutex of the handler instance that         *)
(* received it.  It prepares the change (config.Manager.Prepare), takes    *)
(* the transition lock of every plane whose settings change and binds the  *)
(* listeners they need, persists and swaps the value (Commit), applies the *)
(* history settings and then activates the planes.  A reload of the        *)
(* management plane installs a new handler instance, hence a new mutex: a  *)
(* request that reached the old instance runs beside those of the new one. *)
(***************************************************************************)
EXTENDS Naturals, FiniteSets, Functions

CONSTANTS
    Requests,     \* the goroutines that serve PUT /config and DELETE /config/overrides
    Lower,        \* the configuration below the UI overrides: defaults, YAML, environment
    Changes,      \* what a request may ask: [put, values, removals]
    Revisions,    \* what a client may send as the revision it expects
    MaxRevision,  \* bound: no request is routed once the revision is this high
    None          \* no address

Planes == {"management", "traffic", "udp"}
Fields == {"management", "auth", "traffic", "cors", "udp", "capacity", "retention"}

ASSUME LowerAssumption == DOMAIN Lower = Fields
ASSUME ChangesAssumption ==
    \A change \in Changes :
        /\ DOMAIN change.values \subseteq Fields
        /\ change.removals \subseteq Fields
        /\ change.put \in BOOLEAN
ASSUME RevisionsAssumption == Revisions \subseteq Nat

(***************************************************************************)
(* Values.                                                                 *)
(***************************************************************************)

\* applyOverrides over the lower configuration.
Effective(overrides) ==
    [field \in Fields |-> IF field \in DOMAIN overrides THEN overrides[field] ELSE Lower[field]]

\* Validate: each listener has an address and they differ; of the other rules for one
\* value, those of the numbers.
Valid(cfg) ==
    /\ cfg.capacity > 0 /\ cfg.retention >= 0
    /\ None \notin {cfg.management, cfg.traffic, cfg.udp.listen}
    /\ cfg.management # cfg.traffic
    /\ cfg.udp.listen \notin {cfg.management, cfg.traffic}

\* Load validates what it starts with.
ASSUME LowerValid == Valid(Lower)

\* The settings whose change makes an update reload a plane.
Part(plane, cfg) ==
    CASE plane = "management" -> [address |-> cfg.management, other |-> cfg.auth]
      [] plane = "traffic"    -> [address |-> cfg.traffic, other |-> cfg.cors]
      [] plane = "udp"        -> [address |-> IF cfg.udp.enabled THEN cfg.udp.listen ELSE None,
                                  other |-> cfg.udp]

VARIABLES
    \* config.Manager
    effective, overrides, revision, file,
    unplanned,    \* history: planes that a save which ran ahead changed without a plan
    \* the planes
    live,         \* live[p]: the settings plane p runs with
    bound,        \* listeners that are open, as <<plane, address>>
    draining,     \* replaced HTTP listeners their drain goroutine has not closed yet
    closed,       \* planes that were closed for good
    \* the management handler instances
    generation,   \* the newest instance
    routes,       \* routes[a]: the instance behind management listener a
    streams,      \* instances whose stream-shutdown channel is open
    streamClosed, \* managementPlane.streamClosed
    panicked,     \* a closed channel was closed again
    \* what an update applies after its commit
    capacity, retention, announced,
    \* the requests
    pc, instance, asked, current, prepared, plan,
    \* the shutdown sequence
    stopping

manager == <<effective, overrides, revision, file, unplanned>>
planes  == <<live, bound, draining, closed>>
handler == <<generation, routes, streams, streamClosed, panicked>>
applied == <<capacity, retention, announced>>
request == <<pc, instance, asked, current, prepared, plan>>
vars    == <<manager, planes, handler, applied, request, stopping>>

NoPlan == [plane \in {} |-> None]

Init ==
    /\ overrides = [field \in {} |-> None] /\ file = overrides
    /\ effective = Lower /\ revision = 1 /\ unplanned = {}
    /\ live = [plane \in Planes |-> Part(plane, Lower)]
    /\ bound = {<<plane, live[plane].address>> : plane \in Planes} \ {<<"udp", None>>}
    /\ draining = {} /\ closed = {}
    /\ generation = 0 /\ routes = [address \in {Lower.management} |-> 0]
    /\ streams = {0} /\ streamClosed = FALSE /\ panicked = FALSE
    /\ capacity = Lower.capacity /\ retention = Lower.retention /\ announced = 0
    /\ pc = [r \in Requests |-> "idle"]
    /\ instance = [r \in Requests |-> 0]
    /\ asked = [r \in Requests |-> None]
    /\ current = [r \in Requests |-> None]
    /\ prepared = [r \in Requests |-> None]
    /\ plan = [r \in Requests |-> NoPlan]
    /\ stopping = "running"

(***************************************************************************)
(* Locks.  A handler instance's configUpdateMutex is held from Lock to     *)
(* Return, a plane's transition lock as long as its plan is open.          *)
(***************************************************************************)
Outside == {"idle", "routed", "ready"}
MutexFree(g) == \A r \in Requests : instance[r] = g => pc[r] \in Outside
TransitionFree(plane) == \A r \in Requests : plane \notin DOMAIN plan[r]

At(r, from, to) == pc[r] = from /\ pc' = [pc EXCEPT ![r] = to]

(***************************************************************************)
(* A request reaches a handler instance through the listener it connected  *)
(* to; its body may arrive later.  Any revision is decoded, also one that  *)
(* does not exist yet: such a request runs ahead.                          *)
(***************************************************************************)
Route(r) ==
    /\ At(r, "idle", "routed")
    /\ revision < MaxRevision
    /\ \E address \in DOMAIN routes : instance' = [instance EXCEPT ![r] = routes[address]]
    /\ UNCHANGED <<manager, planes, handler, applied, asked, current, prepared, plan, stopping>>

Decode(r) ==
    /\ At(r, "routed", "ready")
    /\ \E change \in Changes, expected \in Revisions :
         asked' = [asked EXCEPT ![r] = [change |-> change, expected |-> expected,
                                        ahead |-> expected > revision]]
    /\ UNCHANGED <<manager, planes, handler, applied, instance, current, prepared, plan, stopping>>

(***************************************************************************)
(* applyConfigurationUpdate.                                               *)
(***************************************************************************)

\* Requests that do not wait for one another.
BugLock(r) ==
    /\ At(r, "ready", "prepare")
    /\ current' = [current EXCEPT ![r] = effective]
    /\ UNCHANGED <<manager, planes, handler, applied, instance, asked, prepared, plan, stopping>>

\* Lock, and for DELETE the look at the overrides: 404 when there is none to remove.
\* Then Manager.Current, a read of its own before Prepare: the two can find different
\* revisions, and what Prepare compares is the one the client sent.
Lock(r) ==
    /\ MutexFree(instance[r])
    /\ LET change == asked[r].change
           known  == change.put \/ change.removals \cap DOMAIN overrides # {}
       IN  At(r, "ready", IF known THEN "prepare" ELSE "return")
    /\ current' = [current EXCEPT ![r] = effective]
    /\ UNCHANGED <<manager, planes, handler, applied, instance, asked, prepared, plan, stopping>>

Target(r) == Effective(prepared[r])

\* Planes are prepared in this order and activated in reverse; a plane whose
\* settings stay is passed over.
Later(plane) == CASE plane = "management" -> {"traffic", "udp"}
                  [] plane = "traffic"    -> {"udp"}
                  [] plane = "udp"        -> {}
BugNextPlane(candidates, cfg, next) ==  \* only a new address reloads a plane
    LET due == {plane \in candidates : Part(plane, cfg).address # Part(plane, next).address}
    IN  IF due = {} THEN "commit"
        ELSE CHOOSE plane \in due : due \subseteq {plane} \cup Later(plane)
NextPlane(candidates, cfg, next) ==
    LET due == {plane \in candidates : Part(plane, cfg) # Part(plane, next)}
    IN  IF due = {} THEN "commit"
        ELSE CHOOSE plane \in due : due \subseteq {plane} \cup Later(plane)

\* Manager.Prepare: refused when the revision is stale or the result is not valid.
Prepare(r) ==
    LET change == asked[r].change
        kept   == Restrict(overrides, DOMAIN overrides \ (change.removals \cup DOMAIN change.values))
        next   == [field \in DOMAIN kept \cup DOMAIN change.values |->
                      IF field \in DOMAIN change.values THEN change.values[field] ELSE kept[field]]
        ok     == asked[r].expected = revision /\ Valid(Effective(next))
    IN  /\ At(r, "prepare",
              IF ok THEN NextPlane(Planes, current[r], Effective(next)) ELSE "abort")
        /\ prepared' = IF ok THEN [prepared EXCEPT ![r] = next] ELSE prepared
        /\ UNCHANGED <<manager, planes, handler, applied, instance, asked, current, plan, stopping>>

\* A listener is needed for a new address only; TCP listeners share one name space.
InUse(plane, address) ==
    \E socket \in bound : socket[2] = address /\ (plane = "udp" <=> socket[1] = "udp")
NeedsListener(r, plane) ==
    LET address == Part(plane, Target(r)).address
    IN  address # None /\ address # live[plane].address

\* A Prepare without the lock.
BugPreparePlane(r, plane) ==
    /\ At(r, plane, NextPlane(Later(plane), current[r], Target(r)))
    /\ plane \notin closed
    /\ LET address == Part(plane, Target(r)).address
           fresh   == IF NeedsListener(r, plane) THEN address ELSE None
       IN  /\ fresh # None => ~InUse(plane, fresh)
           /\ plan' = [plan EXCEPT ![r] =
                  [p \in DOMAIN plan[r] \cup {plane} |-> IF p = plane THEN fresh ELSE plan[r][p]]]
           /\ bound' = IF fresh = None THEN bound ELSE bound \cup {<<plane, fresh>>}
    /\ UNCHANGED <<manager, live, draining, closed, handler, applied, instance, asked, current,
                   prepared, stopping>>

\* The plane's Prepare: transition lock, then the listener.  The plan keeps the lock.
PreparePlane(r, plane) ==
    /\ At(r, plane, NextPlane(Later(plane), current[r], Target(r)))
    /\ TransitionFree(plane) /\ plane \notin closed
    /\ LET address == Part(plane, Target(r)).address
           fresh   == IF NeedsListener(r, plane) THEN address ELSE None
       IN  /\ fresh # None => ~InUse(plane, fresh)
           /\ plan' = [plan EXCEPT ![r] =
                  [p \in DOMAIN plan[r] \cup {plane} |-> IF p = plane THEN fresh ELSE plan[r][p]]]
           /\ bound' = IF fresh = None THEN bound ELSE bound \cup {<<plane, fresh>>}
    /\ UNCHANGED <<manager, live, draining, closed, handler, applied, instance, asked, current,
                   prepared, stopping>>

UpstreamNeeded(r, plane) ==
    plane = "udp" /\ Target(r).udp.enabled /\ Target(r).udp.mode = "proxy"

\* An address that is taken is waited for, with the plans that are open.
BugPreparePlaneFails(r, plane) ==
    \/ /\ At(r, plane, "abort")
       /\ TransitionFree(plane) /\ plane \in closed
       /\ UNCHANGED <<manager, planes, handler, applied, instance, asked, current, prepared, plan,
                      stopping>>
    \/ pc[r] = plane /\ NeedsListener(r, plane) /\ UNCHANGED vars

\* Its failures: the plane is closed, the address is taken (here or outside this
\* process) or the UDP upstream does not resolve.  The lock is given back at once.
PreparePlaneFails(r, plane) ==
    /\ At(r, plane, "abort")
    /\ TransitionFree(plane)
    /\ plane \in closed \/ NeedsListener(r, plane) \/ UpstreamNeeded(r, plane)
    /\ UNCHANGED <<manager, planes, handler, applied, instance, asked, current, prepared, plan,
                   stopping>>

\* The planes whose settings the save of r changes.
Changed(r) == {plane \in Planes : Part(plane, Target(r)) # Part(plane, effective)}

\* A commit with a plan for a plane makes up for an earlier one without.
Unplanned(r) ==
    (IF asked[r].ahead THEN unplanned \cup Changed(r) ELSE unplanned) \ DOMAIN plan[r]

\* A Commit that trusts the check of Prepare.
BugCommit(r) ==
    /\ At(r, "commit", "resize")
    /\ file' = prepared[r] /\ overrides' = prepared[r] /\ effective' = Target(r)
    /\ revision' = revision + 1 /\ unplanned' = Unplanned(r)
    /\ UNCHANGED <<planes, handler, applied, instance, asked, current, prepared, plan, stopping>>

\* PreparedUpdate.Commit: the revision once more, then the file and the value together.
Commit(r) ==
    /\ At(r, "commit", "resize")
    /\ asked[r].expected = revision
    /\ file' = prepared[r] /\ overrides' = prepared[r] /\ effective' = Target(r)
    /\ revision' = revision + 1 /\ unplanned' = Unplanned(r)
    /\ UNCHANGED <<planes, handler, applied, instance, asked, current, prepared, plan, stopping>>

\* A conflict, or persist failed at one of its steps before the rename.
CommitFails(r) ==
    /\ At(r, "commit", "abort")
    /\ UNCHANGED <<manager, planes, handler, applied, instance, asked, current, prepared, plan,
                   stopping>>

ResizeHistory(r) ==
    /\ At(r, "resize", "retention")
    /\ capacity' = Target(r).capacity
    /\ UNCHANGED <<manager, planes, handler, retention, announced, instance, asked, current,
                   prepared, plan, stopping>>

\* SetRetentionDays, then config.changed is published and the response written: no
\* step of the model tells the two apart.  The planes follow.
ApplyStorageSettings(r) ==
    /\ At(r, "retention", "activate")
    /\ retention' = Target(r).retention
    /\ announced' = asked[r].expected + 1
    /\ UNCHANGED <<manager, planes, handler, capacity, instance, asked, current, prepared, plan,
                   stopping>>

(***************************************************************************)
(* Activation, UDP first, then traffic, then management; Abort goes through *)
(* the open plans in the same order.                                       *)
(***************************************************************************)
Innermost(r, plane) ==
    /\ plane \in DOMAIN plan[r]
    /\ plane = "traffic" => "udp" \notin DOMAIN plan[r]
    /\ plane = "management" => DOMAIN plan[r] = {"management"}
Release(r, plane) == plan' = [plan EXCEPT ![r] = Restrict(plan[r], DOMAIN plan[r] \ {plane})]
Socket(plane, address) == IF address = None THEN {} ELSE {<<plane, address>>}
Replaced(r, plane) ==
    IF plan[r][plane] = None THEN {} ELSE {<<plane, live[plane].address>>}

\* The new settings, listener and session manager are installed together; the plan
\* then stands for the old listener, if it is given up.
ActivateUDP(r) ==
    LET next == Part("udp", Target(r))
        gone == IF live.udp.address = next.address THEN None ELSE live.udp.address
    IN  /\ At(r, "activate", "retire") /\ Innermost(r, "udp")
        /\ live' = [live EXCEPT !.udp = next]
        /\ plan' = [plan EXCEPT ![r].udp = gone]
        /\ UNCHANGED <<manager, bound, draining, closed, handler, applied, instance, asked, current,
                       prepared, stopping>>

\* Old sessions and listener are closed before the transition lock is released.
RetireUDP(r) ==
    /\ At(r, "retire", "activate")
    /\ bound' = bound \ Socket("udp", plan[r].udp)
    /\ Release(r, "udp")
    /\ UNCHANGED <<manager, live, draining, closed, handler, applied, instance, asked, current,
                   prepared, stopping>>

\* CORS, then a new server when there is a new listener; a goroutine drains the old one.
ActivateTraffic(r) ==
    /\ pc[r] = "activate" /\ Innermost(r, "traffic")
    /\ live' = [live EXCEPT !.traffic = Part("traffic", Target(r))]
    /\ draining' = draining \cup Replaced(r, "traffic")
    /\ Release(r, "traffic")
    /\ UNCHANGED <<manager, bound, closed, handler, applied, pc, instance, asked, current, prepared,
                   stopping>>

\* A new handler instance, whose authenticator takes its credentials from the
\* manager's current value and not from the plan.  Without a new listener it is
\* swapped in; the stream-shutdown channel of the old instance is closed.
ActivateManagement(r) ==
    LET next    == generation + 1
        address == Part("management", Target(r)).address
    IN  /\ pc[r] = "activate" /\ Innermost(r, "management")
        /\ generation' = next
        /\ live' = [live EXCEPT !.management = [address |-> address, other |-> effective.auth]]
        /\ routes' = [a \in DOMAIN routes \cup {address} |-> IF a = address THEN next ELSE routes[a]]
        /\ draining' = draining \cup Replaced(r, "management")
        /\ streams' = (IF streamClosed THEN streams ELSE streams \ {generation}) \cup {next}
        /\ panicked' = (panicked \/ (~streamClosed /\ generation \notin streams))
        /\ streamClosed' = FALSE
        /\ Release(r, "management")
        /\ UNCHANGED <<manager, bound, closed, applied, pc, instance, asked, current, prepared,
                       stopping>>

\* An Abort that only unlocks.
BugAbortPlan(r, plane) ==
    /\ pc[r] = "abort" /\ Innermost(r, plane)
    /\ Release(r, plane)
    /\ UNCHANGED <<manager, planes, handler, applied, pc, instance, asked, current, prepared, stopping>>

\* The deferred Aborts of an update that failed.
AbortPlan(r, plane) ==
    /\ pc[r] = "abort" /\ Innermost(r, plane)
    /\ bound' = bound \ Socket(plane, plan[r][plane])
    /\ Release(r, plane)
    /\ UNCHANGED <<manager, live, draining, closed, handler, applied, pc, instance, asked, current,
                   prepared, stopping>>

\* The handler returns and unlocks its instance's mutex; its variables are gone.
Return(r) ==
    /\ pc[r] \in {"activate", "abort", "return"} /\ DOMAIN plan[r] = {}
    /\ pc' = [pc EXCEPT ![r] = "idle"]
    /\ instance' = [instance EXCEPT ![r] = 0]
    /\ asked' = [asked EXCEPT ![r] = None]
    /\ current' = [current EXCEPT ![r] = None]
    /\ prepared' = [prepared EXCEPT ![r] = None]
    /\ UNCHANGED <<manager, planes, handler, applied, plan, stopping>>

\* The drain goroutine of a replaced HTTP server closes its listener.
Drain(socket) ==
    /\ socket \in draining
    /\ bound' = bound \ {socket} /\ draining' = draining \ {socket}
    /\ routes' = IF socket[1] = "management" THEN Restrict(routes, DOMAIN routes \ {socket[2]})
                 ELSE routes
    /\ UNCHANGED <<manager, live, closed, generation, streams, streamClosed, panicked, applied,
                   request, stopping>>

(***************************************************************************)
(* Shutdown: management streams, traffic, UDP, (SQLite,) management.  Each *)
(* step takes the plane's transition lock.                                 *)
(***************************************************************************)
Stopping(plane, from, to) == stopping = from /\ TransitionFree(plane) /\ stopping' = to

\* Without the flag.
BugCloseStreamChannel ==
    /\ streamClosed' = TRUE
    /\ streams' = streams \ {generation}
    /\ panicked' = (panicked \/ generation \notin streams)

\* What closing the stream-shutdown channel does, when it was not closed yet.
CloseStreamChannel ==
    /\ streamClosed' = TRUE
    /\ streams' = IF streamClosed THEN streams ELSE streams \ {generation}
    /\ panicked' = (panicked \/ (~streamClosed /\ generation \notin streams))

StopRequested ==
    /\ stopping = "running" /\ stopping' = "requested"
    /\ UNCHANGED <<manager, planes, handler, applied, request>>

CloseStreams ==
    /\ Stopping("management", "requested", "streams")
    /\ CloseStreamChannel
    /\ UNCHANGED <<manager, planes, generation, routes, applied, request>>

\* Every server of the plane is closed, those still draining too.
ClosePlane(plane) ==
    /\ closed' = closed \cup {plane}
    /\ bound' = {socket \in bound : socket[1] # plane}
    /\ draining' = {socket \in draining : socket[1] # plane}

CloseTraffic ==
    /\ Stopping("traffic", "streams", "traffic")
    /\ ClosePlane("traffic")
    /\ UNCHANGED <<manager, live, handler, applied, request>>

CloseUDP ==
    /\ Stopping("udp", "traffic", "udp")
    /\ ClosePlane("udp")
    /\ UNCHANGED <<manager, live, handler, applied, request>>

ShutdownManagement ==
    /\ Stopping("management", "udp", "stopped")
    /\ ClosePlane("management") /\ CloseStreamChannel
    /\ routes' = [address \in {} |-> 0]
    /\ UNCHANGED <<manager, live, generation, applied, request>>

\* The process may stay stopped.
Stopped ==
    /\ stopping = "stopped" /\ \A r \in Requests : pc[r] = "idle"
    /\ UNCHANGED vars

Step(r) ==
    \/ Decode(r) \/ Lock(r) \/ Prepare(r)
    \/ \E plane \in Planes : \/ PreparePlane(r, plane)
                             \/ PreparePlaneFails(r, plane) \/ AbortPlan(r, plane)
    \/ Commit(r) \/ CommitFails(r)
    \/ ResizeHistory(r) \/ ApplyStorageSettings(r)
    \/ ActivateUDP(r) \/ RetireUDP(r) \/ ActivateTraffic(r) \/ ActivateManagement(r)
    \/ Return(r)
Stop == CloseStreams \/ CloseTraffic \/ CloseUDP \/ ShutdownManagement

Next ==
    \/ \E r \in Requests : Route(r) \/ Step(r)
    \/ \E socket \in bound : Drain(socket)
    \/ StopRequested \/ Stop \/ Stopped

\* Goroutines run on; Go's mutexes hand over to a waiter that was overtaken too long,
\* so a lock that is free again and again is obtained.
Fairness ==
    /\ \A r \in Requests : SF_vars(Step(r))
    /\ SF_vars(Stop)

Spec == Init /\ [][Next]_vars /\ Fairness

(***************************************************************************)
(* Properties.                                                             *)
(***************************************************************************)
Committed == {"resize", "retention", "activate", "retire"}
Preparing == {"management", "traffic", "udp", "commit"}

\* Types, and which variables a request has set where it stands (handler.go:330-412).
TypeOK ==
    /\ revision \in Nat \ {0}
    /\ effective = Effective(overrides)
    /\ DOMAIN live = Planes /\ closed \subseteq Planes
    /\ draining \subseteq bound /\ generation \in Nat
    /\ \A address \in DOMAIN routes : routes[address] \in 0..generation
    /\ \A r \in Requests :
         /\ DOMAIN plan[r] \subseteq Planes
         /\ pc[r] \notin Committed \cup Preparing \cup {"abort"} => plan[r] = NoPlan
         /\ pc[r] \notin {"idle", "routed"} => asked[r].expected \in Revisions
         /\ pc[r] \in Preparing \cup Committed => DOMAIN prepared[r] \subseteq Fields

\* A plane runs with the committed settings or is about to: the request that
\* committed them still holds its plan and transition lock.
Follows(plane) ==
    \/ live[plane] = Part(plane, effective)
    \/ \E r \in Requests : /\ pc[r] \in Committed /\ plane \in DOMAIN plan[r]
                           /\ Part(plane, Target(r)) = Part(plane, effective)

\* Every plane follows, whatever two handler instances, failures, aborts and the
\* shutdown do.  A plane is left behind in one way: besides a newer handler instance a
\* client sent a revision that did not exist yet, so that its update compared with
\* settings older than those it replaced (handler.go:331-332) and had no plan.
\* The next save with a plan for the plane ends that.
PlanesFollow ==
    \A plane \in Planes : Follows(plane) \/ (plane \in unplanned /\ generation > 0)

\* Every open listener is a plane's own, that of one open plan, or one being drained:
\* no return path of Prepare, Activate, Abort and Close leaks one or closes one in use.
ListenersAccounted ==
    bound = (UNION {Socket(plane, live[plane].address) : plane \in Planes \ closed})
            \cup draining
            \cup (UNION {UNION {Socket(plane, plan[r][plane]) : plane \in DOMAIN plan[r]} :
                            r \in Requests})

\* Only the newest handler instance may have event streams, none once streams are
\* closed, and no stream-shutdown channel is closed twice, which would panic.
StreamsAccounted ==
    /\ streams = IF streamClosed THEN {} ELSE {generation}
    /\ ~panicked

\* A save never undoes another one: it changes the overrides it names and no other,
\* although the values it is merged with were read long before (optimistic revisions).
NoLostUpdate ==
    [][overrides' # overrides =>
         \E r \in Requests : pc[r] = "commit" /\ pc'[r] = "resize" /\ \A field \in Fields :
             \/ field \in asked[r].change.removals \cup DOMAIN asked[r].change.values
             \/ /\ field \in DOMAIN overrides' <=> field \in DOMAIN overrides
                /\ field \in DOMAIN overrides => overrides'[field] = overrides[field]]_vars

\* The planes follow the committed configuration one save at a time (PlaneSettings),
\* but for those a save that ran ahead changed without a plan.
Promise == INSTANCE PlaneSettings WITH committed <- effective
ImplementsPromise == Promise!Spec

\* An update that holds the mutex or waits for it is answered, whatever the other
\* handler instance does, and the shutdown gets past every reload.
NothingHangs ==
    /\ \A r \in Requests : pc[r] = "ready" ~> pc[r] = "idle"
    /\ stopping = "requested" ~> stopping = "stopped"

\* "History capacity changes apply immediately" (docs/api-v1.md:63): with no update
\* between its commit and its resize, RAM has the committed capacity.  The mutex that
\* orders the resizes like the commits is that of one handler instance; once a
\* management reload has installed a second one, the property fails.
CapacityFollows ==
    generation = 0 /\ (\A r \in Requests : pc[r] # "resize") => capacity = effective.capacity
=============================================================================
