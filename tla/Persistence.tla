---------------------------- MODULE Persistence ----------------------------
(***************************************************************************)
(* The SQLite repository of internal/sqlite/repository.go: reservations    *)
(* taken by traffic, the buffered channel `writes`, the single writer      *)
(* goroutine that batches it into transactions, the control operations     *)
(* (delete, clear, cleanup, compact, vacuum) that share that goroutine,    *)
(* the maintenance flag, and the goroutine that closes the repository.     *)
(*                                                                         *)
(* An exchange is an element of Ids and makes at most one reservation, as  *)
(* one exchange does in the pipeline.  Exchange contents are abstracted to *)
(* the completion time that cleanup compares with its cutoff and to the    *)
(* bytes the reservation counts.  Metrics, latencies and the recorded last *)
(* error are left out: nothing in the repository reads them.               *)
(***************************************************************************)
EXTENDS Naturals, FiniteSets, SequencesExt

CONSTANTS
    Ids,                \* exchanges that may ask for durable storage
    Callers,            \* goroutines that run control operations
    NoCaller,           \* nobody waits for the running control operation
    QueueCount,         \* Options.QueueCount, also the capacity of `writes`
    QueueBytes,         \* Options.QueueBytes
    BatchSize,          \* Options.BatchSize
    CleanupBatchSize,   \* Options.CleanupBatchSize
    Bytes,              \* bytes reserved by each exchange
    CompletedAt,        \* completion time of each exchange
    Cutoffs             \* cutoffs a cleanup may compute from keep_days

ASSUME IdsFinite == IsFiniteSet(Ids)
ASSUME CallerAssumption == NoCaller \notin Callers
\* applyDefaults replaces every non-positive option (lines 192-217).
ASSUME OptionsAssumption ==
    /\ QueueCount \in Nat \ {0}
    /\ QueueBytes \in Nat \ {0}
    /\ BatchSize \in Nat \ {0}
    /\ CleanupBatchSize \in Nat \ {0}
ASSUME DataAssumption ==
    /\ Bytes \in [Ids -> Nat]
    /\ CompletedAt \in [Ids -> Nat]
    /\ Cutoffs \subseteq Nat

VARIABLES
    st,             \* where each exchange stands, see Stages
    accepting,      \* Repository.accepting
    reservedCount,  \* Repository.reservedCount
    reservedBytes,  \* Repository.reservedBytes
    maintenance,    \* Repository.maintenance, "none" for ""
    writes,         \* the buffered channel Repository.writes
    wpc,            \* where the writer goroutine is
    batch,          \* the batch it still has to settle
    batchOk,        \* whether the transaction of `batch` committed
    control,        \* the control operation it runs
    call,           \* what each caller of a control operation is doing
    closer,         \* how far finishClose has come
    rows            \* the ids in the table `exchanges`

resources == <<accepting, reservedCount, reservedBytes>>
writerVars == <<wpc, batch, batchOk, control>>
vars == <<st, resources, maintenance, writes, writerVars, call, closer, rows>>

-----------------------------------------------------------------------------
(***************************************************************************)
(* none      no reservation yet         notifying  released, before OnWrite*)
(* held      a live Reservation         persisted  OnWrite(id, nil), or    *)
(* queued    in `writes`                           read back from a row    *)
(* batched   taken by the writer        failed     OnWrite(id, err)        *)
(* cancelled Cancel, or ErrQueueFull    lost       the process died first  *)
(***************************************************************************)
Counted   == {"held", "queued", "batched"}
Undecided == Counted \cup {"notifying"}
Settled   == {"cancelled", "persisted", "failed", "lost"}
Stages    == {"none"} \cup Undecided \cup Settled

Exclusive == {"cleanup", "compact", "vacuum"}    \* use beginMaintenance
ControlOps == Exclusive \cup {"delete", "clear"}

Requests == [op : ControlOps, targets : SUBSET Ids, caller : Callers \cup {NoCaller}]
CallPcs  == {"idle", "drain", "send", "await", "again", "cleaned", "end"}
Calls    == [pc : CallPcs, op : ControlOps, targets : SUBSET Ids]

NoRequest == [op |-> "compact", targets |-> {}, caller |-> NoCaller]
NoCall    == [pc |-> "idle", op |-> "compact", targets |-> {}]

TypeOK ==
    /\ st \in [Ids -> Stages]
    /\ accepting \in BOOLEAN
    /\ reservedCount \in 0..QueueCount
    /\ reservedBytes \in 0..QueueBytes
    /\ maintenance \in Exclusive \cup {"none"}
    /\ writes \in Seq(Ids)
    /\ wpc \in {"select", "collect", "tx", "release", "notify", "control", "stopped"}
    /\ batch \in Seq(Ids)
    /\ batchOk \in BOOLEAN
    /\ control \in Requests
    /\ call \in [Callers -> Calls]
    /\ closer \in {"open", "draining", "stopping", "closed"}
    /\ rows \in SUBSET Ids

Init ==
    /\ st = [i \in Ids |-> "none"]
    /\ accepting = TRUE
    /\ reservedCount = 0
    /\ reservedBytes = 0
    /\ maintenance = "none"
    /\ writes = <<>>
    /\ wpc = "select"
    /\ batch = <<>>
    /\ batchOk = TRUE
    /\ control = NoRequest
    /\ call = [c \in Callers |-> NoCall]
    /\ closer = "open"
    /\ rows = {}

-----------------------------------------------------------------------------
(* Reservations.  A refused Reserve changes nothing here.  Operators named  *)
(* Bug... are mutants: faults the properties below must notice.            *)

FitsCount == reservedCount < QueueCount
FitsBytes(i) == reservedBytes + Bytes[i] <= QueueBytes

BugAdmitBeyondBytes(i) == accepting /\ maintenance # "vacuum" /\ FitsCount
BugAdmitAfterClose(i)  == maintenance # "vacuum" /\ FitsCount /\ FitsBytes(i)
BugAdmitInVacuum(i)    == accepting /\ FitsCount /\ FitsBytes(i)

Admits(i) == accepting /\ maintenance # "vacuum" /\ FitsCount /\ FitsBytes(i)

Reserve(i) ==
    /\ st[i] = "none"
    /\ Admits(i)
    /\ reservedCount' = reservedCount + 1
    /\ reservedBytes' = reservedBytes + Bytes[i]
    /\ st' = [st EXCEPT ![i] = "held"]
    /\ UNCHANGED <<accepting, maintenance, writes, writerVars, call, closer, rows>>

\* release clamps both counters at zero.
Less(total, amount) == IF amount <= total THEN total - amount ELSE 0

BugReleaseBytesOnly(i) ==
    reservedBytes' = Less(reservedBytes, Bytes[i]) /\ UNCHANGED <<accepting, reservedCount>>
BugReleaseCountOnly(i) ==
    reservedCount' = Less(reservedCount, 1) /\ UNCHANGED <<accepting, reservedBytes>>

Release(i) ==
    /\ reservedCount' = Less(reservedCount, 1)
    /\ reservedBytes' = Less(reservedBytes, Bytes[i])
    /\ UNCHANGED accepting

BugCommitReleases(i) ==
    /\ st[i] = "held"
    /\ writes' = Append(writes, i)
    /\ st' = [st EXCEPT ![i] = "queued"]
    /\ Release(i)
    /\ UNCHANGED <<maintenance, writerVars, call, closer, rows>>

\* The compare-and-swap on `done` and the non-blocking send that follows it.
Commit(i) ==
    /\ st[i] = "held"
    /\ IF Len(writes) < QueueCount
       THEN /\ writes' = Append(writes, i)
            /\ st' = [st EXCEPT ![i] = "queued"]
            /\ UNCHANGED resources
       ELSE /\ st' = [st EXCEPT ![i] = "cancelled"]
            /\ Release(i)
            /\ UNCHANGED writes
    /\ UNCHANGED <<maintenance, writerVars, call, closer, rows>>

Cancel(i) ==
    /\ st[i] = "held"
    /\ st' = [st EXCEPT ![i] = "cancelled"]
    /\ Release(i)
    /\ UNCHANGED <<maintenance, writes, writerVars, call, closer, rows>>

-----------------------------------------------------------------------------
(* The writer goroutine: runWriter, collectBatch, writeBatch. *)

BugTakeItemInFront ==
    /\ writes # <<>>
    /\ batch' = <<Head(writes)>> \o batch
    /\ writes' = Tail(writes)
    /\ st' = [st EXCEPT ![Head(writes)] = "batched"]
    /\ UNCHANGED <<resources, maintenance, batchOk, control, call, closer, rows>>

TakeItem ==
    /\ writes # <<>>
    /\ batch' = Append(batch, Head(writes))
    /\ writes' = Tail(writes)
    /\ st' = [st EXCEPT ![Head(writes)] = "batched"]
    /\ UNCHANGED <<resources, maintenance, batchOk, control, call, closer, rows>>

TakeFirst ==
    /\ wpc = "select"
    /\ TakeItem
    /\ wpc' = "collect"

CollectMore ==
    /\ wpc = "collect"
    /\ Len(batch) < BatchSize
    /\ TakeItem
    /\ UNCHANGED wpc

\* The batch is full, the flush timer fires, or `closing` is closed.
CollectEnd ==
    /\ wpc = "collect"
    /\ wpc' = "tx"
    /\ UNCHANGED <<st, resources, maintenance, writes, batch, batchOk, control,
                   call, closer, rows>>

BugNoRollback == \E n \in 0..Len(batch) :
    /\ batchOk' = (n = Len(batch))
    /\ rows' = rows \cup ToSet(SubSeq(batch, 1, n))
    /\ wpc' = "release"
BugReturnOnError == \E ok \in BOOLEAN :
    /\ batchOk' = ok
    /\ rows' = IF ok THEN rows \cup ToSet(batch) ELSE rows
    /\ wpc' = IF ok THEN "release" ELSE "stopped"

\* One transaction: every item of the batch is written, or none is.
Transact == \E ok \in BOOLEAN :
    /\ batchOk' = ok
    /\ rows' = IF ok THEN rows \cup ToSet(batch) ELSE rows
    /\ wpc' = "release"

WriteBatch ==
    /\ wpc = "tx"
    /\ Transact
    /\ UNCHANGED <<st, resources, maintenance, writes, batch, control, call, closer>>

ReleaseItem ==
    /\ wpc = "release"
    /\ Release(Head(batch))
    /\ st' = [st EXCEPT ![Head(batch)] = "notifying"]
    /\ wpc' = "notify"
    /\ UNCHANGED <<maintenance, writes, batch, batchOk, control, call, closer, rows>>

BugOutcome == "persisted"

\* What OnWrite(id, err) reports of every item of the batch.
Outcome == IF batchOk THEN "persisted" ELSE "failed"

\* OnWrite(id, err), then the next item of the batch or the next select.
NotifyItem ==
    /\ wpc = "notify"
    /\ st' = [st EXCEPT ![Head(batch)] = Outcome]
    /\ batch' = Tail(batch)
    /\ IF Len(batch) = 1
       THEN wpc' = "select" /\ batchOk' = TRUE    \* err is local to writeBatch
       ELSE wpc' = "release" /\ UNCHANGED batchOk
    /\ UNCHANGED <<resources, maintenance, writes, control, call, closer, rows>>

Stop ==
    /\ wpc = "select"
    /\ closer = "stopping"
    /\ wpc' = "stopped"
    /\ UNCHANGED <<st, resources, maintenance, writes, batch, batchOk, control,
                   call, closer, rows>>

-----------------------------------------------------------------------------
(* Control operations.  An operation that uses the maintenance flag leaves *)
(* through "end", where its deferred endMaintenance runs.                  *)

Leave(c) == IF call[c].op \in Exclusive
            THEN [pc |-> "end", op |-> call[c].op, targets |-> {}] ELSE NoCall

Begin(c, op, targets, pc) ==
    /\ call[c].pc = "idle"
    /\ call' = [call EXCEPT ![c] = [pc |-> pc, op |-> op, targets |-> targets]]
    /\ UNCHANGED <<st, resources, writes, writerVars, closer, rows>>

Delete(c, i) == Begin(c, "delete", {i}, "send") /\ UNCHANGED maintenance

Clear(c) == Begin(c, "clear", Ids, "send") /\ UNCHANGED maintenance

BugBeginUnchecked(op) == maintenance' = op

\* The guard of beginMaintenance; a busy repository returns at once.
BeginMaintenance(op) ==
    /\ maintenance = "none"
    /\ maintenance' = op

\* The cutoff is computed by CleanupPreview, before beginMaintenance.
Cleanup(c, cutoff) ==
    /\ Begin(c, "cleanup", {i \in Ids : CompletedAt[i] < cutoff}, "send")
    /\ BeginMaintenance("cleanup")

Compact(c) == Begin(c, "compact", {}, "send") /\ BeginMaintenance("compact")

Vacuum(c) == Begin(c, "vacuum", {}, "drain") /\ BeginMaintenance("vacuum")

EndMaintenance(c) ==
    /\ call[c].pc = "end"
    /\ call' = [call EXCEPT ![c] = NoCall]
    /\ maintenance' = "none"
    /\ UNCHANGED <<st, resources, writes, writerVars, closer, rows>>

\* waitForReservations of Vacuum, then the free-space check.
Drained(c) ==
    /\ call[c].pc = "drain"
    /\ reservedCount = 0
    /\ \E enoughSpace \in BOOLEAN :
        call' = [call EXCEPT ![c].pc = IF enoughSpace THEN "send" ELSE "end"]
    /\ UNCHANGED <<st, resources, maintenance, writes, writerVars, closer, rows>>

\* The request context ends while the caller waits; a request the writer
\* already took keeps running, and nobody reads its result.
GiveUp(c) ==
    /\ call[c].pc \in {"drain", "send", "await", "again", "cleaned"}
    /\ call' = [call EXCEPT ![c] = Leave(c)]
    /\ control' = IF control.caller = c THEN [control EXCEPT !.caller = NoCaller]
                                        ELSE control
    /\ UNCHANGED <<st, resources, maintenance, writes, wpc, batch, batchOk, closer, rows>>

BugNeverClosed(c) == FALSE /\ UNCHANGED vars

\* control returns ErrClosed once `stop` is closed.
ControlClosed(c) ==
    /\ call[c].pc = "send"
    /\ closer \in {"stopping", "closed"}
    /\ call' = [call EXCEPT ![c] = Leave(c)]
    /\ UNCHANGED <<st, resources, maintenance, writes, writerVars, closer, rows>>

\* The rendezvous on the unbuffered channel `controls`.
TakeControl(c) ==
    /\ wpc = "select"
    /\ call[c].pc = "send"
    /\ control' = [op |-> call[c].op, targets |-> call[c].targets, caller |-> c]
    /\ call' = [call EXCEPT ![c].pc = "await"]
    /\ wpc' = "control"
    /\ UNCHANGED <<st, resources, maintenance, writes, batch, batchOk, closer, rows>>

\* Oldest(S, n): the sets of the n oldest elements of S.
Oldest(S, n) ==
    {D \in SUBSET S : /\ Cardinality(D) = n
                      /\ \A d \in D, k \in S \ D : CompletedAt[d] <= CompletedAt[k]}

\* The rows one control statement may delete.
Deletions(request) ==
    LET matching == rows \cap request.targets
    IN  IF request.op = "cleanup" /\ Cardinality(matching) > CleanupBatchSize
        THEN Oldest(matching, CleanupBatchSize)
        ELSE {matching}

BugAfterSuccess(c, deleted) ==
    IF call[c].op # "cleanup" THEN Leave(c)
    ELSE [call[c] EXCEPT !.pc =
              IF Cardinality(deleted) <= CleanupBatchSize THEN "cleaned" ELSE "again"]

\* Where the caller goes with a result: a full cleanup batch asks for another.
AfterSuccess(c, deleted) ==
    IF call[c].op # "cleanup" THEN Leave(c)
    ELSE [call[c] EXCEPT !.pc =
              IF Cardinality(deleted) < CleanupBatchSize THEN "cleaned" ELSE "again"]

Deliver(next) ==
    call' = IF control.caller = NoCaller THEN call
            ELSE [call EXCEPT ![control.caller] = next]

ControlSucceeds ==
    /\ wpc = "control"
    /\ \E deleted \in Deletions(control) :
        /\ rows' = rows \ deleted
        /\ Deliver(AfterSuccess(control.caller, deleted))
    /\ wpc' = "select"
    /\ control' = NoRequest
    /\ UNCHANGED <<st, resources, maintenance, writes, batch, batchOk, closer>>

ControlFails ==
    /\ wpc = "control"
    /\ Deliver(Leave(control.caller))
    /\ wpc' = "select"
    /\ control' = NoRequest
    /\ UNCHANGED <<st, resources, maintenance, writes, batch, batchOk, closer, rows>>

\* Cleanup after a full batch whose context is still live.
CleanupAgain(c) ==
    /\ call[c].pc = "again"
    /\ call' = [call EXCEPT ![c].pc = "send"]
    /\ UNCHANGED <<st, resources, maintenance, writes, writerVars, closer, rows>>

\* OnCleanup runs in the caller, still inside its maintenance section.
OnCleanup(c) ==
    /\ call[c].pc = "cleaned"
    /\ call' = [call EXCEPT ![c] = Leave(c)]
    /\ UNCHANGED <<st, resources, maintenance, writes, writerVars, closer, rows>>

-----------------------------------------------------------------------------
(* finishClose, and a new process over the same database file. *)

\* accepting = false under the mutex; `closing` only shortens a batch.
CloseBegin ==
    /\ closer = "open"
    /\ accepting' = FALSE
    /\ closer' = "draining"
    /\ UNCHANGED <<st, reservedCount, reservedBytes, maintenance, writes, writerVars,
                   call, rows>>

CloseStop ==
    /\ closer = "draining"
    /\ reservedCount = 0
    /\ closer' = "stopping"
    /\ UNCHANGED <<st, resources, maintenance, writes, writerVars, call, rows>>

CloseDone ==
    /\ closer = "stopping"
    /\ wpc = "stopped"
    /\ closer' = "closed"
    /\ UNCHANGED <<st, resources, maintenance, writes, writerVars, call, rows>>

\* The process ends, at any point or after Close, and Open starts another:
\* only committed rows survive, and a row is read back as persisted.
Restart ==
    /\ st' = [i \in Ids |-> IF i \in rows THEN "persisted"
                            ELSE IF st[i] \in Undecided THEN "lost" ELSE st[i]]
    /\ accepting' = TRUE
    /\ reservedCount' = 0
    /\ reservedBytes' = 0
    /\ maintenance' = "none"
    /\ writes' = <<>>
    /\ wpc' = "select"
    /\ batch' = <<>>
    /\ batchOk' = TRUE
    /\ control' = NoRequest
    /\ call' = [c \in Callers |-> NoCall]
    /\ closer' = "open"
    /\ UNCHANGED rows

-----------------------------------------------------------------------------
Traffic(i) == Reserve(i) \/ Commit(i) \/ Cancel(i)

Writer == \/ TakeFirst \/ CollectMore \/ CollectEnd \/ WriteBatch
          \/ ReleaseItem \/ NotifyItem \/ ControlSucceeds \/ ControlFails \/ Stop

Request(c) == \/ \E i \in Ids : Delete(c, i)
              \/ Clear(c)
              \/ \E cutoff \in Cutoffs : Cleanup(c, cutoff)
              \/ Compact(c)
              \/ Vacuum(c)

Proceed(c) == \/ Drained(c) \/ ControlClosed(c) \/ CleanupAgain(c)
              \/ OnCleanup(c) \/ EndMaintenance(c)

Close == CloseBegin \/ CloseStop \/ CloseDone

Next == \/ \E i \in Ids : Traffic(i)
        \/ Writer
        \/ \E c \in Callers : Request(c) \/ Proceed(c) \/ GiveUp(c) \/ TakeControl(c)
        \/ Close
        \/ Restart

(***************************************************************************)
(* Fairness.  Goroutines that can run do run (weak fairness).  The select  *)
(* of runWriter picks uniformly among ready cases, so neither `writes`, nor *)
(* `stop`, nor a waiting control request is passed over for ever (strong   *)
(* fairness).                                                              *)
(* A handler that holds a reservation ends, and its deferred Cancel or its *)
(* Commit runs.  Nothing is assumed of Reserve, of requests for control    *)
(* operations, of GiveUp, of CloseBegin or of Restart.                     *)
(***************************************************************************)
Fairness ==
    /\ WF_vars(Writer)
    /\ SF_vars(TakeFirst)
    /\ SF_vars(Stop)
    /\ \A i \in Ids : WF_vars(Commit(i) \/ Cancel(i))
    /\ \A c \in Callers : WF_vars(Proceed(c)) /\ SF_vars(TakeControl(c))
    /\ WF_vars(CloseStop \/ CloseDone)

Spec == Init /\ [][Next]_vars

FairSpec == Spec /\ Fairness

-----------------------------------------------------------------------------
(* Properties. *)

Holding == {i \in Ids : st[i] \in Counted}

\* `reservedCount` is the number of exchanges between Reserve and release, in
\* every interleaving of traffic and writer: no path releases twice or forgets.
CountAccounting == reservedCount = Cardinality(Holding)

\* `reservedBytes` is the sum of their reservations, under the same hazard.
BytesAccounting == reservedBytes = MapThenSumSet(LAMBDA i : Bytes[i], Holding)

\* An exchange that holds a reservation always finds room in `writes`: the
\* ErrQueueFull branch of Commit, which drops a finished exchange, never runs.
CommitFindsRoom == \A i \in Ids : st[i] = "held" => Len(writes) < QueueCount

\* Close never strands an admitted exchange: once `stop` is closed no
\* reservation, queued item or unreleased batch item exists, and once the
\* database is closed the writer has ended and every OnWrite has run.
CloseSettlesAll ==
    /\ closer \in {"stopping", "closed"} => Holding = {}
    /\ closer = "closed" => /\ wpc = "stopped"
                            /\ \A i \in Ids : st[i] \notin Undecided

\* While VACUUM runs for a caller that still waits, no traffic holds a
\* reservation: maintenance refuses new ones and the old ones have drained.
VacuumExclusive ==
    wpc = "control" /\ control.op = "vacuum" /\ control.caller # NoCaller
        => Holding = {}

InSection(c) == call[c].pc # "idle" /\ call[c].op \in Exclusive

\* At most one caller is between beginMaintenance and endMaintenance, the flag
\* names its operation, and nobody else's endMaintenance clears it.
MaintenanceExclusive ==
    /\ \A c, d \in Callers : InSection(c) /\ InSection(d) => c = d
    /\ \A c \in Callers : InSection(c) => maintenance = call[c].op
    /\ maintenance # "none" => \E c \in Callers : InSection(c)

\* When OnWrite is about to report a batch, the table agrees with the report:
\* all of the batch is in it or none, and no deletion came in between.
ReportMatchesRows ==
    wpc \in {"release", "notify"} => \A i \in ToSet(batch) : (i \in rows) = batchOk

\* Exchanges are settled in the order they were committed: the items the writer
\* has not settled only lose their head, gain a tail, or vanish in a restart.
Pending == batch \o writes
SettledInCommitOrder ==
    [][ \/ Pending' = <<>>
        \/ Pending # <<>> /\ Pending' = Tail(Pending)
        \/ \E i \in Ids : Pending' = Append(Pending, i) ]_Pending

\* When Cleanup stops asking for batches, no row older than its cutoff is left,
\* however rows were added between its batches.
CleanupFinishes ==
    [][\A c \in Callers : call[c].pc # "cleaned" /\ call'[c].pc = "cleaned"
                              => rows' \cap call[c].targets = {}]_vars

\* A caller of a control operation gets back, whatever the order of traffic,
\* other callers and Close: none waits for a writer that has stopped.
CallersReturn == \A c \in Callers : call[c].pc # "idle" ~> call[c].pc = "idle"

\* Close ends although it waits without a deadline (unless a restart cuts it).
CloseEnds == closer = "draining" ~> closer \in {"closed", "open"}

(***************************************************************************)
(* The promise of DurableHistory, read off the repository's state.         *)
(***************************************************************************)
Phase(i) ==
    IF i \in rows THEN "stored"
    ELSE IF st[i] \in Undecided THEN "pending"
    ELSE IF st[i] = "none" THEN "absent"
    ELSE IF st[i] = "persisted" THEN "erased"
    ELSE "dropped"

History == INSTANCE DurableHistory WITH phase <- [i \in Ids |-> Phase(i)]

\* The repository implements DurableHistory's safety part: a row appears once,
\* with its whole batch, only for a reserved exchange, and what OnWrite reports
\* persisted is in the table until a control operation erases it.
ImplementsHistory == History!DurableSafety

\* It implements DurableHistory with its liveness: whatever reserved room is
\* eventually reported or lost with the process, even when control operations
\* keep competing for the writer.
ImplementsLiveHistory == History!DurableSpec
=============================================================================
